----------------------------- MODULE Accounts -----------------------------
(* Logins, second factors, changes of password and revocations of one account, *)
(* made by requests that overlap (routes/tokens.js, routes/oidc.js,            *)
(* routes/users.js, internal/token.js, internal/mfa.js, internal/user.js,      *)
(* models/auth.js).                                                            *)
EXTENDS SecondFactors

CONSTANT Scenes  \* bound: which requests are made, and how the account starts

VARIABLES
    linked,  \* the auth row of type oidc: its identity logs in to the account
    scene,   \* how the account started, OIDC_SKIP_MFA, and whether one request may fail
    crossed  \* history: a factor was set up or changed while one was removed

vars == <<now, sessions, held, account, req, ended, closed, factors, codes, linked, scene,
          crossed>>
sessionVars == <<now, sessions, held, account, ended, closed>>
factorVars == <<factors, codes>>
others == <<linked, scene, crossed>>

NeedsSession == {"refresh", "setup", "enable", "disable", "regenerate", "password", "revoke"}
Administers == {"reset", "suspend", "readmit", "remove", "expel"}
Kinds == {"login", "oidc", "second", "logout"} \cup NeedsSession \cup Administers
Removing == {"disable", "reset"}
Changing == {"setup", "enable", "regenerate"}

ASSUME SceneAssumption ==
    Scenes \subseteq [kinds : [Requests -> Kinds], mfa : BOOLEAN, legacy : BOOLEAN,
                      faulty : BOOLEAN, skip : BOOLEAN]

Idle(kind) ==
    [kind |-> kind, pc |-> "todo", token |-> NoToken, other |-> NoToken, code |-> NoCode,
     typed |-> First, cutoff |-> 0, iat |-> 0, nth |-> 1, scope |-> "user",
     row |-> First, spent |-> NoCode]

Init ==
    \E s \in Scenes :
        /\ now = 1
        /\ req = [r \in Requests |-> Idle(s.kinds[r])]
        /\ held = {Token(<<First, 1>>, 1, "user")}
                    \cup (IF s.mfa THEN {Token(<<First, 2>>, 1, "mfa-challenge")} ELSE {})
        /\ sessions = [sid \in Sids |-> IF sid = <<First, 1>> THEN 1 + SessionLife
                                      ELSE IF sid = <<First, 2>> /\ s.mfa THEN 1 + ChallengeLife
                                      ELSE 0]
        /\ account = [enabled |-> TRUE, deleted |-> FALSE, validAfter |-> 0,
                      password |-> First, legacy |-> s.legacy, chosen |-> First]
        /\ factors = IF s.mfa THEN {Factor("totp", First, NoStep)} ELSE {}
        /\ codes = IF s.mfa THEN CodeSet(First) ELSE {}
        /\ linked = FALSE
        /\ scene = [mfa |-> s.mfa, faulty |-> s.faulty, skip |-> s.skip]
        /\ ended = {} /\ closed = {} /\ crossed = FALSE

-----------------------------------------------------------------------------
\* What people can type: the code of this step for every secret they were
\* shown, the backup codes they were given, a password that was set or will be.
Shown(kinds) == {m \in {First} : scene.mfa} \cup {r \in Requests : At(r, "done") /\ req[r].kind \in kinds}
CodesAtHand ==
    {Code("totp", secret, StepOf(now)) : secret \in Shown({"setup"})}
        \cup UNION {CodeSet(maker) : maker \in Shown({"enable", "regenerate"})}

CodesFor(kind) ==
    CASE kind = "login" -> CodesAtHand \cup {NoCode}
      [] kind \in {"second", "disable", "regenerate"} -> CodesAtHand
      [] kind = "enable" -> {c \in CodesAtHand : c.type = "totp"}
      [] OTHER -> {NoCode}

Passwords == {First} \cup {r \in Requests : req[r].kind = "password"}
Cookies(scope) == {t \in held : t.scope = scope}

Overlaps(kind) ==
    \E s \in Requests : /\ InFlight(s)
                        /\ \/ kind \in Removing /\ req[s].kind \in Changing
                           \/ kind \in Changing /\ req[s].kind \in Removing

Begin(r, pc, token, other, code, typed) ==
    /\ At(r, "todo")
    /\ req' = [req EXCEPT ![r] = [@ EXCEPT !.pc = pc, !.token = token, !.other = other,
                                           !.code = code, !.typed = typed]]
    /\ crossed' = (crossed \/ Overlaps(req[r].kind))
    /\ UNCHANGED <<sessionVars, factorVars, linked, scene>>

BeginLogin(r) ==
    /\ req[r].kind = "login"
    /\ \E code \in CodesFor("login"), typed \in Passwords :
          Begin(r, "readUser", NoToken, NoToken, code, typed)

\* The callback: the identity provider has vouched for who has come.
BeginOidc(r) == req[r].kind = "oidc" /\ Begin(r, "binding", NoToken, NoToken, NoCode, First)

BeginSecond(r) ==
    /\ req[r].kind = "second"
    /\ \E t \in Cookies("mfa-challenge"), code \in CodesFor("second") :
          Begin(r, "session", t, NoToken, code, First)

BeginLogout(r) ==
    /\ req[r].kind = "logout"
    /\ \E t \in Cookies("user") \cup {NoToken}, o \in Cookies("mfa-challenge") \cup {NoToken} :
          Begin(r, "drop", t, o, NoCode, First)

BeginWithSession(r) ==
    /\ req[r].kind \in NeedsSession
    /\ \E t \in Cookies("user"), code \in CodesFor(req[r].kind), typed \in Passwords :
          /\ req[r].kind # "password" => typed = First
          /\ Begin(r, "session", t, NoToken, code, typed)

\* Requests of an administrator, whose own session is not modelled.
BeginReset(r) == req[r].kind = "reset" /\ Begin(r, "checkOn", NoToken, NoToken, NoCode, First)
BeginExpel(r) == req[r].kind = "expel" /\ Begin(r, "stamp", NoToken, NoToken, NoCode, First)

\* update with is_disabled, delete: the sessions stay, the user is checked.
Administer(r) ==
    /\ At(r, "todo") /\ req[r].kind \in {"suspend", "readmit", "remove"}
    /\ account' = [account EXCEPT !.enabled = IF req[r].kind = "remove" THEN @ ELSE req[r].kind = "readmit",
                                  !.deleted = @ \/ req[r].kind = "remove"]
    /\ ~account.deleted
    /\ Goto(r, "done")
    /\ UNCHANGED <<now, sessions, held, ended, closed, factorVars, others>>

-----------------------------------------------------------------------------
\* getTokenFromEmail, verifyTotp: the user is read once, and with it the
\* cutoff its next token has to pass.
ReadUser(r) ==
    LET good == IF req[r].kind = "second" THEN Admits(req[r].token) ELSE ActiveUser IN
    /\ At(r, "readUser")
    /\ req' = [req EXCEPT ![r].pc = IF ~good THEN "refused"
                                    ELSE IF req[r].kind = "second" THEN "verify" ELSE "password",
                          ![r].cutoff = IF good THEN account.validAfter ELSE @]
    /\ UNCHANGED <<sessionVars, factorVars, others>>

\* getTokenFromOAuthClaim: an identity that is not linked yet is by the email
\* of the account, when the provider says that it is verified.
ReadBinding(r) ==
    /\ At(r, "binding")
    /\ \E emailVerified \in BOOLEAN :
          Goto(r, IF linked THEN "linkedUser" ELSE IF emailVerified THEN "emailUser" ELSE "refused")
    /\ UNCHANGED <<sessionVars, factorVars, others>>

ReadOidcUser(r) ==
    /\ req[r].pc \in {"linkedUser", "emailUser"}
    /\ req' = [req EXCEPT ![r].pc = IF ~ActiveUser THEN "refused"
                                    ELSE IF At(r, "emailUser") THEN "bind" ELSE "oidcFactor",
                          ![r].cutoff = IF ActiveUser THEN account.validAfter ELSE @]
    /\ UNCHANGED <<sessionVars, factorVars, others>>

\* The row is unique: whoever comes second finds the one of the other request.
Bind(r) ==
    /\ At(r, "bind")
    /\ linked' = TRUE
    /\ Goto(r, "oidcFactor")
    /\ UNCHANGED <<sessionVars, factorVars, scene, crossed>>

\* issueUserToken: no code comes with the identity, so a factor is always asked for.
CheckOidcFactor(r) ==
    /\ At(r, "oidcFactor")
    /\ req' = [req EXCEPT ![r].pc = "issue",
                          ![r].scope = IF IsEnabled /\ ~scene.skip THEN "mfa-challenge" ELSE "user"]
    /\ UNCHANGED <<sessionVars, factorVars, others>>

\* verifyPassword; a hash of the old kind is replaced once it has matched ...
CheckPassword(r) ==
    /\ At(r, "password")
    /\ Goto(r, IF req[r].typed # account.password THEN "refused"
               ELSE IF account.legacy THEN "migrate" ELSE "factor")
    /\ UNCHANGED <<sessionVars, factorVars, others>>

\* ... unless the row has changed since: a new password or another migration.
\* A defect to detect: the row is written whatever it holds by now.
UnchangedOrNot(r) == TRUE
Unchanged(r) == account.password = req[r].typed /\ account.legacy

Migrate(r) ==
    /\ At(r, "migrate")
    /\ IF Unchanged(r)
         THEN /\ account' = [account EXCEPT !.password = req[r].typed, !.legacy = FALSE]
              /\ Goto(r, "factor")
         ELSE Goto(r, "refused") /\ UNCHANGED account
    /\ UNCHANGED <<now, sessions, held, ended, closed, factorVars, others>>

\* isAnyEnabled: a code is verified, or a challenge issued in its place.
CheckFactor(r) ==
    /\ At(r, "factor")
    /\ req' = [req EXCEPT ![r].pc = IF IsEnabled /\ req[r].code # NoCode THEN "verify" ELSE "issue",
                          ![r].scope = IF IsEnabled /\ req[r].code = NoCode
                                         THEN "mfa-challenge" ELSE "user"]
    /\ UNCHANGED <<sessionVars, factorVars, others>>

SetPassword(r) ==
    /\ At(r, "setPassword")
    /\ account' = [account EXCEPT !.password = r, !.legacy = FALSE, !.chosen = r]
    /\ Goto(r, "stamp")
    /\ UNCHANGED <<now, sessions, held, ended, closed, factorVars, others>>

\* regenerateBackupCodes: new codes, revocation and audit in one transaction.
Replace(r) ==
    /\ At(r, "replace")
    /\ codes' = CodeSet(r)
    /\ account' = [account EXCEPT !.validAfter = now]
    /\ closed' = closed \cup held
    /\ req' = [req EXCEPT ![r].pc = "cutoff"]
    /\ UNCHANGED <<now, sessions, held, ended, factors, others>>

AfterUser(kind) ==
    CASE kind = "refresh" -> "sign"
      [] kind \in {"setup", "enable"} -> "checkOff"
      [] kind \in {"disable", "regenerate"} -> "checkOn"
      [] kind = "password" -> "readUser"
      [] OTHER -> "stamp"

AfterFactor(kind) ==
    CASE kind = "login" -> "issue"
      [] kind = "second" -> "consume"
      [] kind = "disable" -> "deleteFactors"
      [] OTHER -> "replace"

AfterStamp(kind) ==
    CASE kind = "enable" -> "count"
      [] kind = "password" -> "cutoff"
      [] OTHER -> "done"

SessionStep(r) ==
    /\ \/ CheckSession(r)
       \/ CheckUser(r, AfterUser(req[r].kind))
       \/ Sign(r)
       \/ Extend(r)
       \/ Issue(r)
       \/ Insert(r)
       \/ Consume(r)
       \/ Logout(r)
       \/ Stamp(r, AfterStamp(req[r].kind))
       \/ CutoffNow(r)
    /\ UNCHANGED <<factorVars, others>>

FactorStep(r) ==
    /\ \/ CheckOff(r)
       \/ DeletePending(r)
       \/ InsertPending(r)
       \/ ReadPending(r)
       \/ Promote(r)
       \/ CountCodes(r)
       \/ CreateCodes(r)
       \/ CheckOn(r)
       \/ Verify(r)
       \/ ClaimStep(r, AfterFactor(req[r].kind))
       \/ SpendCode(r, AfterFactor(req[r].kind))
       \/ DeleteFactors(r)
       \/ LeftEnabled(r)
       \/ DeleteCodes(r)
    /\ UNCHANGED <<sessionVars, others>>

AccountStep(r) ==
    \/ BeginLogin(r) \/ BeginSecond(r) \/ BeginLogout(r) \/ BeginWithSession(r)
    \/ BeginOidc(r) \/ BeginReset(r) \/ BeginExpel(r) \/ Administer(r)
    \/ ReadUser(r) \/ CheckPassword(r) \/ Migrate(r) \/ CheckFactor(r)
    \/ ReadBinding(r) \/ ReadOidcUser(r) \/ Bind(r) \/ CheckOidcFactor(r)
    \/ SetPassword(r) \/ Replace(r)

Time == Tick /\ UNCHANGED <<factorVars, others>>

Fault(r) == scene.faulty /\ scene' = [scene EXCEPT !.faulty = FALSE] /\ Fail(r) /\ UNCHANGED <<factorVars, linked, crossed>>

Next ==
    \/ \E r \in Requests : SessionStep(r) \/ FactorStep(r) \/ AccountStep(r) \/ Fault(r)
    \/ Time

Spec == Init /\ [][Next]_vars

-----------------------------------------------------------------------------
Pcs ==
    {"todo", "session", "user", "sign", "extend", "issue", "insert", "consume", "drop",
     "dropChallenge", "stamp", "cutoff", "checkOff", "deletePending", "insertPending",
     "readPending", "promote", "count", "create", "checkOn", "verify", "claim",
     "deleteFactors", "left", "deleteCodes", "readUser", "password", "migrate", "factor",
     "setPassword", "replace", "binding", "linkedUser", "emailUser", "bind", "oidcFactor", "done", "refused", "failed"}

Codes == [type : {"none", "totp", "backup"}, of : Makers, n : Int]

RequestStates ==
    [kind : Kinds, pc : Pcs, token : Tokens, other : Tokens, code : Codes, typed : Makers,
     cutoff : 0..MaxTime, iat : 0..MaxTime, nth : {1, 2}, scope : {"user", "mfa-challenge"},
     row : Makers, spent : Codes]

\* The rows, the tokens and what every request has read have their types.
TypeOK ==
    /\ now \in 1..MaxTime
    /\ sessions \in [Sids -> 0..(MaxTime + SessionLife + ChallengeLife)]
    /\ held \subseteq Tokens /\ closed \subseteq held /\ ended \subseteq Sids
    /\ account \in [enabled : BOOLEAN, deleted : BOOLEAN, validAfter : 0..MaxTime,
                    password : Makers, legacy : BOOLEAN, chosen : Makers]
    /\ factors \subseteq [type : {"totp", "totp_pending"}, secret : Makers, used : Int, born : 1..MaxTime]
    /\ codes \subseteq Codes
    /\ scene \in [mfa : BOOLEAN, faulty : BOOLEAN, skip : BOOLEAN] /\ {linked, crossed} \subseteq BOOLEAN
    /\ req \in [Requests -> RequestStates]

\* A logout lasts: no refresh that was under way brings its session back
\* (token-session.js: "Updating an existing row (never upserting it) prevents
\* a concurrent refresh from undoing logout").
LogoutLasts == \A sid \in ended : sessions[sid] = 0

\* A challenge admits one request, however many valid second factors arrive
\* for it at once (token-session.js, consumeChallengeSession).
OncePerChallenge ==
    \A r, s \in Requests :
        (/\ r # s
         /\ \A x \in {r, s} : req[x].kind = "second" /\ req[x].pc \in {"issue", "insert", "done"})
            => req[r].token # req[s].token

\* No verification code and no backup code is accepted twice, be it for a
\* login, the confirmation of an enrollment or the removal of a factor
\* (totp.js verifyCode and enable, backup-codes.js verify).
CodesUsedOnce ==
    \A r, s \in Requests : r # s /\ req[r].spent # NoCode => req[r].spent # req[s].spent

\* Revoking all sessions reaches every token a browser held at that moment: no
\* token is dated past its issue (token-time.js).
RevocationReaches == \A t \in closed : t.iat <= account.validAfter

\* A login that replaces an old hash never undoes a password set meanwhile
\* (models/auth.js verifyPassword).
PasswordKept == account.password = account.chosen

\* Once everything has settled, an account without a factor has no backup
\* codes left, and one with a factor has codes its owner was shown, unless
\* factors were added and removed at the same time or a request failed
\* (mfa.js disableTotp, ensureBackupCodes, regenerateBackupCodes).
Settled == ~crossed /\ \A r \in Requests : ~InFlight(r) /\ ~At(r, "failed")
SettledFactors ==
    Settled =>
        IF IsEnabled
          THEN codes \subseteq UNION {CodeSet(m) : m \in Shown({"enable", "regenerate"})}
          ELSE codes = {}
=============================================================================
