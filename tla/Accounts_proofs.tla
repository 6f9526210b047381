-------------------------- MODULE Accounts_proofs --------------------------
(* Proofs about the logins, second factors and revocations of an account.   *)
EXTENDS Accounts, TLAPS

-----------------------------------------------------------------------------
(* The invariants.                                                          *)

\* Who made it is no longer about to: the account as it started, or a request
\* that has answered.
Old(m) == m = First \/ At(m, "done")

Within(r, pcs) == req[r].pc \in pcs
OfKind(r, kinds) == req[r].kind \in kinds

\* Which requests get to which step.
Routed(kind, pc) ==
    /\ pc = "session" => kind \in {"second"} \cup NeedsSession
    /\ pc = "user" => kind \in NeedsSession
    /\ pc \in {"sign", "extend"} => kind = "refresh"
    /\ pc = "consume" => kind = "second"
    /\ pc \in {"drop", "dropChallenge"} => kind = "logout"
    /\ pc = "readUser" => kind \in {"login", "second", "password"}
    /\ pc \in {"password", "migrate", "factor"} => kind \in {"login", "password"}
    /\ pc \in {"binding", "linkedUser", "emailUser", "bind", "oidcFactor"} => kind = "oidc"
    /\ pc = "cutoff" => kind \in {"enable", "regenerate", "password"}
    /\ pc = "setPassword" => kind = "password"
    /\ pc = "checkOff" => kind \in {"setup", "enable"}
    /\ pc \in {"deletePending", "insertPending"} => kind = "setup"
    /\ pc \in {"readPending", "promote", "count", "create"} => kind = "enable"
    /\ pc = "checkOn" => kind \in {"disable", "regenerate", "reset"}
    /\ pc \in {"verify", "claim"} => kind \in {"login", "second", "disable", "regenerate"}
    /\ pc = "replace" => kind = "regenerate"
    /\ pc \in {"deleteFactors", "deleteCodes"} => kind \in Removing
    /\ pc = "left" => kind = "disable"
    /\ pc = "stamp" => kind \in {"enable", "password", "revoke", "expel"}

RouteInv ==
    \A r \in Requests :
        /\ Routed(req[r].kind, req[r].pc)
        /\ OfKind(r, {"password"}) => req[r].code = NoCode
        /\ At(r, "todo") => req[r].code = NoCode /\ req[r].spent = NoCode

\* A token names a session of the past and is dated in the past, and so is whatever
\* a request is about to sign; what a logout has deleted stays deleted.
SessionInv ==
    /\ \A t \in held : Old(t.sid[1]) /\ t.iat <= now
    /\ \A sid \in ended : Old(sid[1]) /\ sessions[sid] = 0
    /\ \A r \in Requests : /\ {req[r].token, req[r].other} \subseteq held \cup {NoToken}
                           /\ req[r].iat <= now
    /\ account.validAfter <= now
    /\ RevocationReaches

\* The session of a challenge is gone as soon as a request has consumed it.
ChallengeInv ==
    /\ \A r \in Requests :
          OfKind(r, {"second"}) /\ Within(r, {"issue", "insert", "done"}) => sessions[req[r].token.sid] = 0
    /\ OncePerChallenge

\* A secret is in one row, and its maker has answered before a code of it is typed.
SecretInv ==
    /\ \A f \in factors : Old(f.secret)
    /\ \A f, g \in factors : f.secret = g.secret => f = g
    /\ \A c \in codes : c.type = "backup"
    /\ \A r \in Requests : /\ Old(req[r].code.of)
                           /\ req[r].spent \in {NoCode, req[r].code}

\* A verification code that was spent is of an enrollment that has moved on to its step;
\* a backup code that was spent is in no row.
SpentInv ==
    /\ \A r \in Requests :
          /\ At(r, "promote") => req[r].code.type = "totp" /\ req[r].code.of = req[r].row
          /\ At(r, "claim") /\ req[r].code.type = "totp" =>
                /\ req[r].code.of = req[r].row
                /\ \A f \in factors : f.secret = req[r].row => f.type = "totp"
          /\ req[r].spent.type = "totp" =>
                \A f \in factors : f.secret = req[r].spent.of => f.type = "totp" /\ f.used >= req[r].spent.n
          /\ req[r].spent.type = "backup" => req[r].spent \notin codes
    /\ CodesUsedOnce

\* Where the backup codes come from.
Making(m) == OfKind(m, {"enable", "regenerate"}) /\ Within(m, {"cutoff", "issue", "insert", "done", "failed"})
MakerInv ==
    \A c \in codes : c \in CodeSet(c.of) /\ ((c.of = First /\ scene.mfa) \/ (c.of \in Requests /\ Making(c.of)))

\* The requests whose next step relies on a factor being on.
RelyOnFactor(r) ==
    \/ OfKind(r, {"enable"}) /\ Within(r, {"stamp", "count", "create"})
    \/ OfKind(r, {"regenerate"}) /\ Within(r, {"verify", "claim", "replace"})

\* While nobody removes a factor beside those who change one, they find it on, and
\* codes without a factor are those that a removal is about to delete.
FactorInv ==
    ~crossed =>
        /\ \A r, s \in Requests : InFlight(r) /\ OfKind(r, Removing) /\ InFlight(s) => ~OfKind(s, Changing)
        /\ \A r \in Requests : RelyOnFactor(r) => IsEnabled
        /\ ~IsEnabled /\ codes # {} =>
              \E r \in Requests : OfKind(r, Removing) /\ Within(r, {"left", "deleteCodes", "failed"})

AccountInv ==
    TypeOK /\ RouteInv /\ SessionInv /\ ChallengeInv /\ SecretInv /\ SpentInv /\ MakerInv /\ FactorInv
-----------------------------------------------------------------------------
(* What a step does to the requests: one of them moves, what it was called  *)
(* with stays, and so does what it has read but for the fields named.       *)

Typed == req \in [Requests -> RequestStates]

Moved(r, pc) ==
    /\ Typed'
    /\ \A s \in Requests \ {r} : req'[s] = req[s]
    /\ req'[r].kind = req[r].kind
    /\ req'[r].pc = pc

SameCall(r) ==
    /\ req'[r].token = req[r].token
    /\ req'[r].other = req[r].other
    /\ req'[r].code = req[r].code

SameCodes(r) == req'[r].row = req[r].row /\ req'[r].spent = req[r].spent
SameTime(r) == req'[r].iat = req[r].iat

\* The forms of step other than Goto.
SetsCutoff(r, pc, cutoff) == req' = [req EXCEPT ![r].pc = pc, ![r].cutoff = cutoff]
SetsScope(r, pc, scope) == req' = [req EXCEPT ![r].pc = pc, ![r].scope = scope]
SetsIat(r, pc, iat) == req' = [req EXCEPT ![r].pc = pc, ![r].iat = iat]
SetsRow(r, pc, row) == req' = [req EXCEPT ![r].pc = pc, ![r].row = row]
SetsSpent(r, pc) == req' = [req EXCEPT ![r].pc = pc, ![r].spent = req[r].code]

\* A record of a request stays one when a field takes a value of its type.
LEMMA FieldTypes ==
    ASSUME NEW x \in RequestStates
    PROVE  /\ \A v \in Pcs : [x EXCEPT !.pc = v] \in RequestStates
           /\ \A v \in Tokens : [x EXCEPT !.token = v] \in RequestStates /\ [x EXCEPT !.other = v] \in RequestStates
           /\ \A v \in Codes : [x EXCEPT !.code = v] \in RequestStates /\ [x EXCEPT !.spent = v] \in RequestStates
           /\ \A v \in Makers : [x EXCEPT !.typed = v] \in RequestStates /\ [x EXCEPT !.row = v] \in RequestStates
           /\ \A v \in 0..MaxTime : [x EXCEPT !.cutoff = v] \in RequestStates /\ [x EXCEPT !.iat = v] \in RequestStates
           /\ \A v \in {1, 2} : [x EXCEPT !.nth = v] \in RequestStates
           /\ \A v \in {"user", "mfa-challenge"} : [x EXCEPT !.scope = v] \in RequestStates
BY DEF RequestStates

LEMMA GotoMoves ==
    ASSUME Typed, NEW r \in Requests, NEW pc \in Pcs, Goto(r, pc)
    PROVE  Moved(r, pc) /\ SameCall(r) /\ SameCodes(r) /\ SameTime(r)
BY DEF Typed, Goto, Moved, SameCall, SameCodes, SameTime, RequestStates

LEMMA BeginMoves ==
    ASSUME Typed, NEW r \in Requests, NEW pc \in Pcs, NEW token \in Tokens, NEW other \in Tokens,
           NEW code \in Codes, NEW typed \in Makers, Begin(r, pc, token, other, code, typed)
    PROVE  /\ At(r, "todo") /\ Moved(r, pc) /\ SameCodes(r) /\ SameTime(r)
           /\ req'[r].token = token /\ req'[r].other = other /\ req'[r].code = code
<1> DEFINE x == [req[r] EXCEPT !.pc = pc, !.token = token, !.other = other, !.code = code, !.typed = typed]
<1>1. x \in RequestStates
  BY FieldTypes DEF Typed
<1>2. /\ x.kind = req[r].kind /\ x.pc = pc /\ x.iat = req[r].iat /\ x.row = req[r].row /\ x.spent = req[r].spent
      /\ x.token = token /\ x.other = other /\ x.code = code
  BY DEF Typed, RequestStates
<1>3. req' = [req EXCEPT ![r] = x] /\ At(r, "todo")
  BY DEF Begin
<1> HIDE DEF x
<1> QED
  BY <1>1, <1>2, <1>3 DEF Typed, Moved, SameCodes, SameTime

LEMMA UserMoves ==
    ASSUME Typed, NEW r \in Requests, NEW pc \in Pcs, NEW cutoff \in 0..MaxTime,
           SetsCutoff(r, pc, cutoff)
    PROVE  Moved(r, pc) /\ SameCall(r) /\ SameCodes(r) /\ SameTime(r)
<1> DEFINE x == [req[r] EXCEPT !.pc = pc, !.cutoff = cutoff]
<1>1. x \in RequestStates
  BY FieldTypes DEF Typed
<1>2. /\ x.kind = req[r].kind /\ x.pc = pc /\ x.token = req[r].token /\ x.other = req[r].other
      /\ x.code = req[r].code /\ x.iat = req[r].iat /\ x.row = req[r].row /\ x.spent = req[r].spent
  BY DEF Typed, RequestStates
<1>3. req' = [req EXCEPT ![r] = x]
  BY DEF SetsCutoff, Typed
<1> HIDE DEF x
<1> QED
  BY <1>1, <1>2, <1>3 DEF Typed, Moved, SameCall, SameCodes, SameTime

LEMMA ScopeMoves ==
    ASSUME Typed, NEW r \in Requests, NEW pc \in Pcs, NEW scope \in {"user", "mfa-challenge"},
           SetsScope(r, pc, scope)
    PROVE  Moved(r, pc) /\ SameCall(r) /\ SameCodes(r) /\ SameTime(r)
<1> DEFINE x == [req[r] EXCEPT !.pc = pc, !.scope = scope]
<1>1. x \in RequestStates
  BY FieldTypes DEF Typed
<1>2. /\ x.kind = req[r].kind /\ x.pc = pc /\ x.iat = req[r].iat /\ x.row = req[r].row /\ x.spent = req[r].spent
      /\ x.token = req[r].token /\ x.other = req[r].other /\ x.code = req[r].code
  BY DEF Typed, RequestStates
<1>3. req' = [req EXCEPT ![r] = x]
  BY DEF SetsScope, Typed
<1> HIDE DEF x
<1> QED
  BY <1>1, <1>2, <1>3 DEF Typed, Moved, SameCall, SameCodes, SameTime

LEMMA CutoffMoves ==
    ASSUME Typed, now \in 0..MaxTime, NEW r \in Requests, CutoffNow(r)
    PROVE  Moved(r, "issue") /\ SameCall(r) /\ SameCodes(r) /\ SameTime(r)
<1> DEFINE x == [req[r] EXCEPT !.pc = "issue", !.cutoff = now, !.scope = "user"]
<1>1. x \in RequestStates
  <2>1. "issue" \in Pcs
    BY DEF Pcs
  <2> QED
    BY <2>1, FieldTypes DEF Typed
<1>2. /\ x.kind = req[r].kind /\ x.pc = "issue" /\ x.iat = req[r].iat /\ x.row = req[r].row /\ x.spent = req[r].spent
      /\ x.token = req[r].token /\ x.other = req[r].other /\ x.code = req[r].code
  BY DEF Typed, RequestStates
<1>3. req' = [req EXCEPT ![r] = x]
  BY DEF CutoffNow, Typed
<1> HIDE DEF x
<1> QED
  BY <1>1, <1>2, <1>3 DEF Typed, Moved, SameCall, SameCodes, SameTime

LEMMA TimeMoves ==
    ASSUME Typed, NEW r \in Requests, NEW pc \in Pcs, NEW iat \in 0..MaxTime,
           SetsIat(r, pc, iat)
    PROVE  Moved(r, pc) /\ SameCall(r) /\ SameCodes(r) /\ req'[r].iat = iat
<1> DEFINE x == [req[r] EXCEPT !.pc = pc, !.iat = iat]
<1>1. x \in RequestStates
  BY FieldTypes DEF Typed
<1>2. /\ x.kind = req[r].kind /\ x.pc = pc /\ x.token = req[r].token /\ x.other = req[r].other
      /\ x.code = req[r].code /\ x.iat = iat /\ x.row = req[r].row /\ x.spent = req[r].spent
  BY DEF Typed, RequestStates
<1>3. req' = [req EXCEPT ![r] = x]
  BY DEF SetsIat, Typed
<1> HIDE DEF x
<1> QED
  BY <1>1, <1>2, <1>3 DEF Typed, Moved, SameCall, SameCodes

LEMMA InsertMoves ==
    ASSUME Typed, NEW r \in Requests, Insert(r)
    PROVE  /\ Moved(r, IF req[r].kind = "password" /\ req[r].nth = 1 THEN "setPassword" ELSE "done")
           /\ SameCall(r) /\ SameCodes(r) /\ SameTime(r)
<1> DEFINE pc == IF req[r].kind = "password" /\ req[r].nth = 1 THEN "setPassword" ELSE "done"
           nth == IF req[r].kind = "password" /\ req[r].nth = 1 THEN 2 ELSE 1
           scope == IF req[r].kind = "password" /\ req[r].nth = 1 THEN "user" ELSE req[r].scope
<1>1. req' = [req EXCEPT ![r].pc = pc, ![r].nth = nth, ![r].scope = scope]
  BY DEF Insert, Typed
<1>2. pc \in Pcs /\ nth \in {1, 2} /\ scope \in {"user", "mfa-challenge"}
  BY DEF Typed, RequestStates, Pcs
<1> HIDE DEF pc, nth, scope
<1> DEFINE x == [req[r] EXCEPT !.pc = pc, !.nth = nth, !.scope = scope]
<1>3. x \in RequestStates
  BY <1>2, FieldTypes DEF Typed
<1>4. /\ x.kind = req[r].kind /\ x.pc = pc /\ x.iat = req[r].iat /\ x.row = req[r].row /\ x.spent = req[r].spent
      /\ x.token = req[r].token /\ x.other = req[r].other /\ x.code = req[r].code
  BY <1>2 DEF Typed, RequestStates
<1>5. req' = [req EXCEPT ![r] = x]
  BY <1>1 DEF Typed
<1> HIDE DEF x
<1>6. Moved(r, pc) /\ SameCall(r) /\ SameCodes(r) /\ SameTime(r)
  BY <1>3, <1>4, <1>5 DEF Typed, Moved, SameCall, SameCodes, SameTime
<1> QED
  BY <1>6 DEF pc

LEMMA SpentMoves ==
    ASSUME Typed, NEW r \in Requests, NEW pc \in Pcs,
           SetsSpent(r, pc)
    PROVE  /\ Moved(r, pc) /\ SameCall(r) /\ SameTime(r)
           /\ req'[r].row = req[r].row /\ req'[r].spent = req[r].code
<1> DEFINE x == [req[r] EXCEPT !.pc = pc, !.spent = req[r].code]
<1>1. x \in RequestStates
  <2>1. req[r].code \in Codes
    BY DEF Typed, RequestStates
  <2> QED
    BY <2>1, FieldTypes DEF Typed
<1>2. /\ x.kind = req[r].kind /\ x.pc = pc /\ x.token = req[r].token /\ x.other = req[r].other
      /\ x.code = req[r].code /\ x.iat = req[r].iat /\ x.row = req[r].row /\ x.spent = req[r].code
  BY DEF Typed, RequestStates
<1>3. req' = [req EXCEPT ![r] = x]
  BY DEF SetsSpent, Typed
<1> HIDE DEF x
<1> QED
  BY <1>1, <1>2, <1>3 DEF Typed, Moved, SameCall, SameTime

LEMMA RowMoves ==
    ASSUME Typed, NEW r \in Requests, NEW pc \in Pcs, NEW row \in Makers,
           SetsRow(r, pc, row)
    PROVE  /\ Moved(r, pc) /\ SameCall(r) /\ SameTime(r)
           /\ req'[r].row = row /\ req'[r].spent = req[r].spent
<1> DEFINE x == [req[r] EXCEPT !.pc = pc, !.row = row]
<1>1. x \in RequestStates
  BY FieldTypes DEF Typed
<1>2. /\ x.kind = req[r].kind /\ x.pc = pc /\ x.token = req[r].token /\ x.other = req[r].other
      /\ x.code = req[r].code /\ x.iat = req[r].iat /\ x.row = row /\ x.spent = req[r].spent
  BY DEF Typed, RequestStates
<1>3. req' = [req EXCEPT ![r] = x]
  BY DEF SetsRow, Typed
<1> HIDE DEF x
<1> QED
  BY <1>1, <1>2, <1>3 DEF Typed, Moved, SameCall, SameTime

-----------------------------------------------------------------------------
(* Type correctness of the requests, and what no step takes back.           *)

\* A request keeps its kind and, once made, what it was called with; it is
\* called with tokens that are held and codes whose makers have answered, and
\* one that has answered does nothing more.
Kept(s) ==
    /\ req'[s].kind = req[s].kind
    /\ At(s, "done") => req'[s] = req[s]
    /\ ~At(s, "todo") => SameCall(s)
    /\ req'[s].iat = req[s].iat \/ (req'[s].iat = now /\ now' = now)
    /\ {req'[s].token, req'[s].other} \subseteq {req[s].token, req[s].other, NoToken} \cup held
    /\ req'[s].code = req[s].code \/ Old(req'[s].code.of)
    /\ ~Within(s, {"readPending", "verify"}) => req'[s].row = req[s].row
    /\ req'[s].spent = req[s].spent \/ (Within(s, {"promote", "claim"}) /\ req'[s].spent = req[s].code)

\* Where a request comes from, and what it does not turn back to.
Leads(kind, from, to) ==
    /\ from # to => from \notin {"done", "refused", "failed"} /\ to # "todo"
    /\ kind = "second" /\ to \in {"issue", "insert", "done"} => from \in {"consume", "issue", "insert", "done"}
    /\ to = "promote" => from \in {"readPending", "promote"}
    /\ to = "claim" => from \in {"verify", "claim"}
    /\ kind \in {"enable", "regenerate"} /\ from \in {"cutoff", "issue", "insert"} =>
          to \in {"cutoff", "issue", "insert", "done", "failed"}
    /\ kind = "enable" /\ to \in {"stamp", "count", "create"} => from \in {"promote", "stamp", "count", "create"}
    /\ kind = "regenerate" /\ to \in {"verify", "claim", "replace"} => from \in {"checkOn", "verify", "claim", "replace"}

\* No other request moves.
Alone(r) == \A s \in Requests \ {r} : req'[s] = req[s]

Hops(r, pc) ==
    /\ pc \in Pcs \ {"todo"}
    /\ ~At(r, "done")
    /\ Routed(req[r].kind, pc)
    /\ Leads(req[r].kind, req[r].pc, pc)

Keeps == /\ Typed'
         /\ RouteInv'
         /\ \A s \in Requests : Kept(s) /\ Leads(req[s].kind, req[s].pc, req'[s].pc)

LEMMA StepOfInt == ASSUME now \in 1..MaxTime PROVE StepOf(now) \in Int
BY StepAssumption, TimeAssumption DEF StepOf

LEMMA TypedRequests == ASSUME TypeOK PROVE Typed
BY DEF TypeOK, Typed

LEMMA MovedKeeps ==
    ASSUME Typed, RouteInv, NEW r \in Requests, NEW pc, Hops(r, pc), Moved(r, pc), SameCall(r),
           SameTime(r) \/ (req'[r].iat = now /\ now' = now),
           Within(r, {"readPending", "verify"}) \/ req'[r].row = req[r].row,
           req'[r].spent = req[r].spent \/ (Within(r, {"promote", "claim"}) /\ req'[r].spent = req[r].code)
    PROVE  Keeps /\ Alone(r)
<1>1. \A s \in Requests : Kept(s)
  BY DEF Hops, Kept, Moved, SameCall, SameTime, At
<1>2. \A s \in Requests : Leads(req[s].kind, req[s].pc, req'[s].pc)
  BY DEF Hops, Moved, Leads
<1>3. RouteInv'
  BY DEF Hops, RouteInv, Moved, SameCall, OfKind, At, NoCode, Code, First
<1> QED
  BY <1>1, <1>2, <1>3 DEF Keeps, Moved, Alone

LEMMA GotoKeeps ==
    ASSUME Typed, RouteInv, NEW r \in Requests, NEW pc, Hops(r, pc), Goto(r, pc)
    PROVE  Keeps /\ Alone(r)
BY GotoMoves, MovedKeeps DEF SameCodes, Hops

\* The first step of a request of each kind.
FirstStep(kind) ==
    CASE kind = "login" -> "readUser"
      [] kind = "oidc" -> "binding"
      [] kind = "logout" -> "drop"
      [] kind = "reset" -> "checkOn"
      [] kind = "expel" -> "stamp"
      [] OTHER -> "session"

LEMMA BeginKeeps ==
    ASSUME Typed, RouteInv, NEW r \in Requests, NEW token \in Tokens, NEW other \in Tokens,
           NEW code \in Codes, NEW typed \in Makers,
           OfKind(r, {"login", "oidc", "logout", "reset", "expel", "second"} \cup NeedsSession),
           Begin(r, FirstStep(req[r].kind), token, other, code, typed),
           {token, other} \subseteq held \cup {NoToken}, Old(code.of),
           OfKind(r, {"password"}) => code = NoCode
    PROVE  Keeps /\ Alone(r)
<1> DEFINE pc == FirstStep(req[r].kind)
<1>1. /\ pc \in Pcs /\ Routed(req[r].kind, pc)
      /\ pc \in {"readUser", "binding", "drop", "checkOn", "stamp", "session"}
      /\ pc = "stamp" => req[r].kind = "expel"
  BY DEF FirstStep, Routed, OfKind, NeedsSession, Pcs
<1> HIDE DEF pc
<1>2. /\ At(r, "todo") /\ Moved(r, pc) /\ SameCodes(r) /\ SameTime(r)
      /\ req'[r].token = token /\ req'[r].other = other /\ req'[r].code = code
  BY BeginMoves, <1>1 DEF pc
<1> USE DEF At
<1>3. \A s \in Requests : Kept(s)
  BY <1>2 DEF Kept, Moved, SameCall, SameCodes, SameTime
<1>4. \A s \in Requests : Leads(req[s].kind, req[s].pc, req'[s].pc)
  BY <1>1, <1>2 DEF Moved, Leads
<1>5. RouteInv'
  BY <1>1, <1>2 DEF RouteInv, Moved, SameCodes, OfKind, NoCode, Code, First
<1> QED
  BY <1>2, <1>3, <1>4, <1>5 DEF Keeps, Moved, Alone

\* What people type is well typed, and its maker has answered.
LEMMA CodesAreOld ==
    ASSUME TypeOK, NEW kind, NEW c \in CodesFor(kind)
    PROVE  /\ c \in Codes /\ Old(c.of)
           /\ kind = "enable" => c.type = "totp"
           /\ kind = "password" => c = NoCode
<1>1. ASSUME NEW kinds, NEW m \in Shown(kinds)
      PROVE  m \in Makers /\ Old(m)
  BY <1>1 DEF Shown, Makers, Old
<1>2. NoCode \in Codes /\ Old(NoCode.of)
  BY DEF NoCode, Code, Codes, Makers, Old
<1>3. ASSUME NEW d \in CodesAtHand
      PROVE  d \in Codes /\ Old(d.of)
  <2>1. CASE \E secret \in Shown({"setup"}) : d = Code("totp", secret, StepOf(now))
    BY <2>1, <1>1, StepOfInt DEF Code, Codes, TypeOK
  <2>2. CASE \E m \in Shown({"enable", "regenerate"}) : d \in CodeSet(m)
    BY <2>2, <1>1, StepAssumption DEF CodeSet, Code, Codes
  <2> QED
    BY <1>3, <2>1, <2>2 DEF CodesAtHand
<1>4. c \in CodesAtHand \cup {NoCode}
  BY DEF CodesFor
<1>5. (kind = "enable" => c.type = "totp") /\ (kind = "password" => c = NoCode)
  BY DEF CodesFor
<1> QED
  BY <1>2, <1>3, <1>4, <1>5 DEF Codes

\* The step after a check is one the request may go to.
LEMMA AfterUserHops ==
    ASSUME RouteInv, NEW r \in Requests, At(r, "user")
    PROVE  Hops(r, AfterUser(req[r].kind))
<1> USE DEF At, Hops, Leads, Routed, Pcs, AfterUser, Removing, NeedsSession
<1>0. req[r].kind \in {"refresh", "setup", "enable", "disable", "regenerate", "password", "revoke"}
  BY DEF RouteInv
<1>1. CASE req[r].kind \in {"refresh"}
  BY <1>1
<1>2. CASE req[r].kind \in {"setup", "enable"}
  BY <1>2
<1>3. CASE req[r].kind \in {"disable", "regenerate"}
  BY <1>3
<1>4. CASE req[r].kind \in {"password"}
  BY <1>4
<1>5. CASE req[r].kind \in {"revoke"}
  BY <1>5
<1> QED
  BY <1>0, <1>1, <1>2, <1>3, <1>4, <1>5

LEMMA AfterFactorHops ==
    ASSUME RouteInv, NEW r \in Requests, At(r, "claim")
    PROVE  Hops(r, AfterFactor(req[r].kind))
<1> USE DEF At, Hops, Leads, Routed, Pcs, AfterFactor, Removing, NeedsSession
<1>0. req[r].kind \in {"login", "second", "disable", "regenerate"}
  BY DEF RouteInv
<1>1. CASE req[r].kind \in {"login"}
  BY <1>1
<1>2. CASE req[r].kind \in {"second"}
  BY <1>2
<1>3. CASE req[r].kind \in {"disable"}
  BY <1>3
<1>4. CASE req[r].kind \in {"regenerate"}
  BY <1>4
<1> QED
  BY <1>0, <1>1, <1>2, <1>3, <1>4

LEMMA AfterStampHops ==
    ASSUME RouteInv, NEW r \in Requests, At(r, "stamp")
    PROVE  Hops(r, AfterStamp(req[r].kind))
<1> USE DEF At, Hops, Leads, Routed, Pcs, AfterStamp, Removing, NeedsSession
<1>0. req[r].kind \in {"enable", "password", "revoke", "expel"}
  BY DEF RouteInv
<1>1. CASE req[r].kind \in {"enable"}
  BY <1>1
<1>2. CASE req[r].kind \in {"password"}
  BY <1>2
<1>3. CASE req[r].kind \in {"revoke", "expel"}
  BY <1>3
<1> QED
  BY <1>0, <1>1, <1>2, <1>3

LEMMA SessionStepKeeps ==
    ASSUME TypeOK, RouteInv, NEW r \in Requests, SessionStep(r)
    PROVE  Keeps /\ Alone(r)
<1> USE TypedRequests
<1>0. Routed(req[r].kind, req[r].pc) /\ (OfKind(r, {"password"}) => req[r].code = NoCode)
  BY DEF RouteInv
<1> USE DEF At, NeedsSession, Removing
<1>1. CASE CheckSession(r)
  <2>1. \E pc : Hops(r, pc) /\ Goto(r, pc)
    BY <1>0, <1>1 DEF CheckSession, Hops, Routed, Leads, Pcs
  <2> QED
    BY <2>1, GotoKeeps
<1>2. CASE CheckUser(r, AfterUser(req[r].kind))
  <2>1. At(r, "user") /\ (Goto(r, AfterUser(req[r].kind)) \/ Goto(r, "refused"))
    BY <1>2 DEF CheckUser
  <2>2. Hops(r, AfterUser(req[r].kind))
    BY <2>1, AfterUserHops
  <2>3. Hops(r, "refused")
    BY <2>1 DEF Hops, Routed, Leads, Pcs
  <2> QED
    BY <2>1, <2>2, <2>3, GotoKeeps
<1>3. CASE Sign(r)
  <2>1. SetsIat(r, "extend", now) /\ now' = now /\ now \in 0..MaxTime /\ "extend" \in Pcs
    BY <1>0, <1>3 DEF Sign, SetsIat, TypeOK, Pcs
  <2>2. Hops(r, "extend")
    BY <1>0, <1>3 DEF Sign, Hops, Routed, Leads, Pcs
  <2> QED
    BY <2>1, <2>2, TimeMoves, MovedKeeps DEF SameCodes
<1>4. CASE Extend(r)
  <2>1. \E pc : Hops(r, pc) /\ Goto(r, pc)
    BY <1>0, <1>4 DEF Extend, Hops, Routed, Leads, Pcs
  <2> QED
    BY <2>1, GotoKeeps
<1>5. CASE Issue(r)
  <2>1. SetsIat(r, "insert", now) /\ now' = now /\ now \in 0..MaxTime /\ "insert" \in Pcs
    BY <1>0, <1>5 DEF Issue, IssueTime, SetsIat, TypeOK, Pcs
  <2>2. Hops(r, "insert")
    BY <1>0, <1>5 DEF Issue, Hops, Routed, Leads, Pcs
  <2> QED
    BY <2>1, <2>2, TimeMoves, MovedKeeps DEF SameCodes
<1>6. CASE Insert(r)
  <2> DEFINE pc == IF req[r].kind = "password" /\ req[r].nth = 1 THEN "setPassword" ELSE "done"
  <2>1. Hops(r, pc)
    BY <1>0, <1>6 DEF Insert, Hops, Routed, Leads, Pcs
  <2>2. Moved(r, pc) /\ SameCall(r) /\ SameCodes(r) /\ SameTime(r)
    BY <1>6, InsertMoves
  <2> QED
    BY <2>1, <2>2, MovedKeeps DEF SameCodes
<1>7. CASE Consume(r)
  <2>1. \E pc : Hops(r, pc) /\ Goto(r, pc)
    BY <1>0, <1>7 DEF Consume, Hops, Routed, Leads, Pcs
  <2> QED
    BY <2>1, GotoKeeps
<1>8. CASE Logout(r)
  <2>1. \E pc : Hops(r, pc) /\ Goto(r, pc)
    BY <1>0, <1>8 DEF Logout, DropCookie, Hops, Routed, Leads, Pcs
  <2> QED
    BY <2>1, GotoKeeps
<1>9. CASE Stamp(r, AfterStamp(req[r].kind))
  <2>1. At(r, "stamp") /\ Goto(r, AfterStamp(req[r].kind))
    BY <1>9 DEF Stamp, Goto
  <2>2. Hops(r, AfterStamp(req[r].kind))
    BY <2>1, AfterStampHops
  <2> QED
    BY <2>1, <2>2, GotoKeeps
<1>10. CASE CutoffNow(r)
  <2>1. now \in 0..MaxTime
    BY DEF TypeOK
  <2>2. Hops(r, "issue")
    BY <1>0, <1>10 DEF CutoffNow, Hops, Routed, Leads, Pcs
  <2> QED
    BY <1>10, <2>1, <2>2, CutoffMoves, MovedKeeps DEF SameCodes
<1> QED
  BY <1>1, <1>2, <1>3, <1>4, <1>5, <1>6, <1>7, <1>8, <1>9, <1>10 DEF SessionStep

LEMMA FactorStepKeeps ==
    ASSUME TypeOK, RouteInv, NEW r \in Requests, FactorStep(r)
    PROVE  Keeps /\ Alone(r)
<1> USE TypedRequests
<1>0. Routed(req[r].kind, req[r].pc) /\ (OfKind(r, {"password"}) => req[r].code = NoCode)
  BY DEF RouteInv
<1> USE DEF At, NeedsSession, Removing
<1>1. CASE CheckOff(r)
  <2>1. \E pc : Hops(r, pc) /\ Goto(r, pc)
    BY <1>0, <1>1 DEF CheckOff, Hops, Routed, Leads, Pcs
  <2> QED
    BY <2>1, GotoKeeps
<1>2. CASE DeletePending(r)
  <2>1. \E pc : Hops(r, pc) /\ Goto(r, pc)
    BY <1>0, <1>2 DEF DeletePending, Hops, Routed, Leads, Pcs
  <2> QED
    BY <2>1, GotoKeeps
<1>3. CASE InsertPending(r)
  <2>1. \E pc : Hops(r, pc) /\ Goto(r, pc)
    BY <1>0, <1>3 DEF InsertPending, Hops, Routed, Leads, Pcs
  <2> QED
    BY <2>1, GotoKeeps
<1>4. CASE ReadPending(r)
  <2>1. \A f \in factors : f.secret \in Makers
    BY DEF TypeOK
  <2>2. CASE \E f \in factors, pc \in Pcs : Hops(r, pc) /\ SetsRow(r, pc, f.secret)
    BY <2>1, <2>2, RowMoves, MovedKeeps, <1>4 DEF ReadPending, Within
  <2>3. CASE \E pc \in Pcs : Hops(r, pc) /\ Goto(r, pc)
    BY <2>3, GotoKeeps
  <2>4. Hops(r, "refused") /\ Hops(r, "promote")
    BY <1>0, <1>4 DEF ReadPending, Hops, Routed, Leads, Pcs
  <2> QED
    BY <1>4, <2>2, <2>3, <2>4 DEF ReadPending, OfType, SetsRow, Hops
<1>5. CASE Promote(r)
  <2>1. CASE \E pc \in Pcs : Hops(r, pc) /\ SetsSpent(r, pc)
    BY <2>1, SpentMoves, MovedKeeps, <1>5 DEF Promote, Within
  <2>2. CASE \E pc \in Pcs : Hops(r, pc) /\ Goto(r, pc)
    BY <2>2, GotoKeeps
  <2>3. Hops(r, "refused") /\ Hops(r, "stamp")
    BY <1>0, <1>5 DEF Promote, Hops, Routed, Leads, Pcs
  <2> QED
    BY <1>5, <2>1, <2>2, <2>3 DEF Promote, SetsSpent, Hops
<1>6. CASE CountCodes(r)
  <2>1. \E pc : Hops(r, pc) /\ Goto(r, pc)
    BY <1>0, <1>6 DEF CountCodes, Hops, Routed, Leads, Pcs
  <2> QED
    BY <2>1, GotoKeeps
<1>7. CASE CreateCodes(r)
  <2>1. \E pc : Hops(r, pc) /\ Goto(r, pc)
    BY <1>0, <1>7 DEF CreateCodes, Hops, Routed, Leads, Pcs
  <2> QED
    BY <2>1, GotoKeeps
<1>8. CASE CheckOn(r)
  <2>1. \E pc : Hops(r, pc) /\ Goto(r, pc)
    BY <1>0, <1>8 DEF CheckOn, Hops, Routed, Leads, Pcs
  <2> QED
    BY <2>1, GotoKeeps
<1>9. CASE Verify(r)
  <2>1. \A f \in factors : f.secret \in Makers
    BY DEF TypeOK
  <2>2. CASE \E f \in factors, pc \in Pcs : Hops(r, pc) /\ SetsRow(r, pc, f.secret)
    BY <2>1, <2>2, RowMoves, MovedKeeps, <1>9 DEF Verify, Within
  <2>3. CASE \E pc \in Pcs : Hops(r, pc) /\ Goto(r, pc)
    BY <2>3, GotoKeeps
  <2>4. Hops(r, "refused") /\ Hops(r, "claim")
    BY <1>0, <1>9 DEF Verify, Hops, Routed, Leads, Pcs
  <2> QED
    BY <1>9, <2>2, <2>3, <2>4 DEF Verify, OfType, SetsRow, Hops
<1>10. CASE ClaimStep(r, AfterFactor(req[r].kind))
  <2>1. At(r, "claim") /\ (SetsSpent(r, AfterFactor(req[r].kind)) \/ Goto(r, "refused"))
    BY <1>10 DEF ClaimStep, SetsSpent, Goto
  <2>2. Hops(r, AfterFactor(req[r].kind))
    BY <2>1, AfterFactorHops
  <2>3. Hops(r, "refused")
    BY <2>1, <1>0 DEF Hops, Routed, Leads, Pcs
  <2>4. CASE SetsSpent(r, AfterFactor(req[r].kind))
    BY <2>1, <2>2, <2>4, SpentMoves, MovedKeeps DEF Within, Hops
  <2>5. CASE Goto(r, "refused")
    BY <2>3, <2>5, GotoKeeps
  <2> QED
    BY <2>1, <2>4, <2>5
<1>11. CASE SpendCode(r, AfterFactor(req[r].kind))
  <2>1. At(r, "claim") /\ (SetsSpent(r, AfterFactor(req[r].kind)) \/ Goto(r, "refused"))
    BY <1>11 DEF SpendCode, SetsSpent, Goto
  <2>2. Hops(r, AfterFactor(req[r].kind))
    BY <2>1, AfterFactorHops
  <2>3. Hops(r, "refused")
    BY <2>1, <1>0 DEF Hops, Routed, Leads, Pcs
  <2>4. CASE SetsSpent(r, AfterFactor(req[r].kind))
    BY <2>1, <2>2, <2>4, SpentMoves, MovedKeeps DEF Within, Hops
  <2>5. CASE Goto(r, "refused")
    BY <2>3, <2>5, GotoKeeps
  <2> QED
    BY <2>1, <2>4, <2>5
<1>12. CASE DeleteFactors(r)
  <2>1. \E pc : Hops(r, pc) /\ Goto(r, pc)
    BY <1>0, <1>12 DEF DeleteFactors, Hops, Routed, Leads, Pcs
  <2> QED
    BY <2>1, GotoKeeps
<1>13. CASE LeftEnabled(r)
  <2>1. \E pc : Hops(r, pc) /\ Goto(r, pc)
    BY <1>0, <1>13 DEF LeftEnabled, Hops, Routed, Leads, Pcs
  <2> QED
    BY <2>1, GotoKeeps
<1>14. CASE DeleteCodes(r)
  <2>1. \E pc : Hops(r, pc) /\ Goto(r, pc)
    BY <1>0, <1>14 DEF DeleteCodes, Hops, Routed, Leads, Pcs
  <2> QED
    BY <2>1, GotoKeeps
<1> QED
  BY <1>1, <1>2, <1>3, <1>4, <1>5, <1>6, <1>7, <1>8, <1>9, <1>10, <1>11, <1>12, <1>13, <1>14 DEF FactorStep

LEMMA FirstRecords == NoToken \in Tokens /\ NoCode \in Codes /\ First \in Makers /\ Old(NoCode.of)
BY TimeAssumption DEF NoToken, Token, Tokens, Sids, Makers, NoCode, Code, Codes, Old

LEMMA AccountStepKeeps ==
    ASSUME TypeOK, RouteInv, NEW r \in Requests, AccountStep(r)
    PROVE  Keeps /\ Alone(r)
<1> USE TypedRequests
<1>0. Routed(req[r].kind, req[r].pc) /\ (OfKind(r, {"password"}) => req[r].code = NoCode)
  BY DEF RouteInv
<1> USE DEF At, NeedsSession, Removing
<1>1. CASE BeginLogin(r)
  <2>1. \E token \in Tokens, other \in Tokens, code \in Codes, typed \in Makers :
           /\ Begin(r, FirstStep(req[r].kind), token, other, code, typed)
           /\ {token, other} \subseteq held \cup {NoToken} /\ Old(code.of)
           /\ OfKind(r, {"password"}) => code = NoCode
    BY <1>1, FirstRecords, CodesAreOld DEF BeginLogin, FirstStep, OfKind, Passwords, Makers
  <2> QED
    BY <1>1, <2>1, BeginKeeps DEF BeginLogin, OfKind
<1>2. CASE BeginSecond(r)
  <2>1. \E token \in Tokens, other \in Tokens, code \in Codes, typed \in Makers :
           /\ Begin(r, FirstStep(req[r].kind), token, other, code, typed)
           /\ {token, other} \subseteq held \cup {NoToken} /\ Old(code.of)
           /\ OfKind(r, {"password"}) => code = NoCode
    BY <1>2, FirstRecords, CodesAreOld DEF BeginSecond, FirstStep, OfKind, Cookies, TypeOK
  <2> QED
    BY <1>2, <2>1, BeginKeeps DEF BeginSecond, OfKind
<1>3. CASE BeginLogout(r)
  <2>1. \E token \in Tokens, other \in Tokens, code \in Codes, typed \in Makers :
           /\ Begin(r, FirstStep(req[r].kind), token, other, code, typed)
           /\ {token, other} \subseteq held \cup {NoToken} /\ Old(code.of)
           /\ OfKind(r, {"password"}) => code = NoCode
    BY <1>3, FirstRecords DEF BeginLogout, FirstStep, OfKind, Cookies, TypeOK
  <2> QED
    BY <1>3, <2>1, BeginKeeps DEF BeginLogout, OfKind
<1>4. CASE BeginWithSession(r)
  <2>1. \E token \in Tokens, other \in Tokens, code \in Codes, typed \in Makers :
           /\ Begin(r, FirstStep(req[r].kind), token, other, code, typed)
           /\ {token, other} \subseteq held \cup {NoToken} /\ Old(code.of)
           /\ OfKind(r, {"password"}) => code = NoCode
    BY <1>4, FirstRecords, CodesAreOld DEF BeginWithSession, FirstStep, OfKind, NeedsSession, Cookies, Passwords, Makers, TypeOK
  <2> QED
    BY <1>4, <2>1, BeginKeeps DEF BeginWithSession, OfKind
<1>5. CASE BeginOidc(r)
  <2>1. \E token \in Tokens, other \in Tokens, code \in Codes, typed \in Makers :
           /\ Begin(r, FirstStep(req[r].kind), token, other, code, typed)
           /\ {token, other} \subseteq held \cup {NoToken} /\ Old(code.of)
           /\ OfKind(r, {"password"}) => code = NoCode
    BY <1>5, FirstRecords DEF BeginOidc, FirstStep, OfKind
  <2> QED
    BY <1>5, <2>1, BeginKeeps DEF BeginOidc, OfKind
<1>6. CASE BeginReset(r)
  <2>1. \E token \in Tokens, other \in Tokens, code \in Codes, typed \in Makers :
           /\ Begin(r, FirstStep(req[r].kind), token, other, code, typed)
           /\ {token, other} \subseteq held \cup {NoToken} /\ Old(code.of)
           /\ OfKind(r, {"password"}) => code = NoCode
    BY <1>6, FirstRecords DEF BeginReset, FirstStep, OfKind
  <2> QED
    BY <1>6, <2>1, BeginKeeps DEF BeginReset, OfKind
<1>7. CASE BeginExpel(r)
  <2>1. \E token \in Tokens, other \in Tokens, code \in Codes, typed \in Makers :
           /\ Begin(r, FirstStep(req[r].kind), token, other, code, typed)
           /\ {token, other} \subseteq held \cup {NoToken} /\ Old(code.of)
           /\ OfKind(r, {"password"}) => code = NoCode
    BY <1>7, FirstRecords DEF BeginExpel, FirstStep, OfKind
  <2> QED
    BY <1>7, <2>1, BeginKeeps DEF BeginExpel, OfKind
<1>8. CASE Administer(r)
  <2>1. \E pc : Hops(r, pc) /\ Goto(r, pc)
    BY <1>0, <1>8 DEF Administer, Hops, Routed, Leads, Pcs
  <2> QED
    BY <2>1, GotoKeeps
<1>9. CASE ReadUser(r)
  <2>1. account.validAfter \in 0..MaxTime /\ req[r].cutoff \in 0..MaxTime
    BY DEF TypeOK, RequestStates
  <2>2. Hops(r, "refused") /\ (req[r].kind = "second" => Hops(r, "verify")) /\ (req[r].kind # "second" => Hops(r, "password"))
    BY <1>0, <1>9 DEF ReadUser, Hops, Routed, Leads, Pcs
  <2>3. \E pc \in Pcs, cutoff \in 0..MaxTime : Hops(r, pc) /\ SetsCutoff(r, pc, cutoff)
    BY <1>9, <2>1, <2>2 DEF ReadUser, SetsCutoff, Hops
  <2> QED
    BY <2>3, UserMoves, MovedKeeps DEF SameCodes
<1>10. CASE CheckPassword(r)
  <2>1. \E pc : Hops(r, pc) /\ Goto(r, pc)
    BY <1>0, <1>10 DEF CheckPassword, Hops, Routed, Leads, Pcs
  <2> QED
    BY <2>1, GotoKeeps
<1>11. CASE Migrate(r)
  <2>1. \E pc : Hops(r, pc) /\ Goto(r, pc)
    BY <1>0, <1>11 DEF Migrate, Hops, Routed, Leads, Pcs
  <2> QED
    BY <2>1, GotoKeeps
<1>12. CASE CheckFactor(r)
  <2>1. Hops(r, "issue") /\ (req[r].code # NoCode => Hops(r, "verify"))
    BY <1>0, <1>12 DEF CheckFactor, OfKind, Hops, Routed, Leads, Pcs
  <2>2. \E pc \in Pcs, scope \in {"user", "mfa-challenge"} : Hops(r, pc) /\ SetsScope(r, pc, scope)
    BY <1>12, <2>1 DEF CheckFactor, SetsScope, Hops
  <2> QED
    BY <2>2, ScopeMoves, MovedKeeps DEF SameCodes
<1>13. CASE ReadBinding(r)
  <2>1. \E pc : Hops(r, pc) /\ Goto(r, pc)
    BY <1>0, <1>13 DEF ReadBinding, Hops, Routed, Leads, Pcs
  <2> QED
    BY <2>1, GotoKeeps
<1>14. CASE ReadOidcUser(r)
  <2>1. account.validAfter \in 0..MaxTime /\ req[r].cutoff \in 0..MaxTime
    BY DEF TypeOK, RequestStates
  <2>2. Hops(r, "refused") /\ Hops(r, "bind") /\ Hops(r, "oidcFactor")
    BY <1>0, <1>14 DEF ReadOidcUser, Hops, Routed, Leads, Pcs
  <2>3. \E pc \in Pcs, cutoff \in 0..MaxTime : Hops(r, pc) /\ SetsCutoff(r, pc, cutoff)
    BY <1>14, <2>1, <2>2 DEF ReadOidcUser, SetsCutoff, Hops
  <2> QED
    BY <2>3, UserMoves, MovedKeeps DEF SameCodes
<1>15. CASE Bind(r)
  <2>1. \E pc : Hops(r, pc) /\ Goto(r, pc)
    BY <1>0, <1>15 DEF Bind, Hops, Routed, Leads, Pcs
  <2> QED
    BY <2>1, GotoKeeps
<1>16. CASE CheckOidcFactor(r)
  <2>1. Hops(r, "issue")
    BY <1>0, <1>16 DEF CheckOidcFactor, OfKind, Hops, Routed, Leads, Pcs
  <2>2. \E pc \in Pcs, scope \in {"user", "mfa-challenge"} : Hops(r, pc) /\ SetsScope(r, pc, scope)
    BY <1>16, <2>1 DEF CheckOidcFactor, SetsScope, Hops
  <2> QED
    BY <2>2, ScopeMoves, MovedKeeps DEF SameCodes
<1>17. CASE SetPassword(r)
  <2>1. \E pc : Hops(r, pc) /\ Goto(r, pc)
    BY <1>0, <1>17 DEF SetPassword, Hops, Routed, Leads, Pcs
  <2> QED
    BY <2>1, GotoKeeps
<1>18. CASE Replace(r)
  <2>1. \E pc : Hops(r, pc) /\ Goto(r, pc)
    BY <1>0, <1>18 DEF Replace, Goto, Hops, Routed, Leads, Pcs
  <2> QED
    BY <2>1, GotoKeeps
<1> QED
  BY <1>1, <1>2, <1>3, <1>4, <1>5, <1>6, <1>7, <1>8, <1>9, <1>10, <1>11, <1>12, <1>13, <1>14, <1>15, <1>16, <1>17, <1>18 DEF AccountStep

LEMMA FaultKeeps ==
    ASSUME TypeOK, RouteInv, NEW r \in Requests, Fault(r)
    PROVE  Keeps /\ Alone(r)
<1>1. Hops(r, "failed")
  BY DEF Fault, Fail, InFlight, At, Hops, Routed, Leads, Pcs
<1> QED
  BY <1>1, TypedRequests, GotoKeeps DEF Fault, Fail

LEMMA StepKeeps ==
    ASSUME TypeOK, RouteInv, [Next]_vars
    PROVE  Keeps
<1> USE TypedRequests
<1>1. ASSUME NEW r \in Requests, SessionStep(r) PROVE Keeps
  BY <1>1, SessionStepKeeps
<1>2. ASSUME NEW r \in Requests, FactorStep(r) PROVE Keeps
  BY <1>2, FactorStepKeeps
<1>3. ASSUME NEW r \in Requests, AccountStep(r) PROVE Keeps
  BY <1>3, AccountStepKeeps
<1>4. ASSUME NEW r \in Requests, Fault(r) PROVE Keeps
  BY <1>4, FaultKeeps
<1>5. ASSUME req' = req PROVE Keeps
  <2>1. RouteInv'
    BY <1>5 DEF RouteInv, At, OfKind, NoCode, Code, First
  <2> QED
    BY <1>5, <2>1 DEF Keeps, Kept, Typed, SameCall, Leads
<1> QED
  BY <1>1, <1>2, <1>3, <1>4, <1>5 DEF Next, Time, Tick, vars

-----------------------------------------------------------------------------
(* The first three invariants: types, routes and sessions.                  *)

SameSessions == UNCHANGED <<now, sessions, held, ended, closed>>
RecordOK ==
    account \in [enabled : BOOLEAN, deleted : BOOLEAN, validAfter : 0..MaxTime,
                 password : Makers, legacy : BOOLEAN, chosen : Makers]

\* What the steps of TokenSessions do to their rows.
LEMMA SessionRows ==
    ASSUME TypeOK, NEW r \in Requests, SessionStep(r)
    PROVE  /\ sessions' \in [Sids -> 0..(MaxTime + SessionLife + ChallengeLife)]
           /\ held' \subseteq Tokens /\ closed' \subseteq held' /\ ended' \subseteq Sids
           /\ RecordOK' /\ now' = now
<1> DEFINE Rows == /\ sessions' \in [Sids -> 0..(MaxTime + SessionLife + ChallengeLife)]
                   /\ held' \subseteq Tokens /\ closed' \subseteq held' /\ ended' \subseteq Sids
                   /\ RecordOK' /\ now' = now
<1>1. /\ req[r].iat \in 0..MaxTime /\ req[r].nth \in {1, 2} /\ req[r].scope \in {"user", "mfa-challenge"}
      /\ req[r].token.sid \in Sids /\ req[r].other.sid \in Sids /\ <<r, req[r].nth>> \in Sids
  <2>1. req[r] \in RequestStates
    BY DEF TypeOK
  <2> QED
    BY <2>1 DEF RequestStates, Tokens, Sids, Makers
<1>2. SessionLife \in Nat /\ ChallengeLife \in Nat /\ MaxTime \in Nat
  BY TimeAssumption
<1>3. CASE UNCHANGED <<now, sessions, held, account, ended, closed>>
  BY <1>3 DEF TypeOK, RecordOK
<1>4. CASE Extend(r)
  <2>1. req[r].iat + SessionLife \in 0..(MaxTime + SessionLife + ChallengeLife)
    BY <1>1, <1>2
  <2>2. Token(req[r].token.sid, req[r].iat, "user") \in Tokens
    BY <1>1 DEF Token, Tokens
  <2>3. /\ sessions' = sessions \/ sessions' = [sessions EXCEPT ![req[r].token.sid] = req[r].iat + SessionLife]
        /\ held' = held \/ held' = held \cup {Token(req[r].token.sid, req[r].iat, "user")}
        /\ UNCHANGED <<now, account, ended, closed>>
    BY <1>4 DEF Extend
  <2> HIDE DEF Rows
  <2>4. sessions' \in [Sids -> 0..(MaxTime + SessionLife + ChallengeLife)]
    BY <2>1, <2>3 DEF TypeOK
  <2>5. held' \subseteq Tokens /\ closed' \subseteq held'
    BY <2>2, <2>3 DEF TypeOK
  <2> QED
    BY <2>3, <2>4, <2>5 DEF Rows, TypeOK, RecordOK
<1>5. CASE Insert(r)
  <2> DEFINE live == [s \in Sids |-> IF Usable(s) THEN sessions[s] ELSE 0]
             sid == <<r, req[r].nth>>
             expiry == req[r].iat + Lifetime(req[r].scope)
  <2>1. expiry \in 0..(MaxTime + SessionLife + ChallengeLife)
    BY <1>1, <1>2 DEF Lifetime
  <2>2. live \in [Sids -> 0..(MaxTime + SessionLife + ChallengeLife)]
    BY <1>2 DEF TypeOK
  <2>3. Token(sid, req[r].iat, req[r].scope) \in Tokens
    BY <1>1 DEF Token, Tokens
  <2>4. /\ sessions' = [live EXCEPT ![sid] = expiry]
        /\ held' = held \/ held' = held \cup {Token(sid, req[r].iat, req[r].scope)}
        /\ UNCHANGED <<now, account, ended, closed>>
    BY <1>5 DEF Insert
  <2> HIDE DEF live, expiry, sid, Rows
  <2>5. sessions' \in [Sids -> 0..(MaxTime + SessionLife + ChallengeLife)]
    BY <2>1, <2>2, <2>4
  <2>6. held' \subseteq Tokens /\ closed' \subseteq held'
    BY <2>3, <2>4 DEF TypeOK
  <2> QED
    BY <2>4, <2>5, <2>6 DEF Rows, TypeOK, RecordOK
<1>6. CASE Consume(r)
  <2>1. 0 \in 0..(MaxTime + SessionLife + ChallengeLife)
    BY <1>2
  <2> QED
    BY <1>6, <2>1 DEF Consume, TypeOK, RecordOK
<1>7. CASE Logout(r)
  <2>1. 0 \in 0..(MaxTime + SessionLife + ChallengeLife)
    BY <1>2
  <2> QED
    BY <1>1, <1>7, <2>1 DEF Logout, DropCookie, TypeOK, RecordOK
<1>8. CASE Stamp(r, AfterStamp(req[r].kind))
  BY <1>8 DEF Stamp, TypeOK, RecordOK
<1> QED
  BY <1>3, <1>4, <1>5, <1>6, <1>7, <1>8 DEF SessionStep, CheckSession, CheckUser, Sign, Issue, CutoffNow

\* What the steps of SecondFactors do to theirs.
FactorRecords == [type : {"totp", "totp_pending"}, secret : Makers, used : Int, born : 1..MaxTime]

LEMMA FactorRows ==
    ASSUME TypeOK, NEW r \in Requests, FactorStep(r)
    PROVE  factors' \subseteq FactorRecords /\ codes' \subseteq Codes
<1> USE DEF FactorRecords
<1>1. req[r] \in RequestStates /\ factors \subseteq FactorRecords /\ codes \subseteq Codes /\ now \in 1..MaxTime
  BY DEF TypeOK
<1>2. req[r].code.n \in Int /\ req[r].code \in Codes /\ r \in Makers
  BY <1>1 DEF RequestStates, Codes, Makers
<1>3. CASE UNCHANGED <<factors, codes>>
  BY <1>1, <1>3
<1>4. CASE InsertPending(r)
  <2>1. Factor("totp_pending", r, NoStep) \in FactorRecords
    BY <1>1, <1>2 DEF Factor, NoStep
  <2> QED
    BY <1>1, <1>4, <2>1 DEF InsertPending
<1>5. CASE Promote(r)
  <2>1. ASSUME NEW f \in factors
        PROVE  Promoted(f, req[r].code) \in FactorRecords
    BY <1>1, <1>2 DEF Promoted
  <2> QED
    BY <1>1, <1>5, <2>1 DEF Promote, Patch, OfType
<1>6. CASE ClaimStep(r, AfterFactor(req[r].kind))
  <2>1. ASSUME NEW f \in factors
        PROVE  [f EXCEPT !.used = req[r].code.n] \in FactorRecords
    BY <1>1, <1>2
  <2> QED
    BY <1>1, <1>6, <2>1 DEF ClaimStep, Patch
<1>7. CASE CreateCodes(r)
  <2>1. CodeSet(r) \subseteq Codes
    BY <1>2, StepAssumption DEF CodeSet, Code, Codes
  <2> QED
    BY <1>1, <1>7, <2>1 DEF CreateCodes
<1>8. CASE DeletePending(r) \/ DeleteFactors(r)
  BY <1>1, <1>8 DEF DeletePending, DeleteFactors
<1>9. CASE SpendCode(r, AfterFactor(req[r].kind)) \/ DeleteCodes(r)
  BY <1>1, <1>9 DEF SpendCode, DeleteCodes
<1> QED
  BY <1>3, <1>4, <1>5, <1>6, <1>7, <1>8, <1>9
     DEF FactorStep, CheckOff, ReadPending, CountCodes, CheckOn, Verify, LeftEnabled

LEMMA AccountRows ==
    ASSUME TypeOK, NEW r \in Requests, AccountStep(r)
    PROVE  /\ RecordOK' /\ codes' \subseteq Codes /\ factors' = factors /\ {linked', crossed'} \subseteq BOOLEAN
           /\ closed' \subseteq held /\ UNCHANGED <<now, sessions, held, ended, scene>>
<1> USE DEF RecordOK, sessionVars, factorVars, others
<1>1. req[r] \in RequestStates /\ RecordOK /\ codes \subseteq Codes /\ {linked, crossed} \subseteq BOOLEAN /\ closed \subseteq held
  BY DEF TypeOK
<1>2. CASE Administer(r) \/ Migrate(r) \/ SetPassword(r)
  <2>1. req[r].typed \in Makers /\ r \in Makers
    BY <1>1 DEF RequestStates, Makers
  <2> QED
    BY <1>1, <1>2, <2>1 DEF Administer, Migrate, SetPassword
<1>3. CASE Replace(r)
  <2>1. CodeSet(r) \subseteq Codes
    BY StepAssumption DEF CodeSet, Code, Codes, Makers
  <2>2. now \in 0..MaxTime
    BY DEF TypeOK
  <2> QED
    BY <1>1, <1>3, <2>1, <2>2 DEF Replace
<1>4. CASE Bind(r)
  BY <1>1, <1>4 DEF Bind
<1>5. ASSUME NEW pc, NEW token, NEW other, NEW code, NEW typed, Begin(r, pc, token, other, code, typed)
      PROVE  /\ crossed' = (crossed \/ Overlaps(req[r].kind))
             /\ UNCHANGED <<now, sessions, held, account, ended, closed, factors, codes, linked, scene>>
  BY <1>5 DEF Begin
<1>6. CASE BeginLogin(r) \/ BeginSecond(r) \/ BeginLogout(r) \/ BeginWithSession(r) \/ BeginOidc(r)
             \/ BeginReset(r) \/ BeginExpel(r)
  <2>1. /\ crossed' = (crossed \/ Overlaps(req[r].kind))
        /\ UNCHANGED <<now, sessions, held, account, ended, closed, factors, codes, linked, scene>>
    BY <1>5, <1>6 DEF BeginLogin, BeginSecond, BeginLogout, BeginWithSession, BeginOidc, BeginReset, BeginExpel
  <2> QED
    BY <1>1, <2>1
<1>7. CASE UNCHANGED <<sessionVars, factorVars, others>>
  BY <1>1, <1>7
<1> QED
  BY <1>2, <1>3, <1>4, <1>6, <1>7
     DEF AccountStep, ReadUser, CheckPassword, CheckFactor, ReadBinding, ReadOidcUser, CheckOidcFactor

LEMMA TypesStep ==
    ASSUME TypeOK, RouteInv, [Next]_vars
    PROVE  TypeOK'
<1>1. req' \in [Requests -> RequestStates]
  BY StepKeeps DEF Keeps, Typed
<1>2. ASSUME NEW r \in Requests, SessionStep(r) PROVE TypeOK'
  BY <1>1, <1>2, SessionRows DEF SessionStep, factorVars, others, TypeOK, RecordOK
<1>3. ASSUME NEW r \in Requests, FactorStep(r) PROVE TypeOK'
  BY <1>1, <1>3, FactorRows DEF FactorStep, sessionVars, others, TypeOK, FactorRecords
<1>4. ASSUME NEW r \in Requests, AccountStep(r) PROVE TypeOK'
  BY <1>1, <1>4, AccountRows DEF TypeOK, RecordOK
<1>5. ASSUME NEW r \in Requests, Fault(r) PROVE TypeOK'
  BY <1>1, <1>5 DEF Fault, Fail, factorVars, TypeOK
<1>6. CASE Time
  BY <1>1, <1>6, TimeAssumption DEF Time, Tick, factorVars, others, TypeOK
<1>7. CASE UNCHANGED vars
  BY <1>1, <1>7 DEF vars, TypeOK
<1> QED
  BY <1>2, <1>3, <1>4, <1>5, <1>6, <1>7 DEF Next

LEMMA OldStays ==
    ASSUME TypeOK, Keeps, NEW m \in Makers, Old(m)
    PROVE  Old(m)'
BY DEF Keeps, Kept, Old, At, Makers

\* The part of SessionInv about requests needs only that no token is taken back.
LEMMA TokensStay ==
    ASSUME TypeOK, SessionInv, Keeps, held \subseteq held', now <= now', now' \in Int
    PROVE  \A r \in Requests : /\ {req'[r].token, req'[r].other} \subseteq held' \cup {NoToken}
                               /\ req'[r].iat <= now'
<1> SUFFICES ASSUME NEW r \in Requests
             PROVE  {req'[r].token, req'[r].other} \subseteq held' \cup {NoToken} /\ req'[r].iat <= now'
  OBVIOUS
<1>1. Kept(r)
  BY DEF Keeps
<1>2. {req[r].token, req[r].other} \subseteq held \cup {NoToken} /\ req[r].iat <= now
  BY DEF SessionInv
<1>3. req[r].iat \in Int /\ now \in Int
  BY DEF TypeOK, RequestStates
<1>4. {req'[r].token, req'[r].other} \subseteq {req[r].token, req[r].other, NoToken} \cup held
  BY <1>1 DEF Kept
<1>5. req'[r].iat = req[r].iat \/ (req'[r].iat = now /\ now' = now)
  BY <1>1 DEF Kept
<1> QED
  BY <1>2, <1>3, <1>4, <1>5

\* What is to be shown of a step: the new tokens and the deleted sessions are of the past.
LEMMA SessionsFrame ==
    ASSUME TypeOK, SessionInv, Keeps, now <= now', now' \in Int,
           held \subseteq held', \A t \in held' \ held : Old(t.sid[1])' /\ t.iat <= now',
           \A sid \in ended' : sessions'[sid] = 0,
           \A sid \in ended' \ ended : sid \in Sids /\ Old(sid[1]),
           account'.validAfter <= now', RevocationReaches'
    PROVE  SessionInv'
<1>1. ASSUME NEW t \in held' PROVE Old(t.sid[1])' /\ t.iat <= now'
  <2>1. CASE t \in held
    <3>1. t.sid[1] \in Makers /\ t.iat \in Int /\ now \in Int
      BY <2>1 DEF TypeOK, Tokens, Sids
    <3> QED
      BY <2>1, <3>1, OldStays DEF SessionInv
  <2> QED
    BY <1>1, <2>1
<1>2. ASSUME NEW sid \in ended' PROVE Old(sid[1])'
  <2>1. Old(sid[1]) /\ sid[1] \in Makers
    BY <1>2 DEF SessionInv, TypeOK, Sids
  <2> QED
    BY <2>1, OldStays
<1>3. \A r \in Requests : {req'[r].token, req'[r].other} \subseteq held' \cup {NoToken} /\ req'[r].iat <= now'
  BY TokensStay
<1> QED
  BY <1>1, <1>2, <1>3 DEF SessionInv

\* Most steps leave the times of the account and of revocations alone, or set them to now.
LEMMA Revocations ==
    ASSUME TypeOK, SessionInv, now <= now', now' \in Int,
           \/ closed' = closed /\ account'.validAfter = account.validAfter
           \/ closed' = closed \cup held /\ account'.validAfter = now
    PROVE  account'.validAfter <= now' /\ RevocationReaches'
<1>1. now \in Int /\ account.validAfter \in Int /\ (\A t \in held : t.iat \in Int) /\ closed \subseteq held
  BY DEF TypeOK, Tokens
<1> QED
  BY <1>1 DEF SessionInv, RevocationReaches

LEMMA AccountTimes ==
    ASSUME TypeOK, NEW r \in Requests, AccountStep(r)
    PROVE  /\ UNCHANGED <<sessions, held, ended, now>>
           /\ \/ closed' = closed /\ account'.validAfter = account.validAfter
              \/ closed' = closed \cup held /\ account'.validAfter = now
<1>1. UNCHANGED <<sessions, held, ended, now>>
  BY AccountRows
<1> USE DEF sessionVars
<1>2. CASE Administer(r) \/ Migrate(r) \/ SetPassword(r)
  BY <1>2 DEF Administer, Migrate, SetPassword, TypeOK
<1>3. CASE Replace(r)
  BY <1>3 DEF Replace, TypeOK
<1>4. CASE UNCHANGED <<account, closed>>
  BY <1>1, <1>4
<1>5. ASSUME NEW pc, NEW token, NEW other, NEW code, NEW typed, Begin(r, pc, token, other, code, typed)
      PROVE  UNCHANGED <<account, closed>>
  BY <1>5 DEF Begin
<1>6. CASE BeginLogin(r) \/ BeginSecond(r) \/ BeginLogout(r) \/ BeginWithSession(r) \/ BeginOidc(r)
             \/ BeginReset(r) \/ BeginExpel(r)
  <2>1. UNCHANGED <<account, closed>>
    BY <1>5, <1>6 DEF BeginLogin, BeginSecond, BeginLogout, BeginWithSession, BeginOidc, BeginReset, BeginExpel
  <2> QED
    BY <1>1, <2>1
<1> QED
  BY <1>1, <1>2, <1>3, <1>4, <1>6
     DEF AccountStep, ReadUser, CheckPassword, CheckFactor, ReadBinding, ReadOidcUser, Bind, CheckOidcFactor

LEMMA SessionsStep ==
    ASSUME TypeOK, RouteInv, SessionInv, [Next]_vars
    PROVE  SessionInv'
<1>0. Keeps
  BY StepKeeps
<1>1. now \in Int /\ \A sid \in Sids : sessions[sid] \in Int
  <2>1. sessions \in [Sids -> 0..(MaxTime + SessionLife + ChallengeLife)]
    BY DEF TypeOK
  <2> QED
    BY <2>1, TimeAssumption DEF TypeOK
<1>2. ASSUME NEW r \in Requests, Extend(r) PROVE SessionInv'
  <2>0. PICK old \in held \cup {NoToken} : old = req[r].token
    BY DEF SessionInv
  <2> DEFINE sid == old.sid
             t == Token(sid, req[r].iat, "user")
  <2>1. req[r].iat <= now /\ sid \in Sids
    BY <2>0 DEF SessionInv, TypeOK, RequestStates, Tokens
  <2>2. t \in Tokens /\ t.sid = sid /\ t.iat = req[r].iat
    BY <2>1 DEF Token, Tokens, TypeOK, RequestStates
  <2>3. Old(sid[1])'
    <3>1. NoToken.sid[1] = First
      BY DEF NoToken, Token
    <3>2. Old(sid[1]) /\ sid[1] \in Makers
      BY <2>0, <2>1, <3>1 DEF SessionInv, Old, Sids
    <3> QED
      BY <1>0, <3>2, OldStays
  <2>4. /\ UNCHANGED <<now, account, ended, closed>>
        /\ held' \in {held, held \cup {t}}
        /\ sessions' = sessions \/ (sessions' = [sessions EXCEPT ![sid] = req[r].iat + SessionLife] /\ sessions[sid] > now)
    BY <1>2, <2>0 DEF Extend, Extends, Usable
  <2>5. ASSUME NEW s \in ended PROVE sessions'[s] = 0
    <3>1. sessions[s] = 0 /\ s \in Sids /\ sid \in Sids /\ 0 < now
      BY <2>1, <2>5 DEF SessionInv, TypeOK
    <3>2. s = sid => sessions' = sessions
      BY <1>1, <2>4, <3>1
    <3> QED
      BY <2>4, <3>1, <3>2 DEF TypeOK
  <2> HIDE DEF t, sid
  <2>6. account'.validAfter <= now' /\ RevocationReaches'
    BY <1>1, <2>4, Revocations
  <2>7. \A u \in held' \ held : Old(u.sid[1])' /\ u.iat <= now'
    BY <2>1, <2>2, <2>3, <2>4
  <2> QED
    BY <1>0, <1>1, <2>4, <2>5, <2>6, <2>7, SessionsFrame
<1>3. ASSUME NEW r \in Requests, Insert(r) PROVE SessionInv'
  <2> DEFINE sid == <<r, req[r].nth>>
             t == Token(sid, req[r].iat, req[r].scope)
             inner == req[r].kind = "password" /\ req[r].nth = 1
             live == [s \in Sids |-> IF Usable(s) THEN sessions[s] ELSE 0]
  <2>1. req[r] \in RequestStates
    BY DEF TypeOK
  <2>2. sid \in Sids /\ t.sid = sid /\ t.iat = req[r].iat
    BY <2>1 DEF Token, Sids, Makers, RequestStates
  <2>3. req[r].iat <= now /\ r # First /\ At(r, "insert")
    BY <1>3, RequestAssumption DEF SessionInv, First, Insert
  <2>4. /\ UNCHANGED <<now, account, ended, closed>>
        /\ sessions' = [live EXCEPT ![sid] = req[r].iat + Lifetime(req[r].scope)]
        /\ inner => held' = held
        /\ ~inner => held' = held \cup {t}
    BY <1>3 DEF Insert
  <2>5. ASSUME NEW s \in ended PROVE sessions'[s] = 0
    <3>1. sessions[s] = 0 /\ s \in Sids /\ Old(s[1])
      BY <2>5 DEF SessionInv, TypeOK
    <3>2. s # sid
      BY <2>3, <3>1 DEF Old, At
    <3>3. live[s] = 0
      BY <3>1
    <3> QED
      BY <2>2, <2>4, <3>1, <3>2, <3>3
  <2>6. ~inner => Old(r)'
    <3>1. Moved(r, IF inner THEN "setPassword" ELSE "done")
      BY <1>3, TypedRequests, InsertMoves
    <3> QED
      BY <3>1 DEF Moved, Old, At
  <2>7. held \subseteq held' /\ \A u \in held' \ held : Old(u.sid[1])' /\ u.iat <= now'
    BY <2>2, <2>3, <2>4, <2>6
  <2>8. account'.validAfter <= now' /\ RevocationReaches'
    BY <1>1, <2>4, Revocations
  <2> QED
    BY <1>0, <1>1, <2>4, <2>5, <2>7, <2>8, SessionsFrame
<1>4. ASSUME NEW r \in Requests, Consume(r) PROVE SessionInv'
  <2>1. /\ sessions' = sessions \/ sessions' = [sessions EXCEPT ![req[r].token.sid] = 0]
        /\ UNCHANGED <<now, held, account, ended, closed>>
    BY <1>4 DEF Consume
  <2>2. \A sid \in ended : sessions'[sid] = 0
    BY <2>1 DEF SessionInv, TypeOK
  <2>3. account'.validAfter <= now' /\ RevocationReaches'
    BY <1>1, <2>1, Revocations
  <2> QED
    BY <1>0, <1>1, <2>1, <2>2, <2>3, SessionsFrame
<1>5. ASSUME NEW r \in Requests, Logout(r) PROVE SessionInv'
  <2>1. PICK t \in {req[r].token, req[r].other} :
          /\ \/ UNCHANGED <<sessions, ended>>
             \/ t # NoToken /\ sessions' = [sessions EXCEPT ![t.sid] = 0] /\ ended' = ended \cup {t.sid}
          /\ UNCHANGED <<now, held, account, closed>>
    BY <1>5 DEF Logout, DropCookie, Loads
  <2>2. t # NoToken => t.sid \in Sids /\ Old(t.sid[1])
    <3>1. t \in held \cup {NoToken}
      BY DEF SessionInv
    <3> QED
      BY <3>1 DEF SessionInv, TypeOK, Tokens
  <2>3. \A sid \in ended' : sessions'[sid] = 0
    BY <2>1, <2>2 DEF SessionInv, TypeOK
  <2>4. \A sid \in ended' \ ended : sid \in Sids /\ Old(sid[1])
    BY <2>1, <2>2
  <2>5. account'.validAfter <= now' /\ RevocationReaches'
    BY <1>1, <2>1, Revocations
  <2> QED
    BY <1>0, <1>1, <2>1, <2>3, <2>4, <2>5, SessionsFrame
<1>6. ASSUME UNCHANGED <<sessions, held, ended>>, now <= now', now' \in Int,
             \/ closed' = closed /\ account'.validAfter = account.validAfter
             \/ closed' = closed \cup held /\ account'.validAfter = now
      PROVE  SessionInv'
  <2>1. \A sid \in ended' : sessions'[sid] = 0
    BY <1>6 DEF SessionInv
  <2>2. account'.validAfter <= now' /\ RevocationReaches'
    BY <1>6, Revocations
  <2> QED
    BY <1>0, <1>6, <2>1, <2>2, SessionsFrame
<1>7. ASSUME NEW r \in Requests, SessionStep(r) PROVE SessionInv'
  <2>1. CASE Stamp(r, AfterStamp(req[r].kind))
    BY <1>1, <1>6, <2>1 DEF Stamp, TypeOK
  <2>2. CASE UNCHANGED <<now, sessions, held, account, ended, closed>>
    BY <1>1, <1>6, <2>2
  <2> QED
    BY <1>2, <1>3, <1>4, <1>5, <1>7, <2>1, <2>2 DEF SessionStep, CheckSession, CheckUser, Sign, Issue, CutoffNow
<1>8. ASSUME NEW r \in Requests, FactorStep(r) PROVE SessionInv'
  BY <1>1, <1>6, <1>8 DEF FactorStep, sessionVars
<1>9. ASSUME NEW r \in Requests, AccountStep(r) PROVE SessionInv'
  <2>1. /\ UNCHANGED <<sessions, held, ended, now>>
        /\ \/ closed' = closed /\ account'.validAfter = account.validAfter
           \/ closed' = closed \cup held /\ account'.validAfter = now
    BY <1>9, AccountTimes
  <2> QED
    BY <1>1, <1>6, <2>1
<1>10. ASSUME NEW r \in Requests, Fault(r) PROVE SessionInv'
  BY <1>1, <1>6, <1>10 DEF Fault, Fail
<1>11. CASE Time
  BY <1>1, <1>6, <1>11 DEF Time, Tick
<1>12. CASE UNCHANGED vars
  BY <1>1, <1>6, <1>12 DEF vars
<1> QED
  BY <1>7, <1>8, <1>9, <1>10, <1>11, <1>12 DEF Next

-----------------------------------------------------------------------------
(* A challenge is consumed once.                                            *)

\* Which steps each part of the handlers takes.
LEMMA FactorStepFrom ==
    ASSUME NEW r \in Requests, FactorStep(r)
    PROVE  Within(r, {"checkOff", "deletePending", "insertPending", "readPending", "promote", "count", "create",
                      "checkOn", "verify", "claim", "deleteFactors", "left", "deleteCodes"})
BY DEF FactorStep, CheckOff, DeletePending, InsertPending, ReadPending, Promote, CountCodes, CreateCodes, CheckOn,
       Verify, ClaimStep, SpendCode, DeleteFactors, LeftEnabled, DeleteCodes, At, Within

LEMMA AccountStepFrom ==
    ASSUME NEW r \in Requests, AccountStep(r)
    PROVE  Within(r, {"todo", "readUser", "password", "migrate", "factor", "binding", "linkedUser", "emailUser",
                      "bind", "oidcFactor", "setPassword", "replace"})
<1> USE DEF At, Within
<1>1. ASSUME NEW pc, NEW token, NEW other, NEW code, NEW typed, Begin(r, pc, token, other, code, typed)
      PROVE  At(r, "todo")
  BY <1>1 DEF Begin
<1>2. CASE BeginLogin(r) \/ BeginSecond(r) \/ BeginLogout(r) \/ BeginWithSession(r) \/ BeginOidc(r)
             \/ BeginReset(r) \/ BeginExpel(r)
  BY <1>1, <1>2 DEF BeginLogin, BeginSecond, BeginLogout, BeginWithSession, BeginOidc, BeginReset, BeginExpel
<1>3. CASE Administer(r) \/ ReadUser(r) \/ CheckPassword(r) \/ Migrate(r) \/ CheckFactor(r) \/ ReadBinding(r)
             \/ ReadOidcUser(r) \/ Bind(r) \/ CheckOidcFactor(r) \/ SetPassword(r) \/ Replace(r)
  BY <1>3 DEF Administer, ReadUser, CheckPassword, Migrate, CheckFactor, ReadBinding, ReadOidcUser, Bind,
              CheckOidcFactor, SetPassword, Replace
<1> QED
  BY <1>2, <1>3 DEF AccountStep

LEMMA SessionStepFrom ==
    ASSUME NEW r \in Requests, SessionStep(r)
    PROVE  /\ Within(r, {"session", "user", "sign", "extend", "issue", "insert", "consume", "drop", "dropChallenge",
                         "stamp", "cutoff"})
           /\ At(r, "consume") => Consume(r)
BY DEF SessionStep, CheckSession, CheckUser, Sign, Extend, Issue, Insert, Consume, Logout, DropCookie, Stamp, CutoffNow,
       At, Within

\* A step moves one request at most.
LEMMA OneMoves ==
    ASSUME TypeOK, RouteInv, [Next]_vars, NEW r \in Requests, req'[r] # req[r]
    PROVE  /\ SessionStep(r) \/ FactorStep(r) \/ AccountStep(r) \/ Fault(r)
           /\ \A s \in Requests \ {r} : req'[s] = req[s]
<1>1. PICK s \in Requests : SessionStep(s) \/ FactorStep(s) \/ AccountStep(s) \/ Fault(s)
  BY DEF Next, Time, Tick, vars
<1>2. Alone(s)
  BY <1>1, SessionStepKeeps, FactorStepKeeps, AccountStepKeeps, FaultKeeps
<1>3. s = r
  BY <1>2 DEF Alone
<1> QED
  BY <1>1, <1>2, <1>3 DEF Alone

LEMMA ConsumedNow ==
    ASSUME TypeOK, RouteInv, [Next]_vars, NEW r \in Requests, At(r, "consume"), Within(r, {"issue", "insert", "done"})'
    PROVE  /\ Usable(req[r].token.sid)
           /\ sessions' = [sessions EXCEPT ![req[r].token.sid] = 0]
           /\ \A s \in Requests \ {r} : req'[s] = req[s]
<1>1. req'[r] # req[r]
  BY DEF At, Within
<1>2. Consume(r) \/ Fault(r)
  BY <1>1, OneMoves, SessionStepFrom, FactorStepFrom, AccountStepFrom DEF At, Within
<1>3. ~Goto(r, "failed") /\ ~Goto(r, "refused")
  <2>1. "failed" \in Pcs /\ "refused" \in Pcs
    BY DEF Pcs
  <2> QED
    BY <2>1, TypedRequests, GotoMoves DEF Moved, Within
<1>4. Consume(r)
  BY <1>2, <1>3 DEF Fault, Fail
<1>5. Consumed(req[r].token.sid)
  BY <1>3, <1>4 DEF Consume
<1> QED
  BY <1>1, <1>4, <1>5, OneMoves DEF Consume, Consumed

\* A session that is gone, of a request that has answered, does not come back.
LEMMA GoneStays ==
    ASSUME TypeOK, RouteInv, [Next]_vars, NEW sid \in Sids, Old(sid[1]), sessions[sid] = 0
    PROVE  sessions'[sid] = 0
<1>1. now \in Nat \ {0} /\ sessions \in [Sids -> Int]
  BY TimeAssumption DEF TypeOK
<1>2. CASE sessions' = sessions
  BY <1>2
<1>3. ASSUME NEW r \in Requests, Extend(r) PROVE sessions'[sid] = 0
  <2>1. sessions' = sessions \/ (sessions' = [sessions EXCEPT ![req[r].token.sid] = req[r].iat + SessionLife]
                                 /\ sessions[req[r].token.sid] > now)
    BY <1>3 DEF Extend, Extends, Usable
  <2> QED
    BY <1>1, <2>1
<1>4. ASSUME NEW r \in Requests, Insert(r) PROVE sessions'[sid] = 0
  <2> DEFINE live == [s \in Sids |-> IF Usable(s) THEN sessions[s] ELSE 0]
  <2>1. At(r, "insert") /\ sessions' = [live EXCEPT ![<<r, req[r].nth>>] = req[r].iat + Lifetime(req[r].scope)]
    BY <1>4 DEF Insert
  <2>2. sid # <<r, req[r].nth>>
    BY <2>1, RequestAssumption DEF Old, At, First
  <2>3. live[sid] = 0
    OBVIOUS
  <2> QED
    BY <2>1, <2>2, <2>3
<1>5. ASSUME NEW r \in Requests, Consume(r) PROVE sessions'[sid] = 0
  BY <1>1, <1>5 DEF Consume
<1>6. ASSUME NEW r \in Requests, Logout(r) PROVE sessions'[sid] = 0
  BY <1>1, <1>6 DEF Logout, DropCookie
<1>7. ASSUME NEW r \in Requests, SessionStep(r) PROVE sessions'[sid] = 0
  BY <1>2, <1>3, <1>4, <1>5, <1>6, <1>7 DEF SessionStep, CheckSession, CheckUser, Sign, Issue, Stamp, CutoffNow
<1>8. ASSUME NEW r \in Requests, FactorStep(r) \/ AccountStep(r) \/ Fault(r) PROVE sessions' = sessions
  BY <1>8, AccountRows DEF FactorStep, sessionVars, Fault, Fail
<1>9. CASE Time \/ UNCHANGED vars
  BY <1>2, <1>9 DEF Time, Tick, vars
<1> QED
  BY <1>2, <1>7, <1>8, <1>9 DEF Next

LEMMA ChallengeStep ==
    ASSUME TypeOK, RouteInv, SessionInv, ChallengeInv, [Next]_vars
    PROVE  ChallengeInv'
<1> DEFINE Through(r) == OfKind(r, {"second"}) /\ Within(r, {"issue", "insert", "done"})
<1>0. Keeps
  BY StepKeeps
<1>1. ASSUME NEW r \in Requests, Through(r)'
      PROVE  /\ Through(r) \/ (OfKind(r, {"second"}) /\ At(r, "consume"))
             /\ req'[r].token = req[r].token
  BY <1>0, <1>1 DEF Keeps, Kept, Leads, SameCall, OfKind, Within, At
<1>2. ASSUME NEW r \in Requests, Through(r)'
      PROVE  sessions'[req'[r].token.sid] = 0
  <2>1. CASE Through(r)
    <3>1. PICK t \in held \cup {NoToken} : t = req[r].token
      BY DEF SessionInv
    <3>2. t.sid \in Sids /\ Old(t.sid[1])
      BY <3>1, FirstRecords DEF SessionInv, TypeOK, Tokens, NoToken, Token, Old
    <3> QED
      BY <1>1, <1>2, <2>1, <3>1, <3>2, GoneStays DEF ChallengeInv
  <2>2. CASE At(r, "consume")
    <3>1. sessions' = [sessions EXCEPT ![req[r].token.sid] = 0] /\ req[r].token.sid \in Sids
      BY <1>2, <2>2, ConsumedNow DEF TypeOK, RequestStates, Tokens
    <3> QED
      BY <1>1, <1>2, <3>1 DEF TypeOK
  <2> QED
    BY <1>1, <1>2, <2>1, <2>2
<1>3. ASSUME NEW r \in Requests, NEW s \in Requests, r # s, Through(r)', Through(s)', At(r, "consume")
      PROVE  req'[r].token # req'[s].token
  <2>1. Usable(req[r].token.sid) /\ req'[s] = req[s]
    BY <1>3, ConsumedNow
  <2>2. sessions[req[s].token.sid] = 0
    BY <1>3, <2>1 DEF ChallengeInv, OfKind, Within
  <2>3. 0 < now
    BY DEF TypeOK
  <2> QED
    BY <1>1, <1>3, <2>1, <2>2, <2>3 DEF Usable, TypeOK
<1>4. ASSUME NEW r \in Requests, NEW s \in Requests, r # s, Through(r)', Through(s)'
      PROVE  req'[r].token # req'[s].token
  <2>1. CASE At(r, "consume") \/ At(s, "consume")
    BY <1>3, <1>4, <2>1
  <2>2. CASE Through(r) /\ Through(s)
    BY <1>1, <1>4, <2>2 DEF ChallengeInv, OncePerChallenge, OfKind, Within
  <2> QED
    BY <1>1, <1>4, <2>1, <2>2
<1>5. OncePerChallenge'
  BY <1>4 DEF OncePerChallenge, OfKind, Within
<1> QED
  BY <1>2, <1>5 DEF ChallengeInv

-----------------------------------------------------------------------------
(* No code is accepted twice.                                               *)

\* What a step may do to the rows of the factors, and what it notes as spent.
SpentStays == \A s \in Requests : req'[s].spent = req[s].spent
Spending(r) == req'[r].spent = req[r].code /\ \A s \in Requests \ {r} : req'[s].spent = req[s].spent

Removes == factors' \subseteq factors /\ codes' \subseteq codes /\ SpentStays

Enrolls(r) ==
    /\ At(r, "insertPending") /\ At(r, "done")'
    /\ factors' = factors \cup {Factor("totp_pending", r, NoStep)} /\ codes' = codes /\ SpentStays

Promotes(r, f) ==
    /\ At(r, "promote") /\ f.type = "totp_pending" /\ f.secret = req[r].row
    /\ Patch(f, Promoted(f, req[r].code)) /\ codes' = codes /\ Spending(r)

Claims(r, f) ==
    /\ At(r, "claim") /\ req[r].code.type = "totp" /\ f.secret = req[r].row /\ f.used < req[r].code.n
    /\ Patch(f, [f EXCEPT !.used = req[r].code.n]) /\ codes' = codes /\ Spending(r)

Spends(r) ==
    /\ At(r, "claim") /\ req[r].code.type = "backup" /\ req[r].code \in codes
    /\ codes' = codes \ {req[r].code} /\ factors' = factors /\ Spending(r)

Makes(r) ==
    /\ (At(r, "create") /\ OfKind(r, {"enable"})) \/ (At(r, "replace") /\ OfKind(r, {"regenerate"}))
    /\ At(r, "cutoff")'
    /\ codes' = CodeSet(r) /\ factors' = factors /\ SpentStays

LEMMA GotoArrives ==
    ASSUME TypeOK, NEW r \in Requests, NEW pc \in Pcs, Goto(r, pc)
    PROVE  At(r, pc)' /\ SpentStays
BY TypedRequests, GotoMoves DEF Moved, SameCodes, SpentStays, At

LEMMA FactorEffects ==
    ASSUME TypeOK, RouteInv, NEW r \in Requests, FactorStep(r)
    PROVE  \/ Removes \/ Enrolls(r) \/ Spends(r) \/ Makes(r)
           \/ \E f \in factors : Promotes(r, f) \/ Claims(r, f)
<1>1. Keeps /\ Alone(r)
  BY FactorStepKeeps
<1>2. ASSUME ~Within(r, {"promote", "claim"})
      PROVE  SpentStays
  BY <1>1, <1>2 DEF Keeps, Kept, Alone, SpentStays
<1>3. {"done", "refused", "cutoff"} \subseteq Pcs
  BY DEF Pcs
<1>4. CASE CheckOff(r) \/ DeletePending(r) \/ ReadPending(r) \/ CountCodes(r) \/ CheckOn(r) \/ Verify(r)
             \/ DeleteFactors(r) \/ LeftEnabled(r) \/ DeleteCodes(r)
  BY <1>2, <1>4 DEF CheckOff, DeletePending, ReadPending, CountCodes, CheckOn, Verify, DeleteFactors, LeftEnabled,
                    DeleteCodes, Removes, Within, At
<1>5. CASE InsertPending(r)
  <2>1. At(r, "done")' /\ SpentStays
    BY <1>3, <1>5, GotoArrives DEF InsertPending
  <2> QED
    BY <1>5, <2>1 DEF InsertPending, Enrolls
<1>6. CASE CreateCodes(r)
  <2>1. At(r, "cutoff")' /\ SpentStays
    BY <1>3, <1>6, GotoArrives DEF CreateCodes
  <2>2. OfKind(r, {"enable"})
    BY <1>6 DEF RouteInv, Routed, CreateCodes, At, OfKind
  <2> QED
    BY <1>6, <2>1, <2>2 DEF CreateCodes, Makes
<1>7. CASE Promote(r)
  <2>1. CASE Goto(r, "refused") /\ UNCHANGED factors
    BY <1>3, <1>7, <2>1, GotoArrives DEF Promote, Removes
  <2>2. CASE \E f \in factors : /\ f.type = "totp_pending" /\ f.secret = req[r].row
                                /\ Patch(f, Promoted(f, req[r].code))
                                /\ SetsSpent(r, "stamp")
    <3>1. "stamp" \in Pcs
      BY DEF Pcs
    <3>2. Spending(r)
      BY <2>2, <3>1, TypedRequests, SpentMoves DEF Spending, Moved
    <3> QED
      BY <1>7, <2>2, <3>2 DEF Promotes, Promote
  <2> QED
    BY <1>7, <2>1, <2>2 DEF Promote, OfType, SetsSpent
<1>8. ASSUME At(r, "claim") PROVE AfterFactor(req[r].kind) \in Pcs
  BY <1>8, AfterFactorHops DEF Hops
<1>9. CASE ClaimStep(r, AfterFactor(req[r].kind))
  <2>1. CASE Goto(r, "refused") /\ UNCHANGED factors
    BY <1>3, <1>9, <2>1, GotoArrives DEF ClaimStep, Removes
  <2>2. CASE \E f \in factors : /\ f.secret = req[r].row /\ f.used < req[r].code.n
                                /\ Patch(f, [f EXCEPT !.used = req[r].code.n])
                                /\ SetsSpent(r, AfterFactor(req[r].kind))
    <3>1. Spending(r)
      BY <1>8, <1>9, <2>2, TypedRequests, SpentMoves DEF Spending, Moved, ClaimStep
    <3> QED
      BY <1>9, <2>2, <3>1 DEF Claims, ClaimStep
  <2> QED
    BY <1>9, <2>1, <2>2 DEF ClaimStep, Unclaimed, SetsSpent
<1>10. CASE SpendCode(r, AfterFactor(req[r].kind))
  <2>1. CASE req[r].code \in codes
    <3>1. SetsSpent(r, AfterFactor(req[r].kind))
      BY <1>10, <2>1 DEF SpendCode, Removed, SetsSpent
    <3>2. Spending(r)
      BY <1>8, <1>10, <3>1, TypedRequests, SpentMoves DEF Spending, Moved, SpendCode
    <3> QED
      BY <1>10, <2>1, <3>2 DEF SpendCode, Spends
  <2>2. CASE req[r].code \notin codes
    <3>1. Goto(r, "refused")
      BY <1>10, <2>2 DEF SpendCode, Removed, Goto
    <3>2. SpentStays
      BY <1>3, <3>1, GotoArrives
    <3> QED
      BY <1>10, <3>2 DEF SpendCode, Removes
  <2> QED
    BY <2>1, <2>2
<1> QED
  BY <1>4, <1>5, <1>6, <1>7, <1>9, <1>10 DEF FactorStep

LEMMA Effects ==
    ASSUME TypeOK, RouteInv, [Next]_vars
    PROVE  \/ Removes
           \/ \E r \in Requests : \/ Enrolls(r) \/ Spends(r) \/ Makes(r)
                                  \/ \E f \in factors : Promotes(r, f) \/ Claims(r, f)
<1>1. CASE Time \/ UNCHANGED vars
  BY <1>1 DEF Time, Tick, vars, factorVars, Removes, SpentStays
<1>2. ASSUME NEW r \in Requests, SessionStep(r) PROVE Removes
  <2>1. Keeps /\ Alone(r)
    BY <1>2, SessionStepKeeps
  <2>2. SpentStays
    BY <1>2, <2>1, SessionStepFrom DEF Keeps, Kept, Alone, SpentStays, Within
  <2> QED
    BY <1>2, <2>2 DEF SessionStep, factorVars, Removes
<1>3. ASSUME NEW r \in Requests, Fault(r) PROVE Removes
  <2>1. "failed" \in Pcs
    BY DEF Pcs
  <2> QED
    BY <1>3, <2>1, GotoArrives DEF Fault, Fail, factorVars, Removes
<1>4. ASSUME NEW r \in Requests, AccountStep(r) PROVE Removes \/ Makes(r)
  <2>1. Keeps /\ Alone(r)
    BY <1>4, AccountStepKeeps
  <2>2. SpentStays
    BY <1>4, <2>1, AccountStepFrom DEF Keeps, Kept, Alone, SpentStays, Within
  <2>3. ASSUME NEW pc, NEW token, NEW other, NEW code, NEW typed, Begin(r, pc, token, other, code, typed)
        PROVE  UNCHANGED factorVars
    BY <2>3 DEF Begin
  <2>4. CASE BeginLogin(r) \/ BeginSecond(r) \/ BeginLogout(r) \/ BeginWithSession(r) \/ BeginOidc(r)
               \/ BeginReset(r) \/ BeginExpel(r)
    <3>1. UNCHANGED factorVars
      BY <2>3, <2>4 DEF BeginLogin, BeginSecond, BeginLogout, BeginWithSession, BeginOidc, BeginReset, BeginExpel
    <3> QED
      BY <2>2, <3>1 DEF factorVars, Removes
  <2>5. CASE Administer(r) \/ ReadUser(r) \/ CheckPassword(r) \/ Migrate(r) \/ CheckFactor(r) \/ ReadBinding(r)
               \/ ReadOidcUser(r) \/ Bind(r) \/ CheckOidcFactor(r) \/ SetPassword(r)
    <3>1. UNCHANGED factorVars
      BY <2>5 DEF Administer, ReadUser, CheckPassword, Migrate, CheckFactor, ReadBinding, ReadOidcUser, Bind,
              CheckOidcFactor, SetPassword
    <3> QED
      BY <2>2, <3>1 DEF factorVars, Removes
  <2>6. CASE Replace(r)
    <3>1. OfKind(r, {"regenerate"}) /\ At(r, "replace")
      BY <2>6 DEF RouteInv, Routed, Replace, At, OfKind
    <3>2. At(r, "cutoff")'
      BY <2>6 DEF Replace, At, TypeOK
    <3> QED
      BY <2>2, <2>6, <3>1, <3>2 DEF Replace, Makes
  <2> QED
    BY <1>4, <2>4, <2>5, <2>6 DEF AccountStep
<1>5. ASSUME NEW r \in Requests, FactorStep(r)
      PROVE  \/ Removes \/ Enrolls(r) \/ Spends(r) \/ Makes(r) \/ \E f \in factors : Promotes(r, f) \/ Claims(r, f)
  BY <1>5, FactorEffects
<1> HIDE DEF Removes, Enrolls, Spends, Makes, Promotes, Claims
<1> QED
  BY <1>1, <1>2, <1>3, <1>4, <1>5 DEF Next

LEMMA OldStaysAll ==
    ASSUME TypeOK, Keeps
    PROVE  \A m \in Makers : Old(m) => Old(m)'
BY OldStays

LEMMA SecretStep ==
    ASSUME TypeOK, RouteInv, SecretInv, [Next]_vars
    PROVE  SecretInv'
<1>1. Keeps
  BY StepKeeps
<1>2. \A m \in Makers : Old(m) => Old(m)'
  BY <1>1, OldStaysAll
<1>3. /\ \A f \in factors : f.secret \in Makers
      /\ \A r \in Requests : req[r].code.of \in Makers /\ req'[r].code.of \in Makers
  BY <1>1 DEF TypeOK, Keeps, Typed, RequestStates, Codes
<1>4. ASSUME NEW r \in Requests
      PROVE  Old(req[r].code.of)' /\ req'[r].spent \in {NoCode, req'[r].code}
  <2>1. Kept(r)
    BY <1>1 DEF Keeps
  <2>2. PICK m \in Makers : m = req'[r].code.of
    BY <1>3
  <2>3. Old(m)
    BY <2>1, <2>2 DEF Kept, SecretInv
  <2>4. req'[r].spent \in {NoCode, req'[r].code}
    <3>1. CASE At(r, "todo")
      BY <2>1, <3>1 DEF Kept, RouteInv, Within, At
    <3>2. CASE ~At(r, "todo")
      BY <2>1, <3>2 DEF Kept, SameCall, SecretInv
    <3> QED
      BY <3>1, <3>2
  <2>5. Old(m)'
    BY <1>2, <2>3
  <2>6. Old(req[r].code.of)'
    BY <2>2, <2>5 DEF Old, At
  <2> QED
    BY <2>4, <2>6
<1>5. /\ \A f \in factors' : Old(f.secret)'
      /\ \A f, g \in factors' : f.secret = g.secret => f = g
  <2>1. CASE factors' \subseteq factors
    BY <1>2, <1>3, <2>1 DEF SecretInv
  <2>2. ASSUME NEW r \in Requests, Enrolls(r)
        PROVE  <1>5!1 /\ <1>5!2
    <3> DEFINE new == Factor("totp_pending", r, NoStep)
    <3>1. new.secret = r /\ factors' = factors \cup {new}
      BY <2>2 DEF Enrolls, Factor
    <3>2. Old(r)' /\ ~Old(r)
      BY <2>2, RequestAssumption DEF Enrolls, Old, At, First
    <3> HIDE DEF new
    <3> QED
      BY <1>2, <1>3, <3>1, <3>2 DEF SecretInv
  <2>3. ASSUME NEW r \in Requests, NEW f \in factors, Promotes(r, f) \/ Claims(r, f)
        PROVE  <1>5!1 /\ <1>5!2
    <3>1. PICK g : g.secret = f.secret /\ factors' = (factors \ {f}) \cup {g}
      BY <2>3 DEF Promotes, Claims, Promoted, Patch, TypeOK
    <3> QED
      BY <1>2, <1>3, <3>1 DEF SecretInv
  <2>4. CASE \E r \in Requests : Spends(r) \/ Makes(r)
    BY <2>1, <2>4 DEF Spends, Makes
  <2> QED
    BY <2>1, <2>2, <2>3, <2>4, Effects DEF Removes
<1>6. \A c \in codes' : c.type = "backup"
  <2>1. CASE codes' \subseteq codes
    BY <2>1 DEF SecretInv
  <2>2. ASSUME NEW r \in Requests, Makes(r)
        PROVE  \A c \in codes' : c.type = "backup"
    BY <2>2 DEF Makes, CodeSet, Code
  <2>3. CASE \E r \in Requests : Enrolls(r) \/ Spends(r) \/ \E f \in factors : Promotes(r, f) \/ Claims(r, f)
    BY <2>1, <2>3 DEF Enrolls, Promotes, Claims, Spends
  <2>4. CASE Removes
    BY <2>1, <2>4 DEF Removes
  <2> QED
    BY <2>2, <2>3, <2>4, Effects
<1> QED
  BY <1>4, <1>5, <1>6 DEF SecretInv

\* The enrollment a verification code is for, from the check of the code to its use.
Chosen(r) ==
    /\ At(r, "promote") => req[r].code.type = "totp" /\ req[r].code.of = req[r].row
    /\ At(r, "claim") /\ req[r].code.type = "totp" =>
          /\ req[r].code.of = req[r].row
          /\ \A f \in factors : f.secret = req[r].row => f.type = "totp"

\* A step that leads to promote or claim has checked the code.
LEMMA Checked ==
    ASSUME TypeOK, RouteInv, SecretInv, [Next]_vars, NEW r \in Requests, req'[r] # req[r],
           Within(r, {"promote", "claim"})'
    PROVE  /\ factors' = factors /\ codes' = codes
           /\ Chosen(r)'
<1>1. Keeps
  BY StepKeeps
<1>2. Within(r, {"readPending", "verify", "promote", "claim"})
  BY <1>1 DEF Keeps, Leads, Within
<1>3. FactorStep(r) \/ Fault(r)
  BY <1>2, OneMoves, SessionStepFrom, AccountStepFrom DEF Within
<1>4. ASSUME NEW pc \in {"failed", "refused", "stamp"}
      PROVE  req'[r].pc # pc
  BY DEF Within
<1>5. ~Goto(r, "failed") /\ ~Goto(r, "refused")
  <2>1. "failed" \in Pcs /\ "refused" \in Pcs
    BY DEF Pcs
  <2> QED
    BY <1>4, <2>1, GotoArrives DEF At
<1>6. FactorStep(r)
  BY <1>3, <1>5 DEF Fault, Fail
<1>7. SameCall(r) /\ (~At(r, "readPending") /\ ~At(r, "verify") => req'[r].row = req[r].row)
  BY <1>1, <1>2 DEF Keeps, Kept, Within, At
<1>8. CASE ReadPending(r)
  <2>1. PICK f \in OfType("totp_pending") :
          SetsRow(r, IF Confirms(r, f) THEN "promote" ELSE "refused", f.secret)
    BY <1>5, <1>8 DEF ReadPending, SetsRow
  <2>2. f.secret \in Makers
    BY DEF OfType, TypeOK
  <2>3. {"promote", "refused"} \subseteq Pcs
    BY DEF Pcs
  <2>4. req'[r].pc = (IF Confirms(r, f) THEN "promote" ELSE "refused") /\ req'[r].row = f.secret
    BY <2>1, <2>2, <2>3, TypedRequests, RowMoves DEF Moved
  <2>5. Confirms(r, f) /\ At(r, "promote")'
    BY <1>4, <2>4 DEF At
  <2>6. req[r].code.type = "totp" /\ req[r].code.of = f.secret
    BY <2>5 DEF Confirms, Verifies, Code
  <2> QED
    BY <1>7, <1>8, <2>4, <2>5, <2>6 DEF ReadPending, Chosen, SameCall, At
<1>9. CASE Verify(r)
  <2>1. "claim" \in Pcs
    BY DEF Pcs
  <2>2. CASE \E f \in OfType("totp") : Verifies(req[r].code, f.secret) /\ SetsRow(r, "claim", f.secret)
    <3>1. PICK f \in OfType("totp") : Verifies(req[r].code, f.secret) /\ SetsRow(r, "claim", f.secret)
      BY <2>2
    <3>2. f.secret \in Makers /\ f \in factors /\ f.type = "totp"
      BY DEF OfType, TypeOK
    <3>3. req'[r].pc = "claim" /\ req'[r].row = f.secret
      BY <2>1, <3>1, <3>2, TypedRequests, RowMoves DEF Moved
    <3>4. req[r].code.of = f.secret
      BY <3>1 DEF Verifies, Code
    <3> QED
      BY <1>7, <1>9, <3>2, <3>3, <3>4 DEF Verify, Chosen, SameCall, SecretInv, At
  <2>3. CASE req[r].code \in codes /\ Goto(r, "claim")
    <3>1. req'[r].pc = "claim"
      BY <2>1, <2>3, GotoArrives DEF At
    <3>2. req'[r].code.type = "backup"
      BY <1>7, <2>3 DEF SameCall, SecretInv
    <3> QED
      BY <1>9, <3>1, <3>2 DEF Verify, Chosen, At
  <2> QED
    BY <1>5, <1>9, <2>2, <2>3 DEF Verify, SetsRow
<1>10. ~Promote(r) /\ ~ClaimStep(r, AfterFactor(req[r].kind)) /\ ~SpendCode(r, AfterFactor(req[r].kind))
  <2>1. ASSUME At(r, "claim"), SetsSpent(r, AfterFactor(req[r].kind)) PROVE FALSE
    <3>1. AfterFactor(req[r].kind) \in Pcs /\ AfterFactor(req[r].kind) \notin {"promote", "claim"}
      BY <2>1, AfterFactorHops DEF Hops, AfterFactor
    <3> QED
      BY <2>1, <3>1, TypedRequests, SpentMoves DEF Moved, Within
  <2>2. ~SetsSpent(r, "stamp")
    <3>1. "stamp" \in Pcs
      BY DEF Pcs
    <3> QED
      BY <1>4, <3>1, TypedRequests, SpentMoves DEF Moved
  <2>3. ~Promote(r)
    BY <1>5, <2>2 DEF Promote, SetsSpent
  <2>4. ~ClaimStep(r, AfterFactor(req[r].kind))
    BY <1>5, <2>1 DEF ClaimStep, SetsSpent
  <2>5. ~SpendCode(r, AfterFactor(req[r].kind))
    <3>1. SpendCode(r, AfterFactor(req[r].kind)) =>
            At(r, "claim") /\ (SetsSpent(r, AfterFactor(req[r].kind)) \/ Goto(r, "refused"))
      BY DEF SpendCode, SetsSpent, Goto
    <3> QED
      BY <1>5, <2>1, <3>1
  <2> QED
    BY <2>3, <2>4, <2>5
<1>11. Within(r, {"readPending", "verify"})
  BY <1>2, <1>6, <1>10 DEF FactorStep, CheckOff, DeletePending, InsertPending, ReadPending, CountCodes, CreateCodes,
        CheckOn, Verify, DeleteFactors, LeftEnabled, DeleteCodes, Within, At
<1>12. ReadPending(r) \/ Verify(r)
  BY <1>6, <1>11 DEF FactorStep, CheckOff, DeletePending, InsertPending, ReadPending, CountCodes, CreateCodes,
        CheckOn, Verify, DeleteFactors, LeftEnabled, DeleteCodes, Promote, ClaimStep, SpendCode, Within, At
<1> QED
  BY <1>8, <1>9, <1>12

LEMMA ChangedRows ==
    ASSUME TypeOK, NEW f \in factors, NEW n \in Int, NEW code \in Codes
    PROVE  LET taken == [f EXCEPT !.used = n] IN
           /\ taken.type = f.type /\ taken.secret = f.secret /\ taken.used = n
           /\ Promoted(f, code).type = "totp" /\ Promoted(f, code).secret = f.secret
           /\ Promoted(f, code).used = code.n
BY DEF TypeOK, Promoted

\* A step that leaves a request where it is, and its rows alone, leaves its choice.
LEMMA ChosenStays ==
    ASSUME TypeOK, RouteInv, SecretInv, SpentInv, [Next]_vars, NEW r \in Requests
    PROVE  Chosen(r)'
<1>1. CASE req'[r] # req[r]
  <2>1. CASE Within(r, {"promote", "claim"})'
    BY <1>1, <2>1, Checked
  <2>2. CASE ~Within(r, {"promote", "claim"})'
    BY <2>2 DEF Chosen, Within, At
  <2> QED
    BY <2>1, <2>2
<1>2. CASE req'[r] = req[r]
  <2>1. Chosen(r) /\ Old(req[r].code.of)
    BY DEF SpentInv, SecretInv, Chosen, At
  <2>2. \A g \in factors' : g.secret = req[r].code.of =>
            \E f \in factors : f.secret = g.secret /\ g.type \in {"totp", f.type}
    <3>1. ASSUME NEW s \in Requests, Enrolls(s), NEW g \in factors' \ factors
          PROVE  g.secret # req[r].code.of
      BY <2>1, <3>1, RequestAssumption DEF Enrolls, Factor, Old, At, First
    <3>2. ASSUME NEW s \in Requests, NEW f \in factors, Promotes(s, f) \/ Claims(s, f), NEW g \in factors' \ factors
          PROVE  g.secret = f.secret /\ g.type \in {"totp", f.type}
      <4>1. req[s].code \in Codes /\ req[s].code.n \in Int
        BY DEF TypeOK, RequestStates, Codes
      <4>2. g = Promoted(f, req[s].code) \/ g = [f EXCEPT !.used = req[s].code.n]
        BY <3>2 DEF Promotes, Claims, Patch
      <4>3. ASSUME NEW code \in Codes, NEW n \in Int, g = Promoted(f, code) \/ g = [f EXCEPT !.used = n]
            PROVE  g.secret = f.secret /\ g.type \in {"totp", f.type}
        <5>1. CASE g = Promoted(f, code)
          BY <5>1, ChangedRows
        <5>2. CASE g = [f EXCEPT !.used = n]
          BY <5>2, ChangedRows
        <5> QED
          BY <4>3, <5>1, <5>2
      <4> QED
        BY <4>1, <4>2, <4>3
    <3> QED
      BY <3>1, <3>2, Effects DEF Removes, Spends, Makes
  <2> QED
    BY <1>2, <2>1, <2>2 DEF Chosen, At
<1> QED
  BY <1>1, <1>2

\* A verification code that was spent, and a row of its enrollment.
Claimed(code, f) == code.type = "totp" /\ f.secret = code.of => f.type = "totp" /\ f.used >= code.n

LEMMA ClaimedStays ==
    ASSUME TypeOK, RouteInv, SecretInv, SpentInv, [Next]_vars,
           NEW r \in Requests, req'[r].spent = req[r].spent, NEW g \in factors'
    PROVE  Claimed(req[r].spent, g)
<1> DEFINE c == req[r].spent
<1>1. \A f \in factors : Claimed(c, f)
  BY DEF SpentInv, Claimed
<1>2. c \in Codes /\ Old(c.of)
  BY FirstRecords DEF SecretInv, TypeOK, RequestStates
<1>3. \A s \in Requests : req[s].code \in Codes
  BY DEF TypeOK, RequestStates
<1> HIDE DEF c
<1>4. ASSUME NEW s \in Requests, Enrolls(s)
      PROVE  Claimed(c, g)
  <2>1. g \in factors \/ g.secret = s
    BY <1>4 DEF Enrolls, Factor
  <2>2. ~Old(s)
    BY <1>4, RequestAssumption DEF Enrolls, Old, At, First
  <2> QED
    BY <1>1, <1>2, <2>1, <2>2 DEF Claimed
<1>5. ASSUME NEW s \in Requests, NEW f \in factors, Promotes(s, f)
      PROVE  Claimed(c, g)
  <2>1. g \in factors \/ g.secret = f.secret
    BY <1>5 DEF Promotes, Patch, Promoted, TypeOK
  <2>2. f.type # "totp"
    BY <1>5 DEF Promotes
  <2> QED
    BY <1>1, <2>1, <2>2 DEF Claimed
<1>6. ASSUME NEW s \in Requests, NEW f \in factors, Claims(s, f)
      PROVE  Claimed(c, g)
  <2>1. g \in factors \/ (g.secret = f.secret /\ g.type = f.type /\ g.used = req[s].code.n)
    BY <1>6 DEF Claims, Patch, TypeOK
  <2>2. f.used < req[s].code.n /\ f.used \in Int /\ req[s].code.n \in Int /\ c.n \in Int
    BY <1>2, <1>3, <1>6 DEF Claims, TypeOK, Codes
  <2> QED
    BY <1>1, <2>1, <2>2 DEF Claimed
<1>7. ASSUME factors' \subseteq factors PROVE Claimed(c, g)
  BY <1>1, <1>7
<1>8. Claimed(c, g)
  BY <1>4, <1>5, <1>6, <1>7, Effects DEF Removes, Spends, Makes
<1> QED
  BY <1>8 DEF c

\* A step that spends a code: the code was free, and is taken.
LEMMA SpendingStep ==
    ASSUME TypeOK, RouteInv, SecretInv, SpentInv, [Next]_vars,
           NEW r \in Requests, req'[r].spent # req[r].spent
    PROVE  /\ req'[r].spent = req[r].code
           /\ \A s \in Requests \ {r} : req'[s].spent = req[s].spent /\ req[s].spent # req[r].code
           /\ req[r].code.type = "backup" => req[r].code \notin codes'
           /\ \A g \in factors' : Claimed(req[r].code, g)
<1>1. Spending(r) /\ (Spends(r) \/ \E f \in factors : Promotes(r, f) \/ Claims(r, f))
  BY Effects DEF Removes, Enrolls, Makes, SpentStays, Spends, Promotes, Claims, Spending
<1>2. req[r].code \in Codes
  BY DEF TypeOK, RequestStates
<1>3. CASE Spends(r)
  BY <1>1, <1>3 DEF Spending, Spends, SpentInv, Claimed
<1>4. ASSUME NEW f \in factors, Promotes(r, f)
      PROVE  /\ req[r].code.type = "totp" /\ req[r].code.of = f.secret
             /\ \A s \in Requests : req[s].spent # req[r].code
             /\ \A g \in factors' : Claimed(req[r].code, g)
  <2>1. req[r].code.type = "totp" /\ req[r].code.of = f.secret /\ f.type # "totp"
    BY <1>4 DEF Promotes, SpentInv
  <2>2. \A s \in Requests : req[s].spent # req[r].code
    BY <2>1 DEF SpentInv
  <2>3. \A g \in factors' : g.secret = f.secret => g = Promoted(f, req[r].code)
    BY <1>4 DEF Promotes, Patch, SecretInv
  <2>4. Promoted(f, req[r].code).type = "totp" /\ Promoted(f, req[r].code).used = req[r].code.n
    BY DEF Promoted, TypeOK
  <2> QED
    BY <1>2, <2>1, <2>2, <2>3, <2>4 DEF Claimed, Codes
<1>5. ASSUME NEW f \in factors, Claims(r, f)
      PROVE  /\ req[r].code.type = "totp"
             /\ \A s \in Requests : req[s].spent # req[r].code
             /\ \A g \in factors' : Claimed(req[r].code, g)
  <2>1. /\ req[r].code.type = "totp" /\ req[r].code.of = f.secret /\ f.type = "totp"
        /\ f.used < req[r].code.n /\ f.used \in Int /\ req[r].code.n \in Int
    BY <1>2, <1>5 DEF Claims, SpentInv, TypeOK, Codes
  <2>2. \A s \in Requests : req[s].spent # req[r].code
    BY <2>1 DEF SpentInv
  <2> DEFINE new == [f EXCEPT !.used = req[r].code.n]
  <2>3. \A g \in factors' : g.secret = f.secret => g = new
    BY <1>5 DEF Claims, Patch, SecretInv
  <2>4. new.type = "totp" /\ new.used = req[r].code.n
    BY <2>1 DEF TypeOK
  <2> HIDE DEF new
  <2> QED
    BY <2>1, <2>2, <2>3, <2>4 DEF Claimed
<1> QED
  BY <1>1, <1>3, <1>4, <1>5 DEF Spending

LEMMA SpentStep ==
    ASSUME TypeOK, RouteInv, SecretInv, SpentInv, [Next]_vars
    PROVE  SpentInv'
<1>1. ASSUME NEW r \in Requests
      PROVE  \A g \in factors' : Claimed(req'[r].spent, g)
  BY SpendingStep, ClaimedStays
<1>2. ASSUME NEW r \in Requests, req'[r].spent.type = "backup"
      PROVE  req'[r].spent \notin codes'
  <2>1. CASE req'[r].spent # req[r].spent
    BY <1>2, <2>1, SpendingStep
  <2>2. CASE req'[r].spent = req[r].spent
    <3>1. req[r].spent \notin codes
      BY <1>2, <2>2 DEF SpentInv
    <3>2. Old(req[r].spent.of)
      BY FirstRecords DEF SecretInv
    <3>3. ASSUME NEW s \in Requests, Makes(s)
          PROVE  req[r].spent \notin codes'
      <4>1. ~Old(s)
        BY <3>3, RequestAssumption DEF Makes, Old, At, First
      <4> QED
        BY <3>2, <3>3, <4>1 DEF Makes, CodeSet, Code
    <3>4. CASE codes' \subseteq codes
      BY <2>2, <3>1, <3>4
    <3> QED
      BY <2>2, <3>3, <3>4, Effects DEF Removes, Enrolls, Spends, Promotes, Claims
  <2> QED
    BY <2>1, <2>2
<1>3. CodesUsedOnce'
  <2> SUFFICES ASSUME NEW r \in Requests, NEW s \in Requests, r # s, req'[r].spent # NoCode
               PROVE  req'[r].spent # req'[s].spent
    BY DEF CodesUsedOnce
  <2>1. CASE req'[r].spent # req[r].spent
    BY <2>1, SpendingStep
  <2>2. CASE req'[s].spent # req[s].spent
    BY <2>2, SpendingStep
  <2>3. CASE req'[r].spent = req[r].spent /\ req'[s].spent = req[s].spent
    BY <2>3 DEF SpentInv, CodesUsedOnce
  <2> QED
    BY <2>1, <2>2, <2>3
<1>4. \A r \in Requests : Chosen(r)'
  BY ChosenStays
<1> QED
  BY <1>1, <1>2, <1>3, <1>4 DEF SpentInv, Chosen, Claimed

-----------------------------------------------------------------------------
(* Factors and backup codes agree once everything has settled.              *)

LEMMA SceneStays == ASSUME TypeOK, [Next]_vars PROVE scene'.mfa = scene.mfa
<1>1. ASSUME NEW r \in Requests, SessionStep(r) \/ FactorStep(r) PROVE scene' = scene
  BY <1>1 DEF SessionStep, FactorStep, others
<1>2. ASSUME NEW r \in Requests, Fault(r) PROVE scene'.mfa = scene.mfa
  BY <1>2 DEF Fault, TypeOK
<1>3. CASE Time \/ UNCHANGED vars
  BY <1>3 DEF Time, others, vars
<1> QED
  BY <1>1, <1>2, <1>3, AccountRows DEF Next

LEMMA MakerStep ==
    ASSUME TypeOK, RouteInv, MakerInv, [Next]_vars
    PROVE  MakerInv'
<1>1. Keeps
  BY StepKeeps
<1>2. ASSUME NEW m \in Requests, Making(m) PROVE Making(m)'
  BY <1>1, <1>2 DEF Keeps, Kept, Leads, Making, OfKind, Within
<1>3. scene'.mfa = scene.mfa
  BY SceneStays
<1>4. ASSUME NEW c \in codes' \cap codes
      PROVE  c \in CodeSet(c.of) /\ ((c.of = First /\ scene'.mfa) \/ (c.of \in Requests /\ Making(c.of)'))
  BY <1>2, <1>3, <1>4 DEF MakerInv
<1>5. ASSUME NEW r \in Requests, Makes(r), NEW c \in codes'
      PROVE  c.of = r /\ c \in CodeSet(r) /\ Making(r)'
  <2>1. c.of = r /\ c \in CodeSet(r)
    BY <1>5 DEF Makes, CodeSet, Code
  <2>2. Making(r)'
    BY <1>1, <1>5 DEF Makes, Making, OfKind, Within, At, Keeps, Kept
  <2> QED
    BY <2>1, <2>2
<1>6. ASSUME NEW c \in codes' \ codes
      PROVE  \E r \in Requests : Makes(r)
  BY <1>6, Effects DEF Removes, Enrolls, Promotes, Claims, Spends
<1>7. ASSUME NEW c \in codes'
      PROVE  c \in CodeSet(c.of) /\ ((c.of = First /\ scene'.mfa) \/ (c.of \in Requests /\ Making(c.of)'))
  BY <1>4, <1>5, <1>6
<1> QED
  BY <1>7 DEF MakerInv, Making, OfKind, Within

\* Only the removal of the factors turns them off.
LEMMA TurnedOff ==
    ASSUME TypeOK, RouteInv, [Next]_vars, IsEnabled, ~IsEnabled'
    PROVE  \E s \in Requests : /\ InFlight(s) /\ OfKind(s, Removing)
                               /\ Within(s, {"left", "deleteCodes"})' /\ OfKind(s, Removing)'
                               /\ req'[s] # req[s]
<1>1. PICK f \in factors : f.type = "totp"
  BY DEF IsEnabled, OfType
<1>2. \A g \in factors' : g.type # "totp"
  BY DEF IsEnabled, OfType
<1>3. factors' # factors
  BY <1>1, <1>2
<1>4. PICK s \in Requests : FactorStep(s)
  BY <1>3, AccountRows DEF Next, SessionStep, Fault, Time, vars, factorVars
<1>5. ~DeletePending(s) /\ ~InsertPending(s)
  BY <1>1, <1>2 DEF DeletePending, InsertPending, OfType
<1>6. ~Promote(s)
  <2> SUFFICES ASSUME NEW g \in factors, Patch(g, Promoted(g, req[s].code)) PROVE FALSE
    BY <1>3 DEF Promote, OfType
  <2>1. Promoted(g, req[s].code).type = "totp"
    BY ChangedRows DEF TypeOK, RequestStates, Codes
  <2> QED
    BY <1>2, <2>1 DEF Patch
<1>7. ~ClaimStep(s, AfterFactor(req[s].kind))
  <2> SUFFICES ASSUME NEW g \in factors, NEW n \in Int, Patch(g, [g EXCEPT !.used = n]) PROVE FALSE
    <3>1. req[s].code.n \in Int
      BY DEF TypeOK, RequestStates, Codes
    <3> QED
      BY <1>3, <3>1 DEF ClaimStep
  <2>1. [g EXCEPT !.used = n].type = g.type
    BY FirstRecords, ChangedRows
  <2> QED
    BY <1>1, <1>2, <2>1 DEF Patch
<1>8. DeleteFactors(s)
  BY <1>3, <1>4, <1>5, <1>6, <1>7 DEF FactorStep, CheckOff, ReadPending, CountCodes, CreateCodes, CheckOn, Verify,
        SpendCode, LeftEnabled, DeleteCodes
<1>9. Keeps
  BY StepKeeps
<1>10. At(s, "deleteFactors") /\ OfKind(s, Removing) /\ OfKind(s, Removing)' /\ InFlight(s)
  BY <1>8, <1>9 DEF DeleteFactors, RouteInv, Routed, OfKind, At, InFlight, Keeps, Kept
<1>11. {"left", "deleteCodes"} \subseteq Pcs
  BY DEF Pcs
<1>12. Within(s, {"left", "deleteCodes"})'
  BY <1>8, <1>11, GotoArrives DEF DeleteFactors, Within, At
<1> QED
  BY <1>10, <1>12 DEF Within, At

\* A request comes to rely on a factor where it has turned it on or found it on.
LEMMA RelyNow ==
    ASSUME TypeOK, RouteInv, [Next]_vars, NEW r \in Requests, RelyOnFactor(r)', ~RelyOnFactor(r)
    PROVE  IsEnabled'
<1>1. Keeps
  BY StepKeeps
<1>2. req'[r] # req[r]
  BY DEF RelyOnFactor, OfKind, Within
<1>3. At(r, "promote") \/ At(r, "checkOn")
  BY <1>1 DEF Keeps, Kept, Leads, RelyOnFactor, OfKind, Within, At
<1>4. ~Goto(r, "failed") /\ ~Goto(r, "refused")
  <2>1. "failed" \in Pcs /\ "refused" \in Pcs
    BY DEF Pcs
  <2> QED
    BY <2>1, GotoArrives DEF At, RelyOnFactor, Within
<1>5. FactorStep(r)
  BY <1>2, <1>3, <1>4, OneMoves, SessionStepFrom, AccountStepFrom DEF Within, At, Fault, Fail
<1>6. Promote(r) \/ CheckOn(r)
  BY <1>3, <1>5 DEF FactorStep, CheckOff, DeletePending, InsertPending, ReadPending, CountCodes, CreateCodes, Verify,
        ClaimStep, SpendCode, DeleteFactors, LeftEnabled, DeleteCodes, At
<1>7. CASE Promote(r)
  <2>1. PICK f \in factors : Patch(f, Promoted(f, req[r].code))
    BY <1>4, <1>7 DEF Promote, OfType
  <2>2. Promoted(f, req[r].code).type = "totp"
    BY ChangedRows DEF TypeOK, RequestStates, Codes
  <2> QED
    BY <2>1, <2>2 DEF Patch, IsEnabled, OfType
<1>8. CASE CheckOn(r)
  BY <1>4, <1>8 DEF CheckOn, IsEnabled, OfType
<1> QED
  BY <1>6, <1>7, <1>8

\* A removal, a change: no two of them at once, unless the run is crossed.
Apart == \A r, s \in Requests : InFlight(r) /\ OfKind(r, Removing) /\ InFlight(s) => ~OfKind(s, Changing)

\* Codes without a factor are about to be deleted.
Leftover ==
    ~IsEnabled /\ codes # {} => \E r \in Requests : OfKind(r, Removing) /\ Within(r, {"left", "deleteCodes", "failed"})

LEMMA CrossedStays == ASSUME TypeOK, [Next]_vars, crossed PROVE crossed'
<1>1. ASSUME NEW r \in Requests, SessionStep(r) \/ FactorStep(r) PROVE crossed'
  BY <1>1 DEF SessionStep, FactorStep, others
<1>2. ASSUME NEW r \in Requests, Fault(r) PROVE crossed'
  BY <1>2 DEF Fault
<1>3. CASE Time \/ UNCHANGED vars
  BY <1>3 DEF Time, others, vars
<1>4. ASSUME NEW r, NEW pc, NEW token, NEW other, NEW code, NEW typed, Begin(r, pc, token, other, code, typed)
      PROVE  crossed'
  BY <1>4 DEF Begin
<1>5. ASSUME NEW r \in Requests, AccountStep(r) PROVE crossed'
  BY <1>4, <1>5 DEF AccountStep, BeginLogin, BeginSecond, BeginLogout, BeginWithSession, BeginOidc, BeginReset,
        BeginExpel, Administer, ReadUser, CheckPassword, Migrate, CheckFactor, ReadBinding, ReadOidcUser, Bind,
        CheckOidcFactor, SetPassword, Replace, others
<1> QED
  BY <1>1, <1>2, <1>3, <1>5 DEF Next

\* A request that starts meets none of the other sort, or the run is crossed.
LEMMA StartsApart ==
    ASSUME TypeOK, RouteInv, [Next]_vars, ~crossed',
           NEW r \in Requests, InFlight(r)', ~InFlight(r)
    PROVE  ~Overlaps(req[r].kind) /\ req'[r] # req[r]
<1>1. Keeps
  BY StepKeeps
<1>2. At(r, "todo") /\ req'[r] # req[r]
  BY <1>1 DEF Keeps, Leads, InFlight, At
<1>3. AccountStep(r)
  BY <1>2, OneMoves, SessionStepFrom, FactorStepFrom DEF At, Within, Fault, Fail, InFlight
<1>4. ASSUME NEW pc, NEW token, NEW other, NEW code, NEW typed, Begin(r, pc, token, other, code, typed)
      PROVE  ~Overlaps(req[r].kind)
  BY <1>4 DEF Begin
<1>5. ~Administer(r)
  <2>1. "done" \in Pcs
    BY DEF Pcs
  <2> QED
    BY <2>1, GotoArrives DEF Administer, At, InFlight
<1>6. \/ BeginLogin(r) \/ BeginSecond(r) \/ BeginLogout(r) \/ BeginWithSession(r) \/ BeginOidc(r)
      \/ BeginReset(r) \/ BeginExpel(r)
  BY <1>2, <1>3, <1>5 DEF At, AccountStep, ReadUser, CheckPassword, Migrate, CheckFactor, ReadBinding,
                    ReadOidcUser, Bind, CheckOidcFactor, SetPassword, Replace
<1> QED
  BY <1>2, <1>4, <1>6 DEF BeginLogin, BeginSecond, BeginLogout, BeginWithSession, BeginOidc, BeginReset, BeginExpel

LEMMA ApartStays ==
    ASSUME TypeOK, RouteInv, Apart, [Next]_vars, ~crossed'
    PROVE  Apart'
<1>1. Keeps
  BY StepKeeps
<1> SUFFICES ASSUME NEW r \in Requests, NEW s \in Requests,
                    InFlight(r)', OfKind(r, Removing)', InFlight(s)', OfKind(s, Changing)'
             PROVE  FALSE
  BY DEF Apart
<1>2. OfKind(r, Removing) /\ OfKind(s, Changing)
  BY <1>1 DEF Keeps, Kept, OfKind
<1>3. r # s
  BY <1>2 DEF OfKind, Removing, Changing
<1>4. CASE InFlight(r) /\ InFlight(s)
  BY <1>2, <1>4 DEF Apart
<1>5. CASE ~InFlight(r)
  <2>1. ~Overlaps(req[r].kind) /\ req'[s] = req[s]
    BY <1>3, <1>5, StartsApart, OneMoves
  <2> QED
    BY <1>2, <2>1 DEF Overlaps, OfKind, InFlight
<1>6. CASE ~InFlight(s)
  <2>1. ~Overlaps(req[s].kind) /\ req'[r] = req[r]
    BY <1>3, <1>6, StartsApart, OneMoves
  <2> QED
    BY <1>2, <2>1 DEF Overlaps, OfKind, InFlight
<1> QED
  BY <1>4, <1>5, <1>6

LEMMA RelyStays ==
    ASSUME TypeOK, RouteInv, Apart, [Next]_vars, \A r \in Requests : RelyOnFactor(r) => IsEnabled,
           NEW r \in Requests, RelyOnFactor(r)'
    PROVE  IsEnabled'
<1>1. CASE ~RelyOnFactor(r)
  BY <1>1, RelyNow
<1>2. CASE RelyOnFactor(r) /\ ~IsEnabled'
  <2>1. PICK s \in Requests : InFlight(s) /\ OfKind(s, Removing)
    BY <1>2, TurnedOff
  <2>2. InFlight(r) /\ OfKind(r, Changing)
    BY <1>2 DEF RelyOnFactor, InFlight, OfKind, Within, Changing
  <2> QED
    BY <2>1, <2>2 DEF Apart
<1> QED
  BY <1>1, <1>2

LEMMA LeftoverStays ==
    ASSUME TypeOK, RouteInv, Leftover, [Next]_vars, \A r \in Requests : RelyOnFactor(r) => IsEnabled
    PROVE  Leftover'
<1>1. Keeps
  BY StepKeeps
<1> SUFFICES ASSUME ~IsEnabled', codes' # {}
             PROVE  \E r \in Requests : OfKind(r, Removing)' /\ Within(r, {"left", "deleteCodes", "failed"})'
  BY DEF Leftover
<1>2. CASE IsEnabled
  BY <1>2, TurnedOff DEF Within
<1>3. CASE ~IsEnabled /\ codes # {}
  <2>1. PICK r \in Requests : OfKind(r, Removing) /\ Within(r, {"left", "deleteCodes", "failed"})
    BY <1>3 DEF Leftover
  <2>2. OfKind(r, Removing)'
    BY <1>1, <2>1 DEF Keeps, Kept, OfKind
  <2>3. CASE req'[r] = req[r] \/ At(r, "failed")
    BY <1>1, <2>1, <2>2, <2>3 DEF Within, Keeps, Leads, At
  <2>4. CASE req'[r] # req[r] /\ ~At(r, "failed")
    <3>1. FactorStep(r) \/ Fault(r)
      BY <2>1, <2>4, OneMoves, SessionStepFrom, AccountStepFrom DEF Within, At
    <3>2. {"failed", "deleteCodes"} \subseteq Pcs
      BY DEF Pcs
    <3>3. CASE Fault(r)
      BY <2>2, <3>2, <3>3, GotoArrives DEF Fault, Fail, Within, At
    <3>4. CASE FactorStep(r)
      <4>1. LeftEnabled(r) \/ DeleteCodes(r)
        BY <2>1, <2>4, <3>4 DEF FactorStep, CheckOff, DeletePending, InsertPending, ReadPending, Promote, CountCodes,
              CreateCodes, CheckOn, Verify, ClaimStep, SpendCode, DeleteFactors, Within, At
      <4>2. Goto(r, "deleteCodes")
        BY <1>3, <4>1 DEF LeftEnabled, DeleteCodes
      <4> QED
        BY <2>2, <3>2, <4>2, GotoArrives DEF Within, At
    <3> QED
      BY <3>1, <3>3, <3>4
  <2> QED
    BY <2>3, <2>4
<1>4. CASE ~IsEnabled /\ codes = {}
  <2>1. PICK r \in Requests : Makes(r)
    BY <1>4, Effects DEF Removes, Enrolls, Promotes, Claims, Spends
  <2>2. RelyOnFactor(r)
    BY <2>1 DEF Makes, RelyOnFactor, At, Within
  <2> QED
    BY <1>4, <2>2
<1> QED
  BY <1>2, <1>3, <1>4

LEMMA FactorsStep ==
    ASSUME TypeOK, RouteInv, FactorInv, [Next]_vars
    PROVE  FactorInv'
<1> SUFFICES ASSUME ~crossed'
             PROVE  Apart' /\ (\A r \in Requests : RelyOnFactor(r)' => IsEnabled') /\ Leftover'
  BY DEF FactorInv, Apart, Leftover, RelyOnFactor, InFlight, OfKind, Within
<1>1. ~crossed
  BY CrossedStays
<1>2. Apart /\ (\A r \in Requests : RelyOnFactor(r) => IsEnabled) /\ Leftover
  BY <1>1 DEF FactorInv, Apart, Leftover
<1> QED
  BY <1>2, ApartStays, RelyStays, LeftoverStays

-----------------------------------------------------------------------------
(* A password that was set is kept.                                         *)
LEMMA PasswordStep ==
    ASSUME TypeOK, PasswordKept, [Next]_vars
    PROVE  PasswordKept'
<1>1. ASSUME account' = account PROVE PasswordKept'
  BY <1>1 DEF PasswordKept
<1>2. ASSUME account'.password = account.password, account'.chosen = account.chosen PROVE PasswordKept'
  BY <1>2 DEF PasswordKept
<1>3. ASSUME NEW r \in Requests, SessionStep(r) PROVE PasswordKept'
  <2>1. CASE Stamp(r, AfterStamp(req[r].kind))
    BY <1>2, <2>1 DEF Stamp, TypeOK
  <2> QED
    BY <1>1, <1>3, <2>1 DEF SessionStep, CheckSession, CheckUser, Sign, Extend, Issue, Insert, Consume, Logout,
          DropCookie, CutoffNow
<1>4. ASSUME NEW r \in Requests, FactorStep(r) \/ Fault(r) PROVE PasswordKept'
  BY <1>1, <1>4 DEF FactorStep, Fault, Fail, sessionVars
<1>5. ASSUME NEW r \in Requests, AccountStep(r) PROVE PasswordKept'
  <2>1. ASSUME NEW pc, NEW token, NEW other, NEW code, NEW typed, Begin(r, pc, token, other, code, typed)
        PROVE  account' = account
    BY <2>1 DEF Begin, sessionVars
  <2>2. CASE BeginLogin(r) \/ BeginSecond(r) \/ BeginLogout(r) \/ BeginWithSession(r) \/ BeginOidc(r)
               \/ BeginReset(r) \/ BeginExpel(r)
    BY <1>1, <2>1, <2>2 DEF BeginLogin, BeginSecond, BeginLogout, BeginWithSession, BeginOidc, BeginReset, BeginExpel
  <2>3. CASE ReadUser(r) \/ CheckPassword(r) \/ CheckFactor(r) \/ ReadBinding(r) \/ ReadOidcUser(r) \/ Bind(r)
               \/ CheckOidcFactor(r)
    BY <1>1, <2>3 DEF ReadUser, CheckPassword, CheckFactor, ReadBinding, ReadOidcUser, Bind, CheckOidcFactor,
          sessionVars
  <2>4. CASE Administer(r) \/ Replace(r)
    BY <1>2, <2>4 DEF Administer, Replace, TypeOK
  <2>5. CASE Migrate(r)
    BY <2>5 DEF Migrate, Unchanged, PasswordKept, TypeOK
  <2>6. CASE SetPassword(r)
    BY <2>6 DEF SetPassword, PasswordKept, TypeOK
  <2> QED
    BY <1>5, <2>2, <2>3, <2>4, <2>5, <2>6 DEF AccountStep
<1>6. CASE Time \/ UNCHANGED vars
  BY <1>1, <1>6 DEF Time, Tick, vars
<1> QED
  BY <1>3, <1>4, <1>5, <1>6 DEF Next

-----------------------------------------------------------------------------
(* The invariant holds, and what it implies.                                *)

LEMMA InitTypes == ASSUME Init PROVE TypeOK
<1>1. PICK s \in Scenes :
        /\ now = 1
        /\ req = [r \in Requests |-> Idle(s.kinds[r])]
        /\ held = {Token(<<First, 1>>, 1, "user")}
                    \cup (IF s.mfa THEN {Token(<<First, 2>>, 1, "mfa-challenge")} ELSE {})
        /\ sessions = [sid \in Sids |-> IF sid = <<First, 1>> THEN 1 + SessionLife
                                      ELSE IF sid = <<First, 2>> /\ s.mfa THEN 1 + ChallengeLife
                                      ELSE 0]
        /\ account = [enabled |-> TRUE, deleted |-> FALSE, validAfter |-> 0,
                      password |-> First, legacy |-> s.legacy, chosen |-> First]
        /\ factors = IF s.mfa THEN {Factor("totp", First, NoStep)} ELSE {}
        /\ codes = IF s.mfa THEN CodeSet(First) ELSE {}
        /\ linked = FALSE
        /\ scene = [mfa |-> s.mfa, faulty |-> s.faulty, skip |-> s.skip]
        /\ ended = {} /\ closed = {} /\ crossed = FALSE
  BY DEF Init
<1>2. s \in [kinds : [Requests -> Kinds], mfa : BOOLEAN, legacy : BOOLEAN, faulty : BOOLEAN, skip : BOOLEAN]
  BY SceneAssumption
<1>3. First \in Makers /\ <<First, 1>> \in Sids /\ <<First, 2>> \in Sids
  BY DEF Makers, Sids
<1>4. 1 \in 1..MaxTime /\ 1 \in 0..MaxTime /\ 0 \in 0..MaxTime /\ now \in 1..MaxTime
  BY <1>1, TimeAssumption
<1>5. sessions \in [Sids -> 0..(MaxTime + SessionLife + ChallengeLife)]
  BY <1>1, TimeAssumption
<1>6. held \subseteq Tokens /\ closed \subseteq held /\ ended \subseteq Sids
  BY <1>1, <1>3, <1>4 DEF Token, Tokens
<1>7. account \in [enabled : BOOLEAN, deleted : BOOLEAN, validAfter : 0..MaxTime,
                   password : Makers, legacy : BOOLEAN, chosen : Makers]
  BY <1>1, <1>2, <1>3, <1>4
<1>8. factors \subseteq [type : {"totp", "totp_pending"}, secret : Makers, used : Int, born : 1..MaxTime]
  BY <1>1, <1>3, <1>4 DEF Factor, NoStep
<1>9. codes \subseteq Codes
  BY <1>1, <1>3, StepAssumption DEF CodeSet, Code, Codes
<1>10. scene \in [mfa : BOOLEAN, faulty : BOOLEAN, skip : BOOLEAN] /\ {linked, crossed} \subseteq BOOLEAN
  BY <1>1, <1>2
<1>11. ASSUME NEW r \in Requests PROVE Idle(s.kinds[r]) \in RequestStates
  <2>1. s.kinds[r] \in Kinds
    BY <1>2
  <2>2. "todo" \in Pcs
    BY DEF Pcs
  <2> QED
    BY <1>3, <1>4, <2>1, <2>2, FirstRecords DEF Idle, RequestStates
<1>12. req \in [Requests -> RequestStates]
  BY <1>1, <1>11
<1> QED
  BY <1>4, <1>5, <1>6, <1>7, <1>8, <1>9, <1>10, <1>12 DEF TypeOK

LEMMA InitRows ==
    ASSUME Init
    PROVE  /\ now = 1 /\ account.validAfter = 0 /\ account.password = account.chosen
           /\ \A t \in held : t.sid[1] = First /\ t.iat = 1
           /\ ended = {} /\ closed = {}
           /\ \A r \in Requests : /\ req[r].pc = "todo" /\ req[r].iat = 0
                                  /\ req[r].token = NoToken /\ req[r].other = NoToken
                                  /\ req[r].code = NoCode /\ req[r].spent = NoCode
           /\ \/ scene.mfa /\ codes = CodeSet(First) /\ factors = {Factor("totp", First, NoStep)}
              \/ codes = {} /\ factors = {}
BY SceneAssumption DEF Init, Idle, Token

LEMMA InitInv == ASSUME Init PROVE AccountInv /\ PasswordKept
<1>1. TypeOK
  BY InitTypes
<1>2. RouteInv
  BY InitRows DEF RouteInv, Routed, At, OfKind
<1>3. SessionInv
  BY InitRows DEF SessionInv, RevocationReaches, Old
<1>4. ChallengeInv
  BY InitRows DEF ChallengeInv, OncePerChallenge, Within
<1>5. SecretInv
  <2>1. Factor("totp", First, NoStep).secret = First
    BY DEF Factor
  <2>2. \A f, g \in factors : f = g /\ Old(f.secret)
    BY <2>1, InitRows DEF Old
  <2>3. \A c \in codes : c.type = "backup"
    BY InitRows DEF CodeSet, Code
  <2>4. \A r \in Requests : Old(req[r].code.of) /\ req[r].spent = NoCode
    BY InitRows, FirstRecords
  <2> QED
    BY <2>2, <2>3, <2>4 DEF SecretInv
<1>6. NoCode.type = "none"
  BY DEF NoCode, Code
<1>7. SpentInv
  BY <1>6, InitRows DEF SpentInv, CodesUsedOnce, At
<1>8. MakerInv
  BY InitRows DEF MakerInv, CodeSet, Code
<1>9. FactorInv
  <2>1. \A r \in Requests : ~InFlight(r) /\ ~RelyOnFactor(r)
    BY InitRows DEF InFlight, RelyOnFactor, Within
  <2>2. Factor("totp", First, NoStep).type = "totp"
    BY DEF Factor
  <2>3. IsEnabled \/ codes = {}
    BY <2>2, InitRows DEF IsEnabled, OfType
  <2> QED
    BY <2>1, <2>3 DEF FactorInv
<1>10. PasswordKept
  BY InitRows DEF PasswordKept
<1> QED
  BY <1>1, <1>2, <1>3, <1>4, <1>5, <1>7, <1>8, <1>9, <1>10 DEF AccountInv

LEMMA NextInv == ASSUME AccountInv, PasswordKept, [Next]_vars PROVE AccountInv' /\ PasswordKept'
<1>1. TypeOK /\ RouteInv /\ SessionInv /\ ChallengeInv /\ SecretInv /\ SpentInv /\ MakerInv /\ FactorInv
  BY DEF AccountInv
<1>2. TypeOK'
  BY <1>1, TypesStep
<1>3. RouteInv'
  BY <1>1, StepKeeps DEF Keeps
<1>4. SessionInv' /\ ChallengeInv'
  BY <1>1, SessionsStep, ChallengeStep
<1>5. SecretInv' /\ SpentInv'
  BY <1>1, SecretStep, SpentStep
<1>6. MakerInv' /\ FactorInv'
  BY <1>1, MakerStep, FactorsStep
<1> QED
  BY <1>1, <1>2, <1>3, <1>4, <1>5, <1>6, PasswordStep DEF AccountInv

LEMMA Settles == ASSUME TypeOK, MakerInv, FactorInv PROVE SettledFactors
<1> SUFFICES ASSUME Settled
             PROVE  IF IsEnabled
                      THEN codes \subseteq UNION {CodeSet(m) : m \in Shown({"enable", "regenerate"})}
                      ELSE codes = {}
  BY DEF SettledFactors
<1>1. CASE IsEnabled
  <2> SUFFICES ASSUME NEW c \in codes
               PROVE  c.of \in Shown({"enable", "regenerate"}) /\ c \in CodeSet(c.of)
    BY <1>1
  <2> QED
    BY DEF MakerInv, Making, Settled, InFlight, OfKind, Within, At, Shown
<1>2. CASE ~IsEnabled
  BY <1>2 DEF FactorInv, Settled, InFlight, Within, At
<1> QED
  BY <1>1, <1>2

LEMMA Inductive == Spec => [](AccountInv /\ PasswordKept)
<1>1. Init => AccountInv /\ PasswordKept
  BY InitInv
<1>2. AccountInv /\ PasswordKept /\ [Next]_vars => (AccountInv /\ PasswordKept)'
  BY NextInv
<1> QED
  BY <1>1, <1>2, PTL DEF Spec

\* Type correctness: the rows, the tokens and what every request has read keep
\* their types, whichever requests are made and however they interleave.
THEOREM AccountTypes == Spec => []TypeOK
<1>1. AccountInv => TypeOK
  BY DEF AccountInv
<1> QED
  BY <1>1, Inductive, PTL

\* A logout lasts: a session that a request has deleted is not brought back by a refresh
\* under way (token-session.js updates the row and never upserts it), nor made again.
THEOREM LogoutLast == Spec => []LogoutLasts
<1>1. AccountInv => LogoutLasts
  BY DEF AccountInv, SessionInv, LogoutLasts
<1> QED
  BY <1>1, Inductive, PTL

\* A challenge admits one request, whatever arrives for it at once: the one that
\* deletes its session (token-session.js consumeChallengeSession).
THEOREM ChallengeOnce == Spec => []OncePerChallenge
<1>1. AccountInv => OncePerChallenge
  BY DEF AccountInv, ChallengeInv
<1> QED
  BY <1>1, Inductive, PTL

\* No verification code and no backup code is accepted twice (the conditional updates
\* of totp.js verifyCode and enable, the counted delete of backup-codes.js verify).
THEOREM CodesOnce == Spec => []CodesUsedOnce
<1>1. AccountInv => CodesUsedOnce
  BY DEF AccountInv, SpentInv
<1> QED
  BY <1>1, Inductive, PTL

\* Revoking all sessions reaches every token that was held: no token is dated past
\* its issue (token-time.js sleeps past the cutoff).
THEOREM RevocationsReach == Spec => []RevocationReaches
<1>1. AccountInv => RevocationReaches
  BY DEF AccountInv, SessionInv
<1> QED
  BY <1>1, Inductive, PTL

\* A login that replaces an old hash never undoes a password set meanwhile
\* (models/auth.js verifyPassword patches the row it has read).
THEOREM PasswordStays == Spec => []PasswordKept
BY Inductive, PTL

\* Once everything has settled, an account without a factor has no backup codes and
\* one with a factor has codes its owner was shown (mfa.js disableTotp,
\* ensureBackupCodes, regenerateBackupCodes).
THEOREM FactorsSettle == Spec => []SettledFactors
<1>1. AccountInv => SettledFactors
  BY Settles DEF AccountInv
<1> QED
  BY <1>1, Inductive, PTL
=============================================================================
