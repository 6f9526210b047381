----------------------------- MODULE LapiClient -----------------------------
(***************************************************************************)
(* Calls of the backend to the CrowdSec LAPI as a machine: every call      *)
(* reads the key file, takes the machine token that all calls share or     *)
(* logs in for a new one, sends its request, and starts over once when the *)
(* token is refused.  Calls are in flight together, the key is replaced in *)
(* the file and in CrowdSec at different moments, CrowdSec restarts, and   *)
(* answers get lost.                                                       *)
(*                                                                         *)
(* Source: internal/crowdsec.js (lapiLogin, lapiMachineFetch).  CrowdSec   *)
(* itself is external: it grants a token for its current key and honours   *)
(* the tokens it granted since its last restart.                           *)
(***************************************************************************)
EXTENDS Integers

CONSTANTS
    Req,        \* the calls that may be in flight together
    Key,        \* machine keys
    NoKey       \* a missing or empty key file

ASSUME KeyAssumption == NoKey \notin Key /\ Key # {}

VARIABLES
    keyFile,    \* the machine key file
    lapi,       \* CrowdSec: its key, its current run and the tokens it has granted
    cache,      \* machineTokenCache
    call,       \* what each call is doing
    budget      \* what may still happen: requests, key changes, failures...

lapiVars == <<keyFile, lapi, cache, call, budget>>

\* `serial` tells tokens apart, `key` and `run` are what CrowdSec granted it for.
Token == [serial : Nat, key : Key, run : Nat]
NoToken == [serial |-> 0]

Stage == {"off", "login", "keyed", "asked", "granted", "send", "refused", "answered", "lost",
          "invalid", "ok", "error"}
\* `refusal` is history: the serial of the token that was refused first.
Call == [stage : Stage, key : Key \cup {NoKey}, token : Token \cup {NoToken},
         retried : BOOLEAN, refusal : Nat, error : {"none", "bad-key", "other", "invalid"}]
Quiet == [stage |-> "off", key |-> NoKey, token |-> NoToken, retried |-> FALSE,
          refusal |-> 0, error |-> "none"]

Budget == [asks : Nat, keys : Nat, restarts : Nat, expiries : Nat, alerts : Nat, faults : Nat,
           controls : Nat]

LapiTypeOK ==
    /\ keyFile \in Key \cup {NoKey}
    /\ lapi \in [key : Key, run : Nat, granted : Nat]
    /\ cache \in Token \cup {NoToken}
    /\ call \in [Req -> Call]
    /\ budget \in Budget

LapiInit(k) ==
    /\ keyFile = k
    /\ lapi = [key |-> k, run |-> 1, granted |-> 0]
    /\ cache = NoToken
    /\ call = [r \in Req |-> Quiet]

-----------------------------------------------------------------------------
(* The world around the backend.                                           *)

\* An administrator (or the installer) replaces the key in the file, and in CrowdSec.
ReplaceKeyFile(k) ==
    /\ budget.keys > 0 /\ k # keyFile
    /\ keyFile' = k /\ budget' = [budget EXCEPT !.keys = @ - 1]
    /\ UNCHANGED <<lapi, cache, call>>

ReplaceKey(k) ==
    /\ budget.keys > 0 /\ k # lapi.key
    /\ lapi' = [lapi EXCEPT !.key = k] /\ budget' = [budget EXCEPT !.keys = @ - 1]
    /\ UNCHANGED <<keyFile, cache, call>>

\* CrowdSec starts again and knows none of the tokens it has granted.
Restart ==
    /\ budget.restarts > 0
    /\ lapi' = [lapi EXCEPT !.run = @ + 1] /\ budget' = [budget EXCEPT !.restarts = @ - 1]
    /\ UNCHANGED <<keyFile, cache, call>>

\* The thirty seconds of a cached token are over.
CacheExpires ==
    /\ budget.expiries > 0 /\ cache # NoToken
    /\ cache' = NoToken /\ budget' = [budget EXCEPT !.expiries = @ - 1]
    /\ UNCHANGED <<keyFile, lapi, call>>

-----------------------------------------------------------------------------
(* One call.                                                               *)

Begun(r) == [Quiet EXCEPT !.stage = "login"]
To(r, stage) == call' = [call EXCEPT ![r].stage = stage]
Failed(r, error) == [call EXCEPT ![r].stage = "error", ![r].error = error]

ReadKey(r) ==
    /\ call[r].stage = "login"
    /\ call' = IF keyFile = NoKey THEN Failed(r, "other")
               ELSE [call EXCEPT ![r].stage = "keyed", ![r].key = keyFile]
    /\ UNCHANGED <<keyFile, lapi, cache, budget>>

Hit(r) == cache # NoToken /\ cache.key = call[r].key

UseCache(r) ==
    /\ call[r].stage = "keyed" /\ Hit(r)
    /\ call' = [call EXCEPT ![r].stage = "send", ![r].token = cache]
    /\ UNCHANGED <<keyFile, lapi, cache, budget>>

AskToken(r) ==
    /\ call[r].stage = "keyed" /\ ~Hit(r)
    /\ To(r, "asked")
    /\ UNCHANGED <<keyFile, lapi, cache, budget>>

\* CrowdSec answers a login; the backend has not seen the answer yet.
GrantToken(r) ==
    /\ call[r].stage = "asked" /\ call[r].key = lapi.key
    /\ LET n == lapi.granted + 1
       IN  /\ lapi' = [lapi EXCEPT !.granted = n]
           /\ call' = [call EXCEPT ![r].stage = "granted",
                           ![r].token = [serial |-> n, key |-> lapi.key, run |-> lapi.run]]
    /\ UNCHANGED <<keyFile, cache, budget>>

DenyToken(r) ==
    /\ call[r].stage = "asked" /\ call[r].key # lapi.key
    /\ call' = Failed(r, "bad-key")
    /\ UNCHANGED <<keyFile, lapi, cache, budget>>

TakeToken(r) ==
    /\ call[r].stage = "granted"
    /\ cache' = call[r].token
    /\ To(r, "send")
    /\ UNCHANGED <<keyFile, lapi, budget>>

Valid(t) == t.run = lapi.run /\ t.key = lapi.key

\* CrowdSec carries the request out.  The caller says what it does to the rest.
Serve(r) ==
    /\ call[r].stage = "send" /\ Valid(call[r].token)
    /\ To(r, "answered")
    /\ UNCHANGED <<keyFile, lapi, cache, budget>>

\* It is carried out, but the answer is lost, late or too long.
ServeAndLose(r, how) ==
    /\ call[r].stage = "send" /\ Valid(call[r].token) /\ budget.faults > 0
    /\ budget' = [budget EXCEPT !.faults = @ - 1]
    /\ To(r, how)
    /\ UNCHANGED <<keyFile, lapi, cache>>

\* The login or the request does not reach CrowdSec.
Unreachable(r) ==
    /\ call[r].stage \in {"asked", "send"} /\ budget.faults > 0
    /\ budget' = [budget EXCEPT !.faults = @ - 1]
    /\ call' = Failed(r, "other")
    /\ UNCHANGED <<keyFile, lapi, cache>>

Refuse(r) ==
    /\ call[r].stage = "send" /\ ~Valid(call[r].token)
    /\ To(r, "refused")
    /\ UNCHANGED <<keyFile, lapi, cache, budget>>

\* Mutant: the refused token stays in the cache.
RetryWithCache(r) ==
    /\ call[r].stage = "refused" /\ ~call[r].retried
    /\ call' = [call EXCEPT ![r].stage = "login", ![r].retried = TRUE,
                    ![r].refusal = call[r].token.serial]
    /\ UNCHANGED <<keyFile, lapi, cache, budget>>

\* A refused token is dropped from the cache, whoever put the cached one there.
Retry(r) ==
    /\ call[r].stage = "refused" /\ ~call[r].retried
    /\ cache' = NoToken
    /\ call' = [call EXCEPT ![r].stage = "login", ![r].retried = TRUE,
                    ![r].refusal = call[r].token.serial]
    /\ UNCHANGED <<keyFile, lapi, budget>>

GiveUp(r) ==
    /\ call[r].stage = "refused" /\ call[r].retried
    /\ cache' = NoToken
    /\ call' = Failed(r, "bad-key")
    /\ UNCHANGED <<keyFile, lapi, budget>>

\* Mutant: a lost answer is asked for again.
ReturnOrRepeat(r) ==
    /\ call[r].stage \in {"answered", "lost", "invalid"}
    /\ call' = CASE call[r].stage = "answered" -> [call EXCEPT ![r].stage = "ok"]
                 [] call[r].stage = "lost" -> [call EXCEPT ![r].stage = "login"]
                 [] call[r].stage = "invalid" -> Failed(r, "invalid")
    /\ UNCHANGED <<keyFile, lapi, cache, budget>>

Return(r) ==
    /\ call[r].stage \in {"answered", "lost", "invalid"}
    /\ call' = CASE call[r].stage = "answered" -> [call EXCEPT ![r].stage = "ok"]
                 [] call[r].stage = "lost" -> Failed(r, "other")
                 [] call[r].stage = "invalid" -> Failed(r, "invalid")
    /\ UNCHANGED <<keyFile, lapi, cache, budget>>

ClientStep(r) ==
    \/ ReadKey(r) \/ UseCache(r) \/ AskToken(r) \/ TakeToken(r) \/ Retry(r) \/ GiveUp(r) \/ Return(r)
LapiAnswers(r) == GrantToken(r) \/ DenyToken(r) \/ Refuse(r) \/ Unreachable(r)
World == (\E k \in Key : ReplaceKeyFile(k) \/ ReplaceKey(k)) \/ Restart \/ CacheExpires

-----------------------------------------------------------------------------
Holding == {"send", "refused", "answered", "lost", "invalid"}

\* A request goes out with a token of the very key its call has read, although the key may be
\* replaced and the shared token may be that of other calls: a new key takes effect at once.  A
\* call that was refused starts over with another token than the refused one, whatever other
\* calls put into the cache meanwhile: its single retry is not spent on the same token.
TokensAreCurrent ==
    \A r \in Req : call[r].stage \in Holding =>
        /\ call[r].token.key = call[r].key
        /\ call[r].retried => call[r].token.serial # call[r].refusal
=============================================================================
