----------------------------- MODULE OriginLock -----------------------------
(***************************************************************************)
(* The origin lock of the host: it lets only Cloudflare and local networks *)
(* reach the web ports.  Each start of the host and a daily job download   *)
(* the lists of networks, keep a copy of them on disk and put the rules in *)
(* place from that copy.                                                   *)
(*                                                                         *)
(* Source: npmplus-cloudflare-origin-lock in setup-npmplus.sh.             *)
(*                                                                         *)
(* Abstraction: a list is a name, or one that valid_list refuses.  A lock  *)
(* keeps runs apart.  `start_rules` calls `refresh` as the condition of an *)
(* `if`, where bash ignores -e: neither a download that fails nor a list   *)
(* that valid_list refuses ends `refresh`, so its two calls of valid_list  *)
(* change nothing and are left out.                                        *)
(***************************************************************************)
EXTENDS Naturals, Sequences

CONSTANT List      \* lists Cloudflare publishes

Family == {"v4", "v6"}
Refused == {"none", "empty", "cut"}

VARIABLES
    copy,   \* cloudflare-ips-v4 and -v6
    temp,   \* what refresh has downloaded
    set,    \* npcf4 and npcf6
    chain,  \* NPMPLUS-CF: none, flushed, or complete and jumped to
    at,     \* where the script is; 0 when it does not run
    kept    \* history: of which family a validated copy was kept

vars == <<copy, temp, set, chain, at, kept>>

Init ==
    /\ copy = [f \in Family |-> "none"] /\ temp = [f \in Family |-> "empty"]
    /\ set = [f \in Family |-> "none"] /\ chain = [f \in Family |-> "none"]
    /\ at = 0 /\ kept = {}

Do(what, f) == [what |-> what, family |-> f]
Script == <<Do("fetch", "v4"), Do("fetch", "v6"), Do("keep", "v4"), Do("keep", "v6"),
            Do("verify", "v4"), Do("verify", "v6"), Do("load", "v4"), Do("load", "v6"),
            Do("flush", "v4"), Do("fill", "v4"), Do("flush", "v6"), Do("fill", "v6")>>
Onward == at' = IF at = Len(Script) THEN 0 ELSE at + 1
At(what, f) == at > 0 /\ Script[at] = Do(what, f)
Valid(list) == list \in List

Start ==
    /\ at = 0 /\ at' = 1
    /\ temp' = [f \in Family |-> "empty"]
    /\ UNCHANGED <<copy, set, chain, kept>>

\* A download that fails leaves the temporary file empty or incomplete.
Fetch(f) ==
    /\ At("fetch", f) /\ Onward
    /\ \E got \in List \cup {"empty", "cut"} : temp' = [temp EXCEPT ![f] = got]
    /\ UNCHANGED <<copy, set, chain, kept>>

Keep(f) ==
    /\ At("keep", f) /\ Onward
    /\ copy' = [copy EXCEPT ![f] = temp[f]]
    /\ kept' = IF Valid(temp[f]) THEN kept \cup {f} ELSE kept
    /\ UNCHANGED <<temp, set, chain>>

\* Here a refused list ends the script, and the rules stay as they are.
Verify(f) ==
    /\ At("verify", f)
    /\ IF Valid(copy[f]) THEN Onward ELSE at' = 0
    /\ UNCHANGED <<copy, temp, set, chain, kept>>

Load(f) ==
    /\ At("load", f) /\ Onward
    /\ set' = [set EXCEPT ![f] = copy[f]]
    /\ UNCHANGED <<copy, temp, chain, kept>>

Flush(f) ==
    /\ At("flush", f) /\ Onward
    /\ chain' = [chain EXCEPT ![f] = "flushed"]
    /\ UNCHANGED <<copy, temp, set, kept>>

Fill(f) ==
    /\ At("fill", f) /\ Onward
    /\ chain' = [chain EXCEPT ![f] = "complete"]
    /\ UNCHANGED <<copy, temp, set, kept>>

Stop ==
    /\ at = 0
    /\ set' = [f \in Family |-> "none"] /\ chain' = [f \in Family |-> "none"]
    /\ UNCHANGED <<copy, temp, at, kept>>

\* The script is killed, or the host restarts and loses its rules.
Cut ==
    /\ at' = 0
    /\ \/ UNCHANGED <<set, chain>>
       \/ set' = [f \in Family |-> "none"] /\ chain' = [f \in Family |-> "none"]
    /\ UNCHANGED <<copy, temp, kept>>

Next ==
    \/ Start \/ Stop \/ Cut
    \/ \E f \in Family : Fetch(f) \/ Keep(f) \/ Verify(f) \/ Load(f) \/ Flush(f) \/ Fill(f)

Spec == Init /\ [][Next]_vars

-----------------------------------------------------------------------------
\* docs/setup-npmplus.md:181 says of the lock that it downloads the lists, "validates them,
\* atomically keeps a last-known-good copy", and start_rules that after a failure it goes on
\* "using the last validated copy": once a list was validated and kept, the copy on disk is one
\* that valid_list accepts.
LastCopyKept == \A f \in kept : Valid(copy[f])
=============================================================================
