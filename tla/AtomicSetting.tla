--------------------------- MODULE AtomicSetting ---------------------------
(***************************************************************************)
(* What updating the default site promises to administrators: updates are  *)
(* tried one at a time; the one on trial is applied to the setting that is *)
(* stored when it is applied, or leaves the setting as it was; each gets   *)
(* one answer, and those answered "ok" are exactly those in the audit log. *)
(***************************************************************************)
EXTENDS SettingData

CONSTANT Req

VARIABLES stored, ask, answer, trial, log

vars == <<stored, ask, answer, trial, log>>

Answers == {"none", "ok", "rejected", "failed", "error", "lost"}

TypeOK ==
    /\ stored \in Setting
    /\ ask \in [Req -> Payload \cup {None}]
    /\ answer \in [Req -> Answers]
    /\ trial \in Req \cup {None}
    /\ log \subseteq Req

Init ==
    /\ stored \in Setting
    /\ ask = [r \in Req |-> None]
    /\ answer = [r \in Req |-> "none"]
    /\ trial = None
    /\ log = {}

Ask(r) ==
    /\ ask[r] = None
    /\ \E p \in Payload : ask' = [ask EXCEPT ![r] = p]
    /\ UNCHANGED <<stored, answer, trial, log>>

Try(r) ==
    /\ trial = None /\ ask[r] # None /\ answer[r] = "none"
    /\ trial' = r
    /\ UNCHANGED <<stored, ask, answer, log>>

Apply(r) ==
    /\ trial = r
    /\ stored' = Merged(stored, ask[r])
    /\ log' = log \cup {r}
    /\ answer' = [answer EXCEPT ![r] = "ok"]
    /\ trial' = None
    /\ UNCHANGED ask

\* rejected: restored; failed: the restore failed; error: nothing was touched.
Drop(r) ==
    /\ trial = r
    /\ \E a \in {"rejected", "failed", "error"} : answer' = [answer EXCEPT ![r] = a]
    /\ trial' = None
    /\ UNCHANGED <<stored, ask, log>>

\* The setting cannot be read.
Skip(r) ==
    /\ trial = None /\ ask[r] # None /\ answer[r] = "none"
    /\ answer' = [answer EXCEPT ![r] = "error"]
    /\ UNCHANGED <<stored, ask, trial, log>>

Crash ==
    /\ answer' = [r \in Req |-> IF ask[r] # None /\ answer[r] = "none" THEN "lost" ELSE answer[r]]
    /\ trial' = None
    /\ UNCHANGED <<stored, ask, log>>

Next == Crash \/ \E r \in Req : Ask(r) \/ Try(r) \/ Apply(r) \/ Drop(r) \/ Skip(r)

Spec == Init /\ [][Next]_vars
=============================================================================
