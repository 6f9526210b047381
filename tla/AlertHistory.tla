---------------------------- MODULE AlertHistory ----------------------------
(***************************************************************************)
(* One batch of the scan of CrowdSec's alerts, newest first.  The LAPI     *)
(* takes a number of items and durations, no cursor: a batch asks for one  *)
(* unit of time more than its cursor and drops what the cursor has passed. *)
(*                                                                         *)
(* Source: internal/crowdsec-history.js (scanAlertHistory).  An alert is   *)
(* its number in the LAPI, `time` gives the time of its creation.          *)
(***************************************************************************)
EXTENDS Integers, FiniteSets

CONSTANTS
    Page,       \* alerts of a batch: 25
    Limit,      \* alerts asked for: 101
    Fallback,   \* alerts asked for when the answer was too long: 25
    Overlap,    \* the overlap of two batches: a second
    MaxSteps,   \* batches of a scan: 100
    Attack      \* the alerts that are attacks, neither a simulation nor a blocklist

ASSUME SizeAssumption ==
    /\ Page \in Nat \ {0} /\ Limit \in Nat \ {0} /\ Fallback \in Nat \ {0}
    /\ Overlap \in Nat /\ MaxSteps \in Nat \ {0}

Newer(time, a, b) == time[a] > time[b] \/ (time[a] = time[b] /\ a > b)
Newest(time, S, n) == {a \in S : Cardinality({b \in S : Newer(time, b, a)}) < n}

\* The cursor: alerts strictly before it are still to come.
Cursor == [before : Nat, id : Nat, step : Nat]
Behind(time, c, a) == time[a] < c.before \/ (time[a] = c.before /\ a < c.id)

\* What the LAPI answers: it orders by time and number, and is external.
Answer(time, c, limit) ==
    Newest(time, {a \in DOMAIN time : time[a] <= c.before + Overlap}, limit)

\* Mutant: an alert of the cursor's own time counts as passed.
CandidatesBefore(time, c, raw) == {a \in raw : time[a] < c.before}

Candidates(time, c, raw) == {a \in raw : Behind(time, c, a)}

More(time, c, raw, limit) ==
    Cardinality(Candidates(time, c, raw)) > Page \/ Cardinality(raw) = limit

Batch(time, c, raw) == Newest(time, Candidates(time, c, raw), Page)

\* The page says that older alerts are out of reach rather than going on for ever.
Blocked(time, c, raw, limit) ==
    More(time, c, raw, limit) /\ (Batch(time, c, raw) = {} \/ c.step + 1 >= MaxSteps)

HasNext(time, c, raw, limit) == More(time, c, raw, limit) /\ ~Blocked(time, c, raw, limit)

NextCursor(time, c, raw) ==
    LET batch == Batch(time, c, raw)
        last  == CHOOSE a \in batch : \A b \in batch : b = a \/ Newer(time, b, a)
    IN  [before |-> time[last], id |-> last, step |-> c.step + 1]
=============================================================================
