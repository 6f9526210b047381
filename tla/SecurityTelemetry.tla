------------------------- MODULE SecurityTelemetry -------------------------
(***************************************************************************)
(* The history of enforcement: a source counts events (nginx per proxy     *)
(* host, the firewall per rule), a collector in the backend reads the      *)
(* counters once a minute, and one transaction turns a reading into a      *)
(* delta of a five minute bucket and the baseline of the next reading.     *)
(* The source restarts, resets a counter, drops events or is switched off; *)
(* the clock steps back; the backend crashes between a read and its        *)
(* transaction.                                                            *)
(*                                                                         *)
(* Sources: internal/security-telemetry.js (recordSnapshot, collect), the  *)
(* exporter rootfs/usr/local/share/lua/5.1/npmplus_telemetry.lua and the   *)
(* firewall observer of setup-npmplus.sh.                                  *)
(*                                                                         *)
(* Abstraction: one counter per host stands for the seven (four) counters  *)
(* of a reading; a host a reading or a bucket leaves out has counter 0.    *)
(* Malformed readings are rejected without effect, like the stale ones.    *)
(***************************************************************************)
EXTENDS Integers, FiniteSetsExt

CONSTANTS
    Host,
    FromFile,    \* the firewall: readings come from a file; nginx: over its socket
    Start,       \* the times at which a bucket starts
    Bucket, MaxGap, Skew, Retention,
    MaxTime, MaxEvents, MaxEpoch,
    Switches,    \* is the bouncer switched off and on in nginx?
    StepsBack    \* is the clock set back?

ASSUME SpanAssumption ==
    /\ Bucket \in Nat \ {0} /\ MaxGap \in Nat /\ Skew \in Nat /\ Retention \in Nat
    /\ MaxGap <= Bucket /\ MaxGap <= Retention
ASSUME StartAssumption ==
    /\ Start \subseteq Nat
    /\ \A a, b \in Start : a < b => a + Bucket <= b
ASSUME BoundsAssumption == MaxTime \in Nat /\ MaxEvents \in Nat /\ MaxEpoch \in Nat
ASSUME SwitchAssumption ==
    /\ FromFile \in BOOLEAN /\ Switches \in BOOLEAN /\ StepsBack \in BOOLEAN
    /\ FromFile => ~Switches

Counts == [Host -> Nat]
Zero == [h \in Host |-> 0]

\* `seen` is history: the events that had happened when the source was read.
Reading == [kind : {"none", "disabled", "counters"}, time : Nat, epoch : Nat,
            count : Counts, overflow : BOOLEAN, seen : Counts]
Nothing == [kind |-> "none", time |-> 0, epoch |-> 0, count |-> Zero,
            overflow |-> FALSE, seen |-> Zero]

NoRow == [present |-> FALSE, covered |-> 0, incomplete |-> FALSE, delta |-> Zero]
Row == [present : BOOLEAN, covered : 0..Bucket, incomplete : BOOLEAN, delta : Counts]

VARIABLES
    clock,
    epoch, count, overflow, on,  \* the source
    file,     \* firewall-telemetry.json
    reading,  \* what the collector has read and not recorded yet
    base,     \* the stored baseline: the row of bucket -1
    rows,     \* the stored buckets
    happened, \* history: the events of the source
    intact,   \* history: no counter was lost without a new epoch
    counted,  \* history: the deltas added to the buckets
    span      \* history: the readings at both ends of a bucket

source  == <<epoch, count, overflow, on, happened, intact>>
stored  == <<base, rows, counted, span>>
vars    == <<clock, source, file, reading, stored>>

Span == [since : Nat, first : Counts, upto : Nat, last : Counts]

Init ==
    /\ clock = 1
    /\ epoch = 1 /\ count = Zero /\ overflow = FALSE /\ on = TRUE /\ happened = Zero /\ intact = TRUE
    /\ file = Nothing /\ reading = Nothing /\ base = Nothing
    /\ rows = [b \in Start |-> NoRow] /\ counted = Zero
    /\ span = [b \in Start |-> [since |-> 0, first |-> Zero, upto |-> 0, last |-> Zero]]

-----------------------------------------------------------------------------
(* The source and its clock.                                               *)

Happen(h) == happened[h] < MaxEvents /\ happened' = [happened EXCEPT ![h] = @ + 1]

Count(h) ==
    /\ on /\ Happen(h)
    /\ count' = [count EXCEPT ![h] = @ + 1]
    /\ UNCHANGED <<clock, epoch, overflow, on, intact, file, reading, stored>>

\* The dictionary has no room for the host: the event is lost, and that is kept.
Overflow(h) ==
    /\ on /\ ~FromFile /\ Happen(h)
    /\ overflow' = TRUE
    /\ UNCHANGED <<clock, epoch, count, on, intact, file, reading, stored>>

\* A new nginx master, or a new start of the firewall service or of the machine.
NewEpoch ==
    /\ epoch < MaxEpoch
    /\ epoch' = epoch + 1 /\ count' = Zero /\ overflow' = FALSE
    /\ UNCHANGED <<clock, on, happened, intact, file, reading, stored>>

\* The counters of the firewall's rules are zeroed.
LoseCounter(h) ==
    /\ FromFile /\ count[h] > 0
    /\ count' = [count EXCEPT ![h] = 0]
    /\ intact' = FALSE
    /\ UNCHANGED <<clock, epoch, overflow, on, happened, file, reading, stored>>

\* nginx is reloaded with or without the bouncer; its dictionary survives that.
Switch ==
    /\ Switches
    /\ on' = ~on
    /\ UNCHANGED <<clock, epoch, count, overflow, happened, intact, file, reading, stored>>

Tick ==
    /\ clock < MaxTime
    /\ clock' = clock + 1
    /\ UNCHANGED <<source, file, reading, stored>>

SetBack ==
    /\ StepsBack /\ clock > 1
    /\ clock' = clock - 1
    /\ UNCHANGED <<source, file, reading, stored>>

Observation ==
    [kind |-> IF on THEN "counters" ELSE "disabled", time |-> IF FromFile THEN clock ELSE 0,
     epoch |-> epoch, count |-> count, overflow |-> overflow, seen |-> happened]

\* The minute cron of the host writes a new file over the old one.
WriteFile ==
    /\ FromFile
    /\ file' = Observation
    /\ UNCHANGED <<clock, source, reading, stored>>

-----------------------------------------------------------------------------
(* The collector: one pass at a time, a read and then its record.          *)

Latest == IF FromFile THEN file ELSE Observation

Read ==
    /\ reading.kind = "none"
    /\ reading' = Latest
    /\ UNCHANGED <<clock, source, file, stored>>

\* A reading from nginx carries no time: it has the time at which it is recorded.
TimeOf(r) == IF FromFile THEN r.time ELSE clock
Fresh(t) == t <= clock + Skew /\ clock - t <= MaxGap
Later(t) == base.kind = "none" \/ t > base.time

Continuous(r, t) ==
    /\ base.kind = "counters"
    /\ base.epoch = r.epoch
    /\ t - base.time <= MaxGap

Forget == reading' = Nothing

RecordDisabled ==
    /\ reading.kind = "disabled"
    /\ base' = [Nothing EXCEPT !.kind = "disabled", !.time = clock, !.seen = reading.seen]
    /\ Forget
    /\ UNCHANGED <<clock, source, file, rows, counted, span>>

Refuse ==
    /\ reading.kind = "counters"
    /\ ~Fresh(TimeOf(reading)) \/ ~Later(TimeOf(reading))
    /\ Forget
    /\ UNCHANGED <<clock, source, file, stored>>

Decreased(r) == {h \in Host : r.count[h] < base.count[h]}

Delta(r, t, h) ==
    IF Continuous(r, t) /\ h \notin Decreased(r) THEN r.count[h] - base.count[h] ELSE 0

Covered(old, r, t) ==
    IF ~Continuous(r, t) THEN old
    ELSE IF old + t - base.time < Bucket THEN old + t - base.time ELSE Bucket

\* Mutant: a break in the chain of readings is not marked.
NewRowUnmarked(old, r, t) ==
    [present |-> TRUE, covered |-> Covered(old.covered, r, t),
     incomplete |-> old.incomplete \/ r.overflow \/ (Continuous(r, t) /\ Decreased(r) # {}),
     delta |-> [h \in Host |-> old.delta[h] + Delta(r, t, h)]]

NewRow(old, r, t) ==
    [present    |-> TRUE,
     covered    |-> Covered(old.covered, r, t),
     incomplete |-> \/ old.incomplete \/ r.overflow
                    \/ ~Continuous(r, t) \/ Decreased(r) # {},
     delta      |-> [h \in Host |-> old.delta[h] + Delta(r, t, h)]]

Pruned(b) == b < clock - Retention - Bucket

\* Mutant: the counters of the baseline are not replaced with its time.
NewBaseTime(r, t) == IF Continuous(r, t) THEN [base EXCEPT !.time = t] ELSE [r EXCEPT !.time = t]

NewBase(r, t) == [r EXCEPT !.time = t]

Ingest(b) ==
    LET r == reading
        t == TimeOf(r)
    IN  /\ r.kind = "counters" /\ Fresh(t) /\ Later(t)
        /\ b < t /\ t <= b + Bucket
        /\ rows' = [x \in Start |-> IF Pruned(x) THEN NoRow
                                    ELSE IF x = b THEN NewRow(rows[b], r, t) ELSE rows[x]]
        /\ base' = NewBase(r, t)
        /\ counted' = [h \in Host |-> counted[h] + Delta(r, t, h)]
        /\ span' = [span EXCEPT ![b] =
               IF rows[b].present
               THEN [@ EXCEPT !.upto = t, !.last = r.seen]
               ELSE [since |-> base.time, first |-> base.seen, upto |-> t, last |-> r.seen]]
        /\ Forget
        /\ UNCHANGED <<clock, source, file>>

Crash ==
    /\ reading.kind # "none"
    /\ Forget
    /\ UNCHANGED <<clock, source, file, stored>>

Environment ==
    \/ \E h \in Host : Count(h) \/ Overflow(h) \/ LoseCounter(h)
    \/ NewEpoch \/ Switch \/ Tick \/ SetBack \/ WriteFile

Collector ==
    \/ Read \/ RecordDisabled \/ Refuse \/ Crash
    \/ \E b \in Start : Ingest(b)

Next == Environment \/ Collector
Spec == Init /\ [][Next]_vars

-----------------------------------------------------------------------------
TypeOK ==
    /\ clock \in Nat \ {0}
    /\ epoch \in Nat /\ count \in Counts /\ overflow \in BOOLEAN /\ on \in BOOLEAN
    /\ file \in Reading /\ reading \in Reading /\ base \in Reading
    /\ rows \in [Start -> Row] /\ span \in [Start -> Span]
    /\ happened \in Counts /\ counted \in Counts /\ intact \in BOOLEAN

\* No event is counted twice, and none that did not happen: whatever is
\* restarted, lost, repeated or switched off, the deltas recorded for a host
\* never exceed its events ("restarting the backend cannot replay a delta").
NeverInflated == \A h \in Host : counted[h] <= happened[h]

Complete(b) == rows[b].present /\ ~rows[b].incomplete /\ rows[b].covered = Bucket

\* A bucket that is not marked incomplete and is covered has lost nothing: it
\* holds every event between two readings at most MaxGap before its two ends, as
\* long as no counter was lost without a new epoch.
CompleteIsCounted ==
    intact => \A b \in Start : Complete(b) =>
        /\ b - MaxGap < span[b].since /\ span[b].since <= b
        /\ b + Bucket - MaxGap < span[b].upto /\ span[b].upto <= b + Bucket
        /\ \A h \in Host : rows[b].delta[h] = span[b].last[h] - span[b].first[h]

-----------------------------------------------------------------------------
(* readTelemetry: a window of whole buckets, from s to e.                  *)

Window(s, e) == {b \in Start : s <= b /\ b < e}
WindowCovered(s, e) == MapThenSumSet(LAMBDA b : rows[b].covered, Window(s, e))
WindowTotal(s, e, h) == MapThenSumSet(LAMBDA b : rows[b].delta[h], Window(s, e))

\* Mutant: the bucket's own mark is not read.
PartialByCoverage(s, e) == WindowCovered(s, e) < e - s

Partial(s, e) ==
    \/ \E b \in Window(s, e) : rows[b].incomplete
    \/ WindowCovered(s, e) < e - s

\* A window that is not reported as partial has lost nothing, inside a bucket or
\* between two: its total is every event between a reading at most MaxGap before
\* its start and one at most MaxGap before its end, as long as no counter was lost
\* without a new epoch.
WindowIsCounted ==
    intact => \A s, b \in Start : s <= b /\ ~Partial(s, b + Bucket) =>
        /\ s - MaxGap < span[s].since /\ span[s].since <= s
        /\ b + Bucket - MaxGap < span[b].upto /\ span[b].upto <= b + Bucket
        /\ \A h \in Host : WindowTotal(s, b + Bucket, h) = span[b].last[h] - span[s].first[h]
=============================================================================
