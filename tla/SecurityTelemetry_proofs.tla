---------------------- MODULE SecurityTelemetry_proofs ----------------------
(***************************************************************************)
(* Proofs about SecurityTelemetry for every number of hosts, buckets,      *)
(* epochs and events.  The stored baseline, the reading in memory, the     *)
(* file and the source form a chain of ever later states of the source     *)
(* (ChainInv): what a counter gained between two of them is at most what   *)
(* happened between them, and exactly that within one epoch.               *)
(***************************************************************************)
EXTENDS SecurityTelemetry, FiniteSetTheorems, WellFoundedInduction, TLAPS

Now == [Observation EXCEPT !.kind = "counters"]

SameEpoch(s, r) == s.kind = "counters" /\ r.kind = "counters" /\ s.epoch = r.epoch

\* s was the state of the source before r was: the events its counters do not
\* show can only have become more since, and they are the same ones if nothing
\* overflowed and no counter was lost.
Precedes(whole, s, r) ==
    /\ s.epoch <= r.epoch
    /\ \A h \in Host : s.seen[h] <= r.seen[h]
    /\ SameEpoch(s, r) =>
           \A h \in Host : s.seen[h] - s.count[h] <= r.seen[h] - r.count[h]
    /\ SameEpoch(s, r) /\ ~r.overflow /\ whole =>
           \A h \in Host : s.seen[h] - s.count[h] = r.seen[h] - r.count[h]

ChainInv ==
    /\ reading.kind # "none" => Precedes(intact, base, reading)
    /\ Precedes(intact, base, Now) /\ Precedes(intact, reading, Now)
    /\ FromFile => Precedes(intact, base, file) /\ Precedes(intact, reading, file) /\ Precedes(intact, file, Now)

OnceInv == \A h \in Host : counted[h] <= base.seen[h]

HistoryInv == TypeOK /\ ChainInv /\ OnceInv

-----------------------------------------------------------------------------

LEMMA ObservationType == ASSUME TypeOK PROVE Observation \in Reading /\ Now \in Reading
  BY DEF TypeOK, Observation, Now, Reading

LEMMA NothingType == Nothing \in Reading /\ Nothing.kind = "none" /\ Zero \in Counts
  BY DEF Nothing, Reading, Zero, Counts

LEMMA LatestType == ASSUME TypeOK PROVE Latest \in Reading
  BY ObservationType DEF Latest, TypeOK

LEMMA TimeType == ASSUME TypeOK, reading.kind = "counters" PROVE TimeOf(reading) \in Nat
  BY DEF TypeOK, TimeOf, Reading

\* A delta is never negative: what decreased is left out.
LEMMA DeltaType ==
  ASSUME TypeOK, NEW t \in Nat, NEW h \in Host
  PROVE  Delta(reading, t, h) \in Nat
  BY DEF TypeOK, Delta, Decreased, Reading, Counts

LEMMA CoveredType ==
  ASSUME TypeOK, NEW t \in Nat, NEW c \in 0..Bucket, Later(t)
  PROVE  Covered(c, reading, t) \in 0..Bucket
  BY SpanAssumption DEF TypeOK, Covered, Continuous, Later, Reading

LEMMA NewRowType ==
  ASSUME TypeOK, NEW t \in Nat, NEW b \in Start, Later(t)
  PROVE  NewRow(rows[b], reading, t) \in Row
<1>1. rows[b] \in Row  BY DEF TypeOK
<1>2. Covered(rows[b].covered, reading, t) \in 0..Bucket  BY <1>1, CoveredType DEF Row
<1>3. [h \in Host |-> rows[b].delta[h] + Delta(reading, t, h)] \in Counts
  BY <1>1, DeltaType DEF Row, Counts
<1>4. reading.overflow \in BOOLEAN  BY DEF TypeOK, Reading
<1> QED  BY <1>1, <1>2, <1>3, <1>4 DEF NewRow, Row

LEMMA InitType == Init => TypeOK
<1> SUFFICES ASSUME Init PROVE TypeOK  OBVIOUS
<1>1. NoRow \in Row  BY NothingType, SpanAssumption DEF NoRow, Row
<1>2. [since |-> 0, first |-> Zero, upto |-> 0, last |-> Zero] \in Span  BY NothingType DEF Span
<1>3. rows \in [Start -> Row] /\ span \in [Start -> Span]  BY <1>1, <1>2 DEF Init
<1>4. /\ clock = 1 /\ epoch = 1 /\ count = Zero /\ overflow = FALSE /\ on = TRUE /\ happened = Zero
      /\ intact = TRUE /\ file = Nothing /\ reading = Nothing /\ base = Nothing /\ counted = Zero
  BY DEF Init
<1>5. overflow \in BOOLEAN /\ on \in BOOLEAN /\ intact \in BOOLEAN  BY <1>4, Zenon
<1>6. /\ clock \in Nat \ {0} /\ epoch \in Nat /\ count \in Counts /\ happened \in Counts
      /\ file \in Reading /\ reading \in Reading /\ base \in Reading /\ counted \in Counts
  BY <1>4, NothingType
<1> QED  BY <1>3, <1>5, <1>6 DEF TypeOK

LEMMA NextType == TypeOK /\ [Next]_vars => TypeOK'
<1> SUFFICES ASSUME TypeOK, [Next]_vars PROVE TypeOK'  OBVIOUS
<1> USE DEF TypeOK, source, stored
<1>1. CASE \E h \in Host : Count(h) \/ Overflow(h) \/ LoseCounter(h)
  <2>1. PICK h \in Host : Count(h) \/ Overflow(h) \/ LoseCounter(h)  BY <1>1
  <2>2. CASE Count(h)  BY <2>2 DEF Count, Happen, Counts
  <2>3. CASE Overflow(h)  BY <2>3 DEF Overflow, Happen, Counts
  <2>4. CASE LoseCounter(h)  BY <2>4 DEF LoseCounter, Counts
  <2> QED  BY <2>1, <2>2, <2>3, <2>4
<1>2. CASE NewEpoch
  <2>1. overflow' \in BOOLEAN  BY <1>2, Zenon DEF NewEpoch
  <2>2. epoch' \in Nat /\ count' \in Counts  BY <1>2, NothingType DEF NewEpoch
  <2> QED  BY <1>2, <2>1, <2>2 DEF NewEpoch
<1>3. CASE Switch  BY <1>3 DEF Switch
<1>4. CASE Tick  BY <1>4 DEF Tick
<1>5. CASE SetBack  BY <1>5 DEF SetBack
<1>6. CASE WriteFile  BY <1>6, ObservationType DEF WriteFile
<1>7. CASE Read  BY <1>7, LatestType DEF Read
<1>8. CASE RecordDisabled
  <2>1. [Nothing EXCEPT !.kind = "disabled", !.time = clock, !.seen = reading.seen] \in Reading
    BY NothingType DEF Reading
  <2> QED  BY <1>8, <2>1, NothingType DEF RecordDisabled, Forget
<1>9. CASE Refuse  BY <1>9, NothingType DEF Refuse, Forget
<1>10. CASE Crash  BY <1>10, NothingType DEF Crash, Forget
<1>11. CASE \E b \in Start : Ingest(b)
  <2>1. PICK b \in Start : Ingest(b)  BY <1>11
  <2> DEFINE t == TimeOf(reading)
  <2>2. t \in Nat /\ Later(t)  BY <2>1, TimeType DEF Ingest, NewBase
  <2>3. NewRow(rows[b], reading, t) \in Row /\ NoRow \in Row
    BY <2>2, NewRowType, NothingType, SpanAssumption DEF NoRow, Row
  <2>4. rows' \in [Start -> Row]  BY <2>1, <2>3 DEF Ingest, NewBase
  <2>5. [reading EXCEPT !.time = t] \in Reading  BY <2>2 DEF Reading
  <2>6. counted' \in Counts
    <3> \A h \in Host : Delta(reading, t, h) \in Nat  BY <2>2, DeltaType
    <3> QED  BY <2>1 DEF Ingest, NewBase, Counts
  <2>7. span' \in [Start -> Span]
    <3>1. reading.seen \in Counts /\ base.seen \in Counts /\ base.time \in Nat  BY DEF Reading
    <3>2. [since |-> base.time, first |-> base.seen, upto |-> t, last |-> reading.seen] \in Span
      BY <3>1, <2>2 DEF Span
    <3>3. [span[b] EXCEPT !.upto = t, !.last = reading.seen] \in Span  BY <3>1, <2>2 DEF Span
    <3> QED  BY <2>1, <3>2, <3>3 DEF Ingest, NewBase
  <2> QED  BY <2>1, <2>4, <2>5, <2>6, <2>7, NothingType DEF Ingest, NewBase, Forget
<1>12. CASE UNCHANGED vars  BY <1>12 DEF vars
<1> QED  BY <1>1, <1>2, <1>3, <1>4, <1>5, <1>6, <1>7, <1>8, <1>9, <1>10, <1>11, <1>12
         DEF Next, Environment, Collector

\* The rows, the readings and the counters keep their types: no delta is ever
\* negative and no bucket is covered for longer than it lasts.
THEOREM TelemetryTypeCorrect == Spec => []TypeOK
<1>1. Init => TypeOK  BY InitType
<1>2. TypeOK /\ [Next]_vars => TypeOK'  BY NextType
<1> QED  BY <1>1, <1>2, PTL DEF Spec

-----------------------------------------------------------------------------
(* The chain of states of the source.                                      *)

LEMMA InitChain == Init => ChainInv /\ OnceInv
<1> SUFFICES ASSUME Init PROVE ChainInv /\ OnceInv  OBVIOUS
<1>1. \A h \in Host : Zero[h] = 0  BY DEF Zero
<1> QED  BY <1>1 DEF Init, ChainInv, OnceInv, Precedes, SameEpoch, Nothing, Now, Observation

\* Whatever the source does, what preceded its state still does.
LEMMA SourceStep ==
  ASSUME TypeOK, NEW s \in Reading, Precedes(intact, s, Now),
         \/ \E h \in Host : Count(h) \/ Overflow(h) \/ LoseCounter(h)
         \/ NewEpoch
         \/ UNCHANGED source
  PROVE  Precedes(intact', s, Now')
<1> USE DEF TypeOK, Precedes, SameEpoch, Now, Observation, source
<1>0. s.epoch \in Nat /\ s.seen \in Counts /\ s.count \in Counts  BY DEF Reading
<1>1. CASE \E h \in Host : Count(h)
  <2>1. PICK h \in Host : Count(h)  BY <1>1
  <2>2. \A k \in Host : /\ happened'[k] >= happened[k]
                        /\ happened'[k] - count'[k] = happened[k] - count[k]
    BY <2>1 DEF Count, Happen, Counts
  <2>3. intact' = intact  BY <2>1 DEF Count
  <2> QED  BY <1>0, <2>1, <2>2, <2>3 DEF Count, Counts, Happen
<1>2. CASE \E h \in Host : Overflow(h)
  <2>1. PICK h \in Host : Overflow(h)  BY <1>2
  <2>2. \A k \in Host : happened'[k] >= happened[k]  BY <2>1 DEF Overflow, Happen, Counts
  <2>3. count' = count /\ epoch' = epoch /\ overflow' = TRUE /\ intact' = intact  BY <2>1 DEF Overflow
  <2>4. (Now.overflow)' = TRUE  BY <2>3
  <2>5. happened' \in Counts  BY <2>1 DEF Overflow, Happen, Counts
  <2> QED  BY <1>0, <2>2, <2>3, <2>4, <2>5 DEF Counts
<1>3. CASE \E h \in Host : LoseCounter(h)
  <2>1. PICK h \in Host : LoseCounter(h)  BY <1>3
  <2>2. ~intact' /\ \A k \in Host : count'[k] <= count[k]  BY <2>1 DEF LoseCounter, Counts
  <2>3. happened' = happened /\ epoch' = epoch  BY <2>1 DEF LoseCounter
  <2>4. count' \in Counts  BY <2>1 DEF LoseCounter, Counts
  <2> QED  BY <1>0, <2>2, <2>3, <2>4 DEF Counts
<1>4. CASE NewEpoch  BY <1>0, <1>4 DEF NewEpoch, Counts
<1>5. CASE UNCHANGED source  BY <1>0, <1>5
<1> QED  BY <1>1, <1>2, <1>3, <1>4, <1>5

LEMMA ObservationPrecedes ==
  ASSUME TypeOK
  PROVE  /\ Precedes(intact, Observation, Now)
         /\ \A s \in Reading : Precedes(intact, s, Now) => Precedes(intact, s, Observation)
<1>1. Precedes(intact, Observation, Now)
  BY DEF TypeOK, Precedes, SameEpoch, Now, Observation, Counts
<1>2. \A s \in Reading : Precedes(intact, s, Now) => Precedes(intact, s, Observation)
  BY DEF Precedes, SameEpoch, Now, Observation
<1> QED  BY <1>1, <1>2

\* Nothing precedes everything.
LEMMA NothingPrecedes == ASSUME NEW r \in Reading PROVE Precedes(intact, Nothing, r)
<1>1. \A h \in Host : Zero[h] = 0  BY DEF Zero
<1> QED  BY <1>1 DEF Precedes, SameEpoch, Nothing, Reading, Counts

\* The baseline a reading or a marker leaves precedes what the reading precedes.
LEMMA RecordedPrecedes ==
  ASSUME NEW s \in Reading, NEW r \in Reading, Precedes(intact, s, r)
  PROVE  /\ \A t : Precedes(intact, [s EXCEPT !.time = t], r)
         /\ Precedes(intact, [Nothing EXCEPT !.kind = "disabled", !.time = clock, !.seen = s.seen], r)
BY DEF Precedes, SameEpoch, Nothing, Reading, Counts

\* What a reading adds happened between the baseline and the reading.
LEMMA DeltaHappened ==
  ASSUME TypeOK, Precedes(intact, base, reading), reading.kind = "counters",
         NEW t \in Nat, NEW h \in Host
  PROVE  Delta(reading, t, h) <= reading.seen[h] - base.seen[h]
BY DEF TypeOK, Precedes, SameEpoch, Delta, Continuous, Decreased, Reading, Counts

LEMMA NextChain == HistoryInv /\ [Next]_vars => ChainInv' /\ OnceInv'
<1> SUFFICES ASSUME TypeOK, ChainInv, OnceInv, [Next]_vars, TypeOK'
             PROVE  ChainInv' /\ OnceInv'
  BY NextType DEF HistoryInv
<1> USE DEF source, stored
<1>0. base \in Reading /\ reading \in Reading /\ file \in Reading  BY DEF TypeOK
<1>1. CASE UNCHANGED <<file, reading, stored>> /\
           \/ \E h \in Host : Count(h) \/ Overflow(h) \/ LoseCounter(h)
           \/ NewEpoch
           \/ UNCHANGED source
  <2>1. /\ Precedes(intact, base, Now)' /\ Precedes(intact, reading, Now)'
        /\ FromFile => Precedes(intact, file, Now)'
    BY <1>0, <1>1, SourceStep DEF ChainInv
  <2>2. intact' => intact  BY <1>1 DEF Count, Overflow, LoseCounter, NewEpoch
  <2>3. \A s, r : Precedes(intact, s, r) => Precedes(intact', s, r)  BY <2>2 DEF Precedes
  <2>4. /\ reading.kind # "none" => Precedes(intact', base, reading)
        /\ FromFile => Precedes(intact', base, file) /\ Precedes(intact', reading, file)
    BY <2>3 DEF ChainInv
  <2>5. base' = base /\ reading' = reading /\ file' = file /\ counted' = counted  BY <1>1
  <2>6. ChainInv'  BY <2>1, <2>4, <2>5 DEF ChainInv
  <2> QED  BY <2>5, <2>6 DEF OnceInv
<1>2. CASE Switch
  <2>1. Now' = Now /\ intact' = intact  BY <1>2 DEF Switch, Now, Observation
  <2> QED  BY <1>2, <2>1 DEF Switch, ChainInv, OnceInv, Precedes, SameEpoch
<1>3. CASE WriteFile
  <2>1. Precedes(intact, base, file') /\ Precedes(intact, reading, file') /\ Precedes(intact, file', Now)
    BY <1>0, <1>3, ObservationPrecedes DEF WriteFile, ChainInv
  <2>2. Now' = Now /\ intact' = intact  BY <1>3 DEF WriteFile, Now, Observation
  <2> QED  BY <1>3, <2>1, <2>2 DEF WriteFile, ChainInv, OnceInv, Precedes, SameEpoch
<1>4. CASE Read
  <2>1. Now' = Now /\ intact' = intact  BY <1>4 DEF Read, Now, Observation
  <2>2. CASE FromFile
    <3>1. Precedes(intact, file, file)  BY DEF TypeOK, Precedes, SameEpoch, Reading, Counts
    <3> QED  BY <1>4, <2>1, <2>2, <3>1 DEF Read, Latest, ChainInv, OnceInv, Precedes, SameEpoch
  <2>3. CASE ~FromFile
    <3>1. Precedes(intact, base, reading') /\ Precedes(intact, reading', Now)
      BY <1>0, <1>4, <2>3, ObservationPrecedes DEF Read, Latest, ChainInv
    <3> QED  BY <1>4, <2>1, <2>3, <3>1 DEF Read, ChainInv, OnceInv, Precedes, SameEpoch
  <2> QED  BY <2>2, <2>3
<1>5. CASE RecordDisabled
  <2> DEFINE m == [Nothing EXCEPT !.kind = "disabled", !.time = clock, !.seen = reading.seen]
  <2>1. /\ Now' = Now /\ base' = m /\ reading' = Nothing /\ file' = file /\ counted' = counted
        /\ intact' = intact
    BY <1>5 DEF RecordDisabled, Forget, Now, Observation
  <2>2. Precedes(intact, base, reading)  BY <1>5 DEF RecordDisabled, ChainInv
  <2>3. Precedes(intact, m, Now) /\ (FromFile => Precedes(intact, m, file))
    BY <1>0, ObservationType, RecordedPrecedes DEF ChainInv
  <2>4. Precedes(intact, Nothing, Now) /\ Precedes(intact, Nothing, file)  BY <1>0, ObservationType, NothingPrecedes
  <2>5. \A h \in Host : counted[h] <= m.seen[h]
    <3>1. m.seen = reading.seen  BY DEF Nothing
    <3>2. counted \in Counts /\ base.seen \in Counts /\ reading.seen \in Counts  BY DEF TypeOK, Reading
    <3> QED  BY <2>2, <3>1, <3>2 DEF Precedes, OnceInv, Counts
  <2> HIDE DEF m
  <2>6. ChainInv'  BY <2>1, <2>3, <2>4, NothingType DEF ChainInv, Precedes, SameEpoch
  <2>7. OnceInv'  BY <2>1, <2>5 DEF OnceInv
  <2> QED  BY <2>6, <2>7
<1>6. CASE Refuse \/ Crash
  <2>1. /\ Now' = Now /\ base' = base /\ reading' = Nothing /\ file' = file /\ counted' = counted
        /\ intact' = intact
    BY <1>6 DEF Refuse, Crash, Forget, Now, Observation
  <2>2. Precedes(intact, Nothing, Now) /\ Precedes(intact, Nothing, file)  BY <1>0, ObservationType, NothingPrecedes
  <2> QED  BY <2>1, <2>2, NothingType DEF ChainInv, OnceInv, Precedes, SameEpoch
<1>7. CASE \E b \in Start : Ingest(b)
  <2>1. PICK b \in Start : Ingest(b)  BY <1>7
  <2> DEFINE t == TimeOf(reading)
             n == [reading EXCEPT !.time = t]
  <2>2. /\ Now' = Now /\ base' = n /\ reading' = Nothing /\ file' = file
        /\ counted' = [h \in Host |-> counted[h] + Delta(reading, t, h)]
        /\ reading.kind = "counters" /\ intact' = intact
    BY <2>1 DEF Ingest, NewBase, Forget, Now, Observation
  <2>3. t \in Nat /\ Precedes(intact, base, reading)  BY <2>2, TimeType DEF ChainInv
  <2>4. Precedes(intact, n, Now) /\ (FromFile => Precedes(intact, n, file))
    BY <1>0, ObservationType, RecordedPrecedes DEF ChainInv
  <2>5. Precedes(intact, Nothing, Now) /\ Precedes(intact, Nothing, file)  BY <1>0, ObservationType, NothingPrecedes
  <2>6. \A h \in Host : counted[h] + Delta(reading, t, h) <= n.seen[h]
    <3>1. n.seen = reading.seen  BY <1>0 DEF Reading
    <3>2. counted \in Counts /\ base.seen \in Counts /\ reading.seen \in Counts  BY DEF TypeOK, Reading
    <3>3. TAKE h \in Host
    <3>4. counted[h] \in Nat /\ base.seen[h] \in Nat /\ reading.seen[h] \in Nat  BY <3>2 DEF Counts
    <3>5. Delta(reading, t, h) <= reading.seen[h] - base.seen[h] /\ Delta(reading, t, h) \in Nat
      BY <2>2, <2>3, DeltaHappened, DeltaType
    <3>6. counted[h] <= base.seen[h]  BY DEF OnceInv
    <3> HIDE DEF t, n
    <3> QED  BY <3>1, <3>4, <3>5, <3>6
  <2> HIDE DEF t, n
  <2>7. ChainInv'  BY <2>2, <2>4, <2>5, NothingType DEF ChainInv, Precedes, SameEpoch
  <2>8. OnceInv'  BY <2>2, <2>6 DEF OnceInv
  <2> QED  BY <2>7, <2>8
<1>8. ASSUME \/ \E h \in Host : Count(h) \/ Overflow(h) \/ LoseCounter(h)
             \/ NewEpoch \/ Tick \/ SetBack \/ UNCHANGED vars
      PROVE  ChainInv' /\ OnceInv'
  <2>1. CASE \E h \in Host : Count(h) \/ Overflow(h) \/ LoseCounter(h)
    <3>1. UNCHANGED <<file, reading, stored>>  BY <2>1 DEF Count, Overflow, LoseCounter
    <3> QED  BY <1>1, <2>1, <3>1
  <2>2. CASE NewEpoch \/ Tick \/ SetBack \/ UNCHANGED vars
    <3>1. UNCHANGED <<file, reading, stored>> /\ (NewEpoch \/ UNCHANGED source)
      BY <2>2 DEF NewEpoch, Tick, SetBack, vars
    <3> QED  BY <1>1, <3>1
  <2> QED  BY <1>8, <2>1, <2>2
<1> QED  BY <1>2, <1>3, <1>4, <1>5, <1>6, <1>7, <1>8 DEF Next, Environment, Collector

LEMMA HistoryInvariant == Spec => []HistoryInv
<1>1. Init => HistoryInv  BY InitType, InitChain DEF HistoryInv
<1>2. HistoryInv /\ [Next]_vars => HistoryInv'  BY NextType, NextChain DEF HistoryInv
<1> QED  BY <1>1, <1>2, PTL DEF Spec

\* Whatever the source, the clock and the backend go through, the deltas recorded
\* for a host never exceed its events.
THEOREM NeverInflatedTheorem == Spec => []NeverInflated
<1>1. HistoryInv => NeverInflated
  <2> SUFFICES ASSUME HistoryInv, NEW h \in Host PROVE counted[h] <= happened[h]
    BY DEF NeverInflated
  <2>1. base.seen[h] <= happened[h]  BY DEF HistoryInv, ChainInv, Precedes, Now, Observation
  <2>2. counted[h] <= base.seen[h]  BY DEF HistoryInv, OnceInv
  <2>3. counted[h] \in Nat /\ base.seen[h] \in Nat /\ happened[h] \in Nat
    BY DEF HistoryInv, TypeOK, Reading, Counts
  <2> QED  BY <2>1, <2>2, <2>3
<1> QED  BY <1>1, HistoryInvariant, PTL

-----------------------------------------------------------------------------
(* Completeness: the baseline moves forward in time, so a bucket is filled *)
(* by consecutive readings; the baseline is the last reading of its bucket.*)

Inside(t, b) == b < t /\ t <= b + Bucket
Whole(b) == rows[b].present /\ ~rows[b].incomplete

ForwardInv ==
    /\ ~Switches => on /\ \A r \in {reading, file, base} : r.kind # "disabled"
    /\ base.kind = "none" => base.time = 0
    /\ ~StepsBack /\ ~FromFile => base.time <= clock

SpanInv ==
    \A b \in Start :
        /\ rows[b].present => Inside(span[b].upto, b) /\ span[b].upto <= base.time
        /\ ~rows[b].present => rows[b] = NoRow

WholeInv ==
    \A b \in Start : Whole(b) =>
        /\ b - MaxGap < span[b].since /\ span[b].since <= b
        /\ \/ rows[b].covered = span[b].upto - span[b].since
           \/ rows[b].covered = Bucket /\ span[b].upto - span[b].since >= Bucket
        /\ \A h \in Host : rows[b].delta[h] = span[b].last[h] - span[b].first[h]

BaseInv ==
    base.kind = "counters" =>
        \E b \in Start : /\ Inside(base.time, b) /\ rows[b].present
                         /\ span[b].upto = base.time /\ span[b].last = base.seen

MeetInv ==
    \A a, b \in Start : a + Bucket = b /\ rows[a].present /\ Whole(b) =>
        span[a].upto = span[b].since /\ span[a].last = span[b].first

\* No claim is left for the time after a counter was lost without a new epoch.
LedgerInv == SpanInv /\ WholeInv /\ BaseInv /\ MeetInv
BucketInv == ForwardInv /\ (intact => LedgerInv)

\* A time is inside one bucket only.
LEMMA OneBucket ==
  ASSUME NEW a \in Start, NEW b \in Start, NEW t \in Nat, Inside(t, a), Inside(t, b)
  PROVE  a = b
<1>1. a \in Nat /\ b \in Nat /\ Bucket \in Nat  BY StartAssumption, SpanAssumption
<1>2. ~(a < b) /\ ~(b < a)  BY <1>1, StartAssumption DEF Inside
<1> QED  BY <1>1, <1>2

LEMMA InitBucket == Init => BucketInv
<1> SUFFICES ASSUME Init PROVE BucketInv  OBVIOUS
<1>1. \A b \in Start : ~rows[b].present /\ rows[b] = NoRow  BY DEF Init, NoRow
<1>2. ForwardInv  BY DEF Init, ForwardInv, Nothing
<1> QED  BY <1>1, <1>2 DEF Init, BucketInv, LedgerInv, SpanInv, WholeInv, Whole, BaseInv, MeetInv, Nothing

\* Steps that leave the stored rows alone keep what is said of them.
LEMMA StoredStep ==
  ASSUME LedgerInv, UNCHANGED stored
  PROVE  SpanInv' /\ WholeInv' /\ BaseInv' /\ MeetInv'
BY DEF LedgerInv, SpanInv, WholeInv, Whole, BaseInv, MeetInv, stored

LEMMA ForwardStep ==
  ASSUME TypeOK, ForwardInv, ~(StepsBack /\ Switches), [Next]_vars
  PROVE  ForwardInv'
<1> USE DEF source, stored
<1>0. clock \in Nat /\ base \in Reading /\ FromFile \in BOOLEAN  BY SwitchAssumption DEF TypeOK
<1>1. CASE Environment \/ UNCHANGED vars
  <2>1. base' = base /\ reading' = reading
    BY <1>1 DEF Environment, Count, Overflow, LoseCounter, NewEpoch, Switch, Tick, SetBack, WriteFile, vars
  <2>2. ~Switches => on' = on /\ (file' = file \/ file' = Observation)
    BY <1>1 DEF Environment, Count, Overflow, LoseCounter, NewEpoch, Switch, Tick, SetBack, WriteFile, vars
  <2>3. ~StepsBack => clock' >= clock
    BY <1>0, <1>1 DEF Environment, Count, Overflow, LoseCounter, NewEpoch, Switch, Tick, SetBack, WriteFile, vars
  <2>4. clock' \in Nat
    BY <1>0, <1>1 DEF Environment, Count, Overflow, LoseCounter, NewEpoch, Switch, Tick, SetBack, WriteFile, vars
  <2>5. ~Switches => file'.kind # "disabled"  BY <2>2 DEF ForwardInv, Observation
  <2>6. ~Switches => on' /\ \A r \in {reading', file', base'} : r.kind # "disabled"
    BY <2>1, <2>2, <2>5, Zenon DEF ForwardInv
  <2>7. ~StepsBack /\ ~FromFile => base'.time <= clock'
    BY <1>0, <2>1, <2>3, <2>4 DEF ForwardInv, Reading
  <2>8. base'.kind = "none" => base'.time = 0  BY <2>1 DEF ForwardInv
  <2> QED  BY <2>6, <2>7, <2>8 DEF ForwardInv
<1>2. CASE Read \/ Refuse \/ Crash
  <2>1. base' = base /\ clock' = clock /\ on' = on /\ file' = file
    BY <1>2 DEF Read, Refuse, Crash
  <2>2. reading' = Nothing \/ reading' = Latest  BY <1>2 DEF Read, Refuse, Crash, Forget
  <2>3. ~Switches => reading'.kind # "disabled"
    BY <2>2, NothingType DEF ForwardInv, Latest, Observation
  <2>4. ~Switches => on' /\ \A r \in {reading', file', base'} : r.kind # "disabled"
    BY <2>1, <2>3, Zenon DEF ForwardInv
  <2> QED  BY <2>1, <2>4 DEF ForwardInv
<1>3. CASE RecordDisabled
  <2>1. Switches  BY <1>3 DEF RecordDisabled, ForwardInv
  <2>2. base'.kind = "disabled" /\ base'.time = clock /\ clock' = clock
    BY <1>3 DEF RecordDisabled, Nothing
  <2> QED  BY <1>0, <2>1, <2>2 DEF ForwardInv
<1>4. CASE \E b \in Start : Ingest(b)
  <2>1. PICK b \in Start : Ingest(b)  BY <1>4
  <2>2. base' = [reading EXCEPT !.time = TimeOf(reading)] /\ reading' = Nothing
    BY <2>1 DEF Ingest, NewBase, Forget
  <2>3. reading.kind = "counters" /\ clock' = clock /\ on' = on /\ file' = file
    BY <2>1 DEF Ingest, NewBase
  <2>4. base'.kind = "counters" /\ base'.time = TimeOf(reading)
    BY <2>2, <2>3 DEF TypeOK, Reading
  <2>5. ~Switches => on' /\ \A r \in {reading', file', base'} : r.kind # "disabled"
    BY <2>2, <2>3, <2>4, NothingType, Zenon DEF ForwardInv
  <2>6. ~StepsBack /\ ~FromFile => base'.time <= clock'  BY <1>0, <2>3, <2>4 DEF TimeOf
  <2> QED  BY <2>4, <2>5, <2>6 DEF ForwardInv
<1> QED  BY <1>1, <1>2, <1>3, <1>4 DEF Next, Collector

\* A marker is never older than the baseline it replaces.
LEMMA MarkerStep ==
  ASSUME TypeOK, ForwardInv, LedgerInv, ~(StepsBack /\ Switches), RecordDisabled
  PROVE  SpanInv' /\ WholeInv' /\ BaseInv' /\ MeetInv'
<1>1. Switches /\ ~StepsBack /\ ~FromFile
  BY SwitchAssumption DEF RecordDisabled, ForwardInv
<1>2. base.time <= clock /\ base'.time = clock /\ base'.kind = "disabled"
  BY <1>1 DEF RecordDisabled, Nothing, ForwardInv
<1>3. rows' = rows /\ span' = span  BY DEF RecordDisabled
<1>4. clock \in Nat /\ base.time \in Nat /\ \A b \in Start : span[b].upto \in Nat
  BY DEF TypeOK, Reading, Span
<1>5. SpanInv'  BY <1>2, <1>3, <1>4 DEF LedgerInv, SpanInv, Inside
<1> QED  BY <1>2, <1>3, <1>5 DEF LedgerInv, WholeInv, Whole, BaseInv, MeetInv

\* What a continuous reading of an undisturbed epoch adds is all that happened.
LEMMA DeltaExact ==
  ASSUME TypeOK, Precedes(intact, base, reading), reading.kind = "counters", ~reading.overflow, intact,
         NEW t \in Nat, Continuous(reading, t), Decreased(reading) = {}, NEW h \in Host
  PROVE  Delta(reading, t, h) = reading.seen[h] - base.seen[h]
BY DEF TypeOK, Precedes, SameEpoch, Delta, Continuous, Decreased, Reading, Counts

\* The facts about a recorded reading that the parts of BucketInv share.
LEMMA IngestFacts ==
  ASSUME TypeOK, ForwardInv, NEW b \in Start, Ingest(b),
         NEW t, t = TimeOf(reading)
  PROVE  /\ t \in Nat /\ base.time \in Nat /\ base.time < t
         /\ Inside(t, b) /\ ~Pruned(b)
         /\ reading.kind = "counters"
         /\ rows'[b] = NewRow(rows[b], reading, t)
         /\ span'[b] = IF rows[b].present
                       THEN [span[b] EXCEPT !.upto = t, !.last = reading.seen]
                       ELSE [since |-> base.time, first |-> base.seen,
                             upto |-> t, last |-> reading.seen]
         /\ base'.kind = "counters" /\ base'.time = t /\ base'.seen = reading.seen
         /\ \A x \in Start \ {b} :
               /\ rows'[x] = rows[x] \/ rows'[x] = NoRow
               /\ span'[x] = span[x]
<1>1. t \in Nat /\ reading.kind = "counters"  BY TimeType DEF Ingest, NewBase
<1>2. base.time \in Nat /\ b \in Nat /\ clock \in Nat  BY StartAssumption DEF TypeOK, Reading
<1>3. b < t /\ t <= b + Bucket /\ clock - t <= MaxGap /\ Later(t)  BY DEF Ingest, NewBase, Fresh
<1>4. base.time < t  BY <1>1, <1>2, <1>3 DEF Later, ForwardInv
<1>5. ~Pruned(b)  BY <1>1, <1>2, <1>3, SpanAssumption DEF Pruned
<1>6. base' = [reading EXCEPT !.time = t]  BY DEF Ingest, NewBase
<1>7. base'.kind = "counters" /\ base'.time = t /\ base'.seen = reading.seen
  BY <1>1, <1>6 DEF TypeOK, Reading
<1>8. rows' = [x \in Start |-> IF Pruned(x) THEN NoRow
                               ELSE IF x = b THEN NewRow(rows[b], reading, t) ELSE rows[x]]
  BY DEF Ingest, NewBase
<1>9. span' = [span EXCEPT ![b] =
         IF rows[b].present
         THEN [span[b] EXCEPT !.upto = t, !.last = reading.seen]
         ELSE [since |-> base.time, first |-> base.seen, upto |-> t, last |-> reading.seen]]
  BY DEF Ingest, NewBase
<1>10. span \in [Start -> Span]  BY DEF TypeOK
<1>11. rows'[b] = NewRow(rows[b], reading, t)  BY <1>5, <1>8
<1>12. span'[b] = IF rows[b].present
                  THEN [span[b] EXCEPT !.upto = t, !.last = reading.seen]
                  ELSE [since |-> base.time, first |-> base.seen,
                        upto |-> t, last |-> reading.seen]
  BY <1>9, <1>10
<1>13. \A x \in Start \ {b} : (rows'[x] = rows[x] \/ rows'[x] = NoRow) /\ span'[x] = span[x]
  BY <1>8, <1>9, <1>10
<1> QED  BY <1>1, <1>2, <1>3, <1>4, <1>5, <1>7, <1>11, <1>12, <1>13 DEF Inside

LEMMA IngestStep ==
  ASSUME HistoryInv, ForwardInv, LedgerInv, intact, NEW b \in Start, Ingest(b)
  PROVE  SpanInv' /\ WholeInv' /\ BaseInv' /\ MeetInv'
<1> DEFINE t == TimeOf(reading)
<1>0. TypeOK /\ ChainInv  BY DEF HistoryInv
<1>1. /\ t \in Nat /\ base.time \in Nat /\ base.time < t
      /\ Inside(t, b) /\ ~Pruned(b)
      /\ reading.kind = "counters"
      /\ rows'[b] = NewRow(rows[b], reading, t)
      /\ span'[b] = IF rows[b].present
                    THEN [span[b] EXCEPT !.upto = t, !.last = reading.seen]
                    ELSE [since |-> base.time, first |-> base.seen,
                          upto |-> t, last |-> reading.seen]
      /\ base'.kind = "counters" /\ base'.time = t /\ base'.seen = reading.seen
      /\ \A x \in Start \ {b} :
            /\ rows'[x] = rows[x] \/ rows'[x] = NoRow
            /\ span'[x] = span[x]
  BY <1>0, IngestFacts
<1>2. rows \in [Start -> Row] /\ span \in [Start -> Span] /\ Start \subseteq Nat /\ b \in Nat
  BY <1>0, StartAssumption DEF TypeOK
<1> HIDE DEF t
<1>3. span'[b].upto = t /\ span'[b].last = reading.seen /\ rows'[b].present
  BY <1>1, <1>2 DEF Span, NewRow
<1>4. \A x \in Start \ {b} : rows'[x].present => rows'[x] = rows[x] /\ span'[x] = span[x]
  BY <1>1 DEF NoRow
<1>5. SpanInv'
  <2>0. \A x \in Start : ~rows'[x].present => rows'[x] = NoRow
    BY <1>1, <1>3 DEF LedgerInv, SpanInv
  <2> SUFFICES ASSUME NEW x \in Start, rows'[x].present
               PROVE  Inside(span'[x].upto, x) /\ span'[x].upto <= base'.time
    BY <2>0 DEF SpanInv, Inside
  <2>1. CASE x = b
    <3>1. span'[x].upto = t /\ base'.time = t /\ t \in Nat  BY <1>1, <1>3, <2>1
    <3>2. Inside(t, x)  BY <1>1, <2>1
    <3> QED  BY <3>1, <3>2
  <2>2. CASE x # b
    <3>1. rows[x].present /\ span'[x] = span[x]  BY <1>4, <2>2
    <3>2. span[x].upto \in Nat  BY <1>2 DEF Span
    <3> QED  BY <1>1, <3>1, <3>2 DEF LedgerInv, SpanInv
  <2> QED  BY <2>1, <2>2
<1>6. BaseInv'
  <2>1. Inside(base'.time, b) /\ rows'[b].present /\ span'[b].upto = base'.time /\ span'[b].last = base'.seen
    BY <1>1, <1>3
  <2> QED  BY <2>1 DEF BaseInv, Inside
\* A whole bucket is filled by continuous readings of one epoch.
<1>7. Whole(b)' => /\ Continuous(reading, t) /\ ~reading.overflow /\ Decreased(reading) = {}
                   /\ rows[b].present => Whole(b)
                   /\ \A h \in Host : rows'[b].delta[h] = rows[b].delta[h] + reading.seen[h] - base.seen[h]
                   /\ rows'[b].covered = Covered(rows[b].covered, reading, t)
  <2> SUFFICES ASSUME Whole(b)'
               PROVE  /\ Continuous(reading, t) /\ ~reading.overflow /\ Decreased(reading) = {}
                      /\ rows[b].present => Whole(b)
                      /\ \A h \in Host : rows'[b].delta[h] = rows[b].delta[h] + reading.seen[h] - base.seen[h]
                      /\ rows'[b].covered = Covered(rows[b].covered, reading, t)
    OBVIOUS
  <2>1. ~NewRow(rows[b], reading, t).incomplete  BY <1>1 DEF Whole
  <2>2. ~rows[b].incomplete /\ Continuous(reading, t) /\ ~reading.overflow /\ Decreased(reading) = {}
    BY <2>1 DEF NewRow
  <2>3. Precedes(intact, base, reading)  BY <1>0, <1>1 DEF ChainInv
  <2>4. \A h \in Host : Delta(reading, t, h) = reading.seen[h] - base.seen[h]
    BY <1>0, <1>1, <2>2, <2>3, DeltaExact
  <2>5. \A h \in Host : /\ rows[b].delta[h] \in Nat
                        /\ reading.seen[h] \in Nat /\ base.seen[h] \in Nat
    BY <1>0, <1>2 DEF TypeOK, Row, Reading, Counts
  <2>6. \A h \in Host : rows'[b].delta[h] = rows[b].delta[h] + Delta(reading, t, h)
    BY <1>1 DEF NewRow
  <2>7. \A h \in Host : rows'[b].delta[h] = rows[b].delta[h] + reading.seen[h] - base.seen[h]
    BY <2>4, <2>5, <2>6
  <2>8. rows'[b].covered = Covered(rows[b].covered, reading, t)  BY <1>1 DEF NewRow
  <2> QED  BY <2>2, <2>7, <2>8 DEF Whole
\* The bucket of the baseline: where it ends is where this reading starts.
<1>8. ASSUME Continuous(reading, t)
      PROVE  \E c \in Start : /\ Inside(base.time, c) /\ rows[c].present
                              /\ span[c].upto = base.time /\ span[c].last = base.seen
                              /\ rows[b].present => c = b
                              /\ ~rows[b].present => base.time <= b /\ b - MaxGap < base.time
  <2>1. PICK c \in Start : /\ Inside(base.time, c) /\ rows[c].present
                           /\ span[c].upto = base.time /\ span[c].last = base.seen
    BY <1>8 DEF LedgerInv, BaseInv, Continuous
  <2>2. c \in Nat /\ span[b].upto \in Nat /\ Bucket \in Nat /\ MaxGap \in Nat
    BY <1>2, SpanAssumption DEF Span
  <2>3. ASSUME rows[b].present PROVE c = b
    <3>1. b < span[b].upto /\ span[b].upto <= base.time  BY <2>3 DEF LedgerInv, SpanInv, Inside
    <3>2. Inside(base.time, b)  BY <1>1, <1>2, <2>2, <3>1 DEF Inside
    <3> QED  BY <1>1, <2>1, <3>2, OneBucket
  <2>4. ASSUME ~rows[b].present PROVE base.time <= b /\ b - MaxGap < base.time
    <3>1. ~Inside(base.time, b)  BY <1>1, <2>1, <2>4, OneBucket
    <3> QED  BY <1>1, <1>2, <1>8, <2>2, <3>1 DEF Inside, Continuous
  <2> QED  BY <2>1, <2>3, <2>4
<1>9. WholeInv'
  <2> SUFFICES ASSUME NEW x \in Start, Whole(x)'
               PROVE  /\ x - MaxGap < span'[x].since /\ span'[x].since <= x
                      /\ \/ rows'[x].covered = span'[x].upto - span'[x].since
                         \/ rows'[x].covered = Bucket /\ span'[x].upto - span'[x].since >= Bucket
                      /\ \A h \in Host : rows'[x].delta[h] = span'[x].last[h] - span'[x].first[h]
    BY DEF WholeInv
  <2>1. CASE x # b
    <3>1. Whole(x) /\ rows'[x] = rows[x] /\ span'[x] = span[x]  BY <1>4, <2>1 DEF Whole
    <3> QED  BY <3>1 DEF LedgerInv, WholeInv
  <2>2. CASE x = b /\ rows[b].present
    <3>1. Whole(b)  BY <1>7, <2>2
    <3>2. span[b].upto = base.time /\ span[b].last = base.seen  BY <1>7, <1>8, <2>2
    <3>3. /\ span'[b].since = span[b].since /\ span'[b].first = span[b].first
      BY <1>1, <1>2, <2>2 DEF Span
    <3>4. /\ b - MaxGap < span[b].since /\ span[b].since <= b
          /\ \/ rows[b].covered = base.time - span[b].since
             \/ rows[b].covered = Bucket /\ base.time - span[b].since >= Bucket
          /\ \A h \in Host : rows[b].delta[h] = base.seen[h] - span[b].first[h]
      BY <3>1, <3>2 DEF LedgerInv, WholeInv
    <3>5. /\ rows[b].covered \in Nat /\ span[b].since \in Nat /\ Bucket \in Nat
          /\ \A h \in Host : base.seen[h] \in Nat /\ span[b].first[h] \in Nat /\ reading.seen[h] \in Nat
      BY <1>0, <1>2, SpanAssumption DEF TypeOK, Row, Span, Reading, Counts
    <3>6. \/ rows'[b].covered = t - span[b].since
          \/ rows'[b].covered = Bucket /\ t - span[b].since >= Bucket
      BY <1>1, <1>7, <2>2, <3>4, <3>5 DEF Covered
    <3>7. \A h \in Host : rows'[b].delta[h] = reading.seen[h] - span[b].first[h]
      BY <1>7, <2>2, <3>4, <3>5
    <3> QED  BY <1>3, <2>2, <3>3, <3>4, <3>6, <3>7
  <2>3. CASE x = b /\ ~rows[b].present
    <3>1. base.time <= b /\ b - MaxGap < base.time  BY <1>7, <1>8, <2>3
    <3>2. span'[b].since = base.time /\ span'[b].first = base.seen  BY <1>1, <2>3
    <3>3. rows[b] = NoRow  BY <2>3 DEF LedgerInv, SpanInv
    <3>4. rows[b].covered = 0 /\ \A h \in Host : rows[b].delta[h] = 0
      BY <3>3 DEF NoRow, Zero
    <3>5. \A h \in Host : base.seen[h] \in Nat /\ reading.seen[h] \in Nat
      BY <1>0 DEF TypeOK, Reading, Counts
    <3>6. \/ rows'[b].covered = t - base.time
          \/ rows'[b].covered = Bucket /\ t - base.time >= Bucket
      BY <1>1, <1>7, <2>3, <3>4, SpanAssumption DEF Covered
    <3>7. \A h \in Host : rows'[b].delta[h] = reading.seen[h] - base.seen[h]
      BY <1>7, <2>3, <3>4, <3>5
    <3> QED  BY <1>3, <2>3, <3>1, <3>2, <3>6, <3>7
  <2> QED  BY <2>1, <2>2, <2>3
<1>10. MeetInv'
  <2> SUFFICES ASSUME NEW a \in Start, NEW x \in Start, a + Bucket = x, rows'[a].present, Whole(x)'
               PROVE  span'[a].upto = span'[x].since /\ span'[a].last = span'[x].first
    BY DEF MeetInv
  <2>0. a \in Nat /\ x \in Nat /\ Bucket \in Nat \ {0} /\ a # x /\ MaxGap <= Bucket /\ MaxGap \in Nat
    BY <1>2, SpanAssumption
  <2>1. CASE a # b /\ x # b
    <3>1. rows[a].present /\ Whole(x) /\ span'[a] = span[a] /\ span'[x] = span[x]
      BY <1>4, <2>1 DEF Whole
    <3> QED  BY <3>1 DEF LedgerInv, MeetInv
  <2>2. CASE a = b
    <3>1. Whole(x) /\ x # b  BY <1>4, <2>0, <2>2 DEF Whole
    <3>2. x < span[x].upto /\ span[x].upto <= base.time  BY <3>1 DEF LedgerInv, SpanInv, Whole, Inside
    <3>3. base.time < t /\ t <= x  BY <1>1, <2>2 DEF Inside
    <3>4. span[x].upto \in Nat  BY <1>2 DEF Span
    <3> QED  BY <1>1, <2>0, <3>2, <3>3, <3>4
  <2>3. CASE x = b /\ rows[b].present
    <3>1. Whole(b) /\ rows[a].present /\ span'[a] = span[a]  BY <1>4, <1>7, <2>0, <2>3
    <3>2. span'[b].since = span[b].since /\ span'[b].first = span[b].first
      BY <1>1, <1>2, <2>3 DEF Span
    <3> QED  BY <2>3, <3>1, <3>2 DEF LedgerInv, MeetInv
  <2>4. CASE x = b /\ ~rows[b].present
    <3>1. PICK c \in Start : /\ Inside(base.time, c)
                             /\ span[c].upto = base.time /\ span[c].last = base.seen
                             /\ base.time <= b /\ b - MaxGap < base.time
      BY <1>7, <1>8, <2>4
    <3>2. Inside(base.time, a)  BY <1>1, <2>0, <2>4, <3>1 DEF Inside
    <3>3. a = c  BY <1>1, <3>1, <3>2, OneBucket
    <3>4. span'[a] = span[a]  BY <1>4, <2>0, <2>4
    <3>5. span'[b].since = base.time /\ span'[b].first = base.seen  BY <1>1, <2>4
    <3> QED  BY <2>4, <3>1, <3>3, <3>4, <3>5
  <2> QED  BY <2>1, <2>2, <2>3, <2>4
<1> QED  BY <1>5, <1>6, <1>9, <1>10

LEMMA NextBucket ==
  ASSUME ~(StepsBack /\ Switches), HistoryInv, BucketInv, [Next]_vars
  PROVE  BucketInv'
<1> USE DEF source, stored
<1>0. TypeOK /\ ForwardInv  BY DEF HistoryInv, BucketInv
<1>1. ForwardInv'  BY <1>0, ForwardStep
<1>2. intact' => intact
  BY DEF Next, Environment, Collector, Count, Overflow, LoseCounter, NewEpoch, Switch, Tick, SetBack,
         WriteFile, Read, RecordDisabled, Refuse, Ingest, Crash, vars
<1> SUFFICES ASSUME intact' PROVE LedgerInv'  BY <1>1 DEF BucketInv
<1>3. intact /\ LedgerInv  BY <1>2 DEF BucketInv
<1>4. CASE UNCHANGED stored  BY <1>3, <1>4, StoredStep DEF LedgerInv
<1>5. CASE RecordDisabled  BY <1>0, <1>3, <1>5, MarkerStep DEF LedgerInv
<1>6. CASE \E b \in Start : Ingest(b)  BY <1>0, <1>3, <1>6, IngestStep DEF LedgerInv
<1>7. Environment \/ Read \/ Refuse \/ Crash \/ UNCHANGED vars => UNCHANGED stored
  BY DEF Environment, Count, Overflow, LoseCounter, NewEpoch, Switch, Tick, SetBack, WriteFile,
         Read, Refuse, Crash, vars
<1> QED  BY <1>4, <1>5, <1>6, <1>7 DEF Next, Collector

LEMMA BucketInvariant ==
  ASSUME ~(StepsBack /\ Switches)
  PROVE  Spec => []BucketInv
<1>1. Init => BucketInv  BY InitBucket
<1>2. HistoryInv /\ BucketInv /\ [Next]_vars => BucketInv'  BY NextBucket
<1> QED  BY <1>1, <1>2, HistoryInvariant, PTL DEF Spec

\* Where the clock is not set back around a switched off source, a bucket that is covered and not marked incomplete holds
\* every event between two readings at most MaxGap before its two ends.
THEOREM CompleteTheorem ==
  ASSUME ~(StepsBack /\ Switches)
  PROVE  Spec => []CompleteIsCounted
<1>1. HistoryInv /\ BucketInv => CompleteIsCounted
  <2> SUFFICES ASSUME HistoryInv, LedgerInv, NEW b \in Start, Complete(b)
               PROVE  /\ b - MaxGap < span[b].since /\ span[b].since <= b
                      /\ b + Bucket - MaxGap < span[b].upto /\ span[b].upto <= b + Bucket
                      /\ \A h \in Host : rows[b].delta[h] = span[b].last[h] - span[b].first[h]
    BY DEF CompleteIsCounted, BucketInv
  <2>1. /\ Inside(span[b].upto, b)
        /\ b - MaxGap < span[b].since /\ span[b].since <= b
        /\ span[b].upto - span[b].since >= Bucket
        /\ \A h \in Host : rows[b].delta[h] = span[b].last[h] - span[b].first[h]
    <3>1. Whole(b) /\ rows[b].covered = Bucket  BY DEF Complete, Whole
    <3>2. span[b].since \in Nat /\ span[b].upto \in Nat /\ Bucket \in Nat
      BY SpanAssumption DEF HistoryInv, TypeOK, Span
    <3> QED  BY <3>1, <3>2 DEF LedgerInv, SpanInv, WholeInv, Whole
  <2>2. b \in Nat /\ span[b].since \in Nat /\ span[b].upto \in Nat /\ Bucket \in Nat /\ MaxGap \in Nat
    BY SpanAssumption, StartAssumption DEF HistoryInv, TypeOK, Span
  <2> QED  BY <2>1, <2>2 DEF Inside
<1> QED  BY <1>1, HistoryInvariant, BucketInvariant, PTL

BucketsMeet ==
    intact => \A a, b \in Start : a + Bucket = b /\ Complete(a) /\ Complete(b) =>
        span[a].upto = span[b].since /\ span[a].last = span[b].first

\* Under the same assumptions two complete buckets in a row meet in one reading:
\* no event falls between them, and the total of a window telescopes.
THEOREM BucketsMeetTheorem ==
  ASSUME ~(StepsBack /\ Switches)
  PROVE  Spec => []BucketsMeet
<1>1. BucketInv => BucketsMeet  BY DEF BucketInv, LedgerInv, MeetInv, BucketsMeet, Complete, Whole
<1> QED  BY <1>1, BucketInvariant, PTL

-----------------------------------------------------------------------------
(* Sums over finite sets.  A sum takes one element after another, in an    *)
(* order nobody knows; a least counterexample shows that any element may   *)
(* be taken first.                                                         *)

Pick(t) == CHOOSE x \in t : TRUE

\* The sum over t where x is taken first.
First(F, g, t, x) == F[x] + g[t \ {x}]

\* g is the sum of F over every subset of W.
Sums(F, W, g) ==
    g = [t \in SUBSET W |-> IF t = {} THEN 0 ELSE First(F, g, t, Pick(t))]

SumOf(F, W) == (CHOOSE g : Sums(F, W, g))[W]

\* Among numbers there is a least one.
LEMMA LeastNatural ==
  ASSUME NEW T, T \subseteq Nat, T # {}
  PROVE  \E m \in T : \A k \in T : m <= k
<1>1. PICK m \in T : \A k \in T : <<k, m>> \notin OpToRel(<, Nat)
  BY NatLessThanWellFounded, WFMin
<1>2. \A k \in T : ~(k < m)  BY <1>1 DEF OpToRel
<1> QED  BY <1>2

\* Among subsets of a finite set there is one that has no other below it.
LEMMA LeastSubset ==
  ASSUME NEW W, IsFiniteSet(W), NEW T, T \subseteq SUBSET W, T # {}
  PROVE  \E m \in T : \A k \in T : k \subseteq m => k = m
<1>1. IsWellFoundedOn(StrictSubsetOrdering(W), FiniteSubsetsOf(W))
  BY FS_StrictSubsetOrderingWellFounded
<1>2. T \subseteq FiniteSubsetsOf(W)  BY FS_FiniteSubsetsOfFinite
<1>3. PICK m \in T : \A k \in T : <<k, m>> \notin StrictSubsetOrdering(W)
  BY <1>1, <1>2, WFMin
<1> QED  BY <1>3 DEF StrictSubsetOrdering

LEMMA PickIn == ASSUME NEW t, t # {} PROVE Pick(t) \in t
  BY DEF Pick

LEMMA SumsStep ==
  ASSUME NEW F, NEW W, NEW g, Sums(F, W, g), NEW t \in SUBSET W
  PROVE  g[t] = IF t = {} THEN 0 ELSE First(F, g, t, Pick(t))
  BY DEF Sums

\* Two sums of the same function agree on the sets both of them know.
LEMMA SumsAgree ==
  ASSUME NEW F, NEW V, NEW W, NEW g, NEW k, IsFiniteSet(V), Sums(F, V, g), Sums(F, W, k),
         NEW t, t \subseteq V, t \subseteq W
  PROVE  g[t] = k[t]
<1> DEFINE T == {u \in SUBSET V : u \subseteq W /\ g[u] # k[u]}
<1>1. SUFFICES ASSUME T # {} PROVE FALSE  OBVIOUS
<1>2. PICK m \in T : \A u \in T : u \subseteq m => u = m
  <2> T \subseteq SUBSET V OBVIOUS
  <2> HIDE DEF T
  <2> QED BY <1>1, LeastSubset
<1>3. m \in SUBSET V /\ m \in SUBSET W /\ g[m] # k[m]  BY <1>2
<1>4. m # {}  BY <1>3, SumsStep
<1> DEFINE p == Pick(m)
<1>5. p \in m  BY <1>4, PickIn
<1>6. m \ {p} \notin T
  <2> HIDE DEF p, T
  <2> QED BY <1>2, <1>5
<1>7. g[m \ {p}] = k[m \ {p}]  BY <1>3, <1>6
<1>8. g[m] = First(F, g, m, p) /\ k[m] = First(F, k, m, p)  BY <1>3, <1>4, SumsStep
<1> QED  BY <1>3, <1>7, <1>8 DEF First

Natural(F, W) == \A x \in W : F[x] \in Nat

\* A sum of natural numbers is one.
LEMMA SumsType ==
  ASSUME NEW W, IsFiniteSet(W), NEW F, Natural(F, W), NEW g, Sums(F, W, g),
         NEW t \in SUBSET W
  PROVE  g[t] \in Nat
<1> DEFINE T == {u \in SUBSET W : g[u] \notin Nat}
<1>1. SUFFICES ASSUME T # {} PROVE FALSE  OBVIOUS
<1>2. PICK m \in T : \A u \in T : u \subseteq m => u = m
  <2> T \subseteq SUBSET W OBVIOUS
  <2> HIDE DEF T
  <2> QED BY <1>1, LeastSubset
<1>3. m \in SUBSET W /\ g[m] \notin Nat  BY <1>2
<1>4. ASSUME m = {} PROVE FALSE
  <2>1. g[m] = 0  BY <1>3, <1>4, SumsStep
  <2> QED  BY <1>3, <2>1
<1> DEFINE p == Pick(m)
<1>5. p \in m  BY <1>4, PickIn
<1>6. m \ {p} \notin T
  <2> HIDE DEF p, T
  <2> QED BY <1>2, <1>5
<1>7. g[m \ {p}] \in Nat  BY <1>3, <1>6
<1>8. g[m] = First(F, g, m, p)  BY <1>3, <1>4, SumsStep
<1>9. F[p] \in Nat  BY <1>3, <1>5 DEF Natural
<1> QED  BY <1>3, <1>7, <1>8, <1>9 DEF First

\* A function can be summed over any finite set.
LEMMA SumsExist ==
  ASSUME NEW F, NEW W, IsFiniteSet(W)
  PROVE  \E g : Sums(F, W, g)
<1> DEFINE T == {u \in SUBSET W : ~\E g : Sums(F, u, g)}
<1>1. SUFFICES ASSUME T # {} PROVE FALSE  OBVIOUS
<1>2. PICK m \in T : \A u \in T : u \subseteq m => u = m
  <2> T \subseteq SUBSET W OBVIOUS
  <2> HIDE DEF T
  <2> QED BY <1>1, LeastSubset
<1>3. \A u \in SUBSET m : u # m => \E g : Sums(F, u, g)  BY <1>2
<1> DEFINE Known(u) == CHOOSE g : Sums(F, u, g)
           k == [t \in SUBSET m |-> IF t = {} THEN 0
                                    ELSE F[Pick(t)] + SumOf(F, t \ {Pick(t)})]
<1>4. \A u \in SUBSET m : u # m => Sums(F, u, Known(u)) /\ SumOf(F, u) = Known(u)[u]
  BY <1>3 DEF SumOf
<1>5. ASSUME NEW t \in SUBSET m, t # {} PROVE k[t \ {Pick(t)}] = SumOf(F, t \ {Pick(t)})
  <2> DEFINE u == t \ {Pick(t)}
  <2>1. u \in SUBSET m /\ u # m  BY <1>5, PickIn
  <2> HIDE DEF u
  <2>2. k[u] = IF u = {} THEN 0 ELSE F[Pick(u)] + SumOf(F, u \ {Pick(u)})  BY <2>1
  <2> HIDE DEF k, Known
  <2>3. Sums(F, u, Known(u)) /\ SumOf(F, u) = Known(u)[u]  BY <1>4, <2>1
  <2>4. SumOf(F, u) = IF u = {} THEN 0 ELSE F[Pick(u)] + Known(u)[u \ {Pick(u)}]
    BY <2>3, SumsStep DEF First
  <2>5. ASSUME u # {} PROVE Known(u)[u \ {Pick(u)}] = SumOf(F, u \ {Pick(u)})
    <3> DEFINE v == u \ {Pick(u)}
    <3>1. v \in SUBSET m /\ v # m /\ v \subseteq u BY <2>1, <2>5, PickIn
    <3> HIDE DEF v
    <3>2. Sums(F, v, Known(v)) /\ SumOf(F, v) = Known(v)[v]  BY <1>4, <3>1
    <3>3. IsFiniteSet(v) BY <1>2, <3>1, FS_Subset
    <3>4. Known(v)[v] = Known(u)[v]  BY <2>3, <3>1, <3>2, <3>3, SumsAgree
    <3> QED BY <3>2, <3>4 DEF v
  <2> QED BY <2>2, <2>4, <2>5 DEF u
<1>6. Sums(F, m, k)
  <2> k = [t \in SUBSET m |-> IF t = {} THEN 0 ELSE F[Pick(t)] + k[t \ {Pick(t)}]]
    BY <1>5
  <2> QED  BY DEF Sums, First
<1> QED  BY <1>2, <1>6

\* The sum over a set is any of its elements and the sum over the others.
LEMMA SumsRemove ==
  ASSUME NEW W, IsFiniteSet(W), NEW F, Natural(F, W), NEW g, Sums(F, W, g)
  PROVE  \A t \in SUBSET W : \A x \in t : g[t] = First(F, g, t, x)
<1> DEFINE T == {u \in SUBSET W : \E y \in u : g[u] # First(F, g, u, y)}
<1>1. SUFFICES ASSUME T # {} PROVE FALSE  OBVIOUS
<1>2. PICK m \in T : \A u \in T : u \subseteq m => u = m
  <2> T \subseteq SUBSET W OBVIOUS
  <2> HIDE DEF T
  <2> QED BY <1>1, LeastSubset
<1>3. PICK y \in m : g[m] # First(F, g, m, y)  BY <1>2
<1> DEFINE p == Pick(m)
<1>4. p \in m /\ m \in SUBSET W BY <1>2, <1>3, PickIn
<1>5. g[m] = First(F, g, m, p)  BY <1>3, <1>4, SumsStep
<1> HIDE DEF p
<1>6. y # p  BY <1>3, <1>5
<1>7. \A u \in SUBSET m : \A z \in u : u # m => g[u] = First(F, g, u, z)  BY <1>2, <1>4
<1>8. g[m \ {p}] = First(F, g, m \ {p}, y)  BY <1>3, <1>4, <1>6, <1>7
<1>9. g[m \ {y}] = First(F, g, m \ {y}, p)  BY <1>3, <1>4, <1>6, <1>7
<1>10. (m \ {p}) \ {y} = (m \ {y}) \ {p}  OBVIOUS
<1>11. F[p] \in Nat /\ F[y] \in Nat  BY <1>3, <1>4 DEF Natural
<1>12. g[(m \ {p}) \ {y}] \in Nat  BY <1>4, SumsType
<1>13. g[m \ {y}] = F[p] + g[(m \ {p}) \ {y}]  BY <1>9, <1>10 DEF First
<1> DEFINE a == g[(m \ {p}) \ {y}]
           b == g[m \ {p}]
           c == g[m \ {y}]
<1>14. g[m] = F[p] + b /\ b = F[y] + a /\ c = F[p] + a /\ a \in Nat /\ g[m] # F[y] + c
  BY <1>3, <1>5, <1>8, <1>12, <1>13 DEF First
<1> HIDE DEF a, b, c
<1> QED  BY <1>11, <1>14

\* The same of the sum over one set, whatever set its function is summed over.
LEMMA SumOfFacts ==
  ASSUME NEW W, IsFiniteSet(W), NEW F, Natural(F, W)
  PROVE  /\ SumOf(F, W) \in Nat
         /\ W = {} => SumOf(F, W) = 0
         /\ \A x \in W : SumOf(F, W) = F[x] + SumOf(F, W \ {x})
<1> DEFINE g == CHOOSE k : Sums(F, W, k)
<1>1. Sums(F, W, g)  BY SumsExist
<1>2. SumOf(F, W) = g[W] BY DEF SumOf
<1> HIDE DEF g
<1>0. \A t \in SUBSET W : \A y \in t : g[t] = First(F, g, t, y)
  BY <1>1, SumsRemove
<1>3. ASSUME NEW x \in W PROVE SumOf(F, W) = F[x] + SumOf(F, W \ {x})
  <2> DEFINE V == W \ {x}
             k == CHOOSE f : Sums(F, V, f)
  <2>1. IsFiniteSet(V) /\ V \subseteq W BY FS_RemoveElement
  <2>2. Sums(F, V, k)  BY <2>1, SumsExist
  <2>3. SumOf(F, V) = k[V] BY DEF SumOf
  <2> HIDE DEF k
  <2>4. k[V] = g[V] BY <1>1, <2>1, <2>2, SumsAgree
  <2>5. g[W] = F[x] + g[V]
    <3> W \in SUBSET W  OBVIOUS
    <3> QED  BY <1>0 DEF First
  <2> QED BY <1>2, <2>3, <2>4, <2>5
<1>4. W \in SUBSET W  OBVIOUS
<1>5. g[W] \in Nat  BY <1>1, <1>4, SumsType
<1>6. W = {} => g[W] = 0  BY <1>1, <1>4, SumsStep
<1> QED  BY <1>2, <1>3, <1>5, <1>6

-----------------------------------------------------------------------------
(* Windows.                                                                *)

Covers == [b \in Start |-> rows[b].covered]
Deltas(h) == [b \in Start |-> rows[b].delta[h]]

LEMMA WindowFinite ==
  ASSUME NEW s, NEW e \in Nat
  PROVE  IsFiniteSet(Window(s, e)) /\ Window(s, e) \subseteq Start
<1>1. Window(s, e) \subseteq Start /\ \A b \in Window(s, e) : b < e  BY DEF Window
<1>2. Start \subseteq Nat  BY StartAssumption
<1>3. Window(s, e) \in SUBSET Nat /\ \A b \in Window(s, e) : b <= e
  <2>1. ASSUME NEW b \in Window(s, e) PROVE b \in Nat /\ b <= e
    <3>1. b \in Nat /\ b < e  BY <1>1, <1>2
    <3> QED  BY <3>1
  <2> QED  BY <2>1
<1> QED  BY <1>1, <1>3, FS_BoundedSetOfNaturals

\* The sums of a window, taken by the fold of the community module, are SumOf.
LEMMA WindowSums ==
  ASSUME NEW s, NEW e \in Nat
  PROVE  /\ WindowCovered(s, e) = SumOf(Covers, Window(s, e))
         /\ \A h \in Host : WindowTotal(s, e, h) = SumOf(Deltas(h), Window(s, e))
<1> DEFINE W == Window(s, e)
<1>1. IsFiniteSet(W) /\ W \subseteq Start  BY WindowFinite
<1>2. WindowCovered(s, e) = SumOf(Covers, W)
  <2>1. ASSUME NEW k PROVE
         Sums(Covers, W, k) <=> k = [t \in SUBSET W |-> IF t = {} THEN 0
              ELSE rows[CHOOSE x \in t : TRUE].covered + k[t \ {CHOOSE x \in t : TRUE}]]
    <3>1. ASSUME NEW t \in SUBSET W, t # {} PROVE Covers[Pick(t)] = rows[Pick(t)].covered
       <4> HIDE DEF W
       <4> QED BY <1>1, <3>1, PickIn DEF Covers
    <3> HIDE DEF W
    <3> QED BY <3>1 DEF Sums, First, Pick
  <2> HIDE DEF W
  <2>2. (CHOOSE k : Sums(Covers, W, k)) = CHOOSE k : k = [t \in SUBSET W |-> IF t = {} THEN 0
              ELSE rows[CHOOSE x \in t : TRUE].covered + k[t \ {CHOOSE x \in t : TRUE}]]
    BY <2>1
  <2> QED BY <2>2 DEF W, WindowCovered, MapThenSumSet, MapThenFoldSet, SumOf
<1>3. ASSUME NEW h \in Host PROVE WindowTotal(s, e, h) = SumOf(Deltas(h), W)
  <2>1. ASSUME NEW k PROVE
         Sums(Deltas(h), W, k) <=> k = [t \in SUBSET W |-> IF t = {} THEN 0
              ELSE rows[CHOOSE x \in t : TRUE].delta[h] + k[t \ {CHOOSE x \in t : TRUE}]]
    <3>1. ASSUME NEW t \in SUBSET W, t # {} PROVE Deltas(h)[Pick(t)] = rows[Pick(t)].delta[h]
       <4> HIDE DEF W
       <4> QED BY <1>1, <3>1, PickIn DEF Deltas
    <3> HIDE DEF W
    <3> QED BY <3>1 DEF Sums, First, Pick
  <2> HIDE DEF W
  <2>2. (CHOOSE k : Sums(Deltas(h), W, k)) = CHOOSE k : k = [t \in SUBSET W |-> IF t = {} THEN 0
              ELSE rows[CHOOSE x \in t : TRUE].delta[h] + k[t \ {CHOOSE x \in t : TRUE}]]
    BY <2>1
  <2> QED BY <2>2 DEF W, WindowTotal, MapThenSumSet, MapThenFoldSet, SumOf
<1> QED BY <1>2, <1>3

NoneIncomplete(s, e) == \A b \in Window(s, e) : ~rows[b].incomplete

\* Up to bucket b, a window is covered for no longer than it lasts; when it is
\* covered throughout, its total is what happened between its two ends.
Telescoped(s, b, e) ==
    /\ SumOf(Covers, Window(s, e)) <= e - s
    /\ NoneIncomplete(s, e) /\ SumOf(Covers, Window(s, e)) >= e - s =>
        /\ Complete(s) /\ Complete(b)
        /\ \A h \in Host : SumOf(Deltas(h), Window(s, e)) = span[b].last[h] - span[s].first[h]

Telescopes(s, b) == Telescoped(s, b, b + Bucket)

LEMMA WindowFacts ==
  ASSUME TypeOK, NEW s \in Start, NEW e \in Nat
  PROVE  /\ Covers \in [Start -> Nat] /\ \A b \in Start : Covers[b] <= Bucket
         /\ \A h \in Host : Deltas(h) \in [Start -> Nat]
         /\ SumOf(Covers, Window(s, e)) \in Nat
         /\ \A h \in Host : SumOf(Deltas(h), Window(s, e)) \in Nat
         /\ Natural(Covers, Window(s, e)) /\ \A h \in Host : Natural(Deltas(h), Window(s, e))
<1>1. Covers \in [Start -> Nat] /\ \A b \in Start : Covers[b] <= Bucket
  BY SpanAssumption DEF TypeOK, Row, Covers
<1>2. \A h \in Host : Deltas(h) \in [Start -> Nat]  BY DEF TypeOK, Row, Counts, Deltas
<1>3. IsFiniteSet(Window(s, e)) /\ Window(s, e) \subseteq Start  BY WindowFinite
<1>4. Natural(Covers, Window(s, e)) /\ \A h \in Host : Natural(Deltas(h), Window(s, e))
  BY <1>1, <1>2, <1>3 DEF Natural
<1>5. /\ SumOf(Covers, Window(s, e)) \in Nat
      /\ \A h \in Host : SumOf(Deltas(h), Window(s, e)) \in Nat
  BY <1>3, <1>4, SumOfFacts
<1> QED  BY <1>1, <1>2, <1>4, <1>5

\* A window ends in its last bucket, after the one before it.
LEMMA WindowLast ==
  ASSUME TypeOK, NEW s \in Start, NEW b \in Start, s <= b
  PROVE  LET V == Window(s, b)
             W == Window(s, b + Bucket)
         IN  /\ b \in W /\ W \ {b} = V
             /\ SumOf(Covers, W) = rows[b].covered + SumOf(Covers, V)
             /\ \A h \in Host : SumOf(Deltas(h), W) = rows[b].delta[h] + SumOf(Deltas(h), V)
<1> DEFINE V == Window(s, b)
           W == Window(s, b + Bucket)
<1>1. s \in Nat /\ b \in Nat /\ Bucket \in Nat \ {0} /\ b + Bucket \in Nat
  BY StartAssumption, SpanAssumption
<1>2. b \in W  BY <1>1 DEF Window
<1>3. W \ {b} = V
  <2>1. ASSUME NEW x \in Start PROVE x \in W \ {b} <=> x \in V
    <3>1. x \in Nat /\ ~(b < x /\ x < b + Bucket)  BY <1>1, StartAssumption
    <3> QED  BY <1>1, <3>1 DEF Window
  <2> QED  BY <2>1 DEF Window
<1>4. IsFiniteSet(W) /\ W \subseteq Start  BY <1>1, WindowFinite
<1>5. Natural(Covers, W) /\ \A h \in Host : Natural(Deltas(h), W)
  BY <1>1, WindowFacts
<1>6. Covers[b] = rows[b].covered /\ \A h \in Host : Deltas(h)[b] = rows[b].delta[h]
  BY DEF Covers, Deltas
<1> HIDE DEF V, W
<1>7. SumOf(Covers, W) = Covers[b] + SumOf(Covers, W \ {b})
  BY <1>2, <1>4, <1>5, SumOfFacts
<1>8. \A h \in Host : SumOf(Deltas(h), W) = Deltas(h)[b] + SumOf(Deltas(h), W \ {b})
  BY <1>2, <1>4, <1>5, SumOfFacts
<1> QED  BY <1>2, <1>3, <1>6, <1>7, <1>8 DEF V, W

\* Before a bucket that is not the first of a window there is a last one, and
\* the window up to it is the window up to the bucket.
LEMMA WindowBefore ==
  ASSUME NEW s \in Start, NEW b \in Start, s < b
  PROVE  \E a \in Start : s <= a /\ a + Bucket <= b /\ Window(s, b) = Window(s, a + Bucket)
<1>1. s \in Nat /\ b \in Nat /\ Bucket \in Nat \ {0} /\ Start \subseteq Nat
  BY StartAssumption, SpanAssumption
<1> DEFINE T == {b - x : x \in Window(s, b)}
<1>2. T \subseteq Nat /\ b - s \in T  BY <1>1 DEF Window
<1>3. PICK m \in T : \A k \in T : m <= k
  <2> HIDE DEF T
  <2> QED  BY <1>2, LeastNatural
<1>4. PICK a \in Window(s, b) : m = b - a  BY <1>3
<1>5. a \in Start /\ s <= a /\ a < b  BY <1>4 DEF Window
<1>6. \A x \in Window(s, b) : x <= a
  <2>1. \A x \in Window(s, b) : b - a <= b - x  BY <1>3, <1>4
  <2> QED  BY <1>1, <1>5, <2>1 DEF Window
<1>7. a + Bucket <= b  BY <1>5, StartAssumption
<1>8. Window(s, b) = Window(s, a + Bucket)
  <2>1. ASSUME NEW x \in Start PROVE x \in Window(s, b) <=> x \in Window(s, a + Bucket)
    <3>1. x \in Nat /\ a \in Nat  BY <1>1, <1>5
    <3>2. x \in Window(s, b) => x <= a  BY <1>6
    <3> QED  BY <1>1, <1>7, <3>1, <3>2 DEF Window
  <2> QED  BY <2>1 DEF Window
<1> QED  BY <1>5, <1>7, <1>8

\* A bucket covered throughout is stored.
LEMMA CoveredWhole ==
  ASSUME TypeOK, SpanInv, NEW b \in Start, ~rows[b].incomplete, rows[b].covered >= Bucket
  PROVE  Complete(b)
<1>1. rows[b].covered \in 0..Bucket  BY DEF TypeOK, Row
<1>2. rows[b].covered = Bucket /\ Bucket > 0  BY <1>1, SpanAssumption
<1>3. rows[b].present  BY <1>2 DEF SpanInv, NoRow
<1> QED  BY <1>2, <1>3 DEF Complete

\* By the least bucket at which a window does not telescope.
LEMMA WindowTelescopes ==
  ASSUME TypeOK, SpanInv, intact, CompleteIsCounted, BucketsMeet, NEW s \in Start
  PROVE  \A b \in Start : s <= b => Telescopes(s, b)
<1> DEFINE T == {b \in Start : s <= b /\ ~Telescopes(s, b)}
<1>1. SUFFICES ASSUME T # {} PROVE FALSE  OBVIOUS
<1>2. PICK b \in T : \A k \in T : b <= k
  <2>1. T \subseteq Nat  BY StartAssumption
  <2> HIDE DEF T
  <2> QED  BY <1>1, <2>1, LeastNatural
<1>3. b \in Start /\ s <= b /\ ~Telescopes(s, b)  BY <1>2
<1>4. \A a \in Start : s <= a /\ a < b => Telescopes(s, a)
  <2>1. \A a \in Start : a < b => a \notin T
     <3>1. \A a \in Start : a \in Nat /\ b \in Nat BY <1>3, StartAssumption
     <3> HIDE DEF T
     <3> QED BY <1>2, <3>1
  <2> QED BY <2>1
<1> HIDE DEF T
<1> DEFINE e == b + Bucket
<1>5. s \in Nat /\ b \in Nat /\ Bucket \in Nat \ {0} /\ e \in Nat
  BY <1>3, StartAssumption, SpanAssumption
<1> DEFINE V == Window(s, b)
           W == Window(s, e)
           c == rows[b].covered
<1>6. /\ b \in W /\ W \ {b} = V
      /\ SumOf(Covers, W) = c + SumOf(Covers, V)
      /\ \A h \in Host : SumOf(Deltas(h), W) = rows[b].delta[h] + SumOf(Deltas(h), V)
  BY <1>3, WindowLast
<1>7. c \in Nat /\ c <= Bucket  BY <1>3, SpanAssumption DEF TypeOK, Row
<1>8. \A h \in Host : rows[b].delta[h] \in Nat /\ span[b].last[h] \in Nat /\ span[b].first[h] \in Nat
  BY <1>3 DEF TypeOK, Row, Counts, Span
<1>9. NoneIncomplete(s, e) /\ c >= Bucket => Complete(b)
  BY <1>3, <1>6, <1>7, CoveredWhole DEF NoneIncomplete
<1>10. Complete(b) => \A h \in Host : rows[b].delta[h] = span[b].last[h] - span[b].first[h]
  BY <1>3 DEF CompleteIsCounted
<1>11. CASE s = b
  <2>1. V = {}
    <3>1. \A x \in Start : ~(b <= x /\ x < b)  BY <1>5, StartAssumption
    <3> QED  BY <1>11, <3>1 DEF Window
  <2>2. SumOf(Covers, V) = 0 /\ \A h \in Host : SumOf(Deltas(h), V) = 0
    <3>1. IsFiniteSet(V) /\ V \subseteq Start  BY <1>5, WindowFinite
    <3> QED  BY <2>1, <3>1, <1>5, WindowFacts, SumOfFacts
  <2>3. SumOf(Covers, W) = c /\ \A h \in Host : SumOf(Deltas(h), W) = rows[b].delta[h]
    BY <1>6, <1>7, <1>8, <2>2
  <2>4. e - s = Bucket  BY <1>5, <1>11
  <2> HIDE DEF e, c, W, V
  <2>5. SumOf(Covers, W) <= e - s /\ (SumOf(Covers, W) >= e - s <=> c >= Bucket)
    BY <1>7, <2>3, <2>4
  <2>6. Telescoped(s, b, e)  BY <1>9, <1>10, <1>11, <2>3, <2>5, Zenon DEF Telescoped, W
  <2> QED  BY <1>3, <2>6 DEF Telescopes, e
<1>12. CASE s # b
  <2>1. PICK a \in Start : s <= a /\ a + Bucket <= b /\ V = Window(s, a + Bucket)
    BY <1>3, <1>5, <1>12, WindowBefore
  <2>2. a \in Nat /\ a < b  BY <1>5, <2>1, StartAssumption
  <2>3. Telescopes(s, a)  BY <1>4, <2>1, <2>2
  <2> DEFINE v == SumOf(Covers, V)
             w == SumOf(Covers, W)
  <2>4. v \in Nat /\ v <= (a + Bucket) - s /\ w = c + v
    BY <1>5, <1>6, <2>1, <2>3, WindowFacts DEF Telescopes, Telescoped
  <2> DEFINE z == a + Bucket
  <2>5. NoneIncomplete(s, e) => NoneIncomplete(s, z)
    BY <1>6, <2>1 DEF NoneIncomplete
  <2>6. v >= z - s /\ NoneIncomplete(s, e) =>
          /\ Complete(s) /\ Complete(a)
          /\ \A h \in Host : SumOf(Deltas(h), V) = span[a].last[h] - span[s].first[h]
    <3>1. Telescoped(s, a, z) /\ V = Window(s, z)  BY <2>1, <2>3 DEF Telescopes
    <3> HIDE DEF z, V, e
    <3> QED  BY <2>5, <3>1, Zenon DEF Telescoped
  <2> HIDE DEF v, w, c
  <2>7. w <= e - s /\ (w >= e - s => a + Bucket = b /\ c >= Bucket /\ v >= z - s)
    BY <1>5, <1>7, <2>1, <2>2, <2>4
  <2> HIDE DEF V, W, e
  <2>8. ASSUME NoneIncomplete(s, e), w >= e - s
        PROVE  /\ Complete(s) /\ Complete(b)
               /\ \A h \in Host : SumOf(Deltas(h), W) = span[b].last[h] - span[s].first[h]
    <3>1. Complete(s) /\ Complete(a) /\ Complete(b)  BY <1>9, <2>6, <2>7, <2>8
    <3>2. span[a].last = span[b].first  BY <1>3, <2>7, <2>8, <3>1 DEF BucketsMeet
    <3>3. ASSUME NEW h \in Host
          PROVE  SumOf(Deltas(h), W) = span[b].last[h] - span[s].first[h]
      <4> DEFINE x == SumOf(Deltas(h), W)
                 y == SumOf(Deltas(h), V)
                 d == rows[b].delta[h]
                 p == span[b].last[h]
                 q == span[b].first[h]
                 r == span[s].first[h]
      <4>1. x = d + y /\ y = q - r /\ d = p - q
        BY <1>6, <1>10, <2>6, <2>7, <2>8, <3>1, <3>2
      <4>2. p \in Nat /\ q \in Nat /\ r \in Nat  BY <1>8 DEF TypeOK, Span, Counts
      <4> HIDE DEF x, y, d, p, q, r
      <4>3. x = p - r  BY <4>1, <4>2
      <4> QED  BY <4>3 DEF x, p, r
    <3> QED  BY <3>1, <3>3
  <2>9. Telescoped(s, b, e)  BY <2>7, <2>8, Zenon DEF Telescoped, w, W
  <2> QED  BY <1>3, <2>9 DEF Telescopes, e
<1> QED  BY <1>11, <1>12

\* Under the same assumptions a window that is not reported as partial has lost
\* nothing, in a bucket or between two: its total is every event between a reading
\* at most MaxGap before its start and one at most MaxGap before its end.
THEOREM WindowTheorem ==
  ASSUME ~(StepsBack /\ Switches)
  PROVE  Spec => []WindowIsCounted
<1>1. HistoryInv /\ BucketInv /\ CompleteIsCounted /\ BucketsMeet => WindowIsCounted
  <2> SUFFICES ASSUME TypeOK, SpanInv, intact, CompleteIsCounted, BucketsMeet,
                      NEW s \in Start, NEW b \in Start, s <= b, ~Partial(s, b + Bucket)
               PROVE  /\ s - MaxGap < span[s].since /\ span[s].since <= s
                      /\ b + Bucket - MaxGap < span[b].upto /\ span[b].upto <= b + Bucket
                      /\ \A h \in Host : WindowTotal(s, b + Bucket, h)
                                             = span[b].last[h] - span[s].first[h]
    BY DEF WindowIsCounted, HistoryInv, BucketInv, LedgerInv
  <2> DEFINE e == b + Bucket
  <2>1. s \in Nat /\ b \in Nat /\ Bucket \in Nat /\ e \in Nat  BY StartAssumption, SpanAssumption
  <2>2. /\ WindowCovered(s, e) = SumOf(Covers, Window(s, e))
        /\ \A h \in Host : WindowTotal(s, e, h) = SumOf(Deltas(h), Window(s, e))
    BY <2>1, WindowSums
  <2>3. SumOf(Covers, Window(s, e)) \in Nat  BY <2>1, WindowFacts
  <2>4. NoneIncomplete(s, e) /\ ~(WindowCovered(s, e) < e - s)  BY DEF Partial, NoneIncomplete
  <2>5. SumOf(Covers, Window(s, e)) >= e - s
    <3> HIDE DEF e
    <3> QED  BY <2>1, <2>2, <2>3, <2>4
  <2>6. Telescoped(s, b, e)  BY WindowTelescopes DEF Telescopes
  <2>7. /\ Complete(s) /\ Complete(b)
        /\ \A h \in Host : SumOf(Deltas(h), Window(s, e)) = span[b].last[h] - span[s].first[h]
    <3> HIDE DEF e
    <3> QED  BY <2>4, <2>5, <2>6, Zenon DEF Telescoped
  <2> QED  BY <2>2, <2>7 DEF CompleteIsCounted
<1> QED  BY <1>1, HistoryInvariant, BucketInvariant, CompleteTheorem, BucketsMeetTheorem, PTL
=============================================================================
