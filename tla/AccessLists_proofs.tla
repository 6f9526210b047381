------------------------- MODULE AccessLists_proofs -------------------------
(***************************************************************************)
(* Theorems about AccessLists, for any lists, hosts, rules and requests.   *)
(***************************************************************************)
EXTENDS AccessLists, TLAPS

InTrx == {"snapshot", "list", "hosts", "reload", "commit"}
Recovery == {"restore", "reload2"}
UpdateSteps == {"queued", "begin"} \cup InTrx \cup Recovery
DeleteSteps == {"read", "remove", "configure"}

\* An update that has been validated and not settled.
Busy(r) == pc[r] \in {"begin"} \cup InTrx \cup Recovery

BookInv ==
    /\ \A r \in Req : Busy(r) => chain # <<>> /\ Head(chain) = r
    /\ \A r \in Req : trx = r <=> pc[r] \in InTrx
    /\ \A r \in Req : pc[r] \in UpdateSteps =>
           task[r].op = "update" /\ task[r].list \in List /\ task[r].rules \in Rules
    /\ \A r \in Req : pc[r] \in DeleteSteps => task[r].op = "delete" /\ task[r].list \in List

Draft(r) == [policy EXCEPT ![task[r].list] = task[r].rules]

\* A transaction is open: nothing it has read has changed, and the hosts it has
\* written have the rules it will commit.
TrxInv(r) ==
    /\ graph[r] = [h \in Host |-> Merge(attached[h], Draft(r))]
    /\ todo[r] \subseteq UsersOf(task[r].list)
    /\ pc[r] \in {"snapshot", "list"} => todo[r] = UsersOf(task[r].list)
    /\ pc[r] \in {"hosts", "reload", "commit"} =>
           \A h \in UsersOf(task[r].list) \ todo[r] : hostFile[h] = graph[r][h]
    /\ pc[r] \in {"reload", "commit"} => todo[r] = {}
    /\ pc[r] = "commit" => served = hostFile

CommitInv == TypeOK /\ BookInv /\ \A r \in Req : pc[r] \in InTrx => TrxInv(r)

-----------------------------------------------------------------------------
(* Deletions alone, and no recovery has failed.                            *)

Apart == ~DeleteOverlaps

ApartInv == \A r, q \in Req : pc[r] \in DeleteSteps /\ q # r => ~InFlight(q)

Base == [h \in Host |-> Merge(attached[h], policy)]

Settled == listFile = policy /\ hostFile = Base /\ served = Base

Working(r) == pc[r] \in (InTrx \ {"snapshot"}) \cup Recovery \cup {"configure"}

\* The rules in f are committed, or those of the update r.
KnownTo(r, f) ==
    \A h \in Host, l \in List :
        f[h][l] \in {None, policy[l]} \cup {x \in {task[r].rules} : l = task[r].list}

UpdateInv(r) ==
    LET l == task[r].list IN
    /\ snap[r].list = policy[l]
    /\ \A h \in snap[r].of : snap[r].hosts[h] = Base[h]
    /\ \A h \in Host \ snap[r].of : hostFile[h] = Base[h]
    /\ \A x \in List \ {l} : listFile[x] = policy[x]
    /\ pc[r] \in InTrx => snap[r].of = UsersOf(l)
    /\ pc[r] = "list" => Settled
    /\ pc[r] \in {"hosts", "reload", "commit"} => listFile[l] = task[r].rules
    /\ pc[r] = "commit" => ConfigOK
    /\ pc[r] = "reload2" => listFile[l] = policy[l] /\ hostFile = Base
    /\ KnownTo(r, hostFile) /\ KnownTo(r, served)

RemoveInv(r) ==
    LET l == task[r].list IN
    /\ graph[r] = [h \in Host |-> Merge(attached[h] \ {l}, policy)]
    /\ todo[r] = UsersOf(l)

ConfigureInv(r) ==
    LET l == task[r].list IN
    /\ policy[l] = None
    /\ graph[r] = Base
    /\ \A x \in List \ {l} : listFile[x] = policy[x]
    /\ \A h \in Host \ todo[r] : hostFile[h] = Base[h]
    /\ ConfigOK /\ served = hostFile
    /\ \A h \in Host, x \in List \ {l} : hostFile[h][x] \in {None, policy[x]}

FileInv ==
    /\ Loadable(Base)
    /\ (\A r \in Req : ~Working(r)) => Settled
    /\ \A r \in Req : pc[r] \in (InTrx \ {"snapshot"}) \cup Recovery => UpdateInv(r)
    /\ \A r \in Req : pc[r] = "remove" => RemoveInv(r)
    /\ \A r \in Req : pc[r] = "configure" => ConfigureInv(r)

FilesInv == CommitInv /\ ApartInv /\ (~stale => FileInv)

-----------------------------------------------------------------------------
LEMMA MergeType == ASSUME NEW lists \in SUBSET List, NEW rules \in [List -> Text]
                   PROVE  Merge(lists, rules) \in Merged
BY DEF Merge, Merged, Text

LEMMA ChainFacts == ASSUME NEW c \in Seq(Req), NEW r \in Req
                    PROVE  /\ Append(c, r) \in Seq(Req) /\ Append(c, r) # <<>>
                           /\ c # <<>> => Head(Append(c, r)) = Head(c) /\ Tail(c) \in Seq(Req)
                           /\ c = <<>> => Head(Append(c, r)) = r
OBVIOUS

\* The types of a step that moves a request and may answer it.
LEMMA MoveType ==
    ASSUME TypeOK, NEW r \in Req, NEW step \in Steps
    PROVE  GoTo(r, step) => pc' \in [Req -> Steps] /\ pc'[r] = step
                            /\ \A q \in Req \ {r} : pc'[q] = pc[q]
BY DEF TypeOK, GoTo

LEMMA AnswerType ==
    ASSUME TypeOK, NEW r \in Req, NEW a \in {"none", "ok", "refused", "rejected", "failed"}
    PROVE  Answer(r, a) => /\ pc' \in [Req -> Steps] /\ pc'[r] = "done"
                           /\ \A q \in Req \ {r} : pc'[q] = pc[q]
                           /\ answer' \in [Req -> {"none", "ok", "refused", "rejected", "failed"}]
BY DEF TypeOK, GoTo, Answer, Steps

LEMMA InitType == Init => TypeOK
<1> SUFFICES ASSUME Init PROVE TypeOK
  OBVIOUS
<1>1. policy \in [List -> Text] /\ attached \in [Host -> SUBSET List] /\ listFile \in [List -> Text]
  BY DEF Init
<1>2. hostFile \in [Host -> Merged] /\ served \in [Host -> Merged]
  BY <1>1, MergeType DEF Init
<1>3. chain \in Seq(Req) /\ trx \in Req \cup {None} /\ todo \in [Req -> SUBSET Host]
  BY DEF Init
<1>4. pc \in [Req -> Steps] /\ task \in [Req -> Task]
  BY DEF Init, Steps, Task, NoTask, Text
<1>5. Empty \in Merged
  BY DEF Empty, Merged, Text
<1>6. graph \in [Req -> [Host -> Merged]]
  BY <1>5 DEF Init
<1>7. snap \in [Req -> [list : Text, hosts : [Host -> Merged], of : SUBSET Host]]
  BY <1>2 DEF Init, Text
<1>8. answer \in [Req -> {"none", "ok", "refused", "rejected", "failed"}]
  <2>1. answer = [r \in Req |-> "none"]
    BY DEF Init
  <2> QED
    BY <2>1
<1>9. saves \in 0 .. MaxSaves /\ faults \in 0 .. MaxFaults /\ stale \in BOOLEAN
  <2>1. saves = 0 /\ faults = 0 /\ stale = FALSE
    BY DEF Init
  <2>2. 0 \in 0 .. MaxSaves /\ 0 \in 0 .. MaxFaults
    BY BoundsAssumption DEF BoundsAssumption
  <2> QED
    BY <2>1, <2>2
<1> QED
  BY <1>1, <1>2, <1>3, <1>4, <1>6, <1>7, <1>8, <1>9 DEF TypeOK

\* The updates in the chain settle in its order.
LEMMA SettleType ==
    ASSUME TypeOK, NEW r \in Req, NEW a \in {"ok", "refused", "rejected", "failed"},
           Settle(r, a), chain # <<>>
    PROVE  chain' \in Seq(Req)
BY ChainFacts DEF TypeOK, Settle

LEMMA UpdateType ==
    ASSUME TypeOK, BookInv, NEW r \in Req, Update(r)
    PROVE  TypeOK'
<1>1. CASE Validate(r)
  BY <1>1, MoveType, AnswerType, SettleType
  DEF Validate, Settle, MyTurn, Steps, TypeOK, db, files, mem
<1>2. CASE Begin(r)
  <2>1. policy \in [List -> Text] /\ task[r].rules \in Text /\ attached \in [Host -> SUBSET List]
    BY DEF TypeOK, Task
  <2>2. [policy EXCEPT ![task[r].list] = task[r].rules] \in [List -> Text]
    BY <2>1
  <2>3. [h \in Host |-> Merge(attached[h], [policy EXCEPT ![task[r].list] = task[r].rules])]
            \in [Host -> Merged]
    BY <2>1, <2>2, MergeType
  <2>4. chain # <<>>
    BY <1>2 DEF BookInv, Busy, Begin
  <2>5. graph' \in [Req -> [Host -> Merged]] /\ todo' \in [Req -> SUBSET Host]
    <3>1. UsersOf(task[r].list) \in SUBSET Host
      BY DEF UsersOf
    <3>2. graph' \in [Req -> [Host -> Merged]]
      BY <1>2, <2>3 DEF Begin, TypeOK
    <3>3. todo' \in [Req -> SUBSET Host]
      BY <1>2, <3>1 DEF Begin, TypeOK
    <3> QED
      BY <3>2, <3>3
  <2>6. pc' \in [Req -> Steps] /\ chain' \in Seq(Req) /\ trx' \in Req \cup {None}
        /\ answer' \in [Req -> {"none", "ok", "refused", "rejected", "failed"}]
    BY <1>2, <2>4, MoveType, AnswerType, SettleType DEF Begin, Settle, Steps, TypeOK
  <2> QED
    BY <1>2, <2>5, <2>6 DEF Begin, TypeOK, db, files
<1>3. CASE Snapshot(r)
  <2>1. [list |-> listFile[task[r].list], hosts |-> hostFile, of |-> todo[r]]
            \in [list : Text, hosts : [Host -> Merged], of : SUBSET Host]
    BY <1>3 DEF Snapshot, TypeOK, BookInv, UpdateSteps, InTrx
  <2> QED
    BY <1>3, <2>1, MoveType DEF Snapshot, Steps, TypeOK, db, files
<1>4. CASE WriteList(r)
  BY <1>4, MoveType DEF WriteList, Steps, TypeOK, Task, db, mem
<1>5. CASE WriteHost(r)
  BY <1>5 DEF WriteHost, TypeOK, db, mem
<1>6. CASE Test(r)
  BY <1>6, MoveType DEF Test, Rollback, Steps, TypeOK, db, files, mem
<1>7. CASE Reload(r)
  BY <1>7, MoveType DEF Reload, Rollback, Steps, TypeOK, db, mem
<1>8. CASE Commit(r)
  <2>1. chain # <<>> /\ task[r].rules \in Text
    BY <1>8 DEF BookInv, Busy, InTrx, Commit, TypeOK, Task
  <2>2. policy' \in [List -> Text] /\ trx' \in Req \cup {None}
    BY <1>8, <2>1 DEF Commit, TypeOK
  <2>3. chain' \in Seq(Req) /\ pc' \in [Req -> Steps]
        /\ answer' \in [Req -> {"none", "ok", "refused", "rejected", "failed"}]
    BY <1>8, <2>1, AnswerType, SettleType DEF Commit, Settle
  <2> QED
    BY <1>8, <2>2, <2>3 DEF Commit, TypeOK, files, mem
<1>9. CASE Restore(r)
  <2>1. listFile' \in [List -> Text]
    BY <1>9 DEF Restore, TypeOK
  <2>2. hostFile' \in [Host -> Merged]
    BY <1>9 DEF Restore, TypeOK
  <2>3. pc' \in [Req -> Steps]
    BY <1>9, MoveType DEF Restore, Steps
  <2> QED
    BY <1>9, <2>1, <2>2, <2>3 DEF Restore, TypeOK, db, mem
<1>10. CASE ReloadBack(r)
  <2>1. chain # <<>>
    BY <1>10 DEF BookInv, Busy, Recovery, ReloadBack
  <2> QED
    BY <1>10, <2>1, AnswerType, SettleType DEF ReloadBack, Settle, TypeOK, db, mem
<1> QED
  BY <1>1, <1>2, <1>3, <1>4, <1>5, <1>6, <1>7, <1>8, <1>9, <1>10 DEF Update

LEMMA ArriveType ==
    ASSUME TypeOK, NEW r \in Req, ArriveUpdate(r) \/ ArriveDelete(r)
    PROVE  TypeOK'
<1>1. CASE ArriveUpdate(r)
  <2>1. chain' \in Seq(Req) /\ pc' \in [Req -> Steps]
    BY <1>1, ChainFacts, MoveType DEF ArriveUpdate, TypeOK, Steps
  <2>2. task' \in [Req -> Task]
    BY <1>1 DEF ArriveUpdate, TypeOK, Task, Text
  <2> QED
    BY <1>1, <2>1, <2>2 DEF ArriveUpdate, TypeOK, db, files
<1>2. CASE ArriveDelete(r)
  <2>1. pc' \in [Req -> Steps]
    BY <1>2, MoveType DEF ArriveDelete, Steps
  <2>2. task' \in [Req -> Task]
    BY <1>2 DEF ArriveDelete, TypeOK, Task, Text
  <2> QED
    BY <1>2, <2>1, <2>2 DEF ArriveDelete, TypeOK, db, files
<1> QED
  BY <1>1, <1>2

LEMMA DeleteType ==
    ASSUME TypeOK, NEW r \in Req, Delete(r)
    PROVE  TypeOK'
<1>1. CASE DeleteRead(r)
  <2>1. [h \in Host |-> Merge(attached[h] \ {task[r].list}, policy)] \in [Host -> Merged]
    <3>1. \A h \in Host : attached[h] \ {task[r].list} \in SUBSET List
      BY DEF TypeOK
    <3> QED
      BY <3>1, MergeType DEF TypeOK
  <2>2. graph' \in [Req -> [Host -> Merged]] /\ todo' \in [Req -> SUBSET Host]
    <3>1. UsersOf(task[r].list) \in SUBSET Host
      BY DEF UsersOf
    <3>2. graph' \in [Req -> [Host -> Merged]]
      BY <1>1, <2>1 DEF DeleteRead, TypeOK
    <3>3. todo' \in [Req -> SUBSET Host]
      BY <1>1, <3>1 DEF DeleteRead, TypeOK
    <3> QED
      BY <3>2, <3>3
  <2>3. pc' \in [Req -> Steps]
        /\ answer' \in [Req -> {"none", "ok", "refused", "rejected", "failed"}]
    BY <1>1, MoveType, AnswerType DEF DeleteRead, Steps, TypeOK
  <2> QED
    BY <1>1, <2>2, <2>3 DEF DeleteRead, TypeOK, db, files
<1>2. CASE DeleteRows(r)
  BY <1>2, MoveType DEF DeleteRows, Steps, TypeOK, Text, files, mem
<1>3. CASE ConfigureHost(r)
  <2>1. Empty \in Merged
    BY DEF Empty, Merged, Text
  <2>2. stale' \in BOOLEAN
    BY <1>3, Zenon DEF ConfigureHost, TypeOK
  <2>3. hostFile' \in [Host -> Merged]
    BY <1>3, <2>1 DEF ConfigureHost, TypeOK
  <2>4. served' \in [Host -> Merged] /\ todo' \in [Req -> SUBSET Host]
    BY <1>3, <2>3 DEF ConfigureHost, TypeOK
  <2> QED
    BY <1>3, <2>2, <2>3, <2>4 DEF ConfigureHost, TypeOK, db, mem
<1>4. CASE DeleteFile(r)
  <2>1. listFile' \in [List -> Text] /\ served' \in [Host -> Merged] /\ stale' \in BOOLEAN
    BY <1>4 DEF DeleteFile, TypeOK, Text
  <2>2. pc' \in [Req -> Steps]
        /\ answer' \in [Req -> {"none", "ok", "refused", "rejected", "failed"}]
    BY <1>4, AnswerType DEF DeleteFile
  <2> QED
    BY <1>4, <2>1, <2>2 DEF DeleteFile, TypeOK, db, mem
<1> QED
  BY <1>1, <1>2, <1>3, <1>4 DEF Delete

LEMMA FaultType ==
    ASSUME TypeOK, BookInv, NEW r \in Req, Fault(r)
    PROVE  TypeOK'
<1>0. faults' \in 0 .. MaxFaults
  <2>1. faults \in 0 .. MaxFaults /\ faults < MaxFaults /\ faults' = faults + 1
    BY DEF Fault, FaultBefore, FaultWithin, FaultRecovery, FaultConfigure, CanFail, TypeOK
  <2> QED
    BY <2>1, BoundsAssumption DEF BoundsAssumption
<1>1. CASE FaultBefore(r)
  <2>1. chain' \in Seq(Req) /\ trx' \in Req \cup {None}
    <3>1. CASE pc[r] \in {"read", "remove"}
      BY <1>1, <3>1 DEF FaultBefore, TypeOK
    <3>2. CASE pc[r] \notin {"read", "remove"}
      <4>1. \E a \in {"rejected"} : Settle(r, a)
        BY <1>1, <3>2 DEF FaultBefore
      <4>2. chain # <<>>
        BY <1>1, <3>2 DEF FaultBefore, MyTurn, BookInv, Busy, InTrx
      <4>3. trx' \in Req \cup {None}
        BY <1>1 DEF FaultBefore, TypeOK
      <4> QED
        BY <4>1, <4>2, <4>3, SettleType
    <3> QED
      BY <3>1, <3>2
  <2>2. Answer(r, "rejected")
    BY <1>1 DEF FaultBefore, Settle
  <2>3. pc' \in [Req -> Steps]
        /\ answer' \in [Req -> {"none", "ok", "refused", "rejected", "failed"}]
    BY <2>2, AnswerType
  <2> QED
    BY <1>0, <1>1, <2>1, <2>3 DEF FaultBefore, TypeOK, db, files, mem
<1>2. CASE FaultWithin(r)
  <2>1. Empty \in Merged
    BY DEF Empty, Merged, Text
  <2>2. listFile' \in [List -> Text]
    BY <1>2 DEF FaultWithin, TypeOK, Text
  <2>3. hostFile' \in [Host -> Merged] /\ served' \in [Host -> Merged]
    BY <1>2, <2>1 DEF FaultWithin, TypeOK
  <2>4. pc' \in [Req -> Steps] /\ trx' \in Req \cup {None}
    BY <1>2, MoveType DEF FaultWithin, Rollback, Steps
  <2> QED
    BY <1>0, <1>2, <2>2, <2>3, <2>4 DEF FaultWithin, TypeOK, db, mem
<1>3. CASE FaultRecovery(r)
  <2>1. hostFile' \in [Host -> Merged]
    BY <1>3 DEF FaultRecovery, TypeOK
  <2>2. chain # <<>> /\ Settle(r, "failed")
    BY <1>3 DEF FaultRecovery, BookInv, Busy, Recovery
  <2>3. chain' \in Seq(Req) /\ pc' \in [Req -> Steps]
        /\ answer' \in [Req -> {"none", "ok", "refused", "rejected", "failed"}]
    BY <2>2, SettleType, AnswerType DEF Settle
  <2> QED
    BY <1>0, <1>3, <2>1, <2>3 DEF FaultRecovery, TypeOK, db, mem
<1>4. CASE FaultConfigure(r)
  <2>1. pc' \in [Req -> Steps]
        /\ answer' \in [Req -> {"none", "ok", "refused", "rejected", "failed"}]
    BY <1>4, AnswerType DEF FaultConfigure
  <2> QED
    BY <1>0, <1>4, <2>1 DEF FaultConfigure, TypeOK, db, files, mem
<1> QED
  BY <1>1, <1>2, <1>3, <1>4 DEF Fault

LEMMA SaveType ==
    ASSUME TypeOK, NEW h \in Host, SaveHost(h)
    PROVE  TypeOK'
<1>1. PICK ls \in SUBSET {l \in List : policy[l] # None} :
          /\ attached' = [attached EXCEPT ![h] = ls]
          /\ hostFile' = [hostFile EXCEPT ![h] = Merge(ls, policy)]
  BY DEF SaveHost
<1>2. attached' \in [Host -> SUBSET List]
  BY <1>1 DEF TypeOK
<1>3. hostFile' \in [Host -> Merged] /\ served' \in [Host -> Merged]
  BY <1>1, MergeType DEF SaveHost, TypeOK
<1>4. saves' \in 0 .. MaxSaves
  <2>1. saves \in 0 .. MaxSaves /\ saves < MaxSaves /\ saves' = saves + 1
    BY DEF SaveHost, TypeOK
  <2> QED
    BY <2>1, BoundsAssumption DEF BoundsAssumption
<1> QED
  BY <1>2, <1>3, <1>4 DEF SaveHost, TypeOK, mem

LEMMA TypeStep == ASSUME TypeOK, BookInv, [Next]_vars PROVE TypeOK'
<1>1. CASE UNCHANGED vars
  BY <1>1 DEF vars, TypeOK
<1>2. CASE Next
  BY <1>2, ArriveType, UpdateType, DeleteType, FaultType, SaveType DEF Next
<1> QED
  BY <1>1, <1>2

-----------------------------------------------------------------------------
(* The bookkeeping: the chain, the connection and the tasks.                *)

\* One update at a time is past its validation, and one request has the connection.
LEMMA Alone ==
    ASSUME BookInv, NEW r \in Req
    PROVE  /\ Busy(r) \/ (chain # <<>> /\ Head(chain) = r) => \A q \in Req \ {r} : ~Busy(q)
           /\ ConnFree => \A q \in Req : pc[q] \notin InTrx
           /\ pc[r] \in InTrx => trx = r /\ \A q \in Req \ {r} : pc[q] \notin InTrx
BY RequestAssumption DEF BookInv, ConnFree, RequestAssumption

\* What a request's own step has to establish.
LEMMA BookKept ==
    ASSUME TypeOK, BookInv, NEW r \in Req,
           \A q \in Req \ {r} : pc'[q] = pc[q],
           task' = task,
           pc[r] \in UpdateSteps => pc'[r] \in UpdateSteps \cup {"done"},
           pc[r] \in DeleteSteps => pc'[r] \in DeleteSteps \cup {"done"},
           pc[r] \in UpdateSteps \cup DeleteSteps,
           Busy(r)' => chain # <<>> /\ Head(chain) = r,
           chain' = chain \/ (chain # <<>> /\ Head(chain) = r /\ ~Busy(r)'),
           \/ trx' = trx /\ (pc'[r] \in InTrx <=> pc[r] \in InTrx)
           \/ trx' = r /\ ConnFree /\ pc'[r] \in InTrx
           \/ trx' = None /\ trx = r /\ pc'[r] \notin InTrx
    PROVE  BookInv'
<1>1. ASSUME NEW q \in Req, Busy(q)' PROVE chain' # <<>> /\ Head(chain') = q
  <2>1. CASE q = r
    BY <1>1, <2>1
  <2>2. CASE q # r
    <3>1. Busy(q)
      BY <1>1, <2>2 DEF Busy
    <3>2. ~(chain # <<>> /\ Head(chain) = r)
      BY <3>1, <2>2 DEF BookInv
    <3> QED
      BY <3>1, <3>2 DEF BookInv
  <2> QED
    BY <2>1, <2>2
<1>2. ASSUME NEW q \in Req PROVE trx' = q <=> pc'[q] \in InTrx
  BY RequestAssumption DEF BookInv, ConnFree, RequestAssumption
<1>3. ASSUME NEW q \in Req, pc'[q] \in UpdateSteps
      PROVE  task'[q].op = "update" /\ task'[q].list \in List /\ task'[q].rules \in Rules
  <2>1. pc[q] \in UpdateSteps
    BY <1>3 DEF UpdateSteps, DeleteSteps, InTrx, Recovery
  <2> QED
    BY <2>1 DEF BookInv
<1>4. ASSUME NEW q \in Req, pc'[q] \in DeleteSteps
      PROVE  task'[q].op = "delete" /\ task'[q].list \in List
  <2>1. pc[q] \in DeleteSteps
    BY <1>4 DEF UpdateSteps, DeleteSteps, InTrx, Recovery
  <2> QED
    BY <2>1 DEF BookInv
<1> QED
  BY <1>1, <1>2, <1>3, <1>4 DEF BookInv

LEMMA UpdateBook ==
    ASSUME TypeOK, BookInv, NEW r \in Req, Update(r)
    PROVE  BookInv'
<1> USE DEF UpdateSteps, DeleteSteps, InTrx, Recovery, Busy
<1>1. CASE Validate(r)
  BY <1>1, BookKept DEF Validate, MyTurn, Settle, Answer, GoTo, TypeOK, mem
<1>2. CASE Begin(r)
  <2>1. chain # <<>> /\ Head(chain) = r /\ task' = task
    BY <1>2 DEF Begin, BookInv
  <2>2. CASE policy[task[r].list] = None
    BY <1>2, <2>1, <2>2, BookKept DEF Begin, Settle, Answer, GoTo, TypeOK
  <2>3. CASE policy[task[r].list] # None
    BY <1>2, <2>1, <2>3, BookKept DEF Begin, GoTo, TypeOK
  <2> QED
    BY <2>2, <2>3
<1>3. CASE Snapshot(r)
  BY <1>3, BookKept DEF Snapshot, GoTo, TypeOK, BookInv
<1>4. CASE WriteList(r)
  BY <1>4, BookKept DEF WriteList, GoTo, TypeOK, BookInv, mem
<1>5. CASE WriteHost(r)
  BY <1>5, BookKept DEF WriteHost, TypeOK, BookInv, mem
<1>6. CASE Test(r)
  <2>1. chain # <<>> /\ Head(chain) = r /\ trx = r /\ task' = task
    BY <1>6 DEF Test, BookInv, mem
  <2>2. \/ pc'[r] = "reload" /\ trx' = trx
        \/ pc'[r] = "restore" /\ trx' = None
    BY <1>6 DEF Test, Rollback, GoTo, TypeOK
  <2>3. pc[r] = "hosts" /\ chain' = chain /\ \A q \in Req \ {r} : pc'[q] = pc[q]
    BY <1>6 DEF Test, Rollback, GoTo, TypeOK
  <2> QED
    BY <2>1, <2>2, <2>3, BookKept
<1>7. CASE Reload(r)
  <2>1. chain # <<>> /\ Head(chain) = r /\ trx = r /\ task' = task
    BY <1>7 DEF Reload, BookInv, mem
  <2>2. \/ pc'[r] = "commit" /\ trx' = trx
        \/ pc'[r] = "restore" /\ trx' = None
    BY <1>7 DEF Reload, Rollback, GoTo, TypeOK
  <2>3. pc[r] = "reload" /\ chain' = chain /\ \A q \in Req \ {r} : pc'[q] = pc[q]
    BY <1>7 DEF Reload, Rollback, GoTo, TypeOK
  <2> QED
    BY <2>1, <2>2, <2>3, BookKept
<1>8. CASE Commit(r)
  BY <1>8, BookKept DEF Commit, Settle, Answer, GoTo, TypeOK, BookInv, mem
<1>9. CASE Restore(r)
  BY <1>9, BookKept DEF Restore, GoTo, TypeOK, BookInv, mem
<1>10. CASE ReloadBack(r)
  <2>1. chain # <<>> /\ Head(chain) = r /\ task' = task /\ trx' = trx
    BY <1>10 DEF ReloadBack, BookInv, mem
  <2>2. pc[r] = "reload2" /\ pc'[r] = "done" /\ \A q \in Req \ {r} : pc'[q] = pc[q]
    BY <1>10 DEF ReloadBack, Settle, Answer, GoTo, TypeOK
  <2> QED
    BY <2>1, <2>2, BookKept
<1> QED
  BY <1>1, <1>2, <1>3, <1>4, <1>5, <1>6, <1>7, <1>8, <1>9, <1>10 DEF Update

LEMMA DeleteBook ==
    ASSUME TypeOK, BookInv, NEW r \in Req, Delete(r)
    PROVE  BookInv'
<1> USE DEF UpdateSteps, DeleteSteps, InTrx, Recovery, Busy
<1>1. CASE DeleteRead(r)
  BY <1>1, BookKept DEF DeleteRead, Answer, GoTo, TypeOK
<1>2. CASE DeleteRows(r)
  BY <1>2, BookKept DEF DeleteRows, GoTo, TypeOK, mem
<1>3. CASE ConfigureHost(r)
  BY <1>3, BookKept DEF ConfigureHost, mem
<1>4. CASE DeleteFile(r)
  BY <1>4, BookKept DEF DeleteFile, Answer, GoTo, TypeOK, mem
<1> QED
  BY <1>1, <1>2, <1>3, <1>4 DEF Delete

LEMMA FaultBook ==
    ASSUME TypeOK, BookInv, NEW r \in Req, Fault(r)
    PROVE  BookInv'
<1> USE DEF UpdateSteps, DeleteSteps, InTrx, Recovery, Busy
<1>1. CASE FaultBefore(r)
  <2>1. task' = task /\ pc'[r] = "done" /\ \A q \in Req \ {r} : pc'[q] = pc[q]
    BY <1>1 DEF FaultBefore, Settle, Answer, GoTo, TypeOK, mem
  <2>2. \/ pc[r] \in {"queued", "begin"} /\ chain # <<>> /\ Head(chain) = r /\ trx' = trx
        \/ pc[r] = "snapshot" /\ chain # <<>> /\ Head(chain) = r /\ trx = r /\ trx' = None
        \/ pc[r] \in {"read", "remove"} /\ chain' = chain /\ trx' = trx
    BY <1>1 DEF FaultBefore, MyTurn, BookInv
  <2> QED
    BY <2>1, <2>2, BookKept
<1>2. CASE FaultWithin(r)
  BY <1>2, BookKept DEF FaultWithin, Rollback, GoTo, TypeOK, BookInv, mem
<1>3. CASE FaultRecovery(r)
  BY <1>3, BookKept DEF FaultRecovery, Settle, Answer, GoTo, TypeOK, BookInv, mem
<1>4. CASE FaultConfigure(r)
  BY <1>4, BookKept DEF FaultConfigure, Answer, GoTo, TypeOK, mem
<1> QED
  BY <1>1, <1>2, <1>3, <1>4 DEF Fault

LEMMA ArriveBook ==
    ASSUME TypeOK, BookInv, NEW r \in Req, ArriveUpdate(r) \/ ArriveDelete(r)
    PROVE  BookInv'
<1>1. /\ pc'[r] \in {"queued", "read"} /\ pc[r] = "idle" /\ trx' = trx
      /\ \A q \in Req \ {r} : pc'[q] = pc[q] /\ task'[q] = task[q]
  BY DEF ArriveUpdate, ArriveDelete, GoTo, TypeOK
<1>2. chain' = chain \/ chain' = Append(chain, r)
  BY DEF ArriveUpdate, ArriveDelete
<1>3. ASSUME NEW q \in Req, Busy(q)' PROVE chain' # <<>> /\ Head(chain') = q
  <2>1. q # r /\ Busy(q)
    BY <1>1, <1>3 DEF Busy, InTrx, Recovery
  <2>2. chain # <<>> /\ Head(chain) = q /\ chain \in Seq(Req)
    BY <2>1 DEF BookInv, TypeOK
  <2> QED
    BY <1>2, <2>2, ChainFacts
<1>4. ASSUME NEW q \in Req PROVE trx' = q <=> pc'[q] \in InTrx
  BY <1>1 DEF BookInv, InTrx
<1>5. pc'[r] = "queued" =>
          task'[r].op = "update" /\ task'[r].list \in List /\ task'[r].rules \in Rules
  BY DEF ArriveUpdate, ArriveDelete, GoTo, TypeOK
<1>6. pc'[r] = "read" => task'[r].op = "delete" /\ task'[r].list \in List
  BY DEF ArriveUpdate, ArriveDelete, GoTo, TypeOK
<1> QED
  BY <1>1, <1>3, <1>4, <1>5, <1>6 DEF BookInv, UpdateSteps, DeleteSteps, InTrx, Recovery

LEMMA BookStep == ASSUME TypeOK, BookInv, [Next]_vars PROVE BookInv'
<1>1. CASE UNCHANGED vars
  BY <1>1 DEF vars, BookInv, Busy
<1>2. ASSUME NEW h \in Host, SaveHost(h) PROVE BookInv'
  BY <1>2 DEF SaveHost, BookInv, Busy, mem
<1> QED
  BY <1>1, <1>2, ArriveBook, UpdateBook, DeleteBook, FaultBook DEF Next

-----------------------------------------------------------------------------
(* The transaction: what it commits is what nginx has loaded.               *)

LEMMA TrxKept ==
    ASSUME NEW q \in Req, TrxInv(q), db' = db, hostFile' = hostFile, served' = served,
           task'[q] = task[q], graph'[q] = graph[q], todo'[q] = todo[q], pc'[q] = pc[q]
    PROVE  TrxInv(q)'
BY DEF TrxInv, Draft, UsersOf, Merge, db

\* Only the request that holds the connection has to be looked at.
LEMMA TrxOthers ==
    ASSUME CommitInv, NEW r \in Req,
           \A q \in Req \ {r} : /\ pc'[q] = pc[q] /\ task'[q] = task[q]
                                 /\ graph'[q] = graph[q] /\ todo'[q] = todo[q],
           \/ pc[r] \in InTrx
           \/ ConnFree
           \/ Busy(r)
           \/ db' = db /\ hostFile' = hostFile /\ served' = served
    PROVE  \A q \in Req \ {r} : pc'[q] \in InTrx => TrxInv(q)'
<1> SUFFICES ASSUME NEW q \in Req \ {r}, pc'[q] \in InTrx PROVE TrxInv(q)'
  OBVIOUS
<1>1. pc[q] \in InTrx /\ TrxInv(q) /\ Busy(q)
  BY DEF CommitInv, Busy
<1>2. db' = db /\ hostFile' = hostFile /\ served' = served
  BY <1>1, Alone DEF CommitInv
<1> QED
  BY <1>1, <1>2, TrxKept

LEMMA TrxStep == ASSUME CommitInv, [Next]_vars, NEW p \in Req, pc'[p] \in InTrx PROVE TrxInv(p)'
<1> USE DEF InTrx, Recovery
<1>0. TypeOK /\ BookInv /\ \A r \in Req : pc[r] \in InTrx => TrxInv(r)
  BY DEF CommitInv
<1>1. CASE UNCHANGED vars
  BY <1>0, <1>1, TrxKept DEF vars, db
<1>2. ASSUME NEW h \in Host, SaveHost(h) PROVE FALSE
  <2>1. \A q \in Req : pc[q] \notin InTrx
    BY <1>0, <1>2, Alone DEF SaveHost, SaveWindow
  <2> QED
    BY <1>2, <2>1 DEF SaveHost
<1>3. ASSUME NEW r \in Req, ArriveUpdate(r) \/ ArriveDelete(r) PROVE TrxInv(p)'
  <2>1. /\ pc'[r] \notin InTrx /\ UNCHANGED <<db, files>>
        /\ \A q \in Req \ {r} : /\ pc'[q] = pc[q] /\ task'[q] = task[q]
                                 /\ graph'[q] = graph[q] /\ todo'[q] = todo[q]
    BY <1>0, <1>3 DEF ArriveUpdate, ArriveDelete, GoTo, TypeOK
  <2> QED
    BY <2>1, TrxOthers DEF files
<1>4. ASSUME NEW r \in Req, Update(r) PROVE TrxInv(p)'
  <2>1. /\ \A q \in Req \ {r} : /\ pc'[q] = pc[q] /\ task'[q] = task[q]
                                 /\ graph'[q] = graph[q] /\ todo'[q] = todo[q]
        /\ pc[r] \in InTrx \/ ConnFree \/ Busy(r)
    BY <1>0, <1>4 DEF Update, Validate, Begin, Snapshot, WriteList, WriteHost, Test, Reload, Commit,
       Restore, ReloadBack, Rollback, Settle, Answer, GoTo, TypeOK, mem, Busy
  <2>2. CASE p # r
    BY <2>1, <2>2, TrxOthers
  <2>3. CASE p = r
    <3>1. CASE Validate(p)
      BY <1>0, <3>1 DEF Validate, Settle, Answer, GoTo, TypeOK
    <3>2. CASE Begin(p)
      <4>1. policy[task[p].list] # None
        BY <1>0, <3>2 DEF Begin, Settle, Answer, GoTo, TypeOK
      <4>2. /\ graph'[p] = [h \in Host |-> Merge(attached[h], Draft(p))]
            /\ todo'[p] = UsersOf(task[p].list) /\ pc'[p] = "snapshot"
            /\ UNCHANGED <<policy, attached, task>>
        BY <1>0, <3>2, <4>1 DEF Begin, GoTo, TypeOK, Draft, db
      <4>3. Draft(p)' = Draft(p) /\ UsersOf(task[p].list)' = UsersOf(task[p].list)
        BY <4>2 DEF Draft, UsersOf
      <4> QED
        BY <4>2, <4>3 DEF TrxInv
    <3>3. CASE Snapshot(p) \/ WriteList(p)
      <4>1. /\ pc'[p] \in {"list", "hosts"} /\ todo'[p] = UsersOf(task[p].list)
            /\ pc'[p] = "hosts" => pc[p] = "list"
            /\ UNCHANGED <<policy, attached, task, graph, todo>>
        BY <1>0, <3>3 DEF Snapshot, WriteList, GoTo, TypeOK, TrxInv, db, mem
      <4>2. Draft(p)' = Draft(p) /\ UsersOf(task[p].list)' = UsersOf(task[p].list) /\ TrxInv(p)
        BY <1>0, <3>3, <4>1 DEF Draft, UsersOf, Snapshot, WriteList
      <4> QED
        BY <4>1, <4>2 DEF TrxInv, Merge
    <3>4. CASE WriteHost(p)
      <4>1. PICK h \in todo[p] : /\ hostFile' = [hostFile EXCEPT ![h] = graph[p][h]]
                                 /\ todo' = [todo EXCEPT ![p] = @ \ {h}]
        BY <3>4 DEF WriteHost
      <4>2. UNCHANGED <<policy, attached, pc, task, graph>> /\ pc[p] = "hosts" /\ TrxInv(p)
        BY <1>0, <3>4 DEF WriteHost, db, mem
      <4>3. Draft(p)' = Draft(p) /\ UsersOf(task[p].list)' = UsersOf(task[p].list)
        BY <4>2 DEF Draft, UsersOf
      <4>4. todo'[p] = todo[p] \ {h} /\ UsersOf(task[p].list) \in SUBSET Host
        BY <1>0, <4>1 DEF TypeOK, UsersOf
      <4>5. \A g \in UsersOf(task[p].list) \ todo'[p] : hostFile'[g] = graph[p][g]
        BY <1>0, <4>1, <4>2, <4>4 DEF TypeOK, TrxInv
      <4>6. todo'[p] \subseteq UsersOf(task[p].list)
        BY <4>2, <4>4 DEF TrxInv
      <4> QED
        BY <4>2, <4>3, <4>5, <4>6 DEF TrxInv, Merge
    <3>5. CASE Test(p) \/ Reload(p)
      <4>1. /\ UNCHANGED <<policy, attached, task, graph, todo, hostFile>> /\ todo[p] = {}
            /\ pc'[p] \in {"reload", "commit"} /\ pc[p] \in {"hosts", "reload"} /\ TrxInv(p)
            /\ pc'[p] = "commit" => served' = hostFile
        BY <1>0, <3>5 DEF Test, Reload, Rollback, GoTo, TypeOK, TrxInv, db, files, mem
      <4>2. Draft(p)' = Draft(p) /\ UsersOf(task[p].list)' = UsersOf(task[p].list)
        BY <4>1 DEF Draft, UsersOf
      <4> QED
        BY <4>1, <4>2 DEF TrxInv, Merge
    <3>6. CASE Commit(p) \/ Restore(p) \/ ReloadBack(p)
      BY <1>0, <3>6 DEF Commit, Restore, ReloadBack, Settle, Answer, GoTo, TypeOK
    <3> QED
      BY <1>4, <2>3, <3>1, <3>2, <3>3, <3>4, <3>5, <3>6 DEF Update
  <2> QED
    BY <2>2, <2>3
<1>5. ASSUME NEW r \in Req, Delete(r) PROVE TrxInv(p)'
  <2>1. /\ \A q \in Req \ {r} : /\ pc'[q] = pc[q] /\ task'[q] = task[q]
                                 /\ graph'[q] = graph[q] /\ todo'[q] = todo[q]
        /\ ConnFree /\ pc'[r] \notin InTrx
    BY <1>0, <1>5 DEF Delete, DeleteRead, DeleteRows, ConfigureHost, DeleteFile, Answer, GoTo,
       TypeOK, mem
  <2> QED
    BY <2>1, TrxOthers
<1>6. ASSUME NEW r \in Req, Fault(r) PROVE TrxInv(p)'
  <2>1. /\ \A q \in Req \ {r} : /\ pc'[q] = pc[q] /\ task'[q] = task[q]
                                 /\ graph'[q] = graph[q] /\ todo'[q] = todo[q]
        /\ pc'[r] \notin InTrx
    BY <1>0, <1>6 DEF Fault, FaultBefore, FaultWithin, FaultRecovery, FaultConfigure, Rollback,
       Settle, Answer, GoTo, TypeOK, mem
  <2>2. Busy(r) \/ (db' = db /\ hostFile' = hostFile /\ served' = served)
    BY <1>6 DEF Fault, FaultBefore, FaultWithin, FaultRecovery, FaultConfigure, files, Busy
  <2> QED
    BY <2>1, <2>2, TrxOthers
<1> QED
  BY <1>1, <1>2, <1>3, <1>4, <1>5, <1>6 DEF Next

LEMMA CommitStep == ASSUME CommitInv, [Next]_vars PROVE CommitInv'
BY TypeStep, BookStep, TrxStep DEF CommitInv

LEMMA InitCommit == Init => CommitInv
<1> SUFFICES ASSUME Init PROVE CommitInv
  OBVIOUS
<1>1. \A r \in Req : pc[r] = "idle"
  BY DEF Init
<1>2. trx = None
  BY DEF Init
<1> QED
  BY <1>1, <1>2, InitType, RequestAssumption
  DEF CommitInv, BookInv, Busy, InTrx, Recovery, UpdateSteps, DeleteSteps, RequestAssumption

\* In every reachable state the variables have their types: the chain, the
\* connection and the steps of every request are what access-list.js lets
\* them be, for any number of requests.
THEOREM ListsTypeCorrect == Spec => []TypeOK
<1>1. CommitInv => TypeOK
  BY DEF CommitInv
<1> QED
  BY <1>1, InitCommit, CommitStep, PTL DEF Spec

Committed ==
    \A l \in List : policy'[l] # policy[l] /\ policy'[l] # None =>
        \A h \in UsersOf(l) : served[h][l] = policy'[l]

LEMMA OnlyCommits ==
    ASSUME CommitInv, Next,
           NEW l \in List, policy'[l] # policy[l], policy'[l] # None
    PROVE  \E r \in Req : Commit(r) /\ task[r].list = l
<1>0. policy \in [List -> Text]
  BY DEF CommitInv, TypeOK
<1>1. \A h \in Host : ~SaveHost(h)
  BY DEF SaveHost
<1>2. \A r \in Req : ~ArriveUpdate(r) /\ ~ArriveDelete(r)
  BY DEF ArriveUpdate, ArriveDelete, db
<1>3. \A r \in Req : ~Delete(r)
  BY <1>0 DEF Delete, DeleteRead, DeleteRows, ConfigureHost, DeleteFile, db
<1>4. \A r \in Req : ~Fault(r)
  BY DEF Fault, FaultBefore, FaultWithin, FaultRecovery, FaultConfigure, db
<1>5. PICK r \in Req : Update(r)
  BY <1>1, <1>2, <1>3, <1>4 DEF Next
<1>6. Commit(r)
  BY <1>5 DEF Update, Validate, Begin, Snapshot, WriteList, WriteHost, Test, Reload,
     Restore, ReloadBack, db
<1>7. task[r].list = l
  BY <1>0, <1>6 DEF Commit
<1> QED
  BY <1>6, <1>7

LEMMA CommitIsLoaded == ASSUME CommitInv, [Next]_vars PROVE [Committed]_vars
<1> SUFFICES ASSUME Next, NEW l \in List, policy'[l] # policy[l], policy'[l] # None,
                    NEW h \in UsersOf(l)
             PROVE  served[h][l] = policy'[l]
  BY DEF Committed
<1>1. PICK r \in Req : Commit(r) /\ task[r].list = l
  BY OnlyCommits
<1>2. TypeOK /\ TrxInv(r) /\ pc[r] = "commit"
  BY <1>1 DEF Commit, CommitInv, InTrx
<1>3. served = hostFile /\ todo[r] = {}
  BY <1>2 DEF TrxInv
<1>4. h \in Host /\ l \in attached[h]
  BY DEF UsersOf
<1>5. hostFile[h] = graph[r][h]
  BY <1>1, <1>2, <1>3, <1>4 DEF TrxInv
<1>6. graph[r][h] = Merge(attached[h], Draft(r))
  BY <1>2, <1>4 DEF TrxInv
<1>7. Merge(attached[h], Draft(r))[l] = task[r].rules
  BY <1>1, <1>2, <1>4 DEF Merge, Draft, TypeOK
<1>8. policy'[l] = task[r].rules
  BY <1>1, <1>2 DEF Commit, TypeOK
<1> QED
  BY <1>3, <1>5, <1>6, <1>7, <1>8

\* However updates, deletions, host saves and failures interleave, the rules of
\* a list are committed only when nginx has loaded them for each of its hosts
\* (access-list.js:198): no statement of another request runs, and no other
\* update writes, between the write of the files and the commit.
THEOREM CommitTheorem == Spec => CommitAfterReload
<1>1. CommitInv /\ [Next]_vars => [Committed]_vars
  BY CommitIsLoaded
<1>2. Spec => [][Committed]_vars
  BY <1>1, InitCommit, CommitStep, PTL DEF Spec
<1> QED
  BY <1>2 DEF CommitAfterReload, Committed

-----------------------------------------------------------------------------
(* Deletions that overlap no other request: the files follow the rows.      *)

\* A step other than an arrival starts no request and makes no update a deletion.
LEMMA NoNewWork ==
    ASSUME TypeOK, NEW q \in Req,
           \/ \E r \in Req : Update(r) \/ Delete(r) \/ Fault(r)
           \/ \E h \in Host : SaveHost(h)
           \/ UNCHANGED vars
    PROVE  /\ pc'[q] \in DeleteSteps => pc[q] \in DeleteSteps
           /\ InFlight(q)' => InFlight(q)
<1> USE DEF DeleteSteps, InFlight
<1>1. CASE UNCHANGED vars
  BY <1>1 DEF vars
<1>2. ASSUME NEW h \in Host, SaveHost(h) PROVE pc' = pc
  BY <1>2 DEF SaveHost
<1>3. ASSUME NEW r \in Req, Update(r)
      PROVE  pc[r] \notin DeleteSteps \cup {"idle", "done"} /\ pc'[r] \notin DeleteSteps
             /\ (q # r => pc'[q] = pc[q])
  BY <1>3 DEF Update, Validate, Begin, Snapshot, WriteList, WriteHost, Test, Reload, Commit,
     Restore, ReloadBack, Rollback, Settle, Answer, GoTo, TypeOK
<1>4. ASSUME NEW r \in Req, Delete(r) PROVE pc[r] \in DeleteSteps /\ (q # r => pc'[q] = pc[q])
  BY <1>4 DEF Delete, DeleteRead, DeleteRows, ConfigureHost, DeleteFile, Answer, GoTo, TypeOK
<1>5. ASSUME NEW r \in Req, Fault(r)
      PROVE  pc[r] \notin {"idle", "done"} /\ pc'[r] \in {"done", "restore"}
             /\ (q # r => pc'[q] = pc[q])
  BY <1>5 DEF Fault, FaultBefore, FaultWithin, FaultRecovery, FaultConfigure, Rollback,
     Settle, Answer, GoTo, TypeOK
<1> QED
  BY <1>1, <1>2, <1>3, <1>4, <1>5

LEMMA ApartStep ==
    ASSUME Apart, TypeOK, BookInv, ApartInv, [Next]_vars
    PROVE  ApartInv'
<1>1. ASSUME NEW r \in Req, ArriveUpdate(r) PROVE ApartInv'
  <2>1. \A q \in Req : pc[q] \notin DeleteSteps
    BY <1>1 DEF ArriveUpdate, Apart, BookInv, InFlight, DeleteSteps
  <2>2. \A q \in Req : pc'[q] \notin DeleteSteps
    BY <1>1, <2>1 DEF ArriveUpdate, GoTo, TypeOK, DeleteSteps
  <2> QED
    BY <2>2 DEF ApartInv
<1>2. ASSUME NEW r \in Req, ArriveDelete(r) PROVE ApartInv'
  <2>1. \A q \in Req \ {r} : ~InFlight(q)' /\ pc'[q] \notin DeleteSteps
    BY <1>2 DEF ArriveDelete, Apart, Quiet, GoTo, TypeOK, InFlight, DeleteSteps
  <2> QED
    BY <2>1 DEF ApartInv
<1>3. CASE \/ \E r \in Req : Update(r) \/ Delete(r) \/ Fault(r)
           \/ \E h \in Host : SaveHost(h)
           \/ UNCHANGED vars
  BY <1>3, NoNewWork DEF ApartInv
<1> QED
  BY <1>1, <1>2, <1>3 DEF Next

-----------------------------------------------------------------------------
LEMMA BaseFacts ==
    ASSUME TypeOK
    PROVE  /\ DOMAIN Base = Host
           /\ \A h \in Host : Base[h] = Merge(attached[h], policy) /\ Base[h] \in Merged
           /\ \A h \in Host, x \in List :
                  Base[h][x] = (IF x \in attached[h] THEN policy[x] ELSE None)
           /\ Base \in [Host -> Merged]
<1>1. \A h \in Host : Base[h] = Merge(attached[h], policy)
  BY DEF Base
<1>2. \A h \in Host : attached[h] \in SUBSET List /\ policy \in [List -> Text]
  BY DEF TypeOK
<1>3. \A h \in Host : Base[h] \in Merged
  BY <1>1, <1>2, MergeType
<1>4. Base \in [Host -> Merged]
  BY <1>1, <1>3 DEF Base
<1> QED
  BY <1>1, <1>3, <1>4 DEF Merge

\* Two families of files are the same when they agree on every host.
LEMMA SameFiles ==
    ASSUME NEW f \in [Host -> Merged], NEW g \in [Host -> Merged], \A h \in Host : f[h] = g[h]
    PROVE  f = g
OBVIOUS

LEMMA SameLists ==
    ASSUME NEW f \in [List -> Text], NEW g \in [List -> Text], \A x \in List : f[x] = g[x]
    PROVE  f = g
OBVIOUS

LEMMA NoneLoads == None \notin Bad
BY RulesAssumption DEF RulesAssumption

\* The request that works on the files is the only one.
LEMMA WorksAlone ==
    ASSUME BookInv, ApartInv, NEW r \in Req, Busy(r) \/ pc[r] \in DeleteSteps
    PROVE  \A q \in Req \ {r} : /\ ~Busy(q) /\ pc[q] \notin DeleteSteps /\ ~Working(q)
                                 /\ pc[q] \notin (InTrx \ {"snapshot"}) \cup Recovery
<1>1. \A q \in Req \ {r} : ~Busy(q)
  <2>1. CASE Busy(r)
    BY <2>1, Alone
  <2>2. CASE pc[r] \in DeleteSteps
    BY <2>2 DEF ApartInv, InFlight, Busy, InTrx, Recovery
  <2> QED
    BY <2>1, <2>2
<1>2. \A q \in Req \ {r} : pc[q] \notin DeleteSteps
  BY DEF ApartInv, InFlight, Busy, InTrx, Recovery, DeleteSteps
<1> QED
  BY <1>1, <1>2 DEF Busy, DeleteSteps, Working, InTrx, Recovery

\* What the step of such a request has to establish.
LEMMA FileGoal ==
    ASSUME BookInv, ApartInv, NEW r \in Req, Busy(r) \/ pc[r] \in DeleteSteps,
           \A q \in Req \ {r} : pc'[q] = pc[q],
           Loadable(Base)',
           Working(r)' \/ Settled',
           pc'[r] \in (InTrx \ {"snapshot"}) \cup Recovery => UpdateInv(r)',
           pc'[r] = "remove" => RemoveInv(r)',
           pc'[r] = "configure" => ConfigureInv(r)'
    PROVE  FileInv'
<1>1. ASSUME NEW q \in Req, q # r
      PROVE  pc'[q] \notin (InTrx \ {"snapshot"}) \cup Recovery \cup {"remove", "configure"}
  BY <1>1, WorksAlone DEF DeleteSteps
<1>2. (\A q \in Req : ~Working(q)') => Settled'
  OBVIOUS
<1> QED
  BY <1>1, <1>2 DEF FileInv

\* A step that touches no row and no file.
LEMMA FilesQuiet ==
    ASSUME FileInv, NEW r \in Req, db' = db, files' = files,
           \A q \in Req \ {r} : /\ pc'[q] = pc[q] /\ task'[q] = task[q] /\ snap'[q] = snap[q]
                                 /\ graph'[q] = graph[q] /\ todo'[q] = todo[q],
           ~Working(r), ~Working(r)', pc'[r] # "remove"
    PROVE  FileInv'
<1>1. Base' = Base /\ Settled' = Settled /\ ConfigOK' = ConfigOK
      /\ \A l \in List : UsersOf(l)' = UsersOf(l)
  BY DEF db, files, Base, Settled, ConfigOK, Loadable, UsersOf, Merge
<1>2. Loadable(Base)'
  BY <1>1 DEF FileInv, Loadable
<1>3. (\A q \in Req : ~Working(q)') => Settled'
  <2>1. ASSUME NEW q \in Req, ~Working(q)' PROVE ~Working(q)
    BY <2>1 DEF Working
  <2> QED
    BY <1>1, <2>1 DEF FileInv
<1>4. ASSUME NEW q \in Req, pc'[q] \in (InTrx \ {"snapshot"}) \cup Recovery
      PROVE  UpdateInv(q)'
  <2>1. q # r /\ UpdateInv(q)
    BY <1>4 DEF FileInv, Working
  <2> QED
    BY <1>1, <2>1 DEF UpdateInv, KnownTo, UsersOf, db, files
<1>5. ASSUME NEW q \in Req, pc'[q] = "remove" PROVE RemoveInv(q)'
  <2>1. q # r /\ RemoveInv(q)
    BY <1>5 DEF FileInv
  <2> QED
    BY <2>1 DEF RemoveInv, UsersOf, Merge, db
<1>6. ASSUME NEW q \in Req, pc'[q] = "configure" PROVE ConfigureInv(q)'
  <2>1. q # r /\ ConfigureInv(q)
    BY <1>6 DEF FileInv, Working
  <2> QED
    BY <1>1, <2>1 DEF ConfigureInv, db, files
<1> QED
  BY <1>2, <1>3, <1>4, <1>5, <1>6 DEF FileInv

LEMMA UpdateFiles ==
    ASSUME CommitInv, ApartInv, FileInv, TypeOK', NEW r \in Req, Update(r), ~stale'
    PROVE  FileInv'
<1> DEFINE l == task[r].list
           others == \A q \in Req \ {r} : pc'[q] = pc[q]
<1>0. TypeOK /\ BookInv /\ Loadable(Base)
  BY DEF CommitInv, FileInv
<1>1. ASSUME Busy(r)
      PROVE  l \in List /\ task[r].rules \in Rules /\ task[r].rules \in Text
  BY <1>0, <1>1 DEF BookInv, Busy, UpdateSteps, Text
<1>2. ASSUME pc[r] \in InTrx PROVE TrxInv(r)
  BY <1>2 DEF CommitInv
<1>3. ASSUME pc[r] \in (InTrx \ {"snapshot"}) \cup Recovery PROVE UpdateInv(r)
  BY <1>3 DEF FileInv
<1>4. ASSUME db' = db PROVE Base' = Base /\ Loadable(Base)'
  BY <1>0, <1>4 DEF db, Base, Loadable, Merge
<1>5. CASE Validate(r) \/ Begin(r)
  <2>1. /\ db' = db /\ files' = files /\ ~Working(r) /\ ~Working(r)' /\ pc'[r] # "remove"
        /\ \A q \in Req \ {r} : /\ pc'[q] = pc[q] /\ task'[q] = task[q] /\ snap'[q] = snap[q]
                                 /\ graph'[q] = graph[q] /\ todo'[q] = todo[q]
    BY <1>0, <1>5 DEF Validate, Begin, Settle, Answer, GoTo, TypeOK, mem, Working, InTrx, Recovery
  <2> QED
    BY <2>1, FilesQuiet
<1>6. CASE Snapshot(r)
  <2>1. /\ pc[r] = "snapshot" /\ pc'[r] = "list" /\ others /\ Busy(r)
        /\ UNCHANGED <<policy, attached, listFile, hostFile, served, task, todo>>
        /\ snap'[r] = [list |-> listFile[l], hosts |-> hostFile, of |-> todo[r]]
    BY <1>0, <1>6 DEF Snapshot, GoTo, TypeOK, Busy, InTrx, db, files
  <2>2. Settled
    <3>1. ~Working(r)
      BY <2>1 DEF Working, InTrx, Recovery
    <3> QED
      BY <1>0, <2>1, <3>1, WorksAlone DEF FileInv
  <2>3. todo[r] = UsersOf(l)
    BY <1>2, <2>1 DEF TrxInv, InTrx
  <2>4. UpdateInv(r)'
    <3>1. KnownTo(r, hostFile)' /\ KnownTo(r, served)'
      BY <1>0, <1>1, <2>1, <2>2, BaseFacts DEF KnownTo, Settled
    <3>2. Base' = Base /\ UsersOf(l)' = UsersOf(l) /\ Settled'
      BY <2>1, <2>2 DEF Base, UsersOf, Settled, Merge
    <3> QED
      BY <1>1, <2>1, <2>2, <2>3, <3>1, <3>2 DEF UpdateInv, Settled
  <2> QED
    BY <1>0, <1>4, <2>1, <2>4, FileGoal DEF Working, InTrx, db
<1>7. CASE WriteList(r)
  <2>1. /\ pc[r] = "list" /\ pc'[r] = "hosts" /\ others /\ Busy(r)
        /\ UNCHANGED <<policy, attached, hostFile, served, task, todo, snap>>
        /\ listFile' = [listFile EXCEPT ![l] = task[r].rules]
    BY <1>0, <1>7 DEF WriteList, GoTo, TypeOK, Busy, InTrx, db, mem
  <2>2. UpdateInv(r)
    BY <1>3, <2>1 DEF InTrx
  <2>3. Base' = Base /\ UsersOf(l)' = UsersOf(l)
    BY <2>1 DEF Base, UsersOf, Merge
  <2>4. listFile'[l] = task[r].rules /\ \A x \in List \ {l} : listFile'[x] = listFile[x]
    BY <1>0, <1>1, <2>1 DEF TypeOK
  <2>5. UpdateInv(r)'
    BY <2>1, <2>2, <2>3, <2>4 DEF UpdateInv, KnownTo, InTrx
  <2> QED
    BY <1>0, <1>4, <2>1, <2>5, FileGoal DEF Working, InTrx, db
<1>8. CASE WriteHost(r)
  <2>1. PICK g \in todo[r] : hostFile' = [hostFile EXCEPT ![g] = graph[r][g]]
    BY <1>8 DEF WriteHost
  <2>2. /\ pc[r] = "hosts" /\ pc' = pc /\ Busy(r)
        /\ UNCHANGED <<policy, attached, listFile, served, task, snap>>
    BY <1>8 DEF WriteHost, Busy, InTrx, db, mem
  <2>3. UpdateInv(r) /\ TrxInv(r)
    BY <1>2, <1>3, <2>2 DEF InTrx
  <2>4. Base' = Base /\ UsersOf(l)' = UsersOf(l)
    BY <2>2 DEF Base, UsersOf, Merge
  <2>5. g \in snap[r].of /\ g \in Host
    BY <2>1, <2>2, <2>3 DEF UpdateInv, TrxInv, InTrx, UsersOf
  <2>6. hostFile'[g] = graph[r][g] /\ \A h \in Host \ {g} : hostFile'[h] = hostFile[h]
    BY <1>0, <2>1, <2>5 DEF TypeOK
  <2>7. \A x \in List : graph[r][g][x] \in {None, policy[x]} \cup {y \in {task[r].rules} : x = l}
    <3>1. graph[r][g] = Merge(attached[g], Draft(r))
      BY <2>3, <2>5 DEF TrxInv
    <3> QED
      BY <1>0, <1>1, <2>2, <3>1 DEF Merge, Draft, TypeOK
  <2>8. KnownTo(r, hostFile)'
    BY <2>2, <2>3, <2>6, <2>7 DEF UpdateInv, KnownTo
  <2>9. UpdateInv(r)'
    BY <2>2, <2>3, <2>4, <2>5, <2>6, <2>8 DEF UpdateInv, KnownTo, InTrx
  <2> QED
    BY <1>0, <1>4, <2>2, <2>9, FileGoal DEF Working, InTrx, db
<1>9. CASE Test(r)
  <2>1. /\ pc[r] = "hosts" /\ pc'[r] \in {"reload", "restore"} /\ others /\ Busy(r)
        /\ UNCHANGED <<policy, attached, listFile, hostFile, served, task, snap>>
    BY <1>0, <1>9 DEF Test, Rollback, GoTo, TypeOK, Busy, InTrx, db, files, mem
  <2>2. UpdateInv(r)
    BY <1>3, <2>1 DEF InTrx
  <2>3. Base' = Base /\ UsersOf(l)' = UsersOf(l)
    BY <2>1 DEF Base, UsersOf, Merge
  <2>4. UpdateInv(r)'
    BY <2>1, <2>2, <2>3 DEF UpdateInv, KnownTo, InTrx
  <2> QED
    BY <1>0, <1>4, <2>1, <2>4, FileGoal DEF Working, InTrx, Recovery, db
<1>10. CASE Reload(r)
  <2>1. /\ pc[r] = "reload" /\ pc'[r] \in {"commit", "restore"} /\ others /\ Busy(r)
        /\ UNCHANGED <<policy, attached, listFile, hostFile, task, snap>>
        /\ pc'[r] = "commit" => ConfigOK /\ served' = hostFile
        /\ pc'[r] = "restore" => served' = served
    BY <1>0, <1>10 DEF Reload, Rollback, GoTo, TypeOK, Busy, InTrx, db, mem
  <2>2. UpdateInv(r)
    BY <1>3, <2>1 DEF InTrx
  <2>3. Base' = Base /\ UsersOf(l)' = UsersOf(l) /\ ConfigOK' = ConfigOK
    BY <2>1 DEF Base, UsersOf, Merge, ConfigOK, Loadable
  <2>4. KnownTo(r, served)'
    BY <2>1, <2>2 DEF UpdateInv, KnownTo
  <2>5. UpdateInv(r)'
    BY <2>1, <2>2, <2>3, <2>4 DEF UpdateInv, KnownTo, InTrx
  <2> QED
    BY <1>0, <1>4, <2>1, <2>5, FileGoal DEF Working, InTrx, Recovery, db
<1>11. CASE Commit(r)
  <2>1. /\ pc[r] = "commit" /\ pc'[r] = "done" /\ others /\ Busy(r)
        /\ UNCHANGED <<attached, listFile, hostFile, served>> /\ policy' = Draft(r)
    BY <1>0, <1>11 DEF Commit, Settle, Answer, GoTo, TypeOK, Busy, InTrx, Draft, files
  <2>2. UpdateInv(r) /\ TrxInv(r)
    BY <1>2, <1>3, <2>1 DEF InTrx
  <2>3. policy'[l] = task[r].rules /\ \A x \in List \ {l} : policy'[x] = policy[x]
    BY <1>0, <1>1, <2>1 DEF Draft, TypeOK
  <2>4. \A h \in Host : hostFile[h] = Base'[h]
    <3> SUFFICES ASSUME NEW h \in Host PROVE hostFile[h] = Base'[h]
      OBVIOUS
    <3>1. Base'[h] = Merge(attached[h], Draft(r))
      BY <2>1 DEF Base
    <3>2. CASE h \in UsersOf(l)
      BY <2>1, <2>2, <3>1, <3>2 DEF TrxInv, InTrx
    <3>3. CASE h \notin UsersOf(l)
      <4>1. hostFile[h] = Base[h] /\ Base[h] = Merge(attached[h], policy)
        BY <2>1, <2>2, <3>3, <1>0, BaseFacts DEF UpdateInv, InTrx
      <4>2. Merge(attached[h], policy) = Merge(attached[h], Draft(r))
        BY <2>1, <2>3, <3>3 DEF UsersOf, Merge
      <4> QED
        BY <3>1, <4>1, <4>2
    <3> QED
      BY <3>2, <3>3
  <2>5. hostFile = Base'
    <3>1. \A h \in Host : hostFile[h] \in Merged
      BY <1>0 DEF TypeOK
    <3>2. Base' \in [Host -> Merged]
      BY <2>4, <3>1 DEF Base
    <3> QED
      BY <1>0, <2>4, <3>2, SameFiles DEF TypeOK
  <2>6. listFile = policy'
    <3>1. listFile \in [List -> Text] /\ policy' \in [List -> Text]
      BY <1>0 DEF TypeOK
    <3>2. \A x \in List : listFile[x] = policy'[x]
      BY <2>1, <2>2, <2>3 DEF UpdateInv, InTrx
    <3> QED
      BY <3>1, <3>2, SameLists
  <2>7. served = hostFile /\ ConfigOK
    BY <2>1, <2>2 DEF TrxInv, UpdateInv, InTrx
  <2>8. Settled' /\ Loadable(Base)'
    BY <2>1, <2>5, <2>6, <2>7 DEF Settled, ConfigOK, Loadable
  <2> QED
    BY <1>0, <2>1, <2>8, FileGoal DEF InTrx, Recovery
<1>12. CASE Restore(r)
  <2>1. /\ pc[r] = "restore" /\ pc'[r] = "reload2" /\ others /\ Busy(r)
        /\ UNCHANGED <<policy, attached, served, task, snap>>
        /\ listFile' = [listFile EXCEPT ![l] = snap[r].list]
        /\ hostFile' = [h \in Host |-> IF h \in snap[r].of THEN snap[r].hosts[h] ELSE hostFile[h]]
    BY <1>0, <1>12 DEF Restore, GoTo, TypeOK, Busy, Recovery, db, mem
  <2>2. UpdateInv(r)
    BY <1>3, <2>1 DEF Recovery
  <2>3. Base' = Base
    BY <2>1 DEF Base, Merge
  <2>4. hostFile' = Base
    <3>1. \A h \in Host : hostFile'[h] = Base[h]
      BY <2>1, <2>2 DEF UpdateInv
    <3>2. hostFile' \in [Host -> Merged] /\ Base \in [Host -> Merged]
      BY <1>0, BaseFacts DEF TypeOK
    <3> QED
      BY <3>1, <3>2, SameFiles
  <2>5. listFile'[l] = policy[l] /\ \A x \in List \ {l} : listFile'[x] = policy[x]
    BY <1>0, <1>1, <2>1, <2>2 DEF UpdateInv, TypeOK
  <2>6. KnownTo(r, hostFile)'
    BY <1>0, <2>1, <2>4, BaseFacts DEF KnownTo
  <2>7. KnownTo(r, served)'
    BY <2>1, <2>2 DEF KnownTo, UpdateInv
  <2>8. UpdateInv(r)'
    BY <2>1, <2>2, <2>3, <2>4, <2>5, <2>6, <2>7 DEF UpdateInv, InTrx
  <2> QED
    BY <1>0, <1>4, <2>1, <2>8, FileGoal DEF Working, InTrx, Recovery, db
<1>13. CASE ReloadBack(r)
  <2>1. UpdateInv(r) /\ pc[r] = "reload2"
    BY <1>3, <1>13 DEF Recovery, ReloadBack
  <2>2. hostFile = Base /\ ConfigOK
    BY <1>0, <2>1 DEF UpdateInv, ConfigOK
  <2>3. /\ pc'[r] = "done" /\ others /\ Busy(r)
        /\ UNCHANGED <<policy, attached, listFile, hostFile>> /\ served' = hostFile
    BY <1>0, <1>13, <2>2 DEF ReloadBack, Settle, Answer, GoTo, TypeOK, Busy, Recovery, db
  <2>4. listFile = policy
    <3>1. \A x \in List : listFile[x] = policy[x]
      BY <2>1 DEF UpdateInv
    <3> QED
      BY <1>0, <3>1, SameLists DEF TypeOK
  <2>5. Settled' /\ Loadable(Base)'
    BY <1>4, <2>2, <2>3, <2>4 DEF Settled, db
  <2> QED
    BY <1>0, <2>3, <2>5, FileGoal DEF InTrx, Recovery
<1> QED
  BY <1>5, <1>6, <1>7, <1>8, <1>9, <1>10, <1>11, <1>12, <1>13 DEF Update

LEMMA DeleteFiles ==
    ASSUME CommitInv, ApartInv, FileInv, NEW r \in Req, Delete(r), ~stale'
    PROVE  FileInv'
<1> DEFINE l == task[r].list
           others == \A q \in Req \ {r} : pc'[q] = pc[q]
<1> USE DEF DeleteSteps
<1>0. TypeOK /\ BookInv /\ Loadable(Base)
  BY DEF CommitInv, FileInv
<1>1. pc[r] \in DeleteSteps
  BY DEF Delete, DeleteRead, DeleteRows, ConfigureHost, DeleteFile
<1>2. l \in List
  BY <1>0, <1>1 DEF BookInv
<1>3. pc[r] # "configure" => Settled
  <2>1. pc[r] # "configure" => ~Working(r)
    BY <1>1 DEF Working, InTrx, Recovery
  <2> QED
    BY <1>0, <1>1, <2>1, WorksAlone DEF FileInv
<1>4. CASE DeleteRead(r)
  <2>1. /\ others /\ UNCHANGED <<db, files, task>> /\ pc[r] = "read" /\ pc'[r] \in {"remove", "done"}
        /\ pc'[r] = "remove" =>
               /\ graph'[r] = [h \in Host |-> Merge(attached[h] \ {l}, policy)]
               /\ todo'[r] = UsersOf(l)
    BY <1>0, <1>4 DEF DeleteRead, Answer, GoTo, TypeOK
  <2>2. Loadable(Base)' /\ Settled'
    BY <1>0, <1>3, <2>1 DEF Loadable, Base, Settled, Merge, db, files
  <2>3. pc'[r] = "remove" => RemoveInv(r)'
    BY <2>1 DEF RemoveInv, UsersOf, Merge, db
  <2> QED
    BY <1>0, <1>1, <2>1, <2>2, <2>3, FileGoal DEF InTrx, Recovery
<1>5. CASE DeleteRows(r)
  <2>1. /\ others /\ UNCHANGED <<listFile, hostFile, served, task, graph, todo>>
        /\ pc[r] = "remove" /\ pc'[r] = "configure"
        /\ policy' = [policy EXCEPT ![l] = None]
        /\ attached' = [h \in Host |-> attached[h] \ {l}]
    BY <1>0, <1>5 DEF DeleteRows, GoTo, TypeOK, files, mem
  <2>2. policy'[l] = None /\ \A x \in List \ {l} : policy'[x] = policy[x]
    BY <1>0, <1>2, <2>1 DEF TypeOK
  <2>3. RemoveInv(r) /\ Settled
    BY <1>3, <2>1 DEF FileInv
  <2>4. \A h \in Host : Merge(attached[h] \ {l}, policy) = Merge(attached'[h], policy')
    BY <2>1, <2>2 DEF Merge
  <2>5. graph[r] = Base'
    BY <2>3, <2>4 DEF RemoveInv, Base
  <2>6. \A h \in Host \ todo[r] : hostFile[h] = Base'[h]
    <3> SUFFICES ASSUME NEW h \in Host \ todo[r] PROVE hostFile[h] = Base'[h]
      OBVIOUS
    <3>1. l \notin attached[h]
      BY <2>3 DEF RemoveInv, UsersOf
    <3>2. Base'[h] = Merge(attached[h] \ {l}, policy) /\ attached[h] \ {l} = attached[h]
      BY <2>4, <3>1 DEF Base
    <3> QED
      BY <2>3, <3>2 DEF Settled, Base
  <2>7. Loadable(Base)'
    <3>1. \A h \in Host, x \in List : Base'[h][x] \in {None, Base[h][x]}
      BY <2>1, <2>2 DEF Base, Merge
    <3> QED
      BY <1>0, <3>1, NoneLoads DEF Loadable
  <2>8. ConfigOK' /\ \A h \in Host, x \in List \ {l} : hostFile[h][x] \in {None, policy[x]}
    BY <1>0, <2>1, <2>3, BaseFacts DEF Settled, ConfigOK, Loadable
  <2>9. ConfigureInv(r)'
    BY <2>1, <2>2, <2>3, <2>5, <2>6, <2>8 DEF ConfigureInv, Settled
  <2> QED
    BY <1>0, <1>1, <2>1, <2>7, <2>9, FileGoal DEF Working, InTrx, Recovery
<1>6. CASE ConfigureHost(r)
  <2>1. ConfigureInv(r) /\ pc[r] = "configure"
    BY <1>6 DEF ConfigureHost, FileInv
  <2>2. PICK g \in todo[r] :
            LET written == [hostFile EXCEPT ![g] = graph[r][g]] IN
            /\ hostFile' = IF Loadable(written) THEN written ELSE [hostFile EXCEPT ![g] = Empty]
            /\ served' = IF Loadable(hostFile') THEN hostFile' ELSE served
            /\ todo' = [todo EXCEPT ![r] = @ \ {g}]
    BY <1>6 DEF ConfigureHost
  <2>3. UNCHANGED <<policy, attached, listFile, pc, task, graph>>
    BY <1>6 DEF ConfigureHost, db, mem
  <2>4. g \in Host /\ graph[r][g] = Base[g]
    BY <1>0, <2>1, <2>2 DEF ConfigureInv, TypeOK
  <2>5. Loadable([hostFile EXCEPT ![g] = graph[r][g]])
    BY <1>0, <2>1, <2>4 DEF ConfigureInv, ConfigOK, Loadable, TypeOK
  <2>6. hostFile' = [hostFile EXCEPT ![g] = graph[r][g]] /\ Loadable(hostFile') /\ served' = hostFile'
    BY <2>2, <2>5
  <2>7. hostFile'[g] = Base[g] /\ \A h \in Host \ {g} : hostFile'[h] = hostFile[h]
    BY <1>0, <2>4, <2>6 DEF TypeOK
  <2>8. todo'[r] = todo[r] \ {g}
    BY <1>0, <2>2 DEF TypeOK
  <2>9. Base' = Base /\ Loadable(Base)'
    BY <1>0, <2>3 DEF Base, Merge, Loadable
  <2>10. \A h \in Host \ todo'[r] : hostFile'[h] = Base[h]
    BY <2>1, <2>7, <2>8 DEF ConfigureInv
  <2>11. \A h \in Host, x \in List \ {l} : hostFile'[h][x] \in {None, policy[x]}
    BY <1>0, <2>1, <2>7, BaseFacts DEF ConfigureInv
  <2>12. ConfigureInv(r)'
    BY <2>1, <2>3, <2>6, <2>9, <2>10, <2>11 DEF ConfigureInv, ConfigOK
  <2> QED
    BY <1>0, <1>1, <2>1, <2>3, <2>9, <2>12, FileGoal DEF Working, InTrx, Recovery
<1>7. CASE DeleteFile(r)
  <2>1. ConfigureInv(r) /\ pc[r] = "configure" /\ todo[r] = {}
    BY <1>7 DEF DeleteFile, FileInv
  <2>2. /\ others /\ UNCHANGED <<policy, attached, hostFile>> /\ pc'[r] = "done"
        /\ served' = hostFile /\ listFile' = [listFile EXCEPT ![l] = None]
    BY <1>0, <1>7, <2>1 DEF DeleteFile, Answer, GoTo, TypeOK, ConfigureInv, db
  <2>3. hostFile = Base
    <3>1. \A h \in Host : hostFile[h] = Base[h]
      BY <2>1 DEF ConfigureInv
    <3> QED
      BY <1>0, <3>1, BaseFacts, SameFiles DEF TypeOK
  <2>4. listFile' = policy
    <3>1. \A x \in List : listFile'[x] = policy[x]
      BY <1>0, <2>1, <2>2 DEF ConfigureInv, TypeOK
    <3>2. listFile' \in [List -> Text]
      BY <1>0, <2>2 DEF TypeOK, Text
    <3> QED
      BY <1>0, <3>1, <3>2, SameLists DEF TypeOK
  <2>5. Settled' /\ Loadable(Base)'
    BY <1>0, <2>2, <2>3, <2>4 DEF Settled, Base, Loadable, Merge
  <2> QED
    BY <1>0, <1>1, <2>2, <2>5, FileGoal DEF InTrx, Recovery
<1> QED
  BY <1>4, <1>5, <1>6, <1>7 DEF Delete

LEMMA FaultFiles ==
    ASSUME CommitInv, ApartInv, FileInv, NEW r \in Req, Fault(r), ~stale'
    PROVE  FileInv'
<1>0. TypeOK /\ BookInv /\ Loadable(Base)
  BY DEF CommitInv, FileInv
<1>1. CASE FaultBefore(r)
  <2>1. /\ db' = db /\ files' = files /\ ~Working(r) /\ ~Working(r)' /\ pc'[r] # "remove"
        /\ \A q \in Req \ {r} : /\ pc'[q] = pc[q] /\ task'[q] = task[q] /\ snap'[q] = snap[q]
                                 /\ graph'[q] = graph[q] /\ todo'[q] = todo[q]
    BY <1>0, <1>1 DEF FaultBefore, Settle, Answer, GoTo, TypeOK, mem, Working, InTrx, Recovery
  <2> QED
    BY <2>1, FilesQuiet
<1>2. CASE FaultWithin(r)
  <2>1. /\ pc[r] \in InTrx \ {"snapshot"} /\ pc'[r] = "restore" /\ Busy(r)
        /\ UNCHANGED <<policy, attached, task, snap, todo>>
        /\ \A q \in Req \ {r} : pc'[q] = pc[q]
    BY <1>0, <1>2 DEF FaultWithin, Rollback, GoTo, TypeOK, Busy, InTrx, db, mem
  <2>2. UpdateInv(r) /\ TrxInv(r)
    BY <2>1 DEF FileInv, CommitInv
  <2>3. task[r].list \in List
    BY <1>0, <2>1 DEF BookInv, UpdateSteps
  <2>4. \A x \in List \ {task[r].list} : listFile'[x] = listFile[x]
    BY <1>0, <1>2 DEF FaultWithin, TypeOK
  <2>5. /\ \A h \in Host : hostFile'[h] \in {hostFile[h], Empty}
        /\ \A h \in Host \ todo[r] : hostFile'[h] = hostFile[h]
    BY <1>0, <1>2 DEF FaultWithin, TypeOK
  <2>6. todo[r] \subseteq snap[r].of
    BY <2>1, <2>2 DEF UpdateInv, TrxInv
  <2>7. served' \in {served, hostFile}
    BY <1>2 DEF FaultWithin
  <2>8. KnownTo(r, hostFile)' /\ KnownTo(r, served)'
    BY <2>1, <2>2, <2>5, <2>7 DEF UpdateInv, KnownTo, Empty
  <2>9. Base' = Base /\ Loadable(Base)'
    BY <1>0, <2>1 DEF Base, Merge, Loadable
  <2>10. UpdateInv(r)'
    BY <2>1, <2>2, <2>4, <2>5, <2>6, <2>8, <2>9 DEF UpdateInv, InTrx
  <2> QED
    BY <1>0, <2>1, <2>9, <2>10, FileGoal DEF Working, InTrx, Recovery
<1>3. CASE FaultRecovery(r) \/ FaultConfigure(r)
  BY <1>3 DEF FaultRecovery, FaultConfigure
<1> QED
  BY <1>1, <1>2, <1>3 DEF Fault

LEMMA SaveFiles ==
    ASSUME CommitInv, FileInv, NEW h \in Host, SaveHost(h)
    PROVE  FileInv'
<1>0. TypeOK /\ BookInv
  BY DEF CommitInv
<1>1. \A r \in Req : pc[r] \notin InTrx \cup Recovery \cup {"remove", "configure"}
  BY <1>0, Alone DEF SaveHost, SaveWindow, Recovery
<1>2. Settled
  BY <1>1 DEF FileInv, Working
<1>3. PICK ls : /\ attached' = [attached EXCEPT ![h] = ls]
                /\ hostFile' = [hostFile EXCEPT ![h] = Merge(ls, policy)]
  BY DEF SaveHost
<1>4. pc' = pc /\ UNCHANGED <<policy, listFile>> /\ served' = hostFile' /\ Loadable(hostFile')
  BY DEF SaveHost
<1>5. Base' = hostFile'
  <2>1. \A g \in Host : Base'[g] = Merge(attached'[g], policy)
    BY <1>4 DEF Base
  <2>2. \A g \in Host : attached'[g] = IF g = h THEN ls ELSE attached[g]
    BY <1>0, <1>3 DEF TypeOK
  <2>3. hostFile = [g \in Host |-> Merge(attached[g], policy)]
    BY <1>2 DEF Settled, Base
  <2>4. hostFile' = [g \in Host |-> IF g = h THEN Merge(ls, policy) ELSE Merge(attached[g], policy)]
    BY <1>3, <2>3
  <2>5. Base' = [g \in Host |-> Merge(attached'[g], policy)]
    BY <1>4 DEF Base
  <2> QED
    BY <2>2, <2>4, <2>5
<1>6. Settled' /\ Loadable(Base)'
  BY <1>2, <1>4, <1>5 DEF Settled, Loadable
<1> QED
  BY <1>1, <1>4, <1>6 DEF FileInv

LEMMA FilesStep == ASSUME Apart, FilesInv, [Next]_vars PROVE FilesInv'
<1>1. CommitInv /\ ApartInv /\ TypeOK /\ BookInv
  BY DEF FilesInv, CommitInv
<1>2. CommitInv' /\ ApartInv' /\ TypeOK'
  BY <1>1, CommitStep, ApartStep, TypeStep
<1> SUFFICES ASSUME ~stale' PROVE FileInv'
  BY <1>2 DEF FilesInv
<1>3. ~stale
  BY DEF Next, SaveHost, ArriveUpdate, ArriveDelete, Update, Validate, Begin, Snapshot, WriteList,
     WriteHost, Test, Reload, Commit, Restore, ReloadBack, Delete, DeleteRead, DeleteRows,
     ConfigureHost, DeleteFile, Fault, FaultBefore, FaultWithin, FaultRecovery, FaultConfigure, vars
<1>4. FileInv
  BY <1>3 DEF FilesInv
<1>5. CASE UNCHANGED vars
  <2>1. /\ Base' = Base /\ Settled' = Settled /\ ConfigOK' = ConfigOK
        /\ \A l \in List : UsersOf(l)' = UsersOf(l)
        /\ \A q \in Req : Working(q)' = Working(q)
    BY <1>5 DEF vars, Base, Settled, ConfigOK, Loadable, UsersOf, Merge, Working
  <2>2. \A q \in Req : KnownTo(q, hostFile)' = KnownTo(q, hostFile)
                       /\ KnownTo(q, served)' = KnownTo(q, served)
    BY <1>5 DEF vars, KnownTo
  <2>3. \A q \in Req : /\ UpdateInv(q) => UpdateInv(q)'
                       /\ ConfigureInv(q) => ConfigureInv(q)'
    BY <1>5, <2>1, <2>2 DEF vars, UpdateInv, ConfigureInv, UsersOf
  <2>4. \A q \in Req : RemoveInv(q) => RemoveInv(q)'
    BY <1>5 DEF vars, RemoveInv, UsersOf, Merge
  <2>5. Loadable(Base)'
    BY <1>4, <1>5, <2>1 DEF FileInv, Loadable
  <2>6. (\A q \in Req : ~Working(q)') => Settled'
    BY <1>4, <2>1 DEF FileInv
  <2>7. pc' = pc
    BY <1>5 DEF vars
  <2> QED
    BY <1>4, <2>3, <2>4, <2>5, <2>6, <2>7 DEF FileInv
<1>6. ASSUME NEW r \in Req, ArriveUpdate(r) \/ ArriveDelete(r) PROVE FileInv'
  <2>1. /\ db' = db /\ files' = files /\ ~Working(r) /\ ~Working(r)' /\ pc'[r] # "remove"
        /\ \A q \in Req \ {r} : /\ pc'[q] = pc[q] /\ task'[q] = task[q] /\ snap'[q] = snap[q]
                                 /\ graph'[q] = graph[q] /\ todo'[q] = todo[q]
    BY <1>1, <1>6 DEF ArriveUpdate, ArriveDelete, GoTo, TypeOK, Working, InTrx, Recovery
  <2> QED
    BY <1>4, <2>1, FilesQuiet
<1> QED
  BY <1>1, <1>2, <1>4, <1>5, <1>6, UpdateFiles, DeleteFiles, FaultFiles, SaveFiles DEF Next

LEMMA InitFiles == Init => FilesInv
<1> SUFFICES ASSUME Init PROVE FilesInv
  OBVIOUS
<1>1. CommitInv
  BY InitCommit
<1>2. \A r \in Req : pc[r] = "idle"
  BY DEF Init
<1>3. Settled
  BY DEF Init, Settled, Base
<1>4. Loadable(Base)
  BY NoneLoads DEF Init, Loadable, Base, Merge
<1> QED
  BY <1>1, <1>2, <1>3, <1>4
  DEF FilesInv, ApartInv, FileInv, DeleteSteps, InTrx, Recovery, Working

LEMMA FilesInductive == ASSUME Apart PROVE Spec => []FilesInv
<1>1. FilesInv /\ [Next]_vars => FilesInv'
  BY FilesStep
<1> QED
  BY <1>1, InitFiles, PTL DEF Spec

LEMMA FilesInvFiles == FilesInv => FilesMatchRows
<1> SUFFICES ASSUME FilesInv, Quiet, ~stale
             PROVE  /\ \A h \in Host : hostFile[h] = Merge(attached[h], policy)
                    /\ listFile = policy /\ served = hostFile
  BY DEF FilesMatchRows, SharedFilesCurrent
<1>1. \A r \in Req : ~Working(r)
  BY DEF Quiet, InFlight, Working, InTrx, Recovery
<1>2. Settled
  BY <1>1 DEF FilesInv, FileInv
<1> QED
  BY <1>2 DEF Settled, Base

LEMMA FilesInvRules == FilesInv => NoUnknownRules
<1> SUFFICES ASSUME FilesInv, ~stale, NEW h \in Host, NEW l \in List
             PROVE  LET here == {q \in Req : InFlight(q) /\ task[q].list = l}
                    IN  \/ served[h][l] \in {None, policy[l]} \cup {task[q].rules : q \in here}
                        \/ \E q \in here : task[q].op = "delete"
  BY DEF NoUnknownRules
<1> DEFINE here == {q \in Req : InFlight(q) /\ task[q].list = l}
<1>0. FileInv /\ TypeOK /\ BookInv
  BY DEF FilesInv, CommitInv
<1>1. CASE \A r \in Req : ~Working(r)
  <2>1. served[h][l] \in {None, policy[l]}
    BY <1>0, <1>1, BaseFacts DEF FileInv, Settled
  <2> QED
    BY <2>1
<1>2. ASSUME NEW r \in Req, Working(r), pc[r] # "configure"
      PROVE  served[h][l] \in {None, policy[l]} \cup {task[q].rules : q \in here}
  <2>1. InFlight(r) /\ UpdateInv(r)
    BY <1>0, <1>2 DEF FileInv, Working, InFlight, InTrx, Recovery
  <2>2. served[h][l] \in {None, policy[l]} \cup {x \in {task[r].rules} : l = task[r].list}
    BY <2>1 DEF UpdateInv, KnownTo
  <2> QED
    BY <2>1, <2>2
<1>3. ASSUME NEW r \in Req, pc[r] = "configure"
      PROVE  \/ served[h][l] \in {None, policy[l]}
             \/ \E q \in here : task[q].op = "delete"
  <2>1. ConfigureInv(r) /\ InFlight(r) /\ task[r].op = "delete"
    BY <1>0, <1>3 DEF FileInv, BookInv, DeleteSteps, InFlight
  <2>2. CASE task[r].list = l
    BY <2>1, <2>2
  <2>3. CASE task[r].list # l
    BY <2>1, <2>3 DEF ConfigureInv
  <2> QED
    BY <2>2, <2>3
<1> QED
  BY <1>1, <1>2, <1>3

\* When deletions overlap no other request, the password files, the files of
\* the hosts and what nginx has loaded are those of the committed rows whenever
\* no request is in flight and no recovery has failed (access-list-recovery.js).
THEOREM FilesTheorem == ASSUME Apart PROVE Spec => []FilesMatchRows
BY FilesInductive, FilesInvFiles, PTL

\* When deletions overlap no other request, nginx has loaded no rules that are
\* neither committed nor of an update or of a list deletion under way.
THEOREM RulesTheorem == ASSUME Apart PROVE Spec => []NoUnknownRules
BY FilesInductive, FilesInvRules, PTL
=============================================================================
