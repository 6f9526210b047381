------------------------ MODULE Certificates_proofs ------------------------
(* Proofs about Certificates, for any requests, certificates, hosts, scenes  *)
(* and bounds.                                                               *)
EXTENDS Certificates, TLAPS

\* A request makes the certificate it is about.
Makes(r) == req[r].kind \in {"create", "hostnew"}

\* The steps of each kind of request.
Path(kind, pc) ==
    CASE kind = "create" ->
           pc \in {"todo", "request", "read", "patch", "drop", "audit", "done", "failed", "dropFailed"}
      [] kind = "hostnew" ->
           pc \in {"todo", "request", "read", "patch", "drop", "audit", "commit", "configure", "done",
                  "failed", "dropFailed"}
      [] kind = "renew" ->
           pc \in {"todo", "refused", "supersede", "renew", "read", "patch", "reload", "audit",
                  "auditFailed", "done", "failed"}
      [] kind = "upload" ->
           pc \in {"todo", "refused", "update", "audit", "writeChain", "writeKey", "reload", "done",
                  "failed"}
      [] kind = "attach" -> pc \in {"todo", "refused", "commit", "configure", "done"}
      [] kind = "delete" ->
           pc \in {"todo", "refused", "count", "mark", "audit", "remove", "rm", "done", "failed"}

\* A request stays on its path; a certificate is made once.
ShapeInv ==
    /\ \A r \in Requests : req[r].kind # "attach" => Cert(r) # NoCert
    /\ \A r, q \in Requests : Makes(r) /\ Makes(q) /\ r # q => Cert(r) # Cert(q)
    /\ \A r \in Requests : Path(req[r].kind, req[r].pc)

\* The row of the request is in the database, and may be dropped again.
BeingMade(r) == Makes(r) /\ req[r].pc \in {"request", "read", "patch", "drop", "audit"}

\* The host of the request will be saved with its certificate.
Unsaved(r) == At(r, "commit") \/ (req[r].kind = "hostnew" /\ req[r].pc \in {"request", "read", "patch", "audit"})

\* Nobody has heard of a certificate that is still to be made.
NewInv ==
    \A r \in Requests : Makes(r) /\ At(r, "todo") =>
        /\ ~Live(Cert(r))
        /\ \A h \in Hosts : hosts[h].cert # Cert(r)
        /\ \A q \in Requests \ {r} : Cert(q) = Cert(r) => req[q].pc \in {"todo", "refused"}

\* The files are removed after the row.
GoneInv ==
    \A r \in Requests : req[r].kind = "delete" /\ req[r].pc \in {"audit", "remove", "rm"} => ~Live(Cert(r))

\* A host that uses a certificate while it is made got it meanwhile.
MakeInv ==
    \A r \in Requests, h \in Hosts : BeingMade(r) /\ hosts[h].cert = Cert(r) => Cert(r) \in raced

\* A host of a table that has been counted got the certificate afterwards.
Seen(r, h) == \E i \in 1..req[r].checked : ModelOf[h] = Models[i]
Counting(r) ==
    /\ At(r, "todo") => req[r].checked = 0
    /\ At(r, "count") => req[r].checked < Len(Models)
    /\ At(r, "mark") => req[r].checked = Len(Models)
    /\ \A h \in Hosts : req[r].pc \in {"count", "mark"} /\ Seen(r, h) /\ hosts[h].cert = Cert(r) =>
          Cert(r) \in raced
CountInv == \A r \in Requests : req[r].kind = "delete" => Counting(r)

\* What a host will be saved with is live, or it was deleted meanwhile.
ReadyInv ==
    \A r \in Requests : Unsaved(r) => Cert(r) = NoCert \/ Live(Cert(r)) \/ Cert(r) \in raced

CertificateInv ==
    /\ NewInv /\ GoneInv /\ MakeInv /\ CountInv /\ ReadyInv
    /\ LiveHasFiles /\ InUseIsKept

-----------------------------------------------------------------------------
(* How a request moves.                                                     *)

\* Only r moves, and it stays the request it is.
Moved(r) ==
    /\ req' \in [Requests -> RequestType]
    /\ \A q \in Requests \ {r} : req'[q] = req[q]
    /\ req'[r].kind = req[r].kind /\ req'[r].cert = req[r].cert /\ req'[r].host = req[r].host

\* It goes on to a step.
LEMMA GotoMoves ==
    ASSUME TypeOK, NEW r \in Requests, NEW pc \in Pcs, Goto(r, pc)
    PROVE  Moved(r) /\ req'[r].pc = pc /\ req'[r].checked = req[r].checked
  <1> DEFINE x == [req[r] EXCEPT !.pc = pc]
  <1>1. req \in [Requests -> RequestType] /\ req[r] \in RequestType
    BY DEF TypeOK
  <1>2. /\ x \in RequestType /\ x.pc = pc /\ x.checked = req[r].checked
        /\ x.kind = req[r].kind /\ x.cert = req[r].cert /\ x.host = req[r].host
    BY <1>1 DEF RequestType
  <1>3. req' = [req EXCEPT ![r] = x]
    BY DEF Goto
  <1> HIDE DEF x
  <1> QED
    BY <1>1, <1>2, <1>3 DEF Moved

\* The kind and the certificate of a request.
LEMMA RequestFacts ==
    ASSUME TypeOK, NEW r \in Requests
    PROVE  /\ req[r].kind \in Kinds /\ req[r].pc \in Pcs /\ Cert(r) \in Certs \cup {NoCert}
           /\ req[r].host \in Hosts /\ req[r].checked \in 0..4 /\ req[r].version \in Nat
  BY DEF TypeOK, RequestType, Cert, Counted, Models

LEMMA GetMoves ==
    ASSUME TypeOK, NEW r \in Requests, Get(r)
    PROVE  /\ Moved(r) /\ req'[r].checked = req[r].checked /\ req[r].pc = "todo"
           /\ \/ req[r].kind \in {"delete", "renew", "upload", "attach"} /\ req'[r].pc = "refused"
              \/ /\ Cert(r) = NoCert \/ Live(Cert(r))
                 /\ \/ req[r].kind = "delete" /\ req'[r].pc = "count"
                    \/ req[r].kind = "renew" /\ req'[r].pc = "supersede"
                    \/ req[r].kind = "upload" /\ req'[r].pc = "update"
                    \/ req[r].kind = "attach" /\ req'[r].pc = "commit"
  <1> DEFINE pc == IF Cert(r) = NoCert \/ Live(Cert(r)) THEN AfterGet(req[r].kind) ELSE "refused"
  <1>1. req[r].pc = "todo" /\ req[r].kind \in {"delete", "renew", "upload", "attach"} /\ Goto(r, pc)
    BY DEF Get, At
  <1>2. AfterGet(req[r].kind) \in {"count", "supersede", "update", "commit"}
    BY <1>1 DEF AfterGet
  <1>3. pc \in Pcs
    BY <1>2 DEF Pcs
  <1>4. Moved(r) /\ req'[r].checked = req[r].checked /\ req'[r].pc = pc
    <2> HIDE DEF pc
    <2> QED
      BY <1>1, <1>3, GotoMoves
  <1> QED
    BY <1>1, <1>4 DEF AfterGet

LEMMA InsertMoves ==
    ASSUME TypeOK, NEW r \in Requests, Insert(r)
    PROVE  /\ Moved(r) /\ req'[r].checked = req[r].checked /\ req[r].pc = "todo" /\ Makes(r)
           /\ req'[r].pc = IF Cert(r) \in LetsEncrypt THEN "request" ELSE "audit"
  <1> DEFINE pc == IF Cert(r) \in LetsEncrypt THEN "request" ELSE "audit"
  <1>1. req[r].pc = "todo" /\ Makes(r) /\ Goto(r, pc)
    BY DEF Insert, At, Makes
  <1>2. pc \in Pcs
    BY DEF Pcs
  <1> HIDE DEF pc
  <1>3. Moved(r) /\ req'[r].checked = req[r].checked /\ req'[r].pc = pc
    BY <1>1, <1>2, GotoMoves
  <1> QED
    BY <1>1, <1>3 DEF pc

\* certbot is busy, or it fails.
LEMMA Without ==
    ASSUME NEW pc \in CertbotPcs
    PROVE  /\ WithoutCertbot(pc) \in Pcs
           /\ pc = "request" => WithoutCertbot(pc) = "drop"
           /\ pc = "supersede" => WithoutCertbot(pc) = "renew"
           /\ pc = "renew" => WithoutCertbot(pc) = "failed"
           /\ pc = "remove" => WithoutCertbot(pc) = "done"
  BY DEF WithoutCertbot, CertbotPcs, Pcs

\* certbot has done what it was started for.
LEMMA With ==
    ASSUME NEW pc \in CertbotPcs
    PROVE  /\ WithCertbot(pc) \in Pcs
           /\ pc = "request" => WithCertbot(pc) = "read"
           /\ pc = "supersede" => WithCertbot(pc) = "renew"
           /\ pc = "renew" => WithCertbot(pc) = "read"
           /\ pc = "remove" => WithCertbot(pc) = "done"
  BY DEF WithCertbot, CertbotPcs, Pcs

LEMMA StartMoves ==
    ASSUME TypeOK, NEW r \in Requests, StartCertbot(r), req' # req
    PROVE  /\ Moved(r) /\ req'[r].checked = req[r].checked /\ certbot' = certbot /\ certbot # r
           /\ \/ req[r].pc = "request" /\ req'[r].pc = "drop"
              \/ req[r].pc = "supersede" /\ req'[r].pc = "renew"
              \/ req[r].pc = "renew" /\ req'[r].pc = "failed"
              \/ req[r].pc = "remove" /\ req'[r].pc = "done"
  <1> DEFINE pc == WithoutCertbot(req[r].pc)
  <1>1. req[r].pc \in CertbotPcs /\ certbot # r /\ certbot' = certbot /\ Goto(r, pc)
    BY DEF StartCertbot
  <1>2. pc \in Pcs
    BY <1>1, Without
  <1>3. Moved(r) /\ req'[r].checked = req[r].checked /\ req'[r].pc = pc
    <2> HIDE DEF pc
    <2> QED
      BY <1>1, <1>2, GotoMoves
  <1>4. req[r].pc \in {"request", "supersede", "renew", "remove"}
    BY <1>1 DEF CertbotPcs
  <1> QED
    BY <1>1, <1>3, <1>4, Without

LEMMA EndMoves ==
    ASSUME TypeOK, ShapeInv, NEW r \in Requests, NEW fails \in BOOLEAN, EndCertbot(r, fails)
    PROVE  /\ Moved(r) /\ req'[r].checked = req[r].checked /\ certbot = r
           /\ \/ req[r].pc = "request" /\ req'[r].pc \in {"read", "drop"}
              \/ req[r].pc = "supersede" /\ req'[r].pc = "renew"
              \/ req[r].pc = "renew" /\ req'[r].pc \in {"read", "failed"}
              \/ req[r].pc = "remove" /\ req'[r].pc = "done"
           /\ files' = files \/ files' = [files EXCEPT ![Cert(r)] = Worked(req[r].pc, files[Cert(r)])]
           /\ req[r].pc = "request" /\ req'[r].pc = "read" =>
                  files' = [files EXCEPT ![Cert(r)] = [chain |-> 1, key |-> 1]]
  <1> DEFINE ok == ~fails /\ (req[r].pc = "request" \/ files[Cert(r)].chain > 0)
             pc == IF ok THEN WithCertbot(req[r].pc) ELSE WithoutCertbot(req[r].pc)
  <1>1. /\ certbot = r /\ Goto(r, pc)
        /\ files' = IF ok THEN [files EXCEPT ![Cert(r)] = Worked(req[r].pc, files[Cert(r)])] ELSE files
    BY DEF EndCertbot
  <1>2. req[r].pc \in CertbotPcs
    BY <1>1 DEF TypeOK
  <1>3. pc \in Pcs
    BY <1>2, With, Without
  <1>4. Moved(r) /\ req'[r].checked = req[r].checked /\ req'[r].pc = pc
    <2> HIDE DEF pc, ok
    <2> QED
      BY <1>1, <1>3, GotoMoves
  <1>5. req[r].pc \in {"request", "supersede", "renew", "remove"}
    BY <1>2 DEF CertbotPcs
  <1> HIDE DEF ok
  <1>6. \/ req[r].pc = "request" /\ req'[r].pc \in {"read", "drop"} /\ (req'[r].pc = "read" => ok)
        \/ req[r].pc = "supersede" /\ req'[r].pc = "renew"
        \/ req[r].pc = "renew" /\ req'[r].pc \in {"read", "failed"}
        \/ req[r].pc = "remove" /\ req'[r].pc = "done"
    <2>1. CASE ok
      BY <1>2, <1>4, <1>5, <2>1, With
    <2>2. CASE ~ok
      BY <1>2, <1>4, <1>5, <2>2, Without
    <2> QED
      BY <2>1, <2>2
  <1> HIDE DEF pc
  <1> QED
    BY <1>1, <1>4, <1>6 DEF Worked

LEMMA ReadMoves ==
    ASSUME TypeOK, ShapeInv, NEW r \in Requests, NEW fails \in BOOLEAN, ReadFile(r, fails)
    PROVE  /\ Moved(r) /\ req'[r].checked = req[r].checked /\ req[r].pc = "read"
           /\ \/ req'[r].pc = "patch" /\ files[Cert(r)].chain > 0
              \/ req[r].kind = "renew" /\ req'[r].pc = "failed"
              \/ Makes(r) /\ req'[r].pc = "drop"
  <1> DEFINE ok == ~fails /\ files[Cert(r)].chain > 0
             pc == IF ok THEN "patch" ELSE IF req[r].kind = "renew" THEN "failed" ELSE "drop"
             version == IF ok THEN VersionRead(files[Cert(r)]) ELSE req[r].version
             x == [req[r] EXCEPT !.pc = pc, !.version = version]
  <1>1. req[r].pc = "read" /\ req' = [req EXCEPT ![r] = x]
    BY DEF ReadFile, At
  <1>2. req[r].kind \in {"create", "hostnew", "renew"}
    BY <1>1, RequestFacts DEF ShapeInv, Path, Kinds
  <1>3. Cert(r) \in Certs
    BY <1>2, RequestFacts DEF ShapeInv
  <1>4. req \in [Requests -> RequestType] /\ req[r] \in RequestType /\ files[Cert(r)].chain \in Nat
    BY <1>3 DEF TypeOK
  <1>5. pc \in Pcs /\ version \in Nat
    BY <1>4, RequestFacts DEF Pcs, VersionRead
  <1> HIDE DEF pc, version
  <1>6. /\ x \in RequestType /\ x.pc = pc /\ x.checked = req[r].checked
        /\ x.kind = req[r].kind /\ x.cert = req[r].cert /\ x.host = req[r].host
    BY <1>4, <1>5 DEF RequestType
  <1> HIDE DEF x
  <1>7. Moved(r) /\ req'[r].checked = req[r].checked /\ req'[r].pc = pc
    BY <1>1, <1>4, <1>6 DEF Moved
  <1> QED
    BY <1>1, <1>2, <1>7 DEF pc, Makes

LEMMA PatchMoves ==
    ASSUME TypeOK, ShapeInv, NEW r \in Requests, NEW fails \in BOOLEAN, Patch(r, fails)
    PROVE  /\ Moved(r) /\ req'[r].checked = req[r].checked /\ req[r].pc = "patch"
           /\ \/ req[r].kind = "renew" /\ req'[r].pc \in {"reload", "failed"}
              \/ Makes(r) /\ req'[r].pc \in {"audit", "drop"}
  <1> DEFINE pc == CASE ~fails -> IF req[r].kind = "renew" THEN "reload" ELSE "audit"
                     [] fails -> IF req[r].kind = "renew" THEN "failed" ELSE "drop"
  <1>1. req[r].pc = "patch" /\ Goto(r, pc)
    BY DEF Patch, At
  <1>2. req[r].kind \in {"create", "hostnew", "renew"}
    BY <1>1, RequestFacts DEF ShapeInv, Path, Kinds
  <1>3. /\ pc \in Pcs
        /\ IF req[r].kind = "renew" THEN pc \in {"reload", "failed"} ELSE pc \in {"audit", "drop"}
    BY DEF Pcs
  <1> HIDE DEF pc
  <1>4. Moved(r) /\ req'[r].checked = req[r].checked /\ req'[r].pc = pc
    BY <1>1, <1>3, GotoMoves
  <1> QED
    BY <1>1, <1>2, <1>3, <1>4 DEF Makes

LEMMA DropMoves ==
    ASSUME TypeOK, ShapeInv, NEW r \in Requests, NEW fails \in BOOLEAN, Drop(r, fails)
    PROVE  /\ Moved(r) /\ req'[r].checked = req[r].checked /\ req[r].pc = "drop" /\ Makes(r)
           /\ req'[r].pc = IF fails THEN "dropFailed" ELSE "failed"
  <1> DEFINE pc == IF fails THEN "dropFailed" ELSE "failed"
  <1>1. req[r].pc = "drop" /\ Goto(r, pc)
    BY DEF Drop, At
  <1>2. Makes(r)
    BY <1>1, RequestFacts DEF ShapeInv, Path, Kinds, Makes
  <1>3. pc \in Pcs
    BY DEF Pcs
  <1> HIDE DEF pc
  <1>4. Moved(r) /\ req'[r].checked = req[r].checked /\ req'[r].pc = pc
    BY <1>1, <1>3, GotoMoves
  <1> QED
    BY <1>1, <1>2, <1>4 DEF pc

LEMMA AuditMoves ==
    ASSUME TypeOK, ShapeInv, NEW r \in Requests, NEW fails \in BOOLEAN, Audit(r, fails)
    PROVE  /\ Moved(r) /\ req'[r].checked = req[r].checked /\ req[r].pc = "audit"
           /\ \/ req[r].kind = "create" /\ req'[r].pc \in {"done", "drop", "failed"}
              \/ req[r].kind = "hostnew" /\ req'[r].pc \in {"commit", "drop", "failed"}
              \/ req[r].kind = "upload" /\ req'[r].pc \in {"writeChain", "failed"}
              \/ req[r].kind = "renew" /\ req'[r].pc \in {"done", "failed"}
              \/ req[r].kind = "delete" /\ req'[r].pc \in {"remove", "rm", "failed"}
  <1> DEFINE pc == CASE ~fails -> AfterAudit(r)
                     [] fails -> IF req[r].kind \in {"create", "hostnew"} /\ Cert(r) \in LetsEncrypt
                                   THEN "drop" ELSE "failed"
  <1>1. req[r].pc = "audit" /\ Goto(r, pc)
    BY DEF Audit, At
  <1>2. req[r].kind \in {"create", "hostnew", "upload", "renew", "delete"}
    BY <1>1, RequestFacts DEF ShapeInv, Path, Kinds
  <1>3. \/ req[r].kind = "create" /\ pc \in {"done", "drop", "failed"}
        \/ req[r].kind = "hostnew" /\ pc \in {"commit", "drop", "failed"}
        \/ req[r].kind = "upload" /\ pc \in {"writeChain", "failed"}
        \/ req[r].kind = "renew" /\ pc \in {"done", "failed"}
        \/ req[r].kind = "delete" /\ pc \in {"remove", "rm", "failed"}
    <2>1. CASE fails
      BY <1>2, <2>1
    <2>2. CASE ~fails
      BY <1>2, <2>2 DEF AfterAudit
    <2> QED
      BY <2>1, <2>2
  <1> HIDE DEF pc
  <1>4. pc \in Pcs
    BY <1>3 DEF Pcs
  <1>5. Moved(r) /\ req'[r].checked = req[r].checked /\ req'[r].pc = pc
    BY <1>1, <1>4, GotoMoves
  <1> QED
    BY <1>1, <1>3, <1>5

LEMMA CountMoves ==
    ASSUME TypeOK, ShapeInv, CountInv, NEW r \in Requests, Count(r)
    PROVE  /\ Moved(r) /\ req[r].pc = "count" /\ req[r].kind = "delete"
           /\ req[r].checked < 4 /\ req'[r].checked = req[r].checked + 1
           /\ \/ req'[r].pc = "refused"
              \/ /\ req'[r].pc = IF req'[r].checked = 4 THEN "mark" ELSE "count"
                 /\ ~Uses(Models[req[r].checked + 1], Cert(r))
  <1> DEFINE next == req[r].checked + 1
             pc == IF Uses(Models[next], Cert(r)) THEN "refused"
                   ELSE IF next = Counted THEN "mark" ELSE "count"
             x == [req[r] EXCEPT !.checked = next, !.pc = pc]
  <1>1. req[r].pc = "count" /\ req' = [req EXCEPT ![r] = x]
    BY DEF Count, At
  <1>2. req[r].kind = "delete"
    BY <1>1, RequestFacts DEF ShapeInv, Path, Kinds
  <1>3. req[r].checked < 4 /\ req[r].checked \in 0..4
    BY <1>1, <1>2, RequestFacts DEF CountInv, Counting, At, Models
  <1>4. next \in 0..Counted /\ Counted = 4
    BY <1>3 DEF Counted, Models
  <1>5. pc \in Pcs
    BY DEF Pcs
  <1>6. req \in [Requests -> RequestType] /\ req[r] \in RequestType
    BY DEF TypeOK
  <1>7. pc = "refused" \/ (pc = (IF next = 4 THEN "mark" ELSE "count") /\ ~Uses(Models[next], Cert(r)))
    BY <1>4
  <1> HIDE DEF pc
  <1>8. /\ x \in RequestType /\ x.pc = pc /\ x.checked = next
        /\ x.kind = req[r].kind /\ x.cert = req[r].cert /\ x.host = req[r].host
    BY <1>4, <1>5, <1>6 DEF RequestType
  <1> HIDE DEF x
  <1>9. Moved(r) /\ req'[r].checked = next /\ req'[r].pc = pc
    BY <1>1, <1>6, <1>8 DEF Moved
  <1> QED
    BY <1>1, <1>2, <1>3, <1>7, <1>9

LEMMA MarkMoves ==
    ASSUME TypeOK, ShapeInv, NEW r \in Requests, NEW fails \in BOOLEAN, Mark(r, fails)
    PROVE  /\ Moved(r) /\ req'[r].checked = req[r].checked /\ req[r].pc = "mark"
           /\ req[r].kind = "delete" /\ req'[r].pc = IF fails THEN "failed" ELSE "audit"
  <1> DEFINE pc == IF fails THEN "failed" ELSE "audit"
  <1>1. req[r].pc = "mark" /\ Goto(r, pc)
    BY DEF Mark, At
  <1>2. req[r].kind = "delete"
    BY <1>1, RequestFacts DEF ShapeInv, Path, Kinds
  <1>3. pc \in Pcs
    BY DEF Pcs
  <1> HIDE DEF pc
  <1>4. Moved(r) /\ req'[r].checked = req[r].checked /\ req'[r].pc = pc
    BY <1>1, <1>3, GotoMoves
  <1> QED
    BY <1>1, <1>2, <1>4 DEF pc

LEMMA RemoveMoves ==
    ASSUME TypeOK, ShapeInv, NEW r \in Requests, Remove(r)
    PROVE  /\ Moved(r) /\ req'[r].checked = req[r].checked /\ req[r].pc = "rm"
           /\ req[r].kind = "delete" /\ req'[r].pc = "done"
  <1>1. req[r].pc = "rm" /\ Goto(r, "done") /\ "done" \in Pcs
    BY DEF Remove, At, Pcs
  <1>2. req[r].kind = "delete"
    BY <1>1, RequestFacts DEF ShapeInv, Path, Kinds
  <1> QED
    BY <1>1, <1>2, GotoMoves

\* The steps of an upload.
LEMMA UploadMoves ==
    ASSUME TypeOK, ShapeInv, NEW r \in Requests, NEW fails \in BOOLEAN,
           Update(r) \/ WriteChain(r) \/ WriteKey(r, fails)
    PROVE  /\ Moved(r) /\ req'[r].checked = req[r].checked /\ req[r].kind = "upload"
           /\ \/ req[r].pc = "update" /\ req'[r].pc \in {"audit", "refused"}
              \/ req[r].pc = "writeChain" /\ req'[r].pc = "writeKey"
              \/ req[r].pc = "writeKey" /\ req'[r].pc \in {"failed", "reload"}
  <1>1. PICK pc \in Pcs :
            /\ Goto(r, pc)
            /\ \/ req[r].pc = "update" /\ pc \in {"audit", "refused"}
               \/ req[r].pc = "writeChain" /\ pc = "writeKey"
               \/ req[r].pc = "writeKey" /\ pc \in {"failed", "reload"}
    <2>1. CASE Update(r)
      BY <2>1 DEF Update, At, Pcs
    <2>2. CASE WriteChain(r)
      BY <2>2 DEF WriteChain, At, Pcs
    <2>3. CASE WriteKey(r, fails)
      BY <2>3 DEF WriteKey, At, Pcs
    <2> QED
      BY <2>1, <2>2, <2>3
  <1>2. req[r].kind = "upload"
    BY <1>1, RequestFacts DEF ShapeInv, Path, Kinds
  <1> QED
    BY <1>1, <1>2, GotoMoves

LEMMA AuditFailedMoves ==
    ASSUME TypeOK, ShapeInv, NEW r \in Requests, AuditFailed(r)
    PROVE  /\ Moved(r) /\ req'[r].checked = req[r].checked /\ req[r].pc = "auditFailed"
           /\ req[r].kind = "renew" /\ req'[r].pc = "failed"
  <1>1. req[r].pc = "auditFailed" /\ Goto(r, "failed") /\ "failed" \in Pcs
    BY DEF AuditFailed, At, Pcs
  <1>2. req[r].kind = "renew"
    BY <1>1, RequestFacts DEF ShapeInv, Path, Kinds
  <1> QED
    BY <1>1, <1>2, GotoMoves

LEMMA ReloadMoves ==
    ASSUME TypeOK, ShapeInv, NEW r \in Requests, NEW fails \in BOOLEAN, ReloadFor(r, fails)
    PROVE  /\ Moved(r) /\ req'[r].checked = req[r].checked /\ req[r].pc = "reload"
           /\ \/ req[r].kind = "renew" /\ req'[r].pc \in {"audit", "auditFailed"}
              \/ req[r].kind = "upload" /\ req'[r].pc \in {"done", "failed"}
  <1> DEFINE ok == ~fails /\ Accepted(hosts, files)
             pc == CASE req[r].kind = "renew" -> IF ok THEN "audit" ELSE "auditFailed"
                     [] req[r].kind = "upload" -> IF ok THEN "done" ELSE "failed"
  <1>1. req[r].pc = "reload" /\ Goto(r, pc)
    BY DEF ReloadFor, At
  <1>2. req[r].kind \in {"renew", "upload"}
    BY <1>1, RequestFacts DEF ShapeInv, Path, Kinds
  <1> HIDE DEF ok
  <1>3. pc \in Pcs
    BY <1>2 DEF Pcs
  <1>4. Moved(r) /\ req'[r].checked = req[r].checked /\ req'[r].pc = pc
    <2> HIDE DEF pc
    <2> QED
      BY <1>1, <1>3, GotoMoves
  <1> QED
    BY <1>1, <1>2, <1>4

\* The save of a host.
LEMMA SaveMoves ==
    ASSUME TypeOK, ShapeInv, NEW r \in Requests, Commit(r) \/ Configure(r)
    PROVE  /\ Moved(r) /\ req'[r].checked = req[r].checked /\ req[r].kind \in {"hostnew", "attach"}
           /\ \/ req[r].pc = "commit" /\ req'[r].pc = "configure"
              \/ req[r].pc = "configure" /\ req'[r].pc = "done"
  <1>1. PICK pc \in Pcs :
            /\ Goto(r, pc)
            /\ \/ req[r].pc = "commit" /\ pc = "configure"
               \/ req[r].pc = "configure" /\ pc = "done"
    <2>1. CASE Commit(r)
      BY <2>1 DEF Commit, At, Pcs
    <2>2. CASE Configure(r)
      BY <2>2 DEF Configure, At, Pcs
    <2> QED
      BY <2>1, <2>2
  <1>2. req[r].kind \in {"hostnew", "attach"}
    BY <1>1, RequestFacts DEF ShapeInv, Path, Kinds
  <1> QED
    BY <1>1, <1>2, GotoMoves

-----------------------------------------------------------------------------
(* Types.                                                                   *)

LEMMA InitType == Init => TypeOK
  <1> SUFFICES ASSUME Init
               PROVE  TypeOK
    OBVIOUS
  <1>1. PICK s \in Scenes :
        /\ rows = [c \in Certs |-> [state |-> IF c \in s.made THEN "live" ELSE "none",
                                    expires |-> IF c \in s.made THEN 1 ELSE 0]]
        /\ files = [c \in Certs |-> IF c \in s.made THEN [chain |-> 1, key |-> 1]
                                                    ELSE [chain |-> 0, key |-> 0]]
        /\ hosts = [h \in Hosts |-> [cert |-> s.uses[h], online |-> TRUE]]
        /\ served = [h \in Hosts |-> IF s.uses[h] = NoCert THEN 0 ELSE 1]
        /\ ranges = [published |-> 0, left |-> s.ranges, file |-> 0, loaded |-> 0, pc |-> "idle"]
        /\ certbot = Nobody
        /\ timer = [pc |-> "idle", todo |-> {}, read |-> [c \in Certs |-> 0]]
        /\ req = [r \in Requests |-> [kind |-> s.kinds[r], pc |-> "todo", cert |-> s.certs[r],
                                      host |-> s.hosts[r], checked |-> 0, version |-> 0]]
        /\ faults = s.faults
        /\ raced = {}
    BY DEF Init
  <1>2. /\ s.made \subseteq Certs /\ s.uses \in [Hosts -> s.made \cup {NoCert}]
        /\ s.kinds \in [Requests -> Kinds] /\ s.hosts \in [Requests -> Hosts]
        /\ s.certs \in [Requests -> Certs \cup {NoCert}]
        /\ s.faults \in Nat /\ s.ranges \in Nat
    BY SceneAssumption
  <1>3. /\ rows \in [Certs -> [state : {"none", "live", "deleted"}, expires : Nat]]
        /\ files \in [Certs -> [chain : Nat, key : Nat]]
    BY <1>1
  <1>4. hosts \in [Hosts -> [cert : Certs \cup {NoCert}, online : BOOLEAN]] /\ served \in [Hosts -> Nat]
    BY <1>1, <1>2
  <1>5. req \in [Requests -> RequestType]
    <2>1. "todo" \in Pcs /\ 0 \in 0..Counted /\ 0 \in Nat
      BY DEF Pcs, Counted, Models
    <2> QED
      BY <1>1, <1>2, <2>1 DEF RequestType
  <1>6. /\ ranges \in [published : Nat, left : Nat, file : Nat, loaded : Nat, pc : {"idle", "reload"}]
        /\ timer \in [pc : {"idle", "certbot", "reload", "rows", "update"}, todo : SUBSET Certs,
                      read : [Certs -> Nat]]
        /\ faults \in Nat /\ raced \subseteq Certs
    BY <1>1, <1>2
  <1>7. certbot = Nobody /\ \A r \in Requests : certbot # r
    BY <1>1, RequestAssumption DEF Nobody
  <1>8. certbot # Timer /\ timer.pc # "certbot"
    BY <1>1 DEF Nobody, Timer
  <1> QED
    BY <1>3, <1>4, <1>5, <1>6, <1>7, <1>8 DEF TypeOK

LEMMA FaultType ==
    ASSUME TypeOK, NEW fails \in {FALSE, MayFail}
    PROVE  fails \in BOOLEAN /\ (CountFault(fails) => faults' \in Nat)
  <1>1. faults \in Nat
    BY DEF TypeOK
  <1>2. fails \in BOOLEAN /\ (fails => MayFail)
    <2>1. MayFail \in BOOLEAN
      BY <1>1 DEF MayFail
    <2>2. fails \in BOOLEAN
      BY <2>1
    <2>3. fails = FALSE \/ fails = MayFail
      OBVIOUS
    <2>4. CASE fails = FALSE
      BY <2>2, <2>4
    <2>5. CASE fails = MayFail
      BY <2>2, <2>5
    <2> QED
      BY <2>3, <2>4, <2>5
  <1>3. CASE fails
    <2>1. faults > 0 /\ faults - 1 \in Nat
      BY <1>1, <1>2, <1>3 DEF MayFail
    <2>2. CountFault(fails) => faults' = faults - 1
      BY <1>3 DEF CountFault
    <2> QED
      BY <1>2, <2>1, <2>2
  <1>4. CASE ~fails
    <2>1. CountFault(fails) => faults' = faults - 0
      BY <1>4 DEF CountFault
    <2>2. faults - 0 \in Nat
      BY <1>1
    <2> QED
      BY <1>2, <2>1, <2>2
  <1> QED
    BY <1>3, <1>4

LEMMA LoadedType ==
    ASSUME NEW hs \in [Hosts -> [cert : Certs \cup {NoCert}, online : BOOLEAN]],
           NEW fs \in [Certs -> [chain : Nat, key : Nat]]
    PROVE  Loaded(hs, fs) \in [Hosts -> Nat]
  BY DEF Loaded, NoCert

LEMMA ReloadType ==
    ASSUME TypeOK, NEW ok, Reload(ok)
    PROVE  /\ served' \in [Hosts -> Nat]
           /\ ranges' \in [published : Nat, left : Nat, file : Nat, loaded : Nat, pc : {"idle", "reload"}]
  <1>1. /\ hosts \in [Hosts -> [cert : Certs \cup {NoCert}, online : BOOLEAN]]
        /\ files \in [Certs -> [chain : Nat, key : Nat]] /\ served \in [Hosts -> Nat]
        /\ ranges \in [published : Nat, left : Nat, file : Nat, loaded : Nat, pc : {"idle", "reload"}]
    BY DEF TypeOK
  <1>2. Loaded(hosts, files) \in [Hosts -> Nat]
    BY <1>1, LoadedType
  <1>3. [ranges EXCEPT !.loaded = ranges.file] \in
            [published : Nat, left : Nat, file : Nat, loaded : Nat, pc : {"idle", "reload"}]
    BY <1>1
  <1>4. \/ served' = Loaded(hosts, files) /\ ranges' = [ranges EXCEPT !.loaded = ranges.file]
        \/ served' = served /\ ranges' = ranges
    BY DEF Reload
  <1> QED
    BY <1>1, <1>2, <1>3, <1>4

\* Who holds certbot's lock runs it.
LEMMA MovedBot ==
    ASSUME TypeOK, NEW r \in Requests, Moved(r), certbot' = certbot, timer' = timer,
           certbot # r
    PROVE  /\ certbot' \in Requests \cup {Nobody, Timer}
           /\ \A q \in Requests : certbot' = q => req'[q].pc \in CertbotPcs
           /\ certbot' = Timer <=> timer'.pc = "certbot"
  BY DEF TypeOK, Moved

\* The lock is released.
LEMMA FreeBot ==
    ASSUME certbot' = Nobody
    PROVE  /\ certbot' \in Requests \cup {Nobody, Timer} /\ certbot' # Timer
           /\ \A q \in Requests : certbot' = q => req'[q].pc \in CertbotPcs
  BY RequestAssumption DEF Nobody, Timer

\* Each step of a request keeps the types.
LEMMA RequestType1 ==
    ASSUME TypeOK, ShapeInv, CountInv, NEW r \in Requests, Get(r) \/ Insert(r) \/ Steps(r)
    PROVE  TypeOK'
  <1>0. /\ rows \in [Certs -> [state : {"none", "live", "deleted"}, expires : Nat]]
        /\ files \in [Certs -> [chain : Nat, key : Nat]]
        /\ hosts \in [Hosts -> [cert : Certs \cup {NoCert}, online : BOOLEAN]]
        /\ served \in [Hosts -> Nat] /\ faults \in Nat /\ raced \subseteq Certs
        /\ req[r].pc \notin CertbotPcs => certbot # r
        /\ r \in Nat /\ Cert(r) \in Certs \cup {NoCert}
    BY RequestFacts, RequestAssumption DEF TypeOK
  <1>1. CASE Get(r)
    <2>1. Moved(r) /\ certbot # r
      BY <1>0, <1>1, GetMoves DEF CertbotPcs
    <2>2. UNCHANGED <<rows, files, hosts, served, ranges, certbot, timer, faults, raced>>
      BY <1>1 DEF Get
    <2> QED
      BY <2>1, <2>2, MovedBot DEF TypeOK, Moved
  <1>2. CASE Insert(r)
    <2>1. Moved(r) /\ certbot # r
      BY <1>0, <1>2, InsertMoves DEF CertbotPcs
    <2>2. UNCHANGED <<files, hosts, served, ranges, certbot, timer, faults, raced>>
      BY <1>2 DEF Insert
    <2>3. rows' \in [Certs -> [state : {"none", "live", "deleted"}, expires : Nat]]
      BY <1>0, <1>2 DEF Insert
    <2> QED
      BY <2>1, <2>2, <2>3, MovedBot DEF TypeOK, Moved
  <1>3. CASE StartCertbot(r)
    <2>1. UNCHANGED <<rows, files, hosts, served, ranges, timer, faults, raced>>
      BY <1>3 DEF StartCertbot
    <2>2. CASE req' = req
      <3>1. req[r].pc \in CertbotPcs
        BY <1>3 DEF StartCertbot
      <3>2. \/ certbot' = r /\ certbot = Nobody
            \/ certbot' = certbot
        BY <1>3 DEF StartCertbot
      <3>3. r # Timer /\ Nobody # Timer
        BY RequestAssumption DEF Timer, Nobody
      <3> QED
        BY <2>1, <2>2, <3>1, <3>2, <3>3 DEF TypeOK
    <2>3. CASE req' # req
      BY <1>3, <2>1, <2>3, StartMoves, MovedBot DEF TypeOK, Moved
    <2> QED
      BY <2>2, <2>3
  <1>4. ASSUME NEW fails \in {FALSE, MayFail}, EndCertbot(r, fails) PROVE TypeOK'
    <2>1. UNCHANGED <<rows, hosts, served, ranges, timer, raced>> /\ certbot' = Nobody /\ faults' \in Nat
      BY <1>4, FaultType DEF EndCertbot
    <2>2. Moved(r) /\ certbot = r
      BY <1>4, EndMoves, FaultType
    <2>3. files' \in [Certs -> [chain : Nat, key : Nat]]
      <3>1. req[r].pc \in {"request", "supersede", "renew", "remove"}
        BY <2>2 DEF TypeOK, CertbotPcs
      <3>2. Cert(r) \in Certs => Worked(req[r].pc, files[Cert(r)]) \in [chain : Nat, key : Nat]
        BY <1>0, <3>1 DEF Worked, Renewed
      <3>3. fails \in BOOLEAN
        BY FaultType
      <3>4. \/ files' = files
            \/ files' = [files EXCEPT ![Cert(r)] = Worked(req[r].pc, files[Cert(r)])]
        BY <1>4, <3>3, EndMoves
      <3> QED
        BY <1>0, <3>2, <3>4
    <2>4. timer.pc # "certbot"
      BY <2>2, RequestAssumption DEF TypeOK, Timer
    <2> QED
      BY <2>1, <2>2, <2>3, <2>4, FreeBot DEF TypeOK, Moved
  <1>5. ASSUME NEW fails \in {FALSE, MayFail}, ReadFile(r, fails) PROVE TypeOK'
    <2>1. UNCHANGED <<rows, files, hosts, served, ranges, certbot, timer, raced>> /\ faults' \in Nat
      BY <1>5, FaultType DEF ReadFile
    <2>2. Moved(r) /\ certbot # r
      BY <1>0, <1>5, ReadMoves, FaultType DEF CertbotPcs
    <2> QED
      BY <2>1, <2>2, MovedBot DEF TypeOK, Moved
  <1>6. ASSUME NEW fails \in {FALSE, MayFail}, Patch(r, fails) PROVE TypeOK'
    <2>1. UNCHANGED <<files, hosts, served, ranges, certbot, timer, raced>> /\ faults' \in Nat
      BY <1>6, FaultType DEF Patch
    <2>2. Moved(r) /\ certbot # r
      BY <1>0, <1>6, PatchMoves, FaultType DEF CertbotPcs
    <2>3. rows' \in [Certs -> [state : {"none", "live", "deleted"}, expires : Nat]]
      BY <1>0, <1>6, RequestFacts DEF Patch
    <2> QED
      BY <2>1, <2>2, <2>3, MovedBot DEF TypeOK, Moved
  <1>7. ASSUME NEW fails \in {FALSE, MayFail}, Drop(r, fails) PROVE TypeOK'
    <2>1. UNCHANGED <<files, hosts, served, ranges, certbot, timer>> /\ faults' \in Nat
      BY <1>7, FaultType DEF Drop
    <2>2. Moved(r) /\ certbot # r /\ Makes(r)
      BY <1>0, <1>7, DropMoves, FaultType DEF CertbotPcs
    <2>3. rows' \in [Certs -> [state : {"none", "live", "deleted"}, expires : Nat]]
      BY <1>0, <1>7 DEF Drop
    <2>4. Cert(r) \in Certs
      BY <1>0, <2>2 DEF ShapeInv, Makes
    <2>5. raced' \subseteq Certs
      BY <1>0, <1>7, <2>4 DEF Drop
    <2> QED
      BY <2>1, <2>2, <2>3, <2>5, MovedBot DEF TypeOK, Moved
  <1>8. ASSUME NEW fails \in {FALSE, MayFail}, Audit(r, fails) PROVE TypeOK'
    <2>1. UNCHANGED <<rows, files, hosts, served, ranges, certbot, timer, raced>> /\ faults' \in Nat
      BY <1>8, FaultType DEF Audit
    <2>2. Moved(r) /\ certbot # r
      BY <1>0, <1>8, AuditMoves, FaultType DEF CertbotPcs
    <2> QED
      BY <2>1, <2>2, MovedBot DEF TypeOK, Moved
  <1>9. CASE Count(r) \/ AuditFailed(r)
    <2>1. UNCHANGED <<rows, files, hosts, served, ranges, certbot, timer, faults, raced>>
      BY <1>9 DEF Count, AuditFailed
    <2>2. Moved(r) /\ certbot # r
      BY <1>0, <1>9, CountMoves, AuditFailedMoves DEF CertbotPcs
    <2> QED
      BY <2>1, <2>2, MovedBot DEF TypeOK, Moved
  <1>10. ASSUME NEW fails \in {FALSE, MayFail}, Mark(r, fails) PROVE TypeOK'
    <2>1. UNCHANGED <<files, hosts, served, ranges, certbot, timer>> /\ faults' \in Nat
      BY <1>10, FaultType DEF Mark
    <2>2. Moved(r) /\ certbot # r /\ req[r].kind = "delete"
      BY <1>0, <1>10, MarkMoves, FaultType DEF CertbotPcs
    <2>3. rows' \in [Certs -> [state : {"none", "live", "deleted"}, expires : Nat]]
      BY <1>0, <1>10 DEF Mark
    <2>4. Cert(r) \in Certs
      BY <1>0, <2>2 DEF ShapeInv
    <2>5. raced' \subseteq Certs
      BY <1>0, <1>10, <2>4 DEF Mark
    <2> QED
      BY <2>1, <2>2, <2>3, <2>5, MovedBot DEF TypeOK, Moved
  <1>11. CASE Remove(r)
    <2>1. UNCHANGED <<rows, hosts, served, ranges, certbot, timer, faults, raced>>
      BY <1>11 DEF Remove
    <2>2. Moved(r) /\ certbot # r
      BY <1>0, <1>11, RemoveMoves DEF CertbotPcs
    <2>3. files' \in [Certs -> [chain : Nat, key : Nat]]
      BY <1>0, <1>11 DEF Remove
    <2> QED
      BY <2>1, <2>2, <2>3, MovedBot DEF TypeOK, Moved
  <1>12. ASSUME NEW fails \in {FALSE, MayFail}, Update(r) \/ WriteChain(r) \/ WriteKey(r, fails)
         PROVE  TypeOK'
    <2>1. UNCHANGED <<hosts, served, ranges, certbot, timer, raced>> /\ faults' \in Nat
      BY <1>12, <1>0, FaultType DEF Update, WriteChain, WriteKey
    <2>2. Moved(r) /\ certbot # r
      BY <1>0, <1>12, UploadMoves, FaultType DEF CertbotPcs
    <2>3. rows' \in [Certs -> [state : {"none", "live", "deleted"}, expires : Nat]]
      <3>1. rows' = rows \/ rows' = [rows EXCEPT ![Cert(r)].expires = 1 + r]
        BY <1>12 DEF Update, WriteChain, WriteKey
      <3> QED
        BY <1>0, <3>1
    <2>4. files' \in [Certs -> [chain : Nat, key : Nat]]
      <3>1. \/ files' = files
            \/ files' = [files EXCEPT ![Cert(r)].chain = 1 + r]
            \/ files' = [files EXCEPT ![Cert(r)].key = 1 + r]
        BY <1>12 DEF Update, WriteChain, WriteKey
      <3> QED
        BY <1>0, <3>1
    <2> QED
      BY <2>1, <2>2, <2>3, <2>4, MovedBot DEF TypeOK, Moved
  <1>13. ASSUME NEW fails \in {FALSE, MayFail}, ReloadFor(r, fails) PROVE TypeOK'
    <2>1. UNCHANGED <<rows, files, hosts, certbot, timer, raced>> /\ faults' \in Nat
      BY <1>13, FaultType DEF ReloadFor
    <2>2. Moved(r) /\ certbot # r
      BY <1>0, <1>13, ReloadMoves, FaultType DEF CertbotPcs
    <2>3. Reload(~fails /\ Accepted(hosts, files))
      BY <1>13 DEF ReloadFor
    <2> QED
      BY <2>1, <2>2, <2>3, MovedBot, ReloadType DEF TypeOK, Moved
  <1>14. CASE Commit(r)
    <2>1. UNCHANGED <<rows, files, served, ranges, certbot, timer, faults>>
      BY <1>14 DEF Commit
    <2>2. Moved(r) /\ certbot # r
      BY <1>0, <1>14, SaveMoves DEF CertbotPcs
    <2>3. hosts' \in [Hosts -> [cert : Certs \cup {NoCert}, online : BOOLEAN]]
      BY <1>0, <1>14 DEF Commit
    <2>4. MadeOrDeleted(r, Cert(r)) => Cert(r) \in Certs
      BY <1>0 DEF MadeOrDeleted, ShapeInv
    <2>5. raced' \subseteq Certs
      BY <1>0, <1>14, <2>4 DEF Commit
    <2> QED
      BY <2>1, <2>2, <2>3, <2>5, MovedBot DEF TypeOK, Moved
  <1>15. CASE Configure(r)
    <2>1. UNCHANGED <<rows, files, certbot, timer, faults, raced>>
      BY <1>15 DEF Configure
    <2>2. Moved(r) /\ certbot # r
      BY <1>0, <1>15, SaveMoves DEF CertbotPcs
    <2>3. hosts' \in [Hosts -> [cert : Certs \cup {NoCert}, online : BOOLEAN]]
      BY <1>0, <1>15 DEF Configure
    <2>4. \/ UNCHANGED <<served, ranges>>
          \/ served' = Loaded(hosts', files) /\ ranges' = [ranges EXCEPT !.loaded = ranges.file]
      BY <1>15 DEF Configure
    <2>5. /\ served' \in [Hosts -> Nat]
          /\ ranges' \in [published : Nat, left : Nat, file : Nat, loaded : Nat, pc : {"idle", "reload"}]
      BY <1>0, <2>3, <2>4, LoadedType DEF TypeOK
    <2> QED
      BY <2>1, <2>2, <2>3, <2>5, MovedBot DEF TypeOK, Moved
  <1> QED
    BY <1>1, <1>2, <1>3, <1>4, <1>5, <1>6, <1>7, <1>8, <1>9, <1>10, <1>11, <1>12, <1>13, <1>14, <1>15
      DEF Steps

\* A row gets another expiry.
LEMMA ExpiresKept ==
    ASSUME TypeOK, NEW c \in Certs \cup {NoCert}, NEW n \in Nat,
           rows' = [rows EXCEPT ![c].expires = n]
    PROVE  /\ rows' \in [Certs -> [state : {"none", "live", "deleted"}, expires : Nat]]
           /\ \A d \in Certs : rows'[d].state = rows[d].state
  <1> DEFINE x == [rows[c] EXCEPT !.expires = n]
  <1>1. rows \in [Certs -> [state : {"none", "live", "deleted"}, expires : Nat]]
    BY DEF TypeOK
  <1>2. c \in Certs => /\ x \in [state : {"none", "live", "deleted"}, expires : Nat]
                       /\ x.state = rows[c].state
    BY <1>1
  <1>3. rows' = [rows EXCEPT ![c] = x]
    OBVIOUS
  <1> HIDE DEF x
  <1> QED
    BY <1>1, <1>2, <1>3

\* The steps of nobody's request move no request.
LEMMA QuietSteps ==
    ASSUME TypeOK, TimerSteps \/ RangesSteps \/ Publish
    PROVE  /\ TypeOK' /\ req' = req /\ hosts' = hosts /\ raced' = raced
           /\ \A c \in Certs : rows'[c].state = rows[c].state
           /\ \A c \in Certs : files[c].chain > 0 => files'[c].chain > 0
  <1>0. /\ rows \in [Certs -> [state : {"none", "live", "deleted"}, expires : Nat]]
        /\ files \in [Certs -> [chain : Nat, key : Nat]]
        /\ timer \in [pc : {"idle", "certbot", "reload", "rows", "update"}, todo : SUBSET Certs,
                      read : [Certs -> Nat]]
        /\ ranges \in [published : Nat, left : Nat, file : Nat, loaded : Nat, pc : {"idle", "reload"}]
        /\ certbot = Timer <=> timer.pc = "certbot"
        /\ LetsEncrypt \subseteq Certs
    BY CertAssumption DEF TypeOK
  <1>1. CASE TimerStart
    <2>1. \A r \in Requests : r # Timer
      BY RequestAssumption DEF Timer
    <2>2. Nobody # Timer
      BY DEF Timer, Nobody
    <2>3. UNCHANGED <<rows, files, hosts, served, ranges, req, faults, raced>>
      BY <1>1 DEF TimerStart
    <2>4. /\ timer' \in [pc : {"idle", "certbot", "reload", "rows", "update"}, todo : SUBSET Certs,
                         read : [Certs -> Nat]]
          /\ timer'.pc = IF certbot = Nobody THEN "certbot" ELSE "reload"
          /\ timer.pc = "idle"
      BY <1>0, <1>1 DEF TimerStart
    <2>5. certbot' = IF certbot = Nobody THEN Timer ELSE certbot
      BY <1>1 DEF TimerStart
    <2>6. certbot' = Timer <=> timer'.pc = "certbot"
      BY <1>0, <2>2, <2>4, <2>5
    <2> QED
      BY <2>1, <2>3, <2>4, <2>5, <2>6 DEF TypeOK
  <1>2. ASSUME NEW due \in SUBSET Certs, TimerCertbot(due)
        PROVE  /\ TypeOK' /\ req' = req /\ hosts' = hosts /\ raced' = raced
               /\ \A c \in Certs : rows'[c].state = rows[c].state
               /\ \A c \in Certs : files[c].chain > 0 => files'[c].chain > 0
    <2>1. UNCHANGED <<rows, hosts, served, ranges, req, faults, raced>> /\ certbot' = Nobody
      BY <1>2 DEF TimerCertbot
    <2>2. files' \in [Certs -> [chain : Nat, key : Nat]]
      BY <1>0, <1>2 DEF TimerCertbot, Renewed
    <2>3. \A c \in Certs : files[c].chain > 0 => files'[c].chain > 0
      BY <1>0, <1>2 DEF TimerCertbot, Renewed
    <2>4. /\ timer' \in [pc : {"idle", "certbot", "reload", "rows", "update"}, todo : SUBSET Certs,
                         read : [Certs -> Nat]]
          /\ timer'.pc = "reload"
      BY <1>0, <1>2 DEF TimerCertbot
    <2> QED
      BY <2>1, <2>2, <2>3, <2>4, FreeBot DEF TypeOK
  <1>3. ASSUME NEW fails \in {FALSE, MayFail}, TimerReload(fails)
        PROVE  TypeOK' /\ UNCHANGED <<req, hosts, raced, rows, files>>
    <2>1. UNCHANGED <<rows, files, hosts, certbot, req, raced>> /\ faults' \in Nat
      BY <1>3, FaultType DEF TimerReload
    <2>2. Reload(~fails /\ Accepted(hosts, files))
      BY <1>3 DEF TimerReload
    <2>3. /\ timer' \in [pc : {"idle", "certbot", "reload", "rows", "update"}, todo : SUBSET Certs,
                         read : [Certs -> Nat]]
          /\ timer'.pc = "rows" /\ timer.pc = "reload"
      BY <1>0, <1>3 DEF TimerReload
    <2> QED
      BY <2>1, <2>2, <2>3, ReloadType DEF TypeOK
  <1>4. CASE TimerRows
    <2>1. UNCHANGED <<rows, files, hosts, served, ranges, certbot, req, faults, raced>>
      BY <1>4 DEF TimerRows
    <2>2. /\ timer' \in [pc : {"idle", "certbot", "reload", "rows", "update"}, todo : SUBSET Certs,
                         read : [Certs -> Nat]]
          /\ timer'.pc = "update" /\ timer.pc = "rows"
      BY <1>0, <1>4 DEF TimerRows
    <2> QED
      BY <2>1, <2>2 DEF TypeOK
  <1>5. ASSUME NEW c \in Certs, TimerReadFile(c)
        PROVE  TypeOK' /\ UNCHANGED <<req, hosts, raced, rows, files>>
    <2>1. UNCHANGED <<rows, files, hosts, served, ranges, certbot, req, faults, raced>>
      BY <1>5 DEF TimerReadFile
    <2>2. files[c].chain \in Nat /\ timer.pc = "update"
      BY <1>0, <1>5 DEF TimerReadFile
    <2>3. \/ timer' = [timer EXCEPT !.read[c] = files[c].chain]
          \/ timer' = [timer EXCEPT !.todo = @ \ {c}]
      BY <1>5 DEF TimerReadFile
    <2>4. /\ timer' \in [pc : {"idle", "certbot", "reload", "rows", "update"}, todo : SUBSET Certs,
                         read : [Certs -> Nat]]
          /\ timer'.pc = "update"
      BY <1>0, <2>2, <2>3
    <2> QED
      BY <2>1, <2>2, <2>4 DEF TypeOK
  <1>6. ASSUME NEW c \in Certs, NEW fails \in {FALSE, MayFail}, TimerPatch(c, fails)
        PROVE  /\ TypeOK' /\ UNCHANGED <<req, hosts, raced, files>>
               /\ \A d \in Certs : rows'[d].state = rows[d].state
    <2>1. UNCHANGED <<files, hosts, served, ranges, certbot, req, raced>> /\ faults' \in Nat
      BY <1>6, FaultType DEF TimerPatch
    <2>2. timer.pc = "update" /\ timer.read[c] \in Nat
      BY <1>0, <1>6 DEF TimerPatch
    <2>3. rows' = rows \/ rows' = [rows EXCEPT ![c].expires = timer.read[c]]
      BY <1>6 DEF TimerPatch
    <2>4. /\ rows' \in [Certs -> [state : {"none", "live", "deleted"}, expires : Nat]]
          /\ \A d \in Certs : rows'[d].state = rows[d].state
      BY <1>0, <2>2, <2>3, ExpiresKept
    <2>5. timer' = [timer EXCEPT !.todo = @ \ {c}, !.read[c] = 0]
      BY <1>6 DEF TimerPatch
    <2>6. /\ timer' \in [pc : {"idle", "certbot", "reload", "rows", "update"}, todo : SUBSET Certs,
                         read : [Certs -> Nat]]
          /\ timer'.pc = "update"
      BY <1>0, <2>2, <2>5
    <2> QED
      BY <2>1, <2>2, <2>4, <2>6 DEF TypeOK
  <1>7. CASE TimerEnd
    <2>1. UNCHANGED <<rows, files, hosts, served, ranges, certbot, req, faults, raced>>
      BY <1>7 DEF TimerEnd
    <2>2. /\ timer' \in [pc : {"idle", "certbot", "reload", "rows", "update"}, todo : SUBSET Certs,
                         read : [Certs -> Nat]]
          /\ timer'.pc = "idle" /\ timer.pc = "update"
      BY <1>0, <1>7 DEF TimerEnd
    <2> QED
      BY <2>1, <2>2 DEF TypeOK
  <1>8. CASE Publish
    <2>1. UNCHANGED <<rows, files, hosts, served, certbot, timer, req, faults, raced>>
      BY <1>8 DEF Publish
    <2>2. ranges' \in [published : Nat, left : Nat, file : Nat, loaded : Nat, pc : {"idle", "reload"}]
      <3>1. ranges.published + 1 \in Nat /\ ranges.left - 1 \in Nat
        BY <1>0, <1>8 DEF Publish
      <3>2. ranges' = [ranges EXCEPT !.published = ranges.published + 1, !.left = ranges.left - 1]
        BY <1>8 DEF Publish
      <3> QED
        BY <1>0, <3>1, <3>2
    <2> QED
      BY <2>1, <2>2 DEF TypeOK
  <1>9. CASE Fetch
    <2>1. UNCHANGED <<rows, files, hosts, served, certbot, timer, req, faults, raced>>
      BY <1>9 DEF Fetch
    <2>2. ranges' \in [published : Nat, left : Nat, file : Nat, loaded : Nat, pc : {"idle", "reload"}]
      BY <1>0, <1>9 DEF Fetch
    <2> QED
      BY <2>1, <2>2 DEF TypeOK
  <1>10. ASSUME NEW fails \in {FALSE, MayFail}, ReloadRanges(fails)
         PROVE  TypeOK' /\ UNCHANGED <<req, hosts, raced, rows, files>>
    <2>1. UNCHANGED <<rows, files, hosts, certbot, timer, req, raced>> /\ faults' \in Nat
      BY <1>10, FaultType DEF ReloadRanges
    <2>2. /\ served' = Loaded(hosts, files) \/ served' = served
          /\ \/ ranges' = [ranges EXCEPT !.pc = "idle", !.loaded = ranges.file]
             \/ ranges' = [ranges EXCEPT !.pc = "idle", !.loaded = ranges.loaded]
      BY <1>10 DEF ReloadRanges
    <2>3. ranges' \in [published : Nat, left : Nat, file : Nat, loaded : Nat, pc : {"idle", "reload"}]
      BY <1>0, <2>2
    <2>4. served' \in [Hosts -> Nat]
      BY <2>2, LoadedType DEF TypeOK
    <2> QED
      BY <2>1, <2>3, <2>4 DEF TypeOK
  <1>11. CASE TimerSteps
    BY <1>1, <1>2, <1>3, <1>4, <1>5, <1>6, <1>7, <1>11 DEF TimerSteps
  <1>12. CASE RangesSteps
    BY <1>9, <1>10, <1>12 DEF RangesSteps
  <1> QED
    BY <1>8, <1>11, <1>12

-----------------------------------------------------------------------------
(* A request stays on its path.                                             *)

LEMMA InitShape == Init => ShapeInv
  <1> SUFFICES ASSUME Init
               PROVE  ShapeInv
    OBVIOUS
  <1>1. PICK s \in Scenes :
            req = [r \in Requests |-> [kind |-> s.kinds[r], pc |-> "todo", cert |-> s.certs[r],
                                       host |-> s.hosts[r], checked |-> 0, version |-> 0]]
    BY DEF Init
  <1>2. \A r \in Requests :
            /\ req[r].kind = s.kinds[r] /\ Cert(r) = s.certs[r] /\ req[r].pc = "todo"
            /\ s.kinds[r] \in Kinds
    BY <1>1, SceneAssumption DEF Cert
  <1>3. \A r \in Requests : Path(req[r].kind, "todo")
    BY <1>2 DEF Path, Kinds
  <1>4. /\ \A r \in Requests : s.kinds[r] # "attach" => s.certs[r] # NoCert
        /\ \A r \in Requests : s.kinds[r] \in {"create", "hostnew"} =>
               \A q \in Requests \ {r} :
                     s.kinds[q] \in {"create", "hostnew"} => s.certs[q] # s.certs[r]
    BY SceneAssumption
  <1> QED
    BY <1>2, <1>3, <1>4 DEF ShapeInv, Makes

LEMMA ShapeKept ==
    ASSUME TypeOK, ShapeInv, NEW r \in Requests, Moved(r), Path(req[r].kind, req'[r].pc)
    PROVE  ShapeInv'
  <1>1. \A q \in Requests : /\ req'[q].kind = req[q].kind /\ req'[q].cert = req[q].cert
                            /\ Path(req'[q].kind, req'[q].pc)
    <2>1. \A q \in Requests \ {r} : req'[q] = req[q]
      BY DEF Moved
    <2>2. Path(req'[r].kind, req'[r].pc) /\ req'[r].kind = req[r].kind /\ req'[r].cert = req[r].cert
      BY DEF Moved
    <2> QED
      BY <2>1, <2>2 DEF ShapeInv
  <1>2. \A q \in Requests : req'[q].kind # "attach" => req'[q].cert # NoCert
    BY <1>1 DEF ShapeInv, Cert
  <1>3. ASSUME NEW p \in Requests, NEW q \in Requests, Makes(p)', Makes(q)', p # q
        PROVE  req'[p].cert # req'[q].cert
    <2>1. Makes(p) /\ Makes(q)
      BY <1>1, <1>3 DEF Makes
    <2>2. Cert(p) # Cert(q)
      BY <1>3, <2>1 DEF ShapeInv
    <2> QED
      BY <1>1, <2>2 DEF Cert
  <1> QED
    BY <1>1, <1>2, <1>3 DEF ShapeInv, Cert

LEMMA ShapeStep ==
    ASSUME TypeOK, ShapeInv, CountInv, NEW r \in Requests, Get(r) \/ Insert(r) \/ Steps(r)
    PROVE  ShapeInv'
  <1>1. req[r].kind \in Kinds /\ Path(req[r].kind, req[r].pc)
    BY RequestFacts DEF ShapeInv
  <1>2. CASE Get(r)
    BY <1>1, <1>2, GetMoves, ShapeKept DEF Path, Kinds
  <1>3. CASE Insert(r)
    BY <1>1, <1>3, InsertMoves, ShapeKept DEF Path, Kinds, Makes
  <1>4. CASE StartCertbot(r) /\ req' # req
    BY <1>1, <1>4, StartMoves, ShapeKept DEF Path, Kinds
  <1>5. CASE req' = req
    BY <1>5 DEF ShapeInv, Makes, Cert
  <1>6. ASSUME NEW fails \in {FALSE, MayFail}, EndCertbot(r, fails) PROVE ShapeInv'
    BY <1>1, <1>6, EndMoves, FaultType, ShapeKept DEF Path, Kinds
  <1>7. ASSUME NEW fails \in {FALSE, MayFail}, ReadFile(r, fails) PROVE ShapeInv'
    BY <1>1, <1>7, ReadMoves, FaultType, ShapeKept DEF Path, Kinds, Makes
  <1>8. ASSUME NEW fails \in {FALSE, MayFail}, Patch(r, fails) PROVE ShapeInv'
    BY <1>1, <1>8, PatchMoves, FaultType, ShapeKept DEF Path, Kinds, Makes
  <1>9. ASSUME NEW fails \in {FALSE, MayFail}, Drop(r, fails) PROVE ShapeInv'
    BY <1>1, <1>9, DropMoves, FaultType, ShapeKept DEF Path, Kinds, Makes
  <1>10. ASSUME NEW fails \in {FALSE, MayFail}, Audit(r, fails) PROVE ShapeInv'
    BY <1>1, <1>10, AuditMoves, FaultType, ShapeKept DEF Path, Kinds
  <1>11. CASE Count(r) \/ AuditFailed(r)
    BY <1>1, <1>11, CountMoves, AuditFailedMoves, ShapeKept DEF Path, Kinds
  <1>12. ASSUME NEW fails \in {FALSE, MayFail}, Mark(r, fails) PROVE ShapeInv'
    BY <1>1, <1>12, MarkMoves, FaultType, ShapeKept DEF Path, Kinds
  <1>13. CASE Remove(r)
    BY <1>1, <1>13, RemoveMoves, ShapeKept DEF Path, Kinds
  <1>14. ASSUME NEW fails \in {FALSE, MayFail}, Update(r) \/ WriteChain(r) \/ WriteKey(r, fails)
         PROVE  ShapeInv'
    BY <1>1, <1>14, UploadMoves, FaultType, ShapeKept DEF Path, Kinds
  <1>15. ASSUME NEW fails \in {FALSE, MayFail}, ReloadFor(r, fails) PROVE ShapeInv'
    BY <1>1, <1>15, ReloadMoves, FaultType, ShapeKept DEF Path, Kinds
  <1>16. CASE Commit(r) \/ Configure(r)
    BY <1>1, <1>16, SaveMoves, ShapeKept DEF Path, Kinds
  <1> QED
    BY <1>2, <1>3, <1>4, <1>5, <1>6, <1>7, <1>8, <1>9, <1>10, <1>11, <1>12, <1>13, <1>14, <1>15, <1>16
      DEF Steps

-----------------------------------------------------------------------------
(* The steps that only go on: no certificate is made, deleted or attached.   *)

Calm ==
    /\ raced' = raced
    /\ \A h \in Hosts : hosts'[h].cert = hosts[h].cert
    /\ \A c \in Certs : rows'[c].state = rows[c].state
    /\ \A c \in Certs : Live(c) /\ files[c].chain > 0 => files'[c].chain > 0

\* What the invariants ask of such a step of a request.
Onward(r) ==
    /\ Moved(r) /\ req'[r].pc # "todo" /\ req[r].pc # "refused"
    /\ \/ req[r].pc # "todo" \/ req'[r].pc = "refused" \/ Cert(r) = NoCert \/ Live(Cert(r))
    /\ Makes(r) /\ req'[r].pc \in {"request", "read", "patch", "drop", "audit"} => BeingMade(r)
    /\ req[r].kind = "delete" =>
           /\ req'[r].pc \in {"audit", "remove", "rm"} => req[r].pc \in {"audit", "remove", "rm"}
           /\ req'[r].pc \notin {"count", "mark"} \/ Counting(r)'
    /\ (req'[r].pc = "commit" \/ (req[r].kind = "hostnew" /\ req'[r].pc \in {"request", "read", "patch", "audit"})) =>
           Unsaved(r) \/ Cert(r) = NoCert \/ Live(Cert(r))
    /\ Makes(r) /\ Cert(r) \in LetsEncrypt /\ req[r].pc \in {"request", "drop", "dropFailed"} =>
           req'[r].pc \in {"request", "drop", "dropFailed"} \/ files'[Cert(r)].chain > 0

\* A request that is not an attach names a certificate.
LEMMA CertOf ==
    ASSUME TypeOK, ShapeInv, NEW r \in Requests, req[r].kind # "attach"
    PROVE  Cert(r) \in Certs /\ Cert(r) # NoCert
  BY RequestFacts DEF ShapeInv

LEMMA QuietInv ==
    ASSUME TypeOK, ShapeInv, CertificateInv, req' = req, Calm
    PROVE  CertificateInv'
  <1>1. \A r \in Requests : req[r].kind # "attach" => rows'[Cert(r)].state = rows[Cert(r)].state
    BY CertOf DEF Calm
  <1>2. NewInv'
    BY <1>1 DEF CertificateInv, NewInv, Makes, At, Cert, Live, Calm
  <1>3. GoneInv'
    BY <1>1 DEF CertificateInv, GoneInv, Cert, Live
  <1>4. MakeInv'
    BY DEF CertificateInv, MakeInv, BeingMade, Makes, Cert, Calm
  <1>5. CountInv'
    BY DEF CertificateInv, CountInv, Counting, Seen, At, Cert, Calm
  <1>6. ReadyInv'
    <2>1. \A r \in Requests : Cert(r) = NoCert \/ rows'[Cert(r)].state = rows[Cert(r)].state
      BY RequestFacts DEF Calm
    <2> QED
      BY <2>1 DEF CertificateInv, ReadyInv, Unsaved, At, Cert, Live, Calm
  <1>7. LiveHasFiles'
    <2>1. \A c \in Certs : Making(c)' <=> Making(c)
      BY DEF Making, Cert
    <2> QED
      BY <2>1, CertAssumption DEF CertificateInv, LiveHasFiles, Live, Calm
  <1>8. InUseIsKept'
    <2>1. \A h \in Hosts : hosts[h].cert \in Certs \cup {NoCert}
      BY DEF TypeOK
    <2> QED
      BY <2>1 DEF CertificateInv, InUseIsKept, Live, Calm
  <1> QED
    BY <1>2, <1>3, <1>4, <1>5, <1>6, <1>7, <1>8 DEF CertificateInv

LEMMA OnwardInv ==
    ASSUME TypeOK, ShapeInv, CertificateInv, NEW r \in Requests, Onward(r), Calm
    PROVE  CertificateInv'
  <1>1. /\ \A q \in Requests \ {r} : req'[q] = req[q]
        /\ req'[r].kind = req[r].kind /\ req'[r].cert = req[r].cert
    BY DEF Onward, Moved
  <1>2. \A q \in Requests : req'[q].kind = req[q].kind /\ req'[q].cert = req[q].cert
    BY <1>1
  <1>3. \A q \in Requests : Cert(q) = NoCert \/ rows'[Cert(q)].state = rows[Cert(q)].state
    BY RequestFacts DEF Calm
  <1>4. NewInv'
    <2> SUFFICES ASSUME NEW q \in Requests, Makes(q)', At(q, "todo")'
                 PROVE  /\ ~Live(Cert(q))'
                        /\ \A h \in Hosts : hosts'[h].cert # Cert(q)'
                        /\ \A p \in Requests \ {q} :
                              Cert(p)' = Cert(q)' => req'[p].pc \in {"todo", "refused"}
      BY DEF NewInv
    <2>1. q # r /\ Makes(q) /\ At(q, "todo") /\ Cert(q)' = Cert(q) /\ Cert(q) # NoCert
      BY <1>1, <1>2, CertOf DEF Onward, At, Makes, Cert
    <2>2. /\ ~Live(Cert(q)) /\ \A h \in Hosts : hosts[h].cert # Cert(q)
          /\ \A p \in Requests \ {q} : Cert(p) = Cert(q) => req[p].pc \in {"todo", "refused"}
      BY <2>1 DEF CertificateInv, NewInv
    <2>3. ASSUME NEW p \in Requests \ {q}, Cert(p)' = Cert(q)' PROVE req'[p].pc \in {"todo", "refused"}
      <3>1. Cert(p) = Cert(q) /\ req[p].pc \in {"todo", "refused"}
        BY <1>2, <2>1, <2>2, <2>3 DEF Cert
      <3>2. CASE p # r
        BY <1>1, <3>1, <3>2
      <3>3. CASE p = r
        BY <2>1, <2>2, <3>1, <3>3 DEF Onward
      <3> QED
        BY <3>2, <3>3
    <2> QED
      BY <1>3, <2>1, <2>2, <2>3 DEF Live, Calm
  <1>5. GoneInv'
    <2> SUFFICES ASSUME NEW q \in Requests, req'[q].kind = "delete", req'[q].pc \in {"audit", "remove", "rm"}
                 PROVE  ~Live(Cert(q))'
      BY DEF GoneInv
    <2>1. req[q].kind = "delete" /\ req[q].pc \in {"audit", "remove", "rm"} /\ Cert(q)' = Cert(q)
      BY <1>1, <1>2 DEF Onward, Cert
    <2>2. ~Live(Cert(q)) /\ Cert(q) # NoCert
      BY <2>1, CertOf DEF CertificateInv, GoneInv
    <2> QED
      BY <1>3, <2>1, <2>2 DEF Live
  <1>6. MakeInv'
    <2> SUFFICES ASSUME NEW q \in Requests, NEW h \in Hosts, BeingMade(q)', hosts'[h].cert = Cert(q)'
                 PROVE  Cert(q)' \in raced'
      BY DEF MakeInv
    <2>1. BeingMade(q) /\ Cert(q)' = Cert(q) /\ hosts[h].cert = Cert(q)
      BY <1>1, <1>2 DEF Onward, BeingMade, Makes, Cert, Calm
    <2> QED
      BY <2>1 DEF CertificateInv, MakeInv, Calm
  <1>7. CountInv'
    <2> SUFFICES ASSUME NEW q \in Requests, req'[q].kind = "delete"
                 PROVE  Counting(q)'
      BY DEF CountInv
    <2>1. CASE q # r
      <3>1. req'[q] = req[q] /\ req[q].kind = "delete"
        BY <1>1, <1>2, <2>1
      <3>2. Counting(q)
        BY <3>1 DEF CertificateInv, CountInv
      <3>3. \A h \in Hosts : Seen(q, h)' <=> Seen(q, h)
        BY <3>1 DEF Seen
      <3> QED
        BY <3>1, <3>2, <3>3 DEF Counting, At, Cert, Calm
    <2>2. CASE q = r
      BY <1>1, <2>2 DEF Onward, Counting, At
    <2> QED
      BY <2>1, <2>2
  <1>8. ReadyInv'
    <2> SUFFICES ASSUME NEW q \in Requests, Unsaved(q)'
                 PROVE  Cert(q)' = NoCert \/ Live(Cert(q))' \/ Cert(q)' \in raced'
      BY DEF ReadyInv
    <2>1. Unsaved(q) \/ Cert(q) = NoCert \/ Live(Cert(q))
      <3>1. CASE q # r
        BY <1>1, <3>1 DEF Unsaved, At
      <3>2. CASE q = r
        BY <1>2, <3>2 DEF Onward, Unsaved, At
      <3> QED
        BY <3>1, <3>2
    <2>2. Cert(q) = NoCert \/ Live(Cert(q)) \/ Cert(q) \in raced
      BY <2>1 DEF CertificateInv, ReadyInv
    <2>3. Cert(q)' = Cert(q)
      BY <1>2 DEF Cert
    <2> QED
      BY <1>3, <2>2, <2>3 DEF Live, Calm
  <1>9. LiveHasFiles'
    <2> SUFFICES ASSUME NEW c \in LetsEncrypt, Live(c)', ~Making(c)'
                 PROVE  files'[c].chain > 0
      BY DEF LiveHasFiles
    <2>1. c \in Certs /\ Live(c)
      BY CertAssumption DEF Live, Calm
    <2>2. CASE ~Making(c)
      BY <2>1, <2>2 DEF CertificateInv, LiveHasFiles, Calm
    <2>3. CASE Making(c)
      <3>1. PICK q \in Requests : /\ Cert(q) = c /\ Makes(q)
                                  /\ req[q].pc \in {"request", "drop", "dropFailed"}
        BY <2>3 DEF Making, Makes
      <3>2. req'[q].pc \notin {"request", "drop", "dropFailed"}
        BY <1>2, <3>1 DEF Making, Makes, Cert
      <3>3. q = r
        BY <1>1, <3>1, <3>2
      <3> QED
        BY <3>1, <3>2, <3>3 DEF Onward
    <2> QED
      BY <2>2, <2>3
  <1>10. InUseIsKept'
    <2>1. \A h \in Hosts : hosts[h].cert \in Certs \cup {NoCert}
      BY DEF TypeOK
    <2> QED
      BY <2>1 DEF CertificateInv, InUseIsKept, Live, Calm
  <1> QED
    BY <1>4, <1>5, <1>6, <1>7, <1>8, <1>9, <1>10 DEF CertificateInv

\* A step of a request's own that only moves it on.
LEMMA GetInv ==
    ASSUME TypeOK, ShapeInv, CertificateInv, NEW r \in Requests, Get(r)
    PROVE  CertificateInv'
  <1>1. Calm
    BY DEF Get, Calm
  <1>2. req[r].kind \in Kinds
    BY RequestFacts
  <1>3. ASSUME req[r].kind = "delete", req'[r].pc \in {"count", "mark"}
        PROVE  Counting(r)'
    <2>1. req[r].pc = "todo" /\ req'[r].pc = "count" /\ req'[r].checked = req[r].checked
      BY <1>3, GetMoves
    <2>2. req[r].checked = 0
      BY <1>3, <2>1 DEF CertificateInv, CountInv, Counting, At
    <2>3. \A h \in Hosts : ~Seen(r, h)'
      BY <2>1, <2>2 DEF Seen
    <2>4. 0 < Len(Models)
      BY DEF Models
    <2> QED
      BY <2>1, <2>2, <2>3, <2>4 DEF Counting, At
  <1>4. Onward(r)
    BY <1>2, <1>3, GetMoves DEF Onward, Makes, Kinds
  <1> QED
    BY <1>1, <1>4, OnwardInv

LEMMA StartInv ==
    ASSUME TypeOK, ShapeInv, CertificateInv, NEW r \in Requests, StartCertbot(r)
    PROVE  CertificateInv'
  <1>1. Calm
    BY DEF StartCertbot, Calm
  <1>2. CASE req' = req
    BY <1>1, <1>2, QuietInv
  <1>3. CASE req' # req
    <2>1. req[r].kind \in Kinds /\ Path(req[r].kind, req[r].pc)
      BY RequestFacts DEF ShapeInv
    <2>2. Onward(r)
      BY <1>3, <2>1, StartMoves DEF Onward, Makes, BeingMade, Unsaved, Path, Kinds
    <2> QED
      BY <1>1, <2>2, OnwardInv
  <1> QED
    BY <1>2, <1>3

LEMMA EndInv ==
    ASSUME TypeOK, ShapeInv, CertificateInv, NEW r \in Requests, NEW fails \in BOOLEAN,
           EndCertbot(r, fails)
    PROVE  CertificateInv'
  <1>1. req[r].kind \in Kinds /\ Path(req[r].kind, req[r].pc) /\ Cert(r) \in Certs \cup {NoCert}
    BY RequestFacts DEF ShapeInv
  <1>2. files \in [Certs -> [chain : Nat, key : Nat]]
    BY DEF TypeOK
  <1>3. /\ req[r].pc = "request" => Makes(r)
        /\ req[r].pc = "remove" => req[r].kind = "delete"
        /\ req[r].pc \in {"supersede", "renew"} => req[r].kind = "renew"
        /\ req[r].pc \in {"request", "supersede", "renew", "remove"}
    BY <1>1, EndMoves DEF Path, Kinds, Makes
  <1>4. Cert(r) \in Certs
    BY <1>3, CertOf DEF Makes
  <1>5. Calm
    <2>1. UNCHANGED <<rows, hosts, raced>>
      BY DEF EndCertbot
    <2>2. ASSUME NEW c \in Certs, Live(c), files[c].chain > 0 PROVE files'[c].chain > 0
      <3>1. CASE files' = files
        BY <2>2, <3>1
      <3>2. CASE files' = [files EXCEPT ![Cert(r)] = Worked(req[r].pc, files[Cert(r)])]
        <4>1. CASE c # Cert(r)
          BY <1>2, <2>2, <3>2, <4>1
        <4>2. CASE c = Cert(r)
          <5>1. req[r].pc # "remove"
            BY <1>3, <2>2, <4>2 DEF CertificateInv, GoneInv
          <5>2. Worked(req[r].pc, files[c]).chain > 0
            <6>1. files[c].chain \in Nat
              BY <1>2
            <6> QED
              BY <1>3, <2>2, <5>1, <6>1 DEF Worked, Renewed
          <5> QED
            BY <1>2, <3>2, <4>2, <5>2
        <4> QED
          BY <4>1, <4>2
      <3> QED
        BY <3>1, <3>2, EndMoves
    <2> QED
      BY <2>1, <2>2 DEF Calm
  <1>6. req[r].pc = "request" /\ req'[r].pc = "read" => files'[Cert(r)].chain > 0
    <2>1. SUFFICES ASSUME req[r].pc = "request", req'[r].pc = "read"
                   PROVE  files'[Cert(r)].chain > 0
      OBVIOUS
    <2>2. files' = [files EXCEPT ![Cert(r)] = [chain |-> 1, key |-> 1]]
      BY <2>1, EndMoves
    <2> QED
      BY <1>2, <1>4, <2>2
  <1>7. Onward(r)
    BY <1>3, <1>6, EndMoves DEF Onward, Makes, BeingMade, Unsaved
  <1> QED
    BY <1>5, <1>7, OnwardInv

LEMMA ReadInv ==
    ASSUME TypeOK, ShapeInv, CertificateInv, NEW r \in Requests, NEW fails \in BOOLEAN,
           ReadFile(r, fails)
    PROVE  CertificateInv'
  <1>1. Calm
    BY DEF ReadFile, Calm
  <1>2. req[r].kind \in Kinds /\ Path(req[r].kind, req[r].pc)
    BY RequestFacts DEF ShapeInv
  <1>3. Onward(r)
    BY <1>2, ReadMoves DEF Onward, Makes, BeingMade, Unsaved, Path, Kinds
  <1> QED
    BY <1>1, <1>3, OnwardInv

LEMMA PatchInv ==
    ASSUME TypeOK, ShapeInv, CertificateInv, NEW r \in Requests, NEW fails \in BOOLEAN,
           Patch(r, fails)
    PROVE  CertificateInv'
  <1>1. req[r].kind \in Kinds /\ Path(req[r].kind, req[r].pc) /\ req[r].version \in Nat
    BY RequestFacts DEF ShapeInv
  <1>2. \A c \in Certs : rows'[c].state = rows[c].state
    <2>1. rows' = rows \/ rows' = [rows EXCEPT ![Cert(r)].expires = req[r].version]
      BY DEF Patch
    <2> QED
      BY <1>1, <2>1, RequestFacts, ExpiresKept
  <1>3. Calm
    BY <1>2 DEF Patch, Calm
  <1>4. Onward(r)
    BY <1>1, PatchMoves DEF Onward, Makes, BeingMade, Unsaved, Path, Kinds
  <1> QED
    BY <1>3, <1>4, OnwardInv

LEMMA AuditInv ==
    ASSUME TypeOK, ShapeInv, CertificateInv, NEW r \in Requests, NEW fails \in BOOLEAN,
           Audit(r, fails)
    PROVE  CertificateInv'
  <1>1. Calm
    BY DEF Audit, Calm
  <1>2. req[r].kind \in Kinds /\ Path(req[r].kind, req[r].pc)
    BY RequestFacts DEF ShapeInv
  <1>3. Onward(r)
    BY <1>2, AuditMoves DEF Onward, Makes, BeingMade, Unsaved, Path, Kinds
  <1> QED
    BY <1>1, <1>3, OnwardInv

LEMMA AuditFailedInv ==
    ASSUME TypeOK, ShapeInv, CertificateInv, NEW r \in Requests, AuditFailed(r)
    PROVE  CertificateInv'
  <1>1. Calm
    BY DEF AuditFailed, Calm
  <1>2. Onward(r)
    BY AuditFailedMoves DEF Onward, Makes, BeingMade, Unsaved
  <1> QED
    BY <1>1, <1>2, OnwardInv

LEMMA RemoveInv ==
    ASSUME TypeOK, ShapeInv, CertificateInv, NEW r \in Requests, Remove(r)
    PROVE  CertificateInv'
  <1>1. req[r].kind = "delete" /\ req[r].pc = "rm"
    BY RemoveMoves
  <1>2. Cert(r) \in Certs /\ ~Live(Cert(r))
    BY <1>1, CertOf DEF CertificateInv, GoneInv
  <1>3. Calm
    <2>1. \A c \in Certs \ {Cert(r)} : files'[c] = files[c]
      BY <1>2 DEF Remove, TypeOK
    <2> QED
      BY <1>2, <2>1 DEF Remove, Calm
  <1>4. Onward(r)
    BY <1>1, RemoveMoves DEF Onward, Makes, BeingMade, Unsaved
  <1> QED
    BY <1>3, <1>4, OnwardInv

\* The steps of an upload.
LEMMA UploadInv ==
    ASSUME TypeOK, ShapeInv, CertificateInv, NEW r \in Requests, NEW fails \in BOOLEAN,
           Update(r) \/ WriteChain(r) \/ WriteKey(r, fails)
    PROVE  CertificateInv'
  <1>1. req[r].kind = "upload" /\ Cert(r) \in Certs /\ r \in Nat
    BY UploadMoves, CertOf, RequestAssumption
  <1>2. Calm
    <2>1. CASE Update(r)
      <3>1. rows' = rows \/ rows' = [rows EXCEPT ![Cert(r)].expires = 1 + r]
        BY <2>1 DEF Update
      <3>2. \A c \in Certs : rows'[c].state = rows[c].state
        BY <1>1, <3>1, ExpiresKept
      <3> QED
        BY <2>1, <3>2 DEF Update, Calm
    <2>2. CASE WriteChain(r)
      <3>1. files' = [files EXCEPT ![Cert(r)] = [files[Cert(r)] EXCEPT !.chain = 1 + r]]
        BY <2>2 DEF WriteChain
      <3>2. \A c \in Certs : files[c].chain > 0 => files'[c].chain > 0
        BY <1>1, <3>1 DEF TypeOK
      <3> QED
        BY <2>2, <3>2 DEF WriteChain, Calm
    <2>3. CASE WriteKey(r, fails)
      <3>1. files' = files \/ files' = [files EXCEPT ![Cert(r)] = [files[Cert(r)] EXCEPT !.key = 1 + r]]
        BY <2>3 DEF WriteKey
      <3>2. \A c \in Certs : files'[c].chain = files[c].chain
        <4>1. files \in [Certs -> [chain : Nat, key : Nat]]
          BY DEF TypeOK
        <4> QED
          BY <1>1, <3>1, <4>1
      <3> QED
        BY <2>3, <3>2 DEF WriteKey, Calm
    <2> QED
      BY <2>1, <2>2, <2>3
  <1>3. Onward(r)
    BY <1>1, UploadMoves DEF Onward, Makes, BeingMade, Unsaved
  <1> QED
    BY <1>2, <1>3, OnwardInv

LEMMA ReloadInv ==
    ASSUME TypeOK, ShapeInv, CertificateInv, NEW r \in Requests, NEW fails \in BOOLEAN,
           ReloadFor(r, fails)
    PROVE  CertificateInv'
  <1>1. Calm
    BY DEF ReloadFor, Calm
  <1>2. Onward(r)
    BY ReloadMoves DEF Onward, Makes, BeingMade, Unsaved
  <1> QED
    BY <1>1, <1>2, OnwardInv

LEMMA ConfigureInv ==
    ASSUME TypeOK, ShapeInv, CertificateInv, NEW r \in Requests, Configure(r)
    PROVE  CertificateInv'
  <1>1. hosts \in [Hosts -> [cert : Certs \cup {NoCert}, online : BOOLEAN]] /\ req[r].host \in Hosts
    BY RequestFacts DEF TypeOK
  <1>2. \A h \in Hosts : hosts'[h].cert = hosts[h].cert
    <2>1. PICK b \in BOOLEAN : hosts' = [hosts EXCEPT ![req[r].host] = [hosts[req[r].host] EXCEPT !.online = b]]
      <3>1. \/ hosts' = [hosts EXCEPT ![req[r].host].online = TRUE]
            \/ hosts' = [hosts EXCEPT ![req[r].host].online = FALSE]
        BY DEF Configure
      <3> QED
        BY <3>1
    <2> QED
      BY <1>1, <2>1
  <1>3. Calm
    BY <1>2 DEF Configure, Calm
  <1>4. req[r].pc = "configure"
    BY DEF Configure, At
  <1>5. Onward(r)
    BY <1>4, SaveMoves DEF Onward, Makes, BeingMade, Unsaved
  <1> QED
    BY <1>3, <1>5, OnwardInv

\* A table is counted.
LEMMA CountingInv ==
    ASSUME TypeOK, ShapeInv, CertificateInv, NEW r \in Requests, Count(r)
    PROVE  CertificateInv'
  <1>1. Calm
    BY DEF Count, Calm
  <1>2. /\ req[r].kind = "delete" /\ req[r].pc = "count" /\ Counting(r) /\ Moved(r)
        /\ req[r].checked \in 0..3 /\ req'[r].checked = req[r].checked + 1
        /\ \/ req'[r].pc = "refused"
           \/ /\ req'[r].pc = IF req'[r].checked = 4 THEN "mark" ELSE "count"
              /\ ~Uses(Models[req[r].checked + 1], Cert(r))
    BY CountMoves, RequestFacts DEF CertificateInv, CountInv
  <1>3. ASSUME req'[r].pc \in {"count", "mark"} PROVE Counting(r)'
    <2>1. ASSUME NEW h \in Hosts, Seen(r, h)', hosts'[h].cert = Cert(r)' PROVE Cert(r)' \in raced'
      <3>1. hosts[h].cert = Cert(r) /\ Cert(r)' = Cert(r) /\ raced' = raced
        BY <1>1, <1>2, <2>1 DEF Moved, Cert, Calm
      <3>2. PICK i \in 1..(req[r].checked + 1) : ModelOf[h] = Models[i]
        BY <1>2, <2>1 DEF Seen
      <3>3. i # req[r].checked + 1
        BY <1>2, <1>3, <3>1, <3>2 DEF Uses
      <3>4. i \in 1..req[r].checked
        BY <1>2, <3>2, <3>3
      <3>5. Seen(r, h)
        BY <3>2, <3>4 DEF Seen
      <3> QED
        BY <1>2, <3>1, <3>5 DEF Counting
    <2>2. Len(Models) = 4
      BY DEF Models
    <2> QED
      BY <1>2, <1>3, <2>1, <2>2 DEF Counting, At
  <1>4. Onward(r)
    BY <1>2, <1>3 DEF Onward, Makes, BeingMade, Unsaved
  <1> QED
    BY <1>1, <1>4, OnwardInv

-----------------------------------------------------------------------------
(* The steps that make, delete and attach a certificate.                     *)

\* What the others are about stays as it was.
LEMMA OthersKept ==
    ASSUME NEW r \in Requests, Moved(r)
    PROVE  /\ \A q \in Requests : Cert(q)' = Cert(q) /\ (Makes(q)' <=> Makes(q)) /\ req'[q].kind = req[q].kind
           /\ \A q \in Requests : q # r => req'[q] = req[q]
  <1>1. \A q \in Requests : req'[q].kind = req[q].kind /\ req'[q].cert = req[q].cert
    BY DEF Moved
  <1> QED
    BY <1>1 DEF Moved, Cert, Makes

\* A request that does not move counts as before.
LEMMA CountingKept ==
    ASSUME NEW q \in Requests, req'[q] = req[q], Counting(q), raced \subseteq raced',
           \A h \in Hosts : hosts'[h].cert = hosts[h].cert \/ hosts'[h].cert # Cert(q) \/ Cert(q) \in raced'
    PROVE  Counting(q)'
  <1>1. \A h \in Hosts : Seen(q, h)' <=> Seen(q, h)
    BY DEF Seen
  <1>2. Cert(q)' = Cert(q)
    BY DEF Cert
  <1>3. ASSUME NEW h \in Hosts, req'[q].pc \in {"count", "mark"}, Seen(q, h)', hosts'[h].cert = Cert(q)'
        PROVE  Cert(q)' \in raced'
    BY <1>1, <1>2, <1>3 DEF Counting
  <1> QED
    BY <1>3 DEF Counting, At

LEMMA InsertInv ==
    ASSUME TypeOK, ShapeInv, CertificateInv, NEW r \in Requests, Insert(r)
    PROVE  CertificateInv'
  <1>1. /\ Makes(r) /\ At(r, "todo") /\ Moved(r) /\ UNCHANGED <<files, hosts, raced>>
        /\ rows' = [rows EXCEPT ![Cert(r)] = [state |-> "live", expires |-> 0]]
        /\ req'[r].pc = IF Cert(r) \in LetsEncrypt THEN "request" ELSE "audit"
    BY InsertMoves DEF Insert, At
  <1>2. /\ \A h \in Hosts : hosts[h].cert # Cert(r)
        /\ \A q \in Requests \ {r} : Cert(q) = Cert(r) => req[q].pc \in {"todo", "refused"}
    BY <1>1 DEF CertificateInv, NewInv
  <1>3. /\ \A q \in Requests : Cert(q)' = Cert(q) /\ (Makes(q)' <=> Makes(q)) /\ req'[q].kind = req[q].kind
        /\ \A q \in Requests : q # r => req'[q] = req[q]
    BY <1>1, OthersKept
  <1>4. Cert(r) \in Certs
    BY <1>1, CertOf DEF Makes
  <1>5. /\ \A c \in Certs : Live(c) => Live(c)'
        /\ \A c \in Certs \ {Cert(r)} : Live(c)' => Live(c)
        /\ Live(Cert(r))'
    <2>1. rows \in [Certs -> [state : {"none", "live", "deleted"}, expires : Nat]]
      BY DEF TypeOK
    <2> QED
      BY <1>1, <1>4, <2>1, <1>3 DEF Live
  <1>6. \A q \in Requests : req[q].kind # "attach" => Cert(q) \in Certs
    BY CertOf
  <1>7. NewInv'
    <2> SUFFICES ASSUME NEW q \in Requests, Makes(q)', At(q, "todo")'
                 PROVE  /\ ~Live(Cert(q))'
                        /\ \A h \in Hosts : hosts'[h].cert # Cert(q)'
                        /\ \A p \in Requests \ {q} :
                              Cert(p)' = Cert(q)' => req'[p].pc \in {"todo", "refused"}
      BY DEF NewInv
    <2>1. q # r /\ Makes(q) /\ At(q, "todo") /\ Cert(q)' = Cert(q)
      BY <1>1, <1>3 DEF At
    <2>2. Cert(q) # Cert(r) /\ Cert(q) \in Certs
      BY <1>1, <1>6, <2>1 DEF ShapeInv, Makes
    <2>3. /\ ~Live(Cert(q)) /\ \A h \in Hosts : hosts[h].cert # Cert(q)
          /\ \A p \in Requests \ {q} : Cert(p) = Cert(q) => req[p].pc \in {"todo", "refused"}
      BY <2>1 DEF CertificateInv, NewInv
    <2>4. ~Live(Cert(q))'
      BY <1>5, <2>1, <2>2, <2>3
    <2> QED
      BY <1>1, <1>3, <2>1, <2>2, <2>3, <2>4
  <1>8. GoneInv'
    <2> SUFFICES ASSUME NEW q \in Requests, req'[q].kind = "delete", req'[q].pc \in {"audit", "remove", "rm"}
                 PROVE  ~Live(Cert(q))'
      BY DEF GoneInv
    <2>1. q # r /\ req'[q] = req[q] /\ Cert(q)' = Cert(q)
      BY <1>1, <1>3 DEF Makes
    <2>2. ~Live(Cert(q)) /\ Cert(q) # Cert(r) /\ Cert(q) \in Certs
      BY <1>2, <1>6, <2>1 DEF CertificateInv, GoneInv
    <2> QED
      BY <1>5, <2>1, <2>2
  <1>9. MakeInv'
    <2> SUFFICES ASSUME NEW q \in Requests, NEW h \in Hosts, BeingMade(q)', hosts'[h].cert = Cert(q)'
                 PROVE  Cert(q)' \in raced'
      BY DEF MakeInv
    <2>1. q # r
      BY <1>1, <1>2, <1>3
    <2> QED
      BY <1>1, <1>3, <2>1 DEF CertificateInv, MakeInv, BeingMade
  <1>10. CountInv'
    <2> SUFFICES ASSUME NEW q \in Requests, req'[q].kind = "delete"
                 PROVE  Counting(q)'
      BY DEF CountInv
    <2>1. q # r /\ Counting(q) /\ req'[q] = req[q]
      BY <1>1, <1>3 DEF CertificateInv, CountInv, Makes
    <2> QED
      BY <1>1, <2>1, CountingKept
  <1>11. ReadyInv'
    <2> SUFFICES ASSUME NEW q \in Requests, Unsaved(q)', q # r
                 PROVE  Cert(q)' = NoCert \/ Live(Cert(q))' \/ Cert(q)' \in raced'
      BY <1>3, <1>5 DEF ReadyInv
    <2>1. Unsaved(q) /\ Cert(q)' = Cert(q) /\ Cert(q) \in Certs \cup {NoCert}
      BY <1>3, RequestFacts DEF Unsaved, At
    <2>2. Cert(q) = NoCert \/ Live(Cert(q)) \/ Cert(q) \in raced
      BY <2>1 DEF CertificateInv, ReadyInv
    <2> QED
      BY <1>1, <1>5, <2>1, <2>2
  <1>12. LiveHasFiles'
    <2> SUFFICES ASSUME NEW c \in LetsEncrypt, Live(c)', ~Making(c)'
                 PROVE  files'[c].chain > 0
      BY DEF LiveHasFiles
    <2>1. c # Cert(r)
      BY <1>1, <1>3 DEF Making, Makes
    <2>2. Live(c)
      BY <1>5, <2>1, CertAssumption
    <2>3. ~Making(c)
      <3>1. SUFFICES ASSUME NEW q \in Requests, Cert(q) = c, Makes(q),
                            req[q].pc \in {"request", "drop", "dropFailed"}
                     PROVE  FALSE
        BY DEF Making, Makes
      <3>2. q # r
        BY <2>1, <3>1
      <3> QED
        BY <1>3, <3>1, <3>2 DEF Making, Makes
    <2> QED
      BY <1>1, <2>2, <2>3 DEF CertificateInv, LiveHasFiles
  <1>13. InUseIsKept'
    <2>1. \A h \in Hosts : hosts[h].cert \in Certs \cup {NoCert}
      BY DEF TypeOK
    <2> QED
      BY <1>1, <1>5, <2>1 DEF CertificateInv, InUseIsKept
  <1> QED
    BY <1>7, <1>8, <1>9, <1>10, <1>11, <1>12, <1>13 DEF CertificateInv

\* The row of a certificate no host has, unless it got it meanwhile, goes or
\* stays.
LEMMA GoesInv ==
    ASSUME TypeOK, ShapeInv, CertificateInv, NEW r \in Requests, Moved(r), UNCHANGED <<files, hosts>>,
           raced' = raced \cup (IF Attaching(r) THEN {Cert(r)} ELSE {}),
           \A c \in Certs : Live(c)' => Live(c),
           \A c \in Certs \ {Cert(r)} : Live(c) => Live(c)',
           Cert(r) \in Certs, req[r].pc \notin {"todo", "refused"},
           \A h \in Hosts : hosts[h].cert = Cert(r) => Cert(r) \in raced,
           \/ req[r].kind = "delete" /\ req'[r].pc \in {"failed", "audit"}
           \/ Makes(r) /\ req'[r].pc \in {"failed", "dropFailed"},
           req[r].kind = "delete" /\ req'[r].pc = "audit" => ~Live(Cert(r))',
           Makes(r) /\ req'[r].pc = "failed" => ~Live(Cert(r))'
    PROVE  CertificateInv'
  <1>1. /\ \A q \in Requests : Cert(q)' = Cert(q) /\ (Makes(q)' <=> Makes(q)) /\ req'[q].kind = req[q].kind
        /\ \A q \in Requests : q # r => req'[q] = req[q]
    BY OthersKept
  <1>2. \A q \in Requests : req[q].kind # "attach" => Cert(q) \in Certs
    BY CertOf
  <1>3. NewInv'
    <2> SUFFICES ASSUME NEW q \in Requests, Makes(q)', At(q, "todo")'
                 PROVE  /\ ~Live(Cert(q))'
                        /\ \A h \in Hosts : hosts'[h].cert # Cert(q)'
                        /\ \A p \in Requests \ {q} :
                              Cert(p)' = Cert(q)' => req'[p].pc \in {"todo", "refused"}
      BY DEF NewInv
    <2>1. q # r /\ Makes(q) /\ At(q, "todo") /\ Cert(q)' = Cert(q)
      BY <1>1 DEF At
    <2>2. /\ ~Live(Cert(q)) /\ \A h \in Hosts : hosts[h].cert # Cert(q)
          /\ \A p \in Requests \ {q} : Cert(p) = Cert(q) => req[p].pc \in {"todo", "refused"}
      BY <2>1 DEF CertificateInv, NewInv
    <2>3. ~Live(Cert(q))'
      BY <1>2, <2>1, <2>2 DEF Makes
    <2> QED
      BY <1>1, <2>1, <2>2, <2>3
  <1>4. GoneInv'
    <2> SUFFICES ASSUME NEW q \in Requests, req'[q].kind = "delete", req'[q].pc \in {"audit", "remove", "rm"},
                        q # r
                 PROVE  ~Live(Cert(q))'
      BY <1>1 DEF GoneInv, Makes
    <2>1. req[q].kind = "delete" /\ ~Live(Cert(q)) /\ Cert(q)' = Cert(q)
      BY <1>1 DEF CertificateInv, GoneInv
    <2> QED
      BY <1>2, <2>1
  <1>5. MakeInv'
    <2> SUFFICES ASSUME NEW q \in Requests, NEW h \in Hosts, BeingMade(q)', hosts'[h].cert = Cert(q)'
                 PROVE  Cert(q)' \in raced'
      BY DEF MakeInv
    <2>1. q # r
      BY <1>1 DEF BeingMade, Makes
    <2> QED
      BY <1>1, <2>1 DEF CertificateInv, MakeInv, BeingMade
  <1>6. CountInv'
    <2> SUFFICES ASSUME NEW q \in Requests, req'[q].kind = "delete"
                 PROVE  Counting(q)'
      BY DEF CountInv
    <2>1. CASE q = r
      BY <1>1, <2>1 DEF Counting, At, Makes
    <2>2. CASE q # r
      <3>1. Counting(q) /\ req'[q] = req[q]
        BY <1>1, <2>2 DEF CertificateInv, CountInv
      <3> QED
        BY <3>1, CountingKept
    <2> QED
      BY <2>1, <2>2
  <1>7. ReadyInv'
    <2> SUFFICES ASSUME NEW q \in Requests, Unsaved(q)'
                 PROVE  Cert(q)' = NoCert \/ Live(Cert(q))' \/ Cert(q)' \in raced'
      BY DEF ReadyInv
    <2>1. q # r
      BY <1>1 DEF Unsaved, At, Makes
    <2>2. Unsaved(q) /\ Cert(q)' = Cert(q) /\ Cert(q) \in Certs \cup {NoCert}
      BY <1>1, <2>1, RequestFacts DEF Unsaved, At
    <2>3. Cert(q) = NoCert \/ Live(Cert(q)) \/ Cert(q) \in raced
      BY <2>2 DEF CertificateInv, ReadyInv
    <2>4. Cert(q) = Cert(r) => Attaching(r)
      BY <2>1, <2>2 DEF Unsaved, Attaching
    <2> QED
      BY <2>2, <2>3, <2>4
  <1>8. LiveHasFiles'
    <2> SUFFICES ASSUME NEW c \in LetsEncrypt, Live(c)', ~Making(c)'
                 PROVE  files'[c].chain > 0
      BY DEF LiveHasFiles
    <2>1. Live(c)
      BY CertAssumption
    <2>2. ~Making(c)
      <3>1. SUFFICES ASSUME NEW q \in Requests, Cert(q) = c, Makes(q),
                            req[q].pc \in {"request", "drop", "dropFailed"}
                     PROVE  FALSE
        BY DEF Making, Makes
      <3>2. req'[q].pc \in {"request", "drop", "dropFailed"}
        BY <1>1, <3>1 DEF Makes
      <3> QED
        BY <1>1, <3>1, <3>2 DEF Making, Makes
    <2> QED
      BY <2>1, <2>2 DEF CertificateInv, LiveHasFiles
  <1>9. InUseIsKept'
    <2>1. \A h \in Hosts : hosts[h].cert \in Certs \cup {NoCert}
      BY DEF TypeOK
    <2> QED
      BY <2>1 DEF CertificateInv, InUseIsKept
  <1> QED
    BY <1>3, <1>4, <1>5, <1>6, <1>7, <1>8, <1>9 DEF CertificateInv

LEMMA DropInv ==
    ASSUME TypeOK, ShapeInv, CertificateInv, NEW r \in Requests, NEW fails \in BOOLEAN, Drop(r, fails)
    PROVE  CertificateInv'
  <1>1. /\ Makes(r) /\ req[r].pc = "drop" /\ Moved(r) /\ UNCHANGED <<files, hosts>>
        /\ raced' = raced \cup (IF Attaching(r) THEN {Cert(r)} ELSE {})
        /\ rows' = IF fails THEN rows ELSE [rows EXCEPT ![Cert(r)] = [state |-> "none", expires |-> 0]]
        /\ req'[r].pc = IF fails THEN "dropFailed" ELSE "failed"
    BY DropMoves DEF Drop
  <1>2. Cert(r) \in Certs
    BY <1>1, CertOf DEF Makes
  <1>3. /\ \A c \in Certs : Live(c)' => Live(c)
        /\ \A c \in Certs \ {Cert(r)} : Live(c) => Live(c)'
        /\ ~fails => rows'[Cert(r)].state # "live"
    BY <1>1, <1>2 DEF TypeOK, Live
  <1>4. Makes(r) /\ req'[r].pc = "failed" => ~Live(Cert(r))'
    BY <1>1, <1>3, OthersKept DEF Live
  <1>5. \A h \in Hosts : hosts[h].cert = Cert(r) => Cert(r) \in raced
    BY <1>1 DEF CertificateInv, MakeInv, BeingMade
  <1> QED
    BY <1>1, <1>2, <1>3, <1>4, <1>5, GoesInv DEF Makes

LEMMA MarkInv ==
    ASSUME TypeOK, ShapeInv, CertificateInv, NEW r \in Requests, NEW fails \in BOOLEAN, Mark(r, fails)
    PROVE  CertificateInv'
  <1>1. /\ req[r].kind = "delete" /\ req[r].pc = "mark" /\ Moved(r) /\ UNCHANGED <<files, hosts>>
        /\ raced' = raced \cup (IF Attaching(r) THEN {Cert(r)} ELSE {})
        /\ rows' = IF fails THEN rows
                   ELSE [rows EXCEPT ![Cert(r)] = [rows[Cert(r)] EXCEPT !.state = "deleted"]]
        /\ req'[r].pc = IF fails THEN "failed" ELSE "audit"
    BY MarkMoves DEF Mark
  <1>2. Cert(r) \in Certs
    BY <1>1, CertOf
  <1>3. /\ \A c \in Certs : Live(c)' => Live(c)
        /\ \A c \in Certs \ {Cert(r)} : Live(c) => Live(c)'
        /\ ~fails => rows'[Cert(r)].state # "live"
    <2>1. rows \in [Certs -> [state : {"none", "live", "deleted"}, expires : Nat]]
      BY DEF TypeOK
    <2>2. ~fails => rows'[Cert(r)].state = "deleted"
      BY <1>1, <1>2, <2>1
    <2>3. \A c \in Certs \ {Cert(r)} : rows'[c] = rows[c]
      BY <1>1, <1>2, <2>1
    <2>4. fails => rows' = rows
      BY <1>1
    <2> QED
      BY <2>2, <2>3, <2>4 DEF Live
  <1>4. req'[r].pc = "audit" => ~Live(Cert(r))'
    BY <1>1, <1>3, OthersKept DEF Live
  <1>5. ASSUME NEW h \in Hosts, hosts[h].cert = Cert(r) PROVE Cert(r) \in raced
    <2>1. Counting(r) /\ req[r].checked = Len(Models)
      BY <1>1 DEF CertificateInv, CountInv, Counting, At
    <2>2. Seen(r, h)
      BY <2>1, ModelAssumption DEF Seen
    <2> QED
      BY <1>1, <1>5, <2>1, <2>2 DEF Counting
  <1> QED
    BY <1>1, <1>2, <1>3, <1>4, <1>5, GoesInv DEF Makes

LEMMA CommitInv ==
    ASSUME TypeOK, ShapeInv, CertificateInv, NEW r \in Requests, Commit(r)
    PROVE  CertificateInv'
  <1>1. /\ req[r].pc = "commit" /\ req'[r].pc = "configure" /\ req[r].kind \in {"hostnew", "attach"}
        /\ Moved(r) /\ UNCHANGED <<rows, files>>
        /\ raced' = raced \cup (IF MadeOrDeleted(r, Cert(r)) THEN {Cert(r)} ELSE {})
        /\ hosts' = [hosts EXCEPT ![req[r].host] = [cert |-> Cert(r), online |-> FALSE]]
    BY SaveMoves DEF Commit, At
  <1>2. /\ \A q \in Requests : Cert(q)' = Cert(q) /\ (Makes(q)' <=> Makes(q)) /\ req'[q].kind = req[q].kind
        /\ \A q \in Requests : q # r => req'[q] = req[q]
    BY <1>1, OthersKept
  <1>3. \A h \in Hosts : hosts'[h].cert = hosts[h].cert \/ hosts'[h].cert = Cert(r)
    BY <1>1, RequestFacts DEF TypeOK
  <1>4. \A c : Live(c)' <=> Live(c)
    BY <1>1 DEF Live
  <1>5. NewInv'
    <2> SUFFICES ASSUME NEW q \in Requests, Makes(q)', At(q, "todo")'
                 PROVE  /\ ~Live(Cert(q))'
                        /\ \A h \in Hosts : hosts'[h].cert # Cert(q)'
                        /\ \A p \in Requests \ {q} :
                              Cert(p)' = Cert(q)' => req'[p].pc \in {"todo", "refused"}
      BY DEF NewInv
    <2>1. q # r /\ Makes(q) /\ At(q, "todo") /\ Cert(q)' = Cert(q)
      BY <1>1, <1>2 DEF At
    <2>2. /\ ~Live(Cert(q)) /\ \A h \in Hosts : hosts[h].cert # Cert(q)
          /\ \A p \in Requests \ {q} : Cert(p) = Cert(q) => req[p].pc \in {"todo", "refused"}
      BY <2>1 DEF CertificateInv, NewInv
    <2>3. Cert(q) # Cert(r)
      BY <1>1, <2>1, <2>2
    <2> QED
      BY <1>1, <1>2, <1>3, <2>1, <2>2, <2>3 DEF Live
  <1>6. GoneInv'
    <2> SUFFICES ASSUME NEW q \in Requests, req'[q].kind = "delete", req'[q].pc \in {"audit", "remove", "rm"}
                 PROVE  ~Live(Cert(q))'
      BY DEF GoneInv
    <2>1. req'[q] = req[q] /\ Cert(q)' = Cert(q)
      BY <1>1, <1>2
    <2> QED
      BY <1>1, <2>1 DEF CertificateInv, GoneInv, Live
  <1>7. MakeInv'
    <2> SUFFICES ASSUME NEW q \in Requests, NEW h \in Hosts, BeingMade(q)', hosts'[h].cert = Cert(q)'
                 PROVE  Cert(q)' \in raced'
      BY DEF MakeInv
    <2>1. q # r /\ BeingMade(q) /\ Cert(q)' = Cert(q)
      BY <1>1, <1>2 DEF BeingMade
    <2>2. CASE hosts[h].cert = Cert(q)
      BY <1>1, <2>1, <2>2 DEF CertificateInv, MakeInv
    <2>3. CASE Cert(q) = Cert(r)
      <3>1. MadeOrDeleted(r, Cert(r))
        BY <2>1, <2>3 DEF MadeOrDeleted, InFlight, BeingMade, Makes
      <3> QED
        BY <1>1, <2>1, <2>3, <3>1
    <2> QED
      BY <1>3, <2>1, <2>2, <2>3
  <1>8. CountInv'
    <2> SUFFICES ASSUME NEW q \in Requests, req'[q].kind = "delete"
                 PROVE  Counting(q)'
      BY DEF CountInv
    <2>1. q # r /\ req'[q] = req[q] /\ Counting(q) /\ req[q].kind = "delete"
      BY <1>1, <1>2 DEF CertificateInv, CountInv
    <2>2. CASE req[q].pc \in {"count", "mark"}
      <3>1. Cert(q) = Cert(r) => MadeOrDeleted(r, Cert(r))
        BY <2>1, <2>2 DEF MadeOrDeleted, InFlight
      <3> QED
        BY <1>1, <1>3, <2>1, <3>1, CountingKept
    <2>3. CASE req[q].pc \notin {"count", "mark"}
      BY <2>1, <2>3 DEF Counting, At
    <2> QED
      BY <2>2, <2>3
  <1>9. ReadyInv'
    <2> SUFFICES ASSUME NEW q \in Requests, Unsaved(q)'
                 PROVE  Cert(q)' = NoCert \/ Live(Cert(q))' \/ Cert(q)' \in raced'
      BY DEF ReadyInv
    <2>1. Unsaved(q) /\ Cert(q)' = Cert(q)
      BY <1>1, <1>2 DEF Unsaved, At
    <2>2. Cert(q) = NoCert \/ Live(Cert(q)) \/ Cert(q) \in raced
      BY <2>1 DEF CertificateInv, ReadyInv
    <2> QED
      BY <1>1, <2>1, <2>2 DEF Live
  <1>10. LiveHasFiles'
    <2>1. \A c \in Certs : Making(c) => Making(c)'
      <3> SUFFICES ASSUME NEW c \in Certs, NEW q \in Requests, Cert(q) = c, Makes(q),
                          req[q].pc \in {"request", "drop", "dropFailed"}
                   PROVE  Making(c)'
        BY DEF Making, Makes
      <3> QED
        BY <1>1, <1>2 DEF Making, Makes
    <2> QED
      BY <1>1, <1>4, <2>1, CertAssumption DEF CertificateInv, LiveHasFiles
  <1>11. InUseIsKept'
    <2> SUFFICES ASSUME NEW h \in Hosts, hosts'[h].cert \notin raced' \cup {NoCert}
                 PROVE  rows'[hosts'[h].cert].state = "live"
      BY DEF InUseIsKept, Live
    <2>1. CASE hosts'[h].cert = hosts[h].cert
      BY <1>1, <2>1 DEF CertificateInv, InUseIsKept, Live
    <2>2. CASE hosts'[h].cert = Cert(r)
      BY <1>1, <2>2 DEF CertificateInv, ReadyInv, Unsaved, At, Live
    <2> QED
      BY <1>3, <2>1, <2>2
  <1> QED
    BY <1>5, <1>6, <1>7, <1>8, <1>9, <1>10, <1>11 DEF CertificateInv

-----------------------------------------------------------------------------
(* The invariant of every run.                                               *)

LEMMA InitInv == Init => CertificateInv
  <1> SUFFICES ASSUME Init
               PROVE  CertificateInv
    OBVIOUS
  <1>1. PICK s \in Scenes :
        /\ rows = [c \in Certs |-> [state |-> IF c \in s.made THEN "live" ELSE "none",
                                    expires |-> IF c \in s.made THEN 1 ELSE 0]]
        /\ files = [c \in Certs |-> IF c \in s.made THEN [chain |-> 1, key |-> 1]
                                                    ELSE [chain |-> 0, key |-> 0]]
        /\ hosts = [h \in Hosts |-> [cert |-> s.uses[h], online |-> TRUE]]
        /\ req = [r \in Requests |-> [kind |-> s.kinds[r], pc |-> "todo", cert |-> s.certs[r],
                                      host |-> s.hosts[r], checked |-> 0, version |-> 0]]
    BY DEF Init
  <1>2. /\ s.made \subseteq Certs /\ s.uses \in [Hosts -> s.made \cup {NoCert}]
        /\ \A r \in Requests : s.kinds[r] # "attach" => s.certs[r] # NoCert
        /\ \A r \in Requests : s.kinds[r] \in {"create", "hostnew"} => s.certs[r] \notin s.made
        /\ s.certs \in [Requests -> Certs \cup {NoCert}]
    BY SceneAssumption
  <1>3. /\ \A r \in Requests : /\ req[r].pc = "todo" /\ Cert(r) = s.certs[r]
                               /\ req[r].kind = s.kinds[r] /\ req[r].checked = 0
        /\ \A h \in Hosts : hosts[h].cert = s.uses[h]
        /\ \A c \in Certs : (Live(c) <=> c \in s.made) /\ (c \in s.made => files[c].chain = 1)
    BY <1>1 DEF Cert, Live
  <1>4. NewInv
    <2> SUFFICES ASSUME NEW r \in Requests, Makes(r)
                 PROVE  ~Live(Cert(r)) /\ \A h \in Hosts : hosts[h].cert # Cert(r)
      BY <1>3 DEF NewInv
    <2>1. Cert(r) \in Certs \ s.made /\ Cert(r) # NoCert
      BY <1>2, <1>3 DEF Makes
    <2> QED
      BY <1>2, <1>3, <2>1
  <1>5. GoneInv /\ MakeInv /\ CountInv /\ ReadyInv
    <2>1. GoneInv
      BY <1>3 DEF GoneInv
    <2>2. MakeInv
      BY <1>3 DEF MakeInv, BeingMade
    <2>3. CountInv
      BY <1>3 DEF CountInv, Counting, At
    <2>4. ReadyInv
      BY <1>3 DEF ReadyInv, Unsaved, At
    <2> QED
      BY <2>1, <2>2, <2>3, <2>4
  <1>6. LiveHasFiles
    BY <1>3, CertAssumption DEF LiveHasFiles
  <1>7. InUseIsKept
    BY <1>2, <1>3 DEF InUseIsKept
  <1> QED
    BY <1>4, <1>5, <1>6, <1>7 DEF CertificateInv

LEMMA RequestInv ==
    ASSUME TypeOK, ShapeInv, CertificateInv, NEW r \in Requests, Get(r) \/ Insert(r) \/ Steps(r)
    PROVE  CertificateInv'
  <1>1. CASE Get(r)
    BY <1>1, GetInv
  <1>2. CASE Insert(r)
    BY <1>2, InsertInv
  <1>3. CASE StartCertbot(r)
    BY <1>3, StartInv
  <1>4. CASE Count(r)
    BY <1>4, CountingInv
  <1>5. CASE Remove(r) \/ AuditFailed(r)
    BY <1>5, RemoveInv, AuditFailedInv
  <1>6. CASE Update(r) \/ WriteChain(r)
    <2>1. FALSE \in BOOLEAN
      OBVIOUS
    <2> QED
      BY <1>6, <2>1, UploadInv
  <1>7. CASE Commit(r)
    BY <1>7, CommitInv
  <1>8. CASE Configure(r)
    BY <1>8, ConfigureInv
  <1>9. ASSUME NEW fails \in {FALSE, MayFail},
               \/ EndCertbot(r, fails) \/ ReadFile(r, fails) \/ Patch(r, fails) \/ Drop(r, fails)
               \/ Audit(r, fails) \/ Mark(r, fails) \/ WriteKey(r, fails) \/ ReloadFor(r, fails)
        PROVE  CertificateInv'
    <2>0. fails \in BOOLEAN
      BY FaultType
    <2>1. CASE EndCertbot(r, fails)
      BY <2>0, <2>1, EndInv
    <2>2. CASE ReadFile(r, fails)
      BY <2>0, <2>2, ReadInv
    <2>3. CASE Patch(r, fails)
      BY <2>0, <2>3, PatchInv
    <2>4. CASE Drop(r, fails)
      BY <2>0, <2>4, DropInv
    <2>5. CASE Audit(r, fails)
      BY <2>0, <2>5, AuditInv
    <2>6. CASE Mark(r, fails)
      BY <2>0, <2>6, MarkInv
    <2>7. CASE WriteKey(r, fails)
      BY <2>0, <2>7, UploadInv
    <2>8. CASE ReloadFor(r, fails)
      BY <2>0, <2>8, ReloadInv
    <2> QED
      BY <1>9, <2>1, <2>2, <2>3, <2>4, <2>5, <2>6, <2>7, <2>8
  <1> QED
    BY <1>1, <1>2, <1>3, <1>4, <1>5, <1>6, <1>7, <1>8, <1>9 DEF Steps

LEMMA CertificateNext ==
    ASSUME TypeOK, ShapeInv, CertificateInv, [Next]_vars
    PROVE  TypeOK' /\ ShapeInv' /\ CertificateInv'
  <1>1. ASSUME NEW r \in Requests, Get(r) \/ Insert(r) \/ Steps(r)
        PROVE  TypeOK' /\ ShapeInv' /\ CertificateInv'
    <2>1. CountInv
      BY DEF CertificateInv
    <2> QED
      BY <1>1, <2>1, RequestType1, ShapeStep, RequestInv
  <1>2. CASE TimerSteps \/ RangesSteps \/ Publish
    <2>1. /\ TypeOK' /\ req' = req /\ hosts' = hosts /\ raced' = raced
          /\ \A c \in Certs : rows'[c].state = rows[c].state
          /\ \A c \in Certs : files[c].chain > 0 => files'[c].chain > 0
      BY <1>2, QuietSteps
    <2>2. Calm
      BY <2>1 DEF Calm
    <2>3. ShapeInv'
      BY <2>1 DEF ShapeInv, Makes, Cert
    <2> QED
      BY <2>1, <2>2, <2>3, QuietInv
  <1>3. CASE UNCHANGED vars
    <2>1. UNCHANGED <<rows, files, hosts, served, ranges, certbot, timer, req, faults, raced>>
      BY <1>3 DEF vars
    <2>2. TypeOK'
      BY <2>1 DEF TypeOK
    <2>3. ShapeInv' /\ Calm
      BY <2>1 DEF ShapeInv, Makes, Cert, Calm
    <2> QED
      BY <2>1, <2>2, <2>3, QuietInv
  <1> QED
    BY <1>1, <1>2, <1>3 DEF Next

LEMMA Inductive == Spec => [](TypeOK /\ ShapeInv /\ CertificateInv)
  <1>1. Init => TypeOK /\ ShapeInv /\ CertificateInv
    BY InitType, InitShape, InitInv
  <1>2. TypeOK /\ ShapeInv /\ CertificateInv /\ [Next]_vars => (TypeOK /\ ShapeInv /\ CertificateInv)'
    BY CertificateNext
  <1> QED
    BY <1>1, <1>2, PTL DEF Spec

\* The types hold: certbot is held by the request or the timer that runs it, and no
\* request leaves its steps (certificate.js create, update, delete, renew).
THEOREM CertificateTypes == Spec => []TypeOK
  <1>1. TypeOK /\ ShapeInv /\ CertificateInv => TypeOK
    OBVIOUS
  <1> QED
    BY <1>1, Inductive, PTL

\* A certificate that is in the database and not being made has its files, whichever
\* await failed: a request that fails drops its row, a deletion removes the files
\* after the row (certificate.js create 150-160, delete 325-346).
THEOREM CertificateFiles == Spec => []LiveHasFiles
  <1>1. TypeOK /\ ShapeInv /\ CertificateInv => LiveHasFiles
    BY DEF CertificateInv
  <1> QED
    BY <1>1, Inductive, PTL

\* A certificate a host of any table has is not deleted, unless the host got it while
\* it was deleted or made: all four tables are counted before the row is marked
\* (certificate.js delete 305-327).
THEOREM CertificateInUse == Spec => []InUseIsKept
  <1>1. TypeOK /\ ShapeInv /\ CertificateInv => InUseIsKept
    BY DEF CertificateInv
  <1> QED
    BY <1>1, Inductive, PTL
=============================================================================
