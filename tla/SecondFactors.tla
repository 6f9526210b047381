--------------------------- MODULE SecondFactors ---------------------------
(* The second factors of the account: enrollments, pending or confirmed, and   *)
(* backup codes (internal/totp.js, internal/backup-codes.js, internal/mfa.js). *)
EXTENDS TokenSessions

CONSTANTS
    StepLength,   \* the thirty seconds a verification code lasts, in ticks
    PendingLife,  \* the ten minutes to confirm an enrollment
    CodeNumbers   \* the codes of one set of backup codes (eight in the code)

ASSUME StepAssumption == StepLength \in Nat \ {0} /\ CodeNumbers \subseteq Nat

VARIABLES
    factors,  \* the auth rows of types totp and totp_pending, a secret in each
    codes     \* the auth rows of type backup_code

StepOf(t) == t \div StepLength
NoStep == -1    \* npmplus_totp_last_used_step is null

Factor(type, secret, used) == [type |-> type, secret |-> secret, used |-> used, born |-> now]
Code(type, of, n) == [type |-> type, of |-> of, n |-> n]
NoCode == Code("none", First, 0)
CodeSet(maker) == {Code("backup", maker, n) : n \in CodeNumbers}

OfType(type) == {f \in factors : f.type = type}
IsEnabled == OfType("totp") # {}
Patch(old, new) == factors' = (factors \ {old}) \cup {new}

\* otplib verify: the code of this very step, for the secret read.
Verifies(code, secret) == code = Code("totp", secret, StepOf(now))

-----------------------------------------------------------------------------
\* startSetup, enable: refused once a factor is on.
CheckOff(r) ==
    /\ At(r, "checkOff")
    /\ Goto(r, IF IsEnabled THEN "refused"
               ELSE IF req[r].kind = "setup" THEN "deletePending" ELSE "readPending")
    /\ UNCHANGED <<factors, codes>>

DeletePending(r) ==
    /\ At(r, "deletePending")
    /\ factors' = factors \ OfType("totp_pending")
    /\ Goto(r, "insertPending")
    /\ UNCHANGED codes

InsertPending(r) ==
    /\ At(r, "insertPending")
    /\ factors' = factors \cup {Factor("totp_pending", r, NoStep)}
    /\ Goto(r, "done")
    /\ UNCHANGED codes

\* enable: a pending row (the query names no order), young enough, with a code
\* of its secret.
Confirms(r, f) == now - f.born <= PendingLife /\ Verifies(req[r].code, f.secret)

ReadPending(r) ==
    /\ At(r, "readPending")
    /\ \/ OfType("totp_pending") = {} /\ Goto(r, "refused")
       \/ \E f \in OfType("totp_pending") :
            req' = [req EXCEPT ![r].pc = IF Confirms(r, f) THEN "promote" ELSE "refused",
                               ![r].row = f.secret]
    /\ UNCHANGED <<factors, codes>>

\* The conditional patch: the row must still be pending.  It takes the step of
\* the enrollment code, so that the code cannot log in as well.
Promoted(f, code) == [f EXCEPT !.type = "totp", !.used = code.n]

Promote(r) ==
    LET mine == {f \in OfType("totp_pending") : f.secret = req[r].row} IN
    /\ At(r, "promote")
    /\ \/ mine = {} /\ Goto(r, "refused") /\ UNCHANGED factors
       \/ \E f \in mine :
            /\ Patch(f, Promoted(f, req[r].code))
            /\ req' = [req EXCEPT ![r].pc = "stamp", ![r].spent = req[r].code]
    /\ UNCHANGED codes

\* ensureBackupCodes: count, then create in a transaction.
CountCodes(r) ==
    /\ At(r, "count")
    /\ Goto(r, IF codes = {} THEN "create" ELSE "cutoff")
    /\ UNCHANGED <<factors, codes>>

CreateCodes(r) ==
    /\ At(r, "create")
    /\ codes' = CodeSet(r)
    /\ Goto(r, "cutoff")
    /\ UNCHANGED factors

\* isAnyEnabled, before a factor is removed or codes are made again.
CheckOn(r) ==
    /\ At(r, "checkOn")
    /\ Goto(r, IF ~IsEnabled THEN "refused"
               ELSE IF req[r].kind = "reset" THEN "deleteFactors" ELSE "verify")
    /\ UNCHANGED <<factors, codes>>

\* verifyForLogin: a verification code against an enrollment, a backup code
\* against the rows; codes are regenerated with a verification code only.
Verify(r) ==
    /\ At(r, "verify")
    /\ \/ \E f \in OfType("totp") :
            /\ Verifies(req[r].code, f.secret)
            /\ req' = [req EXCEPT ![r].pc = "claim", ![r].row = f.secret]
       \/ req[r].code \in codes /\ req[r].kind # "regenerate" /\ Goto(r, "claim")
       \/ /\ \/ OfType("totp") = {}
             \/ \E f \in OfType("totp") : ~Verifies(req[r].code, f.secret)
          /\ req[r].code \notin codes \/ req[r].kind = "regenerate"
          /\ Goto(r, "refused")
    /\ UNCHANGED <<factors, codes>>

\* verifyCode: the step is taken if the row is still there and has not used it.
\* A defect to detect: the step of the last code counts as unused.
UnclaimedUpTo(f, step) == f.used <= step
Unclaimed(f, step) == f.used < step

ClaimStep(r, then) ==
    LET free == {f \in factors : f.secret = req[r].row /\ Unclaimed(f, req[r].code.n)} IN
    /\ At(r, "claim") /\ req[r].code.type = "totp"
    /\ \/ free = {} /\ Goto(r, "refused") /\ UNCHANGED factors
       \/ \E f \in free :
            /\ Patch(f, [f EXCEPT !.used = req[r].code.n])
            /\ req' = [req EXCEPT ![r].pc = then, ![r].spent = req[r].code]
    /\ UNCHANGED codes

\* backupCodes.verify: only the request that removes the code has used it.
Removed(code) == code \in codes

SpendCode(r, then) ==
    /\ At(r, "claim") /\ req[r].code.type = "backup"
    /\ codes' = codes \ {req[r].code}
    /\ req' = IF Removed(req[r].code)
                THEN [req EXCEPT ![r].pc = then, ![r].spent = req[r].code]
                ELSE [req EXCEPT ![r].pc = "refused"]
    /\ UNCHANGED factors

\* totp.disable
DeleteFactors(r) ==
    /\ At(r, "deleteFactors")
    /\ factors' = {}
    /\ Goto(r, IF req[r].kind = "reset" THEN "deleteCodes" ELSE "left")
    /\ UNCHANGED codes

\* disableTotp: codes stay while a factor is left.
\* A defect to detect: the codes stay behind.
LeavesCodes(r) ==
    /\ At(r, "left")
    /\ Goto(r, "done")
    /\ UNCHANGED <<factors, codes>>
LeftEnabled(r) ==
    /\ At(r, "left")
    /\ Goto(r, IF IsEnabled THEN "done" ELSE "deleteCodes")
    /\ UNCHANGED <<factors, codes>>

DeleteCodes(r) ==
    /\ At(r, "deleteCodes")
    /\ codes' = {}
    /\ Goto(r, "done")
    /\ UNCHANGED factors
=============================================================================
