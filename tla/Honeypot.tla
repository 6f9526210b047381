------------------------------ MODULE Honeypot ------------------------------
(***************************************************************************)
(* The addresses Anubis has caught.  Anubis appends them to a file, and    *)
(* starts it anew when it likes; nothing tells its two readers.  The       *)
(* bridge, a cron job of the host, has CrowdSec ban each address; the      *)
(* backend records each as observed.  Both keep a position, and a          *)
(* fingerprint of what lies before it.                                     *)
(*                                                                         *)
(* Sources: anubis-honeypot-ban in setup-npmplus.sh,                       *)
(* internal/anubis-reporting.js.                                           *)
(*                                                                         *)
(* Abstraction: the file is a sequence of complete lines, a position is a  *)
(* number of lines, a fingerprint the text it was made of; the last,       *)
(* incomplete line is one neither reader looks at.  The journal and the    *)
(* status of the bridge, the counters of Anubis and the removal of events  *)
(* after a week are left out.  An installation starts without position.    *)
(***************************************************************************)
EXTENDS Naturals, Sequences

CONSTANTS
    Addr,      \* addresses
    Junk,      \* lines that are no address
    LogLimit,  \* the bridge and the backend refuse a longer file: 512 KiB
    Share      \* lines the backend records at a time: 1000

ASSUME LineAssumption == LogLimit \in Nat /\ Share \in Nat

VARIABLES
    addrs,     \* honeypot.addrs; a line has an address and its number among all ever written
    lines,     \* history: how many lines were ever written
    saved,     \* the two files of the bridge: position, and fingerprint if there is one
    bridge,    \* the bridge: what it does next, its copy of the file, its position there
    banned,    \* the addresses CrowdSec has accepted
    commands,  \* history: how often each line was accepted
    cuts,      \* history: runs of the bridge that did not come to their end
    ledger,    \* the backend's row "addresses"
    observed,  \* its events
    reader,    \* its collector: what it has read
    chances    \* bounds, and which of the two readers there are

potVars == <<addrs, lines, saved, bridge, banned, commands, cuts, ledger, observed, reader, chances>>

Min2(a, b) == IF a < b THEN a ELSE b
Text0(s, k) == [i \in 1..Min2(k, Len(s)) |-> s[i].ip]

Quiet0 == [pc |-> "idle", copy |-> <<>>, pos |-> 0]
Unread == [pc |-> "idle", text |-> <<>>]
NoLedger == [gen |-> 0, offset |-> 0, print |-> <<>>, base |-> 0]

PotInit(bounds) ==
    /\ addrs = <<>> /\ lines = 0
    /\ saved = [pos |-> 0, known |-> FALSE, print |-> <<>>] /\ bridge = Quiet0
    /\ banned = {} /\ commands = <<>> /\ cuts = 0
    /\ ledger = NoLedger /\ observed = {} /\ reader = Unread
    /\ chances = bounds

May(what) == chances[what] > 0 /\ chances' = [chances EXCEPT ![what] = @ - 1]

-----------------------------------------------------------------------------
(* Anubis.                                                                 *)
Catch(ip) ==
    /\ May("catches")
    /\ addrs' = Append(addrs, [ip |-> ip, n |-> lines + 1])
    /\ lines' = lines + 1 /\ commands' = Append(commands, 0)
    /\ UNCHANGED <<saved, bridge, banned, cuts, ledger, observed, reader>>

StartAnew ==
    /\ May("resets") /\ addrs # <<>>
    /\ addrs' = <<>>
    /\ UNCHANGED <<lines, saved, bridge, banned, commands, cuts, ledger, observed, reader>>

-----------------------------------------------------------------------------
(* The bridge; a lock keeps its runs apart.                                *)

\* Mutant: the position alone says where to go on.
ResumeBySize(s) == IF saved.pos > Len(s) THEN 0 ELSE saved.pos

\* A fingerprint that does not fit says that the file was started anew.
Resume(s) ==
    IF saved.pos > Len(s) \/ (saved.known /\ Text0(s, saved.pos) # saved.print) THEN 0
    ELSE saved.pos

Run ==
    /\ chances.bridge /\ bridge.pc = "idle" /\ Len(addrs) \in 1..LogLimit
    /\ bridge' = [pc |-> "ban", copy |-> addrs, pos |-> Resume(addrs)]
    /\ UNCHANGED <<addrs, lines, saved, banned, commands, cuts, ledger, observed, reader, chances>>

Line == bridge.copy[bridge.pos + 1]
MoreLines == bridge.pc = "ban" /\ bridge.pos < Len(bridge.copy)
Accept == banned' = banned \cup {Line.ip} /\ commands' = [commands EXCEPT ![Line.n] = @ + 1]

Pass ==
    /\ MoreLines /\ Line.ip \in Junk
    /\ bridge' = [bridge EXCEPT !.pos = @ + 1]
    /\ UNCHANGED <<addrs, lines, saved, banned, commands, cuts, ledger, observed, reader, chances>>

Ban ==
    /\ MoreLines /\ Line.ip \in Addr
    /\ Accept
    /\ bridge' = [bridge EXCEPT !.pos = @ + 1]
    /\ UNCHANGED <<addrs, lines, saved, cuts, ledger, observed, reader, chances>>

\* The command fails: this line and those after it stay pending.
BanFails ==
    /\ MoreLines /\ Line.ip \in Addr
    /\ bridge' = [bridge EXCEPT !.pc = "print"]
    /\ UNCHANGED <<addrs, lines, saved, banned, commands, cuts, ledger, observed, reader>>

\* It is reported as failed after CrowdSec has accepted the ban.
BanLost ==
    /\ MoreLines /\ Line.ip \in Addr
    /\ Accept /\ cuts' = cuts + 1
    /\ bridge' = [bridge EXCEPT !.pc = "print"]
    /\ UNCHANGED <<addrs, lines, saved, ledger, observed, reader>>

NoMore ==
    /\ bridge.pc = "ban" /\ bridge.pos = Len(bridge.copy)
    /\ bridge' = [bridge EXCEPT !.pc = "print"]
    /\ UNCHANGED <<addrs, lines, saved, banned, commands, cuts, ledger, observed, reader, chances>>

SavePrint ==
    /\ bridge.pc = "print"
    /\ saved' = [saved EXCEPT !.known = TRUE, !.print = Text0(bridge.copy, bridge.pos)]
    /\ bridge' = [bridge EXCEPT !.pc = "position"]
    /\ UNCHANGED <<addrs, lines, banned, commands, cuts, ledger, observed, reader, chances>>

SavePosition ==
    /\ bridge.pc = "position"
    /\ saved' = [saved EXCEPT !.pos = bridge.pos]
    /\ bridge' = Quiet0
    /\ UNCHANGED <<addrs, lines, banned, commands, cuts, ledger, observed, reader, chances>>

\* A command other than the ban fails, or the run is killed.
CutShort ==
    /\ bridge.pc # "idle" /\ May("cuts")
    /\ bridge' = Quiet0 /\ cuts' = cuts + 1
    /\ UNCHANGED <<addrs, lines, saved, banned, commands, ledger, observed, reader>>

-----------------------------------------------------------------------------
(* The backend's collector; the next starts when the last has ended.       *)
ReadLog ==
    /\ chances.collector /\ reader.pc = "idle" /\ Len(addrs) <= LogLimit
    /\ reader' = [pc |-> "record", text |-> addrs]
    /\ UNCHANGED <<addrs, lines, saved, bridge, banned, commands, cuts, ledger, observed, chances>>

Reset(text) ==
    Len(text) < ledger.offset \/ Text0(text, ledger.offset) # ledger.print

\* Events of one generation are told apart by their place, and never recorded twice.
Events(text, gen, from, to) ==
    {[gen |-> gen, at |-> k, ip |-> text[k].ip, n |-> text[k].n] :
        k \in {i \in from + 1..to : /\ text[i].ip \in Addr
                                    /\ \A e \in observed : e.gen = gen => e.at # i}}

\* Mutant: the rest of a long file is taken as recorded.
RecordAhead ==
    LET text  == reader.text
        first == ledger = NoLedger
        new   == first \/ Reset(text)
        gen   == IF new THEN ledger.gen + 1 ELSE ledger.gen
        from  == IF first THEN Len(text) ELSE IF new THEN 0 ELSE ledger.offset
        to    == Min2(Len(text), from + Share)
    IN  /\ reader.pc = "record"
        /\ observed' = observed \cup Events(text, gen, from, to)
        /\ ledger' = [gen |-> gen, offset |-> Len(text), print |-> Text0(text, Len(text)),
                      base |-> IF new THEN from ELSE ledger.base]
        /\ reader' = Unread
        /\ UNCHANGED <<addrs, lines, saved, bridge, banned, commands, cuts, chances>>

\* One transaction.  What is in the file at first is a baseline; a file started anew is a new
\* generation, recorded from its first line.
Record ==
    LET text  == reader.text
        first == ledger = NoLedger
        new   == first \/ Reset(text)
        gen   == IF new THEN ledger.gen + 1 ELSE ledger.gen
        from  == IF first THEN Len(text) ELSE IF new THEN 0 ELSE ledger.offset
        to    == Min2(Len(text), from + Share)
    IN  /\ reader.pc = "record"
        /\ observed' = observed \cup Events(text, gen, from, to)
        /\ ledger' = [gen |-> gen, offset |-> to, print |-> Text0(text, to),
                      base |-> IF new THEN from ELSE ledger.base]
        /\ reader' = Unread
        /\ UNCHANGED <<addrs, lines, saved, bridge, banned, commands, cuts, chances>>

\* The transaction fails, or the backend dies: what was read is lost.
DropText ==
    /\ reader.pc = "record" /\ May("crashes")
    /\ reader' = Unread
    /\ UNCHANGED <<addrs, lines, saved, bridge, banned, commands, cuts, ledger, observed>>

-----------------------------------------------------------------------------
\* CrowdSec takes bans while it is up; otherwise the commands fail.
AskBan(up) ==
    \/ up /\ Ban
    \/ ~up /\ BanFails /\ UNCHANGED chances
    \/ May("failures") /\ (BanFails \/ (up /\ BanLost))

PotNext(up) ==
    \/ (\E ip \in Addr \cup Junk : Catch(ip)) \/ StartAnew
    \/ Run \/ Pass \/ AskBan(up) \/ NoMore \/ SavePrint \/ SavePosition \/ CutShort
    \/ ReadLog \/ Record \/ DropText

-----------------------------------------------------------------------------
Printed == Seq(Addr \cup Junk)
Lines == Seq([ip : Addr \cup Junk, n : Nat])

\* The file, what both readers keep of it, and the history are well-typed.
PotTypeOK ==
    /\ addrs \in Lines /\ lines \in Nat
    /\ saved \in [pos : Nat, known : BOOLEAN, print : Printed]
    /\ bridge \in [pc : {"idle", "ban", "print", "position"}, copy : Lines, pos : Nat]
    /\ bridge.pos <= Len(bridge.copy)
    /\ banned \subseteq Addr /\ commands \in Seq(Nat) /\ Len(commands) = lines /\ cuts \in Nat
    /\ ledger \in [gen : Nat, offset : Nat, print : Printed, base : Nat]
    /\ reader \in [pc : {"idle", "record"}, text : Lines]

\* However the file is started anew under the bridge and its runs fail or are killed, between the
\* two files it saves included, no address is passed over unbanned: what the next run would skip
\* has been accepted ("replays are safer than lost bans"); and a line is replayed only after a run
\* that did not come to its end.
BansKept ==
    /\ \A k \in 1..Resume(addrs) : addrs[k].ip \in banned \cup Junk
    /\ \A n \in 1..lines : commands[n] <= 1 + cuts

\* Each line is recorded as observed once, whatever text of the file the collector has read, lost
\* or read late, and none the ledger has passed since its baseline is missing.
ObservedOnce ==
    /\ \A e, f \in observed : e.n = f.n => e = f
    /\ \A k \in ledger.base + 1..ledger.offset : ledger.print[k] \in Addr =>
           \E e \in observed : e.gen = ledger.gen /\ e.at = k /\ e.ip = ledger.print[k]
=============================================================================
