---------------------------- MODULE MCCrowdsec ----------------------------
(* Small instances of Crowdsec: a behaviour has key changes and a restart  *)
(* of CrowdSec, or many requests to the catalogue, or two switches.        *)
EXTENDS CrowdsecHost, TLC

MCAttack == {1, 2, 4}
MCNone == [asks |-> 0, keys |-> 0, restarts |-> 0, expiries |-> 0, alerts |-> 0, faults |-> 0,
           controls |-> 0]
MCRotation == [MCNone EXCEPT !.asks = 2, !.keys = 2, !.restarts = 1, !.expiries = 1]
MCScan == [MCNone EXCEPT !.asks = 3, !.alerts = 1]
MCFault == [MCNone EXCEPT !.asks = 3, !.faults = 1]
MCSwitch == [MCNone EXCEPT !.controls = 2]
MCLuck(faults, kills, heals) == [faults |-> faults, kills |-> kills, heals |-> heals]
MCScene(b, h) == [budget |-> b, time |-> h, on |-> FALSE, luck |-> MCLuck(0, 0, 0)]
MCPlainScenes ==
    {MCScene(MCRotation, <<>>), MCScene(MCFault, <<0, 1, 1>>)}
    \cup {MCScene(MCScan, h) : h \in {<<0, 1, 1>>, <<0, 0, 1, 2>>, <<1, 1, 1, 1>>}}
    \cup {[budget |-> MCSwitch, time |-> <<>>, on |-> mode, luck |-> chance] :
              mode \in BOOLEAN, chance \in {MCLuck(2, 0, 0), MCLuck(1, 1, 0), MCLuck(1, 0, 2)}}
MCIdle == MCScene(MCNone, <<>>)
MCBusy == [MCIdle EXCEPT !.budget.controls = 1, !.luck.faults = 1]
MCScenes == MCPlainScenes \cup {MCIdle, MCBusy}

MCAddr == {"a", "b"}
MCJunk == {"junk"}
MCCalm == [catches |-> 0, resets |-> 0, cuts |-> 0, failures |-> 0, crashes |-> 0,
           bridge |-> FALSE, collector |-> FALSE]
MCBridge == [MCCalm EXCEPT !.catches = 4, !.resets = 1, !.cuts = 1, !.failures = 1, !.bridge = TRUE]
MCCollector ==
    [MCCalm EXCEPT !.catches = 4, !.resets = 2, !.crashes = 1, !.collector = TRUE]
MCPot(s, c) == [budget |-> s.budget, luck |-> s.luck, chances |-> c]
MCPotScenes ==
    {MCPot(s, MCCalm) : s \in MCPlainScenes}
    \cup {MCPot(MCIdle, c) : c \in {MCBridge, MCCollector}}
    \cup {MCPot(MCBusy, [MCCalm EXCEPT !.catches = 1, !.bridge = TRUE])}
=============================================================================
