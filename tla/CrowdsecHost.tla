---------------------------- MODULE CrowdsecHost ----------------------------
(***************************************************************************)
(* CrowdSec between its users: the dashboard and the service that switches *)
(* its rule set (Crowdsec), and the bridge that brings it the addresses    *)
(* Anubis has caught (Honeypot).  A ban is taken while CrowdSec is up; a   *)
(* switch restarts it, and the bans a restart refuses stay pending.        *)
(***************************************************************************)
EXTENDS Crowdsec, Honeypot

CONSTANT PotScenes  \* which bounds of Honeypot go with which of Crowdsec

hostVars == <<vars, potVars>>

HostInit ==
    /\ Init
    /\ \E s \in PotScenes :
          budget = s.budget /\ luck = s.luck /\ PotInit(s.chances)

HostNext ==
    \/ Next /\ UNCHANGED potVars
    \/ PotNext(crowd.up) /\ UNCHANGED vars

HostSpec == HostInit /\ [][HostNext]_hostVars
=============================================================================
