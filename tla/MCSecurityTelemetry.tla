------------------------ MODULE MCSecurityTelemetry ------------------------
(* Both sources of SecurityTelemetry in one run: the firewall's file, with the *)
(* constants of the configuration, or nginx.  One time unit is 100 seconds.    *)
EXTENDS SecurityTelemetry, TLC

CONSTANTS NginxTime, NginxEvents

VARIABLE watched  \* the source of this behaviour

MCStart == {0, 3, 6}

Nginx == INSTANCE SecurityTelemetry
             WITH FromFile <- FALSE, Switches <- TRUE, StepsBack <- FALSE,
                  MaxTime <- NginxTime, MaxEvents <- NginxEvents

MCInit == Init /\ watched \in {"firewall", "nginx"}
MCNext ==
    /\ \/ watched = "firewall" /\ Next
       \/ watched = "nginx" /\ Nginx!Next
    /\ UNCHANGED watched
MCSpec == MCInit /\ [][MCNext]_<<vars, watched>>
=============================================================================
