---------------------------- MODULE MCNginxHosts ----------------------------
(* Small instances of NginxHosts.  Two good contents and a refused one; the *)
(* refused one asks for the name of the first good one.                     *)
EXTENDS NginxHosts, TLC

CONSTANTS a, b, bad

MCContent == {a, b, bad}
MCBad == {bad}
MCName == [c \in MCContent |-> IF c = b THEN 2 ELSE 1]
MCSymmetry == Permutations(Req)
=============================================================================
