--------------------------- MODULE MCAccessLists ---------------------------
(* Small instances of AccessLists: two lists, rules nginx accepts (v) and  *)
(* rules it refuses (bad).                                                 *)
EXTENDS AccessLists, TLC

CONSTANTS v, w, bad

MCRules == {v, w, bad}
MCBad == {bad}
\* Both lists exist and have the same rules at first.
MCInit == Init /\ \A l \in List : policy[l] = v
MCSpec == MCInit /\ [][Next]_vars /\ Fairness

MCSymmetry == Permutations(Req) \cup Permutations(List) \cup Permutations(Host)
=============================================================================
