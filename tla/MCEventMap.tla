------------------------------ MODULE MCEventMap ------------------------------
(* Small instances of EventMap for TLC. *)
EXTENDS EventMap, TLC

CONSTANTS e1, e2, e3, c1, c2

ThreeEvents == {e1, e2, e3}
TwoLoads    == {c1, c2}
TwoKinds    == {1, 2}

Symmetry == Permutations(Ids) \cup Permutations(Slots)
=============================================================================
