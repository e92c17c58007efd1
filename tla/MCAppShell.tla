----------------------------- MODULE MCAppShell -----------------------------
(* Small instances of AppShell for TLC. *)
EXTENDS AppShell, TLC

CONSTANTS u1, u2, s1, s2

OneUser  == {u1}
TwoUsers == {u1, u2}
TwoSlots == {s1, s2}

TwoScreens   == 1 .. 2
ThreeScreens == 1 .. 3
FiveScreens  == 1 .. 5
NullContext  == 0

\* Accounts are interchangeable, and so are slots.
Symmetry      == Permutations(TwoUsers) \cup Permutations(TwoSlots)
SlotSymmetry  == Permutations(TwoSlots)
=============================================================================
