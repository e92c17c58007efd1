------------------------------ MODULE MCFloodUp ------------------------------
(* A small instance of FloodUp for TLC. *)
EXTENDS FloodUp, TLC

CONSTANTS u1, s1, s2, here, blank, a

OneUser  == {u1}
TwoSlots == {s1, s2}

ThreeScreens == 1 .. 3
NullContext  == 0

\* One category, and it asks for a description: the form alone has several.
OtherEvent     == 0
SomeCategories == {OtherEvent}
Found          == {here}
NotFound       == {}
OneText        == {blank}
OnePhoto       == {a}

\* Slots are interchangeable.
Symmetry == Permutations(TwoSlots)
=============================================================================
