--------------------------- MODULE MCPublishScreen ---------------------------
(* Small instances of PublishScreen for TLC. *)
EXTENDS PublishScreen, TLC

CONSTANTS here, town, nowhere, blank, filled, a, b, h1, h2

Flood      == 0
OtherEvent == 8

SomeCategories == {Flood, OtherEvent}
Found          == {here, town}
NotFound       == {nowhere}
Texts          == {blank, filled}
TwoPhotos      == {a, b}
OnePhoto       == {a}
OneText        == {blank}
OneRun         == {h1}
TwoRuns        == {h1, h2}

RunSymmetry == Permutations(TwoRuns)
=============================================================================
