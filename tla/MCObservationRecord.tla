------------------------- MODULE MCObservationRecord -------------------------
(* Small instances of ObservationRecord for TLC. *)
EXTENDS ObservationRecord

CONSTANTS climate, upload, bother, attention, empty, typed

AllScales  == {climate, upload, bother}
OneScale   == {climate}
SomeFields == {attention}
SomeTexts  == {empty, typed, Dash}
=============================================================================
