--------------------------- MODULE MCLocationFeed ---------------------------
(* A small instance of LocationFeed for TLC. *)
EXTENDS LocationFeed

CONSTANTS m1, m2, m3, barcelona, home, null

ThreeMaps   == {m1, m2, m3}
ThreePlaces == {barcelona, home, null}
=============================================================================
