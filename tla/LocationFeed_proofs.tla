------------------------ MODULE LocationFeed_proofs ------------------------
(***************************************************************************)
(* LocationFeed, for any number of maps and positions: its types, that the *)
(* subscriptions centre one map once, and what the shared flag tells.      *)
(***************************************************************************)
EXTENDS LocationFeed, TLAPS

\* What the two properties rest on: the flag is up from the first centring on.
FeedInv ==
  /\ TypeOK
  /\ CentredOnce
  /\ FlagMeansCentred
  /\ centred # << >> => isMapDisplayed

\* A process that has just started, by Init or by Restart.
LEMMA StartedFeed ==
  /\ [m \in Maps |-> "none"] \in [Maps -> Stages]
  /\ [m \in Maps |-> NoPlace] \in [Maps -> Places \cup {NoPlace}]
  /\ Default \in Places
  /\ << >> \in Seq(Maps) /\ Len(<< >>) = 0
<1>1. [m \in Maps |-> "none"] \in [Maps -> Stages]
  BY DEF Stages
<1>2. Default \in Places
  BY FeedAssumption
<1>3. << >> \in Seq(Maps) /\ Len(<< >>) = 0
  OBVIOUS
<1> QED
  BY <1>1, <1>2, <1>3

LEMMA InitFeed == Init => FeedInv
<1> SUFFICES ASSUME Init PROVE FeedInv
  OBVIOUS
<1>1. TypeOK
  BY StartedFeed DEF Init, TypeOK, Listening
<1>2. ~isMapDisplayed /\ centred = << >>
  BY DEF Init
<1> QED
  BY <1>1, <1>2, StartedFeed DEF FeedInv, CentredOnce, FlagMeansCentred

\* A subscription that hears of a position.
LEMMA HearFeed ==
  ASSUME FeedInv, NEW m \in Maps, NEW p \in Places, Hear(m, p)
  PROVE  FeedInv'
<1>1. /\ UNCHANGED <<stage, kGooglePlex, asking, located, left>>
      /\ currentLocation' \in Places
  BY DEF Hear
<1>2. CASE Centres(p) /\ HasController(m)
  <2>1. /\ isMapDisplayed' = TRUE
        /\ centred' = Append(centred, m)
        /\ camera' \in [Maps -> Places \cup {NoPlace}]
        /\ \A k \in Maps : Listening(k) => camera'[k] \in Places
    BY <1>2 DEF Hear, Centre, MoveCamera, FeedInv, TypeOK
  <2>2. centred = << >>
    BY <1>2 DEF Centres, FeedInv
  <2>3. centred' \in Seq(Maps) /\ Len(centred') = 1 /\ centred' # << >>
    BY <2>1, <2>2
  <2> QED
    BY <1>1, <2>1, <2>3 DEF FeedInv, TypeOK, Listening, CentredOnce, FlagMeansCentred
<1>3. CASE ~(Centres(p) /\ HasController(m))
  <2>1. UNCHANGED <<camera, isMapDisplayed, centred>>
    BY <1>3 DEF Hear, Centre
  <2> QED
    BY <1>1, <2>1 DEF FeedInv, TypeOK, Listening, CentredOnce, FlagMeansCentred
<1> QED
  BY <1>2, <1>3

LEMMA NextFeed == FeedInv /\ [Next]_vars => FeedInv'
<1> SUFFICES ASSUME FeedInv, [Next]_vars PROVE FeedInv'
  OBVIOUS
<1> USE FeedAssumption DEF FeedInv, TypeOK, Listening, CentredOnce, FlagMeansCentred, Stages
<1>1. ASSUME NEW m \in Maps, OpenMap(m) PROVE FeedInv'
  BY <1>1 DEF OpenMap, Start
<1>2. ASSUME NEW m \in Maps, MapCreated(m) PROVE FeedInv'
  BY <1>2 DEF MapCreated
<1>3. ASSUME NEW m \in Maps, CloseMap(m) PROVE FeedInv'
  BY <1>3 DEF CloseMap
<1>4. ASSUME NEW m \in Maps, MyLocation(m) PROVE FeedInv'
  BY <1>4 DEF MyLocation, MoveCamera
<1>5. ASSUME NEW m \in Maps, NEW p \in Places, Hear(m, p) PROVE FeedInv'
  BY <1>5, HearFeed
<1>6. CASE FirstPosition
  BY <1>6 DEF FirstPosition
<1>7. CASE LocationDenied
  BY <1>7 DEF LocationDenied
<1>8. CASE Logout
  BY <1>8 DEF Logout
<1>9. CASE Restart
  <2> HIDE DEF FeedInv, TypeOK, CentredOnce, FlagMeansCentred, Stages
  <2>1. TypeOK'
    BY <1>9, StartedFeed DEF Restart, TypeOK, Listening
  <2>2. ~isMapDisplayed' /\ centred' = << >>
    BY <1>9 DEF Restart
  <2> QED
    BY <2>1, <2>2, StartedFeed DEF FeedInv, CentredOnce, FlagMeansCentred
<1>10. CASE UNCHANGED vars
  BY <1>10 DEF vars
<1> QED
  BY <1>1, <1>2, <1>3, <1>4, <1>5, <1>6, <1>7, <1>8, <1>9, <1>10 DEF Next

\* The variables keep their types.
THEOREM FeedTypes == Spec => []TypeOK
<1>1. FeedInv => TypeOK
  BY DEF FeedInv
<1> QED
  BY <1>1, InitFeed, NextFeed, PTL DEF Spec

\* However many maps were opened and never unsubscribed, one camera is moved,
\* once, by all their subscriptions together.
THEOREM CentresOnce == Spec => []CentredOnce
<1>1. FeedInv => CentredOnce
  BY DEF FeedInv
<1> QED
  BY <1>1, InitFeed, NextFeed, PTL DEF Spec

\* The flag is raised by a centring that took place or by a logout, never by a
\* position that came before the map was there.
THEOREM FlagIsTrue == Spec => []FlagMeansCentred
<1>1. FeedInv => FlagMeansCentred
  BY DEF FeedInv
<1> QED
  BY <1>1, InitFeed, NextFeed, PTL DEF Spec

-----------------------------------------------------------------------------
(* Where the maps nobody has moved are *)

\* They show what the static field holds.
UntouchedInv == \A m \in Maps : Untouched(m) => camera[m] = kGooglePlex

\* A step that opens no map and keeps the field moves only what it touches.
LEMMA UntouchedStay ==
  ASSUME UntouchedInv, UNCHANGED kGooglePlex,
         \A m \in Maps : Untouched(m)' => Untouched(m) /\ camera'[m] = camera[m]
  PROVE  UntouchedInv'
BY DEF UntouchedInv

\* The subscription of a map moves that map, and writes it down.
LEMMA HearTouches ==
  ASSUME FeedInv, UntouchedInv, NEW k \in Maps, NEW p \in Places, Hear(k, p)
  PROVE  UntouchedInv'
<1>1. UNCHANGED <<stage, kGooglePlex, located>>
  BY DEF Hear
<1>2. CASE Centres(p) /\ HasController(k)
  <2>1. /\ centred' = Append(centred, k) /\ centred \in Seq(Maps)
        /\ \A m \in Maps \ {k} : camera'[m] = camera[m]
    BY <1>2 DEF Hear, Centre, MoveCamera, FeedInv, TypeOK
  <2>2. /\ Len(centred) \in Nat /\ DOMAIN centred = 1 .. Len(centred)
        /\ DOMAIN centred' = 1 .. (Len(centred) + 1) /\ centred'[Len(centred) + 1] = k
        /\ \A i \in DOMAIN centred : centred'[i] = centred[i]
    BY <2>1
  <2>3. ASSUME NEW m \in Maps, Untouched(m)'
        PROVE  Untouched(m) /\ camera'[m] = camera[m]
    <3>1. m # k
      BY <2>2, <2>3 DEF Untouched
    <3>. QED BY <1>1, <2>1, <2>2, <2>3, <3>1 DEF Untouched, Listening
  <2>. QED BY <1>1, <2>3, UntouchedStay
<1>3. CASE ~(Centres(p) /\ HasController(k))
  <2>1. UNCHANGED <<camera, centred>>
    BY <1>3 DEF Hear, Centre
  <2>. QED BY <1>1, <2>1, UntouchedStay DEF Untouched, Listening
<1>. QED BY <1>2, <1>3

LEMMA UntouchedNext == FeedInv /\ UntouchedInv /\ [Next]_vars => UntouchedInv'
<1> SUFFICES ASSUME FeedInv, UntouchedInv, [Next]_vars PROVE UntouchedInv'
  OBVIOUS
<1>1. /\ stage \in [Maps -> Stages] /\ camera \in [Maps -> Places \cup {NoPlace}]
      /\ \A m \in Maps : Listening(m) => camera[m] \in Places
      /\ NoPlace \notin Places
  BY FeedAssumption DEF FeedInv, TypeOK
<1>2. ASSUME NEW k \in Maps, OpenMap(k) PROVE UntouchedInv'
  <2>1. /\ stage' = [stage EXCEPT ![k] = "shown"] /\ UNCHANGED <<centred, located>>
        /\ kGooglePlex' = Start /\ camera' = [camera EXCEPT ![k] = Start]
    BY <1>2 DEF OpenMap
  <2>2. ASSUME NEW m \in Maps, Untouched(m)'
        PROVE  camera'[m] = kGooglePlex'
    <3>1. CASE m = k
      BY <1>1, <2>1, <3>1
    <3>2. CASE m # k
      <4>1. Untouched(m)
        BY <1>1, <2>1, <2>2, <3>2 DEF Untouched, Listening
      <4>2. camera[m] = kGooglePlex /\ kGooglePlex # NoPlace
        BY <1>1, <4>1 DEF UntouchedInv, Untouched
      <4>. QED BY <1>1, <2>1, <3>2, <4>2 DEF Start
    <3>. QED BY <3>1, <3>2
  <2>. QED BY <2>2 DEF UntouchedInv
<1>3. ASSUME NEW k \in Maps, MapCreated(k) \/ CloseMap(k) PROVE UntouchedInv'
  <2>1. /\ UNCHANGED <<camera, kGooglePlex, centred, located>>
        /\ \A m \in Maps : stage'[m] # "none" => stage[m] # "none"
    BY <1>1, <1>3 DEF MapCreated, CloseMap
  <2>. QED BY <2>1, UntouchedStay DEF Untouched, Listening
<1>4. ASSUME NEW k \in Maps, MyLocation(k) PROVE UntouchedInv'
  <2>1. /\ UNCHANGED <<stage, kGooglePlex, centred>> /\ located' = located \cup {k}
        /\ \A m \in Maps \ {k} : camera'[m] = camera[m]
    BY <1>1, <1>4 DEF MyLocation, MoveCamera
  <2>. QED BY <2>1, UntouchedStay DEF Untouched, Listening
<1>5. CASE FirstPosition \/ LocationDenied \/ Logout \/ UNCHANGED vars
  <2>1. UNCHANGED <<stage, camera, kGooglePlex, centred, located>>
    BY <1>5 DEF FirstPosition, LocationDenied, Logout, vars
  <2>. QED BY <2>1, UntouchedStay DEF Untouched, Listening
<1>6. CASE Restart
  BY <1>6 DEF Restart, UntouchedInv, Untouched, Listening
<1>. QED BY <1>2, <1>3, <1>4, <1>5, <1>6, HearTouches DEF Next

\* _kGooglePlex is static and lazy, the subscriptions are never cancelled, and one
\* flag is shared by all maps: so the maps of a process that nobody has moved show
\* one place, however far the user has moved on between them.
THEOREM UntouchedMapsAgree == Spec => []UntouchedMapsAlike
<1>1. Init => UntouchedInv
  BY DEF Init, UntouchedInv, Untouched, Listening
<1>2. UntouchedInv => UntouchedMapsAlike
  BY DEF UntouchedInv, UntouchedMapsAlike
<1>. QED BY <1>1, <1>2, InitFeed, NextFeed, UntouchedNext, PTL DEF Spec
=============================================================================
