---------------------------- MODULE LocationFeed ----------------------------
(***************************************************************************)
(* Where the user is: lib/globals.dart's currentLocation and               *)
(* isMapDisplayed, the first position main.dart asks for, and the          *)
(* subscription every Map opens in initState and never cancels.            *)
(*                                                                         *)
(* The first position is to centre the map once, whichever map is open     *)
(* then.  All the maps of a process share the flag that says it was done,  *)
(* and a map that was closed still listens.  Which of the subscriptions    *)
(* the plugin serves, and in which order, is left open.                    *)
(***************************************************************************)
EXTENDS Naturals, Sequences

CONSTANTS
  Maps,      \* bound: the Map pages opened by one process
  Places,    \* positions
  Default,   \* the position currentLocation is declared with
  Nowhere,   \* a position with a zero coordinate
  NoPlace    \* no camera, or a static field not read so far

ASSUME FeedAssumption ==
  {Default, Nowhere} \subseteq Places /\ NoPlace \notin Places

VARIABLES
  stage,            \* the life of each Map, see Stages
  camera,           \* what each map shows
  currentLocation,  \* globals.currentLocation
  isMapDisplayed,   \* globals.isMapDisplayed
  kGooglePlex,      \* _MapState._kGooglePlex, evaluated when first read
  asking,           \* is initPlatformState at its await?
  centred,          \* history: the maps the subscriptions have moved
  located,          \* history: the maps whose "my location" button was pressed
  left              \* history: was there a logout?

vars == <<stage, camera, currentLocation, isMapDisplayed, kGooglePlex, asking,
          centred, located, left>>

\* "shown": built, its map_controller null; "created": onMapCreated was called;
\* the others are disposed, before and after that.
Stages == {"none", "shown", "created", "closedEarly", "closed"}

Listening(m)     == stage[m] # "none"
HasController(m) == stage[m] \in {"created", "closed"}

\* (Mutant: the field is not static, so that each map starts where the user is.)
StartOfEach == currentLocation

\* (Mutant: the field has no initializer.)
StartUnset == kGooglePlex

\* initialCameraPosition.
Start == IF kGooglePlex = NoPlace THEN currentLocation ELSE kGooglePlex

-----------------------------------------------------------------------------
\* A Map is pushed and built.
OpenMap(m) ==
  /\ stage[m] = "none"
  /\ stage' = [stage EXCEPT ![m] = "shown"]
  /\ kGooglePlex' = Start
  /\ camera' = [camera EXCEPT ![m] = Start]
  /\ UNCHANGED <<currentLocation, isMapDisplayed, asking, centred, located, left>>

\* onMapCreated, called when the platform's view is ready; the page may be gone.
MapCreated(m) ==
  /\ stage[m] \in {"shown", "closedEarly"}
  /\ stage' = [stage EXCEPT ![m] = IF @ = "shown" THEN "created" ELSE "closed"]
  /\ UNCHANGED <<camera, currentLocation, isMapDisplayed, kGooglePlex, asking,
                 centred, located, left>>

\* The page goes; its subscription stays.
CloseMap(m) ==
  /\ stage[m] \in {"shown", "created"}
  /\ stage' = [stage EXCEPT ![m] = IF @ = "shown" THEN "closedEarly" ELSE "closed"]
  /\ UNCHANGED <<camera, currentLocation, isMapDisplayed, kGooglePlex, asking,
                 centred, located, left>>

\* moveCamera; for a disposed map the platform has nothing to move.
MoveCamera(m, p) ==
  camera' = IF stage[m] = "created" THEN [camera EXCEPT ![m] = p] ELSE camera

\* A position that centres a map that has no controller yet ends in an
\* exception between the assignments of currentLocation and isMapDisplayed.
Centres(p) == p # Nowhere /\ ~isMapDisplayed

\* (Mutants: the flag is set before the camera is moved; the handler does not
\* ask for the flag; the test for a zero coordinate is inverted.)
CentreFlagFirst(m, p) ==
  IF Centres(p)
  THEN /\ isMapDisplayed' = TRUE
       /\ IF HasController(m) THEN MoveCamera(m, p) /\ centred' = Append(centred, m)
                              ELSE UNCHANGED <<camera, centred>>
  ELSE UNCHANGED <<camera, isMapDisplayed, centred>>

CentreAlways(m, p) ==
  IF p # Nowhere /\ HasController(m)
  THEN /\ MoveCamera(m, p)
       /\ isMapDisplayed' = TRUE
       /\ centred' = Append(centred, m)
  ELSE UNCHANGED <<camera, isMapDisplayed, centred>>

CentreAtZero(m, p) ==
  IF p = Nowhere /\ ~isMapDisplayed /\ HasController(m)
  THEN /\ MoveCamera(m, p)
       /\ isMapDisplayed' = TRUE
       /\ centred' = Append(centred, m)
  ELSE UNCHANGED <<camera, isMapDisplayed, centred>>

Centre(m, p) ==
  IF Centres(p) /\ HasController(m)
  THEN /\ MoveCamera(m, p)
       /\ isMapDisplayed' = TRUE
       /\ centred' = Append(centred, m)
  ELSE UNCHANGED <<camera, isMapDisplayed, centred>>

\* The subscription of map m hears of a position.
Hear(m, p) ==
  /\ Listening(m)
  /\ currentLocation' = p
  /\ Centre(m, p)
  /\ UNCHANGED <<stage, kGooglePlex, asking, located, left>>

\* The button that shows where the user is.
MyLocation(m) ==
  /\ stage[m] = "created"
  /\ MoveCamera(m, currentLocation)
  /\ located' = located \cup {m}
  /\ UNCHANGED <<stage, currentLocation, isMapDisplayed, kGooglePlex, asking,
                 centred, left>>

\* getLocation answers ...
FirstPosition ==
  /\ asking /\ asking' = FALSE
  /\ \E p \in Places : currentLocation' = p
  /\ UNCHANGED <<stage, camera, isMapDisplayed, kGooglePlex, centred, located, left>>

\* ... or is denied: my_Location is null, and reading its latitude inside
\* setState throws before anything is assigned.
LocationDenied ==
  /\ asking /\ asking' = FALSE
  /\ UNCHANGED <<stage, camera, currentLocation, isMapDisplayed, kGooglePlex,
                 centred, located, left>>

\* The logout completes on some map, which leaves no map on top.
Logout ==
  /\ \E m \in Maps : stage[m] \in {"shown", "created"}
  /\ isMapDisplayed' = TRUE
  /\ left' = TRUE
  /\ UNCHANGED <<stage, camera, currentLocation, kGooglePlex, asking, centred, located>>

\* The process is killed and started again; the globals and the static field
\* are what they are declared as.
Restart ==
  /\ stage' = [m \in Maps |-> "none"]
  /\ camera' = [m \in Maps |-> NoPlace]
  /\ currentLocation' = Default
  /\ isMapDisplayed' = FALSE
  /\ kGooglePlex' = NoPlace
  /\ asking' = TRUE
  /\ centred' = << >>
  /\ located' = {}
  /\ left' = FALSE

Init == /\ stage = [m \in Maps |-> "none"]
        /\ camera = [m \in Maps |-> NoPlace]
        /\ currentLocation = Default
        /\ isMapDisplayed = FALSE
        /\ kGooglePlex = NoPlace
        /\ asking = TRUE
        /\ centred = << >>
        /\ located = {}
        /\ left = FALSE

Next == \/ \E m \in Maps : \/ OpenMap(m) \/ MapCreated(m) \/ CloseMap(m)
                           \/ MyLocation(m)
                           \/ \E p \in Places : Hear(m, p)
        \/ FirstPosition \/ LocationDenied
        \/ Logout \/ Restart

Spec == Init /\ [][Next]_vars

\* The platform creates the view of a map that stays open, and a phone that
\* knows its position goes on reporting it to each subscription.
FairSpec ==
  /\ Spec
  /\ \A m \in Maps : /\ WF_vars(MapCreated(m))
                     /\ WF_vars(\E p \in Places \ {Nowhere} : Hear(m, p))

-----------------------------------------------------------------------------
TypeOK ==
  /\ stage \in [Maps -> Stages]
  /\ camera \in [Maps -> Places \cup {NoPlace}]
  /\ \A m \in Maps : Listening(m) => camera[m] \in Places
  /\ currentLocation \in Places
  /\ isMapDisplayed \in BOOLEAN
  /\ kGooglePlex \in Places \cup {NoPlace}
  /\ asking \in BOOLEAN
  /\ centred \in Seq(Maps)
  /\ located \subseteq Maps
  /\ left \in BOOLEAN

\* Of all the subscriptions that are never cancelled at most one ever moves a
\* camera, and only once: nothing tears the map from under the user's finger.
CentredOnce == Len(centred) <= 1

\* The flag is not raised in vain: a subscription has really told a map to move,
\* also when it first heard of a position before onMapCreated, or a session has
\* ended, after which the user is not looked for again.
FlagMeansCentred == isMapDisplayed => centred # << >> \/ left

\* Opened, and moved by nobody since.
Untouched(m) ==
  /\ Listening(m) /\ m \notin located
  /\ \A i \in DOMAIN centred : centred[i] # m

\* Whenever they were opened, and wherever the user had got to by then, the maps
\* nobody has moved show one place, for the static field is read once: a map
\* shows the user only by the one centring or by the button.
UntouchedMapsAlike ==
  \A m, n \in Maps : Untouched(m) /\ Untouched(n) => camera[m] = camera[n]

\* A map that stays open while positions are reported does not wait forever for
\* the first centring: an exception before onMapCreated loses one position only.
FirstCentringComes ==
  \A m \in Maps : stage[m] = "shown" ~>
                    isMapDisplayed \/ stage[m] \notin {"shown", "created"}
=============================================================================
