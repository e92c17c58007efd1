------------------------------- MODULE EventMap -------------------------------
(***************************************************************************)
(* One page of lib/map.dart as its user sees it: the markers it collects   *)
(* from the answers of Firestore, the category it shows and the sheet of   *)
(* one observation.                                                        *)
(*                                                                         *)
(* A load clears the markers when it starts and adds its own when it is    *)
(* answered, so two loads at a time would mix.  What keeps them apart is   *)
(* the spinner (SpinnerIsModal in AppShell) and nothing else.              *)
(***************************************************************************)
EXTENDS Naturals, Sequences, FiniteSets

CONSTANTS
  Ids,         \* bound: documents of "events"
  Categories,  \* categories as a document has them: 1, 2, ... 11
  Slots,       \* bound on the loads in flight
  SystemBack,  \* has the phone a back button, which takes the spinner away?
  NoPhotos,    \* may a document come without the field "image_files"?
  Faults,      \* may a query fail?
  None         \* nothing

Filters  == Categories \cup {0}
Document == [id : Ids, category : Categories, status : {0, 1}, photos : BOOLEAN]

ASSUME MapAssumption ==
  /\ Categories \subseteq Nat \ {0}
  /\ {SystemBack, NoPhotos, Faults} \subseteq BOOLEAN
  /\ None \notin Document

VARIABLES
  events,    \* the collection "events", which other phones and its editors change
  selected,  \* selected_category: 0 shows all
  loads,     \* the runs of LoadWeatherEvents at their await
  markers,   \* all_Event_Markers: the document of each
  sheet      \* the document in the bottom sheet

vars == <<events, selected, loads, markers, sheet>>

\* A load first waits for its page's first frame ("new"), then for Firestore,
\* which has not looked yet ("asked") or has found some documents ("found").  A
\* load that dies leaves its spinner up ("stuck").
Idle == [step |-> "none"]
Load == {Idle} \cup [step : {"new", "stuck"}]
        \cup [step : {"asked"}, filter : Filters]
        \cup [step : {"found"}, docs : SUBSET Document]

Continue(c, load) == loads' = [loads EXCEPT ![c] = load]

\* (Mutant: taps reach the page although the spinner is up.)
TouchableUnderSpinner == \A c \in Slots : loads[c].step # "new"

\* Taps reach the page when no spinner covers it and its first frame is drawn.
Touchable == \A c \in Slots : \/ loads[c] = Idle
                              \/ SystemBack /\ loads[c].step # "new"

-----------------------------------------------------------------------------
(* Loading *)

\* (Mutant: the markers of the last load stay.)
LoadOverOld(c, filter) ==
  /\ markers' = markers
  /\ Continue(c, [step |-> "asked", filter |-> filter])

\* LoadWeatherEvents up to its await.
LoadWeatherEvents(c, filter) ==
  /\ markers' = << >>
  /\ Continue(c, [step |-> "asked", filter |-> filter])

\* (Mutant: the parameter category has no default.)
FirstFrameOfNone(c) ==
  /\ loads[c].step = "new"
  /\ LoadWeatherEvents(c, None)
  /\ UNCHANGED <<events, selected, sheet>>

\* initState, at the first frame: all categories.
FirstFrame(c) ==
  /\ loads[c].step = "new"
  /\ LoadWeatherEvents(c, 0)
  /\ UNCHANGED <<events, selected, sheet>>

\* (Mutant: the load starts before the choice is stored.)
SelectFilterLate ==
  /\ Touchable /\ sheet = None
  /\ \E c \in Slots, f \in Filters :
       /\ loads[c] = Idle
       /\ selected' = f
       /\ LoadWeatherEvents(c, selected)
  /\ UNCHANGED <<events, sheet>>

\* FilterBy.onSelect.
SelectFilter ==
  /\ Touchable /\ sheet = None
  /\ \E c \in Slots, f \in Filters :
       /\ loads[c] = Idle
       /\ selected' = f
       /\ LoadWeatherEvents(c, f)
  /\ UNCHANGED <<events, sheet>>

\* The form returned true: its observation may be among the events by now.
AfterPublish ==
  /\ Touchable /\ sheet = None
  /\ \E c \in Slots : loads[c] = Idle /\ LoadWeatherEvents(c, selected)
  /\ UNCHANGED <<events, selected, sheet>>

\* (Mutant: the query for all categories forgets the status.)
MatchesAnyStatus(d, filter) == IF filter = 0 THEN TRUE ELSE d.status = 1 /\ d.category = filter

\* The two queries.
Matches(d, filter) == d.status = 1 /\ (filter = 0 \/ d.category = filter)

\* Firestore evaluates the query, at some moment before the answer.
Firestore(c) ==
  /\ loads[c].step = "asked"
  /\ Continue(c, [step |-> "found",
                  docs |-> {d \in events : Matches(d, loads[c].filter)}])
  /\ UNCHANGED <<events, selected, markers, sheet>>

\* The documents in some order, as an answer lists them.
Listings(docs) == {list \in [1 .. Cardinality(docs) -> docs] :
                     \A j, k \in DOMAIN list : list[j] = list[k] => j = k}

\* (Mutant: the loop starts with the second document.)
ProcessEventsFromOne(list, n) == markers' = markers \o SubSeq(list, 2, n)

\* ProcessEvents, which gets through the first n documents.
ProcessEvents(list, n) == markers' = markers \o SubSeq(list, 1, n)

\* The answer arrives.  On a document without "image_files" List.from(null)
\* throws, and the handler ends before it hides the spinner.
Answered(c) ==
  /\ loads[c].step = "found"
  /\ \E list \in Listings(loads[c].docs), n \in 0 .. Cardinality(loads[c].docs) :
       /\ \A k \in 1 .. n : list[k].photos
       /\ n < Len(list) => ~list[n + 1].photos
       /\ ProcessEvents(list, n)
       /\ Continue(c, IF n = Len(list) THEN Idle ELSE [step |-> "stuck"])
  /\ UNCHANGED <<events, selected, sheet>>

\* Nothing catches the error of a query.
QueryFails(c) ==
  /\ Faults /\ loads[c].step = "asked"
  /\ Continue(c, [step |-> "stuck"])
  /\ UNCHANGED <<events, selected, markers, sheet>>

-----------------------------------------------------------------------------
(* The sheet *)

TapMarker ==
  /\ Touchable /\ sheet = None
  /\ \E k \in DOMAIN markers : sheet' = markers[k]
  /\ UNCHANGED <<events, selected, loads, markers>>

CloseSheet ==
  /\ Touchable /\ sheet # None
  /\ sheet' = None
  /\ UNCHANGED <<events, selected, loads, markers>>

-----------------------------------------------------------------------------
(* The collection, as phones publish and editors hide and delete *)

EventsChange ==
  /\ \/ \E d \in Document :
          /\ \A e \in events : e.id # d.id
          /\ d.status = 1 /\ d.photos \in {TRUE, ~NoPhotos}
          /\ events' = events \cup {d}
     \/ \E d \in events : events' \in {events \ {d},
                                       (events \ {d}) \cup {[d EXCEPT !.status = 0]}}
  /\ UNCHANGED <<selected, loads, markers, sheet>>

\* The app is killed and started again: a new page.
Restart ==
  /\ selected' = 0 /\ markers' = << >> /\ sheet' = None
  /\ \E first \in Slots :
       loads' = [c \in Slots |-> IF c = first THEN [step |-> "new"] ELSE Idle]
  /\ UNCHANGED events

-----------------------------------------------------------------------------
Init ==
  /\ events = {}
  /\ selected = 0 /\ markers = << >> /\ sheet = None
  /\ \E first \in Slots :
       loads = [c \in Slots |-> IF c = first THEN [step |-> "new"] ELSE Idle]

Progress(c) == FirstFrame(c) \/ Firestore(c) \/ Answered(c) \/ QueryFails(c)

Next == \/ SelectFilter \/ AfterPublish \/ TapMarker \/ CloseSheet
        \/ \E c \in Slots : Progress(c)
        \/ EventsChange \/ Restart

Spec == Init /\ [][Next]_vars

-----------------------------------------------------------------------------
TypeOK ==
  /\ events \subseteq Document
  /\ selected \in Filters
  /\ loads \in [Slots -> Load]
  /\ markers \in Seq(Document)
  /\ sheet \in Document \cup {None}

\* However loads, choices and changes of the collection interleave, the map
\* never shows an observation its filter excludes or its editors had hidden
\* when the query was evaluated.
MapFitsItsFilter ==
  \A k \in DOMAIN markers :
    markers[k].status = 1 /\ selected \in {0, markers[k].category}

\* No observation is on the map twice.
OneMarkerEach ==
  \A j, k \in DOMAIN markers : markers[j].id = markers[k].id => j = k

\* Whatever loads mix on a phone with a back button, an observation its editors
\* had hidden when the query was evaluated reaches neither the map nor the sheet.
HiddenStaysHidden ==
  /\ \A k \in DOMAIN markers : markers[k].status = 1
  /\ sheet # None => sheet.status = 1

\* When a load is answered, the map shows exactly what Firestore had found.
LoadShowsWhatWasFound ==
  [][\A c \in Slots : loads[c].step = "found" /\ loads'[c] = Idle /\ loads'[c] # loads[c] =>
       \/ {markers'[k] : k \in DOMAIN markers'} = loads[c].docs
       \/ \E d \in Slots : loads'[d].step = "new"]_vars

-----------------------------------------------------------------------------
(* Why the map fits its filter: an inductive invariant (SystemBack = FALSE) *)

FitFor(d, filter) == d.status = 1 /\ filter \in {0, d.category}

Apart(docs) == \A d, e \in docs : d.id = e.id => d = e

\* While a load is under way the map is empty, and what the load brings is for
\* the filter that is chosen.
Fresh(load) ==
  load # Idle =>
    /\ load.step # "stuck" => markers = << >>
    /\ load.step = "new" => selected = 0
    /\ load.step = "asked" => load.filter = selected
    /\ load.step = "found" =>
         /\ IsFiniteSet(load.docs) /\ Apart(load.docs)
         /\ \A d \in load.docs : FitFor(d, selected)

\* What holds of the loads on every phone.
FoundInv ==
  /\ IsFiniteSet(events)
  /\ \A c \in Slots : loads[c].step = "found" =>
       IsFiniteSet(loads[c].docs) /\ \A d \in loads[c].docs : d.status = 1

MapInv ==
  /\ IsFiniteSet(events) /\ Apart(events)
  /\ \A c, d \in Slots : loads[c] # Idle /\ loads[d] # Idle => c = d
  /\ \A c \in Slots : Fresh(loads[c])
  /\ MapFitsItsFilter
  /\ OneMarkerEach

-----------------------------------------------------------------------------
(* What the page promises: snapshots of the collection *)

Shown == {markers[k] : k \in DOMAIN markers}

\* The load that is under way or died; Idle when there is none.
Current == IF \E c \in Slots : loads[c] # Idle
           THEN loads[CHOOSE c \in Slots : loads[c] # Idle] ELSE Idle

Stage == CASE Current.step = "none"            -> "shown"
           [] Current.step \in {"new", "asked"} -> "asked"
           [] Current.step = "found"           -> "found"
           [] Current.step = "stuck"           -> "dead"

View == INSTANCE MapView WITH
  collection <- events,
  filter     <- selected,
  stage      <- Stage,
  snapshot   <- IF Current.step = "found" THEN Current.docs ELSE {},
  shown      <- Shown

\* The page implements it, although its markers are filled by callbacks that do
\* not say which choice they answer.
ImplementsView == View!Spec
=============================================================================
