---------------------------- MODULE EventMap_proofs ----------------------------
(***************************************************************************)
(* Proof that, on a phone without a back button, the map fits its filter,  *)
(* shows no observation twice and implements MapView, and that on every    *)
(* phone what editors hid stays hidden: for any collection, any number of  *)
(* loads and with failing queries and incomplete documents.                *)
(***************************************************************************)
EXTENDS EventMap, FiniteSetTheorems, TLAPS

-----------------------------------------------------------------------------
(* Types *)

\* The part of an answer that ProcessEvents gets through.
LEMMA ListedFacts ==
  ASSUME NEW docs \in SUBSET Document, IsFiniteSet(docs),
         NEW list \in Listings(docs), NEW n \in 0 .. Cardinality(docs)
  PROVE  /\ SubSeq(list, 1, n) \in Seq(docs) /\ SubSeq(list, 1, n) \in Seq(Document)
         /\ DOMAIN SubSeq(list, 1, n) = 1 .. n
         /\ \A k \in 1 .. n : SubSeq(list, 1, n)[k] = list[k] /\ list[k] \in docs
         /\ \A j, k \in 1 .. n : list[j] = list[k] => j = k
         /\ << >> \o SubSeq(list, 1, n) = SubSeq(list, 1, n)
<1> DEFINE N == Cardinality(docs)
<1>1. N \in Nat
  BY FS_CardinalityType
<1>2. list \in [1 .. N -> docs] /\ \A j, k \in 1 .. N : list[j] = list[k] => j = k
  BY DEF Listings
<1> HIDE DEF N
<1>3. n \in Nat /\ 1 .. n \subseteq 1 .. N
  BY <1>1 DEF N
<1>4. \A k \in 1 .. n : list[k] \in docs
  BY <1>2, <1>3
<1>5. SubSeq(list, 1, n) = [k \in 1 .. n |-> list[k]]
  BY <1>3
<1>6. [k \in 1 .. n |-> list[k]] \in Seq(docs)
  BY <1>3, <1>4
<1>7. Seq(docs) \subseteq Seq(Document)
  OBVIOUS
<1>8. << >> \o SubSeq(list, 1, n) = SubSeq(list, 1, n)
  BY <1>5, <1>6
<1>. QED BY <1>2, <1>3, <1>4, <1>5, <1>6, <1>7, <1>8

\* What a load is, by its step.
LEMMA LoadFacts ==
  ASSUME NEW load \in Load
  PROVE  /\ load.step = "none" <=> load = Idle
         /\ load.step = "asked" => load.filter \in Filters
         /\ load.step = "found" => load.docs \in SUBSET Document
<1>1. CASE load = Idle
  BY <1>1 DEF Idle
<1>2. CASE load \in [step : {"new", "stuck"}]
  BY <1>2 DEF Idle
<1>3. CASE load \in [step : {"asked"}, filter : Filters]
  BY <1>3 DEF Idle
<1>4. CASE load \in [step : {"found"}, docs : SUBSET Document]
  BY <1>4 DEF Idle
<1>. QED BY <1>1, <1>2, <1>3, <1>4 DEF Load

LEMMA LoadTypes ==
  /\ Idle \in Load /\ [step |-> "new"] \in Load /\ [step |-> "stuck"] \in Load
  /\ \A f \in Filters : [step |-> "asked", filter |-> f] \in Load
  /\ \A docs \in SUBSET Document : [step |-> "found", docs |-> docs] \in Load
BY DEF Load

LEMMA MarkersCleared == << >> \in Seq(Document) /\ DOMAIN << >> = {}
OBVIOUS

LEMMA ZeroIsFilter == 0 \in Filters
BY DEF Filters

LEMMA TypeInit == Init => TypeOK
<1> SUFFICES ASSUME Init PROVE TypeOK
  OBVIOUS
<1>1. loads \in [Slots -> Load]
  BY LoadTypes DEF Init
<1>. QED BY <1>1, MarkersCleared, ZeroIsFilter DEF Init, TypeOK

LEMMA TypesKept == TypeOK /\ FoundInv /\ [Next]_vars => TypeOK'
<1> SUFFICES ASSUME TypeOK, FoundInv, [Next]_vars PROVE TypeOK'
  OBVIOUS
<1> USE DEF TypeOK
<1>1. ASSUME NEW c \in Slots, NEW f \in Filters, LoadWeatherEvents(c, f)
      PROVE  loads' \in [Slots -> Load] /\ markers' \in Seq(Document)
  BY <1>1, LoadTypes, MarkersCleared DEF LoadWeatherEvents, Continue
<1>2. CASE SelectFilter
  BY <1>1, <1>2 DEF SelectFilter
<1>3. CASE AfterPublish
  BY <1>1, <1>3 DEF AfterPublish
<1>4. CASE TapMarker
  <2>1. PICK k \in DOMAIN markers : sheet' = markers[k]
    BY <1>4 DEF TapMarker
  <2>2. markers[k] \in Document
    BY <2>1
  <2>. QED BY <1>4, <2>1, <2>2 DEF TapMarker
<1>5. CASE CloseSheet
  BY <1>5 DEF CloseSheet
<1>6. ASSUME NEW c \in Slots, FirstFrame(c) PROVE TypeOK'
  BY <1>1, <1>6, ZeroIsFilter DEF FirstFrame
<1>7. ASSUME NEW c \in Slots, Firestore(c) PROVE TypeOK'
  <2>1. {d \in events : Matches(d, loads[c].filter)} \in SUBSET Document
    OBVIOUS
  <2>2. loads' \in [Slots -> Load]
    BY <1>7, <2>1, LoadTypes DEF Firestore, Continue
  <2>. QED BY <1>7, <2>2 DEF Firestore
<1>8. ASSUME NEW c \in Slots, Answered(c) PROVE TypeOK'
  <2>1. loads[c] \in Load /\ loads[c].step = "found"
    BY <1>8 DEF Answered
  <2>2. loads[c].docs \in SUBSET Document /\ IsFiniteSet(loads[c].docs)
    BY <2>1, LoadFacts DEF FoundInv
  <2>3. PICK list \in Listings(loads[c].docs), n \in 0 .. Cardinality(loads[c].docs) :
          /\ ProcessEvents(list, n)
          /\ Continue(c, IF n = Len(list) THEN Idle ELSE [step |-> "stuck"])
    BY <1>8 DEF Answered
  <2>4. SubSeq(list, 1, n) \in Seq(Document)
    BY <2>2, ListedFacts
  <2>5. markers' \in Seq(Document)
    BY <2>3, <2>4 DEF ProcessEvents
  <2>6. loads' \in [Slots -> Load]
    BY <2>3, LoadTypes DEF Continue
  <2>. QED BY <1>8, <2>5, <2>6 DEF Answered
<1>9. ASSUME NEW c \in Slots, QueryFails(c) PROVE TypeOK'
  BY <1>9, LoadTypes DEF QueryFails, Continue
<1>10. CASE EventsChange
  <2>1. ASSUME NEW d \in events PROVE [d EXCEPT !.status = 0] \in Document
    BY <2>1 DEF Document
  <2>. QED BY <1>10, <2>1 DEF EventsChange
<1>11. CASE Restart
  BY <1>11, LoadTypes, MarkersCleared, ZeroIsFilter DEF Restart
<1>12. CASE UNCHANGED vars
  BY <1>12 DEF vars
<1>. QED
  BY <1>2, <1>3, <1>4, <1>5, <1>6, <1>7, <1>8, <1>9, <1>10, <1>11, <1>12 DEF Next, Progress

-----------------------------------------------------------------------------
(* On every phone *)

LEMMA FoundInit == Init => FoundInv /\ HiddenStaysHidden
<1> SUFFICES ASSUME Init PROVE FoundInv /\ HiddenStaysHidden
  OBVIOUS
<1>1. \A c \in Slots : loads[c].step # "found"
  BY DEF Init, Idle
<1>. QED BY <1>1, FS_EmptySet, MarkersCleared DEF Init, FoundInv, HiddenStaysHidden

\* What a query brings is not hidden, and the markers and the sheet come from
\* nowhere else.
LEMMA FoundStep ==
  TypeOK /\ FoundInv /\ HiddenStaysHidden /\ [Next]_vars => (FoundInv /\ HiddenStaysHidden)'
<1> SUFFICES ASSUME TypeOK, FoundInv, HiddenStaysHidden, [Next]_vars
             PROVE  (FoundInv /\ HiddenStaysHidden)'
  OBVIOUS
<1>1. ASSUME NEW c \in Slots, NEW load, Continue(c, load), UNCHANGED events,
             load.step = "found" =>
               IsFiniteSet(load.docs) /\ \A d \in load.docs : d.status = 1
      PROVE  FoundInv'
  BY <1>1 DEF Continue, FoundInv, TypeOK
<1>2. ASSUME NEW c \in Slots, NEW f, LoadWeatherEvents(c, f), UNCHANGED <<events, sheet>>
      PROVE  (FoundInv /\ HiddenStaysHidden)'
  <2>1. PICK load : load = [step |-> "asked", filter |-> f]
    OBVIOUS
  <2>2. Continue(c, load) /\ load.step = "asked" /\ markers' = << >>
    BY <1>2, <2>1 DEF LoadWeatherEvents
  <2>. QED BY <1>1, <1>2, <2>2, MarkersCleared DEF HiddenStaysHidden
<1>3. CASE SelectFilter
  BY <1>2, <1>3 DEF SelectFilter
<1>4. CASE AfterPublish
  BY <1>2, <1>4 DEF AfterPublish
<1>5. CASE TapMarker \/ CloseSheet
  BY <1>5 DEF TapMarker, CloseSheet, FoundInv, HiddenStaysHidden
<1>6. ASSUME NEW c \in Slots, FirstFrame(c) PROVE (FoundInv /\ HiddenStaysHidden)'
  BY <1>2, <1>6 DEF FirstFrame
<1>7. ASSUME NEW c \in Slots, Firestore(c) PROVE (FoundInv /\ HiddenStaysHidden)'
  <2>1. PICK docs : docs = {d \in events : Matches(d, loads[c].filter)}
    OBVIOUS
  <2>2. IsFiniteSet(docs) /\ \A d \in docs : d.status = 1
    BY <2>1, FS_Subset DEF FoundInv, Matches
  <2>3. PICK load : load = [step |-> "found", docs |-> docs]
    OBVIOUS
  <2>4. Continue(c, load) /\ load.docs = docs /\ UNCHANGED <<events, markers, sheet>>
    BY <1>7, <2>1, <2>3 DEF Firestore
  <2>. QED BY <1>1, <2>2, <2>4 DEF HiddenStaysHidden
<1>8. ASSUME NEW c \in Slots, Answered(c) PROVE (FoundInv /\ HiddenStaysHidden)'
  <2>1. PICK docs : docs = loads[c].docs
    OBVIOUS
  <2>2. loads[c] \in Load /\ loads[c].step = "found" /\ UNCHANGED <<events, sheet>>
    BY <1>8 DEF Answered, TypeOK
  <2>3. docs \in SUBSET Document /\ IsFiniteSet(docs) /\ \A d \in docs : d.status = 1
    BY <2>1, <2>2, LoadFacts DEF FoundInv
  <2>4. PICK list \in Listings(docs), n \in 0 .. Cardinality(docs) :
          /\ ProcessEvents(list, n)
          /\ Continue(c, IF n = Len(list) THEN Idle ELSE [step |-> "stuck"])
    BY <1>8, <2>1 DEF Answered
  <2>5. PICK load : load = IF n = Len(list) THEN Idle ELSE [step |-> "stuck"]
    OBVIOUS
  <2>6. Continue(c, load) /\ load.step # "found"
    BY <2>4, <2>5 DEF Idle
  <2>7. FoundInv'
    BY <1>1, <2>2, <2>6
  <2>8. PICK new : new = SubSeq(list, 1, n)
    OBVIOUS
  <2>9. new \in Seq(docs) /\ new \in Seq(Document)
    BY <2>3, <2>8, ListedFacts
  <2>10. markers' = markers \o new /\ markers \in Seq(Document)
    BY <2>4, <2>8 DEF ProcessEvents, TypeOK
  <2>11. ASSUME NEW k \in DOMAIN markers' PROVE markers'[k].status = 1
    <3>1. CASE k \in DOMAIN markers
      BY <2>9, <2>10, <3>1 DEF HiddenStaysHidden
    <3>2. CASE k \notin DOMAIN markers
      <4>1. markers'[k] \in docs
        BY <2>9, <2>10, <2>11, <3>2
      <4>. QED BY <2>3, <4>1
    <3>. QED BY <3>1, <3>2
  <2>. QED BY <2>2, <2>7, <2>11 DEF HiddenStaysHidden
<1>9. ASSUME NEW c \in Slots, QueryFails(c) PROVE (FoundInv /\ HiddenStaysHidden)'
  <2>1. PICK load : load = [step |-> "stuck"]
    OBVIOUS
  <2>2. Continue(c, load) /\ load.step = "stuck" /\ UNCHANGED <<events, markers, sheet>>
    BY <1>9, <2>1 DEF QueryFails
  <2>. QED BY <1>1, <2>2 DEF HiddenStaysHidden
<1>10. CASE EventsChange
  <2>1. UNCHANGED <<loads, markers, sheet>>
    BY <1>10 DEF EventsChange
  <2>2. IsFiniteSet(events')
    <3>1. \A d : IsFiniteSet(events \cup {d}) /\ IsFiniteSet(events \ {d})
      BY FS_AddElement, FS_Subset DEF FoundInv
    <3>2. \A d, e : IsFiniteSet((events \ {d}) \cup {e})
      BY <3>1, FS_AddElement
    <3>3. CASE \E d \in Document : events' = events \cup {d}
      BY <3>1, <3>3
    <3>4. CASE \E d \in events : events' = events \ {d}
      BY <3>1, <3>4
    <3>5. CASE \E d \in events : events' = (events \ {d}) \cup {[d EXCEPT !.status = 0]}
      BY <3>2, <3>5, Zenon
    <3>. QED BY <1>10, <3>3, <3>4, <3>5 DEF EventsChange
  <2>. QED BY <2>1, <2>2 DEF FoundInv, HiddenStaysHidden
<1>11. CASE Restart
  <2>1. \A c \in Slots : loads'[c].step # "found"
    BY <1>11 DEF Restart, Idle
  <2>. QED BY <1>11, <2>1, MarkersCleared DEF Restart, FoundInv, HiddenStaysHidden
<1>12. CASE UNCHANGED vars
  BY <1>12 DEF vars, FoundInv, HiddenStaysHidden
<1>. QED
  BY <1>3, <1>4, <1>5, <1>6, <1>7, <1>8, <1>9, <1>10, <1>11, <1>12 DEF Next, Progress

-----------------------------------------------------------------------------
(* The map and its filter *)

LEMMA TypeStep == TypeOK /\ MapInv /\ [Next]_vars => TypeOK'
<1>1. TypeOK /\ MapInv => FoundInv
  BY DEF MapInv, Fresh, FoundInv, FitFor, Idle
<1>. QED BY <1>1, TypesKept

LEMMA InvInit == Init => MapInv
<1> SUFFICES ASSUME Init PROVE MapInv
  OBVIOUS
<1>1. PICK first \in Slots :
        loads = [c \in Slots |-> IF c = first THEN [step |-> "new"] ELSE Idle]
  BY DEF Init
<1>2. \A c \in Slots : \/ loads[c] = Idle
                       \/ c = first /\ loads[c] = [step |-> "new"]
  BY <1>1
<1>3. \A c \in Slots : Fresh(loads[c])
  BY <1>2 DEF Init, Fresh
<1>4. \A c, d \in Slots : loads[c] # Idle /\ loads[d] # Idle => c = d
  BY <1>2
<1>5. IsFiniteSet(events) /\ Apart(events)
  BY FS_EmptySet DEF Init, Apart
<1>6. MapFitsItsFilter /\ OneMarkerEach
  BY MarkersCleared DEF Init, MapFitsItsFilter, OneMarkerEach
<1>. QED BY <1>3, <1>4, <1>5, <1>6 DEF MapInv

\* A load that starts on a page whose loads have all ended, or replaces the only one.
LEMMA LoadStarts ==
  ASSUME TypeOK, MapInv, NEW c \in Slots, NEW f \in Filters,
         \A d \in Slots \ {c} : loads[d] = Idle,
         LoadWeatherEvents(c, f), selected' = f, UNCHANGED events
  PROVE  MapInv'
<1>1. loads' = [loads EXCEPT ![c] = [step |-> "asked", filter |-> f]] /\ markers' = << >>
  BY DEF LoadWeatherEvents, Continue
<1>2. \A d \in Slots : \/ loads'[d] = Idle
                       \/ d = c /\ loads'[d] = [step |-> "asked", filter |-> f]
  BY <1>1 DEF TypeOK
<1>3. \A d \in Slots : Fresh(loads[d])'
  BY <1>1, <1>2 DEF Fresh
<1>4. \A d, e \in Slots : loads'[d] # Idle /\ loads'[e] # Idle => d = e
  BY <1>2
<1>5. (MapFitsItsFilter /\ OneMarkerEach)'
  BY <1>1, MarkersCleared DEF MapFitsItsFilter, OneMarkerEach
<1>. QED BY <1>3, <1>4, <1>5 DEF MapInv, Apart

LEMMA InvStep == SystemBack = FALSE /\ TypeOK /\ MapInv /\ [Next]_vars => MapInv'
<1> SUFFICES ASSUME SystemBack = FALSE, TypeOK, MapInv, [Next]_vars PROVE MapInv'
  OBVIOUS
<1>1. Touchable => \A c \in Slots : loads[c] = Idle
  BY DEF Touchable
<1>2. \A c \in Slots : loads[c].step # "none" => \A d \in Slots \ {c} : loads[d] = Idle
  BY DEF MapInv, Idle
<1>3. CASE SelectFilter
  <2>1. PICK c \in Slots, f \in Filters : selected' = f /\ LoadWeatherEvents(c, f)
    BY <1>3 DEF SelectFilter
  <2>. QED BY <1>1, <1>3, <2>1, LoadStarts DEF SelectFilter
<1>4. CASE AfterPublish
  <2>1. PICK c \in Slots : LoadWeatherEvents(c, selected)
    BY <1>4 DEF AfterPublish
  <2>2. selected \in Filters /\ selected' = selected /\ UNCHANGED events
    BY <1>4 DEF AfterPublish, TypeOK
  <2>. QED BY <1>1, <1>4, <2>1, <2>2, LoadStarts DEF AfterPublish
<1>5. CASE TapMarker
  BY <1>5 DEF TapMarker, MapInv, Fresh, MapFitsItsFilter, OneMarkerEach, Apart
<1>6. CASE CloseSheet
  BY <1>6 DEF CloseSheet, MapInv, Fresh, MapFitsItsFilter, OneMarkerEach, Apart
<1>7. ASSUME NEW c \in Slots, FirstFrame(c) PROVE MapInv'
  <2>1. selected = 0
    BY <1>7 DEF FirstFrame, MapInv, Fresh, Idle
  <2>2. \A d \in Slots \ {c} : loads[d] = Idle
    BY <1>2, <1>7 DEF FirstFrame
  <2>. QED BY <1>7, <2>1, <2>2, ZeroIsFilter, LoadStarts DEF FirstFrame
<1>8. ASSUME NEW c \in Slots, Firestore(c) PROVE MapInv'
  <2> DEFINE docs == {d \in events : Matches(d, loads[c].filter)}
  <2>1. /\ loads[c] \in Load /\ loads[c] # Idle /\ loads[c].step = "asked"
        /\ markers = << >> /\ loads[c].filter = selected
    BY <1>8 DEF Firestore, MapInv, Fresh, Idle, TypeOK
  <2>2. /\ IsFiniteSet(docs) /\ Apart(docs)
        /\ \A d \in docs : FitFor(d, selected)
    <3>1. IsFiniteSet(docs)
      BY FS_Subset DEF MapInv
    <3>2. Apart(docs)
      BY DEF MapInv, Apart
    <3>3. \A d \in docs : FitFor(d, selected)
      BY <2>1 DEF Matches, FitFor
    <3>. QED BY <3>1, <3>2, <3>3
  <2>3. loads' = [loads EXCEPT ![c] = [step |-> "found", docs |-> docs]]
    BY <1>8 DEF Firestore, Continue
  <2> HIDE DEF docs
  <2>4. \A d \in Slots : \/ loads'[d] = Idle
                         \/ d = c /\ loads'[d] = [step |-> "found", docs |-> docs]
    BY <1>2, <2>1, <2>3 DEF TypeOK, Idle
  <2>5. \A d \in Slots : Fresh(loads[d])'
    BY <1>8, <2>1, <2>2, <2>4 DEF Firestore, Fresh, FitFor, Apart
  <2>6. \A d, e \in Slots : loads'[d] # Idle /\ loads'[e] # Idle => d = e
    BY <2>4
  <2>7. (MapFitsItsFilter /\ OneMarkerEach)'
    BY <1>8 DEF Firestore, MapInv, MapFitsItsFilter, OneMarkerEach
  <2>8. (IsFiniteSet(events) /\ Apart(events))'
    BY <1>8 DEF Firestore, MapInv, Apart
  <2>. QED BY <2>5, <2>6, <2>7, <2>8 DEF MapInv
<1>9. ASSUME NEW c \in Slots, Answered(c) PROVE MapInv'
  <2> DEFINE docs == loads[c].docs
  <2>1. /\ loads[c] \in Load /\ loads[c] # Idle /\ loads[c].step = "found"
        /\ markers = << >>
    BY <1>9 DEF Answered, MapInv, Fresh, Idle, TypeOK
  <2>2. docs \in SUBSET Document /\ IsFiniteSet(docs) /\ Apart(docs)
        /\ \A d \in docs : FitFor(d, selected)
    BY <2>1, LoadFacts DEF MapInv, Fresh
  <2>3. PICK list \in Listings(docs), n \in 0 .. Cardinality(docs) :
          /\ ProcessEvents(list, n)
          /\ Continue(c, IF n = Len(list) THEN Idle ELSE [step |-> "stuck"])
    BY <1>9 DEF Answered
  <2>4. \A d \in Slots : \/ loads'[d] = Idle
                         \/ d = c /\ loads'[d] = [step |-> "stuck"]
    BY <1>2, <2>1, <2>3 DEF Continue, TypeOK, Idle
  <2>5. UNCHANGED <<events, selected>>
    BY <1>9 DEF Answered
  <2> HIDE DEF docs
  <2>6. markers' = SubSeq(list, 1, n)
    BY <2>1, <2>2, <2>3, ListedFacts DEF ProcessEvents
  <2>7. /\ DOMAIN markers' = 1 .. n
        /\ \A k \in 1 .. n : markers'[k] = list[k] /\ list[k] \in docs
        /\ \A j, k \in 1 .. n : list[j] = list[k] => j = k
    BY <2>2, <2>6, ListedFacts
  <2>8. MapFitsItsFilter'
    BY <2>2, <2>5, <2>7 DEF MapFitsItsFilter, FitFor
  <2>9. OneMarkerEach'
    BY <2>2, <2>7 DEF OneMarkerEach, Apart
  <2>10. \A d \in Slots : Fresh(loads[d])'
    BY <2>4 DEF Fresh, Idle
  <2>11. \A d, e \in Slots : loads'[d] # Idle /\ loads'[e] # Idle => d = e
    BY <2>4
  <2>. QED BY <2>5, <2>8, <2>9, <2>10, <2>11 DEF MapInv, Apart
<1>10. ASSUME NEW c \in Slots, QueryFails(c) PROVE MapInv'
  <2>1. /\ UNCHANGED <<events, selected, markers>>
        /\ loads' = [loads EXCEPT ![c] = [step |-> "stuck"]]
        /\ loads[c].step # "none"
    BY <1>10 DEF QueryFails, Continue
  <2>2. \A d \in Slots : \/ loads'[d] = Idle
                         \/ d = c /\ loads'[d] = [step |-> "stuck"]
    BY <1>2, <2>1 DEF TypeOK
  <2>3. \A d \in Slots : Fresh(loads[d])'
    BY <2>2 DEF Fresh, Idle
  <2>4. \A d, e \in Slots : loads'[d] # Idle /\ loads'[e] # Idle => d = e
    BY <2>2
  <2>. QED
    BY <2>1, <2>3, <2>4 DEF MapInv, Apart, MapFitsItsFilter, OneMarkerEach
<1>11. CASE EventsChange
  <2>1. UNCHANGED <<selected, loads, markers>>
    BY <1>11 DEF EventsChange
  <2>2. ASSUME NEW d \in Document, \A e \in events : e.id # d.id, events' = events \cup {d}
        PROVE  IsFiniteSet(events') /\ Apart(events')
    BY <2>2, FS_AddElement DEF MapInv, Apart
  <2>3. ASSUME NEW d \in events, events' = events \ {d}
        PROVE  IsFiniteSet(events') /\ Apart(events')
    BY <2>3, FS_Subset DEF MapInv, Apart
  <2>4. ASSUME NEW d \in events,
               events' = (events \ {d}) \cup {[d EXCEPT !.status = 0]}
        PROVE  IsFiniteSet(events') /\ Apart(events')
    <3>1. [d EXCEPT !.status = 0].id = d.id
      BY DEF TypeOK, Document
    <3>2. IsFiniteSet(events \ {d})
      BY FS_Subset DEF MapInv
    <3>. QED BY <2>4, <3>1, <3>2, FS_AddElement DEF MapInv, Apart
  <2>5. IsFiniteSet(events') /\ Apart(events')
    BY <1>11, <2>2, <2>3, <2>4 DEF EventsChange
  <2>. QED
    BY <2>1, <2>5 DEF MapInv, Apart, Fresh, MapFitsItsFilter, OneMarkerEach
<1>12. CASE Restart
  <2>1. PICK first \in Slots :
          loads' = [c \in Slots |-> IF c = first THEN [step |-> "new"] ELSE Idle]
    BY <1>12 DEF Restart
  <2>2. selected' = 0 /\ markers' = << >> /\ events' = events
    BY <1>12 DEF Restart
  <2>3. \A c \in Slots : \/ loads'[c] = Idle
                         \/ c = first /\ loads'[c] = [step |-> "new"]
    BY <2>1
  <2>4. \A c \in Slots : Fresh(loads[c])'
    BY <2>2, <2>3 DEF Fresh
  <2>5. \A c, d \in Slots : loads'[c] # Idle /\ loads'[d] # Idle => c = d
    BY <2>3
  <2>6. (MapFitsItsFilter /\ OneMarkerEach)'
    BY <2>2, MarkersCleared DEF MapFitsItsFilter, OneMarkerEach
  <2>. QED BY <2>2, <2>4, <2>5, <2>6 DEF MapInv, Apart
<1>13. CASE UNCHANGED vars
  BY <1>13 DEF vars, MapInv, Fresh, MapFitsItsFilter, OneMarkerEach, Apart
<1>. QED
  BY <1>3, <1>4, <1>5, <1>6, <1>7, <1>8, <1>9, <1>10, <1>11, <1>12, <1>13 DEF Next, Progress

\* A list of docs, each once, has all of them.
LEMMA ListingIsComplete ==
  ASSUME NEW docs, IsFiniteSet(docs), NEW list \in Listings(docs)
  PROVE  {list[k] : k \in 1 .. Cardinality(docs)} = docs
<1>1. PICK n \in Nat : n = Cardinality(docs)
  BY FS_CardinalityType
<1>2. list \in [1 .. n -> docs] /\ \A j, k \in 1 .. n : list[j] = list[k] => j = k
  BY <1>1 DEF Listings
<1>3. list \in Injection(1 .. n, docs)
  BY <1>2 DEF Injection, IsInjective
<1>4. Cardinality(1 .. n) = n
  BY FS_Interval
<1>5. list \in Surjection(1 .. n, docs)
  BY <1>1, <1>3, <1>4, FS_Injection
<1>. QED BY <1>1, <1>2, <1>5 DEF Surjection

\* Of all steps only an answer, or a start of the app, ends a load that waits
\* for one.
LEMMA FoundEnds ==
  ASSUME TypeOK, MapInv, Next, NEW c \in Slots,
         loads[c].step = "found", loads'[c] = Idle, loads'[c] # loads[c]
  PROVE  Answered(c) \/ Restart
<1>1. loads[c] # Idle /\ \A d \in Slots \ {c} : loads[d] = Idle
  BY DEF MapInv, Idle
<1>2. ASSUME NEW d \in Slots, NEW load, loads' = [loads EXCEPT ![d] = load]
      PROVE  d = c
  BY <1>2 DEF TypeOK
<1>3. ASSUME NEW d \in Slots, NEW f, loads[d] = Idle, LoadWeatherEvents(d, f)
      PROVE  FALSE
  BY <1>1, <1>2, <1>3 DEF LoadWeatherEvents, Continue
<1>4. ~SelectFilter
  BY <1>3 DEF SelectFilter
<1>5. ~AfterPublish
  BY <1>3 DEF AfterPublish
<1>6. ~(TapMarker \/ CloseSheet \/ EventsChange)
  BY DEF TapMarker, CloseSheet, EventsChange
<1>7. ASSUME NEW d \in Slots, FirstFrame(d) \/ Firestore(d) \/ QueryFails(d)
      PROVE  FALSE
  <2>1. loads[d].step \in {"new", "asked"}
    BY <1>7 DEF FirstFrame, Firestore, QueryFails
  <2>2. d # c /\ loads[d] # Idle
    BY <2>1 DEF Idle
  <2>. QED BY <1>1, <2>2
<1>8. ASSUME NEW d \in Slots, Answered(d)
      PROVE  d = c
  <2>1. loads[d].step = "found"
    BY <1>8 DEF Answered
  <2>2. loads[d] # Idle
    BY <2>1 DEF Idle
  <2>. QED BY <1>1, <2>2
<1>. QED BY <1>4, <1>5, <1>6, <1>7, <1>8 DEF Next, Progress

LEMMA AnswerShows ==
  ASSUME TypeOK, MapInv, NEW c \in Slots, Answered(c), loads'[c] = Idle
  PROVE  {markers'[k] : k \in DOMAIN markers'} = loads[c].docs
<1>1. PICK docs : docs = loads[c].docs
  OBVIOUS
<1>2. /\ loads[c].step = "found" /\ loads[c] # Idle
      /\ docs \in SUBSET Document /\ IsFiniteSet(docs) /\ markers = << >>
  <2>1. loads[c].step = "found"
    BY DEF Answered
  <2>2. loads[c] # Idle
    BY <2>1 DEF Idle
  <2>3. loads[c] \in Load
    BY DEF TypeOK
  <2>. QED BY <1>1, <2>1, <2>2, <2>3, LoadFacts DEF MapInv, Fresh
<1>3. PICK list \in Listings(docs), n \in 0 .. Cardinality(docs) :
        /\ ProcessEvents(list, n)
        /\ Continue(c, IF n = Len(list) THEN Idle ELSE [step |-> "stuck"])
  BY <1>1 DEF Answered
<1>4. Cardinality(docs) \in Nat
  BY <1>2, FS_CardinalityType
<1>5. Len(list) = Cardinality(docs)
  BY <1>4 DEF Listings
<1>6. n = Cardinality(docs)
  <2>1. loads'[c] = IF n = Len(list) THEN Idle ELSE [step |-> "stuck"]
    BY <1>3 DEF Continue, TypeOK
  <2>2. Idle.step # [step |-> "stuck"].step
    BY DEF Idle
  <2>. QED BY <1>5, <2>1, <2>2
<1>7. /\ DOMAIN markers' = 1 .. n
      /\ \A k \in 1 .. n : markers'[k] = list[k]
  BY <1>2, <1>3, ListedFacts DEF ProcessEvents
<1>8. {list[k] : k \in 1 .. n} = docs
  BY <1>2, <1>6, ListingIsComplete
<1>. QED BY <1>1, <1>7, <1>8

-----------------------------------------------------------------------------
\* On a phone without a back button the spinner keeps the loads of a map apart,
\* so that after any interleaving of choices, answers, failures and changes of
\* the collection the map shows only observations of its filter (LoadWeatherEvents,
\* ProcessEvents and the filter's onSelect in map.dart).
THEOREM MapShowsItsFilter ==
  ASSUME SystemBack = FALSE
  PROVE  Spec => []MapFitsItsFilter
<1>1. TypeOK /\ MapInv /\ [Next]_vars => (TypeOK /\ MapInv)'
  BY TypeStep, InvStep
<1>2. MapInv => MapFitsItsFilter
  BY DEF MapInv
<1>. QED BY TypeInit, InvInit, <1>1, <1>2, PTL DEF Spec

\* Under the same assumption a load never adds an observation that is on the
\* map already (all_Event_Markers in map.dart).
THEOREM MapShowsEachOnce ==
  ASSUME SystemBack = FALSE
  PROVE  Spec => []OneMarkerEach
<1>1. TypeOK /\ MapInv /\ [Next]_vars => (TypeOK /\ MapInv)'
  BY TypeStep, InvStep
<1>2. MapInv => OneMarkerEach
  BY DEF MapInv
<1>. QED BY TypeInit, InvInit, <1>1, <1>2, PTL DEF Spec

\* Markers, loads and the sheet of map.dart keep their types, whatever comes
\* from the collection and whatever a back button does to the spinner.
THEOREM MapTypes == Spec => []TypeOK
<1>1. TypeOK /\ FoundInv /\ HiddenStaysHidden /\ [Next]_vars
        => (TypeOK /\ FoundInv /\ HiddenStaysHidden)'
  BY TypesKept, FoundStep
<1>. QED BY TypeInit, FoundInit, <1>1, PTL DEF Spec

\* On every phone, also where a back button lets loads mix: what the queries'
\* "status = 1" (LoadWeatherEvents in map.dart) excludes is not shown.
THEOREM HiddenIsNotShown == Spec => []HiddenStaysHidden
<1>1. TypeOK /\ FoundInv /\ HiddenStaysHidden /\ [Next]_vars
        => (TypeOK /\ FoundInv /\ HiddenStaysHidden)'
  BY TypesKept, FoundStep
<1>. QED BY TypeInit, FoundInit, <1>1, PTL DEF Spec

\* When the spinner of a load goes down the map shows every document the query
\* found and no other: ProcessEvents in map.dart drops none, and no load before
\* or beside it leaves one behind.
THEOREM AnswersAreShown ==
  ASSUME SystemBack = FALSE
  PROVE  Spec => LoadShowsWhatWasFound
<1> DEFINE A == \A c \in Slots :
                  loads[c].step = "found" /\ loads'[c] = Idle /\ loads'[c] # loads[c] =>
                    \/ {markers'[k] : k \in DOMAIN markers'} = loads[c].docs
                    \/ \E d \in Slots : loads'[d].step = "new"
<1>1. Restart => \E d \in Slots : loads'[d].step = "new"
  BY DEF Restart
<1>2. TypeOK /\ MapInv /\ [Next]_vars => [A]_vars
  BY <1>1, FoundEnds, AnswerShows
<1>3. TypeOK /\ MapInv /\ [Next]_vars => (TypeOK /\ MapInv)'
  BY TypeStep, InvStep
<1> HIDE DEF A
<1>4. LoadShowsWhatWasFound <=> [][A]_vars
  BY DEF LoadShowsWhatWasFound, A
<1>. QED BY TypeInit, InvInit, <1>2, <1>3, <1>4, PTL DEF Spec

-----------------------------------------------------------------------------
(* The page shows snapshots *)

Found == IF Current.step = "found" THEN Current.docs ELSE {}

\* What MapView sees of a page with one load at most.
Seen ==
  /\ (\A c \in Slots : loads[c] = Idle) => Stage = "shown" /\ Found = {}
  /\ \A c \in Slots :
       loads[c] # Idle /\ (\A d \in Slots \ {c} : loads[d] = Idle) =>
         /\ loads[c].step \in {"new", "asked"} => Stage = "asked" /\ Found = {}
         /\ loads[c].step = "found" => Stage = "found" /\ Found = loads[c].docs
         /\ loads[c].step = "stuck" => Stage = "dead" /\ Found = {}
  /\ markers = << >> => Shown = {}

LEMMA ViewIsSeen == Seen
<1>1. (\A c \in Slots : loads[c] = Idle) => Stage = "shown" /\ Found = {}
  BY DEF Stage, Found, Current, Idle
<1>2. ASSUME NEW c \in Slots, loads[c] # Idle, \A d \in Slots \ {c} : loads[d] = Idle
      PROVE  /\ loads[c].step \in {"new", "asked"} => Stage = "asked" /\ Found = {}
             /\ loads[c].step = "found" => Stage = "found" /\ Found = loads[c].docs
             /\ loads[c].step = "stuck" => Stage = "dead" /\ Found = {}
  <2>1. (CHOOSE d \in Slots : loads[d] # Idle) = c
    BY <1>2
  <2>2. Current = loads[c]
    BY <1>2, <2>1 DEF Current
  <2>. QED BY <2>2 DEF Stage, Found
<1>3. markers = << >> => Shown = {}
  BY DEF Shown
<1>. QED BY <1>1, <1>2, <1>3 DEF Seen

LEMMA ViewStays ==
  UNCHANGED <<loads, markers>> => UNCHANGED <<Stage, Found, Shown>>
BY DEF Stage, Found, Current, Shown

\* LoadWeatherEvents, where nothing is under way but the load that takes c.
LEMMA LoadAsks ==
  ASSUME TypeOK, NEW c \in Slots, NEW f, \A d \in Slots \ {c} : loads[d] = Idle,
         LoadWeatherEvents(c, f), Seen'
  PROVE  Stage' = "asked" /\ Found' = {} /\ Shown' = {}
<1>1. PICK load : load = [step |-> "asked", filter |-> f]
  OBVIOUS
<1>2. loads'[c] = load /\ \A d \in Slots \ {c} : loads'[d] = Idle
  BY <1>1 DEF LoadWeatherEvents, Continue, TypeOK
<1>3. load.step = "asked" /\ load # Idle
  BY <1>1 DEF Idle
<1>. QED BY <1>2, <1>3 DEF Seen, LoadWeatherEvents

\* A step of the load that is under way, by what it leaves in its slot.
LEMMA LoadMoves ==
  ASSUME TypeOK, NEW c \in Slots, \A d \in Slots \ {c} : loads[d] = Idle,
         NEW load, Continue(c, load), Seen'
  PROVE  /\ load = Idle => Stage' = "shown" /\ Found' = {}
         /\ load # Idle =>
              /\ load.step = "found" => Stage' = "found" /\ Found' = load.docs
              /\ load.step = "stuck" => Stage' = "dead" /\ Found' = {}
<1>1. loads'[c] = load /\ \A d \in Slots \ {c} : loads'[d] = Idle
  BY DEF Continue, TypeOK
<1>. QED BY <1>1 DEF Seen

\* The markers after an answer: all documents, or those before the bad one.
LEMMA AnswerShowsFound ==
  ASSUME TypeOK, MapInv, NEW c \in Slots, Answered(c)
  PROVE  \/ Continue(c, Idle) /\ Shown' = loads[c].docs
         \/ Continue(c, [step |-> "stuck"]) /\ Shown' \in SUBSET loads[c].docs
<1>1. PICK docs : docs = loads[c].docs
  OBVIOUS
<1>2. docs \in SUBSET Document /\ IsFiniteSet(docs) /\ markers = << >>
  <2>1. loads[c].step = "found"
    BY DEF Answered
  <2>2. loads[c] # Idle /\ loads[c] \in Load
    BY <2>1 DEF Idle, TypeOK
  <2>. QED BY <1>1, <2>1, <2>2, LoadFacts DEF MapInv, Fresh
<1>3. PICK list \in Listings(docs), n \in 0 .. Cardinality(docs) :
        /\ ProcessEvents(list, n)
        /\ Continue(c, IF n = Len(list) THEN Idle ELSE [step |-> "stuck"])
  BY <1>1 DEF Answered
<1>4. Len(list) = Cardinality(docs)
  BY <1>2, FS_CardinalityType DEF Listings
<1>5. /\ DOMAIN markers' = 1 .. n
      /\ \A k \in 1 .. n : markers'[k] = list[k] /\ list[k] \in docs
  BY <1>2, <1>3, ListedFacts DEF ProcessEvents
<1>6. CASE n = Cardinality(docs)
  <2>1. {list[k] : k \in 1 .. n} = docs
    BY <1>2, <1>6, ListingIsComplete
  <2>. QED BY <1>1, <1>3, <1>4, <1>5, <1>6, <2>1 DEF Shown
<1>7. CASE n # Cardinality(docs)
  BY <1>1, <1>3, <1>4, <1>5, <1>7 DEF Shown
<1>. QED BY <1>6, <1>7

LEMMA ViewInit == Init => View!Init
<1> SUFFICES ASSUME Init PROVE View!Init
  OBVIOUS
<1>1. PICK first \in Slots :
        loads = [c \in Slots |-> IF c = first THEN [step |-> "new"] ELSE Idle]
  BY DEF Init
<1>2. /\ loads[first].step = "new" /\ loads[first] # Idle
      /\ \A d \in Slots \ {first} : loads[d] = Idle
  BY <1>1 DEF Idle
<1>3. Stage = "asked" /\ Found = {} /\ Shown = {}
  BY <1>2, ViewIsSeen DEF Init, Seen
<1>. QED BY <1>3 DEF Init, View!Init, Found

LEMMA ViewSteps ==
  SystemBack = FALSE /\ TypeOK /\ MapInv /\ TypeOK' /\ [Next]_vars
    => [View!Next]_<<events, selected, Stage, Found, Shown>>
<1>0. Seen'
  BY ViewIsSeen, PTL
<1> SUFFICES ASSUME SystemBack = FALSE, TypeOK, MapInv, TypeOK', [Next]_vars
             PROVE  [View!Next]_<<events, selected, Stage, Found, Shown>>
  OBVIOUS
<1>1. Touchable => \A c \in Slots : loads[c] = Idle
  BY DEF Touchable
<1>2. \A c \in Slots : loads[c].step # "none" =>
        loads[c] # Idle /\ loads[c] \in Load /\ \A d \in Slots \ {c} : loads[d] = Idle
  BY DEF MapInv, Idle, TypeOK
<1>3. ASSUME NEW f \in Filters, NEW c \in Slots, Touchable, LoadWeatherEvents(c, f),
             selected' = f, events' = events
      PROVE  View!Choose
  <2>1. Stage = "shown"
    BY <1>1, <1>3, ViewIsSeen DEF Seen
  <2>2. Stage' = "asked" /\ Found' = {} /\ Shown' = {}
    BY <1>0, <1>1, <1>3, LoadAsks
  <2>. QED BY <1>3, <2>1, <2>2 DEF View!Choose, View!Ask, Found
<1>4. CASE SelectFilter \/ AfterPublish
  <2>1. selected \in Filters
    BY DEF TypeOK
  <2>. QED BY <1>3, <1>4, <2>1 DEF SelectFilter, AfterPublish, View!Next
<1>5. CASE TapMarker \/ CloseSheet \/ UNCHANGED vars
  <2>1. UNCHANGED <<events, selected, loads, markers>>
    BY <1>5 DEF TapMarker, CloseSheet, vars
  <2>. QED BY <2>1, ViewStays
<1>6. ASSUME NEW c \in Slots, FirstFrame(c)
      PROVE  UNCHANGED <<events, selected, Stage, Found, Shown>>
  <2>1. loads[c].step = "new" /\ LoadWeatherEvents(c, 0) /\ UNCHANGED <<events, selected>>
    BY <1>6 DEF FirstFrame
  <2>2. Stage = "asked" /\ Found = {} /\ Shown = {}
    BY <1>2, <2>1, ViewIsSeen DEF Seen, MapInv, Fresh
  <2>3. Stage' = "asked" /\ Found' = {} /\ Shown' = {}
    BY <1>0, <1>2, <2>1, LoadAsks
  <2>. QED BY <2>1, <2>2, <2>3
<1>7. ASSUME NEW c \in Slots, Firestore(c)
      PROVE  View!Look
  <2>1. PICK load : load = [step |-> "found",
                            docs |-> {d \in events : Matches(d, loads[c].filter)}]
    OBVIOUS
  <2>2. /\ loads[c].step = "asked" /\ Continue(c, load)
        /\ UNCHANGED <<events, selected, markers>>
    BY <1>7, <2>1 DEF Firestore
  <2>3. loads[c].filter = selected
    BY <1>2, <2>2 DEF MapInv, Fresh
  <2>4. load # Idle /\ load.step = "found" /\ load.docs = {d \in events : Matches(d, selected)}
    BY <2>1, <2>3 DEF Idle
  <2>5. Stage = "asked"
    BY <1>2, <2>2, ViewIsSeen DEF Seen
  <2>6. Stage' = "found" /\ Found' = {d \in events : Matches(d, selected)}
    BY <1>0, <1>2, <2>2, <2>4, LoadMoves
  <2>7. Shown' = Shown
    BY <2>2 DEF Shown
  <2>. QED BY <2>2, <2>5, <2>6, <2>7 DEF View!Look, Found
<1>8. ASSUME NEW c \in Slots, Answered(c)
      PROVE  View!Show \/ View!Fail
  <2>1. loads[c].step = "found" /\ UNCHANGED <<events, selected>>
    BY <1>8 DEF Answered
  <2>2. Stage = "found" /\ Found = loads[c].docs
    BY <1>2, <2>1, ViewIsSeen DEF Seen
  <2>3. CASE Continue(c, Idle) /\ Shown' = loads[c].docs
    <3>1. Stage' = "shown" /\ Found' = {}
      BY <1>0, <1>2, <2>1, <2>3, LoadMoves
    <3>. QED BY <2>1, <2>2, <2>3, <3>1 DEF View!Show, Found
  <2>4. CASE Continue(c, [step |-> "stuck"]) /\ Shown' \in SUBSET loads[c].docs
    <3>1. PICK load : load = [step |-> "stuck"]
      OBVIOUS
    <3>2. load.step = "stuck" /\ load # Idle
      BY <3>1 DEF Idle
    <3>3. Stage' = "dead" /\ Found' = {}
      BY <1>0, <1>2, <2>1, <2>4, <3>1, <3>2, LoadMoves
    <3>. QED BY <2>1, <2>2, <2>4, <3>3 DEF View!Fail, Found
  <2>. QED BY <1>8, <2>3, <2>4, AnswerShowsFound
<1>9. ASSUME NEW c \in Slots, QueryFails(c)
      PROVE  View!Fail
  <2>1. PICK load : load = [step |-> "stuck"]
    OBVIOUS
  <2>2. /\ loads[c].step = "asked" /\ Continue(c, load)
        /\ UNCHANGED <<events, selected, markers>>
    BY <1>9, <2>1 DEF QueryFails
  <2>3. load.step = "stuck" /\ load # Idle
    BY <2>1 DEF Idle
  <2>4. Stage = "asked" /\ Found = {} /\ Shown = {}
    BY <1>2, <2>2, ViewIsSeen DEF Seen, MapInv, Fresh
  <2>5. Stage' = "dead" /\ Found' = {}
    BY <1>0, <1>2, <2>2, <2>3, LoadMoves
  <2>6. Shown' = {}
    BY <2>2, <2>4 DEF Shown
  <2>. QED BY <2>2, <2>4, <2>5, <2>6 DEF View!Fail, Found
<1>10. CASE EventsChange
  <2>1. UNCHANGED <<selected, loads, markers>> /\ events' \in SUBSET Document
    BY <1>10 DEF EventsChange, TypeOK
  <2>. QED BY <2>1, ViewStays DEF View!Next, View!Change, Found
<1>11. CASE Restart
  <2>1. PICK first \in Slots :
          loads' = [c \in Slots |-> IF c = first THEN [step |-> "new"] ELSE Idle]
    BY <1>11 DEF Restart
  <2>2. /\ loads'[first].step = "new" /\ loads'[first] # Idle
        /\ \A d \in Slots \ {first} : loads'[d] = Idle
    BY <2>1 DEF Idle
  <2>3. Stage' = "asked" /\ Found' = {} /\ Shown' = {}
    BY <1>0, <1>11, <2>2 DEF Restart, Seen
  <2>. QED BY <1>11, <2>3 DEF Restart, View!Next, View!StartNew, View!Ask, Found
<1>. QED BY <1>4, <1>5, <1>6, <1>7, <1>8, <1>9, <1>10, <1>11 DEF Next, Progress, View!Next

\* A page of map.dart implements MapView: what it shows is what the collection
\* held, for the chosen category, at one moment after the choice; a failure shows
\* a part of it and leaves the page under its spinner.
THEOREM PageShowsSnapshots ==
  ASSUME SystemBack = FALSE
  PROVE  Spec => ImplementsView
<1>1. TypeOK /\ MapInv /\ [Next]_vars => (TypeOK /\ MapInv)'
  BY TypeStep, InvStep
<1>2. TypeOK /\ MapInv /\ TypeOK' /\ [Next]_vars
        => [View!Next]_<<events, selected, Stage,
                         IF Current.step = "found" THEN Current.docs ELSE {}, Shown>>
  BY ViewSteps DEF Found
<1>. QED BY <1>1, <1>2, ViewInit, TypeInit, InvInit, PTL DEF Spec, ImplementsView, View!Spec
=============================================================================
