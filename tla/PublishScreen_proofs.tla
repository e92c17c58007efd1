------------------------ MODULE PublishScreen_proofs ------------------------
(***************************************************************************)
(* What PublishEvent publishes, on a phone without a back button: for any  *)
(* categories, places, photos and bounds, with the address and the photos  *)
(* arriving whenever they like, uploads that fail, other phones uploading  *)
(* and restarts at any moment.  Where nothing arrives late and no other    *)
(* phone uploads, the documents are a log of the drafts.                   *)
(***************************************************************************)
EXTENDS PublishScreen, FiniteSetTheorems, TLAPS

-----------------------------------------------------------------------------
(* Sequences, runs and the bound on the clock *)

\* Append, by its elements.
LEMMA AppendFacts ==
  ASSUME NEW S, NEW s \in Seq(S), NEW e \in S
  PROVE  LET t == Append(s, e) IN
         /\ t \in Seq(S) /\ Len(t) = Len(s) + 1 /\ Len(s) \in Nat
         /\ DOMAIN s = 1 .. Len(s) /\ DOMAIN t = 1 .. (Len(s) + 1)
         /\ \A i \in 1 .. Len(s) : t[i] = s[i]
         /\ t[Len(s) + 1] = e
OBVIOUS

LEMMA EmptyFacts == \A S : << >> \in Seq(S) /\ DOMAIN << >> = {} /\ Len(<< >>) = 0
OBVIOUS

\* The fields of a run are told by its step.
LEMMA RunFields ==
  ASSUME NEW run \in Runs
  PROVE  /\ run.step \in {"none", "badPlace", "thanks", "stuck", "geocode", "upload", "add"}
         /\ run.step = "none" <=> run = Idle
         /\ run.step = "geocode" => run.place \in Places \cup BadPlaces
         /\ run.step = "upload" => /\ run.place \in Places /\ run.at \in Nat /\ run.n \in Nat
                                   /\ run.photo \in Photos /\ run.path \in Paths
         /\ run.step = "add" => run.event \in Events
BY DEF Runs, Idle

LEMMA RunTypes ==
  /\ Idle \in Runs /\ Idle.step = "none"
  /\ \A step \in {"badPlace", "thanks", "stuck"} : [step |-> step] \in Runs
  /\ \A place \in Places \cup BadPlaces : [step |-> "geocode", place |-> place] \in Runs
BY DEF Runs, Idle

\* One run has time for all its photos.
LEMMA TimeForOne ==
  ASSUME TimeLeft, NEW h \in Handlers, clock \in Nat
  PROVE  clock + MostPhotos <= MaxTime
<1>1. IsFiniteSet(Handlers) /\ MostPhotos \in Nat /\ MaxTime \in Nat
  BY PublishAssumption DEF MostPhotos
<1>2. Cardinality(Handlers) \in Nat /\ Cardinality(Handlers) # 0
  BY <1>1, FS_CardinalityType, FS_EmptySet
<1>3. PICK k : k = Cardinality(Handlers)
  OBVIOUS
<1>4. k \in Nat /\ k >= 1
  BY <1>2, <1>3
<1>5. MostPhotos <= k * MostPhotos
  <2>1. k * MostPhotos = (k - 1) * MostPhotos + MostPhotos
    BY <1>1, <1>4
  <2>2. (k - 1) * MostPhotos >= 0
    BY <1>1, <1>4
  <2>3. k * MostPhotos \in Nat /\ (k - 1) * MostPhotos \in Int
    BY <1>1, <1>4
  <2>. QED BY <1>1, <2>1, <2>2, <2>3
<1>6. clock + k * MostPhotos <= MaxTime
  BY <1>3 DEF TimeLeft
<1>7. k * MostPhotos \in Nat
  BY <1>1, <1>4
<1>. QED BY <1>1, <1>5, <1>6, <1>7

-----------------------------------------------------------------------------
(* Steps that leave the runs' surroundings alone *)

\* A step of one run: the others are idle.
LEMMA OneRun ==
  ASSUME NEW h \in Handlers, NEW run \in Runs, runs \in [Handlers -> Runs],
         Continue(h, run), \A g \in Handlers \ {h} : runs[g] = Idle
  PROVE  /\ runs' \in [Handlers -> Runs] /\ runs'[h] = run
         /\ \A g \in Handlers \ {h} : runs'[g] = Idle
         /\ \A g, k \in Handlers : runs'[g] # Idle /\ runs'[k] # Idle => g = k
         /\ Publishing' <=> run # Idle
BY DEF Continue, Publishing

\* Nothing is asked of a run that is not busy with the form.
LEMMA RestingFits ==
  ASSUME NEW run, run.step \in {"none", "thanks", "stuck"}
  PROVE  RunFits(run)'
BY DEF RunFits

\* What was fit to publish stays so while no file goes.
LEMMA FitStaysFit ==
  ASSUME NEW e, FitToPublish(e), DOMAIN storage \subseteq DOMAIN storage'
  PROVE  FitToPublish(e)'
BY DEF FitToPublish, Filed

LEMMA EventsStayFit ==
  ASSUME TypeOK, PublishInv, UNCHANGED events, DOMAIN storage \subseteq DOMAIN storage'
  PROVE  (\A i \in DOMAIN events : FitToPublish(events[i]))'
<1>1. ASSUME NEW i \in DOMAIN events
      PROVE  FitToPublish(events[i])'
  <2>1. PICK e : e = events[i]
    OBVIOUS
  <2>2. FitToPublish(e)'
    BY <2>1, FitStaysFit DEF PublishInv
  <2>. QED BY <2>1, <2>2 DEF FitToPublish
<1>. QED BY <1>1 DEF FitToPublish

\* The next await of a run, or its end.
LEMMA RunStep ==
  ASSUME TypeOK, NEW h \in Handlers, NEW run \in Runs, Continue(h, run),
         \A g \in Handlers \ {h} : runs[g] = Idle,
         RunFits(run)', RoomForPick,
         UNCHANGED <<form, photos, lookup, sheet, pick>>,
         page' \in BOOLEAN, run # Idle => page', page' /\ run = Idle => urls' = << >>,
         urls' \in Seq(Paths), clock' \in 0 .. MaxTime, DOMAIN storage' \subseteq Paths,
         \A p \in DOMAIN storage' : storage'[p] \in Photos \cup {NoPhoto},
         events' \in Seq(Events), (\A i \in DOMAIN events : FitToPublish(events[i]))'
  PROVE  TypeOK' /\ PublishInv'
<1>1. /\ runs' \in [Handlers -> Runs] /\ runs'[h] = run
      /\ \A g \in Handlers \ {h} : runs'[g] = Idle
      /\ \A g, k \in Handlers : runs'[g] # Idle /\ runs'[k] # Idle => g = k
      /\ Publishing' <=> run # Idle
  BY OneRun DEF TypeOK
<1>2. TypeOK'
  BY <1>1 DEF TypeOK
<1>3. ASSUME NEW g \in Handlers
      PROVE  RunFits(runs[g])'
  <2>1. CASE g = h
    BY <1>1, <2>1 DEF RunFits
  <2>2. CASE g # h
    BY <1>1, <2>2, RunTypes DEF RunFits
  <2>. QED BY <2>1, <2>2
<1>4. RoomForPick'
  BY DEF RoomForPick
<1> HIDE DEF RunFits, FitToPublish
<1>. QED BY <1>1, <1>2, <1>3, <1>4 DEF PublishInv

\* A step in a form that is not being published.
LEMMA QuietForm ==
  ASSUME TypeOK, PublishInv, \A h \in Handlers : runs'[h] = Idle,
         runs' \in [Handlers -> Runs], UNCHANGED remote,
         page' \in BOOLEAN, lookup' \in BOOLEAN, sheet' \in BOOLEAN, pick' \in BOOLEAN,
         form' \in Forms, photos' \in Seq(Photos), Len(photos') <= MostPhotos,
         urls' \in Seq(Paths), page' => urls' = << >>, RoomForPick'
  PROVE  TypeOK' /\ PublishInv'
<1>1. TypeOK'
  BY DEF TypeOK, remote
<1>2. \A h \in Handlers : RunFits(runs[h])'
  BY RunTypes DEF RunFits
<1>3. (\A i \in DOMAIN events : FitToPublish(events[i]))'
  BY EventsStayFit DEF remote
<1>4. ~Publishing'
  BY DEF Publishing
<1> HIDE DEF RunFits, FitToPublish
<1>. QED BY <1>1, <1>2, <1>3, <1>4 DEF PublishInv

-----------------------------------------------------------------------------
(* Every step keeps PublishInv *)

LEMMA PublishInit == Init => TypeOK /\ PublishInv
<1> SUFFICES ASSUME Init PROVE TypeOK /\ PublishInv
  OBVIOUS
<1>1. EmptyForm \in Forms
  BY PublishAssumption DEF EmptyForm, Forms
<1>2. runs \in [Handlers -> Runs] /\ \A h \in Handlers : runs[h] = Idle
  BY RunTypes DEF Init
<1>3. clock \in 0 .. MaxTime /\ DOMAIN storage = {}
  BY PublishAssumption DEF Init
<1>4. photos \in Seq(Photos) /\ urls \in Seq(Paths) /\ events \in Seq(Events)
      /\ Len(photos) = 0 /\ DOMAIN events = {}
  BY EmptyFacts DEF Init
<1>5. MostPhotos >= 0
  BY PublishAssumption DEF MostPhotos
<1>6. TypeOK
  BY <1>1, <1>2, <1>3, <1>4, <1>5 DEF Init, TypeOK
<1>7. \A h \in Handlers : RunFits(runs[h])
  BY <1>2, RunTypes DEF RunFits
<1>8. ~Publishing /\ RoomForPick /\ urls = << >>
  BY <1>2 DEF Init, Publishing, RoomForPick
<1>. QED BY <1>2, <1>4, <1>6, <1>7, <1>8 DEF PublishInv

\* Taps on the form, while it is not being published.
LEMMA EditKeeps ==
  ASSUME TypeOK, PublishInv, SystemBack = FALSE,
         \/ OpenPage \/ SelectCategory \/ TypeHazard \/ ChooseLocation \/ FillAnswers
         \/ LeavePage \/ Restart
  PROVE  TypeOK' /\ PublishInv'
<1>1. Editable => page /\ urls = << >> /\ \A h \in Handlers : runs[h] = Idle
  BY DEF Editable, Uncovered, Publishing, PublishInv
<1>2. ASSUME NEW f \in Forms, Edit(f)
      PROVE  TypeOK' /\ PublishInv'
  <2>1. RoomForPick'
    BY <1>2 DEF Edit, PublishInv, RoomForPick
  <2>. QED BY <1>1, <1>2, <2>1, QuietForm DEF Edit, TypeOK
<1>3. EmptyForm \in Forms /\ MostPhotos >= 0 /\ MaxPhotos >= 0 /\ Len(<< >>) = 0
      /\ << >> \in Seq(Photos) /\ << >> \in Seq(Paths)
  BY PublishAssumption, EmptyFacts DEF EmptyForm, Forms, MostPhotos
<1>4. CASE OpenPage \/ Restart
  <2>1. /\ form' = EmptyForm /\ photos' = << >> /\ urls' = << >>
        /\ sheet' = FALSE /\ pick' = FALSE /\ lookup' \in BOOLEAN /\ page' \in BOOLEAN
        /\ UNCHANGED remote
    BY <1>4 DEF OpenPage, Restart
  <2>2. runs' \in [Handlers -> Runs] /\ \A h \in Handlers : runs'[h] = Idle
    BY <1>4, RunTypes DEF OpenPage, Restart, Publishing, TypeOK
  <2>3. RoomForPick'
    BY <2>1 DEF RoomForPick
  <2>. QED BY <1>3, <2>1, <2>2, <2>3, QuietForm
<1>5. CASE SelectCategory \/ TypeHazard \/ ChooseLocation \/ FillAnswers
  <2>1. \A k \in Categories : [form EXCEPT !.category = k] \in Forms
    BY DEF TypeOK, Forms
  <2>2. \A b \in BOOLEAN : [form EXCEPT !.hazard = b] \in Forms
    BY DEF TypeOK, Forms
  <2>3. \A p \in Places \cup BadPlaces \cup {NoPlace} : [form EXCEPT !.place = p] \in Forms
    BY DEF TypeOK, Forms
  <2>4. \A a \in Answers : [form EXCEPT !.answers = a] \in Forms
    BY DEF TypeOK, Forms
  <2>5. \E f \in Forms : Edit(f)
    BY <1>5, <2>1, <2>2, <2>3, <2>4 DEF SelectCategory, TypeHazard, ChooseLocation, FillAnswers
  <2>. QED BY <1>2, <2>5
<1>6. CASE LeavePage
  <2>1. /\ \A h \in Handlers : runs[h] = Idle
        /\ UNCHANGED <<form, photos, urls, runs, lookup, sheet, pick, remote>>
        /\ page' = FALSE
    BY <1>1, <1>6 DEF LeavePage
  <2>2. /\ pick' \in BOOLEAN /\ page' \in BOOLEAN /\ lookup' \in BOOLEAN /\ sheet' \in BOOLEAN
    BY <2>1, Zenon DEF TypeOK
  <2>3. RoomForPick'
    BY <2>1 DEF PublishInv, RoomForPick
  <2>. QED BY <2>1, <2>2, <2>3, QuietForm DEF TypeOK
<1>. QED BY <1>4, <1>5, <1>6

\* The sheet, which is opened while there is a tile and does not count again.
LEMMA SheetKeeps ==
  ASSUME TypeOK, PublishInv, SystemBack = FALSE, OpenSheet \/ CloseSheet \/ StartPick
  PROVE  TypeOK' /\ PublishInv'
<1>1. /\ page /\ urls = << >> /\ \A h \in Handlers : runs[h] = Idle
      /\ UNCHANGED <<page, form, photos, urls, runs, lookup, remote>>
  BY DEF OpenSheet, CloseSheet, StartPick, Editable, Uncovered, Publishing, PublishInv
<1>2. sheet' \in BOOLEAN /\ pick' \in BOOLEAN /\ page' \in BOOLEAN /\ lookup' \in BOOLEAN
  <2>1. /\ sheet' \in {TRUE, FALSE} /\ pick' \in {pick, TRUE}
        /\ page' = page /\ lookup' = lookup
    BY <1>1 DEF OpenSheet, CloseSheet, StartPick
  <2>. QED BY <2>1, Zenon DEF TypeOK
<1>3. RoomForPick'
  <2>1. Len(photos) \in Nat /\ MaxPhotos \in Nat /\ photos' = photos
    BY <1>1, PublishAssumption DEF TypeOK
  <2>2. CASE OpenSheet
    BY <2>1, <2>2 DEF OpenSheet, PublishInv, RoomForPick
  <2>3. CASE CloseSheet
    BY <2>1, <2>3 DEF CloseSheet, PublishInv, RoomForPick
  <2>4. CASE StartPick
    BY <2>1, <2>4 DEF StartPick, PublishInv, RoomForPick
  <2>. QED BY <2>2, <2>3, <2>4
<1>. QED BY <1>1, <1>2, <1>3, QuietForm DEF TypeOK

\* The address and the photo, at whatever moment.
LEMMA LateKeeps ==
  ASSUME TypeOK, PublishInv, AddressAnswers \/ PickAnswers
  PROVE  TypeOK' /\ PublishInv'
<1>1. /\ UNCHANGED <<page, urls, runs, remote>> /\ form'.category = form.category
      /\ Complete(form) => Complete(form)'
      /\ form' \in Forms /\ photos' \in Seq(Photos) /\ Len(photos') <= MostPhotos
      /\ Len(photos) <= Len(photos') /\ lookup' \in BOOLEAN /\ pick' \in BOOLEAN
      /\ sheet' = sheet /\ sheet \in BOOLEAN /\ RoomForPick'
  <2>1. CASE AddressAnswers
    <3>1. form' \in {[form EXCEPT !.place = Here], form}
          /\ UNCHANGED <<page, photos, urls, runs, sheet, pick, remote>> /\ lookup' = FALSE
      BY <2>1 DEF AddressAnswers
    <3>2. form' \in Forms /\ form'.category = form.category
          /\ (Complete(form) => Complete(form'))
      BY <3>1, PublishAssumption DEF TypeOK, Forms, Complete
    <3>3. lookup' \in BOOLEAN /\ pick' \in BOOLEAN
      BY <3>1, Zenon DEF TypeOK
    <3>4. RoomForPick'
      BY <3>1 DEF PublishInv, RoomForPick
    <3>5. Len(photos) \in Nat /\ Len(photos) <= MostPhotos /\ photos \in Seq(Photos)
          /\ sheet \in BOOLEAN
      BY DEF TypeOK
    <3>. QED BY <3>1, <3>2, <3>3, <3>4, <3>5 DEF Complete
  <2>2. CASE PickAnswers
    <3>1. /\ pick /\ pick' = FALSE /\ UNCHANGED <<page, form, urls, runs, lookup, sheet, remote>>
          /\ \/ photos' = photos
             \/ \E photo \in Photos : photos' = Append(photos, photo)
      BY <2>2 DEF PickAnswers
    <3>2. photos' \in Seq(Photos) /\ Len(photos') \in {Len(photos), Len(photos) + 1}
          /\ Len(photos) \in Nat
      <4>1. photos \in Seq(Photos) /\ Len(photos) \in Nat
        BY DEF TypeOK
      <4>2. \A photo \in Photos : /\ Append(photos, photo) \in Seq(Photos)
                                  /\ Len(Append(photos, photo)) = Len(photos) + 1
        BY <4>1
      <4>. QED BY <3>1, <4>1, <4>2
    <3>3. /\ Len(photos) <= MaxPhotos /\ MaxPhotos \in Nat /\ MostPhotos = MaxPhotos + 1
          /\ sheet => Len(photos) < MaxPhotos
      BY <3>1, PublishAssumption DEF PublishInv, RoomForPick, MostPhotos
    <3>4. lookup' \in BOOLEAN /\ pick' \in BOOLEAN /\ sheet \in BOOLEAN
      BY <3>1, Zenon DEF TypeOK
    <3>6. Len(photos') <= MostPhotos /\ Len(photos) <= Len(photos')
      BY <3>2, <3>3
    <3>7. RoomForPick'
      BY <3>1, <3>2, <3>3 DEF RoomForPick
    <3>5. form' = form /\ form \in Forms
      BY <3>1 DEF TypeOK
    <3>. QED BY <3>1, <3>2, <3>4, <3>5, <3>6, <3>7 DEF Complete
  <2>. QED BY <2>1, <2>2
<1>2. TypeOK'
  BY <1>1 DEF TypeOK, remote
<1>3. ASSUME NEW h \in Handlers
      PROVE  RunFits(runs[h])'
  <2>1. RunFits(runs[h]) /\ runs[h] \in Runs
    BY DEF PublishInv, TypeOK
  <2>2. Len(photos) \in Nat /\ Len(photos') \in Nat
    BY <1>1 DEF TypeOK
  <2>3. runs[h].step = "upload" => runs[h].n <= Len(photos')
    BY <1>1, <2>1, <2>2, RunFields DEF RunFits
  <2>4. FitToPublish(runs[h].event) => FitToPublish(runs[h].event)'
    BY <1>1 DEF FitToPublish, Filed, remote
  <2>. QED BY <1>1, <2>1, <2>3, <2>4 DEF RunFits, Filed, remote
<1>4. (\A i \in DOMAIN events : FitToPublish(events[i]))'
  BY <1>1, EventsStayFit DEF remote
<1>5. Publishing' <=> Publishing
  BY <1>1 DEF Publishing
<1> HIDE DEF RunFits, FitToPublish
<1>. QED BY <1>1, <1>2, <1>3, <1>4, <1>5 DEF PublishInv

\* Other phones only add files, or write over one.
LEMMA OtherKeeps ==
  ASSUME TypeOK, PublishInv, OtherUpload
  PROVE  TypeOK' /\ PublishInv'
<1>1. /\ UNCHANGED <<page, form, photos, urls, runs, lookup, sheet, pick, clock, events>>
      /\ clock < MaxTime
  BY DEF OtherUpload
<1>2. PICK k \in Categories :
        storage' = [p \in DOMAIN storage \cup {FilePath(k + 1, clock)} |->
                      IF p = FilePath(k + 1, clock) THEN NoPhoto ELSE storage[p]]
  BY DEF OtherUpload, Stored
<1>3. FilePath(k + 1, clock) \in Paths
  BY DEF FilePath, Paths, TypeOK
<1>4. /\ DOMAIN storage \subseteq DOMAIN storage' /\ DOMAIN storage' \subseteq Paths
      /\ \A p \in DOMAIN storage' : storage'[p] \in Photos \cup {NoPhoto}
  BY <1>2, <1>3 DEF TypeOK
<1>5. TypeOK'
  BY <1>1, <1>4 DEF TypeOK
<1>6. ASSUME NEW h \in Handlers
      PROVE  RunFits(runs[h])'
  <2>1. RunFits(runs[h])
    BY DEF PublishInv
  <2>2. FitToPublish(runs[h].event) => FitToPublish(runs[h].event)'
    BY <1>1, <1>4 DEF FitToPublish, Filed
  <2>. QED BY <1>1, <1>4, <2>1, <2>2 DEF RunFits, Filed
<1>7. (\A i \in DOMAIN events : FitToPublish(events[i]))'
  BY <1>1, <1>4, EventsStayFit
<1>8. Publishing' <=> Publishing
  BY <1>1 DEF Publishing
<1> HIDE DEF RunFits, FitToPublish
<1>. QED BY <1>1, <1>5, <1>6, <1>7, <1>8 DEF PublishInv, RoomForPick

-----------------------------------------------------------------------------
(* The steps of PublishEvent *)

\* What a run finds after its await.
LEMMA RunFinds ==
  ASSUME TypeOK, PublishInv, NEW h \in Handlers, runs[h].step # "none"
  PROVE  /\ page /\ runs[h] \in Runs /\ runs[h] # Idle /\ RunFits(runs[h])
         /\ \A g \in Handlers \ {h} : runs[g] = Idle
         /\ RoomForPick
BY RunTypes DEF TypeOK, PublishInv, Publishing

\* A step in which nothing but the run changes.
LEMMA OnlyTheRun ==
  ASSUME TypeOK, PublishInv, NEW h \in Handlers, NEW run \in Runs, Continue(h, run),
         \A g \in Handlers \ {h} : runs[g] = Idle, RunFits(run)', page,
         run = Idle => page' = FALSE \/ urls = << >>, run # Idle => page' = page,
         page' \in BOOLEAN, UNCHANGED <<form, photos, urls, lookup, sheet, pick, remote>>
  PROVE  TypeOK' /\ PublishInv'
<1>1. (\A i \in DOMAIN events : FitToPublish(events[i]))'
  BY EventsStayFit DEF remote
<1>2. /\ RoomForPick
      /\ urls' \in Seq(Paths) /\ clock' \in 0 .. MaxTime /\ DOMAIN storage' \subseteq Paths
      /\ \A p \in DOMAIN storage' : storage'[p] \in Photos \cup {NoPhoto}
      /\ events' \in Seq(Events)
  BY DEF TypeOK, PublishInv, remote
<1> HIDE DEF RunFits, FitToPublish
<1>. QED BY <1>1, <1>2, RunStep

LEMMA SubmitKeeps ==
  ASSUME TypeOK, PublishInv, SystemBack = FALSE, NEW h \in Handlers, Submit(h)
  PROVE  TypeOK' /\ PublishInv'
<1>1. /\ page /\ urls = << >> /\ \A g \in Handlers : runs[g] = Idle
      /\ Complete(form) /\ TimeLeft
  BY DEF Submit, Editable, Uncovered, Publishing, PublishInv
<1>2. PICK run : run = [step |-> "geocode", place |-> form.place]
  OBVIOUS
<1>3. /\ run \in Runs /\ run.step = "geocode"
  <2>1. form.place \in Places \cup BadPlaces
    BY <1>1 DEF TypeOK, Forms, Complete
  <2>. QED BY <1>2, <2>1, RunTypes
<1>4. /\ Continue(h, run) /\ UNCHANGED <<page, form, photos, urls, lookup, sheet, pick, remote>>
  BY <1>2 DEF Submit
<1>5. clock + MostPhotos <= MaxTime
  BY <1>1, TimeForOne DEF TypeOK
<1>6. RunFits(run)'
  BY <1>1, <1>3, <1>4, <1>5 DEF RunFits, Complete, remote
<1>7. run # Idle /\ page' \in BOOLEAN
  <2>1. run # Idle
    BY <1>3, RunTypes
  <2>2. page' = page
    BY <1>4
  <2>. QED BY <2>1, <2>2, Zenon DEF TypeOK
<1>. QED BY <1>1, <1>3, <1>4, <1>6, <1>7, OnlyTheRun

\* The document is made of the form that was validated.
LEMMA SendFits ==
  ASSUME TypeOK, NEW place \in Places, NEW images \in Seq(Paths),
         Complete(form), Filed(images, form.category + 1)', UNCHANGED form
  PROVE  \E run \in Runs :
           /\ run = [step |-> "add", event |-> [form |-> form, location |-> place,
                                               images |-> images]]
           /\ run # Idle /\ RunFits(run)'
<1>1. PICK e : e = [form |-> form, location |-> place, images |-> images]
  OBVIOUS
<1>2. e \in Events /\ e.form = form /\ e.images = images
  BY <1>1 DEF TypeOK, Events
<1>3. PICK run : run = [step |-> "add", event |-> e]
  OBVIOUS
<1>4. run \in Runs /\ run.step = "add" /\ run.event = e
  BY <1>2, <1>3 DEF Runs
<1>5. FitToPublish(e)'
  BY <1>2 DEF FitToPublish, Filed, Complete
<1>6. RunFits(run)'
  BY <1>4, <1>5 DEF RunFits, FitToPublish
<1>. QED BY <1>1, <1>3, <1>4, <1>6, RunTypes

LEMMA CloseKeeps ==
  ASSUME TypeOK, PublishInv, SystemBack = FALSE, NEW h \in Handlers,
         \/ CloseError(h) \/ CloseThanks(h) \/ NotGeocoded(h) \/ Uncaught(h)
  PROVE  TypeOK' /\ PublishInv'
<1>1. runs[h].step # "none" => /\ page /\ RunFits(runs[h]) /\ runs[h] \in Runs
                               /\ \A g \in Handlers \ {h} : runs[g] = Idle
  BY RunFinds
<1>2. CASE CloseError(h) \/ CloseThanks(h)
  <2>1. /\ runs[h].step \in {"badPlace", "thanks"} /\ Continue(h, Idle)
        /\ UNCHANGED <<form, photos, urls, lookup, sheet, pick, remote>>
        /\ IF runs[h].step = "badPlace" THEN page' = page ELSE page' = FALSE
    BY <1>2 DEF CloseError, CloseThanks
  <2>2. page' \in BOOLEAN
    BY <2>1, Zenon DEF TypeOK
  <2>3. runs[h].step = "badPlace" => urls = << >>
    BY <1>1, <2>1 DEF RunFits
  <2>4. RunFits(Idle)'
    BY RunTypes, RestingFits
  <2>. QED BY <1>1, <2>1, <2>2, <2>3, <2>4, RunTypes, OnlyTheRun
<1>3. CASE NotGeocoded(h) \/ Uncaught(h)
  <2>1. /\ runs[h].step \in {"geocode", "upload"}
        /\ UNCHANGED <<page, form, photos, urls, lookup, sheet, pick, remote>>
    BY <1>3 DEF NotGeocoded, Uncaught
  <2>2. PICK run \in {[step |-> "badPlace"], [step |-> "stuck"]} :
          Continue(h, run) /\ (run.step = "badPlace" => runs[h].step = "geocode")
    BY <1>1, <1>3, <2>1 DEF NotGeocoded, Uncaught
  <2>3. run \in Runs /\ run # Idle /\ run.step \in {"badPlace", "stuck"}
    BY <2>2, RunTypes
  <2>4. RunFits(run)'
    <3>1. run.step = "badPlace" => urls' = << >>
      BY <1>1, <2>1, <2>2 DEF RunFits
    <3>. QED BY <2>3, <3>1 DEF RunFits
  <2>5. page' \in BOOLEAN
    BY <2>1, Zenon DEF TypeOK
  <2>. QED BY <1>1, <2>1, <2>2, <2>3, <2>4, <2>5, OnlyTheRun
<1>. QED BY <1>2, <1>3

\* The next photo goes into a file of its own.
LEMMA UploadFits ==
  ASSUME TypeOK, NEW place \in Places, NEW at \in Nat \ {0}, NEW n \in Nat, NEW time,
         at <= n, n <= Len(photos), time \in 0 .. MaxTime, time + n < MaxTime + at,
         clock' = time, UNCHANGED <<form, photos>>, Complete(form),
         Len(urls') + 1 = at, Filed(urls, form.category + 1)',
         \A i \in DOMAIN urls' : urls'[i].time < time
  PROVE  \E run \in Runs :
           /\ run = [step |-> "upload", place |-> place, at |-> at, n |-> n,
                     photo |-> photos[at], path |-> FilePath(form.category + 1, time)]
           /\ run # Idle /\ RunFits(run)'
<1>1. PICK photo, path : photo = photos[at] /\ path = FilePath(form.category + 1, time)
  OBVIOUS
<1>2. photo \in Photos
  <2>1. Len(photos) \in Nat /\ photos \in Seq(Photos)
    BY DEF TypeOK
  <2>2. at \in 1 .. Len(photos)
    BY <2>1
  <2>. QED BY <1>1, <2>1, <2>2
<1>3. path \in Paths
  BY <1>1 DEF FilePath, Paths, TypeOK, Forms
<1>4. PICK run : run = [step |-> "upload", place |-> place, at |-> at, n |-> n,
                        photo |-> photo, path |-> path]
  OBVIOUS
<1>5. run \in Runs /\ run.step = "upload" /\ run.at = at /\ run.n = n /\ run.path = path
  BY <1>2, <1>3, <1>4 DEF Runs
<1>6. Complete(form)' /\ (run.path = FilePath(form.category + 1, clock))'
  BY <1>1, <1>5 DEF Complete
<1>7. RunFits(run)'
  BY <1>5, <1>6 DEF RunFits
<1>. QED BY <1>1, <1>4, <1>5, <1>7, RunTypes

LEMMA GeocodedKeeps ==
  ASSUME TypeOK, PublishInv, NEW h \in Handlers, Geocoded(h)
  PROVE  TypeOK' /\ PublishInv'
<1>1. /\ page /\ RunFits(runs[h]) /\ runs[h] \in Runs /\ runs[h].step = "geocode"
      /\ \A g \in Handlers \ {h} : runs[g] = Idle
      /\ RoomForPick
  BY RunFinds DEF Geocoded
<1>2. /\ UNCHANGED <<page, form, photos, lookup, sheet, pick, remote>> /\ runs[h].place \in Places
      /\ urls = << >> /\ Complete(form) /\ clock + MostPhotos <= MaxTime
  BY <1>1 DEF Geocoded, RunFits
<1>3. urls' = << >>
  BY <1>2 DEF Geocoded
<1>4. Filed(urls, form.category + 1)' /\ \A i \in DOMAIN urls' : urls'[i].time < clock
  BY <1>3, EmptyFacts DEF Filed
<1>5. \E run \in Runs : Continue(h, run) /\ run # Idle /\ RunFits(run)'
  <2>1. CASE photos = << >>
    <3>1. Send(h, urls)
      BY <2>1 DEF Geocoded
    <3>2. PICK images : images = urls
      OBVIOUS
    <3>3. images \in Seq(Paths) /\ Filed(images, form.category + 1)'
      BY <1>2, <1>3, <1>4, <3>2 DEF TypeOK, Filed
    <3>. QED BY <1>2, <3>1, <3>2, <3>3, SendFits DEF Send
  <2>2. CASE photos # << >>
    <3>1. Upload(h, form.category + 1, 1, Len(photos), clock)
      BY <2>2 DEF Geocoded
    <3>2. Len(photos) \in Nat /\ Len(photos) >= 1 /\ Len(photos) <= MostPhotos
      BY <2>2 DEF TypeOK
    <3>3. PICK time : time = clock
      OBVIOUS
    <3>4. time \in 0 .. MaxTime /\ time + Len(photos) < MaxTime + 1 /\ clock' = time
      BY <1>2, <3>2, <3>3, PublishAssumption DEF TypeOK, remote, MostPhotos
    <3>5. Len(urls') + 1 = 1 /\ 1 \in Nat \ {0}
      BY <1>3
    <3>. QED BY <1>2, <1>4, <3>1, <3>2, <3>3, <3>4, <3>5, UploadFits DEF Upload
  <2>. QED BY <2>1, <2>2
<1>6. PICK run \in Runs : Continue(h, run) /\ run # Idle /\ RunFits(run)'
  BY <1>5
<1>7. /\ page' \in BOOLEAN /\ page'
  <2>1. page' = page
    BY <1>2
  <2>. QED BY <1>1, <2>1, Zenon DEF TypeOK
<1>8. /\ urls' \in Seq(Paths) /\ clock' \in 0 .. MaxTime /\ DOMAIN storage' \subseteq Paths
      /\ \A p \in DOMAIN storage' : storage'[p] \in Photos \cup {NoPhoto}
      /\ events' \in Seq(Events)
  BY <1>2, <1>3 DEF TypeOK, remote
<1>9. (\A i \in DOMAIN events : FitToPublish(events[i]))'
  BY <1>2, EventsStayFit DEF remote
<1>. QED BY <1>1, <1>2, <1>6, <1>7, <1>8, <1>9, RunStep

\* A photo is stored: its path joins the URLs of this run.
LEMMA UploadedKeeps ==
  ASSUME TypeOK, PublishInv, NEW h \in Handlers, Uploaded(h)
  PROVE  TypeOK' /\ PublishInv'
<1>1. /\ page /\ RunFits(runs[h]) /\ runs[h] \in Runs /\ runs[h].step = "upload"
      /\ \A g \in Handlers \ {h} : runs[g] = Idle
      /\ RoomForPick
  BY RunFinds DEF Uploaded
<1>2. PICK run : run = runs[h]
  OBVIOUS
<1>3. /\ run.place \in Places /\ run.at \in Nat /\ run.n \in Nat
      /\ run.photo \in Photos /\ run.path \in Paths
  BY <1>1, <1>2, RunFields
<1>4. /\ Complete(form) /\ Len(urls) + 1 = run.at /\ run.at <= run.n /\ run.n <= Len(photos)
      /\ clock + run.n < MaxTime + run.at
      /\ run.path = FilePath(form.category + 1, clock)
      /\ Filed(urls, form.category + 1)
      /\ \A i \in DOMAIN urls : urls[i].time < clock
  BY <1>1, <1>2 DEF RunFits
<1>5. /\ UNCHANGED <<page, form, photos, lookup, sheet, pick, events>> /\ clock' = clock + 1
      /\ storage' = [p \in DOMAIN storage \cup {run.path} |->
                       IF p = run.path THEN run.photo ELSE storage[p]]
      /\ urls' = Append(urls, run.path)
  BY <1>2 DEF Uploaded, Stored
<1>6. /\ clock \in Nat /\ clock' \in 0 .. MaxTime /\ MaxTime \in Nat /\ Len(photos) \in Nat
      /\ urls \in Seq(Paths) /\ form \in Forms
  BY <1>3, <1>4, <1>5, PublishAssumption DEF TypeOK
<1>7. /\ urls' \in Seq(Paths) /\ Len(urls') = Len(urls) + 1 /\ Len(urls) \in Nat
      /\ DOMAIN urls = 1 .. Len(urls) /\ DOMAIN urls' = 1 .. (Len(urls) + 1)
      /\ \A i \in 1 .. Len(urls) : urls'[i] = urls[i]
      /\ urls'[Len(urls) + 1] = run.path
  BY <1>3, <1>5, <1>6, AppendFacts
<1>8. \A i \in DOMAIN urls' : i = Len(urls) + 1 \/ (i \in DOMAIN urls /\ urls'[i] = urls[i])
  BY <1>7
<1>9. /\ DOMAIN storage \subseteq DOMAIN storage' /\ run.path \in DOMAIN storage'
      /\ DOMAIN storage' \subseteq Paths
      /\ \A p \in DOMAIN storage' : storage'[p] \in Photos \cup {NoPhoto}
  BY <1>3, <1>5 DEF TypeOK
<1>10. run.path.category = form.category + 1 /\ run.path.time = clock
  BY <1>4 DEF FilePath
<1>11. Filed(urls, form.category + 1)'
  <2>1. ASSUME NEW i \in DOMAIN urls'
        PROVE  urls'[i].category = form.category + 1 /\ urls'[i] \in DOMAIN storage'
    BY <1>4, <1>7, <1>8, <1>9, <1>10 DEF Filed
  <2>2. ASSUME NEW i \in DOMAIN urls', NEW j \in DOMAIN urls', urls'[i] = urls'[j]
        PROVE  i = j
    <3>1. \A k \in DOMAIN urls : urls[k] # run.path
      BY <1>4, <1>6, <1>10
    <3>. QED BY <1>4, <1>7, <1>8, <2>2, <3>1 DEF Filed
  <2>. QED BY <1>5, <2>1, <2>2 DEF Filed
<1>12. \A i \in DOMAIN urls' : urls'[i].time < clock + 1
  <2>1. ASSUME NEW i \in DOMAIN urls' PROVE urls'[i].time < clock + 1
    <3>1. CASE i = Len(urls) + 1
      BY <1>6, <1>7, <1>10, <3>1
    <3>2. CASE i \in DOMAIN urls /\ urls'[i] = urls[i]
      <4>1. urls[i] \in Paths
        BY <1>6, <1>7, <3>2
      <4>2. urls[i].time \in Nat /\ urls[i].time < clock
        BY <1>4, <3>2, <4>1 DEF Paths
      <4>. QED BY <1>6, <3>2, <4>2
    <3>. QED BY <1>8, <3>1, <3>2
  <2>. QED BY <2>1
<1>13. \E next \in Runs : Continue(h, next) /\ next # Idle /\ RunFits(next)'
  <2>1. CASE Len(photos) # run.n
    <3>1. Continue(h, [step |-> "stuck"])
      BY <1>2, <2>1 DEF Uploaded
    <3>2. PICK next : next = [step |-> "stuck"]
      OBVIOUS
    <3>. QED BY <3>1, <3>2, RunTypes, RestingFits
  <2>2. CASE Len(photos) = run.n /\ run.at = run.n
    <3>1. Send(h, urls')
      BY <1>2, <2>2 DEF Uploaded
    <3>2. PICK images : images = urls'
      OBVIOUS
    <3>3. images \in Seq(Paths) /\ Filed(images, form.category + 1)'
      BY <1>7, <1>11, <3>2 DEF Filed
    <3>. QED BY <1>2, <1>3, <1>4, <1>5, <3>1, <3>2, <3>3, SendFits DEF Send
  <2>3. CASE Len(photos) = run.n /\ run.at # run.n
    <3>1. Upload(h, form.category + 1, run.at + 1, run.n, clock')
      BY <1>2, <1>10, <2>3 DEF Uploaded
    <3>2. PICK at, time : at = run.at + 1 /\ time = clock'
      OBVIOUS
    <3>3. /\ at \in Nat \ {0} /\ at <= run.n /\ run.n <= Len(photos) /\ Len(urls') + 1 = at
          /\ time \in 0 .. MaxTime /\ time + run.n < MaxTime + at /\ time = clock + 1
      <4>1. /\ run.at \in Nat /\ run.n \in Nat /\ Len(urls) \in Nat /\ clock \in Nat
            /\ Len(urls) + 1 = run.at /\ Len(urls') = Len(urls) + 1 /\ MaxTime \in Nat
            /\ run.at <= run.n /\ run.n <= Len(photos) /\ run.at # run.n
            /\ clock + run.n < MaxTime + run.at
        BY <1>3, <1>4, <1>6, <1>7, <2>3
      <4>2. clock' \in 0 .. MaxTime /\ clock' = clock + 1
        BY <1>5, <1>6
      <4>3. at \in Nat \ {0} /\ at <= run.n /\ run.n <= Len(photos)
        <5>1. run.at < run.n
          BY <4>1
        <5>. QED BY <3>2, <4>1, <5>1
      <4>4. Len(urls') + 1 = at
        BY <3>2, <4>1
      <4>5. time \in 0 .. MaxTime /\ time = clock + 1
        BY <3>2, <4>2
      <4>6. time + run.n < MaxTime + at
        <5>1. \A x, n, m, k \in Nat : x + n < m + k => (x + 1) + n < m + (k + 1)
          OBVIOUS
        <5>. QED BY <3>2, <4>1, <4>5, <5>1
      <4>. QED BY <4>3, <4>4, <4>5, <4>6
    <3>4. \E next \in Runs :
            /\ next = [step |-> "upload", place |-> run.place, at |-> at, n |-> run.n,
                       photo |-> photos[at], path |-> FilePath(form.category + 1, time)]
            /\ next # Idle /\ RunFits(next)'
      BY <1>3, <1>4, <1>5, <1>11, <1>12, <3>2, <3>3, UploadFits
    <3>. QED BY <1>2, <3>1, <3>2, <3>4 DEF Upload
  <2>. QED BY <2>1, <2>2, <2>3
<1>14. PICK next \in Runs : Continue(h, next) /\ next # Idle /\ RunFits(next)'
  BY <1>13
<1>15. /\ page' \in BOOLEAN /\ page'
  <2>1. page' = page
    BY <1>5
  <2>. QED BY <1>1, <2>1, Zenon DEF TypeOK
<1>16. (\A i \in DOMAIN events : FitToPublish(events[i]))' /\ events' \in Seq(Events)
  BY <1>5, <1>9, EventsStayFit DEF TypeOK
<1>. QED BY <1>1, <1>5, <1>6, <1>7, <1>9, <1>14, <1>15, <1>16, RunStep

\* The document joins the collection, or does not.
LEMMA AddKeeps ==
  ASSUME TypeOK, PublishInv, NEW h \in Handlers, AddAnswers(h)
  PROVE  TypeOK' /\ PublishInv'
<1>1. /\ page /\ RunFits(runs[h]) /\ runs[h] \in Runs /\ runs[h].step = "add"
      /\ \A g \in Handlers \ {h} : runs[g] = Idle
      /\ RoomForPick
  BY RunFinds DEF AddAnswers
<1>2. PICK e : e = runs[h].event
  OBVIOUS
<1>3. e \in Events /\ FitToPublish(e)
  BY <1>1, <1>2, RunFields DEF RunFits
<1>4. /\ UNCHANGED <<page, form, photos, urls, lookup, sheet, pick, clock, storage>>
      /\ events' \in {events, Append(events, e)}
  BY <1>2 DEF AddAnswers
<1>5. PICK run : run = [step |-> "thanks"]
  OBVIOUS
<1>6. Continue(h, run) /\ run \in Runs /\ run # Idle /\ RunFits(run)'
  BY <1>1, <1>5, RunTypes, RestingFits DEF AddAnswers
<1>7. events \in Seq(Events)
  BY DEF TypeOK
<1>8. /\ events' \in Seq(Events)
      /\ \A i \in DOMAIN events' : \/ i \in DOMAIN events /\ events'[i] = events[i]
                                   \/ events'[i] = e
  <2>1. CASE events' = events
    BY <1>7, <2>1
  <2>2. CASE events' = Append(events, e)
    <3>1. /\ events' \in Seq(Events) /\ Len(events) \in Nat
          /\ DOMAIN events = 1 .. Len(events) /\ DOMAIN events' = 1 .. (Len(events) + 1)
          /\ \A i \in 1 .. Len(events) : events'[i] = events[i]
          /\ events'[Len(events) + 1] = e
      BY <1>3, <1>7, <2>2, AppendFacts
    <3>. QED BY <3>1
  <2>. QED BY <1>4, <2>1, <2>2
<1>9. (\A i \in DOMAIN events : FitToPublish(events[i]))'
  <2>1. ASSUME NEW i \in DOMAIN events'
        PROVE  FitToPublish(events[i])'
    <3>1. PICK d : d = events'[i]
      OBVIOUS
    <3>2. FitToPublish(d)
      BY <1>3, <1>8, <3>1 DEF PublishInv
    <3>3. FitToPublish(d)'
      BY <1>4, <3>2, FitStaysFit
    <3>. QED BY <3>1, <3>3 DEF FitToPublish
  <2>. QED BY <2>1
<1>10. /\ page' \in BOOLEAN /\ page'
  <2>1. page' = page
    BY <1>4
  <2>. QED BY <1>1, <2>1, Zenon DEF TypeOK
<1>11. /\ urls' \in Seq(Paths) /\ clock' \in 0 .. MaxTime /\ DOMAIN storage' \subseteq Paths
       /\ \A p \in DOMAIN storage' : storage'[p] \in Photos \cup {NoPhoto}
  BY <1>4 DEF TypeOK
<1>. QED BY <1>1, <1>4, <1>6, <1>8, <1>9, <1>10, <1>11, RunStep

\* PublishInv and the types are inductive together.
LEMMA PublishNext ==
  ASSUME SystemBack = FALSE
  PROVE  TypeOK /\ PublishInv /\ [Next]_vars => TypeOK' /\ PublishInv'
<1> SUFFICES ASSUME TypeOK, PublishInv, [Next]_vars
             PROVE  TypeOK' /\ PublishInv'
  OBVIOUS
<1>1. CASE UNCHANGED vars
  <2>1. UNCHANGED <<page, form, photos, urls, runs, lookup, sheet, pick, clock, storage, events>>
    BY <1>1 DEF vars, remote
  <2>2. TypeOK'
    BY <2>1, Zenon DEF TypeOK
  <2>. QED
    BY <2>1, <2>2 DEF PublishInv, RoomForPick, RunFits, FitToPublish, Filed, Complete, Publishing
<1>. QED
  BY <1>1, EditKeeps, SheetKeeps, LateKeeps, OtherKeeps, SubmitKeeps, CloseKeeps, GeocodedKeeps,
     UploadedKeeps, AddKeeps DEF Next, Tap, Answer

LEMMA PublishAlways ==
  ASSUME SystemBack = FALSE
  PROVE  Spec => [](TypeOK /\ PublishInv)
BY PublishInit, PublishNext, PTL DEF Spec

-----------------------------------------------------------------------------
(* The theorems *)

\* The form, its runs and what they store keep their types: in particular the
\* form never holds more than one photo beyond its tiles (publish.dart counts the
\* photos when it draws the tile, and not again when the sheet starts the picker),
\* the loop over the photos never reads beyond them, and every run has time for
\* its uploads.
THEOREM FormTypes ==
  ASSUME SystemBack = FALSE
  PROVE  Spec => []TypeOK
BY PublishAlways, PTL

\* What publish.dart validates before its first await is what it publishes after
\* the last: no document of the category "other" without hazard, none without
\* place, although the fields are read again and the address may come late.
THEOREM CompleteIsPublished ==
  ASSUME SystemBack = FALSE
  PROVE  Spec => []PublishedIsComplete
<1>1. PublishInv => PublishedIsComplete
  BY DEF PublishInv, PublishedIsComplete, Published, FitToPublish
<1>. QED BY <1>1, PublishAlways, PTL

\* The photos of every document exist, each in its own file, under the number
\* of the document's category, however often the form was sent in vain before.
THEOREM PhotosAreFiled ==
  ASSUME SystemBack = FALSE
  PROVE  Spec => []PhotosWellFiled
<1>1. PublishInv => PhotosWellFiled
  <2>1. SUFFICES ASSUME PublishInv, NEW k \in DOMAIN events
                 PROVE  LET e == events[k] IN
                        /\ \A i \in DOMAIN e.images :
                             /\ e.images[i].category = e.form.category + 1
                             /\ e.images[i] \in DOMAIN storage
                        /\ \A i, j \in DOMAIN e.images : e.images[i] = e.images[j] => i = j
    BY DEF PhotosWellFiled, Published
  <2>. QED BY <2>1 DEF PublishInv, FitToPublish, Filed
<1>. QED BY <1>1, PublishAlways, PTL

-----------------------------------------------------------------------------
(* On every phone: the files of a document exist *)

\* What is known of the files stays known as files join them.
LEMMA FilesStay ==
  ASSUME NEW S, NEW T, S \subseteq T
  PROVE  /\ Seq(S) \subseteq Seq(T)
         /\ Documents(S) \subseteq Documents(T)
         /\ Seq(Documents(S)) \subseteq Seq(Documents(T))
<1>1. Seq(S) \subseteq Seq(T)
  OBVIOUS
<1>2. Documents(S) \subseteq Documents(T)
  BY <1>1 DEF Documents
<1>3. ASSUME NEW A, NEW B, A \subseteq B PROVE Seq(A) \subseteq Seq(B)
  BY <1>3
<1>. QED BY <1>1, <1>2, <1>3

\* A step of one run, or of none, that adds files and says what becomes of the rest.
LEMMA FilesStep ==
  ASSUME FilesInv, DOMAIN storage \subseteq DOMAIN storage',
         form' \in Forms, urls' \in Seq(DOMAIN storage'),
         events' \in Seq(Documents(DOMAIN storage')),
         \/ runs' = runs
         \/ \E h \in Handlers : \E run :
              /\ Continue(h, run)
              /\ run.step = "upload" => run.place \in Places
              /\ run.step = "add" => run.event \in Documents(DOMAIN storage')
  PROVE  FilesInv'
<1>1. Documents(DOMAIN storage) \subseteq Documents(DOMAIN storage')
  BY FilesStay
<1>2. CASE runs' = runs
  BY <1>1, <1>2 DEF FilesInv
<1>3. ASSUME NEW h \in Handlers, NEW run, Continue(h, run),
             run.step = "upload" => run.place \in Places,
             run.step = "add" => run.event \in Documents(DOMAIN storage')
      PROVE  FilesInv'
  <2>1. /\ DOMAIN runs' = Handlers /\ runs'[h] = run
        /\ \A g \in Handlers \ {h} : runs'[g] = runs[g]
    BY <1>3 DEF Continue, FilesInv
  <2>2. ASSUME NEW g \in Handlers
        PROVE  /\ runs'[g].step = "upload" => runs'[g].place \in Places
               /\ runs'[g].step = "add" => runs'[g].event \in Documents(DOMAIN storage')
    BY <1>1, <1>3, <2>1 DEF FilesInv
  <2>. QED BY <2>1, <2>2 DEF FilesInv
<1>. QED BY <1>2, <1>3

\* What is left alone stays good.
LEMMA FilesRest ==
  ASSUME FilesInv, DOMAIN storage \subseteq DOMAIN storage'
  PROVE  /\ UNCHANGED form => form' \in Forms
         /\ UNCHANGED urls => urls' \in Seq(DOMAIN storage')
         /\ UNCHANGED events => events' \in Seq(Documents(DOMAIN storage'))
BY FilesStay DEF FilesInv

LEMMA FilesEdit ==
  ASSUME FilesInv, UNCHANGED <<runs, storage, events>>,
         form' \in Forms, urls' \in {urls, << >>}
  PROVE  FilesInv'
<1>1. urls' \in Seq(DOMAIN storage')
  BY EmptyFacts DEF FilesInv
<1>. QED BY <1>1, FilesRest, FilesStep

\* The document that is sent has the URLs it is given.
LEMMA SendGood ==
  ASSUME NEW h \in Handlers, NEW images, Send(h, images), form \in Forms,
         runs[h].place \in Places, images \in Seq(DOMAIN storage')
  PROVE  \E run : /\ Continue(h, run)
                  /\ run.step = "upload" => run.place \in Places
                  /\ run.step = "add" => run.event \in Documents(DOMAIN storage')
<1>1. PICK e : e = [form |-> form, location |-> runs[h].place, images |-> images]
  OBVIOUS
<1>2. e \in Documents(DOMAIN storage')
  BY <1>1 DEF Documents
<1>3. PICK run : run = [step |-> "add", event |-> e]
  OBVIOUS
<1>4. run.step = "add" /\ run.event = e
  BY <1>3
<1>. QED BY <1>1, <1>2, <1>3, <1>4 DEF Send

LEMMA UploadGood ==
  ASSUME NEW h \in Handlers, NEW k, NEW at, NEW n, NEW time, Upload(h, k, at, n, time),
         runs[h].place \in Places
  PROVE  \E run : /\ Continue(h, run)
                  /\ run.step = "upload" => run.place \in Places
                  /\ run.step = "add" => run.event \in Documents(DOMAIN storage')
<1>1. PICK run : run = [step |-> "upload", place |-> runs[h].place, at |-> at, n |-> n,
                        photo |-> photos[at], path |-> FilePath(k, time)]
  OBVIOUS
<1>2. run.step = "upload" /\ run.place = runs[h].place
  BY <1>1
<1>. QED BY <1>1, <1>2 DEF Upload

LEMMA FilesInit == Init => FilesInv
<1> SUFFICES ASSUME Init PROVE FilesInv
  OBVIOUS
<1>1. EmptyForm \in Forms
  BY PublishAssumption DEF EmptyForm, Forms
<1>2. \A h \in Handlers : runs[h].step = "none"
  BY DEF Init, Idle
<1>3. urls \in Seq(DOMAIN storage) /\ events \in Seq(Documents(DOMAIN storage))
  BY EmptyFacts DEF Init
<1>. QED BY <1>1, <1>2, <1>3 DEF Init, FilesInv

LEMMA FilesTaps ==
  ASSUME FilesInv,
         \/ OpenPage \/ SelectCategory \/ TypeHazard \/ ChooseLocation \/ FillAnswers
         \/ OpenSheet \/ CloseSheet \/ StartPick \/ LeavePage \/ AddressAnswers \/ PickAnswers
  PROVE  FilesInv'
<1>1. ASSUME NEW f \in Forms, Edit(f)
      PROVE  FilesInv'
  BY <1>1, FilesEdit DEF Edit, remote
<1>2. CASE OpenPage
  <2>1. EmptyForm \in Forms
    BY PublishAssumption DEF EmptyForm, Forms
  <2>. QED BY <1>2, <2>1, FilesEdit DEF OpenPage, remote
<1>3. CASE SelectCategory \/ TypeHazard \/ ChooseLocation \/ FillAnswers
  <2>1. \A k \in Categories : [form EXCEPT !.category = k] \in Forms
    BY DEF FilesInv, Forms
  <2>2. \A b \in BOOLEAN : [form EXCEPT !.hazard = b] \in Forms
    BY DEF FilesInv, Forms
  <2>3. \A p \in Places \cup BadPlaces \cup {NoPlace} : [form EXCEPT !.place = p] \in Forms
    BY DEF FilesInv, Forms
  <2>4. \A a \in Answers : [form EXCEPT !.answers = a] \in Forms
    BY DEF FilesInv, Forms
  <2>5. \E f \in Forms : Edit(f)
    BY <1>3, <2>1, <2>2, <2>3, <2>4 DEF SelectCategory, TypeHazard, ChooseLocation, FillAnswers
  <2>. QED BY <1>1, <2>5
<1>4. CASE OpenSheet \/ CloseSheet \/ StartPick \/ LeavePage \/ PickAnswers
  <2>1. UNCHANGED <<form, urls, runs, storage, events>>
    BY <1>4 DEF OpenSheet, CloseSheet, StartPick, LeavePage, PickAnswers, remote
  <2>2. form' \in Forms
    BY <2>1 DEF FilesInv
  <2>. QED BY <2>1, <2>2, FilesEdit
<1>5. CASE AddressAnswers
  <2>1. form' \in Forms
    BY <1>5, PublishAssumption DEF AddressAnswers, FilesInv, Forms
  <2>. QED BY <1>5, <2>1, FilesEdit DEF AddressAnswers, remote
<1>. QED BY <1>2, <1>3, <1>4, <1>5

\* The steps of a run after which it is at no upload and sends nothing, and the
\* first one.
LEMMA FilesRuns ==
  ASSUME FilesInv, NEW h \in Handlers,
         \/ Submit(h) \/ CloseError(h) \/ CloseThanks(h) \/ NotGeocoded(h) \/ Uncaught(h)
  PROVE  FilesInv'
<1>1. UNCHANGED <<form, urls, storage, events>>
  BY DEF Submit, CloseError, CloseThanks, NotGeocoded, Uncaught, remote
<1>2. \E run : Continue(h, run) /\ run.step \in {"geocode", "none", "badPlace", "stuck"}
  <2>1. CASE Submit(h)
    <3>1. PICK run : run = [step |-> "geocode", place |-> form.place]
      OBVIOUS
    <3>. QED BY <2>1, <3>1 DEF Submit
  <2>2. ASSUME NEW step \in {"none", "badPlace", "stuck"}
        PROVE  \E run : run = [step |-> step] /\ run.step = step
    <3>1. PICK run : run = [step |-> step]
      OBVIOUS
    <3>2. run.step = step
      BY <3>1
    <3>. QED BY <3>1, <3>2
  <2>3. CASE CloseError(h) \/ CloseThanks(h)
    BY <2>2, <2>3 DEF CloseError, CloseThanks, Idle
  <2>4. CASE NotGeocoded(h)
    BY <2>2, <2>4 DEF NotGeocoded, Idle
  <2>5. CASE Uncaught(h)
    BY <2>2, <2>5 DEF Uncaught
  <2>. QED BY <2>1, <2>3, <2>4, <2>5
<1>. QED BY <1>1, <1>2, FilesRest, FilesStep

LEMMA FilesGeocoded ==
  ASSUME FilesInv, NEW h \in Handlers, Geocoded(h)
  PROVE  FilesInv'
<1>1. /\ UNCHANGED <<form, storage, events>> /\ runs[h].place \in Places
      /\ form \in Forms /\ urls \in Seq(DOMAIN storage) /\ urls' \in {urls, << >>}
  BY DEF Geocoded, remote, FilesInv
<1>2. urls' \in Seq(DOMAIN storage') /\ urls \in Seq(DOMAIN storage')
  BY <1>1, EmptyFacts
<1>3. Send(h, urls) \/ Upload(h, form.category + 1, 1, Len(photos), clock)
  BY DEF Geocoded
<1>4. \E run : /\ Continue(h, run)
               /\ run.step = "upload" => run.place \in Places
               /\ run.step = "add" => run.event \in Documents(DOMAIN storage')
  BY <1>1, <1>2, <1>3, SendGood, UploadGood
<1>. QED BY <1>1, <1>2, <1>4, FilesRest, FilesStep

LEMMA FilesUploaded ==
  ASSUME FilesInv, NEW h \in Handlers, Uploaded(h)
  PROVE  FilesInv'
<1>1. PICK path : path = runs[h].path
  OBVIOUS
<1>2. /\ UNCHANGED <<form, events>> /\ runs[h].place \in Places
      /\ form \in Forms /\ urls \in Seq(DOMAIN storage)
      /\ DOMAIN storage' = DOMAIN storage \cup {path} /\ urls' = Append(urls, path)
  BY <1>1 DEF Uploaded, Stored, FilesInv
<1>3. urls' \in Seq(DOMAIN storage')
  <2>1. urls \in Seq(DOMAIN storage') /\ path \in DOMAIN storage'
    BY <1>2, FilesStay
  <2>. QED BY <1>2, <2>1, AppendFacts
<1>4. \/ Continue(h, [step |-> "stuck"])
      \/ Send(h, urls')
      \/ \E at, n : Upload(h, runs[h].path.category, at, n, clock')
  BY DEF Uploaded
<1>5. \E run : /\ Continue(h, run)
               /\ run.step = "upload" => run.place \in Places
               /\ run.step = "add" => run.event \in Documents(DOMAIN storage')
  <2>1. CASE Continue(h, [step |-> "stuck"])
    <3>1. PICK run : run = [step |-> "stuck"]
      OBVIOUS
    <3>2. run.step = "stuck"
      BY <3>1
    <3>. QED BY <2>1, <3>1, <3>2
  <2>2. CASE Send(h, urls')
    <3>1. PICK images : images = urls'
      OBVIOUS
    <3>. QED BY <1>2, <1>3, <2>2, <3>1, SendGood
  <2>3. CASE \E at, n : Upload(h, runs[h].path.category, at, n, clock')
    <3>1. PICK k, time : k = runs[h].path.category /\ time = clock'
      OBVIOUS
    <3>. QED BY <1>2, <2>3, <3>1, UploadGood
  <2>. QED BY <1>4, <2>1, <2>2, <2>3
<1>. QED BY <1>2, <1>3, <1>5, FilesRest, FilesStep

LEMMA FilesAdded ==
  ASSUME FilesInv, NEW h \in Handlers, AddAnswers(h)
  PROVE  FilesInv'
<1>1. PICK e : e = runs[h].event
  OBVIOUS
<1>2. /\ UNCHANGED <<form, urls, storage>> /\ events' \in {events, Append(events, e)}
      /\ e \in Documents(DOMAIN storage) /\ events \in Seq(Documents(DOMAIN storage))
  BY <1>1 DEF AddAnswers, FilesInv
<1>3. PICK S : S = Documents(DOMAIN storage)
  OBVIOUS
<1>4. Append(events, e) \in Seq(S)
  BY <1>2, <1>3, AppendFacts
<1>5. events' \in Seq(Documents(DOMAIN storage'))
  BY <1>2, <1>3, <1>4
<1>6. \E run : Continue(h, run) /\ run.step \in {"thanks", "none"}
  <2>1. ASSUME NEW step \in {"none", "thanks"}
        PROVE  \E run : run = [step |-> step] /\ run.step = step
    <3>1. PICK run : run = [step |-> step]
      OBVIOUS
    <3>2. run.step = step
      BY <3>1
    <3>. QED BY <3>1, <3>2
  <2>. QED BY <2>1 DEF AddAnswers, Idle
<1>. QED BY <1>2, <1>5, <1>6, FilesRest, FilesStep

LEMMA FilesAround ==
  ASSUME FilesInv, Restart \/ OtherUpload \/ UNCHANGED vars
  PROVE  FilesInv'
<1>1. CASE Restart
  <2>1. /\ UNCHANGED <<storage, events>> /\ DOMAIN runs' = Handlers
        /\ \A h \in Handlers : runs'[h].step = "none"
        /\ form' = EmptyForm /\ urls' = << >>
    BY <1>1 DEF Restart, remote, Idle
  <2>2. EmptyForm \in Forms
    BY PublishAssumption DEF EmptyForm, Forms
  <2>. QED BY <2>1, <2>2, EmptyFacts DEF FilesInv
<1>2. CASE OtherUpload
  <2>1. UNCHANGED <<form, urls, runs, events>> /\ DOMAIN storage \subseteq DOMAIN storage'
    BY <1>2 DEF OtherUpload, Stored
  <2>. QED BY <2>1, FilesRest, FilesStep
<1>3. CASE UNCHANGED vars
  BY <1>3 DEF vars, remote, FilesInv
<1>. QED BY <1>1, <1>2, <1>3

LEMMA FilesNext == FilesInv /\ [Next]_vars => FilesInv'
BY FilesTaps, FilesRuns, FilesGeocoded, FilesUploaded, FilesAdded, FilesAround
   DEF Next, Tap, Answer

\* On every phone, also where a back button lets two runs of PublishEvent share
\* the list _fileDownloadUrls (publish.dart): a document has only URLs of files
\* that were stored before it was sent.
THEOREM PhotosAreThere == Spec => []PhotosExist
<1>1. FilesInv => PhotosExist
  <2>1. ASSUME FilesInv, NEW e \in Published, NEW i \in DOMAIN e.images
        PROVE  e.images[i] \in DOMAIN storage
    <3>1. PICK S : S = Documents(DOMAIN storage)
      OBVIOUS
    <3>2. events \in Seq(S)
      BY <2>1, <3>1 DEF FilesInv
    <3>3. e \in S
      BY <3>2, <2>1 DEF Published
    <3>4. e.images \in Seq(DOMAIN storage)
      BY <3>1, <3>3 DEF Documents
    <3>. QED BY <2>1, <3>4
  <2>. QED BY <2>1 DEF PhotosExist
<1>. QED BY <1>1, FilesInit, FilesNext, PTL DEF Spec

-----------------------------------------------------------------------------
(* The log: nothing arrives late, and no other phone writes *)

\* What a run has stored, or sends, is what the form holds: nobody touches the
\* form meanwhile, and no file is ever written twice.
Recorded(run) ==
  /\ run.step = "upload" => /\ run.photo = photos[run.at] /\ run.n = Len(photos)
                            /\ \A i \in DOMAIN urls : storage[urls[i]] = photos[i]
  /\ run.step = "add" => Observation(run.event) = [form |-> form, photos |-> photos]

LogInv ==
  /\ \A p \in DOMAIN storage : p.time < clock
  /\ \A h \in Handlers : Recorded(runs[h])

\* The two ways a run ends a step.
LEMMA RecordedRuns ==
  ASSUME TypeOK, PublishInv, LogInv, NEW h \in Handlers, NEW run \in Runs, Continue(h, run),
         \A g \in Handlers \ {h} : runs[g] = Idle, Recorded(run)',
         \A p \in DOMAIN storage' : p.time < clock'
  PROVE  LogInv'
<1>1. runs'[h] = run /\ \A g \in Handlers \ {h} : runs'[g] = Idle
  BY OneRun DEF TypeOK
<1>2. Recorded(Idle)'
  BY DEF Recorded, Idle
<1>3. \A g \in Handlers : Recorded(runs[g])'
  BY <1>1, <1>2 DEF Recorded
<1>. QED BY <1>3 DEF LogInv

LEMMA RecordedEvent ==
  ASSUME NEW place, NEW images \in Seq(Paths), photos \in Seq(Photos), Len(images) = Len(photos),
         \A i \in DOMAIN images : storage[images[i]] = photos[i]
  PROVE  Observation([form |-> form, location |-> place, images |-> images])
           = [form |-> form, photos |-> photos]
<1>1. DOMAIN images = DOMAIN photos /\ photos = [i \in DOMAIN photos |-> photos[i]]
  OBVIOUS
<1>2. [i \in DOMAIN images |-> storage[images[i]]] = photos
  BY <1>1
<1>. QED BY <1>2 DEF Observation

\* What leaves the runs, the photos and the storage alone.
LEMMA LogRests ==
  ASSUME LogInv, UNCHANGED <<form, photos, urls, runs, storage, clock>>
  PROVE  LogInv'
BY DEF LogInv, Recorded, Observation

LEMMA LogOfTheIdle ==
  ASSUME LogInv, UNCHANGED <<storage, clock>>, \A h \in Handlers : runs'[h] = Idle
  PROVE  LogInv'
<1>1. Recorded(Idle)'
  BY DEF Recorded, Idle
<1>. QED BY <1>1 DEF LogInv, Recorded

\* A document goes out after the last photo, or without photos.
LEMMA LogGeocoded ==
  ASSUME TypeOK, PublishInv, LogInv, NEW h \in Handlers, Geocoded(h)
  PROVE  LogInv'
<1>1. /\ page /\ RunFits(runs[h]) /\ runs[h] \in Runs /\ runs[h].step = "geocode"
      /\ \A g \in Handlers \ {h} : runs[g] = Idle
  BY RunFinds DEF Geocoded
<1>2. /\ UNCHANGED <<form, photos, storage, clock>> /\ runs[h].place \in Places
      /\ urls = << >> /\ urls' = << >> /\ photos \in Seq(Photos) /\ clock \in 0 .. MaxTime
      /\ form \in Forms /\ runs \in [Handlers -> Runs]
  BY <1>1 DEF Geocoded, RunFits, remote, TypeOK
<1>3. \A p \in DOMAIN storage' : p.time < clock'
  BY <1>2 DEF LogInv
<1>4. CASE photos = << >>
  <2>1. PICK event : event = [form |-> form, location |-> runs[h].place, images |-> urls]
    OBVIOUS
  <2>2. PICK run : run = [step |-> "add", event |-> event]
    OBVIOUS
  <2>3. Continue(h, run)
    BY <1>4, <2>1, <2>2 DEF Geocoded, Send
  <2>4. run.step = "add" /\ run.event = event
    BY <2>2
  <2>5. (Observation(event) = [form |-> form, photos |-> photos])'
    <3>1. PICK place, images : place = runs[h].place /\ images = urls
      OBVIOUS
    <3>2. images \in Seq(Paths) /\ Len(images) = Len(photos) /\ DOMAIN images = {}
      BY <1>2, <1>4, <3>1, EmptyFacts
    <3>3. Observation(event) = [form |-> form, photos |-> photos]
      BY <1>2, <2>1, <3>1, <3>2, RecordedEvent
    <3>. QED BY <1>2, <3>3 DEF Observation
  <2>6. Recorded(run)'
    BY <2>4, <2>5 DEF Recorded
  <2>7. run \in Runs
    <3>1. runs'[h] = run
      BY <1>2, <2>3 DEF Continue
    <3>2. TypeOK'
      BY GeocodedKeeps
    <3>. QED BY <3>1, <3>2 DEF TypeOK
  <2>. QED BY <1>1, <1>3, <2>3, <2>6, <2>7, RecordedRuns
<1>5. CASE photos # << >>
  <2>1. PICK run : run = [step |-> "upload", place |-> runs[h].place, at |-> 1,
                          n |-> Len(photos), photo |-> photos[1],
                          path |-> FilePath(form.category + 1, clock)]
    OBVIOUS
  <2>2. Continue(h, run)
    BY <1>5, <2>1 DEF Geocoded, Upload
  <2>3. run.step = "upload" /\ run.at = 1 /\ run.n = Len(photos) /\ run.photo = photos[1]
    BY <2>1
  <2>4. Recorded(run)'
    BY <1>2, <2>3, EmptyFacts DEF Recorded
  <2>5. run \in Runs
    <3>1. runs'[h] = run
      BY <1>2, <2>2 DEF Continue
    <3>2. TypeOK'
      BY GeocodedKeeps
    <3>. QED BY <3>1, <3>2 DEF TypeOK
  <2>. QED BY <1>1, <1>3, <2>2, <2>4, <2>5, RecordedRuns
<1>. QED BY <1>4, <1>5

\* A stored photo overwrites none, and its URL joins those of the ones before it.
LEMMA UploadedFacts ==
  ASSUME TypeOK, PublishInv, LogInv, NEW h \in Handlers, Uploaded(h)
  PROVE  LET run == runs[h] IN
         /\ run.step = "upload" /\ \A g \in Handlers \ {h} : runs[g] = Idle
         /\ run.at \in Nat /\ run.n = Len(photos)
         /\ urls' \in Seq(Paths) /\ Len(urls') = run.at /\ UNCHANGED <<form, photos, events>>
         /\ photos \in Seq(Photos)
         /\ \A i \in DOMAIN urls' : storage'[urls'[i]] = photos[i]
         /\ \A p \in DOMAIN storage : p \in DOMAIN storage' /\ storage'[p] = storage[p]
         /\ \A p \in DOMAIN storage' : p.time < clock'
<1>1. /\ RunFits(runs[h]) /\ runs[h] \in Runs /\ runs[h].step = "upload"
      /\ \A g \in Handlers \ {h} : runs[g] = Idle
  BY RunFinds DEF Uploaded
<1>2. PICK run : run = runs[h]
  OBVIOUS
<1>3. run.at \in Nat /\ run.photo \in Photos /\ run.path \in Paths
  BY <1>1, <1>2, RunFields
<1>4. /\ Len(urls) + 1 = run.at /\ run.path = FilePath(form.category + 1, clock)
      /\ Filed(urls, form.category + 1)
  BY <1>1, <1>2 DEF RunFits
<1>5. /\ UNCHANGED <<form, photos, events>> /\ clock' = clock + 1
      /\ storage' = [p \in DOMAIN storage \cup {run.path} |->
                       IF p = run.path THEN run.photo ELSE storage[p]]
      /\ urls' = Append(urls, run.path)
  BY <1>2 DEF Uploaded, Stored
<1>6. /\ run.photo = photos[run.at] /\ run.n = Len(photos)
      /\ \A i \in DOMAIN urls : storage[urls[i]] = photos[i]
      /\ \A p \in DOMAIN storage : p.time < clock
  BY <1>1, <1>2 DEF LogInv, Recorded
<1>7. clock \in Nat /\ urls \in Seq(Paths) /\ photos \in Seq(Photos) /\ DOMAIN storage \subseteq Paths
  BY DEF TypeOK
<1>8. /\ urls' \in Seq(Paths) /\ Len(urls') = Len(urls) + 1 /\ Len(urls) \in Nat
      /\ DOMAIN urls = 1 .. Len(urls) /\ DOMAIN urls' = 1 .. (Len(urls) + 1)
      /\ \A i \in 1 .. Len(urls) : urls'[i] = urls[i]
      /\ urls'[Len(urls) + 1] = run.path
  BY <1>3, <1>5, <1>7, AppendFacts
<1>9. run.path.time = clock
  BY <1>4 DEF FilePath
<1>10. run.path \notin DOMAIN storage
  BY <1>6, <1>7, <1>9
<1>11. \A p \in DOMAIN storage : p \in DOMAIN storage' /\ storage'[p] = storage[p]
  BY <1>5, <1>10
<1>12. \A p \in DOMAIN storage' : p.time < clock'
  <2>1. ASSUME NEW p \in DOMAIN storage'
        PROVE  p.time < clock + 1
    <3>1. CASE p = run.path
      BY <1>7, <1>9, <3>1
    <3>2. CASE p \in DOMAIN storage
      <4>1. p.time \in Nat
        BY <1>7, <3>2 DEF Paths
      <4>. QED BY <1>6, <1>7, <3>2, <4>1
    <3>. QED BY <1>5, <3>1, <3>2
  <2>. QED BY <1>5, <2>1
<1>13. ASSUME NEW i \in DOMAIN urls'
       PROVE  storage'[urls'[i]] = photos[i]
  <2>1. CASE i = Len(urls) + 1
    BY <1>4, <1>5, <1>6, <1>8, <2>1
  <2>2. CASE i \in DOMAIN urls
    BY <1>4, <1>6, <1>8, <1>11, <2>2 DEF Filed
  <2>. QED BY <1>8, <2>1, <2>2
<1>. QED BY <1>1, <1>2, <1>3, <1>4, <1>5, <1>6, <1>7, <1>8, <1>11, <1>12, <1>13

LEMMA LogUploaded ==
  ASSUME TypeOK, PublishInv, LogInv, NEW h \in Handlers, Uploaded(h)
  PROVE  LogInv'
<1>1. /\ \A g \in Handlers \ {h} : runs[g] = Idle
      /\ runs[h].at \in Nat /\ runs[h].n = Len(photos)
      /\ urls' \in Seq(Paths) /\ Len(urls') = runs[h].at /\ UNCHANGED <<form, photos>>
      /\ photos \in Seq(Photos)
      /\ \A i \in DOMAIN urls' : storage'[urls'[i]] = photos[i]
      /\ \A p \in DOMAIN storage' : p.time < clock'
  BY UploadedFacts
<1>2. ASSUME NEW run, Continue(h, run), Recorded(run)'
      PROVE  LogInv'
  <2>1. TypeOK'
    BY UploadedKeeps
  <2>2. runs'[h] = run
    BY <1>2 DEF Continue, TypeOK
  <2>3. run \in Runs
    BY <2>1, <2>2 DEF TypeOK
  <2>. QED BY <1>1, <1>2, <2>3, RecordedRuns
<1>3. CASE runs[h].at = runs[h].n
  <2>1. PICK event : event = [form |-> form, location |-> runs[h].place, images |-> urls']
    OBVIOUS
  <2>2. PICK run : run = [step |-> "add", event |-> event]
    OBVIOUS
  <2>3. Continue(h, run)
    BY <1>1, <1>3, <2>1, <2>2 DEF Uploaded, Send
  <2>4. run.step = "add" /\ run.event = event
    BY <2>2
  <2>5. event.form = form /\ event.images = urls'
    BY <2>1
  <2>6. DOMAIN urls' = DOMAIN photos /\ photos = [i \in DOMAIN photos |-> photos[i]]
    BY <1>1, <1>3
  <2>7. [i \in DOMAIN urls' |-> storage'[urls'[i]]] = photos
    BY <1>1, <2>6
  <2>8. (Observation(event) = [form |-> form, photos |-> photos])'
    BY <1>1, <2>5, <2>7 DEF Observation
  <2>9. Recorded(run)'
    BY <2>4, <2>8 DEF Recorded
  <2>. QED BY <1>2, <2>3, <2>9
<1>4. CASE runs[h].at # runs[h].n
  <2>1. PICK run : run = [step |-> "upload", place |-> runs[h].place, at |-> runs[h].at + 1,
                          n |-> runs[h].n, photo |-> photos[runs[h].at + 1],
                          path |-> FilePath(runs[h].path.category, clock')]
    OBVIOUS
  <2>2. Continue(h, run)
    BY <1>1, <1>4, <2>1 DEF Uploaded, Upload
  <2>3. /\ run.step = "upload" /\ run.at = runs[h].at + 1 /\ run.n = Len(photos)
        /\ run.photo = photos[run.at]
    BY <1>1, <2>1
  <2>4. Recorded(run)'
    BY <1>1, <2>3 DEF Recorded
  <2>. QED BY <1>2, <2>2, <2>4
<1>. QED BY <1>3, <1>4

\* Nothing else touches a form that is being published.
LEMMA LogNext ==
  ASSUME SystemBack = FALSE, Late = FALSE, OtherPhones = FALSE
  PROVE  TypeOK /\ PublishInv /\ LogInv /\ [Next]_vars => LogInv'
<1> SUFFICES ASSUME TypeOK, PublishInv, LogInv, [Next]_vars
             PROVE  LogInv'
  OBVIOUS
<1>1. CASE UNCHANGED vars
  BY <1>1, LogRests DEF vars, remote
<1>2. CASE \/ OpenPage \/ SelectCategory \/ TypeHazard \/ ChooseLocation \/ FillAnswers
           \/ OpenSheet \/ CloseSheet \/ StartPick \/ LeavePage
           \/ AddressAnswers \/ PickAnswers \/ Restart
  <2>1. UNCHANGED <<storage, clock>>
    BY <1>2 DEF OpenPage, SelectCategory, TypeHazard, ChooseLocation, FillAnswers, Edit, OpenSheet,
                CloseSheet, StartPick, LeavePage, AddressAnswers, PickAnswers, Restart, remote
  <2>2. \A h \in Handlers : runs'[h] = Idle
    BY <1>2 DEF OpenPage, SelectCategory, TypeHazard, ChooseLocation, FillAnswers, Edit, OpenSheet,
                CloseSheet, StartPick, LeavePage, AddressAnswers, PickAnswers, Restart, Editable, Uncovered, Quiet,
                Publishing
  <2>. QED BY <2>1, <2>2, LogOfTheIdle
<1>3. ASSUME NEW h \in Handlers, UNCHANGED <<storage, clock>>,
             NEW run \in Runs, run.step \notin {"upload", "add"}, Continue(h, run),
             \A g \in Handlers \ {h} : runs[g] = Idle
      PROVE  LogInv'
  <2>1. Recorded(run)'
    BY <1>3 DEF Recorded
  <2>2. \A p \in DOMAIN storage' : p.time < clock'
    BY <1>3 DEF LogInv
  <2>. QED BY <1>3, <2>1, <2>2, RecordedRuns
<1>4. ASSUME NEW h \in Handlers, Submit(h)
      PROVE  LogInv'
  <2>1. PICK run : run = [step |-> "geocode", place |-> form.place]
    OBVIOUS
  <2>2. /\ Continue(h, run) /\ UNCHANGED <<storage, clock>>
        /\ \A g \in Handlers : runs[g] = Idle
    BY <1>4, <2>1 DEF Submit, Editable, Uncovered, Publishing, remote
  <2>3. form.place \in Places \cup BadPlaces
    BY <1>4 DEF Submit, Complete, TypeOK, Forms
  <2>4. run \in Runs /\ run.step = "geocode"
    BY <2>1, <2>3, RunTypes
  <2>. QED BY <1>3, <2>2, <2>4
<1>5. ASSUME NEW h \in Handlers,
             CloseError(h) \/ CloseThanks(h) \/ NotGeocoded(h) \/ Uncaught(h) \/ AddAnswers(h)
      PROVE  LogInv'
  <2>1. PICK run : /\ Continue(h, run) /\ UNCHANGED <<storage, clock>>
                   /\ run \in {Idle, [step |-> "badPlace"], [step |-> "stuck"], [step |-> "thanks"]}
    BY <1>5 DEF CloseError, CloseThanks, NotGeocoded, Uncaught, AddAnswers, remote
  <2>2. run \in Runs /\ run.step \notin {"upload", "add"}
    BY <2>1, RunTypes
  <2>3. \A g \in Handlers \ {h} : runs[g] = Idle
    <3>1. runs[h].step # "none"
      BY <1>5 DEF CloseError, CloseThanks, NotGeocoded, Uncaught, AddAnswers
    <3>. QED BY <3>1, RunFinds
  <2>. QED BY <1>3, <2>1, <2>2, <2>3
<1>6. ~OtherUpload
  BY DEF OtherUpload
<1>. QED BY <1>1, <1>2, <1>4, <1>5, <1>6, LogGeocoded, LogUploaded DEF Next, Tap, Answer

LEMMA LogInit == Init => LogInv
<1>1. Recorded(Idle)
  BY DEF Recorded, Idle
<1>2. Init => DOMAIN storage = {} /\ \A h \in Handlers : runs[h] = Idle
  BY DEF Init
<1>. QED BY <1>1, <1>2 DEF LogInv

\* Documents are only added, and their files are not written again.
LEMMA LogStays ==
  ASSUME PublishInv, UNCHANGED events,
         \A p \in DOMAIN storage : p \in DOMAIN storage' /\ storage'[p] = storage[p]
  PROVE  \A i \in DOMAIN events : Observation(events[i])' = Observation(events[i])
<1>1. ASSUME NEW i \in DOMAIN events
      PROVE  Observation(events[i])' = Observation(events[i])
  <2>1. PICK e : e = events[i]
    OBVIOUS
  <2>2. \A j \in DOMAIN e.images : e.images[j] \in DOMAIN storage
    BY <2>1 DEF PublishInv, FitToPublish, Filed
  <2>3. \A j \in DOMAIN e.images : storage'[e.images[j]] = storage[e.images[j]]
    BY <2>2
  <2>4. Observation(e)' = Observation(e)
    BY <2>3 DEF Observation
  <2>. QED BY <2>1, <2>4 DEF Observation
<1>. QED BY <1>1

\* The collection as the log shows it.
Shown == [i \in DOMAIN events |-> Observation(events[i])]

LEMMA ShownStays ==
  ASSUME PublishInv, UNCHANGED events,
         \A p \in DOMAIN storage : p \in DOMAIN storage' /\ storage'[p] = storage[p]
  PROVE  Shown' = Shown
BY LogStays DEF Shown

\* An added document is an entry: the draft, complete, behind all the others.
LEMMA AddPosts ==
  ASSUME TypeOK, PublishInv, LogInv, NEW h \in Handlers, AddAnswers(h)
  PROVE  /\ UNCHANGED <<form, photos>>
         /\ Shown' = Shown \/ (Complete(form) /\ Shown' = Append(Shown, [form |-> form, photos |-> photos]))
<1>1. runs[h].step = "add" /\ runs[h] \in Runs /\ RunFits(runs[h])
  BY RunFinds DEF AddAnswers
<1>2. PICK e : e = runs[h].event
  OBVIOUS
<1>3. e \in Events /\ Complete(e.form) /\ Observation(e) = [form |-> form, photos |-> photos]
  BY <1>1, <1>2, RunFields DEF RunFits, FitToPublish, LogInv, Recorded
<1>4. UNCHANGED <<form, photos, storage>> /\ events' \in {events, Append(events, e)}
  BY <1>2 DEF AddAnswers
<1>5. CASE events' = events
  BY <1>4, <1>5, ShownStays
<1>6. CASE events' = Append(events, e)
  <2>1. e.form = form
    BY <1>3 DEF Observation
  <2>2. events \in Seq(Events)
    BY DEF TypeOK
  <2>3. /\ Len(events) \in Nat
        /\ DOMAIN events = 1 .. Len(events) /\ DOMAIN events' = 1 .. (Len(events) + 1)
        /\ \A i \in 1 .. Len(events) : events'[i] = events[i]
        /\ events'[Len(events) + 1] = e
    BY <1>3, <1>6, <2>2, AppendFacts
  <2>4. \A d : Observation(d)' = Observation(d)
    BY <1>4 DEF Observation
  <2>5. PICK entry : entry = [form |-> form, photos |-> photos]
    OBVIOUS
  <2>6. /\ DOMAIN Shown = 1 .. Len(events) /\ DOMAIN Shown' = 1 .. (Len(events) + 1)
        /\ \A i \in 1 .. Len(events) : Shown'[i] = Shown[i]
        /\ Shown'[Len(events) + 1] = entry
        /\ Shown' = [i \in 1 .. (Len(events) + 1) |-> Shown'[i]]
    <3>1. Shown' = [i \in DOMAIN events' |-> Observation(events'[i])]
      BY <1>4 DEF Shown, Observation
    <3>2. Shown = [i \in DOMAIN events |-> Observation(events[i])]
      BY DEF Shown
    <3>. QED BY <1>3, <2>3, <2>5, <3>1, <3>2
  <2>7. Shown \in Seq({Shown[i] : i \in DOMAIN Shown}) /\ Len(Shown) = Len(events)
    BY <2>3, <2>6 DEF Shown
  <2>8. Shown' = Append(Shown, entry)
    BY <2>3, <2>6, <2>7
  <2>. QED BY <1>3, <1>4, <2>1, <2>5, <2>8
<1>. QED BY <1>4, <1>5, <1>6

\* Every step edits the draft, or posts it, or does nothing the log shows.
LEMMA LogSteps ==
  ASSUME SystemBack = FALSE, OtherPhones = FALSE,
         TypeOK, PublishInv, LogInv, TypeOK', [Next]_vars
  PROVE  \/ form' \in Forms /\ photos' \in Seq(Photos) /\ UNCHANGED Shown
         \/ /\ Complete(form) /\ UNCHANGED <<form, photos>>
            /\ Shown' = Append(Shown, [form |-> form, photos |-> photos])
<1>1. form' \in Forms /\ photos' \in Seq(Photos)
  BY DEF TypeOK
<1>2. ASSUME UNCHANGED <<storage, events>>
      PROVE  UNCHANGED Shown
  BY <1>2 DEF Shown, Observation
<1>3. CASE UNCHANGED vars
  BY <1>1, <1>2, <1>3 DEF vars, remote
<1>4. CASE \/ OpenPage \/ SelectCategory \/ TypeHazard \/ ChooseLocation \/ FillAnswers
           \/ OpenSheet \/ CloseSheet \/ StartPick \/ LeavePage
           \/ AddressAnswers \/ PickAnswers \/ Restart
  BY <1>1, <1>2, <1>4 DEF OpenPage, SelectCategory, TypeHazard, ChooseLocation, FillAnswers, Edit,
     OpenSheet, CloseSheet, StartPick, LeavePage, AddressAnswers, PickAnswers, Restart, remote
<1>5. ASSUME NEW h \in Handlers,
             \/ Submit(h) \/ CloseError(h) \/ CloseThanks(h) \/ Geocoded(h) \/ NotGeocoded(h)
             \/ Uncaught(h)
      PROVE  UNCHANGED Shown
  BY <1>2, <1>5 DEF Submit, CloseError, CloseThanks, Geocoded, NotGeocoded, Uncaught, remote
<1>6. ASSUME NEW h \in Handlers, Uploaded(h)
      PROVE  UNCHANGED Shown
  BY <1>6, UploadedFacts, ShownStays
<1>7. ~OtherUpload
  BY DEF OtherUpload
<1>. QED BY <1>1, <1>3, <1>4, <1>5, <1>6, <1>7, AddPosts DEF Next, Tap, Answer

\* What other phones read is a log of the drafts as their senders saw them, each
\* complete and with all its photos in order, on a phone without a back button
\* where the address and the photos arrive before "publish" and while no other
\* phone writes: PublishEvent reads the fields after its awaits, into a list of URLs
\* that belongs to the page, and yet nothing of two attempts is ever mixed.
THEOREM DocumentsAreDrafts ==
  ASSUME SystemBack = FALSE, Late = FALSE, OtherPhones = FALSE
  PROVE  Spec => ImplementsLog
<1>1. Init => Log!Init
  <2>1. Init => events = << >> /\ form = EmptyForm /\ photos = << >>
    BY DEF Init
  <2>2. events = << >> => [i \in DOMAIN events |-> Observation(events[i])] = << >>
    OBVIOUS
  <2>. QED BY <2>1, <2>2 DEF Log!Init
<1>2. TypeOK /\ PublishInv /\ LogInv /\ [Next]_vars
        => LogInv' /\ [Log!Next]_<<[form |-> form, photos |-> photos],
                                   [i \in DOMAIN events |-> Observation(events[i])]>>
  <2> SUFFICES ASSUME TypeOK, PublishInv, LogInv, [Next]_vars
               PROVE  LogInv' /\ [Log!Next]_<<[form |-> form, photos |-> photos],
                                              [i \in DOMAIN events |-> Observation(events[i])]>>
    OBVIOUS
  <2>1. TypeOK' /\ LogInv'
    BY PublishNext, LogNext
  <2>2. \/ form' \in Forms /\ photos' \in Seq(Photos) /\ UNCHANGED Shown
        \/ /\ Complete(form) /\ UNCHANGED <<form, photos>>
           /\ Shown' = Append(Shown, [form |-> form, photos |-> photos])
    BY <2>1, LogSteps
  <2>. QED BY <2>1, <2>2 DEF Shown, Log!Next, Log!EditDraft, Log!Post, Log!Drafts
<1>. QED BY <1>1, <1>2, LogInit, PublishAlways, PTL DEF Spec, ImplementsLog, Log!Spec

-----------------------------------------------------------------------------
(* For modules that instantiate the form: the same facts as implications *)

LEMMA FormKeepsInv == SystemBack = FALSE => (Spec => [](TypeOK /\ PublishInv))
<1> SUFFICES ASSUME SystemBack = FALSE
             PROVE  Spec => [](TypeOK /\ PublishInv)
  OBVIOUS
<1>. QED BY PublishAlways

LEMMA FormKeepsLog ==
  SystemBack = FALSE /\ Late = FALSE /\ OtherPhones = FALSE => (Spec => ImplementsLog)
<1> SUFFICES ASSUME SystemBack = FALSE, Late = FALSE, OtherPhones = FALSE
             PROVE  Spec => ImplementsLog
  OBVIOUS
<1>. QED BY DocumentsAreDrafts
=============================================================================
