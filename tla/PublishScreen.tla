---------------------------- MODULE PublishScreen ----------------------------
(***************************************************************************)
(* The publication form (lib/publish.dart, _PublishState) and the handler  *)
(* PublishEvent, which awaits the geocoder, one upload per photo and the   *)
(* database, and reads the fields of the form again after each of them.    *)
(*                                                                         *)
(* While a handler is at an await the spinner covers the form (see         *)
(* SpinnerIsModal in AppShell), unless a back button took it away.  What   *)
(* the form asked for earlier, the current address and a photo, is under   *)
(* no such lock.                                                           *)
(***************************************************************************)
EXTENDS Naturals, Sequences, FiniteSets

CONSTANTS
  Categories,   \* indices of the list "categories": 0, 1, ... 10
  Other,        \* the category that needs a hazard (8)
  Places,       \* addresses the geocoder finds
  BadPlaces,    \* addresses it does not find
  NoPlace,      \* an empty address
  Here,         \* the address of globals.currentLocation
  Answers,      \* contents of the other fields, as one value
  Blank,        \* those contents when the form opens
  Photos, NoPhoto,
  Handlers,     \* bound on the runs of PublishEvent at one time
  SystemBack,   \* has the phone a back button?
  Late,         \* may the address or a photo arrive while publishing?
  OtherPhones,  \* do other phones upload, too?
  Faults,       \* may uploads fail, and answers of the geocoder be empty?
  MaxPhotos,    \* tiles for photos (4)
  MaxTime,      \* bound on the clock, in milliseconds
  MaxEvents     \* bound on the observations published

ASSUME PublishAssumption ==
  /\ {0, Other} \subseteq Categories /\ Categories \subseteq Nat
  /\ Here \in Places /\ NoPlace \notin Places \cup BadPlaces
  /\ Blank \in Answers /\ NoPhoto \notin Photos
  /\ IsFiniteSet(Handlers)
  /\ {SystemBack, Late, OtherPhones, Faults} \subseteq BOOLEAN
  /\ MaxPhotos \in Nat /\ MaxTime \in Nat /\ MaxEvents \in Nat

VARIABLES
  page,      \* is the form open?
  form,      \* _category, is _text_hazard filled, _text_location, the rest
  photos,    \* _imageFiles
  urls,      \* _fileDownloadUrls, a field of the page like the others
  runs,      \* the runs of PublishEvent
  lookup,    \* is _getCurAddress at its await?
  sheet,     \* is the sheet "camera or gallery" open over the form?
  pick,      \* is _getImage at its await?
  clock,     \* DateTime.now().millisecondsSinceEpoch
  storage,   \* Firebase Storage: the photo at each path
  events     \* the collection "events", in the order of arrival

remote == <<clock, storage, events>>
vars   == <<page, form, photos, urls, runs, lookup, sheet, pick, remote>>

Forms == [category : Categories, hazard : BOOLEAN,
          place : Places \cup BadPlaces \cup {NoPlace}, answers : Answers]

EmptyForm == [category |-> 0, hazard |-> FALSE, place |-> NoPlace, answers |-> Blank]

\* event_images/<category number>/<milliseconds>.
Paths == [category : {k + 1 : k \in Categories}, time : 0 .. MaxTime]

\* A document of "events"; location is the place its coordinates belong to.
Events == [form : Forms, location : Places, images : Seq(Paths)]

\* A run at an await: of the geocoder (asked for place), of the upload of one
\* photo (number at of the n there were when the loop began), of the database
\* (sent event), of the user closing a dialog; or dead, its spinner left up.
Idle == [step |-> "none"]
Runs == {Idle} \cup [step : {"badPlace", "thanks", "stuck"}]
        \cup [step : {"geocode"}, place : Places \cup BadPlaces]
        \cup [step : {"upload"}, place : Places, at : Nat, n : Nat,
              photo : Photos, path : Paths]
        \cup [step : {"add"}, event : Events]

\* The last tile can be tapped while the photo that will fill it is on its way.
MostPhotos == MaxPhotos + 1

\* Bound on submissions: every upload takes a millisecond and none may find the
\* clock at its end.
TimeLeft == clock + Cardinality(Handlers) * MostPhotos <= MaxTime

Publishing == \E h \in Handlers : runs[h] # Idle
Quiet      == Late \/ ~Publishing

\* (Mutant: taps reach the form although the spinner is up.)
EditableUnderSpinner == page /\ ~sheet

\* No spinner covers the form (see SpinnerIsModal in AppShell).  A back button
\* can take the spinner away.
Uncovered == page /\ (SystemBack \/ ~Publishing)

\* Taps reach the form itself.
Editable == Uncovered /\ ~sheet

Continue(h, run) == runs' = [runs EXCEPT ![h] = run]

-----------------------------------------------------------------------------
(* Editing the form *)

OpenPage ==
  /\ ~page /\ ~Publishing /\ Len(events) < MaxEvents
  /\ page' = TRUE
  /\ form' = EmptyForm /\ photos' = << >> /\ urls' = << >>
  /\ lookup' = TRUE /\ sheet' = FALSE /\ pick' = FALSE
  /\ UNCHANGED <<runs, remote>>

Edit(f) ==
  /\ Editable
  /\ form' = f
  /\ UNCHANGED <<page, photos, urls, runs, lookup, sheet, pick, remote>>

SelectCategory == \E k \in Categories : Edit([form EXCEPT !.category = k])
ChooseLocation == \E p \in Places \cup BadPlaces \cup {NoPlace} :
                    Edit([form EXCEPT !.place = p])
FillAnswers    == \E a \in Answers : Edit([form EXCEPT !.answers = a])

\* The field is shown for one category; its text outlives a change of category.
TypeHazard == /\ form.category = Other
              /\ \E b \in BOOLEAN : Edit([form EXCEPT !.hazard = b])

\* _getCurAddress writes the address it found over whatever is there.
AddressAnswers ==
  /\ lookup /\ Quiet
  /\ lookup' = FALSE
  /\ form' \in {[form EXCEPT !.place = Here], form}
  /\ UNCHANGED <<page, photos, urls, runs, sheet, pick, remote>>

\* (Mutant: the "add" tile stays when the form is full.)
OpenSheetAnyway ==
  /\ Editable
  /\ sheet' = TRUE
  /\ UNCHANGED <<page, form, photos, urls, runs, lookup, pick, remote>>

\* The grid ends with an "add" tile unless there is a photo for each tile.
OpenSheet ==
  /\ Editable /\ Len(photos) < MaxPhotos
  /\ sheet' = TRUE
  /\ UNCHANGED <<page, form, photos, urls, runs, lookup, pick, remote>>

CloseSheet ==
  /\ Uncovered /\ sheet
  /\ sheet' = FALSE
  /\ UNCHANGED <<page, form, photos, urls, runs, lookup, pick, remote>>

\* "Camera" and "gallery" do not count the photos again.  The picker serves one
\* call at a time: of two that overlap, one ends without a photo.
StartPick ==
  /\ Uncovered /\ sheet
  /\ sheet' = FALSE /\ pick' = TRUE
  /\ UNCHANGED <<page, form, photos, urls, runs, lookup, remote>>

\* The picker answers, with null if it was cancelled.
PickAnswers ==
  /\ pick /\ Quiet
  /\ pick' = FALSE
  /\ photos' \in {photos} \cup {Append(photos, photo) : photo \in Photos}
  /\ UNCHANGED <<page, form, urls, runs, lookup, sheet, remote>>

\* The back arrow.  What is at an await goes on without its page, with the
\* fields of the State that was its page's.
LeavePage ==
  /\ Editable
  /\ page' = FALSE
  /\ UNCHANGED <<form, photos, urls, runs, lookup, sheet, pick, remote>>

-----------------------------------------------------------------------------
(* PublishEvent *)

\* The two validations that are not commented out.
Complete(f) == (f.category = Other => f.hazard) /\ f.place # NoPlace

Submit(h) ==
  /\ Editable /\ runs[h] = Idle /\ Complete(form) /\ TimeLeft
  /\ Continue(h, [step |-> "geocode", place |-> form.place])
  /\ UNCHANGED <<page, form, photos, urls, lookup, sheet, pick, remote>>

\* The document is put together from the fields as they are by now.
Send(h, images) ==
  Continue(h, [step |-> "add",
               event |-> [form |-> form, location |-> runs[h].place, images |-> images]])

\* (Mutant: the time of the file is that of the form, always the same.)
FilePathUndated(category, time) == [category |-> category, time |-> 0]

\* Where a photo of this category goes when it is uploaded now.
FilePath(category, time) == [category |-> category, time |-> time]

\* _uploadImages takes photo number at of n.
Upload(h, category, at, n, time) ==
  Continue(h, [step |-> "upload", place |-> runs[h].place, at |-> at, n |-> n,
               photo |-> photos[at], path |-> FilePath(category, time)])

Geocoded(h) ==
  /\ runs[h].step = "geocode" /\ runs[h].place \in Places
  /\ IF photos = << >>
     THEN Send(h, urls) /\ UNCHANGED urls
     ELSE urls' = << >> /\ Upload(h, form.category + 1, 1, Len(photos), clock)
  /\ UNCHANGED <<page, form, photos, lookup, sheet, pick, remote>>

\* (Mutant: the exception of the geocoder is not caught.)
NotGeocodedUncaught(h) ==
  /\ runs[h].step = "geocode"
  /\ Continue(h, [step |-> "stuck"])
  /\ UNCHANGED <<page, form, photos, urls, lookup, sheet, pick, remote>>

\* null, or a PlatformException (an address without coordinates, or no answer at
\* all), becomes (0, 0): the error dialog opens.
NotGeocoded(h) ==
  /\ runs[h].step = "geocode"
  /\ Continue(h, IF page THEN [step |-> "badPlace"] ELSE Idle)
  /\ UNCHANGED <<page, form, photos, urls, lookup, sheet, pick, remote>>

CloseError(h) ==
  /\ runs[h].step = "badPlace"
  /\ Continue(h, Idle)
  /\ UNCHANGED <<page, form, photos, urls, lookup, sheet, pick, remote>>

\* uploadTask: the file is there.
Stored(path, photo) ==
  [p \in DOMAIN storage \cup {path} |-> IF p = path THEN photo ELSE storage[p]]

\* A photo is stored and its URL known, at least a millisecond later.  The
\* loop dies if the list it walks over has changed, else takes the next photo.
Uploaded(h) ==
  LET run == runs[h] IN
  /\ run.step = "upload"
  /\ clock' = clock + 1
  /\ storage' = Stored(run.path, run.photo)
  /\ urls' = Append(urls, run.path)
  /\ IF Len(photos) # run.n THEN Continue(h, [step |-> "stuck"])
     ELSE IF run.at = run.n THEN Send(h, urls')
     ELSE Upload(h, run.path.category, run.at + 1, run.n, clock')
  /\ UNCHANGED <<page, form, photos, lookup, sheet, pick, events>>

\* The document is added, or adding it fails and is only printed.
AddAnswers(h) ==
  /\ runs[h].step = "add"
  /\ events' \in {events, Append(events, runs[h].event)}
  /\ Continue(h, IF page THEN [step |-> "thanks"] ELSE Idle)
  /\ UNCHANGED <<page, form, photos, urls, lookup, sheet, pick, clock, storage>>

\* The alert is closed and the page pops itself.  Where a back button has
\* left other routes on top it pops one of those instead (see AppShell).
CloseThanks(h) ==
  /\ runs[h].step = "thanks"
  /\ Continue(h, Idle)
  /\ page' \in IF SystemBack THEN {page, FALSE} ELSE {FALSE}
  /\ UNCHANGED <<form, photos, urls, lookup, sheet, pick, remote>>

\* An upload fails, or the geocoder answers with an empty list: nothing
\* catches it and hideProgress is never called.
Uncaught(h) ==
  /\ Faults /\ runs[h].step \in {"geocode", "upload"}
  /\ Continue(h, [step |-> "stuck"])
  /\ UNCHANGED <<page, form, photos, urls, lookup, sheet, pick, remote>>

-----------------------------------------------------------------------------
(* Around the page *)

\* The app is killed and started again.
Restart ==
  /\ page' = FALSE /\ lookup' = FALSE /\ sheet' = FALSE /\ pick' = FALSE
  /\ form' = EmptyForm /\ photos' = << >> /\ urls' = << >>
  /\ runs' = [h \in Handlers |-> Idle]
  /\ UNCHANGED remote

\* Somebody else's phone uploads a photo (NoPhoto: none of ours).
OtherUpload ==
  /\ OtherPhones /\ clock < MaxTime
  /\ \E k \in Categories :
       storage' = Stored(FilePath(k + 1, clock), NoPhoto)
  /\ UNCHANGED <<page, form, photos, urls, runs, lookup, sheet, pick, clock, events>>

Init == /\ page = FALSE
        /\ form = EmptyForm /\ photos = << >> /\ urls = << >>
        /\ runs = [h \in Handlers |-> Idle]
        /\ lookup = FALSE /\ sheet = FALSE /\ pick = FALSE
        /\ clock = 0
        /\ storage = [p \in {} |-> NoPhoto]
        /\ events = << >>

Tap == \/ OpenPage \/ SelectCategory \/ TypeHazard \/ ChooseLocation \/ FillAnswers
       \/ OpenSheet \/ CloseSheet \/ StartPick \/ LeavePage
       \/ \E h \in Handlers : Submit(h) \/ CloseError(h) \/ CloseThanks(h)

Answer(h) == \/ Geocoded(h) \/ NotGeocoded(h) \/ Uploaded(h) \/ AddAnswers(h)
             \/ Uncaught(h)

Next == \/ Tap
        \/ \E h \in Handlers : Answer(h)
        \/ AddressAnswers \/ PickAnswers
        \/ Restart \/ OtherUpload

Spec == Init /\ [][Next]_vars

\* The geocoder, the storage and the database answer in the end.
FairSpec == Spec /\ \A h \in Handlers : WF_vars(Answer(h))

-----------------------------------------------------------------------------
TypeOK ==
  /\ page \in BOOLEAN /\ lookup \in BOOLEAN /\ sheet \in BOOLEAN /\ pick \in BOOLEAN
  /\ form \in Forms
  /\ photos \in Seq(Photos) /\ Len(photos) <= MostPhotos
  /\ urls \in Seq(Paths)
  /\ runs \in [Handlers -> Runs]
  /\ clock \in 0 .. MaxTime
  /\ DOMAIN storage \subseteq Paths
  /\ \A p \in DOMAIN storage : storage[p] \in Photos \cup {NoPhoto}
  /\ events \in Seq(Events)

Published == {events[i] : i \in DOMAIN events}

\* What was validated is what is published: no await lets a document of the
\* category "other" go out without its hazard, or any without a place name.
PublishedIsComplete == \A e \in Published : Complete(e.form)

\* The photos of a document lie under the category it is published in, each
\* has its own file, and the files exist.
PhotosWellFiled ==
  \A e \in Published :
    /\ \A i \in DOMAIN e.images : /\ e.images[i].category = e.form.category + 1
                                  /\ e.images[i] \in DOMAIN storage
    /\ \A i, j \in DOMAIN e.images : e.images[i] = e.images[j] => i = j

\* No document points to a file that is not there, even where a back button
\* lets two runs fill the same list of URLs.
PhotosExist ==
  \A e \in Published : \A i \in DOMAIN e.images : e.images[i] \in DOMAIN storage

-----------------------------------------------------------------------------
(* Why the photos exist: what is known of every phone *)

Documents(files) == [form : Forms, location : Places, images : Seq(files)]

FilesInv ==
  /\ form \in Forms
  /\ DOMAIN runs = Handlers
  /\ urls \in Seq(DOMAIN storage)
  /\ \A h \in Handlers :
       /\ runs[h].step = "upload" => runs[h].place \in Places
       /\ runs[h].step = "add" => runs[h].event \in Documents(DOMAIN storage)
  /\ events \in Seq(Documents(DOMAIN storage))

-----------------------------------------------------------------------------
(* Why the rest holds: an inductive invariant (SystemBack = FALSE) *)

\* Photos under one category, each in a file of its own.
Filed(images, category) ==
  /\ \A i \in DOMAIN images : images[i].category = category /\ images[i] \in DOMAIN storage
  /\ \A i, j \in DOMAIN images : images[i] = images[j] => i = j

FitToPublish(e) == Complete(e.form) /\ Filed(e.images, e.form.category + 1)

\* What a run relies on after its await: the form is still the validated one,
\* the URLs are those of this run, and its next file is a new one.
RunFits(run) ==
  /\ run.step \in {"geocode", "upload"} => Complete(form)
  /\ run.step \in {"geocode", "badPlace"} => urls = << >>
  /\ run.step = "geocode" => clock + MostPhotos <= MaxTime
  /\ run.step = "upload" =>
       /\ Len(urls) + 1 = run.at /\ run.at <= run.n /\ run.n <= Len(photos)
       /\ clock + run.n < MaxTime + run.at
       /\ run.path = FilePath(form.category + 1, clock)
       /\ Filed(urls, form.category + 1)
       /\ \A i \in DOMAIN urls : urls[i].time < clock
  /\ run.step = "add" => FitToPublish(run.event)

\* A tile was left when the sheet opened, and at most the one photo that was on
\* its way has come since; while it is still to come the tile is still there.
RoomForPick ==
  /\ sheet \/ pick => Len(photos) <= MaxPhotos
  /\ sheet /\ pick => Len(photos) < MaxPhotos

PublishInv ==
  /\ \A g, h \in Handlers : runs[g] # Idle /\ runs[h] # Idle => g = h
  /\ Publishing => page
  /\ page /\ ~Publishing => urls = << >>
  /\ RoomForPick
  /\ \A h \in Handlers : RunFits(runs[h])
  /\ \A i \in DOMAIN events : FitToPublish(events[i])

-----------------------------------------------------------------------------
\* Without failures a submission comes to an end the user is told of.
PublicationEnds ==
  \A h \in Handlers : runs[h].step = "geocode" ~>
                        runs[h].step \in {"none", "badPlace", "thanks"}

\* The observation a document stands for, its URLs followed.
Observation(e) ==
  [form |-> e.form, photos |-> [i \in DOMAIN e.images |-> storage[e.images[i]]]]

Log == INSTANCE ObservationLog WITH
  draft <- [form |-> form, photos |-> photos],
  log   <- [i \in DOMAIN events |-> Observation(events[i])]

ImplementsLog == Log!Spec
=============================================================================
