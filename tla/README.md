# FloodUp: the app as TLA+ specifications

FloodUp is a Flutter application (Flutter 1.9, Dart 2.5) with which people
publish observations of floods and other weather events and see those of others
on a map. All of its own logic is in `lib/` (39 Dart files, about 7,100 lines);
`ios/Pods`, `build/`, the platform runners and the assets contain none. The
server side is Firebase (Auth, Firestore, Storage), used through its client
plugins. The repository's only test is Flutter's template.

## 1. The system

| part | state it keeps | operations | talks to |
|---|---|---|---|
| start and session (`main.dart`, `globals.dart`) | the globals `firUserId`, `userFullName`, `userEmail`, `isSubscribed`, `bLoggedIn`, `currentLocation`, `isMapDisplayed`; Firebase's current user on disk | `isLoggedIn`, `main` | read and written by login, registration, map, publication |
| progress spinner (`hownd-progressindicator.dart`) | one static `mcontext` | `showProgress`, `hideProgress` | every screen; pops the Navigator's top route blindly |
| login (`login.dart`) | two text fields | `ProcessLogin`, `LoginToFireBase`, buttons | Auth, `subscriptions`, globals, Map |
| registration (`signup.dart`) | text fields, two check boxes | `ProcessSignUp`, `RegisterUserToFireBase` | Auth (create, updateProfile), `subscriptions`, globals, Map |
| password reset (`forgot.dart`) | a text field | `resetPassword` | Auth |
| map (`map.dart`) | markers, documents, chosen category, map controller, a location subscription | `LoadWeatherEvents`, `ProcessEvents`, "+", filter, drawer, logout | `events`, globals, all pages |
| filter dialog (`filterby.dart`) | none | `onSelect` | map, publication form |
| publication form (`publish.dart`) | the fields, photos, `_fileDownloadUrls` | `PublishEvent`, `_uploadImages`, `_getCurAddress`, `_getImage` | geocoder, Storage, `events`, the map behind it |
| location picker (`locationpicker.dart`) | a text field | autocompletion | publication form |
| event detail (`EventDetail.dart`) | a page index | display | map |
| localization, information pages, drawing helpers | none that matters | - | - |

Dart runs one handler at a time up to its next `await`; everything below
follows from what can happen at an `await`. The parts interact in four ways:
through the **globals**, through the **Navigator** (every handler pushes and
pops routes, mostly through a context it captured before an `await`), through
the **spinner** (one static context, and the only lock against a second tap),
and through **Firebase**, whose answers come late, in any order, or never.

What is hard here, and what nobody has tested:

* a handler resumes after an `await` in a world where its page, the session or
  the form has changed;
* `hideProgress` pops *whatever* is on top, so it is right only if the spinner is;
* registration and publication are several remote calls without a transaction:
  each may fail, and the process may be killed between any two;
* globals are written only if a document exists or a name is not empty, so a
  former user's value may survive;
* fields shared by consecutive attempts (`_fileDownloadUrls`) and by callbacks
  nobody waits for (current address, photo picker).

`PROJECT.json` lists these hazards one by one, each at its line. What makes each
part correct: the spinner is up exactly while a call is awaited and always comes
down; the globals always describe the one person Firebase knows; consent to be
sent notices is only ever that person's own; forms are reachable only in the
session they belong to; what was validated is what is published, with its
photos, at most once per submission, and the user is told the truth about it.

## 2. The modules

| module | models |
|---|---|
| `FlutterNavigator` | the Navigator operations the code uses, as operators on a navigator state (external to the repository) |
| `AppShell` | start, session, spinner, login, registration, reset, the map's controls, the life of every load and the course of a publication as the shell sees it |
| `SessionSpec` | abstract: one person after another, and whose consent counts |
| `FloodUp` | `AppShell` and `PublishScreen` together: slot *c* of the one is run *c* of the other |
| `LocationFeed` | the first position, the position subscriptions and cameras of all the maps of a process |
| `PublishScreen` | the publication form and `PublishEvent` in detail, with geocoder, Storage and the collection `events` |
| `ObservationLog` | abstract: a growing log of drafts as they stood |
| `EventMap` | one map page: loads, markers, chosen category, sheet, and the collection that others change |
| `MapView` | abstract: snapshots of the collection, one per choice |
| `ObservationRecord` | an observation's fields from the form to the document and to what a reader is told |
| `MCAppShell`, `MCFloodUp`, `MCPublishScreen`, `MCEventMap`, `MCLocationFeed`, `MCObservationRecord` | small instances for TLC |
| `AppShell_proofs` | type correctness of the shell |
| `AppShell_modal_proofs` | the spinner is a lock, belongs to an open screen, is never orphaned, and the thanks close their form |
| `AppShell_session_proofs` | the session is coherent, the shell implements `SessionSpec`, accounts come first and give their names |
| `FloodUp_proofs` | records are signed by their sender; the form has its lock; the collection of the whole app is in order, and a log |
| `PublishScreen_proofs` | what was validated is published, photos are filed right and exist; documents are the drafts |
| `EventMap_proofs` | the map fits its filter, shows what was found and implements `MapView`; what is hidden stays hidden |
| `LocationFeed_proofs` | one camera is centred once, truthfully flagged; maps nobody moved show one place |
| `ObservationRecord_proofs` | the origins of counting agree |

### AppShell and FlutterNavigator

`nav` is the Navigator: its stack of routes, the screens whose exit animation
still runs (`leaving`: popped, but mounted, so a captured context still works)
and the continuations of completed route futures that have not run yet
(`resume`). Pages whose handlers use their context after an `await` carry an
identity; all static pages are one kind, `Info`; an open drawer is a route,
since `pop` closes it first. `mcontext` is the static context. `calls` holds one
record per handler that is at an `await`: where it is, from which page, for
which account, and the `displayName` of the `FirebaseUser` object it holds.
`globals` are those of `globals.dart` without the e-mail (set and cleared
together with `firUserId`) and the location. `auth`, `profile` and `subs` are
Firebase's.

One action is one uninterrupted piece of a handler: a tap up to its first
`await`, an answer up to the next `await` (`SignedIn`, `LoginCompletes`, ...),
the code after an `await` on a route (`AfterPublish`, `AfterAck`, ...), the end
of an exit animation (`Unmount`), a restart of the process. `Load` is the whole
of `LoadWeatherEvents`; `Map.initState` starts it in a zero timer, that is, in
`FirstFrame`. A `PlatformException` that is caught is `Rejected`; one that is not
is `Uncaught` and leaves the spinner where it is. Validation failures are one
action, `RejectForm`: they only show a dialog. `SystemBack` says whether the
phone has a back button (Android) and `Faults` whether calls may fail in ways
nothing catches.

`SessionSpec` is what the rest of the app may rely on: `Begin` (only when nobody
is logged in), `Again` (a restart), `End`; with the notice always that of the
person's stored answer. `ImplementsSession` is the refinement, with the globals
and `subscriptions` as the abstract state.

### PublishScreen

`form` has what control depends on (category, whether the hazard is filled, the
place) and one value for all the other fields. `photos` and `urls` are
`_imageFiles` and `_fileDownloadUrls`. `runs` has, per invocation of
`PublishEvent`, the `await` it is at. `lookup` and `pick` are the pending
`_getCurAddress` and `_getImage`; `sheet` is the dialog "camera or gallery" over the
form, which is opened by a tile of the photo grid (`OpenSheet`, the only place that
looks at the number of photos) and starts the picker without looking again
(`StartPick`). So one photo more than there are tiles can get in (`MostPhotos`). `storage` maps paths (category number,
millisecond) to photos, `events` is the collection. The module shows the reads
after each `await` as the code does them: the category of the path is computed
before the uploads, all fields of the record after them; the URL list is reset
when an upload loop starts and read from the page's field at the end; a photo
that arrives during the loop ends it (Dart's `ConcurrentModificationError`).
That the spinner covers the form while a run is at an `await` (`Editable`) is an
assumption of this module for phones without a back button; `FloodUp` discharges
it. Two assumptions are about plugins. The photo picker serves one call at a time: a
call that overlaps another is refused (`already_active`) or ends the other without a
photo, so `pick` is one flag. And Firestore is modelled online: a kill during `add`
loses the document unless it was already added, and a query is answered from the
collection as it is. Offline, Firestore keeps a queued write across a kill and
`getDocuments` falls back to a local cache; neither is in `Restart` here or in
`Firestore` of `EventMap`.

`ObservationLog` promises that each entry is the complete draft as it stood,
photos in order. `ImplementsLog` maps a record to it by following its URLs
through `storage`.

### FloodUp

The composition answers two questions neither part can answer alone. The form
is instantiated twice over the same variables. `FreeForm` takes every tap on
trust, and the composition lets a tap through only if the shell's Navigator has
the form on top; `LockedForm` is `PublishScreen` as it is studied alone, where
nobody edits a form that is being published. `ImplementsForm` says that the
former, under the shell, behaves as the latter. One step is the step of both:
`SendForm` is the shell's `SubmitPublish` and the form's `Submit`, `PlaceFound`
and `PlaceNotFound` are the geocoder's answer, `PhotoStored` an upload the shell
does not see, `RecordAnswered` the database's answer, `CloseBadPlace` and
`CloseThanked` the code after the two alerts. `Elsewhere` is everything the shell
does that leaves the form alone: that no such step opens or closes a form is not
assumed, but part of `ImplementsForm` (`page` is `FormOpen`, a function of the
stack). `sender` remembers whose session it was when the button was pressed, and
`publishers` gets, with each record, what `globals` said at that moment, as `publish.dart:423` reads it. A signature
may be empty, where the session has no name (finding 2), but is never another's.
The sheet for photos belongs to the form and is not a route of the shell's
Navigator; while it is open no other tap gets through (`Elsewhere`). `RecordsInOrder` says of the collection of the whole app
what `PublishScreen` says of its own, and that the names under it are names of
accounts; `ImplementsLog` is that of `PublishScreen`, now for every behaviour of the
app. `FormAssumption` is `PublishScreen`'s assumption about its constants.

### LocationFeed

`stage` is the life of each `Map` of the process: shown, created
(`onMapCreated` has set `map_controller`), and closed before or after that; a map
that was ever shown goes on hearing positions, since `locationSubscription` is
never cancelled. `Hear` is the listener of `map.dart:55-66`: `currentLocation`
first, then, for the first position that is not at zero, `moveCamera` and only
then the flag `isMapDisplayed`, so that a null controller throws between the two.
`kGooglePlex` is the static field, evaluated when it is first read. `FirstPosition`
and `LocationDenied` are the two ends of `initPlatformState`. Which subscriptions
the plugin serves and in which order is left open. `centred`, `located` and `left` are
histories: which maps a subscription moved, which the user moved with the button, and whether
somebody has logged out. `UntouchedMapsAlike` relates all maps that nobody has
moved, whenever they were opened and whatever became known between.

### EventMap

The data of the map page whose control is in `AppShell`. `loads` has one slot per
run of `LoadWeatherEvents`: waiting for the page's first frame (`new`), awaited
and not yet evaluated by Firestore (`asked`), evaluated but not yet delivered
(`found`, with the documents), or dead with its spinner up (`stuck`). `markers`
is cleared when a load starts and appended to when it is answered, as
`all_Event_Markers` is; `event_datas` goes with it and nothing reads it.
`Touchable` is what the spinner permits: nothing without a back button, a tap in
any load after the first frame with one. `EventsChange` is everyone else's
publishing, hiding (`status`) and deleting. `Answered` is `then` with
`ProcessEvents`, which ends at the first document without `image_files`.

`MapView` is what a user expects of the page: a choice is asked, Firestore looks
once, and what it found is shown, all of it and nothing else, before the next choice is
taken; a failure shows a part and takes no further choice. `ImplementsView` maps
the slots to one `stage` and the list of markers to the set it `Shown`s.

### ObservationRecord

One observation at a time: the fields of the form as they were left, the
document `PublishEvent` makes of them, and what filter, sheet and detail page
make of the document. Each counts differently: categories from 0 in the form,
from 1 in the document, after "all" in the filter; ratings from -1, from 0, and
as "-". Numbers are kept, since they are the point; texts are
empty, "-" or anything else: a typed "-" looks to a reader like an empty text, so
the property is about the ratings only. Only
a submission that is stored is followed, the rest is in `PublishScreen`.

## 3. What is checked

| run | instance | result |
|---|---|---|
| `Shell_taps` | no back button, faults, 2 accounts, 2 handlers, 5 screens, taps up to 5 routes | `TypeOK`, `SpinnerIsModal`, `SpinnerHasItsScreen`, `ThanksCloseTheirForm`, `SessionCoherent`, `ConsentRespected`, `FormNeedsSession`, `CredentialsOnlyWhenSignedOut`, `ImplementsSession` hold |
| `Shell_live` | the same without faults, 1 account, fairness | `SpinnerIsAwaited`, `SpinnerGoesAway` hold |
| `Shell_back` | back button, faults, 2 accounts, 2 handlers, 2 screens, 3 routes | `OnlyRegistered`, `NamesAreStored` hold |
| `Shell_back_modal` | back button | `SpinnerIsModal` is violated (finding 1) |
| `Shell_name` | 1 account | `RegisteredNameIsPublished` is violated (finding 2) |
| `App_publish` | shell and form, no back button, faults, 1 account, 2 handlers, 3 screens, 1 category, 1 tile (up to 2 photos), 4 ms, late address and photo | `SignedByItsSender`, `RecordsInOrder`, `ImplementsForm` hold |
| `Publish_late` | late address and photo, failures, other phones, 2 runs, 2 tiles (up to 3 photos), 8 ms | `TypeOK`, `PublishedIsComplete`, `PhotosWellFiled` hold |
| `Publish_log` | address and photos in time, 1 tile (up to 2 photos), 4 ms, rejected places and documents, fairness | `ImplementsLog`, `PublicationEnds` hold |
| `Map_filter` | no back button, failing queries, incomplete documents, 3 documents, 2 categories, 2 loads | `TypeOK`, `MapFitsItsFilter`, `OneMarkerEach`, `HiddenStaysHidden`, `LoadShowsWhatWasFound`, `ImplementsView` hold |
| `Feed` | 3 maps, 3 positions, one of them at zero, fairness | `TypeOK`, `CentredOnce`, `FlagMeansCentred`, `UntouchedMapsAlike`, `FirstCentringComes` hold |
| `Record_reader` | all 11 categories, all ratings of all 3 bars, one field with three texts, "-" among them | `TypeOK`, `CategoryKeepsItsName`, `ReaderIsToldTheRatings` hold |
| `Record_answer` | the same with one bar | `ReaderIsToldTheAnswer` is violated (finding 3) |

Every property of a passing run has a mutant: a definition changed as a slip in
the code would change it (marked "Mutant" in the modules), under which TLC finds
that property violated.

**Bounds.** Two handlers in flight suffice to see a second call beside a first;
without a back button there is never a second, which is itself checked. Five
routes hold Login, Signup, Ack dialog, Map and one page above; the deepest chain
of distinct pages the user can build before a page repeats (Login, Signup,
Map, Publish and an overlay) fits. `MaxRoutes` and `Ids` only refuse taps; a
handler that needs an identity beyond `Ids` waits (`Fits`), which without a back
button and with five identities does not happen: `Shell_live` would find the
handler stuck. Two accounts are what it takes for one person's value to survive
into another's session. `Publish_log` leaves uncaught failures
out for the sake of `PublicationEnds`; for `ImplementsLog` they add nothing to
`Restart`, which ends an attempt at any `await`, while a run that died keeps the
form covered until the restart. In `PublishScreen`, two photos make an upload loop that
can fail in its middle, and a form may get one photo more than it has tiles: two tiles give
up to three photos, one tile up to two; two categories, one
of them "other", are what the code distinguishes (`category == 8`). Two runs in
`Publish_late` let a second attempt begin, were it possible; eight
milliseconds leave room for an attempt that fails after two photos before a complete one of
three (`TimeLeft`). In `Publish_log` the four milliseconds leave room for two such of two. `App_publish`
has one account: a foreign signature already shows as a sender who is nobody. It has
one category, the one that needs a description; what several do to a form,
`Publish_late` and `Publish_log` show. The theorems of `FloodUp_proofs` cover any number of both. Three screens hold Login, Map and
the form. `Shell_back` has two screens and three routes, enough for Login and
Signup with a spinner, hence for two registrations and a login to overlap; a third
screen would only multiply where they do it, and its theorem has no bounds. Three
maps in `Feed` are one that was closed early, one that was closed late and one that
is open.
In `EventMap`, two categories and "all" are three different queries, three
documents leave one in the middle of an answer, and two slots are one more than
there can be loads. `ObservationRecord` has no bound that matters: the four
fields of text that turn into "-" do so independently of each other, and one
stands for them.

**Fairness.** `Spec` has none. The liveness runs assume that a pending microtask
runs, an exit animation ends, and that each awaited call is answered
(`WF(Answer)`). For `Feed` they assume that the platform creates the view of a map that stays
open, and that a phone that knows its position goes on reporting it to each
subscription. (The former covers a map that is closed before its view is there, too;
no property needs that.) The first two are the framework's scheduling. The third is true
of Auth, Storage and the geocoder, which time out; Firestore writes complete
only once the server has acknowledged them, so offline the spinner does stay:
the liveness results hold for a phone that gets its network back. Nothing is
assumed of the user: a dialog may stay open for ever.

**With a back button** most of the shell's guarantees are gone, as the spinner
is its only lock. Besides `SpinnerIsModal`, TLC finds `SessionCoherent`,
`ConsentRespected` (two logins or registrations in flight), `FormNeedsSession`,
`CredentialsOnlyWhenSignedOut` and `ImplementsSession` violated there, and
`SpinnerHasItsScreen`: the screen of a second handler overwrites `mcontext` and is
unmounted while the first one's spinner is up, which nothing takes down then. They
are not listed as findings, since no text in the repository says otherwise; the
cause is finding 1 each time. `OnlyRegistered` and `NamesAreStored` are what still
holds, as each handler goes on with the `FirebaseUser` it holds itself.
In `EventMap` a second load can then start while one is awaited, the answers mix,
and `MapFitsItsFilter` fails; but markers only ever come from queries, so that
`HiddenStaysHidden` holds. In `PublishScreen` a form can be edited under its
handler, and two runs can fill one list of URLs: `PublishedIsComplete` and
`PhotosWellFiled` fail (see below), but a URL only joins the list once its file is
stored, so that `PhotosExist` holds. `Map_filter` is without back button for the sake of its
other properties, and `PhotosExist` is in no run, since without a back button it is
part of `PhotosWellFiled`. `OnlyRegistered`, `NamesAreStored`, `HiddenStaysHidden` and
`PhotosExist` are proved for both kinds of phone.

**With a late address or photo** `ImplementsLog` and `PublicationEnds` fail even
without a back button: an address that arrives while another place is being
geocoded is published with that place's coordinates, and a photo that arrives
during the uploads ends the handler with its spinner up.

### Findings

1. `hownd-progressindicator.dart:97`: `barrierDismissible: false` does not stop
   Android's back button; the commented-out predecessor had a `WillPopScope`
   against it (lines 246-247).
2. `signup.dart:225`: the name just registered is read from the stale
   `FirebaseUser`; the first session publishes without a name, though the form
   says the name "will be published with your observations".
3. `EventDetail.dart:74`: the answer yes/no is shown inverted.

Five more defects are in the models but have no run, since no text of the
repository contradicts them. `publish.dart:409-412` reads category and hazard
again after the awaits: with a back button the spinner can be closed and the form
edited meanwhile, and a record of category "other" can lack its hazard (`Send` in
`PublishScreen` with `SystemBack`). `publish.dart:426` only prints that the database
refused the record and goes on to the thanks of a success (`AddAnswers`).
`publish.dart:785` counts the photos
where it draws the tiles, and the sheet behind a tile (lines 819-830) starts the picker without
counting: opened while the fourth photo is on its way, it lets a fifth in, which is
uploaded and published although the grid shows four (`StartPick`). `map.dart:131` calls
`List.from` on a field that line 132 expects to be missing at times, so that one
such document ends its load with the spinner up (`Answered` in `EventMap`); and
the path of a photo (`publish.dart:502`) lacks the user that the printed path has
(line 501), so that files of two phones that upload in one category in the same
millisecond replace each other (`OtherUpload` in `PublishScreen`).

## 4. What is proved

`AppShell_proofs` proves `TypeCorrect: Spec => []TypeOK` for any set of accounts,
slots and screens, any `MaxRoutes`, with and without back button and faults,
from the two assumptions on the constants (`NavigatorAssumption`,
`ShellAssumption`). `TypeOK` is inductive: `NavOK` says that the first route is a
page (so an overlay always has a route below it: `TopFacts`, needed wherever a
handler pops and then names what was below), and that every screen has an
identity; `Call` says that an account step knows its account. The lemmas take
the Navigator's operators one by one (`PushType`, `PopType`,
`PushOverFirstType`, `UnmountedType`, `HomeType`), then the shell's helpers, then
one lemma per class of step (`TypeTap`, `TypeAnswer`, `TypeResume`,
`TypeUnmount`, `TypeRestart`), and `TypeNext` puts them together.

`AppShell_modal_proofs` proves, for phones without a back button
(`SystemBack = FALSE`), `SpinnerLocks: Spec => []SpinnerIsModal` and
`ThanksPopTheForm: Spec => []ThanksCloseTheirForm`, again for every number of
accounts, screens, handlers and routes and with all the failures nothing
catches. Neither property is inductive. That `hideProgress` pops the spinner
depends on what can lie above a spinner, that on what each tap may open and
each pop uncover, and that on the continuations a pop wakes. `ModalInv` (in
`AppShell`; TLC holds it too, on the instance of `Shell_taps`) says all this:

* `WellStacked(nav)`: no two mounted screens share an identity; the spinner is on
  top, but for the "invalid location" dialog over it; filter and drawer lie
  right above a map, the thanks right above the form they return to, and a form
  or a success dialog somewhere above its opener; a continuation that is about
  to run is alone and finds what it names;
* at most one handler is awaiting; one that waits for an answer is `Locked`: its
  screen is the static `mcontext` and is open, the spinner is on top, and below
  it lies the form of a publication or the drawer of a logout; a map that waits
  for its first frame has no spinner under or over it.

The lemmas go from the Navigator (`PopKeeps`, `PushKeeps`, `PushOverFirstKeeps`,
`UnmountedKeeps`) over what a handler does at its two ends (`ShowProgressLocks`,
`HideUnlocks`, `OpenMapOpens`) to one lemma per class of step (`ModalTap`,
`ModalAnswer`, `ModalResume`, `ModalUnmount`, `ModalRestart`). The only use of
`SystemBack = FALSE` is in `ModalTap`, where `PressSystemBack` is excluded.

`EventMap_proofs` proves, again for phones without a back button,
`MapShowsItsFilter: Spec => []MapFitsItsFilter` and
`MapShowsEachOnce: Spec => []OneMarkerEach`, for any documents, categories and
slots, with failing queries and incomplete documents. `Ids` may be infinite. Both
rest on `MapInv` (in `EventMap`; it holds on the instance of `Map_filter` too):
at most one slot is in use; while its load is under way the map is empty and
what is asked or found is for the category that is chosen; the collection is
finite and has each id once, and so has what was found. `ListedFacts` says what
the part of an answer is that `ProcessEvents` gets through. `TypeOK` is part of
the induction, as `Answered` needs a finite answer.

Both further theorems of the module, `MapTypes` and `AnswersAreShown`
(`Spec => LoadShowsWhatWasFound`, an action property), come from it as well: an
answer finds an empty map, so what it appends is all there is. `MapTypes` needs no
back button to be absent; nor does `HiddenIsNotShown: Spec => []HiddenStaysHidden`, from
`FoundInv`: whatever is found is finite and not hidden.

`PageShowsSnapshots: Spec => ImplementsView` is the refinement of `MapView`, without
back button. `ViewIsSeen` reduces the mapping, a `CHOOSE` among the slots, to the
one slot in use, or none (`Seen`, by `MapInv`); then `ViewSteps` takes the actions one
by one: `SelectFilter` and `AfterPublish` are `Choose` (`LoadAsks`), `Firestore` is
`Look`, `Answered` is `Show` if it gets to the end of the list (`AnswerShowsFound`, from
`ListingIsComplete`) and `Fail` if not, as is `QueryFails`; `EventsChange` is `Change`,
`Restart` is `StartNew`; the first frame and the sheet stutter.

**The spinner's screen.** `SpinnersCanGo: Spec => []SpinnerHasItsScreen` adds
`SpinnerKept` to `ModalInv`: as long as there is a spinner, `mcontext` is the
identity of a page on the stack, whether or not the handler that put it there is
alive. `Locked` says so while a call is awaited; what had to be shown is that after
an uncaught failure nothing but a restart moves the stack under that spinner.

**No orphaned spinner.** `SpinnersAreAwaited: Spec => []SpinnerIsAwaited` is the
safety half of `SpinnerGoesAway`, for phones without a back button and calls whose
failures are caught (`Faults = FALSE`; with uncaught failures it is false, the
`stuck` hazards). Together with `ModalInv` it is inductive: a tap finds no spinner and
leaves one only with a call (`QuietTap`), an alert over a spinner wakes the handler
that hides it (`AlertCloses`, `SpinnerPops`), an answer leaves a spinner only where
its handler goes on to a next await or to that alert (`QuietAnswer`,
`AwaitedOrGone`), and no other continuation uncovers one (`QuietResume`). What is left
to fairness is only that the awaited call is answered.

**The session.** `AppShell_session_proofs` proves, without a back button,
`SessionIsCoherent`, `ConsentIsRespected`, `FormIsForMembersOnly`,
`CredentialsAreForGuests` and the refinement `SessionsFollowOneAnother:
Spec => ImplementsSession`. They stand or fall together: that `globals` stay
coherent needs that no second login starts while somebody is signed in; that needs
that no route leads back to the login form, which lies *below* the map of a
member; that needs the map to stay, which only the logout removes. `SessionInv`
says all of it: every login or registration page of a member has a map above it
(`Covered`), but for the moment the success dialog of a registration is still
open (`AckPending`); each awaited account call knows what Firebase says
(`AccountCall`); and where Firebase has signed in somebody `globals` do not know
yet, or never will since the handler died, a spinner bars the way
(`HalfSignedIn`). `AccountsComeFirst: Spec => []OnlyRegistered` holds on every phone
and rests on `AccountsInv`: a call that is past the creation of its account finds
it, one that stores a consent finds its name, and no step takes either away.
`NamesComeFromAccounts: Spec => []NamesAreStored`, on every phone as well, needs
`NamesInv`: the `displayName` a handler carries from one await to the next, and puts
into `globals` at the end, is one that was stored when it was read.

**Shell and form.** `FloodUp_proofs` proves `RecordsAreSignedByTheirSender`: the sender's name, or none. Every
step of the composition is a step of the shell (`StepsOfTheShell`), so `ModalInv`
and `SessionInv` hold in it. `SignInv` adds that during a publication the sender is
who is signed in: only the tap starts a publication, on a form, hence for a member;
and while it lasts no login or logout can be answered, as there is one call only.
`FormHasItsLock: AppSpec => ImplementsForm` is the refinement. `FormLockInv` says, of
each run of the form, either that it is the one call of the shell, under its
spinner, or that no call is left and it waits for its alert or has died under its
spinner; and, of the stack, that no page lies over a form (`FormOnTop`), so that
popping a form leaves none. A tap that reaches the form then finds no run
(`QuietForm`), what happens elsewhere opens and closes no form (`ElsewhereKeeps`),
and the pop after the thanks takes the last form away (`ThanksCloseForm`). TLC
held `FormLockInv` on the instance of `App_publish` before it was proved.

**End to end.** With the lock, what is proved of the form alone holds in the app:
`FloodUp_proofs` instantiates the module of those proofs (`FormAlone`), shows that
the form under the shell is its specification (`SameForm`), and cites its
invariants (`FormKeepsInv`, `FormKeepsLog`, stated as implications so that they can
be used below an `INSTANCE`). `CollectionIsInOrder: AppSpec => []RecordsInOrder` adds
that signatures and records stay one to one (`Recording`) and that names come from
accounts; `CollectionIsALog: AppSpec => ImplementsLog` is `DocumentsAreDrafts` for the
whole app, under the same conditions on late answers and other phones. The first is
checked by TLC in `App_publish`; for the second the form alone, `Publish_log`, is the
instance that TLC checks.

**The form.** `PublishScreen_proofs` proves `FormTypes`, `CompleteIsPublished` and
`PhotosAreFiled` without a back button, with `PublishInv`: at most one run; the
fields it will read again are still complete (an address that comes late replaces
a place by a place); there is room for the photo that is on its way, and for one more if
the sheet is open (`RoomForPick`), so that a form never has more than one photo beyond its tiles; the URLs are those of this run, one less than the photo being
uploaded, all older than the clock, hence its file is a new one. From these and
`LogInv` follows `DocumentsAreDrafts: Spec => ImplementsLog`, if nothing arrives late
and no other phone uploads (`Late` and `OtherPhones` false; both are needed, see
section 3): what a run has stored is what the form holds (`Recorded`), and an upload
never writes to a path an earlier document refers to, as all of storage is
older than the clock (`UploadedFacts`, `LogStays`). Uncaught failures are allowed.
`PhotosAreThere: Spec => []PhotosExist` holds on every phone. With a back button
`PublishInv` does not hold, so it has an invariant of its own, `FilesInv`: the list of URLs, a document being sent and every published one have
paths of stored files only, whoever stored them, and storage only grows
(`FilesStay`).

**Positions and records.** `LocationFeed_proofs` has `FeedTypes`, `CentresOnce`,
`FlagIsTrue` and `UntouchedMapsAgree`, for any number of maps, from `FeedInv` (a
centring is followed by the flag in the same step, so that there is at most one)
and, for the last, `UntouchedInv`: a map that nobody moved shows the place of the
static field, which only a restart resets. `ObservationRecord_proofs` has `RecordTypes`, `CategoriesAgree`
and `RatingsAreTold`, from `RecordInv`: the document is that of the draft. `RecordAssumption` asks of "-" only that it is not a number.

Model-checked only: `SpinnerGoesAway`, `PublicationEnds` and `FirstCentringComes`
(liveness, out of the prover's reach). Every other property of a passing run is
proved.

## 5. What is not modelled, and the plan

Not modelled: text, layout, the drawing of marker icons, push-notification
registration (its token is only printed), `userEmail`, dead code
(`language_controller.dart`, `LocationService`'s class, `WeatherEvent`,
`startProcessTimer`), the date picker and the photo pages of the detail page
(display only). Of the location picker only the result is modelled: its
autocompletion asks once per keystroke, but Flutter's `FutureBuilder` drops every
answer except that of the last text, and nothing but a tapped line leaves the page.
The locale is chosen once, by the framework, from a fixed list. One form is
followed at a time in `PublishScreen`; `OpenPage` waits until the previous page's
run has ended. `EventMap` and `LocationFeed` are not composed with the shell: the
first is one page with its own loads, whose lock is the same `SpinnerIsModal`: that
no tap reaches a map under a spinner, dead or alive, is proved of the shell. The
second shares with the shell only that a logout leaves the map.

What is left, in this order:

1. A composition of `AppShell` and `EventMap` (a load of the map is the shell's
   `query`), as `FloodUp` composes the shell and the form; with it `MapView` would hold
   of the page inside the app.
2. The location picker with a model of `FutureBuilder`.
