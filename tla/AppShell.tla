------------------------------ MODULE AppShell ------------------------------
(***************************************************************************)
(* The app as a whole: which screens are open, which call to Firebase or   *)
(* to the geocoder is awaited, what lib/globals.dart says of the session,  *)
(* and the one progress spinner every screen shares through the static     *)
(* HOWNDProgressIndicator.mcontext.                                        *)
(*                                                                         *)
(* Dart runs one handler at a time, up to its next await.  So a step is a  *)
(* tap (up to its first await), an answer to an awaited call (from that    *)
(* await to the next), a microtask (the code after an await on a route),   *)
(* the end of an exit animation, or the process being killed.              *)
(***************************************************************************)
EXTENDS FlutterNavigator, FiniteSets

CONSTANTS
  Users,       \* accounts (an e-mail address, a uid and a full name each)
  NoUser,      \* nobody: an empty string in globals, a null FirebaseUser
  Slots,       \* bound on the handlers that are awaiting at the same time
  SystemBack,  \* does the phone have a back button (Android)?
  Faults       \* may a call fail in a way no handler catches?

ASSUME ShellAssumption ==
  /\ NoUser \notin Users
  /\ Slots # {}
  /\ SystemBack \in BOOLEAN /\ Faults \in BOOLEAN

VARIABLES
  nav,       \* the Navigator
  mcontext,  \* HOWNDProgressIndicator.mcontext: the screen that last showed it
  calls,     \* the handlers that are at an await, one per slot
  globals,   \* lib/globals.dart
  auth,      \* FirebaseAuth.currentUser, which the SDK keeps on disk
  profile,   \* the accounts at Firebase: absent, without or with displayName
  subs       \* the documents of the collection "subscriptions"

vars   == <<nav, mcontext, calls, globals, auth, profile, subs>>
server == <<auth, profile, subs>>

Session == Users \cup {NoUser}
Notices == {"Yes", "No"}

\* What a handler waits for.  "open" is a pushed Map before its first frame.
Steps == {"none", "open", "signIn", "readSub", "create", "profile", "writeSub",
          "send", "signOut", "signedOut", "query", "geocode", "store"}

AccountSteps == {"signIn", "readSub", "create", "profile", "writeSub"}

\* name is the displayName of the FirebaseUser object the handler holds.
Call == {call \in [step : Steps, page : PageRef, user : Session,
                   name : Session, sub : Notices] :
           call.step \in AccountSteps => call.user \in Users}

Idle == [step |-> "none", page |-> NoPage, user |-> NoUser, name |-> NoUser,
         sub |-> "No"]

Waiting(step, page) == [Idle EXCEPT !.step = step, !.page = page]

Globals  == [firUserId : Session, userFullName : Session,
             isSubscribed : Notices, bLoggedIn : BOOLEAN]

LoggedOut == [firUserId |-> NoUser, userFullName |-> NoUser,
              isSubscribed |-> "No", bLoggedIn |-> FALSE]

-----------------------------------------------------------------------------
(* Helpers *)

\* HOWNDProgressIndicator.hideProgress: pop whatever is on top, provided the
\* remembered screen is still mounted and there is something to pop.
HideProgress(n) == IF Mounted(n, mcontext) THEN Pop(n, FALSE) ELSE n

\* (Mutant: only the first screen to show the spinner is remembered.)
ShowProgressOnce(n, page) ==
  /\ mcontext' = IF mcontext = NoPage THEN page ELSE mcontext
  /\ nav' = Push(n, "Spinner", NoPage)

\* HOWNDProgressIndicator.showProgress: the static context is overwritten
\* before the dialog is built.
ShowProgress(n, page) ==
  /\ mcontext' = page
  /\ nav' = Push(n, "Spinner", NoPage)

\* A handler touches its State's context after an await: null, hence an
\* exception that ends the handler, when the screen is gone.
Show(n, page, kind) == IF Mounted(n, page) THEN Push(n, kind, page) ELSE n

\* Navigator.push(context, Map()) by the handler in slot c, which then has
\* nothing more to do; the new Map's initState asks for a first load.
OpenMap(c, n, page) ==
  /\ nav' = Show(n, page, "Map")
  /\ calls' = [calls EXCEPT ![c] =
                 IF Mounted(n, page) THEN Waiting("open", FreshId(n)) ELSE Idle]

Ends(c)        == calls' = [calls EXCEPT ![c] = Idle]
Awaits(c, call) == calls' = [calls EXCEPT ![c] = call]
At(c, step)    == calls[c].step = step /\ nav.resume = << >>

\* What the page's globals become when somebody has signed in.  An empty
\* displayName leaves userFullName as it was.
SignedInAs(u, name, notice) ==
  [firUserId    |-> u,
   userFullName |-> IF name = NoUser THEN globals.userFullName ELSE name,
   isSubscribed |-> notice,
   bLoggedIn    |-> TRUE]

\* (Mutant: the name is assumed to be stored with the account.)
DisplayNameUnchecked(u) == u

DisplayName(u) == IF u # NoUser /\ profile[u] = "named" THEN u ELSE NoUser

\* (Mutant: the document is read without asking whether it exists.)
NoticeReadUnchecked(u, old) == {old, subs[u]}

\* The value isSubscribed can have after subscriptions/<u> was read: that of
\* the document, or the old one when there is none or the read failed.
NoticeRead(u, old) == {old} \cup ({subs[u]} \ {"none"})

\* Taps reach the app between handlers; a screen that was just pushed takes
\* them from its first frame on.
Ready == nav.resume = << >> /\ \A c \in Slots : calls[c].step # "open"

On(kind) == Ready /\ Top(nav).kind = kind /\ Len(nav.stack) < MaxRoutes

-----------------------------------------------------------------------------
(* Taps *)

\* A button whose handler only opens a page or a dialog.
Open(on, kind) ==
  /\ On(on)
  /\ nav' = Push(nav, kind, Top(nav).id)
  /\ Fits(nav')
  /\ UNCHANGED <<mcontext, calls, globals, server>>

OpenSignup == Open("Login", "Signup")
OpenForgot == Open("Login", "Forgot")
OpenFilter == Open("Map", "Filter")
OpenDrawer == Open("Map", "Drawer")

\* A validation of ProcessLogin, ProcessSignUp, ProcessResetPassword or
\* PublishEvent that fails shows a dialog and returns.
RejectForm == \E kind \in {"Login", "Signup", "Forgot", "Publish"} : Open(kind, "Dialog")

\* Pages that hold no state of the shell: privacy, resources, categories,
\* event details, the location picker, the photo sheet.
OpenInfo == \E kind \in {"Map", "Signup", "Publish", "Info"} : Open(kind, "Info")

\* An entry of the drawer closes it and opens its page.
DrawerInfo ==
  /\ On("Drawer")
  /\ nav' = Push(Pop(nav, FALSE), "Info", NoPage)
  /\ Fits(nav')
  /\ UNCHANGED <<mcontext, calls, globals, server>>

\* "Without register": the map as a guest.
EnterAsGuest ==
  /\ On("Login")
  /\ \E c \in Slots : calls[c] = Idle /\ OpenMap(c, nav, Top(nav).id)
  /\ Fits(nav')
  /\ UNCHANGED <<mcontext, globals, server>>

\* A form that is valid: the spinner goes up and the first call is sent.
Submit(on, step, user, sub) ==
  /\ On(on)
  /\ ShowProgress(nav, Top(nav).id)
  /\ \E c \in Slots :
       /\ calls[c] = Idle
       /\ Awaits(c, [Waiting(step, Top(nav).id) EXCEPT !.user = user, !.sub = sub])
  /\ Fits(nav')
  /\ UNCHANGED <<globals, server>>

SubmitLogin   == \E u \in Users : Submit("Login", "signIn", u, "No")
SubmitSignup  == \E u \in Users, s \in Notices : Submit("Signup", "create", u, s)
SubmitReset   == Submit("Forgot", "send", NoUser, "No")
SubmitPublish == Submit("Publish", "geocode", NoUser, "No")

\* LoadWeatherEvents on a page, by slot c.
Load(c, n, page) ==
  /\ ShowProgress(n, page)
  /\ Awaits(c, Waiting("query", page))

\* A category is chosen in the filter: the dialog closes, the map reloads.
SelectFilter ==
  /\ On("Filter")
  /\ \E c \in Slots : calls[c] = Idle /\ Load(c, Pop(nav, FALSE), Below(nav).id)
  /\ Fits(nav')
  /\ UNCHANGED <<globals, server>>

\* (Mutant: bLoggedIn is not asked.)
MayPublishUnchecked == TRUE

MayPublish == globals.bLoggedIn

\* The "+" button: the form for a member, the login page for a guest.
AddObservation ==
  /\ On("Map")
  /\ nav' = IF MayPublish THEN Push(nav, "Publish", Top(nav).id)
                           ELSE PushOverFirst(nav, "Login")
  /\ Fits(nav')
  /\ UNCHANGED <<mcontext, calls, globals, server>>

\* The last entry of the drawer, "Log in" for a guest ...
DrawerLogin ==
  /\ On("Drawer") /\ ~globals.bLoggedIn
  /\ nav' = PushOverFirst(Pop(nav, FALSE), "Login")
  /\ Fits(nav')
  /\ UNCHANGED <<mcontext, calls, globals, server>>

\* ... and "Log out" for a member.  The drawer stays open under the spinner.
DrawerLogout ==
  /\ On("Drawer") /\ globals.bLoggedIn
  /\ ShowProgress(nav, Below(nav).id)
  /\ \E c \in Slots : calls[c] = Idle /\ Awaits(c, Waiting("signOut", Below(nav).id))
  /\ Fits(nav')
  /\ UNCHANGED <<globals, server>>

\* (Mutant: a tap beside the spinner closes it.)
ClosedByTapEvenSpinner == {"Signup", "Publish", "Dialog", "Ack", "Spinner"}

\* A back arrow, an "OK", a tap beside a dialog, an edge swipe.
ClosedByTap == {"Signup", "Forgot", "Publish", "Info", "Drawer", "Filter",
                "Dialog", "Ack", "BadLocation", "Thanks"}

\* The back button also takes the spinner away, whose dialog only refuses
\* taps beside it.  On Map and Login it leaves the app: see Restart.
ClosedByBack == (ClosedByTap \ {"Drawer"}) \cup {"Spinner"}

Close(kinds) ==
  /\ Ready /\ Top(nav).kind \in kinds
  /\ Len(nav.stack) > 1
  /\ nav' = Pop(nav, FALSE)
  /\ UNCHANGED <<mcontext, calls, globals, server>>

GoBack          == Close(ClosedByTap)
PressSystemBack == SystemBack /\ Close(ClosedByBack)

-----------------------------------------------------------------------------
(* Answers to awaited calls *)

\* The first frame of a pushed Map runs initState; a Map that was popped
\* before it never loads.
FirstFrame(c) ==
  /\ At(c, "open")
  /\ IF calls[c].page \in StackIds(nav)
     THEN Load(c, nav, calls[c].page)
     ELSE Ends(c) /\ UNCHANGED <<nav, mcontext>>
  /\ Fits(nav')
  /\ UNCHANGED <<globals, server>>

\* (Mutant: hideProgress only when there are documents to show.)
QueryAnsweredNonempty(c) ==
  /\ At(c, "query")
  /\ nav' \in {HideProgress(nav), nav}
  /\ Ends(c)
  /\ UNCHANGED <<mcontext, globals, server>>

\* getDocuments answers.  ProcessEvents needs the context, so a nonempty
\* answer to a Map that is gone ends the handler before hideProgress; so does,
\* with Faults, a malformed document or a query that fails.
QueryAnswered(c) ==
  /\ At(c, "query")
  /\ \/ nav' = HideProgress(nav)
     \/ (Faults \/ ~Mounted(nav, calls[c].page)) /\ UNCHANGED nav
  /\ Ends(c)
  /\ UNCHANGED <<mcontext, globals, server>>

\* A PlatformException that the handler catches: spinner down, dialog up.
Rejected(c) ==
  /\ nav' = Show(HideProgress(nav), calls[c].page, "Dialog")
  /\ Ends(c)
  /\ Fits(nav')
  /\ UNCHANGED <<mcontext, globals>>

LoginFails(c) == At(c, "signIn") /\ Rejected(c) /\ UNCHANGED server

SignedIn(c) ==
  LET u == calls[c].user IN
  /\ At(c, "signIn") /\ profile[u] # "none"
  /\ auth' = u
  /\ Awaits(c, [calls[c] EXCEPT !.step = "readSub", !.name = DisplayName(u)])
  /\ UNCHANGED <<nav, mcontext, globals, profile, subs>>

LoginCompletes(c) ==
  LET call == calls[c] IN
  /\ At(c, "readSub")
  /\ \E notice \in NoticeRead(call.user, globals.isSubscribed) :
       globals' = SignedInAs(call.user, call.name, notice)
  /\ OpenMap(c, HideProgress(nav), call.page)
  /\ Fits(nav')
  /\ UNCHANGED <<mcontext, server>>

\* Registration is refused, or Firebase registers and its answer is lost.
SignupFails(c) ==
  LET u == calls[c].user IN
  /\ At(c, "create") /\ Rejected(c)
  /\ profile' \in {profile} \cup
       (IF profile[u] = "none" THEN {[profile EXCEPT ![u] = "unnamed"]} ELSE {})
  /\ UNCHANGED <<auth, subs>>

\* (Mutant: the subscription is written without waiting for updateProfile.)
CreatedHastily(c) ==
  LET u == calls[c].user IN
  /\ At(c, "create") /\ profile[u] = "none"
  /\ profile' = [profile EXCEPT ![u] = "unnamed"]
  /\ auth' = u
  /\ Awaits(c, [calls[c] EXCEPT !.step = "writeSub"])
  /\ UNCHANGED <<nav, mcontext, globals, subs>>

Created(c) ==
  LET u == calls[c].user IN
  /\ At(c, "create") /\ profile[u] = "none"
  /\ profile' = [profile EXCEPT ![u] = "unnamed"]
  /\ auth' = u
  /\ Awaits(c, [calls[c] EXCEPT !.step = "profile"])
  /\ UNCHANGED <<nav, mcontext, globals, subs>>

\* The FirebaseUser object the handler holds keeps its old displayName.
ProfileUpdated(c) ==
  /\ At(c, "profile")
  /\ profile' = [profile EXCEPT ![calls[c].user] = "named"]
  /\ Awaits(c, [calls[c] EXCEPT !.step = "writeSub"])
  /\ UNCHANGED <<nav, mcontext, globals, auth, subs>>

\* The subscription is stored, or storing it fails and is only printed; either
\* way the session starts and the success dialog opens.
SignupCompletes(c) ==
  LET call == calls[c] IN
  /\ At(c, "writeSub")
  /\ \/ /\ subs' = [subs EXCEPT ![call.user] = call.sub]
        /\ globals' = SignedInAs(call.user, call.name, call.sub)
     \/ /\ subs' = subs
        /\ globals' = SignedInAs(call.user, call.name, globals.isSubscribed)
  /\ nav' = Show(HideProgress(nav), call.page, "Ack")
  /\ Ends(c)
  /\ Fits(nav')
  /\ UNCHANGED <<mcontext, auth, profile>>

\* The reset mail was sent, or was not: a dialog either way.
ResetAnswered(c) == At(c, "send") /\ Rejected(c) /\ UNCHANGED server

\* FirebaseAuth forgets the user first; the app hears of it later.
AuthForgets(c) ==
  /\ At(c, "signOut")
  /\ auth' = NoUser
  /\ Awaits(c, [calls[c] EXCEPT !.step = "signedOut"])
  /\ UNCHANGED <<nav, mcontext, globals, profile, subs>>

\* (Mutants: logging out forgets to reset one of the globals.)
ForgetSessionButName   == [LoggedOut EXCEPT !.userFullName = globals.userFullName]
ForgetSessionButNotice == [LoggedOut EXCEPT !.isSubscribed = globals.isSubscribed]

\* The globals after a logout.
ForgetSession == LoggedOut

LogoutCompletes(c) ==
  LET n == HideProgress(nav) IN
  /\ At(c, "signedOut")
  /\ globals' = ForgetSession
  /\ nav' = IF Mounted(n, calls[c].page)
            THEN PushOverFirst(Pop(n, FALSE), "Login") ELSE n
  /\ Ends(c)
  /\ Fits(nav')
  /\ UNCHANGED <<mcontext, server>>

Located(c) ==
  /\ At(c, "geocode")
  /\ Awaits(c, [calls[c] EXCEPT !.step = "store"])
  /\ UNCHANGED <<nav, mcontext, globals, server>>

\* No such place: the error dialog opens over the spinner, which goes only
\* after the dialog is closed.
NotLocated(c) ==
  /\ At(c, "geocode")
  /\ nav' = Show(nav, calls[c].page, "BadLocation")
  /\ Ends(c)
  /\ Fits(nav')
  /\ UNCHANGED <<mcontext, globals, server>>

\* (Mutant: the thanks open before the spinner is taken down.)
PublishCompletesSpinning(c) ==
  /\ At(c, "store")
  /\ nav' = Show(nav, calls[c].page, "Thanks")
  /\ Ends(c)
  /\ Fits(nav')
  /\ UNCHANGED <<mcontext, globals, server>>

\* Images uploaded, record added or not: the handler thanks the user.
PublishCompletes(c) ==
  /\ At(c, "store")
  /\ nav' = Show(HideProgress(nav), calls[c].page, "Thanks")
  /\ Ends(c)
  /\ Fits(nav')
  /\ UNCHANGED <<mcontext, globals, server>>

\* A failure nothing catches (updateProfile, signOut, geocoding or an upload):
\* the handler ends where it is and the spinner stays.
Uncaught(c) ==
  /\ Faults /\ \E step \in {"profile", "signOut", "geocode", "store"} : At(c, step)
  /\ Ends(c)
  /\ UNCHANGED <<nav, mcontext, globals, server>>

-----------------------------------------------------------------------------
(* Microtasks: the code after an await on a route *)

Woken(kind) == nav.resume # << >> /\ Head(nav.resume).kind = kind
Resumed     == [nav EXCEPT !.resume = Tail(@)]
Opener      == Head(nav.resume).opener

\* The form returned true: the map reloads.
AfterPublish ==
  /\ Woken("Publish")
  /\ \E c \in Slots : calls[c] = Idle /\ Load(c, Resumed, Opener)
  /\ Fits(nav')
  /\ UNCHANGED <<globals, server>>

\* (Mutant: the success dialog leads back to the registration form.)
AfterAckStay ==
  /\ Woken("Ack")
  /\ nav' = Resumed
  /\ UNCHANGED <<mcontext, calls, globals, server>>

AfterAck ==
  /\ Woken("Ack")
  /\ \E c \in Slots : calls[c] = Idle /\ OpenMap(c, Resumed, Opener)
  /\ Fits(nav')
  /\ UNCHANGED <<mcontext, globals, server>>

\* (Mutant: the alert is believed to have closed the spinner, too.)
AfterBadLocationOnly ==
  /\ Woken("BadLocation")
  /\ nav' = Resumed
  /\ UNCHANGED <<mcontext, calls, globals, server>>

AfterBadLocation ==
  /\ Woken("BadLocation")
  /\ nav' = HideProgress(Resumed)
  /\ UNCHANGED <<mcontext, calls, globals, server>>

\* Navigator.pop(context, true): meant for the form, it pops what is on top.
AfterThanks ==
  /\ Woken("Thanks")
  /\ nav' = IF Mounted(nav, Opener) THEN Pop(Resumed, TRUE) ELSE Resumed
  /\ UNCHANGED <<mcontext, calls, globals, server>>

Resume == AfterPublish \/ AfterAck \/ AfterBadLocation \/ AfterThanks

-----------------------------------------------------------------------------
(* The framework and the phone *)

\* The exit animation of a screen ends: every reference to it is void.
Unmount ==
  \E i \in nav.leaving :
    /\ nav.resume = << >>
    /\ nav' = Unmounted(nav, i)
    /\ mcontext' = Forget(mcontext, i)
    /\ calls' = [c \in Slots |-> [calls[c] EXCEPT !.page = Forget(@, i)]]
    /\ UNCHANGED <<globals, server>>

\* main(): isLoggedIn, then the Map or the Login page.
Boot(notice) ==
  LET home == IF auth = NoUser THEN "Login" ELSE "Map" IN
  /\ nav' = Home(home)
  /\ mcontext' = NoPage
  /\ globals' = IF auth = NoUser THEN LoggedOut
                ELSE [firUserId    |-> auth,
                      userFullName |-> DisplayName(auth),
                      isSubscribed |-> notice,
                      bLoggedIn    |-> TRUE]
  /\ \E first \in Slots :
       calls' = [c \in Slots |->
                   IF home = "Map" /\ c = first
                   THEN Waiting("open", Top(Home(home)).id) ELSE Idle]

\* The app is closed or killed, at any moment, and started again.
Restart ==
  /\ \E notice \in IF auth = NoUser THEN {"No"} ELSE NoticeRead(auth, "No") :
       Boot(notice)
  /\ UNCHANGED server

-----------------------------------------------------------------------------
Tap == \/ OpenSignup \/ OpenForgot \/ OpenFilter \/ OpenDrawer \/ RejectForm
       \/ OpenInfo \/ DrawerInfo \/ EnterAsGuest
       \/ SubmitLogin \/ SubmitSignup \/ SubmitReset \/ SubmitPublish
       \/ SelectFilter \/ AddObservation \/ DrawerLogin \/ DrawerLogout
       \/ GoBack \/ PressSystemBack

Answer(c) == \/ FirstFrame(c) \/ QueryAnswered(c)
             \/ LoginFails(c) \/ SignedIn(c) \/ LoginCompletes(c)
             \/ SignupFails(c) \/ Created(c) \/ ProfileUpdated(c)
             \/ SignupCompletes(c) \/ ResetAnswered(c)
             \/ AuthForgets(c) \/ LogoutCompletes(c)
             \/ Located(c) \/ NotLocated(c) \/ PublishCompletes(c)
             \/ Uncaught(c)

\* A fresh install on a phone where nobody is signed in.
Init == /\ nav = Home("Login")
        /\ mcontext = NoPage
        /\ calls = [c \in Slots |-> Idle]
        /\ globals = LoggedOut
        /\ auth = NoUser
        /\ profile = [u \in Users |-> "none"]
        /\ subs = [u \in Users |-> "none"]

Next == \/ Tap
        \/ \E c \in Slots : Answer(c)
        \/ Resume
        \/ Unmount
        \/ Restart

Spec == Init /\ [][Next]_vars

\* Microtasks always run, and every call the app awaits is answered in the
\* end.  Nothing is assumed of the user.
Fairness == WF_vars(Resume) /\ WF_vars(Unmount) /\ \A c \in Slots : WF_vars(Answer(c))

FairSpec == Spec /\ Fairness

-----------------------------------------------------------------------------
TypeOK ==
  /\ NavOK(nav)
  /\ mcontext \in PageRef
  /\ calls \in [Slots -> Call]
  /\ globals \in Globals
  /\ auth \in Session
  /\ profile \in [Users -> {"none", "unnamed", "named"}]
  /\ subs \in [Users -> {"none", "Yes", "No"}]

-----------------------------------------------------------------------------
(* Properties of a phone without a back button (SystemBack = FALSE) *)

InFlight == {c \in Slots : calls[c].step \notin {"none", "open"}}
Spinners == {i \in DOMAIN nav.stack : nav.stack[i].kind = "Spinner"}

\* The spinner is the app's only lock: while a call is awaited the spinner
\* covers every control, so no second call is ever started beside it, and
\* hideProgress, which pops blindly, always pops the spinner.
SpinnerIsModal ==
  /\ InFlight # {} => Top(nav).kind = "Spinner" /\ nav.resume = << >>
  /\ \A c, d \in Slots : calls[c] # Idle /\ calls[d] # Idle => c = d
  /\ \A i, j \in Spinners : i = j

\* A spinner can be taken down: the static mcontext, which every screen
\* overwrites, is then a mounted screen, so canPop cannot silently refuse.
SpinnerHasItsScreen == Spinners # {} => Mounted(nav, mcontext)

\* When the thanks are closed, Navigator.pop(context, true) pops blindly too: it
\* must find the form that was sent on top, not a dialog, a spinner or a form
\* opened since, for the map behind it to hear "true" and reload.
ThanksCloseTheirForm ==
  nav.resume # << >> /\ Head(nav.resume).kind = "Thanks" =>
    Top(nav).kind = "Publish" /\ Top(nav).id = Head(nav.resume).opener

\* The globals describe one person: the one Firebase has signed in (or, while
\* signOut is being answered, had), under nobody else's name; and a guest
\* leaves no trace of an earlier session behind.
SessionCoherent ==
  IF globals.bLoggedIn
  THEN /\ globals.firUserId \in Users
       /\ globals.userFullName \in {NoUser, globals.firUserId}
       /\ \/ auth = globals.firUserId
          \/ \E c \in Slots : calls[c].step = "signedOut"
  ELSE globals = LoggedOut

\* isSubscribed says "Yes" only of a person whose document says so: neither a
\* missing document nor a failed read lets the previous person's answer stand.
ConsentRespected ==
  globals.isSubscribed = "Yes" => globals.bLoggedIn /\ subs[globals.firUserId] = "Yes"

\* The publication form is never open for a guest, not even under other pages.
FormNeedsSession ==
  (\E i \in DOMAIN nav.stack : nav.stack[i].kind = "Publish") => globals.bLoggedIn

\* Credentials are sent only by a phone nobody is signed in on: after a login
\* or a registration no route leads back to those forms.
CredentialsOnlyWhenSignedOut ==
  [][\A c \in Slots : calls[c].step = "none" /\ calls'[c].step \in {"signIn", "create"}
       => ~globals.bLoggedIn /\ auth = NoUser]_vars

\* Without uncaught failures (Faults = FALSE) no spinner is left behind: whoever
\* put it up is still to be answered, or waits for the "invalid location" alert
\* over it to be closed, and then takes it down.
SpinnerIsAwaited ==
  Spinners # {} =>
    \/ InFlight # {}
    \/ Top(nav).kind = "BadLocation"
    \/ nav.resume # << >> /\ Head(nav.resume).kind = "BadLocation"

\* Without uncaught failures, the spinner always comes down again.
SpinnerGoesAway == Top(nav).kind = "Spinner" ~> Top(nav).kind # "Spinner"

\* The full name of the form "will be published with your observations": once
\* an account has it, its session publishes under it.
RegisteredNameIsPublished ==
  globals.bLoggedIn /\ profile[globals.firUserId] = "named" =>
    globals.userFullName = globals.firUserId

-----------------------------------------------------------------------------
(* Why the spinner is modal: an inductive invariant (SystemBack = FALSE) *)

NoSpinner(n) == \A i \in DOMAIN n.stack : n.stack[i].kind # "Spinner"

\* Identities are those of screens, and no two mounted screens share one.
IdsApart(n) ==
  /\ \A i \in DOMAIN n.stack : n.stack[i].kind \notin Screens => n.stack[i].id = NoPage
  /\ \A i, j \in DOMAIN n.stack :
       n.stack[i].id = n.stack[j].id /\ n.stack[i].id # NoPage => i = j
  /\ \A i \in DOMAIN n.stack : n.stack[i].id \notin n.leaving

\* Where a route can be: the spinner on top, but for the "invalid location"
\* dialog; routes that return to their opener above it; the others right
\* above the page they belong to.
Placed(n, i) ==
  LET r == n.stack[i] IN
  /\ r.kind \in {"Publish", "Ack"} =>
       r.opener # NoPage /\ \E j \in 1 .. (i - 1) : n.stack[j].id = r.opener
  /\ r.kind \in {"Filter", "Drawer"} => i > 1 /\ n.stack[i - 1].kind = "Map"
  /\ r.kind = "Thanks" =>
       i > 1 /\ n.stack[i - 1].kind = "Publish" /\ n.stack[i - 1].id = r.opener
  /\ r.kind = "BadLocation" => i > 1 /\ n.stack[i - 1].kind = "Spinner"
  /\ r.kind = "Spinner" =>
       i = Len(n.stack) \/ (i = Len(n.stack) - 1 /\ Top(n).kind = "BadLocation")

\* What a continuation that is about to run finds.
ReadyToResume(n) ==
  n.resume # << >> =>
    /\ Len(n.resume) = 1
    /\ n.resume[1].kind \in {"Publish", "Ack"} => n.resume[1].opener \in StackIds(n)
    /\ n.resume[1].kind = "Thanks" =>
         Top(n).kind = "Publish" /\ Top(n).id = n.resume[1].opener
    /\ IF n.resume[1].kind = "BadLocation" THEN Top(n).kind = "Spinner" ELSE NoSpinner(n)

WellStacked(n) ==
  /\ IdsApart(n)
  /\ \A i \in DOMAIN n.stack : Placed(n, i)
  /\ ReadyToResume(n)

\* What a call finds when it is answered.
Locked(call) ==
  /\ nav.resume = << >>
  /\ Top(nav).kind = "Spinner"
  /\ call.page = mcontext /\ mcontext \in StackIds(nav)
  /\ call.step \in {"geocode", "store"} =>
       Below(nav).kind = "Publish" /\ Below(nav).id = call.page
  /\ call.step \in {"signOut", "signedOut"} => Below(nav).kind = "Drawer"

ModalInv ==
  /\ WellStacked(nav)
  /\ \A c, d \in Slots : calls[c] # Idle /\ calls[d] # Idle => c = d
  /\ \A c \in Slots :
       /\ calls[c].step = "none" => calls[c] = Idle
       /\ calls[c].step = "open" => nav.resume = << >> /\ NoSpinner(nav)
       /\ calls[c].step \notin {"none", "open"} => Locked(calls[c])
       /\ nav.resume # << >> => calls[c] = Idle

-----------------------------------------------------------------------------
(* Why the session is coherent: an inductive invariant (SystemBack = FALSE) *)

\* The pages on which credentials are typed or asked for, and a stack that has
\* a Map above each of them: taps never close a Map.
Entrances  == {"Login", "Signup", "Forgot"}
Covered(n) == \A i \in DOMAIN n.stack : n.stack[i].kind \in Entrances =>
                \E j \in DOMAIN n.stack : i < j /\ n.stack[j].kind = "Map"

\* The success dialog of a registration leads to such a Map.
AckPending(n) == IF n.resume = << >> THEN Top(n).kind = "Ack"
                                     ELSE Head(n.resume).kind = "Ack"

\* What Firebase and globals say while an account call is answered.
AccountCall(call) ==
  /\ call.step \in AccountSteps =>
       ~globals.bLoggedIn /\ call.name \in {NoUser, call.user}
  /\ call.step \in {"signIn", "create"} => auth = NoUser
  /\ call.step \in {"readSub", "profile", "writeSub"} => auth = call.user
  /\ call.step \in {"signOut", "signedOut"} => globals.bLoggedIn
  /\ call.step = "signedOut" => auth = NoUser
  /\ call.step = "open" /\ globals.bLoggedIn => Covered(nav)

\* Firebase knows somebody whom globals do not: a login or a registration is on
\* its way, or died under its spinner.
HalfSignedIn ==
  ~globals.bLoggedIn /\ auth # NoUser =>
    /\ Top(nav).kind = "Spinner" /\ nav.resume = << >>
    /\ \A c \in Slots : calls[c].step \in {"none", "readSub", "profile", "writeSub"}

SessionInv ==
  /\ SessionCoherent /\ ConsentRespected /\ FormNeedsSession
  /\ globals.bLoggedIn => Covered(nav) \/ AckPending(nav)
  /\ \A c \in Slots : AccountCall(calls[c])
  /\ HalfSignedIn

-----------------------------------------------------------------------------
(* Property of every phone *)

\* However logins, registrations and logouts overlap where a back button takes
\* the spinner from between them: whoever Firebase or globals take to be signed
\* in has an account, and a consent is only stored for an account that carries its
\* name, the step of the registration before.
OnlyRegistered ==
  /\ auth # NoUser => profile[auth] # "none"
  /\ globals.bLoggedIn => profile[globals.firUserId] # "none"
  /\ \A u \in Users : subs[u] # "none" => profile[u] = "named"

\* A name the app knows, and puts under observations, is one an account carries:
\* neither a login that overlaps a registration nor a refused registration leads
\* to another.
NamesAreStored ==
  globals.userFullName # NoUser => profile[globals.userFullName] = "named"

\* Why: a handler takes the name from a FirebaseUser that had it.
NamesInv ==
  /\ NamesAreStored
  /\ \A c \in Slots : calls[c].name # NoUser => profile[calls[c].name] = "named"

\* Why: an account is created before anything else is asked of it, a name comes
\* before a consent, and neither is ever taken back.
RegisteredCall(call) ==
  /\ call.step \in {"readSub", "profile", "writeSub"} => profile[call.user] # "none"
  /\ call.step = "writeSub" => profile[call.user] = "named"

AccountsInv ==
  /\ OnlyRegistered
  /\ globals.bLoggedIn => globals.firUserId \in Users
  /\ \A c \in Slots : RegisteredCall(calls[c])

-----------------------------------------------------------------------------
(* What the shell promises: one session after the other *)

AbstractSession == INSTANCE SessionSpec WITH
  user   <- globals.firUserId,
  notice <- globals.isSubscribed,
  wish   <- subs

ImplementsSession == AbstractSession!Spec
=============================================================================
