---------------------------- MODULE FloodUp_proofs ----------------------------
(***************************************************************************)
(* An observation is signed with its sender's name, for any number of      *)
(* accounts, photos, places and screens, on a phone without a back button. *)
(*                                                                         *)
(* Every step of the two components together is a step of the shell, so    *)
(* the shell's invariant holds here, too.  Its lock, at most one call and  *)
(* that under a spinner, keeps globals from changing between the tap on    *)
(* "publish" and the record.  The same lock makes the form the one that is *)
(* studied alone (FormHasItsLock).                                         *)
(***************************************************************************)
EXTENDS FloodUp, AppShell_session_proofs

\* The steps of PublishEvent.
PublishSteps == {"geocode", "store"}

\* Who presses "publish" is who is signed in until the record is added.
SignInv ==
  /\ sender \in Session
  /\ publishers \in Seq([sender : Session, session : Session, publisher : Session])
  /\ SignedByItsSender
  /\ \A c \in Slots : calls[c].step \in PublishSteps =>
       globals.bLoggedIn /\ sender = globals.firUserId

-----------------------------------------------------------------------------
(* The shell runs on its own *)

\* What a disjunct of AppNext does to the shell.
LEMMA ShellPart ==
  ASSUME AppNext
  PROVE  \/ UNCHANGED vars
         \/ SendForm /\ SubmitPublish
         \/ /\ ~SendForm
            /\ \/ AddObservation \/ GoBack \/ ElsewhereTap
               \/ \E c \in Slots : \/ Located(c) \/ NotLocated(c) \/ PublishCompletes(c)
                                   \/ Uncaught(c) \/ ElsewhereAnswer(c)
               \/ Resume \/ Unmount \/ Restart
BY DEF AppNext, EditForm, LateAnswer, OpenForm, LeaveForm, SendForm, AppAnswer, PlaceFound,
       PlaceNotFound, PhotoStored, RecordAnswered, UncaughtSomewhere, CloseBadPlace, CloseThanked,
       Elsewhere, RestartAll, Resume

\* Composition takes no step away from the shell's specification.
LEMMA StepsOfTheShell == [AppNext]_appVars => [Next]_vars
<1>1. ElsewhereTap => Tap
  BY DEF ElsewhereTap, Tap
<1>2. \A c \in Slots : ElsewhereAnswer(c) => Answer(c)
  BY DEF ElsewhereAnswer, Answer
<1>3. AddObservation \/ GoBack \/ SubmitPublish => Tap
  BY DEF Tap
<1>4. \A c \in Slots : Located(c) \/ NotLocated(c) \/ PublishCompletes(c) \/ Uncaught(c) => Answer(c)
  BY DEF Answer
<1>5. UNCHANGED appVars => UNCHANGED vars
  BY DEF appVars
<1>. QED BY <1>1, <1>2, <1>3, <1>4, <1>5, ShellPart DEF Next

LEMMA ShellRuns ==
  ASSUME SystemBack = FALSE
  PROVE  AppSpec => [](TypeOK /\ ModalInv /\ SessionInv)
<1>1. AppInit => Init
  BY DEF AppInit
<1>. QED BY <1>1, StepsOfTheShell, ShellInvariant, PTL DEF AppSpec, Spec

-----------------------------------------------------------------------------
(* Between the tap and the record *)

\* A start of the app leaves no run of PublishEvent.
LEMMA StartIsIdle ==
  ASSUME Restart, NEW c \in Slots
  PROVE  calls'[c].step \notin PublishSteps
<1>1. calls'[c] = Idle \/ \E page : calls'[c] = Waiting("open", page)
  BY DEF Restart, Boot
<1>2. \A page : Waiting("open", page).step = "open"
  BY DEF Waiting, Idle
<1>3. Idle.step = "none"
  BY DEF Idle
<1>. QED BY <1>1, <1>2, <1>3 DEF PublishSteps

\* Only the tap begins a run of PublishEvent; everything else finds it begun.
LEMMA OnlyTheTapPublishes ==
  ASSUME TypeOK, [AppNext]_appVars, ~SendForm,
         NEW c \in Slots, calls'[c].step \in PublishSteps
  PROVE  calls[c].step \in PublishSteps
<1> SUFFICES ASSUME calls[c].step \notin PublishSteps
             PROVE  FALSE
  OBVIOUS
<1>1. ASSUME NEW d \in Slots, NEW next, calls' = [calls EXCEPT ![d] = next],
             next.step \notin PublishSteps \/ calls[d].step \in PublishSteps
      PROVE  FALSE
  <2>1. calls'[c] = IF c = d THEN next ELSE calls[c]
    BY <1>1 DEF TypeOK
  <2>. QED BY <1>1, <2>1
<1>2. \A step, page, user, sub :
        /\ Waiting(step, page).step = step
        /\ [Waiting(step, page) EXCEPT !.user = user, !.sub = sub].step = step
  BY DEF Waiting, Idle
<1>3. Idle.step \notin PublishSteps
  BY DEF Idle, PublishSteps
<1>4. UNCHANGED calls => FALSE
  OBVIOUS
<1>5. \A d \in Slots : \A n, page : ~OpenMap(d, n, page)
  <2>1. "open" \notin PublishSteps
    BY DEF PublishSteps
  <2>. QED BY <1>1, <1>2, <1>3, <2>1 DEF OpenMap
<1>6. \A d \in Slots : \A n, page : ~Load(d, n, page)
  <2>1. "query" \notin PublishSteps
    BY DEF PublishSteps
  <2>. QED BY <1>1, <1>2, <2>1 DEF Load, Awaits
<1>7. \A d \in Slots : ~Ends(d)
  BY <1>1, <1>3 DEF Ends
<1>8. ASSUME NEW on, NEW step, NEW user, NEW sub, Submit(on, step, user, sub),
             step \notin PublishSteps
      PROVE  FALSE
  BY <1>1, <1>2, <1>8 DEF Submit, Awaits
<1>9. ~(ElsewhereTap \/ AddObservation \/ GoBack)
  <2>1. ~(SubmitLogin \/ SubmitSignup \/ SubmitReset)
    <3>1. {"signIn", "create", "send"} \cap PublishSteps = {}
      BY DEF PublishSteps
    <3>. QED BY <1>8, <3>1 DEF SubmitLogin, SubmitSignup, SubmitReset
  <2>2. ~DrawerLogout
    <3>1. "signOut" \notin PublishSteps
      BY DEF PublishSteps
    <3>. QED BY <1>1, <1>2, <3>1 DEF DrawerLogout, Awaits
  <2>3. ~(EnterAsGuest \/ SelectFilter)
    BY <1>5, <1>6 DEF EnterAsGuest, SelectFilter
  <2>4. \A on, kind : ~Open(on, kind)
    BY <1>4 DEF Open
  <2>5. ~(OpenSignup \/ OpenForgot \/ OpenFilter \/ OpenDrawer \/ OpenInfo \/ RejectForm)
    BY <2>4 DEF OpenSignup, OpenForgot, OpenFilter, OpenDrawer, OpenInfo, RejectForm
  <2>6. ~(DrawerInfo \/ DrawerLogin \/ AddObservation \/ GoBack)
    BY <1>4 DEF DrawerInfo, DrawerLogin, AddObservation, GoBack, Close
  <2>. QED BY <2>1, <2>2, <2>3, <2>5, <2>6 DEF ElsewhereTap
<1>10. ASSUME NEW d \in Slots, NEW step,
              step \notin PublishSteps \/ calls[d].step \in PublishSteps,
              \/ Awaits(d, [calls[d] EXCEPT !.step = step])
              \/ Awaits(d, [calls[d] EXCEPT !.step = step, !.name = DisplayName(calls[d].user)])
       PROVE  FALSE
  <2>1. calls[d] \in Call
    BY DEF TypeOK
  <2>2. PICK next : /\ calls' = [calls EXCEPT ![d] = next]
                    /\ \/ next = [calls[d] EXCEPT !.step = step]
                       \/ next = [calls[d] EXCEPT !.step = step,
                                                  !.name = DisplayName(calls[d].user)]
    BY <1>10 DEF Awaits
  <2>3. next.step = step
    BY <2>1, <2>2 DEF Call
  <2>. QED BY <1>1, <1>10, <2>2, <2>3
<1>11. ASSUME NEW d \in Slots, Located(d)
       PROVE  FALSE
  <2>1. calls[d].step \in PublishSteps
    BY <1>11 DEF Located, At, PublishSteps
  <2>2. PICK step : step = "store"
    OBVIOUS
  <2>3. Awaits(d, [calls[d] EXCEPT !.step = step])
    BY <1>11, <2>2 DEF Located
  <2>. QED BY <1>10, <2>1, <2>3
<1>12. ASSUME NEW d \in Slots,
              ElsewhereAnswer(d) \/ NotLocated(d) \/ PublishCompletes(d) \/ Uncaught(d)
       PROVE  FALSE
  <2>1. CASE \/ FirstFrame(d) \/ QueryAnswered(d) \/ LoginFails(d) \/ LoginCompletes(d)
             \/ SignupFails(d) \/ SignupCompletes(d) \/ ResetAnswered(d) \/ LogoutCompletes(d)
             \/ NotLocated(d) \/ PublishCompletes(d) \/ Uncaught(d)
    BY <1>5, <1>6, <1>7, <2>1
    DEF FirstFrame, QueryAnswered, LoginFails, LoginCompletes, SignupFails, SignupCompletes,
        ResetAnswered, LogoutCompletes, NotLocated, PublishCompletes, Uncaught, Rejected
  <2>2. CASE SignedIn(d)
    <3>1. PICK step : step = "readSub"
      OBVIOUS
    <3>2. Awaits(d, [calls[d] EXCEPT !.step = step, !.name = DisplayName(calls[d].user)])
      BY <2>2, <3>1 DEF SignedIn
    <3>3. step \notin PublishSteps
      BY <3>1 DEF PublishSteps
    <3>. QED BY <1>10, <3>2, <3>3
  <2>3. CASE Created(d) \/ ProfileUpdated(d) \/ AuthForgets(d)
    <3>1. PICK step \in {"profile", "writeSub", "signedOut"} :
            Awaits(d, [calls[d] EXCEPT !.step = step])
      BY <2>3 DEF Created, ProfileUpdated, AuthForgets
    <3>2. step \notin PublishSteps
      BY DEF PublishSteps
    <3>. QED BY <1>10, <3>1, <3>2
  <2>. QED BY <1>12, <2>1, <2>2, <2>3 DEF ElsewhereAnswer
<1>13. ~Resume
  BY <1>4, <1>5, <1>6 DEF Resume, AfterPublish, AfterAck, AfterBadLocation, AfterThanks
<1>14. ~Unmount
  <2>1. SUFFICES ASSUME Unmount PROVE FALSE
    OBVIOUS
  <2>2. \E page : calls'[c] = [calls[c] EXCEPT !.page = page]
    BY <2>1 DEF Unmount
  <2>3. calls[c] \in Call
    BY DEF TypeOK
  <2>. QED BY <2>2, <2>3 DEF Call
<1>15. ~Restart
  BY StartIsIdle
<1>16. UNCHANGED vars \/ UNCHANGED appVars => UNCHANGED calls
  BY DEF vars, appVars
<1>. QED BY <1>4, <1>9, <1>11, <1>12, <1>13, <1>14, <1>15, <1>16, ShellPart

\* While a call is in flight no other is answered, so the session stays.
LEMMA SessionStays ==
  ASSUME ModalInv, [AppNext]_appVars, NEW c \in Slots,
         calls[c].step \in PublishSteps, calls'[c].step \in PublishSteps
  PROVE  UNCHANGED globals
<1>1. [Next]_vars
  BY StepsOfTheShell
<1>2. ASSUME NEW d \in Slots, LoginCompletes(d) \/ SignupCompletes(d) \/ LogoutCompletes(d)
      PROVE  FALSE
  <2>1. calls[d].step \in {"readSub", "writeSub", "signedOut"}
    BY <1>2 DEF LoginCompletes, SignupCompletes, LogoutCompletes, At
  <2>2. calls[d] # Idle /\ calls[c] # Idle
    BY <2>1 DEF Idle, PublishSteps
  <2>3. c = d
    BY <2>2 DEF ModalInv
  <2>. QED BY <2>1, <2>3 DEF PublishSteps
<1>3. ~Restart
  BY StartIsIdle
<1>4. Resume \/ Unmount \/ UNCHANGED vars => UNCHANGED globals
  BY DEF Resume, AfterPublish, AfterAck, AfterBadLocation, AfterThanks, Unmount, vars
<1>. QED BY <1>1, <1>2, <1>3, <1>4, TapsLeaveSession, AnswersLeaveSession DEF Next

\* The history is written by two actions.
LEMMA Signing ==
  ASSUME [AppNext]_appVars
  PROVE  /\ SendForm => sender' = globals.firUserId
         /\ SendForm \/ sender' \in {sender, NoUser}
         /\ sender' = NoUser /\ sender # NoUser => SendForm \/ Restart
         /\ \/ publishers' = publishers
            \/ /\ publishers' = Append(publishers, Signature)
               /\ \E c \in Slots : calls[c].step = "store"
BY DEF AppNext, EditForm, LateAnswer, OpenForm, LeaveForm, SendForm, AppAnswer, PlaceFound,
       PlaceNotFound, PhotoStored, RecordAnswered, PublishCompletes, At, UncaughtSomewhere,
       CloseBadPlace, CloseThanked, Elsewhere, RestartAll, appVars, signVars

-----------------------------------------------------------------------------
(* The invariant *)

LEMMA SignInit == AppInit => SignInv
<1> SUFFICES ASSUME AppInit PROVE SignInv
  OBVIOUS
<1>1. \A c \in Slots : calls[c].step \notin PublishSteps
  BY DEF AppInit, Init, Idle, PublishSteps
<1>. QED BY <1>1 DEF AppInit, SignInv, SignedByItsSender, Session

LEMMA SignNext ==
  TypeOK /\ ModalInv /\ SessionInv /\ TypeOK' /\ SignInv /\ [AppNext]_appVars => SignInv'
<1> SUFFICES ASSUME TypeOK, ModalInv, SessionInv, TypeOK', SignInv, [AppNext]_appVars
             PROVE  SignInv'
  OBVIOUS
<1>1. globals.firUserId \in Session /\ globals.userFullName \in Session
  BY DEF TypeOK, Globals
<1>2. sender' \in Session
  BY <1>1, Signing DEF SignInv, Session
<1>3. /\ publishers' \in Seq([sender : Session, session : Session, publisher : Session])
      /\ SignedByItsSender'
  <2>1. CASE publishers' = publishers
    BY <2>1 DEF SignInv, SignedByItsSender
  <2>2. CASE publishers' # publishers
    <3>1. PICK c \in Slots : calls[c].step = "store"
      BY <2>2, Signing
    <3>2. globals.bLoggedIn /\ sender = globals.firUserId
      BY <3>1 DEF SignInv, PublishSteps
    <3>3. sender \in Users /\ globals.userFullName \in {NoUser, sender}
      BY <3>2 DEF SessionInv, SessionCoherent
    <3>4. PICK s : s = Signature
      OBVIOUS
    <3>5. /\ s.sender # NoUser /\ s.session = s.sender /\ s.publisher \in {NoUser, s.sender}
          /\ s \in [sender : Session, session : Session, publisher : Session]
      BY <1>1, <3>2, <3>3, <3>4, ShellAssumption DEF Signature, Session
    <3>6. publishers' = Append(publishers, s)
      BY <2>2, <3>4, Signing
    <3>. QED BY <3>5, <3>6 DEF SignInv, SignedByItsSender
  <2>. QED BY <2>1, <2>2
<1>4. ASSUME NEW c \in Slots, calls'[c].step \in PublishSteps
      PROVE  globals'.bLoggedIn /\ sender' = globals'.firUserId
  <2>1. CASE SendForm
    <3>1. SubmitPublish
      BY <2>1 DEF SendForm
    <3>2. Top(nav).kind = "Publish" /\ UNCHANGED globals
      BY <3>1 DEF SubmitPublish, Submit, On
    <3>3. Len(nav.stack) \in DOMAIN nav.stack
      BY DEF TypeOK, NavOK, NavState
    <3>4. globals.bLoggedIn
      BY <3>2, <3>3 DEF SessionInv, FormNeedsSession, Top
    <3>. QED BY <2>1, <3>2, <3>4 DEF SendForm
  <2>2. CASE ~SendForm
    <3>1. calls[c].step \in PublishSteps
      BY <1>4, <2>2, OnlyTheTapPublishes
    <3>2. UNCHANGED globals
      BY <1>4, <3>1, SessionStays
    <3>3. globals.bLoggedIn /\ sender = globals.firUserId
      BY <3>1 DEF SignInv
    <3>4. sender # NoUser
      BY <3>3, ShellAssumption DEF SessionInv, SessionCoherent
    <3>5. ~Restart
      BY <1>4, StartIsIdle
    <3>6. sender' = sender
      BY <2>2, <3>4, <3>5, Signing
    <3>. QED BY <3>2, <3>3, <3>6
  <2>. QED BY <2>1, <2>2
<1>. QED BY <1>2, <1>3, <1>4 DEF SignInv

-----------------------------------------------------------------------------
\* Whoever logs in, out or in again, whatever fails and whenever the app is
\* killed: publish.dart, which reads globals.userFullName only when it writes the
\* record, writes there the name of the person who pressed "publish", or none
\* where that person's session has none; never the name of anybody else.
THEOREM RecordsAreSignedByTheirSender ==
  ASSUME SystemBack = FALSE
  PROVE  AppSpec => []SignedByItsSender
<1>1. TypeOK /\ ModalInv /\ SessionInv /\ TypeOK' /\ SignInv /\ [AppNext]_appVars => SignInv'
  BY SignNext
<1>2. SignInv => SignedByItsSender
  BY DEF SignInv
<1>. QED BY <1>1, <1>2, SignInit, ShellRuns, PTL DEF AppSpec

-----------------------------------------------------------------------------
(* The form on the stack *)

LEMMA BareStack == ASSUME NEW n, NoForm(n) PROVE FormOnTop(n)
BY DEF NoForm, FormOnTop

\* A push leaves forms alone, and may put a screen on a stack without one.
LEMMA PushedForm ==
  ASSUME NEW n, NavOK(n), FormOnTop(n), NEW kind \in Kinds, NEW opener \in PageRef,
         n.resume = << >>, kind \in Screens \cup {"Ack"} => NoForm(n)
  PROVE  LET m == Push(n, kind, opener) IN
         /\ FormOnTop(m) /\ m.resume = << >>
         /\ kind # "Publish" => (NoForm(m) <=> NoForm(n))
<1> DEFINE k == Len(n.stack)
           m == Push(n, kind, opener)
<1>1. k \in Nat /\ DOMAIN n.stack = 1 .. k
  BY NonEmpty DEF NavOK, NavState
<1>2. /\ DOMAIN m.stack = 1 .. (k + 1)
      /\ \A i \in 1 .. k : m.stack[i] = n.stack[i]
      /\ m.stack[k + 1].kind = kind /\ m.resume = << >>
  BY PushFacts
<1> HIDE DEF m, k
<1>3. \A i \in DOMAIN m.stack : i \in DOMAIN n.stack \/ i = k + 1
  BY <1>1, <1>2
<1>4. \A i \in DOMAIN n.stack : i \in DOMAIN m.stack /\ m.stack[i] = n.stack[i]
  BY <1>1, <1>2
<1>5. kind # "Publish" => (NoForm(m) <=> NoForm(n))
  BY <1>2, <1>3, <1>4 DEF NoForm
<1>6. ASSUME NEW i \in DOMAIN m.stack, NEW j \in DOMAIN m.stack,
             m.stack[i].kind = "Publish", i < j
      PROVE  m.stack[j].kind \notin Screens \cup {"Ack"}
  <2>1. i \in DOMAIN n.stack
    BY <1>1, <1>2, <1>6
  <2>2. n.stack[i].kind = "Publish"
    BY <1>4, <1>6, <2>1
  <2>3. CASE j \in DOMAIN n.stack
    BY <1>4, <1>6, <2>1, <2>2, <2>3 DEF FormOnTop
  <2>4. CASE j = k + 1
    BY <1>2, <2>1, <2>2, <2>4 DEF NoForm
  <2>. QED BY <1>3, <2>3, <2>4
<1>7. FormOnTop(m)
  BY <1>2, <1>6 DEF FormOnTop
<1>. QED BY <1>2, <1>5, <1>7 DEF m

\* A pop takes a form away only if it is on top, and then it was the only one.
LEMMA PoppedForm ==
  ASSUME NEW n, NavOK(n), FormOnTop(n), n.resume = << >>, NEW result \in BOOLEAN
  PROVE  LET m == Pop(n, result) IN
         /\ FormOnTop(m)
         /\ Top(n).kind # "Publish" => (NoForm(m) <=> NoForm(n))
         /\ Top(n).kind = "Publish" /\ Len(n.stack) > 1 => NoForm(m)
<1> DEFINE k == Len(n.stack)
           m == Pop(n, result)
<1>1. k \in Nat \ {0} /\ DOMAIN n.stack = 1 .. k /\ Top(n) = n.stack[k]
  BY NonEmpty DEF NavOK, NavState, Top
<1>2. CASE k <= 1
  BY <1>1, <1>2 DEF Pop
<1>3. CASE k > 1
  <2>1. /\ DOMAIN m.stack = 1 .. (k - 1)
        /\ \A i \in 1 .. (k - 1) : m.stack[i] = n.stack[i]
        /\ m.resume = IF Wakes(Top(n), result)
                      THEN Append(n.resume, [kind |-> Top(n).kind, opener |-> Top(n).opener])
                      ELSE n.resume
    BY <1>3, PopFacts
  <2>2. m.resume # << >> => Head(m.resume).kind = Top(n).kind
    <3>1. Append(<< >>, [kind |-> Top(n).kind, opener |-> Top(n).opener])
            = << [kind |-> Top(n).kind, opener |-> Top(n).opener] >>
      OBVIOUS
    <3>. QED BY <2>1, <3>1
  <2> HIDE DEF m, k
  <2>3. /\ \A i \in DOMAIN m.stack : i \in DOMAIN n.stack /\ m.stack[i] = n.stack[i] /\ i < k
        /\ \A i \in DOMAIN n.stack : i \in DOMAIN m.stack \/ i = k
        /\ k \in DOMAIN n.stack
    BY <1>1, <1>3, <2>1
  <2>4. Top(n).kind # "Publish" => (NoForm(m) <=> NoForm(n))
    BY <1>1, <2>3 DEF NoForm
  <2>5. Top(n).kind \in Screens \cup {"Ack"} => NoForm(m)
    BY <1>1, <2>3 DEF NoForm, FormOnTop
  <2>6. FormOnTop(m)
    <3>1. m.resume # << >> /\ Head(m.resume).kind = "Ack" => NoForm(m)
      BY <2>2, <2>5
    <3>2. \A i, j \in DOMAIN m.stack :
            m.stack[i].kind = "Publish" /\ i < j => m.stack[j].kind \notin Screens \cup {"Ack"}
      BY <2>3 DEF FormOnTop
    <3>. QED BY <3>1, <3>2 DEF FormOnTop, NoForm
  <2>7. Top(n).kind = "Publish" => NoForm(m)
    BY <2>5 DEF Screens
  <2>. QED BY <2>4, <2>6, <2>7 DEF m
<1>. QED BY <1>1, <1>2, <1>3

LEMMA UnmountedForm ==
  ASSUME NEW n, NavOK(n), FormOnTop(n), NEW x
  PROVE  LET m == Unmounted(n, x) IN
         /\ FormOnTop(m) /\ (NoForm(m) <=> NoForm(n))
         /\ m.resume = n.resume /\ Top(m).kind = Top(n).kind
         /\ NoSpinner(m) <=> NoSpinner(n)
<1> DEFINE m == Unmounted(n, x)
<1>1. n.stack \in Seq(Route) /\ DOMAIN n.stack = 1 .. Len(n.stack) /\ Len(n.stack) \in Nat \ {0}
  BY NonEmpty DEF NavOK, NavState
<1>2. \A i \in DOMAIN n.stack : n.stack[i] \in Route
  BY <1>1, NonEmpty
<1>3. /\ m.stack = [i \in DOMAIN n.stack |-> [n.stack[i] EXCEPT !.opener = Forget(@, x)]]
      /\ m.resume = n.resume
  BY DEF Unmounted, NavOK, NavState
<1>4. DOMAIN m.stack = DOMAIN n.stack /\ \A i \in DOMAIN n.stack : m.stack[i].kind = n.stack[i].kind
  BY <1>2, <1>3 DEF Route
<1>5. Len(m.stack) = Len(n.stack) /\ Len(n.stack) \in DOMAIN n.stack
  BY <1>1, <1>3
<1> HIDE DEF m
<1>6. (NoForm(m) <=> NoForm(n)) /\ (NoSpinner(m) <=> NoSpinner(n))
  BY <1>4 DEF NoForm, NoSpinner
<1>7. FormOnTop(m)
  <2>1. ASSUME NEW i \in DOMAIN m.stack, NEW j \in DOMAIN m.stack,
               m.stack[i].kind = "Publish", i < j
        PROVE  m.stack[j].kind \notin Screens \cup {"Ack"}
    <3>1. /\ i \in DOMAIN n.stack /\ n.stack[i].kind = "Publish"
          /\ j \in DOMAIN n.stack /\ n.stack[j].kind = m.stack[j].kind
      BY <1>4, <2>1
    <3>. QED BY <2>1, <3>1 DEF FormOnTop
  <2>2. m.resume # << >> /\ Head(m.resume).kind = "Ack" => NoForm(m)
    BY <1>3, <1>6 DEF FormOnTop, NoForm
  <2>. QED BY <2>1, <2>2 DEF FormOnTop, NoForm
<1>8. Top(m).kind = Top(n).kind
  BY <1>4, <1>5 DEF Top
<1>. QED BY <1>3, <1>6, <1>7, <1>8 DEF m

\* A guest has no form, and on a page with credentials there are only guests.
LEMMA GuestsHaveNone ==
  ASSUME TypeOK, SessionInv
  PROVE  /\ ~globals.bLoggedIn => NoForm(nav)
         /\ nav.resume = << >> /\ Top(nav).kind \in Entrances => NoForm(nav)
BY EntranceIsForGuests, StackOfSession DEF StackFits

\* The drawer is that of a map, and no map lies over a form.
LEMMA NoFormUnderDrawer ==
  ASSUME NEW n, NavOK(n), WellStacked(n), FormOnTop(n), Top(n).kind = "Drawer"
  PROVE  NoForm(n)
<1> DEFINE k == Len(n.stack)
<1>1. k \in Nat \ {0} /\ DOMAIN n.stack = 1 .. k /\ Top(n) = n.stack[k]
  BY NonEmpty DEF NavOK, NavState, Top
<1>2. k > 1 /\ n.stack[k - 1].kind = "Map"
  BY MapBelow DEF Below
<1>3. ASSUME NEW i \in DOMAIN n.stack, n.stack[i].kind = "Publish"
      PROVE  FALSE
  <2>1. i # k /\ i # k - 1
    BY <1>1, <1>2, <1>3
  <2>2. i < k - 1 /\ k - 1 \in DOMAIN n.stack
    BY <1>1, <1>2, <2>1
  <2>. QED BY <1>2, <1>3, <2>2 DEF FormOnTop, Screens
<1>. QED BY <1>3 DEF NoForm

-----------------------------------------------------------------------------
(* What happens elsewhere opens and closes no form *)

KeepsForm == FormOnTop(nav)' /\ (NoForm(nav)' <=> NoForm(nav))

LEMMA ElsewhereTaps ==
  ASSUME TypeOK, TypeOK', ModalInv, SessionInv, FormOnTop(nav), ElsewhereTap
  PROVE  KeepsForm
<1>0. NavOK(nav) /\ WellStacked(nav) /\ Top(nav).id \in PageRef
  BY TopFacts DEF TypeOK, ModalInv
<1>1. ASSUME NEW on, NEW kind \in Kinds \ {"Publish"}, Open(on, kind),
             kind \in Screens \cup {"Ack"} => on \in Entrances
      PROVE  KeepsForm
  <2>1. nav.resume = << >> /\ Top(nav).kind = on /\ nav' = Push(nav, kind, Top(nav).id)
    BY <1>1 DEF Open, On, Ready
  <2>2. kind \in Screens \cup {"Ack"} => NoForm(nav)
    BY <1>1, <2>1, GuestsHaveNone
  <2>. QED BY <1>0, <1>1, <2>1, <2>2, PushedForm DEF KeepsForm
<1>2. ASSUME NEW n, NavOK(n), FormOnTop(n), n.resume = << >>, NoForm(n) <=> NoForm(nav),
             NEW kind \in {"Spinner", "Info"}, nav' = Push(n, kind, NoPage)
      PROVE  KeepsForm
  <2>1. kind \in Kinds /\ NoPage \in PageRef /\ kind \notin Screens \cup {"Ack"} /\ kind # "Publish"
    BY DEF Kinds, PageRef, Screens
  <2>. QED BY <1>2, <2>1, PushedForm DEF KeepsForm
<1>3. ASSUME Ready, Top(nav).kind \in {"Drawer", "Filter"}
      PROVE  LET n == Pop(nav, FALSE) IN
             /\ NavOK(n) /\ WellStacked(n) /\ n.resume = << >>
             /\ FormOnTop(n) /\ (NoForm(n) <=> NoForm(nav))
  <2>1. nav.resume = << >> /\ NoSpinner(nav)
    BY <1>3, TapsFindIdle
  <2>2. /\ FormOnTop(Pop(nav, FALSE))
        /\ Top(nav).kind # "Publish" => (NoForm(Pop(nav, FALSE)) <=> NoForm(nav))
    BY <1>0, <2>1, PoppedForm
  <2>. QED BY <1>0, <1>3, <2>1, <2>2, OverlayCloses
<1>4. ASSUME NEW n, NavOK(n), WellStacked(n), nav' = PushOverFirst(n, "Login"),
             ~globals.bLoggedIn
      PROVE  KeepsForm
  BY <1>4, FirstIsNoForm, GuestsHaveNone, BareStack DEF KeepsForm
<1>5. CASE OpenSignup \/ OpenForgot \/ OpenFilter \/ OpenDrawer \/ OpenInfo \/ RejectForm
  BY <1>1, <1>5
  DEF OpenSignup, OpenForgot, OpenFilter, OpenDrawer, OpenInfo, RejectForm, Kinds, Screens, Entrances
<1>6. CASE SubmitLogin \/ SubmitSignup \/ SubmitReset \/ DrawerLogout
  <2>1. nav' = Push(nav, "Spinner", NoPage) /\ nav.resume = << >>
    BY <1>6 DEF SubmitLogin, SubmitSignup, SubmitReset, DrawerLogout, Submit, ShowProgress, On, Ready
  <2>. QED BY <1>0, <1>2, <2>1
<1>7. CASE EnterAsGuest
  <2>1. /\ nav.resume = << >> /\ Top(nav).kind = "Login"
        /\ nav' = nav \/ nav' = Push(nav, "Map", Top(nav).id)
    BY <1>7 DEF EnterAsGuest, On, Ready, OpenMap, Show
  <2>2. NoForm(nav)
    BY <2>1, GuestsHaveNone DEF Entrances
  <2>3. nav' = Push(nav, "Map", Top(nav).id) => KeepsForm
    BY <1>0, <2>1, <2>2, PushedForm DEF KeepsForm, Kinds, Screens
  <2>. QED BY <2>1, <2>3 DEF KeepsForm
<1>8. CASE DrawerInfo \/ SelectFilter
  <2>1. /\ Ready /\ Top(nav).kind \in {"Drawer", "Filter"}
        /\ \E kind \in {"Spinner", "Info"} : nav' = Push(Pop(nav, FALSE), kind, NoPage)
    BY <1>8 DEF DrawerInfo, SelectFilter, Load, ShowProgress, On
  <2>. QED BY <1>2, <1>3, <2>1
<1>9. CASE DrawerLogin
  <2>1. /\ Ready /\ Top(nav).kind = "Drawer" /\ ~globals.bLoggedIn
        /\ nav' = PushOverFirst(Pop(nav, FALSE), "Login")
    BY <1>9 DEF DrawerLogin, On
  <2>. QED BY <1>3, <1>4, <2>1
<1>10. CASE ~MayPublish /\ AddObservation
  <2>1. nav' = PushOverFirst(nav, "Login") /\ ~globals.bLoggedIn
    BY <1>10 DEF AddObservation, MayPublish
  <2>. QED BY <1>0, <1>4, <2>1
<1>11. CASE Top(nav).kind # "Publish" /\ GoBack
  <2>1. nav' = Pop(nav, FALSE) /\ nav.resume = << >>
    BY <1>11 DEF GoBack, Close, Ready
  <2>. QED BY <1>0, <1>11, <2>1, PoppedForm DEF KeepsForm
<1>. QED
  BY <1>5, <1>6, <1>7, <1>8, <1>9, <1>10, <1>11 DEF ElsewhereTap

LEMMA ElsewhereAnswers ==
  ASSUME TypeOK, TypeOK', ModalInv, SessionInv, FormOnTop(nav),
         NEW c \in Slots, ElsewhereAnswer(c)
  PROVE  KeepsForm
<1> DEFINE h == HideProgress(nav)
<1>0. NavOK(nav) /\ WellStacked(nav) /\ (UNCHANGED nav => KeepsForm)
  BY DEF TypeOK, ModalInv, KeepsForm
<1>1. ASSUME calls[c].step \notin {"none", "open"}
      PROVE  /\ NavOK(h) /\ WellStacked(h) /\ h.resume = << >> /\ calls[c].page \in PageRef
             /\ Locked(calls[c]) /\ Top(h) = Below(nav)
             /\ FormOnTop(h) /\ (NoForm(h) <=> NoForm(nav))
             /\ ~globals.bLoggedIn => NoForm(h)
             /\ calls[c].step \in AccountSteps => ~globals.bLoggedIn
  <2>1. /\ Locked(calls[c]) /\ AccountCall(calls[c]) /\ Top(nav).kind = "Spinner"
        /\ NavOK(h) /\ WellStacked(h) /\ h.resume = << >> /\ Top(h) = Below(nav)
        /\ calls[c].page \in PageRef /\ (~globals.bLoggedIn => NoForm(h))
    BY <1>1, AnswerFinds
  <2>2. h = Pop(nav, FALSE) /\ nav.resume = << >>
    BY <2>1 DEF HideProgress, Locked, Mounted
  <2>3. FormOnTop(h) /\ (NoForm(h) <=> NoForm(nav))
    BY <1>0, <2>1, <2>2, PoppedForm
  <2>. QED BY <2>1, <2>3 DEF AccountCall
<1> HIDE DEF h
<1>2. ASSUME calls[c].step \notin {"none", "open"},
             NEW kind \in {"Dialog", "Ack", "Map"}, nav' = Show(h, calls[c].page, kind),
             kind \in {"Ack", "Map"} => calls[c].step \in AccountSteps
      PROVE  KeepsForm
  <2>1. kind \in Kinds /\ kind # "Publish" /\ (kind \in Screens \cup {"Ack"} => NoForm(h))
    BY <1>1, <1>2 DEF Kinds, Screens, Awaited
  <2>2. nav' = h \/ nav' = Push(h, kind, calls[c].page)
    BY <1>2 DEF Show
  <2>. QED BY <1>1, <1>2, <2>1, <2>2, PushedForm DEF KeepsForm
<1>3. CASE FirstFrame(c)
  <2>1. nav.resume = << >> /\ (UNCHANGED nav \/ nav' = Push(nav, "Spinner", NoPage))
    BY <1>3 DEF FirstFrame, At, Load, ShowProgress
  <2>2. "Spinner" \in Kinds /\ NoPage \in PageRef /\ "Spinner" \notin Screens \cup {"Ack"}
    BY DEF Kinds, PageRef, Screens
  <2>. QED BY <1>0, <2>1, <2>2, PushedForm DEF KeepsForm
<1>4. CASE QueryAnswered(c)
  <2>1. UNCHANGED nav \/ (nav' = h /\ calls[c].step = "query")
    BY <1>4 DEF QueryAnswered, At, h
  <2>. QED BY <1>0, <1>1, <2>1 DEF KeepsForm
<1>5. CASE LoginFails(c) \/ SignupFails(c) \/ ResetAnswered(c)
  <2>1. calls[c].step \notin {"none", "open"} /\ nav' = Show(h, calls[c].page, "Dialog")
    BY <1>5 DEF LoginFails, SignupFails, ResetAnswered, Rejected, At, h
  <2>. QED BY <1>2, <2>1
<1>6. CASE LoginCompletes(c)
  <2>1. calls[c].step = "readSub" /\ nav' = Show(h, calls[c].page, "Map")
    BY <1>6 DEF LoginCompletes, OpenMap, At, h
  <2>. QED BY <1>2, <2>1 DEF AccountSteps
<1>7. CASE SignupCompletes(c)
  <2>1. calls[c].step = "writeSub" /\ nav' = Show(h, calls[c].page, "Ack")
    BY <1>7 DEF SignupCompletes, At, h
  <2>. QED BY <1>2, <2>1 DEF AccountSteps
<1>8. CASE LogoutCompletes(c)
  <2>1. /\ calls[c].step = "signedOut"
        /\ nav' = PushOverFirst(Pop(h, FALSE), "Login") \/ nav' = h
    BY <1>8 DEF LogoutCompletes, At, h
  <2>2. Top(h).kind = "Drawer" /\ NoSpinner(h)
    BY <1>1, <2>1, AnswerFinds DEF Locked, h
  <2>3. NoForm(h)
    BY <1>1, <2>1, <2>2, NoFormUnderDrawer
  <2>4. NavOK(Pop(h, FALSE)) /\ WellStacked(Pop(h, FALSE))
    BY <1>1, <2>1, <2>2, OverlayCloses
  <2>5. nav' = PushOverFirst(Pop(h, FALSE), "Login") => NoForm(nav')
    BY <2>4, FirstIsNoForm
  <2>. QED BY <1>1, <2>1, <2>3, <2>5, BareStack DEF KeepsForm
<1>9. CASE SignedIn(c) \/ Created(c) \/ ProfileUpdated(c) \/ AuthForgets(c)
  BY <1>0, <1>9 DEF SignedIn, Created, ProfileUpdated, AuthForgets
<1>. QED
  BY <1>3, <1>4, <1>5, <1>6, <1>7, <1>8, <1>9 DEF ElsewhereAnswer

LEMMA ResumedForm ==
  ASSUME TypeOK, ModalInv, FormOnTop(nav), nav.resume # << >>
  PROVE  /\ NavOK(Resumed) /\ FormOnTop(Resumed) /\ Resumed.resume = << >>
         /\ Resumed.stack = nav.stack /\ Opener \in PageRef
         /\ nav.resume = << Head(nav.resume) >>
<1>1. /\ nav.resume \in Seq(Continuation) /\ Len(nav.resume) = 1
      /\ nav \in NavState
  BY DEF TypeOK, NavOK, NavState, ModalInv, WellStacked, ReadyToResume
<1>2. Tail(nav.resume) = << >> /\ Head(nav.resume) = nav.resume[1] /\ nav.resume[1] \in Continuation
  BY <1>1, Singleton
<1>3. Resumed.resume = << >> /\ Resumed.stack = nav.stack /\ Resumed.leaving = nav.leaving
  BY <1>1, <1>2 DEF Resumed, NavState
<1>4. Resumed \in NavState
  BY <1>1, <1>2 DEF Resumed, NavState
<1>5. NavOK(Resumed)
  BY <1>3, <1>4 DEF TypeOK, NavOK, Fits
<1>6. FormOnTop(Resumed)
  BY <1>3 DEF FormOnTop
<1>7. Opener \in PageRef
  BY <1>2 DEF Opener, Continuation
<1>8. nav.resume = << Head(nav.resume) >>
  BY <1>1, <1>2
<1>. QED BY <1>3, <1>5, <1>6, <1>7, <1>8

LEMMA ElsewhereKeeps ==
  ASSUME TypeOK, TypeOK', ModalInv, SessionInv, FormOnTop(nav), Elsewhere
  PROVE  KeepsForm
<1>1. ASSUME nav.resume # << >>
      PROVE  NoForm(Resumed) <=> NoForm(nav)
  BY <1>1, ResumedForm DEF NoForm
<1>2. CASE AfterPublish
  <2>1. nav.resume # << >> /\ nav' = Push(Resumed, "Spinner", NoPage)
    BY <1>2 DEF AfterPublish, Woken, Load, ShowProgress
  <2>2. "Spinner" \in Kinds /\ NoPage \in PageRef /\ "Spinner" \notin Screens \cup {"Ack"}
    BY DEF Kinds, PageRef, Screens
  <2>. QED BY <1>1, <2>1, <2>2, ResumedForm, PushedForm DEF KeepsForm
<1>3. CASE AfterAck
  <2>1. /\ nav.resume # << >> /\ Head(nav.resume).kind = "Ack"
        /\ nav' = Resumed \/ nav' = Push(Resumed, "Map", Opener)
    BY <1>3 DEF AfterAck, Woken, OpenMap, Show
  <2>2. NoForm(nav)
    BY <2>1 DEF FormOnTop, NoForm
  <2>3. "Map" \in Kinds
    BY DEF Kinds, Screens
  <2>. QED BY <1>1, <2>1, <2>2, <2>3, ResumedForm, PushedForm DEF KeepsForm
<1>4. CASE Unmount
  <2>1. \E i : nav' = Unmounted(nav, i)
    BY <1>4 DEF Unmount
  <2>. QED BY <2>1, UnmountedForm DEF KeepsForm, TypeOK
<1>. QED
  BY <1>2, <1>3, <1>4, ElsewhereTaps, ElsewhereAnswers DEF Elsewhere

-----------------------------------------------------------------------------
(* The invariant of the form's lock *)

LEMMA QuietForm ==
  ASSUME TypeOK, ModalInv, FormLockInv, Ready,
         Top(nav).kind \notin {"Spinner", "BadLocation", "Thanks"}
  PROVE  \A c \in Slots : runs[c] = FreeForm!Idle
<1>1. /\ \A c \in Slots : calls[c] = Idle
      /\ nav.resume = << >> /\ NoSpinner(nav)
  BY TapsFindIdle
<1>2. Idle.step \notin {"geocode", "store"}
  BY DEF Idle
<1>3. \A c \in Slots : ~RunIsCall(c)
  BY <1>1, <1>2 DEF RunIsCall, ThanksAreOpen
<1>. QED BY <1>3 DEF FormLockInv

LEMMA AllQuiet ==
  ASSUME FormOnTop(nav)', runs' = [c \in Slots |-> runs'[c]],
         \A c \in Slots : runs'[c] = FreeForm!Idle
  PROVE  FormLockInv'
BY DEF FormLockInv, FreeForm!Idle

\* Only run c goes on.
LEMMA OneGoesOn ==
  ASSUME FormLockInv, FormOnTop(nav)', NEW c \in Slots, NEW run,
         runs' = [runs EXCEPT ![c] = run],
         runs[c].step # "none" \/ \A d \in Slots : runs[d] = FreeForm!Idle,
         IF run.step = "none" THEN run = FreeForm!Idle ELSE RunIsCall(c)'
  PROVE  FormLockInv'
<1>1. \A d \in Slots \ {c} : runs[d] = FreeForm!Idle
  BY DEF FormLockInv
<1>2. runs' = [d \in Slots |-> IF d = c THEN run ELSE FreeForm!Idle]
  BY <1>1 DEF FormLockInv
<1>3. FreeForm!Idle.step = "none"
  BY DEF FreeForm!Idle
<1>4. /\ runs'[c] = run /\ \A d \in Slots \ {c} : runs'[d] = FreeForm!Idle
      /\ runs' = [d \in Slots |-> runs'[d]]
  BY <1>2
<1>. QED BY <1>3, <1>4 DEF FormLockInv

LEMMA ElsewhereSteps ==
  ASSUME NEW c \in Slots, ElsewhereAnswer(c)
  PROVE  calls[c].step \notin {"none", "geocode", "store"}
BY DEF ElsewhereAnswer, FirstFrame, QueryAnswered, LoginFails, SignedIn, LoginCompletes,
       SignupFails, Created, ProfileUpdated, SignupCompletes, ResetAnswered, AuthForgets,
       LogoutCompletes, At

\* A tap elsewhere is one on a page, a drawer or a filter, or closes something.
LEMMA ElsewhereTops ==
  ASSUME ElsewhereTap
  PROVE  /\ Ready
         /\ \/ Top(nav).kind \notin {"Spinner", "BadLocation", "Thanks"}
            \/ GoBack /\ Top(nav).kind # "Spinner"
<1>1. ASSUME NEW kind \in {"Login", "Signup", "Forgot", "Map", "Publish", "Info", "Drawer", "Filter"},
             On(kind)
      PROVE  Ready /\ Top(nav).kind \notin {"Spinner", "BadLocation", "Thanks"}
  BY <1>1 DEF On
<1>2. GoBack => Ready /\ Top(nav).kind # "Spinner"
  BY DEF GoBack, Close, ClosedByTap
<1>3. CASE OpenSignup \/ OpenForgot \/ OpenFilter \/ OpenDrawer \/ OpenInfo \/ RejectForm
  BY <1>1, <1>3 DEF OpenSignup, OpenForgot, OpenFilter, OpenDrawer, OpenInfo, RejectForm, Open
<1>4. CASE \/ DrawerInfo \/ EnterAsGuest \/ SelectFilter \/ DrawerLogin \/ DrawerLogout
           \/ AddObservation
  BY <1>1, <1>4 DEF DrawerInfo, EnterAsGuest, SelectFilter, DrawerLogin, DrawerLogout, AddObservation
<1>5. CASE SubmitLogin \/ SubmitSignup \/ SubmitReset
  BY <1>1, <1>5 DEF SubmitLogin, SubmitSignup, SubmitReset, Submit
<1>. QED BY <1>2, <1>3, <1>4, <1>5 DEF ElsewhereTap

\* What happens elsewhere leaves a run where it is: under its spinner, or
\* waiting for its alert.
LEMMA RunStays ==
  ASSUME TypeOK, ModalInv, FormLockInv, Elsewhere, NEW c \in Slots, runs[c].step # "none"
  PROVE  RunIsCall(c)'
<1>1. RunIsCall(c) /\ runs' = runs
  BY DEF FormLockInv, Elsewhere, formVars
<1>2. calls[c].step \in {"geocode", "store"} =>
        /\ Locked(calls[c])
        /\ \A d \in Slots : calls[d].step # "none" => d = c
  BY DEF ModalInv, Idle
<1>3. CASE Unmount
  <2>1. PICK i \in nav.leaving :
          /\ nav' = Unmounted(nav, i)
          /\ calls' = [d \in Slots |-> [calls[d] EXCEPT !.page = Forget(@, i)]]
    BY <1>3 DEF Unmount
  <2>2. \A d \in Slots : calls'[d].step = calls[d].step
    BY <2>1 DEF TypeOK, Call
  <2>3. /\ nav'.resume = nav.resume /\ Top(nav').kind = Top(nav).kind
        /\ NoSpinner(nav') <=> NoSpinner(nav)
    BY <2>1, UnmountedForm DEF TypeOK, FormLockInv
  <2>. QED BY <1>1, <2>2, <2>3 DEF RunIsCall, ThanksAreOpen
<1>4. ASSUME AfterPublish \/ AfterAck
      PROVE  FALSE
  <2>1. nav.resume # << >> /\ Head(nav.resume).kind \in {"Publish", "Ack"}
    BY <1>4 DEF AfterPublish, AfterAck, Woken
  <2>2. NoSpinner(nav)
    <3>1. nav.resume \in Seq(Continuation) /\ Len(nav.resume) = 1
      BY <2>1 DEF TypeOK, NavOK, NavState, ModalInv, WellStacked, ReadyToResume
    <3>2. Head(nav.resume) = nav.resume[1]
      BY <3>1, Singleton
    <3>. QED BY <2>1, <3>2 DEF ModalInv, WellStacked, ReadyToResume
  <2>. QED BY <1>1, <1>2, <2>1, <2>2 DEF RunIsCall, ThanksAreOpen, Locked
<1>5. ASSUME NEW d \in Slots, ElsewhereAnswer(d)
      PROVE  FALSE
  <2>1. calls[d].step \notin {"none", "geocode", "store"}
    BY <1>5, ElsewhereSteps
  <2>. QED BY <1>1, <1>2, <2>1 DEF RunIsCall
<1>6. CASE ElsewhereTap
  <2>1. Ready /\ GoBack /\ Top(nav).kind \in {"BadLocation", "Thanks"}
    <3>1. runs[c] # FreeForm!Idle
      BY DEF FreeForm!Idle
    <3>. QED BY <1>6, <3>1, ElsewhereTops, QuietForm
  <2>2. /\ \A d \in Slots : calls[d] = Idle
        /\ nav.resume = << >> /\ NavOK(nav) /\ WellStacked(nav)
        /\ Top(nav).kind # "BadLocation" => NoSpinner(nav)
    BY <2>1, TapsFindIdle
  <2>3. nav' = Pop(nav, FALSE) /\ calls' = calls /\ Len(nav.stack) > 1
    BY <2>1 DEF GoBack, Close
  <2>4. \A d \in Slots : calls'[d].step = "none"
    BY <2>2, <2>3 DEF Idle
  <2>5. CASE Top(nav).kind = "BadLocation"
    <3>1. runs[c].step \in {"badPlace", "stuck"}
      BY <1>1, <2>2, <2>5 DEF RunIsCall, ThanksAreOpen, Idle
    <3>2. PICK k : k = Len(nav.stack) - 1
      OBVIOUS
    <3>3. /\ k \in DOMAIN nav'.stack /\ nav'.stack[k] = nav.stack[k]
      <4>1. LET m == Pop(nav, FALSE) IN
            DOMAIN m.stack = 1 .. k /\ \A i \in 1 .. k : m.stack[i] = nav.stack[i]
        BY <2>2, <2>3, <3>2, PopFacts
      <4>2. k \in 1 .. k
        BY <2>2, <2>3, <3>2, NonEmpty DEF NavOK, NavState
      <4>. QED BY <2>3, <4>1, <4>2
    <3>4. nav.stack[k].kind = "Spinner"
      <4>1. Len(nav.stack) \in DOMAIN nav.stack
        BY <2>2, WellStackedFacts
      <4>. QED BY <2>2, <2>5, <3>2, <4>1 DEF WellStacked, Placed, Top
    <3>5. ~NoSpinner(nav')
      BY <3>3, <3>4 DEF NoSpinner
    <3>. QED BY <1>1, <2>4, <3>1, <3>5 DEF RunIsCall
  <2>6. CASE Top(nav).kind = "Thanks"
    <3>1. runs[c].step = "thanks"
      BY <1>1, <2>2, <2>6 DEF RunIsCall, Idle
    <3>2. PICK woken : woken = [kind |-> "Thanks", opener |-> Top(nav).opener]
      OBVIOUS
    <3>3. nav'.resume = Append(<< >>, woken)
      BY <2>2, <2>3, <2>6, <3>2, PopFacts DEF Wakes, Awaited
    <3>4. nav'.resume # << >> /\ Head(nav'.resume).kind = "Thanks"
      <4>1. Append(<< >>, woken) = << woken >>
        OBVIOUS
      <4>. QED BY <3>2, <3>3, <4>1
    <3>. QED BY <1>1, <2>4, <3>1, <3>4 DEF RunIsCall, ThanksAreOpen
  <2>. QED BY <2>1, <2>5, <2>6
<1>. QED BY <1>3, <1>4, <1>5, <1>6 DEF Elsewhere

\* The spinner of a run has its form right below it.
LEMMA RunFinds ==
  ASSUME TypeOK, ModalInv, SessionInv, FormLockInv, NEW c \in Slots,
         calls[c].step \in {"geocode", "store"}
  PROVE  LET h == HideProgress(nav) IN
         /\ NavOK(nav) /\ NavOK(h) /\ FormOnTop(h)
         /\ nav.resume = << >> /\ h.resume = << >>
         /\ Top(nav).kind = "Spinner" /\ ~NoSpinner(nav) /\ FormOpen
         /\ Mounted(nav, calls[c].page) /\ Mounted(h, calls[c].page)
         /\ calls[c].page \in PageRef
         /\ \A d \in Slots \ {c} : calls[d] = Idle
         /\ runs[c].step # "none" => runs[c].step \in {"geocode", "upload", "add", "stuck"}
<1> DEFINE h == HideProgress(nav)
<1>1. /\ Locked(calls[c]) /\ \A d \in Slots \ {c} : calls[d] = Idle
      /\ NavOK(nav) /\ NavOK(h) /\ h.resume = << >> /\ Mounted(h, calls[c].page)
      /\ calls[c].page \in PageRef /\ Top(nav).kind = "Spinner"
  BY AnswerFinds
<1>2. nav.resume = << >> /\ Mounted(nav, calls[c].page) /\ Below(nav).kind = "Publish"
  BY <1>1 DEF Locked, Mounted
<1>3. FormOnTop(h)
  <2>1. FormOnTop(Pop(nav, FALSE))
    BY <1>1, <1>2, PoppedForm DEF FormLockInv
  <2>. QED BY <2>1 DEF HideProgress, FormLockInv
<1>4. Len(nav.stack) > 1 /\ Len(nav.stack) \in Nat /\ DOMAIN nav.stack = 1 .. Len(nav.stack)
  BY <1>1, TopFacts, NonEmpty DEF NavOK, NavState, Screens
<1>5. ~NoSpinner(nav)
  BY <1>1, <1>4 DEF NoSpinner, Top
<1>6. FormOpen
  <2>1. Len(nav.stack) - 1 \in DOMAIN nav.stack
    BY <1>4
  <2>. QED BY <1>2, <2>1 DEF Below, FormOpen
<1>7. runs[c].step # "none" => runs[c].step \in {"geocode", "upload", "add", "stuck"}
  BY DEF FormLockInv, RunIsCall
<1>. QED BY <1>1, <1>2, <1>3, <1>5, <1>6, <1>7

\* A route that is no screen may be put on any stack.
LEMMA OverlaidForm ==
  ASSUME NEW n, NavOK(n), FormOnTop(n), n.resume = << >>, NEW opener \in PageRef,
         NEW kind \in {"Spinner", "Thanks", "BadLocation"}
  PROVE  FormOnTop(Push(n, kind, opener)) /\ Push(n, kind, opener).resume = << >>
<1>1. kind \in Kinds /\ kind \notin Screens \cup {"Ack"}
  BY DEF Kinds, Awaited, Screens
<1>. QED BY <1>1, PushedForm

\* What the user does on and around the form.
LEMMA TapsKeepLock ==
  ASSUME TypeOK, ModalInv, SessionInv, FormLockInv,
         EditForm \/ LateAnswer \/ OpenForm \/ LeaveForm \/ SendForm
  PROVE  FormLockInv'
<1>1. ASSUME UNCHANGED <<vars, runs>>
      PROVE  FormLockInv'
  <2>1. nav' = nav /\ calls' = calls /\ runs' = runs
    BY <1>1 DEF vars
  <2>. QED BY <2>1 DEF FormLockInv, RunIsCall
<1>2. CASE EditForm
  <2>1. UNCHANGED <<vars, runs>>
    BY <1>2 DEF EditForm, FreeForm!SelectCategory, FreeForm!TypeHazard, FreeForm!ChooseLocation,
                FreeForm!FillAnswers, FreeForm!OpenSheet, FreeForm!CloseSheet,
                FreeForm!StartPick, FreeForm!Edit
  <2>. QED BY <1>1, <2>1
<1>3. CASE LateAnswer
  <2>1. UNCHANGED <<vars, runs>>
    BY <1>3 DEF LateAnswer, FreeForm!AddressAnswers, FreeForm!PickAnswers
  <2>. QED BY <1>1, <2>1
<1>4. NavOK(nav) /\ WellStacked(nav) /\ FormOnTop(nav) /\ Top(nav).id \in PageRef
  BY TopFacts DEF TypeOK, ModalInv, FormLockInv
<1>5. CASE OpenForm
  <2>1. /\ runs' = runs /\ \A c \in Slots : runs[c] = FreeForm!Idle
        /\ NoForm(nav)
    BY <1>5 DEF OpenForm, FreeForm!OpenPage, FreeForm!Publishing, FormOpen, NoForm
  <2>2. /\ nav.resume = << >>
        /\ nav' = Push(nav, "Publish", Top(nav).id) \/ nav' = PushOverFirst(nav, "Login")
    BY <1>5 DEF OpenForm, AddObservation, On, Ready
  <2>3. "Publish" \in Kinds
    BY DEF Kinds, Awaited
  <2>4. FormOnTop(nav')
    BY <1>4, <2>1, <2>2, <2>3, PushedForm, FirstIsNoForm, BareStack
  <2>. QED BY <2>1, <2>4, AllQuiet DEF FormLockInv
<1>6. ASSUME Ready, Top(nav).kind = "Publish"
      PROVE  nav.resume = << >> /\ \A c \in Slots : runs[c] = FreeForm!Idle
  BY <1>6, QuietForm DEF Ready
<1>7. CASE LeaveForm
  <2>1. Ready /\ Top(nav).kind = "Publish" /\ nav' = Pop(nav, FALSE) /\ runs' = runs
    BY <1>7 DEF LeaveForm, GoBack, Close, FreeForm!LeavePage
  <2>2. FormOnTop(nav')
    BY <1>4, <1>6, <2>1, PoppedForm
  <2>. QED BY <1>6, <2>1, <2>2, AllQuiet DEF FormLockInv
<1>8. CASE SendForm
  <2>1. Submit("Publish", "geocode", NoUser, "No")
    BY <1>8 DEF SendForm, SubmitPublish
  <2>2. Ready /\ Top(nav).kind = "Publish" /\ nav' = Push(nav, "Spinner", NoPage)
    BY <2>1 DEF Submit, On, ShowProgress
  <2>3. PICK c \in Slots : /\ calls[c] = Idle /\ calls'[c] # Idle
                           /\ FreeForm!Submit(c)
    BY <1>8 DEF SendForm
  <2>4. PICK d \in Slots :
          calls' = [calls EXCEPT ![d] =
                      [Waiting("geocode", Top(nav).id) EXCEPT !.user = NoUser, !.sub = "No"]]
    BY <2>1 DEF Submit, Awaits
  <2>5. calls'[c].step = "geocode"
    <3>1. [Waiting("geocode", Top(nav).id) EXCEPT !.user = NoUser, !.sub = "No"].step = "geocode"
      BY DEF Waiting, Idle
    <3>2. c = d
      BY <2>3, <2>4 DEF TypeOK
    <3>. QED BY <2>4, <3>1, <3>2 DEF TypeOK
  <2>6. PICK run : runs' = [runs EXCEPT ![c] = run] /\ run.step = "geocode"
    <3>1. PICK run : run = [step |-> "geocode", place |-> form.place]
      OBVIOUS
    <3>2. runs' = [runs EXCEPT ![c] = run]
      BY <2>3, <3>1 DEF FreeForm!Submit, FreeForm!Continue
    <3>3. run.step = "geocode"
      BY <3>1
    <3>. QED BY <3>2, <3>3
  <2>7. FormOnTop(nav')
    <3>1. NoPage \in PageRef
      BY DEF PageRef
    <3>. QED BY <1>4, <1>6, <2>2, <3>1, OverlaidForm
  <2>8. runs'[c] = run
    BY <2>6 DEF FormLockInv
  <2>9. RunIsCall(c)'
    BY <2>5, <2>6, <2>8 DEF RunIsCall
  <2>. QED BY <1>6, <2>2, <2>6, <2>7, <2>9, OneGoesOn
<1>. QED BY <1>2, <1>3, <1>5, <1>7, <1>8

\* PublishEvent after its awaits.
LEMMA AnswersKeepLock ==
  ASSUME TypeOK, ModalInv, SessionInv, FormLockInv, NEW c \in Slots, AppAnswer(c)
  PROVE  FormLockInv'
<1> DEFINE h == HideProgress(nav)
<1>1. ASSUME calls[c].step \in {"geocode", "store"}
      PROVE  /\ NavOK(nav) /\ NavOK(h) /\ FormOnTop(h)
             /\ nav.resume = << >> /\ h.resume = << >>
             /\ Top(nav).kind = "Spinner" /\ ~NoSpinner(nav) /\ FormOpen
             /\ Mounted(nav, calls[c].page) /\ Mounted(h, calls[c].page)
             /\ calls[c].page \in PageRef
             /\ \A d \in Slots \ {c} : calls[d] = Idle
  BY <1>1, RunFinds
<1> HIDE DEF h
<1>2. FormOnTop(nav)
  BY DEF FormLockInv
<1>3. ASSUME calls[c].step \in {"geocode", "store"}, calls'[c].step \in {"geocode", "store"},
             UNCHANGED nav, runs[c].step # "none",
             NEW run, runs' = [runs EXCEPT ![c] = run], run.step \in {"upload", "add", "stuck"}
      PROVE  FormLockInv'
  <2>1. runs'[c] = run
    BY <1>3 DEF FormLockInv
  <2>2. RunIsCall(c)'
    BY <1>3, <2>1 DEF RunIsCall
  <2>. QED BY <1>2, <1>3, <2>2, OneGoesOn
<1>4. ASSUME calls[c].step \in {"geocode", "store"}, Ends(c), FormOnTop(nav)',
             runs[c].step # "none", NEW run, runs' = [runs EXCEPT ![c] = run],
             \/ run.step \in {"badPlace", "stuck"} /\ ~NoSpinner(nav')
             \/ run.step = "thanks" /\ ThanksAreOpen(nav')
      PROVE  FormLockInv'
  <2>1. runs'[c] = run
    BY <1>4 DEF FormLockInv
  <2>2. \A d \in Slots : calls'[d].step = "none"
    BY <1>1, <1>4 DEF Ends, TypeOK, Idle
  <2>3. RunIsCall(c)'
    BY <1>4, <2>1, <2>2 DEF RunIsCall
  <2>. QED BY <1>4, <2>3, OneGoesOn
<1>5. CASE PlaceFound(c)
  <2>1. calls[c].step = "geocode" /\ UNCHANGED nav /\ FreeForm!Geocoded(c)
    BY <1>5 DEF PlaceFound, Located, At
  <2>2. calls'[c].step = "store"
    <3>1. calls' = [calls EXCEPT ![c] = [calls[c] EXCEPT !.step = "store"]]
      BY <1>5 DEF PlaceFound, Located, Awaits
    <3>. QED BY <3>1 DEF TypeOK, Call
  <2>3. /\ runs[c].step # "none"
        /\ \E run : runs' = [runs EXCEPT ![c] = run] /\ run.step \in {"upload", "add"}
    <3>1. runs[c].step = "geocode"
      BY <2>1 DEF FreeForm!Geocoded
    <3>2. ASSUME NEW images, FreeForm!Send(c, images)
          PROVE  \E run : runs' = [runs EXCEPT ![c] = run] /\ run.step \in {"upload", "add"}
      <4>1. PICK run : /\ runs' = [runs EXCEPT ![c] = run]
                       /\ \E event : run = [step |-> "add", event |-> event]
        BY <3>2 DEF FreeForm!Send, FreeForm!Continue
      <4>2. run.step \in {"upload", "add"}
        BY <4>1
      <4>. QED BY <4>1, <4>2
    <3>3. ASSUME NEW category, NEW at, NEW n, NEW time, FreeForm!Upload(c, category, at, n, time)
          PROVE  \E run : runs' = [runs EXCEPT ![c] = run] /\ run.step \in {"upload", "add"}
      <4>1. PICK run : run = [step |-> "upload", place |-> runs[c].place, at |-> at, n |-> n,
                              photo |-> photos[at], path |-> FreeForm!FilePath(category, time)]
        OBVIOUS
      <4>2. runs' = [runs EXCEPT ![c] = run]
        BY <3>3, <4>1 DEF FreeForm!Upload, FreeForm!Continue
      <4>3. run.step \in {"upload", "add"}
        BY <4>1
      <4>. QED BY <4>2, <4>3
    <3>. QED BY <2>1, <3>1, <3>2, <3>3 DEF FreeForm!Geocoded
  <2>. QED BY <1>3, <2>1, <2>2, <2>3
<1>6. CASE PlaceNotFound(c)
  <2>1. /\ calls[c].step = "geocode" /\ Ends(c)
        /\ nav' = Show(nav, calls[c].page, "BadLocation") /\ FreeForm!NotGeocoded(c)
    BY <1>6 DEF PlaceNotFound, NotLocated, At
  <2>2. nav' = Push(nav, "BadLocation", calls[c].page)
    BY <1>1, <2>1 DEF Show
  <2>3. FormOnTop(nav')
    BY <1>1, <1>2, <2>1, <2>2, OverlaidForm
  <2>4. ~NoSpinner(nav')
    <3>1. "BadLocation" \in Kinds
      BY DEF Kinds, Awaited
    <3>2. PICK i \in DOMAIN nav.stack : nav.stack[i].kind = "Spinner"
      BY <1>1, <2>1 DEF NoSpinner
    <3>3. i \in DOMAIN nav'.stack /\ nav'.stack[i] = nav.stack[i]
      <4>1. DOMAIN nav.stack = 1 .. Len(nav.stack) /\ Len(nav.stack) \in Nat
        BY <1>1, <2>1, NonEmpty DEF NavOK, NavState
      <4>. QED BY <1>1, <2>1, <2>2, <3>1, <4>1, PushFacts
    <3>. QED BY <3>2, <3>3 DEF NoSpinner
  <2>5. /\ runs[c].step # "none"
        /\ \E run : runs' = [runs EXCEPT ![c] = run] /\ run.step = "badPlace"
    <3>1. PICK run : run = [step |-> "badPlace"]
      OBVIOUS
    <3>2. runs[c].step = "geocode" /\ runs' = [runs EXCEPT ![c] = run]
      BY <1>1, <2>1, <3>1 DEF FreeForm!NotGeocoded, FreeForm!Continue
    <3>3. run.step = "badPlace"
      BY <3>1
    <3>. QED BY <3>2, <3>3
  <2>. QED BY <1>4, <2>1, <2>3, <2>4, <2>5
<1>7. CASE PhotoStored(c)
  <2>1. /\ calls[c].step = "store" /\ calls' = calls /\ UNCHANGED nav
        /\ FreeForm!Uploaded(c)
    BY <1>7 DEF PhotoStored, At, vars
  <2>2. /\ runs[c].step # "none"
        /\ \E run : runs' = [runs EXCEPT ![c] = run] /\ run.step \in {"upload", "add", "stuck"}
    BY <2>1 DEF FreeForm!Uploaded, FreeForm!Send, FreeForm!Upload, FreeForm!Continue
  <2>. QED BY <1>3, <2>1, <2>2
<1>8. CASE RecordAnswered(c)
  <2>1. /\ calls[c].step = "store" /\ Ends(c)
        /\ nav' = Show(h, calls[c].page, "Thanks") /\ FreeForm!AddAnswers(c)
    BY <1>8 DEF RecordAnswered, PublishCompletes, At, h
  <2>2. nav' = Push(h, "Thanks", calls[c].page)
    BY <1>1, <2>1 DEF Show
  <2>3. FormOnTop(nav') /\ nav'.resume = << >>
    BY <1>1, <2>1, <2>2, OverlaidForm
  <2>4. ThanksAreOpen(nav')
    <3>1. "Thanks" \in Kinds
      BY DEF Kinds, Awaited
    <3>. QED BY <1>1, <2>1, <2>2, <2>3, <3>1, PushFacts DEF ThanksAreOpen
  <2>5. /\ runs[c].step # "none"
        /\ \E run : runs' = [runs EXCEPT ![c] = run] /\ run.step = "thanks"
    <3>1. PICK run : run = [step |-> "thanks"]
      OBVIOUS
    <3>2. runs[c].step = "add" /\ runs' = [runs EXCEPT ![c] = run]
      BY <1>1, <2>1, <3>1 DEF FreeForm!AddAnswers, FreeForm!Continue
    <3>3. run.step = "thanks"
      BY <3>1
    <3>. QED BY <3>2, <3>3
  <2>. QED BY <1>4, <2>1, <2>3, <2>4, <2>5
<1>9. CASE UncaughtSomewhere(c)
  <2>1. Ends(c) /\ UNCHANGED nav /\ calls[c].step \notin {"none", "open"}
    BY <1>9 DEF UncaughtSomewhere, Uncaught, At
  <2>2. CASE calls[c].step \in {"geocode", "store"}
    <3>1. FreeForm!Uncaught(c)
      BY <1>9, <2>2 DEF UncaughtSomewhere
    <3>2. /\ runs[c].step # "none"
          /\ \E run : runs' = [runs EXCEPT ![c] = run] /\ run.step = "stuck"
      <4>1. PICK run : run = [step |-> "stuck"]
        OBVIOUS
      <4>2. runs[c].step # "none" /\ runs' = [runs EXCEPT ![c] = run]
        BY <3>1, <4>1 DEF FreeForm!Uncaught, FreeForm!Continue
      <4>3. run.step = "stuck"
        BY <4>1
      <4>. QED BY <4>2, <4>3
    <3>. QED BY <1>1, <1>2, <1>4, <2>1, <2>2, <3>2
  <2>3. CASE calls[c].step \notin {"geocode", "store"}
    <3>1. runs' = runs
      BY <1>9, <2>3 DEF UncaughtSomewhere, formVars
    <3>2. \A d \in Slots : calls[d].step # "none" => d = c
      BY <2>1 DEF ModalInv, Idle
    <3>3. \A d \in Slots : ~RunIsCall(d)
      BY <2>1, <2>3, <3>2 DEF RunIsCall
    <3>4. \A d \in Slots : runs[d] = FreeForm!Idle
      BY <3>3 DEF FormLockInv
    <3>. QED BY <1>2, <2>1, <3>1, <3>4, AllQuiet DEF FormLockInv
  <2>. QED BY <2>2, <2>3
<1>. QED BY <1>5, <1>6, <1>7, <1>8, <1>9 DEF AppAnswer

\* The alerts of a run are closed, and the app is started again.
LEMMA EndsKeepLock ==
  ASSUME TypeOK, ModalInv, FormLockInv, CloseBadPlace \/ CloseThanked \/ RestartAll
  PROVE  FormLockInv'
<1>1. ASSUME NEW c \in Slots, runs[c].step # "none", runs' = [runs EXCEPT ![c] = FreeForm!Idle],
             FormOnTop(nav)'
      PROVE  FormLockInv'
  <2>1. FreeForm!Idle.step = "none"
    BY DEF FreeForm!Idle
  <2>. QED BY <1>1, <2>1, OneGoesOn
<1>2. ASSUME nav.resume # << >>
      PROVE  FormOnTop(Resumed) /\ \A result \in BOOLEAN : FormOnTop(Pop(Resumed, result))
  BY <1>2, ResumedForm, PoppedForm DEF FormLockInv
<1>3. CASE CloseBadPlace
  <2>1. FormOnTop(nav')
    BY <1>2, <1>3 DEF CloseBadPlace, AfterBadLocation, Woken, HideProgress
  <2>2. \E c \in Slots : runs[c].step # "none" /\ runs' = [runs EXCEPT ![c] = FreeForm!Idle]
    BY <1>3 DEF CloseBadPlace, FreeForm!CloseError, FreeForm!Continue
  <2>. QED BY <1>1, <2>1, <2>2
<1>4. CASE CloseThanked
  <2>1. FormOnTop(nav')
    BY <1>2, <1>4 DEF CloseThanked, AfterThanks, Woken
  <2>2. \E c \in Slots : runs[c].step # "none" /\ runs' = [runs EXCEPT ![c] = FreeForm!Idle]
    BY <1>4 DEF CloseThanked, FreeForm!CloseThanks, FreeForm!Continue
  <2>. QED BY <1>1, <2>1, <2>2
<1>5. CASE RestartAll
  <2>1. FormOnTop(nav')
    BY <1>5, HomeKinds, BareStack DEF RestartAll, Restart, Boot
  <2>2. runs' = [c \in Slots |-> FreeForm!Idle]
    BY <1>5 DEF RestartAll, FreeForm!Restart
  <2>. QED BY <2>1, <2>2, AllQuiet
<1>. QED BY <1>3, <1>4, <1>5

LEMMA LockInit == AppInit => FormLockInv
<1> SUFFICES ASSUME AppInit PROVE FormLockInv
  OBVIOUS
<1>1. FormOnTop(nav)
  BY HomeKinds, BareStack DEF AppInit, Init
<1>2. runs = [c \in Slots |-> FreeForm!Idle]
  BY DEF AppInit, FreeForm!Init
<1>. QED BY <1>1, <1>2 DEF FormLockInv, FreeForm!Idle

LEMMA LockNext ==
  TypeOK /\ ModalInv /\ SessionInv /\ TypeOK' /\ FormLockInv /\ [AppNext]_appVars => FormLockInv'
<1> SUFFICES ASSUME TypeOK, ModalInv, SessionInv, TypeOK', FormLockInv, [AppNext]_appVars
             PROVE  FormLockInv'
  OBVIOUS
<1>1. CASE UNCHANGED appVars
  <2>1. nav' = nav /\ calls' = calls /\ runs' = runs
    BY <1>1 DEF appVars, vars, formVars
  <2>. QED BY <2>1 DEF FormLockInv, RunIsCall
<1>2. CASE Elsewhere
  <2>1. FormOnTop(nav)'
    BY <1>2, ElsewhereKeeps DEF KeepsForm, FormLockInv
  <2>2. runs' = runs
    BY <1>2 DEF Elsewhere, formVars
  <2>3. \A c \in Slots : runs[c].step # "none" => RunIsCall(c)'
    BY <1>2, RunStays
  <2>. QED BY <2>1, <2>2, <2>3 DEF FormLockInv
<1>. QED BY <1>1, <1>2, TapsKeepLock, AnswersKeepLock, EndsKeepLock DEF AppNext

-----------------------------------------------------------------------------
(* Every step is one of the locked form *)

LEMMA FormMeansOpen == FormOpen <=> ~NoForm(nav)
BY DEF FormOpen, NoForm

\* The answers and the openings do not ask for the lock.
LEMMA SameWithLock ==
  /\ FreeForm!OpenPage => LockedForm!OpenPage
  /\ FreeForm!AddressAnswers => LockedForm!AddressAnswers
  /\ FreeForm!PickAnswers => LockedForm!PickAnswers
  /\ FreeForm!Restart => LockedForm!Restart
  /\ FreeForm!Init => LockedForm!Init
  /\ \A c \in Slots :
       /\ FreeForm!Geocoded(c) => LockedForm!Geocoded(c)
       /\ FreeForm!NotGeocoded(c) => LockedForm!NotGeocoded(c)
       /\ FreeForm!Uploaded(c) => LockedForm!Uploaded(c)
       /\ FreeForm!AddAnswers(c) => LockedForm!AddAnswers(c)
       /\ FreeForm!Uncaught(c) => LockedForm!Uncaught(c)
       /\ FreeForm!CloseError(c) => LockedForm!CloseError(c)
<1>1. /\ FreeForm!OpenPage => LockedForm!OpenPage
      /\ FreeForm!AddressAnswers => LockedForm!AddressAnswers
      /\ FreeForm!PickAnswers => LockedForm!PickAnswers
      /\ FreeForm!Restart => LockedForm!Restart
      /\ FreeForm!Init => LockedForm!Init
  BY DEF FreeForm!OpenPage, FreeForm!AddressAnswers, FreeForm!PickAnswers, FreeForm!Restart,
         FreeForm!Init, FreeForm!Publishing, FreeForm!Quiet, FreeForm!Idle, FreeForm!EmptyForm,
         FreeForm!remote,
         LockedForm!OpenPage, LockedForm!AddressAnswers, LockedForm!PickAnswers,
         LockedForm!Restart, LockedForm!Init, LockedForm!Publishing, LockedForm!Quiet,
         LockedForm!Idle, LockedForm!EmptyForm, LockedForm!remote
<1>2. \A c \in Slots :
       /\ FreeForm!Geocoded(c) => LockedForm!Geocoded(c)
       /\ FreeForm!Uploaded(c) => LockedForm!Uploaded(c)
  BY DEF FreeForm!Geocoded, FreeForm!Uploaded, FreeForm!Send, FreeForm!Upload, FreeForm!FilePath,
         FreeForm!Continue, FreeForm!Stored, FreeForm!remote,
         LockedForm!Geocoded, LockedForm!Uploaded, LockedForm!Send, LockedForm!Upload,
         LockedForm!FilePath, LockedForm!Continue, LockedForm!Stored, LockedForm!remote
<1>3. \A c \in Slots :
       /\ FreeForm!NotGeocoded(c) => LockedForm!NotGeocoded(c)
       /\ FreeForm!AddAnswers(c) => LockedForm!AddAnswers(c)
       /\ FreeForm!Uncaught(c) => LockedForm!Uncaught(c)
       /\ FreeForm!CloseError(c) => LockedForm!CloseError(c)
  BY DEF FreeForm!NotGeocoded, FreeForm!AddAnswers, FreeForm!Uncaught, FreeForm!CloseError,
         FreeForm!Continue, FreeForm!Idle, FreeForm!remote,
         LockedForm!NotGeocoded, LockedForm!AddAnswers, LockedForm!Uncaught, LockedForm!CloseError,
         LockedForm!Continue, LockedForm!Idle, LockedForm!remote
<1>. QED BY <1>1, <1>2, <1>3

\* A tap on the form finds no run, so the lock would let it through.
LEMMA TapsPassLock ==
  ASSUME TypeOK, ModalInv, FormLockInv, OnForm
  PROVE  /\ FreeForm!SelectCategory => LockedForm!SelectCategory
         /\ FreeForm!TypeHazard => LockedForm!TypeHazard
         /\ FreeForm!ChooseLocation => LockedForm!ChooseLocation
         /\ FreeForm!FillAnswers => LockedForm!FillAnswers
         /\ FreeForm!OpenSheet => LockedForm!OpenSheet
         /\ FreeForm!CloseSheet => LockedForm!CloseSheet
         /\ FreeForm!StartPick => LockedForm!StartPick
         /\ FreeForm!LeavePage => LockedForm!LeavePage
         /\ \A c \in Slots : FreeForm!Submit(c) => LockedForm!Submit(c)
<1>1. \A c \in Slots : runs[c] = FreeForm!Idle
  BY QuietForm DEF OnForm
<1>2. /\ FreeForm!Editable => LockedForm!Editable
      /\ FreeForm!Uncovered => LockedForm!Uncovered
  BY <1>1 DEF FreeForm!Editable, LockedForm!Editable, FreeForm!Uncovered, LockedForm!Uncovered,
              LockedForm!Publishing, FreeForm!Idle, LockedForm!Idle
<1>3. \A f : FreeForm!Edit(f) => LockedForm!Edit(f)
  BY <1>2 DEF FreeForm!Edit, LockedForm!Edit, FreeForm!remote, LockedForm!remote
<1>4. /\ FreeForm!SelectCategory => LockedForm!SelectCategory
      /\ FreeForm!TypeHazard => LockedForm!TypeHazard
      /\ FreeForm!ChooseLocation => LockedForm!ChooseLocation
      /\ FreeForm!FillAnswers => LockedForm!FillAnswers
  BY <1>3
  DEF FreeForm!SelectCategory, FreeForm!TypeHazard, FreeForm!ChooseLocation, FreeForm!FillAnswers,
      LockedForm!SelectCategory, LockedForm!TypeHazard, LockedForm!ChooseLocation,
      LockedForm!FillAnswers
<1>5. /\ FreeForm!OpenSheet => LockedForm!OpenSheet
      /\ FreeForm!CloseSheet => LockedForm!CloseSheet
      /\ FreeForm!StartPick => LockedForm!StartPick
      /\ FreeForm!LeavePage => LockedForm!LeavePage
  BY <1>2 DEF FreeForm!OpenSheet, FreeForm!CloseSheet, FreeForm!StartPick, FreeForm!LeavePage,
              FreeForm!remote,
              LockedForm!OpenSheet, LockedForm!CloseSheet, LockedForm!StartPick,
              LockedForm!LeavePage, LockedForm!remote
<1>6. \A c \in Slots : FreeForm!Submit(c) => LockedForm!Submit(c)
  <2>1. FreeForm!Complete(form) => LockedForm!Complete(form)
    BY DEF FreeForm!Complete, LockedForm!Complete
  <2>2. FreeForm!TimeLeft => LockedForm!TimeLeft
    BY DEF FreeForm!TimeLeft, LockedForm!TimeLeft, FreeForm!MostPhotos, LockedForm!MostPhotos,
           FreeForm!Cardinality, LockedForm!Cardinality
  <2>3. \A c, run : FreeForm!Continue(c, run) => LockedForm!Continue(c, run)
    BY DEF FreeForm!Continue, LockedForm!Continue
  <2>. QED BY <1>2, <2>1, <2>2, <2>3
           DEF FreeForm!Submit, FreeForm!Idle, FreeForm!remote,
               LockedForm!Submit, LockedForm!Idle, LockedForm!remote
<1>. QED BY <1>4, <1>5, <1>6

\* The blind pop after the thanks finds the form on top, and it is the only one.
LEMMA ThanksCloseForm ==
  ASSUME TypeOK, ModalInv, SessionInv, FormLockInv, CloseThanked
  PROVE  \E c \in Slots : LockedForm!CloseThanks(c)
<1>1. nav.resume # << >> /\ Head(nav.resume).kind = "Thanks"
  BY DEF CloseThanked, AfterThanks, Woken
<1>2. Top(nav).kind = "Publish" /\ Top(nav).id = Head(nav.resume).opener
  BY <1>1, ModalImpliesThanks DEF ThanksCloseTheirForm
<1>3. NavOK(nav) /\ NavOK(Resumed) /\ FormOnTop(Resumed) /\ Resumed.resume = << >>
      /\ Resumed.stack = nav.stack
  BY <1>1, ResumedForm DEF TypeOK, FormLockInv
<1>4. Mounted(nav, Opener)
  BY <1>2, <1>3, TopIsOpen DEF Opener, Mounted, Screens
<1>5. nav' = Pop(Resumed, TRUE)
  BY <1>4 DEF CloseThanked, AfterThanks
<1>6. Top(Resumed).kind = "Publish" /\ Len(Resumed.stack) > 1
  <2>1. Len(nav.stack) \in Nat \ {0} /\ Len(nav.stack) \in DOMAIN nav.stack
    BY <1>3, WellStackedFacts DEF ModalInv
  <2>2. Placed(nav, Len(nav.stack)) /\ Top(nav) = nav.stack[Len(nav.stack)]
    BY <2>1 DEF ModalInv, WellStacked, Top
  <2>3. \E j \in 1 .. (Len(nav.stack) - 1) : nav.stack[j].id = Top(nav).opener
    BY <1>2, <2>2 DEF Placed
  <2>. QED BY <1>2, <1>3, <2>1, <2>3 DEF Top
<1>7. NoForm(nav')
  BY <1>3, <1>5, <1>6, PoppedForm
<1>8. FormOpen' = FALSE
  BY <1>7 DEF FormOpen, NoForm
<1>. QED BY <1>8 DEF CloseThanked, FreeForm!CloseThanks, FreeForm!Continue, FreeForm!Idle,
                     FreeForm!remote, LockedForm!CloseThanks, LockedForm!Continue,
                     LockedForm!Idle, LockedForm!remote

LEMMA FormSteps ==
  ASSUME TypeOK, ModalInv, SessionInv, TypeOK', FormLockInv, [AppNext]_appVars
  PROVE  [LockedForm!Next]_(LockedForm!vars)
<1>1. ASSUME UNCHANGED formVars, FormOpen' = FormOpen
      PROVE  UNCHANGED LockedForm!vars
  BY <1>1 DEF formVars, LockedForm!vars, LockedForm!remote
<1>2. UNCHANGED nav => FormOpen' = FormOpen
  BY DEF FormOpen
<1>3. CASE UNCHANGED appVars
  BY <1>1, <1>2, <1>3 DEF appVars, vars
<1>4. CASE EditForm \/ LateAnswer \/ OpenForm
  BY <1>4, SameWithLock, TapsPassLock
  DEF EditForm, LateAnswer, OpenForm, LockedForm!Next, LockedForm!Tap
<1>5. CASE LeaveForm \/ SendForm
  <2>1. OnForm
    BY <1>5 DEF LeaveForm, GoBack, Close, SendForm, SubmitPublish, Submit, On, OnForm
  <2>. QED BY <1>5, <2>1, TapsPassLock DEF LeaveForm, SendForm, LockedForm!Next, LockedForm!Tap
<1>6. ASSUME NEW c \in Slots, AppAnswer(c)
      PROVE  [LockedForm!Next]_(LockedForm!vars)
  <2>1. CASE PlaceFound(c) \/ PlaceNotFound(c) \/ PhotoStored(c) \/ RecordAnswered(c)
    BY <2>1, SameWithLock
    DEF PlaceFound, PlaceNotFound, PhotoStored, RecordAnswered, LockedForm!Next, LockedForm!Answer
  <2>2. CASE UncaughtSomewhere(c)
    <3>1. UNCHANGED nav
      BY <2>2 DEF UncaughtSomewhere, Uncaught
    <3>2. FreeForm!Uncaught(c) \/ UNCHANGED formVars
      BY <2>2 DEF UncaughtSomewhere
    <3>. QED BY <1>1, <1>2, <3>1, <3>2, SameWithLock DEF LockedForm!Next, LockedForm!Answer
  <2>. QED BY <1>6, <2>1, <2>2 DEF AppAnswer
<1>7. CASE CloseBadPlace \/ CloseThanked \/ RestartAll
  BY <1>7, SameWithLock, ThanksCloseForm
  DEF CloseBadPlace, RestartAll, LockedForm!Next, LockedForm!Tap
<1>8. CASE Elsewhere
  <2>1. FormOpen' = FormOpen
    BY <1>8, ElsewhereKeeps DEF FormLockInv, KeepsForm, FormOpen, NoForm
  <2>. QED BY <1>1, <1>8, <2>1 DEF Elsewhere
<1>. QED BY <1>3, <1>4, <1>5, <1>6, <1>7, <1>8 DEF AppNext

-----------------------------------------------------------------------------
\* The publication form has no lock of its own.  It behaves as if it had one,
\* PublishScreen's: no edit, second "publish" or back arrow during a run, and the
\* thanks close the form they belong to.  So what is proved of the form alone,
\* complete and well-filed documents, holds inside the app.
THEOREM FormHasItsLock ==
  ASSUME SystemBack = FALSE
  PROVE  AppSpec => ImplementsForm
<1>1. AppInit => LockedForm!Init
  BY SameWithLock DEF AppInit
<1>2. TypeOK /\ ModalInv /\ SessionInv /\ TypeOK' /\ FormLockInv /\ [AppNext]_appVars
        => FormLockInv' /\ [LockedForm!Next]_(LockedForm!vars)
  BY LockNext, FormSteps
<1>. QED BY <1>1, <1>2, LockInit, ShellRuns, PTL DEF AppSpec, ImplementsForm, LockedForm!Spec

-----------------------------------------------------------------------------
(* What is proved of the form alone, inside the app *)

\* The form with its lock, and the theorems of PublishScreen_proofs about it.
FormAlone == INSTANCE PublishScreen_proofs WITH
  Handlers <- Slots, page <- FormOpen, SystemBack <- FALSE

\* The two instances of PublishScreen are one specification.
LEMMA SameForm == LockedForm!Spec => FormAlone!Spec
<1>1. LockedForm!Init => FormAlone!Init
  BY DEF LockedForm!Init, LockedForm!EmptyForm, LockedForm!Idle,
         FormAlone!Init, FormAlone!EmptyForm, FormAlone!Idle
<1>2. [LockedForm!Next]_(LockedForm!vars) => [FormAlone!Next]_(FormAlone!vars)
  BY DEF LockedForm!Next, LockedForm!Tap, LockedForm!Answer, LockedForm!vars, LockedForm!remote,
         LockedForm!OpenPage, LockedForm!SelectCategory, LockedForm!TypeHazard,
         LockedForm!ChooseLocation, LockedForm!FillAnswers, LockedForm!Edit,
         LockedForm!OpenSheet, LockedForm!CloseSheet, LockedForm!StartPick, LockedForm!Uncovered,
         LockedForm!MostPhotos, LockedForm!LeavePage, LockedForm!Submit, LockedForm!CloseError,
         LockedForm!CloseThanks, LockedForm!Geocoded, LockedForm!NotGeocoded,
         LockedForm!Uploaded, LockedForm!AddAnswers, LockedForm!Uncaught,
         LockedForm!AddressAnswers, LockedForm!PickAnswers, LockedForm!Restart,
         LockedForm!OtherUpload, LockedForm!Editable, LockedForm!Publishing, LockedForm!Quiet,
         LockedForm!Idle, LockedForm!EmptyForm, LockedForm!Continue, LockedForm!Send,
         LockedForm!Upload, LockedForm!FilePath, LockedForm!Complete, LockedForm!TimeLeft,
         LockedForm!Cardinality, LockedForm!Stored,
         FormAlone!Next, FormAlone!Tap, FormAlone!Answer, FormAlone!vars, FormAlone!remote,
         FormAlone!OpenPage, FormAlone!SelectCategory, FormAlone!TypeHazard,
         FormAlone!ChooseLocation, FormAlone!FillAnswers, FormAlone!Edit,
         FormAlone!OpenSheet, FormAlone!CloseSheet, FormAlone!StartPick, FormAlone!Uncovered,
         FormAlone!MostPhotos, FormAlone!LeavePage, FormAlone!Submit, FormAlone!CloseError,
         FormAlone!CloseThanks, FormAlone!Geocoded, FormAlone!NotGeocoded,
         FormAlone!Uploaded, FormAlone!AddAnswers, FormAlone!Uncaught,
         FormAlone!AddressAnswers, FormAlone!PickAnswers, FormAlone!Restart,
         FormAlone!OtherUpload, FormAlone!Editable, FormAlone!Publishing, FormAlone!Quiet,
         FormAlone!Idle, FormAlone!EmptyForm, FormAlone!Continue, FormAlone!Send,
         FormAlone!Upload, FormAlone!FilePath, FormAlone!Complete, FormAlone!TimeLeft,
         FormAlone!Cardinality, FormAlone!Stored
<1>. QED BY <1>1, <1>2, PTL DEF LockedForm!Spec, FormAlone!Spec

LEMMA FormRuns ==
  ASSUME SystemBack = FALSE
  PROVE  AppSpec => [](FormAlone!TypeOK /\ FormAlone!PublishInv)
<1>1. AppSpec => FormAlone!Spec
  BY FormHasItsLock, SameForm DEF ImplementsForm
<1>2. FormAlone!Spec => [](FormAlone!TypeOK /\ FormAlone!PublishInv)
  BY FormAlone!FormKeepsInv, FormAssumption, ShellAssumption DEF FormAlone!IsFiniteSet, IsFiniteSet
<1>. QED BY <1>1, <1>2

-----------------------------------------------------------------------------
(* The order of the collection *)

\* One signature to each record, and its name is that of an account.
OrderInv ==
  /\ Len(publishers) = Len(events)
  /\ \A i \in DOMAIN publishers :
       publishers[i].publisher # NoUser => profile[publishers[i].publisher] = "named"

\* Only the answer to the record writes the collection and its history.
LEMMA Recording ==
  ASSUME [AppNext]_appVars
  PROVE  \/ UNCHANGED <<publishers, events>>
         \/ /\ publishers' = Append(publishers, Signature)
            /\ \E e : events' = Append(events, e)
<1>1. ASSUME NEW c \in Slots, RecordAnswered(c)
      PROVE  \/ UNCHANGED <<publishers, events>>
             \/ /\ publishers' = Append(publishers, Signature)
                /\ \E e : events' = Append(events, e)
  BY <1>1 DEF RecordAnswered, FreeForm!AddAnswers
<1>2. CASE EditForm \/ LateAnswer \/ OpenForm \/ LeaveForm
  BY <1>2 DEF EditForm, LateAnswer, OpenForm, LeaveForm, signVars,
     FreeForm!SelectCategory, FreeForm!TypeHazard, FreeForm!ChooseLocation, FreeForm!FillAnswers,
     FreeForm!Edit, FreeForm!OpenSheet, FreeForm!CloseSheet, FreeForm!StartPick,
     FreeForm!AddressAnswers, FreeForm!PickAnswers,
     FreeForm!OpenPage, FreeForm!LeavePage, FreeForm!remote
<1>3. CASE SendForm \/ CloseBadPlace \/ CloseThanked \/ RestartAll
  BY <1>3 DEF SendForm, CloseBadPlace, CloseThanked, RestartAll, signVars, FreeForm!Submit,
     FreeForm!CloseError, FreeForm!CloseThanks, FreeForm!Restart, FreeForm!remote
<1>4. ASSUME NEW c \in Slots,
             PlaceFound(c) \/ PlaceNotFound(c) \/ PhotoStored(c) \/ UncaughtSomewhere(c)
      PROVE  UNCHANGED <<publishers, events>>
  BY <1>4 DEF PlaceFound, PlaceNotFound, PhotoStored, UncaughtSomewhere, signVars, formVars,
     FreeForm!Geocoded, FreeForm!NotGeocoded, FreeForm!Uploaded, FreeForm!Uncaught,
     FreeForm!remote
<1>5. Elsewhere \/ UNCHANGED appVars => UNCHANGED <<publishers, events>>
  BY DEF Elsewhere, appVars, formVars, signVars
<1>. QED BY <1>1, <1>2, <1>3, <1>4, <1>5 DEF AppNext, AppAnswer

LEMMA OrderNext ==
  TypeOK /\ NamesInv /\ SignInv /\ events \in Seq(FreeForm!Events) /\ OrderInv /\ [AppNext]_appVars
    => OrderInv'
<1> SUFFICES ASSUME TypeOK, NamesInv, SignInv, events \in Seq(FreeForm!Events), OrderInv,
                    [AppNext]_appVars
             PROVE  OrderInv'
  OBVIOUS
<1>1. \A u \in Users : profile[u] = "named" => profile'[u] = "named"
  BY StepsOfTheShell, NameInGlobals
<1>2. \A u \in Session : (u # NoUser => profile[u] = "named")
                           => (u # NoUser => profile'[u] = "named")
  BY <1>1 DEF Session
<1>3. /\ publishers \in Seq([sender : Session, session : Session, publisher : Session])
      /\ \A i \in DOMAIN publishers : publishers[i].publisher \in Session
  <2>1. PICK S : S = [sender : Session, session : Session, publisher : Session]
    OBVIOUS
  <2>2. publishers \in Seq(S)
    BY <2>1 DEF SignInv
  <2>3. \A i \in DOMAIN publishers : publishers[i] \in S
    BY <2>2
  <2>. QED BY <2>1, <2>2, <2>3
<1>4. CASE UNCHANGED <<publishers, events>>
  BY <1>2, <1>3, <1>4 DEF OrderInv
<1>5. ASSUME NEW e, events' = Append(events, e), publishers' = Append(publishers, Signature)
      PROVE  OrderInv'
  <2>1. PICK s : s = Signature
    OBVIOUS
  <2>2. s.publisher \in Session /\ (s.publisher # NoUser => profile[s.publisher] = "named")
    BY <2>1 DEF Signature, TypeOK, Globals, NamesInv, NamesAreStored
  <2>3. Len(publishers') = Len(events')
    BY <1>3, <1>5 DEF OrderInv
  <2>4. /\ DOMAIN publishers' = 1 .. (Len(publishers) + 1)
        /\ DOMAIN publishers = 1 .. Len(publishers) /\ Len(publishers) \in Nat
        /\ \A i \in DOMAIN publishers : publishers'[i] = publishers[i]
        /\ publishers'[Len(publishers) + 1] = s
    BY <1>3, <1>5, <2>1
  <2>5. \A i \in DOMAIN publishers' : i \in DOMAIN publishers \/ i = Len(publishers) + 1
    BY <2>4
  <2>6. \A i \in DOMAIN publishers' :
          publishers'[i].publisher # NoUser => profile'[publishers'[i].publisher] = "named"
    BY <1>2, <1>3, <2>2, <2>4, <2>5 DEF OrderInv
  <2>. QED BY <2>3, <2>6 DEF OrderInv
<1>. QED BY <1>4, <1>5, Recording

\* From the add button of the map to the record that other phones read,
\* whoever logs in or out, whatever fails, arrives late or is killed: what
\* PublishEvent adds was validated, keeps each photo in a file of its own under
\* the right category, and carries one signature, whose name an account has.
THEOREM CollectionIsInOrder ==
  ASSUME SystemBack = FALSE
  PROVE  AppSpec => []RecordsInOrder
<1>1. AppInit => OrderInv
  BY DEF AppInit, OrderInv, FreeForm!Init
<1>2. AppSpec => []SignInv
  <2>1. TypeOK /\ ModalInv /\ SessionInv /\ TypeOK' /\ SignInv /\ [AppNext]_appVars => SignInv'
    BY SignNext
  <2>. QED BY <2>1, SignInit, ShellRuns, PTL DEF AppSpec
<1>3. AppSpec => []NamesInv
  <2>1. AppInit => Init
    BY DEF AppInit
  <2>. QED BY <2>1, StepsOfTheShell, NamesAlways, PTL DEF AppSpec, Spec
<1>4. FormAlone!TypeOK => events \in Seq(FreeForm!Events)
  BY DEF FormAlone!TypeOK, FormAlone!Events, FreeForm!Events, FormAlone!Forms, FreeForm!Forms,
         FormAlone!Paths, FreeForm!Paths
<1>5. TypeOK /\ NamesInv /\ SignInv /\ events \in Seq(FreeForm!Events) /\ OrderInv
        /\ [AppNext]_appVars => OrderInv'
  BY OrderNext
<1>6. FormAlone!TypeOK /\ FormAlone!PublishInv
        => FreeForm!PublishedIsComplete /\ FreeForm!PhotosWellFiled
  BY DEF FormAlone!TypeOK, FormAlone!PublishInv, FormAlone!FitToPublish, FormAlone!Filed,
         FormAlone!Complete, FreeForm!PublishedIsComplete, FreeForm!PhotosWellFiled,
         FreeForm!Published, FreeForm!Complete
<1>7. OrderInv /\ FreeForm!PublishedIsComplete /\ FreeForm!PhotosWellFiled => RecordsInOrder
  BY DEF OrderInv, RecordsInOrder
<1>. QED BY <1>1, <1>2, <1>3, <1>4, <1>5, <1>6, <1>7, ShellRuns, FormRuns, PTL DEF AppSpec

\* Where the address and the photos arrive before "publish" and no other phone
\* writes, the collection is a log of the drafts, as ObservationLog promises, in
\* the whole app: no tap that the shell lets through, no answer to another screen's
\* call and no restart edits a document or takes it back.
THEOREM CollectionIsALog ==
  ASSUME SystemBack = FALSE, Late = FALSE, OtherPhones = FALSE
  PROVE  AppSpec => ImplementsLog
<1>1. AppSpec => FormAlone!Spec
  BY FormHasItsLock, SameForm DEF ImplementsForm
<1>2. FormAlone!Spec => FormAlone!ImplementsLog
  BY FormAlone!FormKeepsLog, FormAssumption, ShellAssumption DEF FormAlone!IsFiniteSet, IsFiniteSet
<1>3. FormAlone!Log!Init => FreeForm!Log!Init
  BY DEF FormAlone!Log!Init, FormAlone!EmptyForm, FormAlone!Observation,
         FreeForm!Log!Init, FreeForm!EmptyForm, FreeForm!Observation
<1>4. [FormAlone!Log!Next]_<<[form |-> form, photos |-> photos],
                             [i \in DOMAIN events |-> FormAlone!Observation(events[i])]>>
        => [FreeForm!Log!Next]_<<[form |-> form, photos |-> photos],
                                 [i \in DOMAIN events |-> FreeForm!Observation(events[i])]>>
  BY DEF FormAlone!Log!Next, FormAlone!Log!EditDraft, FormAlone!Log!Post, FormAlone!Log!Drafts,
         FormAlone!Observation, FormAlone!Complete, FormAlone!Forms,
         FreeForm!Log!Next, FreeForm!Log!EditDraft, FreeForm!Log!Post, FreeForm!Log!Drafts,
         FreeForm!Observation, FreeForm!Complete, FreeForm!Forms
<1>5. FormAlone!ImplementsLog => FreeForm!ImplementsLog
  BY <1>3, <1>4, PTL
  DEF FormAlone!ImplementsLog, FormAlone!Log!Spec, FreeForm!ImplementsLog, FreeForm!Log!Spec
<1>. QED BY <1>1, <1>2, <1>5 DEF ImplementsLog
=============================================================================
