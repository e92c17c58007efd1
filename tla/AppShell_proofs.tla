--------------------------- MODULE AppShell_proofs ---------------------------
(***************************************************************************)
(* Proofs about AppShell, for any number of accounts, screens and handlers *)
(* in flight, with or without a back button.                               *)
(***************************************************************************)
EXTENDS AppShell, SequenceTheorems, TLAPS

-----------------------------------------------------------------------------
(* Sequences *)

\* What Append does.
LEMMA AppendFacts ==
  ASSUME NEW S, NEW s \in Seq(S), NEW e \in S
  PROVE  /\ Append(s, e) \in Seq(S)
         /\ Append(s, e) # << >>
         /\ Len(Append(s, e)) = Len(s) + 1
         /\ \A i \in 1 .. Len(s) : Append(s, e)[i] = s[i]
         /\ Append(s, e)[Len(s) + 1] = e
OBVIOUS

\* What dropping the last element does.
LEMMA FrontFacts ==
  ASSUME NEW S, NEW s \in Seq(S), NEW k \in 1 .. Len(s)
  PROVE  /\ SubSeq(s, 1, k) \in Seq(S)
         /\ SubSeq(s, 1, k) # << >>
         /\ Len(SubSeq(s, 1, k)) = k
         /\ \A i \in 1 .. k : SubSeq(s, 1, k)[i] = s[i]
OBVIOUS

\* A nonempty sequence.
LEMMA NonEmpty ==
  ASSUME NEW S, NEW s \in Seq(S)
  PROVE  /\ Len(s) \in Nat /\ DOMAIN s = 1 .. Len(s)
         /\ s # << >> <=> Len(s) >= 1
         /\ \A i \in 1 .. Len(s) : s[i] \in S
OBVIOUS

-----------------------------------------------------------------------------
(* The navigator's operators keep its type *)

\* The identity of a new screen is one, or none when the bound is reached.
LEMMA FreshIdType ==
  ASSUME NEW n
  PROVE  FreshId(n) \in PageRef
BY DEF FreshId, Free, PageRef

\* The route on top is a route.
LEMMA TopType ==
  ASSUME NEW n \in NavState, n.stack # << >>
  PROVE  Top(n) \in Route
BY NonEmpty DEF Top, NavState

\* So is the one below it.
LEMMA BelowType ==
  ASSUME NEW n \in NavState, Len(n.stack) > 1
  PROVE  Below(n) \in Route
BY NonEmpty DEF Below, NavState

\* Navigator.push keeps the type and the first route.
LEMMA PushType ==
  ASSUME NEW n \in NavState, NEW kind \in Kinds, NEW opener \in PageRef
  PROVE  /\ Push(n, kind, opener) \in NavState
         /\ Push(n, kind, opener).stack # << >>
         /\ n.stack # << >> => Push(n, kind, opener).stack[1] = n.stack[1]
<1> DEFINE r == [kind |-> kind, id |-> IF kind \in Screens THEN FreshId(n) ELSE NoPage,
                 opener |-> opener]
<1>1. r \in Route
  BY FreshIdType DEF Route, PageRef
<1>2. n.stack \in Seq(Route)
  BY DEF NavState
<1>3. Push(n, kind, opener) = [n EXCEPT !.stack = Append(n.stack, r)]
  BY DEF Push
<1> HIDE DEF r
<1>4. /\ Append(n.stack, r) \in Seq(Route) /\ Append(n.stack, r) # << >>
      /\ n.stack # << >> => Append(n.stack, r)[1] = n.stack[1]
  BY <1>1, <1>2, AppendFacts, NonEmpty
<1>. QED BY <1>3, <1>4 DEF NavState

\* Navigator.pop keeps the type, the first route and every screen's identity.
LEMMA PopType ==
  ASSUME NEW n \in NavState, n.stack # << >>, Fits(n), NEW result \in BOOLEAN
  PROVE  /\ Pop(n, result) \in NavState
         /\ Pop(n, result).stack # << >>
         /\ Fits(Pop(n, result))
         /\ Pop(n, result).stack[1] = n.stack[1]
<1>1. CASE Len(n.stack) <= 1
  BY <1>1 DEF Pop
<1>2. CASE ~(Len(n.stack) <= 1)
  <2> DEFINE k == Len(n.stack) - 1
             s == SubSeq(n.stack, 1, k)
             l == IF Top(n).kind \in Screens THEN n.leaving \cup {Top(n).id} ELSE n.leaving
             c == [kind |-> Top(n).kind, opener |-> Top(n).opener]
             w == IF Wakes(Top(n), result) THEN Append(n.resume, c) ELSE n.resume
  <2>1. n.stack \in Seq(Route) /\ k \in 1 .. Len(n.stack)
    BY <1>2, NonEmpty DEF NavState
  <2>2. Top(n) \in Route /\ (Top(n).kind \in Screens => Top(n).id \in Ids)
    <3>1. Top(n) = n.stack[Len(n.stack)] /\ Len(n.stack) \in DOMAIN n.stack
      BY <2>1, NonEmpty DEF Top
    <3>. QED BY <3>1, TopType DEF Fits, Route, PageRef
  <2>3. s \in Seq(Route) /\ s # << >> /\ Len(s) = k /\ \A i \in 1 .. k : s[i] = n.stack[i]
    BY <2>1, FrontFacts
  <2>4. l \in SUBSET Ids
    BY <2>2 DEF NavState
  <2>5. w \in Seq(Continuation)
    <3>1. n.resume \in Seq(Continuation)
      BY DEF NavState
    <3>2. Wakes(Top(n), result) => c \in Continuation
      BY <2>2 DEF Wakes, Continuation, Route
    <3> HIDE DEF c
    <3>. QED BY <3>1, <3>2, AppendFacts
  <2>6. Pop(n, result) = [stack |-> s, leaving |-> l, resume |-> w]
    BY <1>2 DEF Pop
  <2>7. \A i \in DOMAIN s : s[i].kind \in Screens => s[i].id # NoPage
    BY <2>1, <2>3, NonEmpty DEF Fits
  <2>8. s[1] = n.stack[1]
    BY <2>1, <2>3, NonEmpty
  <2> HIDE DEF s, l, w, k
  <2>. QED BY <2>3, <2>4, <2>5, <2>6, <2>7, <2>8 DEF NavState, Fits
<1>. QED BY <1>1, <1>2

\* Navigator.pushAndRemoveUntil(r => r.isFirst) keeps the type and the first route.
LEMMA PushOverFirstType ==
  ASSUME NEW n \in NavState, n.stack # << >>, Fits(n), NEW kind \in Kinds
  PROVE  /\ PushOverFirst(n, kind) \in NavState
         /\ PushOverFirst(n, kind).stack # << >>
         /\ PushOverFirst(n, kind).stack[1] = n.stack[1]
<1> DEFINE m == [n EXCEPT !.stack = FirstPage(n.stack),
                          !.leaving = n.leaving \cup Removed(n.stack)]
<1>1. /\ FirstPage(n.stack) \in Seq(Route)
      /\ FirstPage(n.stack) # << >> /\ FirstPage(n.stack)[1] = n.stack[1]
  BY NonEmpty, FrontFacts DEF FirstPage, NavState
<1>2. Removed(n.stack) \in SUBSET Ids
  <2>1. \A i \in DOMAIN n.stack : n.stack[i] \in Route
    BY NonEmpty DEF NavState
  <2>2. \A i \in DOMAIN n.stack : n.stack[i].kind \in Screens => n.stack[i].id \in Ids
    BY <2>1 DEF Fits, Route, PageRef
  <2>. QED BY <2>2 DEF Removed
<1>3. m \in NavState /\ m.stack = FirstPage(n.stack)
  BY <1>1, <1>2 DEF NavState
<1>4. PushOverFirst(n, kind) = Push(m, kind, NoPage)
  BY DEF PushOverFirst
<1> HIDE DEF m
<1>. QED BY <1>1, <1>3, <1>4, PushType DEF PageRef

\* The end of an exit animation keeps the type; only openers are forgotten.
LEMMA UnmountedType ==
  ASSUME NEW n \in NavState, n.stack # << >>, Fits(n), NEW i \in Ids
  PROVE  /\ Unmounted(n, i) \in NavState
         /\ Unmounted(n, i).stack # << >>
         /\ Fits(Unmounted(n, i))
         /\ Unmounted(n, i).stack[1].kind = n.stack[1].kind
<1> DEFINE f(k) == [n.stack[k] EXCEPT !.opener = Forget(n.stack[k].opener, i)]
           s == [k \in DOMAIN n.stack |-> f(k)]
<1>1. n.stack \in Seq(Route) /\ DOMAIN n.stack = 1 .. Len(n.stack) /\ Len(n.stack) \in Nat \ {0}
  BY NonEmpty DEF NavState
<1>2. \A k \in DOMAIN n.stack : /\ f(k) \in Route
                                /\ f(k).kind = n.stack[k].kind /\ f(k).id = n.stack[k].id
  <2>1. ASSUME NEW r \in Route
        PROVE  LET q == [r EXCEPT !.opener = Forget(r.opener, i)] IN
               q \in Route /\ q.kind = r.kind /\ q.id = r.id
    <3>1. Forget(r.opener, i) \in PageRef
      BY DEF Route, Forget, PageRef
    <3>. QED BY <3>1 DEF Route
  <2>2. \A k \in DOMAIN n.stack : n.stack[k] \in Route
    BY <1>1, NonEmpty
  <2>. QED BY <2>1, <2>2
<1>3. s \in Seq(Route) /\ s # << >> /\ DOMAIN s = DOMAIN n.stack
  <2>1. s \in [1 .. Len(n.stack) -> Route]
    BY <1>1, <1>2
  <2>2. s \in Seq(Route)
    BY <1>1, <2>1, SeqDef
  <2>. QED BY <1>1, <2>1, <2>2, NonEmpty
<1>4. /\ \A k \in DOMAIN s : s[k].kind \in Screens => s[k].id # NoPage
      /\ s[1].kind = n.stack[1].kind
  BY <1>1, <1>2, <1>3 DEF Fits
<1>5. Unmounted(n, i) = [n EXCEPT !.leaving = n.leaving \ {i}, !.stack = s]
  BY DEF Unmounted
<1> HIDE DEF s
<1>. QED BY <1>3, <1>4, <1>5 DEF NavState, Fits

\* The navigator an app starts with is well typed, its one route the page asked for.
LEMMA HomeType ==
  ASSUME NEW kind \in Screens
  PROVE  /\ Home(kind) \in NavState
         /\ Home(kind).stack # << >>
         /\ Fits(Home(kind))
         /\ Top(Home(kind)).id \in Ids
         /\ Home(kind).stack[1].kind = kind
<1> DEFINE r == [kind |-> kind, id |-> CHOOSE i \in Ids : TRUE, opener |-> NoPage]
<1>1. r \in Route /\ r.id \in Ids /\ r.kind = kind
  BY NavigatorAssumption DEF Route, PageRef, Kinds
<1>2. Home(kind) = [stack |-> << r >>, leaving |-> {}, resume |-> << >>]
  BY DEF Home
<1> HIDE DEF r
<1>. QED BY <1>1, <1>2, NavigatorAssumption DEF NavState, Fits, Top

\* The same, in one predicate.
LEMMA NavigatorOK ==
  ASSUME NEW n, NavOK(n)
  PROVE  /\ \A kind \in Kinds, opener \in PageRef :
              Fits(Push(n, kind, opener)) => NavOK(Push(n, kind, opener))
         /\ \A result \in BOOLEAN : NavOK(Pop(n, result))
         /\ \A kind \in Kinds :
              Fits(PushOverFirst(n, kind)) => NavOK(PushOverFirst(n, kind))
         /\ \A i \in Ids : NavOK(Unmounted(n, i))
BY PushType, PopType, PushOverFirstType, UnmountedType DEF NavOK

\* The first route is a screen, so an overlay has something below it.
LEMMA TopFacts ==
  ASSUME NEW n, NavOK(n)
  PROVE  /\ Top(n) \in Route /\ Top(n).id \in PageRef
         /\ Len(n.stack) > 1 => Below(n) \in Route /\ Below(n).id \in PageRef
         /\ Top(n).kind \notin Screens => Len(n.stack) > 1
<1> DEFINE k == Len(n.stack)
<1>1. k \in Nat /\ k >= 1
  BY NonEmpty DEF NavOK, NavState
<1>2. Top(n) \in Route /\ (Len(n.stack) > 1 => Below(n) \in Route)
  BY TopType, BelowType DEF NavOK
<1>3. ASSUME Top(n).kind \notin Screens
      PROVE  Len(n.stack) > 1
  <2>1. k # 1
    BY <1>3 DEF Top, NavOK
  <2> HIDE DEF k
  <2>2. k > 1
    BY <1>1, <2>1
  <2>. QED BY <2>2 DEF k
<1>. QED BY <1>2, <1>3 DEF Route

-----------------------------------------------------------------------------
(* The shell's helpers *)

\* HOWNDProgressIndicator.hideProgress leaves a navigator in use.
LEMMA HideType ==
  ASSUME NEW n, NavOK(n)
  PROVE  NavOK(HideProgress(n))
BY NavigatorOK DEF HideProgress

\* So does a dialog or page shown by a handler after an await.
LEMMA ShowType ==
  ASSUME NEW n, NavOK(n), NEW page \in PageRef, NEW kind \in Kinds,
         Fits(Show(n, page, kind))
  PROVE  NavOK(Show(n, page, kind))
BY NavigatorOK DEF Show

\* Every way the handlers record the await they have come to is a Call.
LEMMA CallTypes ==
  /\ Idle \in Call
  /\ \A step \in Steps \ AccountSteps, page \in PageRef : Waiting(step, page) \in Call
  /\ \A step \in Steps, page \in PageRef, u \in Users, s \in Notices :
       [Waiting(step, page) EXCEPT !.user = u, !.sub = s] \in Call
  /\ \A call \in Call, step \in Steps, u \in Session :
       (step \in AccountSteps => call.step \in AccountSteps) =>
         /\ [call EXCEPT !.step = step] \in Call
         /\ [call EXCEPT !.step = step, !.name = u] \in Call
  /\ \A call \in Call, step \in Steps \ AccountSteps : [call EXCEPT !.step = step] \in Call
  /\ \A call \in Call, page \in PageRef : [call EXCEPT !.page = page] \in Call
<1> USE DEF Call, Session, Notices
<1>1. Idle \in Call
  BY DEF Idle, Steps, AccountSteps, PageRef
<1>2. ASSUME NEW step \in Steps, NEW page \in PageRef
      PROVE  /\ step \notin AccountSteps => Waiting(step, page) \in Call
             /\ \A u \in Users, s \in Notices :
                  [Waiting(step, page) EXCEPT !.user = u, !.sub = s] \in Call
  BY DEF Idle, Waiting
<1>3. ASSUME NEW call \in Call, NEW step \in Steps, NEW u \in Session,
             step \in AccountSteps => call.step \in AccountSteps
      PROVE  /\ [call EXCEPT !.step = step] \in Call
             /\ [call EXCEPT !.step = step, !.name = u] \in Call
  <2>1. /\ [call EXCEPT !.step = step].step = step
        /\ [call EXCEPT !.step = step].user = call.user
        /\ [call EXCEPT !.step = step, !.name = u].step = step
        /\ [call EXCEPT !.step = step, !.name = u].user = call.user
    OBVIOUS
  <2>. QED BY <2>1, <1>3
<1>4. ASSUME NEW call \in Call, NEW page \in PageRef
      PROVE  [call EXCEPT !.page = page] \in Call
  OBVIOUS
<1>. QED BY <1>1, <1>2, <1>3, <1>4

\* What a login or registration writes to lib/globals.dart has its type.
LEMMA SignedInAsType ==
  ASSUME TypeOK, NEW u \in Session, NEW name \in Session, NEW notice \in Notices
  PROVE  SignedInAs(u, name, notice) \in Globals
BY DEF TypeOK, SignedInAs, Globals

\* What can be read as isSubscribed is "Yes" or "No", never "none".
LEMMA NoticeReadType ==
  ASSUME TypeOK, NEW u \in Users, NEW old \in Notices
  PROVE  NoticeRead(u, old) \subseteq Notices
BY DEF TypeOK, NoticeRead, Notices

\* Opening the map from a handler keeps the types of navigator and calls.
LEMMA OpenMapType ==
  ASSUME TypeOK, NEW c \in Slots, NEW n, NavOK(n), NEW page \in PageRef,
         OpenMap(c, n, page), Fits(nav')
  PROVE  NavOK(nav') /\ calls' \in [Slots -> Call]
<1>1. NavOK(nav')
  <2>1. nav' = Show(n, page, "Map")
    BY DEF OpenMap
  <2>. QED BY <2>1, ShowType DEF Kinds, Screens
<1>2. IF Mounted(n, page) THEN Waiting("open", FreshId(n)) \in Call ELSE Idle \in Call
  BY CallTypes, FreshIdType DEF Steps, AccountSteps
<1>. QED BY <1>1, <1>2 DEF OpenMap, TypeOK

\* LoadWeatherEvents keeps the types of navigator, calls and mcontext.
LEMMA LoadType ==
  ASSUME TypeOK, NEW c \in Slots, NEW n, NavOK(n), NEW page \in PageRef,
         Load(c, n, page), Fits(nav')
  PROVE  /\ NavOK(nav') /\ calls' \in [Slots -> Call]
         /\ mcontext' \in PageRef
<1>1. NavOK(nav')
  BY NavigatorOK DEF Load, ShowProgress, Kinds, PageRef
<1>2. Waiting("query", page) \in Call
  BY CallTypes DEF Steps, AccountSteps
<1>. QED BY <1>1, <1>2 DEF Load, ShowProgress, Awaits, TypeOK

\* A handler that only moves on to its next await, or ends.
LEMMA CallsType ==
  ASSUME TypeOK, NEW c \in Slots, NEW call \in Call,
         Ends(c) \/ Awaits(c, call)
  PROVE  calls' \in [Slots -> Call]
BY CallTypes DEF Ends, Awaits, TypeOK

-----------------------------------------------------------------------------
(* Type correctness *)

\* A fresh install is well typed.
LEMMA TypeInit == Init => TypeOK
<1> SUFFICES ASSUME Init PROVE TypeOK
  OBVIOUS
<1>1. NavOK(nav)
  BY HomeType DEF Init, NavOK, Screens
<1>2. calls \in [Slots -> Call]
  BY CallTypes DEF Init
<1>3. globals \in Globals /\ auth \in Session /\ mcontext \in PageRef
  BY DEF Init, LoggedOut, Globals, Session, Notices, PageRef
<1>. QED BY <1>1, <1>2, <1>3 DEF Init, TypeOK

\* No tap disturbs the types.
LEMMA TypeTap ==
  ASSUME TypeOK, Tap
  PROVE  TypeOK'
<1> USE DEF TypeOK
<1>0. /\ Top(nav) \in Route /\ Top(nav).id \in PageRef
      /\ Len(nav.stack) > 1 => Below(nav) \in Route /\ Below(nav).id \in PageRef
      /\ Top(nav).kind \notin Screens => Len(nav.stack) > 1
  BY TopFacts
<1>1. ASSUME NEW on, NEW kind \in Kinds, Open(on, kind)
      PROVE  TypeOK'
  <2>1. NavOK(nav')
    BY <1>0, <1>1, NavigatorOK DEF Open
  <2>. QED BY <2>1, <1>1 DEF Open, server
<1>2. ASSUME DrawerInfo
      PROVE  TypeOK'
  <2>1. NavOK(nav')
    <3>1. NavOK(Pop(nav, FALSE))
      BY NavigatorOK
    <3>. QED BY <1>2, <3>1, NavigatorOK DEF DrawerInfo, PageRef, Kinds
  <2>. QED BY <2>1, <1>2 DEF DrawerInfo, server
<1>3. ASSUME EnterAsGuest
      PROVE  TypeOK'
  <2>1. NavOK(nav') /\ calls' \in [Slots -> Call]
    BY <1>0, <1>3, OpenMapType DEF EnterAsGuest
  <2>. QED BY <2>1, <1>3 DEF EnterAsGuest, server
<1>4. ASSUME NEW on, NEW step \in Steps, NEW u \in Session, NEW s \in Notices,
             step \in AccountSteps => u \in Users, Submit(on, step, u, s)
      PROVE  TypeOK'
  <2>1. NavOK(nav') /\ mcontext' \in PageRef
    BY <1>0, <1>4, NavigatorOK DEF Submit, ShowProgress, PageRef, Kinds
  <2>2. calls' \in [Slots -> Call]
    <3>1. [Waiting(step, Top(nav).id) EXCEPT !.user = u, !.sub = s] \in Call
      BY <1>0, <1>4 DEF Waiting, Idle, Call, Session, Notices
    <3>. QED BY <1>4, <3>1, CallsType DEF Submit
  <2>. QED BY <2>1, <2>2, <1>4 DEF Submit, server
<1>5. ASSUME SelectFilter
      PROVE  TypeOK'
  <2>1. NavOK(Pop(nav, FALSE))
    BY NavigatorOK
  <2>2. Below(nav).id \in PageRef
    BY <1>0, <1>5 DEF SelectFilter, On, Screens
  <2>3. NavOK(nav') /\ calls' \in [Slots -> Call] /\ mcontext' \in PageRef
    BY <2>1, <2>2, <1>5, LoadType DEF SelectFilter
  <2>. QED BY <2>3, <1>5 DEF SelectFilter, server
<1>6. ASSUME AddObservation
      PROVE  TypeOK'
  <2>1. NavOK(nav')
    BY <1>0, <1>6, NavigatorOK DEF AddObservation, Kinds, Screens
  <2>. QED BY <2>1, <1>6 DEF AddObservation, server
<1>7. ASSUME DrawerLogin
      PROVE  TypeOK'
  <2>1. NavOK(Pop(nav, FALSE))
    BY NavigatorOK
  <2>2. NavOK(nav')
    BY <2>1, <1>7, NavigatorOK DEF DrawerLogin, Kinds, Screens
  <2>. QED BY <2>2, <1>7 DEF DrawerLogin, server
<1>8. ASSUME DrawerLogout
      PROVE  TypeOK'
  <2>1. Below(nav).id \in PageRef
    BY <1>0, <1>8 DEF DrawerLogout, On, Screens
  <2>2. NavOK(nav') /\ mcontext' \in PageRef
    BY <2>1, <1>8, NavigatorOK DEF DrawerLogout, ShowProgress, PageRef, Kinds
  <2>3. calls' \in [Slots -> Call]
    BY <2>1, <1>8, CallTypes, CallsType DEF DrawerLogout, Steps, AccountSteps
  <2>. QED BY <2>2, <2>3, <1>8 DEF DrawerLogout, server
<1>9. ASSUME NEW kinds, Close(kinds)
      PROVE  TypeOK'
  BY <1>9, NavigatorOK DEF Close, server
<1>. QED
  BY <1>1, <1>2, <1>3, <1>4, <1>5, <1>6, <1>7, <1>8, <1>9
  DEF Tap, OpenSignup, OpenForgot, OpenFilter, OpenDrawer, RejectForm, OpenInfo,
      SubmitLogin, SubmitSignup, SubmitReset, SubmitPublish, GoBack, PressSystemBack,
      Kinds, Screens, Steps, AccountSteps, Session, Notices

\* No answer to an awaited call disturbs the types.
LEMMA TypeAnswer ==
  ASSUME TypeOK, NEW c \in Slots, Answer(c)
  PROVE  TypeOK'
<1> DEFINE call == calls[c]
<1> USE DEF TypeOK
<1>1. /\ call \in Call /\ call.step \in Steps /\ call.page \in PageRef
      /\ call.user \in Session /\ call.name \in Session /\ call.sub \in Notices
  BY DEF Call
<1>2. NavOK(nav) /\ NavOK(HideProgress(nav))
  BY HideType
<1> HIDE DEF call
<1>3. CASE FirstFrame(c)
  <2>1. CASE call.page \in StackIds(nav)
    <3>1. Load(c, nav, call.page) /\ Fits(nav')
      BY <2>1, <1>3 DEF FirstFrame, call
    <3>2. NavOK(nav') /\ calls' \in [Slots -> Call] /\ mcontext' \in PageRef
      BY <3>1, <1>1, <1>2, LoadType
    <3>. QED BY <3>2, <1>3 DEF FirstFrame, server
  <2>2. CASE call.page \notin StackIds(nav)
    BY <2>2, <1>3, CallTypes DEF FirstFrame, server, Ends, call
  <2>. QED BY <2>1, <2>2
<1>4. CASE QueryAnswered(c)
  BY <1>4, <1>2, CallTypes DEF QueryAnswered, server, Ends
<1>5. ASSUME Rejected(c)
      PROVE  /\ NavOK(nav') /\ calls' \in [Slots -> Call]
             /\ mcontext' \in PageRef /\ globals' \in Globals
  BY <1>5, <1>1, <1>2, CallTypes, ShowType DEF Rejected, Ends, Kinds, call
<1>6. CASE LoginFails(c) \/ ResetAnswered(c)
  BY <1>6, <1>5 DEF LoginFails, ResetAnswered, server
<1>7. CASE SignedIn(c)
  BY <1>7, <1>1, CallTypes DEF SignedIn, At, Awaits, DisplayName, Session, Steps, AccountSteps, call
<1>8. CASE LoginCompletes(c)
  <2>1. call.user \in Users
    BY <1>8, <1>1 DEF LoginCompletes, At, call, Call, AccountSteps
  <2>2. PICK notice \in NoticeRead(call.user, globals.isSubscribed) :
          globals' = SignedInAs(call.user, call.name, notice)
    BY <1>8 DEF LoginCompletes, call
  <2>3. globals' \in Globals
    BY <2>1, <2>2, <1>1, NoticeReadType, SignedInAsType DEF Globals
  <2>4. NavOK(nav') /\ calls' \in [Slots -> Call]
    BY <1>8, <1>1, <1>2, OpenMapType DEF LoginCompletes, call
  <2>. QED BY <2>3, <2>4, <1>8 DEF LoginCompletes, server
<1>9. CASE SignupFails(c)
  BY <1>9, <1>5 DEF SignupFails
<1>10. CASE Created(c)
  BY <1>10, <1>1, CallTypes DEF Created, At, Awaits, Steps, AccountSteps, call
<1>11. CASE ProfileUpdated(c)
  BY <1>11, <1>1, CallTypes DEF ProfileUpdated, At, Awaits, Steps, AccountSteps, call
<1>12. CASE SignupCompletes(c)
  <2>1. globals' \in Globals
    BY <1>12, <1>1, SignedInAsType DEF SignupCompletes, Globals, call
  <2>2. subs' \in [Users -> {"none", "Yes", "No"}]
    BY <1>12, <1>1 DEF SignupCompletes, Notices, call
  <2>3. NavOK(nav')
    BY <1>12, <1>1, <1>2, ShowType DEF SignupCompletes, Kinds, Awaited, call
  <2>. QED BY <2>1, <2>2, <2>3, <1>12, CallTypes DEF SignupCompletes, Ends
<1>13. CASE AuthForgets(c)
  BY <1>13, <1>1, CallTypes
  DEF AuthForgets, Awaits, Steps, AccountSteps, Session, call
<1>14. CASE LogoutCompletes(c)
  <2>1. NavOK(nav')
    BY <1>14, <1>2, NavigatorOK DEF LogoutCompletes, Kinds, Screens
  <2>2. globals' \in Globals
    BY <1>14 DEF LogoutCompletes, ForgetSession, LoggedOut, Globals, Session, Notices
  <2>. QED BY <2>1, <2>2, <1>14, CallTypes DEF LogoutCompletes, Ends, server
<1>15. CASE Located(c)
  BY <1>15, <1>1, CallTypes DEF Located, Awaits, Steps, AccountSteps, server, call
<1>16. CASE NotLocated(c)
  BY <1>16, <1>1, <1>2, CallTypes, ShowType
  DEF NotLocated, Ends, Kinds, Awaited, server, call
<1>17. CASE PublishCompletes(c)
  BY <1>17, <1>1, <1>2, CallTypes, ShowType
  DEF PublishCompletes, Ends, Kinds, Awaited, server, call
<1>18. CASE Uncaught(c)
  BY <1>18, CallTypes DEF Uncaught, Ends, server
<1>. QED
  BY <1>3, <1>4, <1>6, <1>7, <1>8, <1>9, <1>10, <1>11, <1>12, <1>13, <1>14,
     <1>15, <1>16, <1>17, <1>18 DEF Answer

\* No continuation of an await on a route disturbs the types.
LEMMA TypeResume ==
  ASSUME TypeOK, Resume
  PROVE  TypeOK'
<1> USE DEF TypeOK
<1>1. nav.resume # << >>
  BY DEF Resume, AfterPublish, AfterAck, AfterBadLocation, AfterThanks, Woken
<1>2. NavOK(Resumed) /\ Opener \in PageRef
  <2>1. nav.resume \in Seq(Continuation)
    BY DEF NavOK, NavState
  <2>2. Tail(nav.resume) \in Seq(Continuation) /\ Head(nav.resume) \in Continuation
    BY <1>1, <2>1
  <2>. QED BY <2>2 DEF Resumed, Opener, NavOK, NavState, Fits, Continuation
<1>3. CASE AfterPublish
  <2>1. NavOK(nav') /\ calls' \in [Slots -> Call] /\ mcontext' \in PageRef
    BY <1>2, <1>3, LoadType DEF AfterPublish
  <2>. QED BY <2>1, <1>3 DEF AfterPublish, server
<1>4. CASE AfterAck
  <2>1. NavOK(nav') /\ calls' \in [Slots -> Call]
    BY <1>2, <1>4, OpenMapType DEF AfterAck
  <2>. QED BY <2>1, <1>4 DEF AfterAck, server
<1>5. CASE AfterBadLocation
  BY <1>2, <1>5, HideType DEF AfterBadLocation, server
<1>6. CASE AfterThanks
  BY <1>2, <1>6, NavigatorOK DEF AfterThanks, server
<1>. QED BY <1>3, <1>4, <1>5, <1>6 DEF Resume

\* The end of an exit animation does not disturb the types.
LEMMA TypeUnmount ==
  ASSUME TypeOK, Unmount
  PROVE  TypeOK'
<1> USE DEF TypeOK
<1> PICK i \in nav.leaving :
      /\ nav' = Unmounted(nav, i)
      /\ mcontext' = Forget(mcontext, i)
      /\ calls' = [c \in Slots |-> [calls[c] EXCEPT !.page = Forget(@, i)]]
      /\ UNCHANGED <<globals, server>>
  BY DEF Unmount
<1>1. i \in Ids
  BY DEF NavOK, NavState
<1>2. \A p \in PageRef : Forget(p, i) \in PageRef
  BY DEF Forget, PageRef
<1>3. \A c \in Slots : calls[c].page \in PageRef
  BY DEF Call
<1>4. calls' \in [Slots -> Call]
  BY <1>2, <1>3, CallTypes
<1>. QED BY <1>1, <1>2, <1>4, NavigatorOK DEF server

\* A restart, at whatever moment, leads to a well-typed state.
LEMMA TypeRestart ==
  ASSUME TypeOK, Restart
  PROVE  TypeOK'
<1> USE DEF TypeOK
<1> DEFINE home == IF auth = NoUser THEN "Login" ELSE "Map"
<1>1. PICK notice \in IF auth = NoUser THEN {"No"} ELSE NoticeRead(auth, "No") :
        Boot(notice)
  BY DEF Restart
<1>2. notice \in Notices
  BY NoticeReadType DEF Notices, Session
<1>3. home \in Screens
  BY DEF Screens
<1>4. NavOK(Home(home)) /\ Top(Home(home)).id \in PageRef
  BY <1>3, HomeType DEF NavOK, PageRef
<1>5. nav' = Home(home) /\ mcontext' = NoPage
  BY <1>1 DEF Boot
<1>6. globals' \in Globals
  BY <1>1, <1>2 DEF Boot, Globals, LoggedOut, DisplayName, Session, Notices
<1>7. calls' \in [Slots -> Call]
  <2>1. PICK first \in Slots :
          calls' = [c \in Slots |->
                      IF home = "Map" /\ c = first
                      THEN Waiting("open", Top(Home(home)).id) ELSE Idle]
    BY <1>1 DEF Boot
  <2>2. Waiting("open", Top(Home(home)).id) \in Call /\ Idle \in Call
    BY <1>4, CallTypes DEF Steps, AccountSteps
  <2>. QED BY <2>1, <2>2
<1> HIDE DEF home
<1>. QED BY <1>4, <1>5, <1>6, <1>7 DEF Restart, server, PageRef

\* TypeOK is inductive.
LEMMA TypeNext == TypeOK /\ [Next]_vars => TypeOK'
<1> SUFFICES ASSUME TypeOK, [Next]_vars
             PROVE  TypeOK'
  OBVIOUS
<1>1. CASE UNCHANGED vars
  BY <1>1 DEF vars, TypeOK
<1>. QED
  BY <1>1, TypeTap, TypeAnswer, TypeResume, TypeUnmount, TypeRestart DEF Next

\* Every reachable state is well typed: the navigator always has a page at its
\* root, every mounted screen has an identity, every handler of an account
\* step knows its account.  This is what the handlers of lib/*.dart rely on
\* when they use Navigator.of(context) after an await.
THEOREM TypeCorrect == Spec => []TypeOK
BY TypeInit, TypeNext, PTL DEF Spec
=============================================================================
