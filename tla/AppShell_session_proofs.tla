----------------------- MODULE AppShell_session_proofs -----------------------
(***************************************************************************)
(* What lib/globals.dart says of the session is right, on a phone without  *)
(* a back button, for any number of accounts, screens and handlers.        *)
(***************************************************************************)
EXTENDS AppShell_modal_proofs

-----------------------------------------------------------------------------
(* Which kinds of pages the navigator's operators leave on the stack *)

NoForm(n) == \A i \in DOMAIN n.stack : n.stack[i].kind # "Publish"

\* A pushed page covers nothing but itself; a Map covers everything.
LEMMA PushedKinds ==
  ASSUME NEW n, NavOK(n), NEW kind \in Kinds, NEW opener \in PageRef
  PROVE  LET m == Push(n, kind, opener) IN
         /\ kind = "Map" => Covered(m)
         /\ kind \notin Entrances /\ Covered(n) => Covered(m)
         /\ kind # "Publish" /\ NoForm(n) => NoForm(m)
<1> DEFINE k == Len(n.stack)
           m == Push(n, kind, opener)
<1>1. k \in Nat /\ DOMAIN n.stack = 1 .. k
  BY NonEmpty DEF NavOK, NavState
<1>2. /\ DOMAIN m.stack = 1 .. (k + 1)
      /\ \A i \in 1 .. k : m.stack[i] = n.stack[i]
      /\ m.stack[k + 1].kind = kind
  BY PushFacts
<1> HIDE DEF m, k
<1>3. \A i \in DOMAIN m.stack : i \in DOMAIN n.stack \/ i = k + 1
  BY <1>1, <1>2
<1>4. \A i \in DOMAIN n.stack : i \in DOMAIN m.stack /\ m.stack[i] = n.stack[i] /\ i < k + 1
  BY <1>1, <1>2
<1>5. k + 1 \in DOMAIN m.stack
  BY <1>1, <1>2
<1>6. kind = "Map" => Covered(m)
  BY <1>2, <1>3, <1>4, <1>5 DEF Covered, Entrances
<1>7. kind \notin Entrances /\ Covered(n) => Covered(m)
  BY <1>2, <1>3, <1>4 DEF Covered
<1>8. kind # "Publish" /\ NoForm(n) => NoForm(m)
  BY <1>2, <1>3, <1>4 DEF NoForm
<1>. QED BY <1>6, <1>7, <1>8 DEF m

\* Popping anything but a Map uncovers nothing.
LEMMA PoppedKinds ==
  ASSUME NEW n, NavOK(n), NEW result \in BOOLEAN
  PROVE  LET m == Pop(n, result) IN
         /\ Top(n).kind # "Map" /\ Covered(n) => Covered(m)
         /\ NoForm(n) => NoForm(m)
<1> DEFINE m == Pop(n, result)
           k == Len(n.stack)
<1>1. k \in Nat /\ DOMAIN n.stack = 1 .. k
  BY NonEmpty DEF NavOK, NavState
<1>2. CASE k <= 1
  BY <1>2 DEF Pop
<1>3. CASE k > 1
  <2>1. /\ DOMAIN m.stack = 1 .. (k - 1)
        /\ \A i \in 1 .. (k - 1) : m.stack[i] = n.stack[i]
    BY <1>3, PopFacts
  <2>2. Top(n) = n.stack[k]
    BY DEF Top
  <2> HIDE DEF m, k
  <2>3. /\ \A i \in DOMAIN n.stack : i \in DOMAIN m.stack \/ i = k
        /\ \A i \in DOMAIN m.stack : i \in DOMAIN n.stack /\ m.stack[i] = n.stack[i]
    BY <1>1, <1>3, <2>1
  <2>4. Top(n).kind # "Map" /\ Covered(n) => Covered(m)
    BY <2>2, <2>3 DEF Covered
  <2>5. NoForm(n) => NoForm(m)
    BY <2>3 DEF NoForm
  <2>. QED BY <2>4, <2>5 DEF m
<1>. QED BY <1>1, <1>2, <1>3

\* Login over the first route leaves no form: a form is never the first route.
LEMMA FirstIsNoForm ==
  ASSUME NEW n, NavOK(n), WellStacked(n)
  PROVE  NoForm(PushOverFirst(n, "Login"))
<1> DEFINE m == [n EXCEPT !.stack = FirstPage(n.stack),
                          !.leaving = n.leaving \cup Removed(n.stack)]
<1>1. /\ Len(n.stack) \in Nat \ {0} /\ DOMAIN n.stack = 1 .. Len(n.stack)
      /\ n.stack \in Seq(Route)
  BY WellStackedFacts DEF NavOK, NavState
<1>2. 1 \in DOMAIN n.stack /\ ~(\E j \in 1 .. (1 - 1) : TRUE)
  BY <1>1
<1>3. n.stack[1].kind # "Publish"
  BY <1>2 DEF WellStacked, Placed
<1>4. m.stack = FirstPage(n.stack)
  BY DEF NavOK, NavState
<1>5. \A i \in DOMAIN m.stack :
        i \in DOMAIN n.stack /\ m.stack[i] = n.stack[i]
          /\ (i = 1 \/ (i = 2 /\ n.stack[2].kind = "Drawer"))
  <2>1. CASE Len(n.stack) > 1 /\ n.stack[2].kind = "Drawer"
    <3>1. m.stack = SubSeq(n.stack, 1, 2) /\ 2 \in 1 .. Len(n.stack)
      BY <1>1, <1>4, <2>1 DEF FirstPage
    <3>2. Len(m.stack) = 2 /\ DOMAIN m.stack = 1 .. 2
          /\ \A i \in 1 .. 2 : m.stack[i] = n.stack[i]
      BY <1>1, <3>1, FrontFacts, NonEmpty
    <3>. QED BY <1>1, <2>1, <3>2
  <2>2. CASE ~(Len(n.stack) > 1 /\ n.stack[2].kind = "Drawer")
    <3>1. m.stack = SubSeq(n.stack, 1, 1) /\ 1 \in 1 .. Len(n.stack)
      BY <1>1, <1>4, <2>2 DEF FirstPage
    <3>2. Len(m.stack) = 1 /\ DOMAIN m.stack = 1 .. 1
          /\ \A i \in 1 .. 1 : m.stack[i] = n.stack[i]
      BY <1>1, <3>1, FrontFacts, NonEmpty
    <3>. QED BY <1>1, <3>2
  <2>. QED BY <2>1, <2>2
<1>6. NoForm(m)
  BY <1>3, <1>5 DEF NoForm
<1>7. PushOverFirst(n, "Login").stack =
        Append(m.stack, [kind |-> "Login", id |-> FreshId(m), opener |-> NoPage])
  BY DEF PushOverFirst, Push, Screens
<1>8. m.stack \in Seq(Route) /\ [kind |-> "Login", id |-> FreshId(m), opener |-> NoPage] \in Route
  <2>1. FirstPage(n.stack) \in Seq(Route)
    BY <1>1, FrontFacts DEF FirstPage
  <2>2. FreshId(m) \in PageRef
    BY FreshIdType
  <2>. QED BY <1>4, <2>1, <2>2 DEF Route, Kinds, Screens, PageRef
<1> HIDE DEF m
<1>9. /\ PushOverFirst(n, "Login").stack[Len(m.stack) + 1].kind = "Login"
      /\ \A i \in 1 .. Len(m.stack) : PushOverFirst(n, "Login").stack[i] = m.stack[i]
      /\ DOMAIN PushOverFirst(n, "Login").stack = 1 .. (Len(m.stack) + 1)
  BY <1>7, <1>8, AppendFacts, NonEmpty
<1>10. Len(m.stack) \in Nat /\ DOMAIN m.stack = 1 .. Len(m.stack)
  BY <1>8, NonEmpty
<1>11. ASSUME NEW i \in 1 .. (Len(m.stack) + 1)
       PROVE  PushOverFirst(n, "Login").stack[i].kind # "Publish"
  <2>1. CASE i = Len(m.stack) + 1
    BY <1>9, <2>1
  <2>2. CASE i # Len(m.stack) + 1
    <3>1. i \in 1 .. Len(m.stack)
      BY <1>10, <2>2
    <3>. QED BY <1>6, <1>9, <1>10, <3>1 DEF NoForm
  <2>. QED BY <2>1, <2>2
<1>. QED BY <1>9, <1>11 DEF NoForm

\* The end of an exit animation changes no kind of page.
LEMMA UnmountedKinds ==
  ASSUME NEW n, NavOK(n), NEW x
  PROVE  /\ Covered(n) => Covered(Unmounted(n, x))
         /\ NoForm(n) => NoForm(Unmounted(n, x))
<1> DEFINE m == Unmounted(n, x)
<1>1. DOMAIN m.stack = DOMAIN n.stack /\ \A i \in DOMAIN n.stack : m.stack[i].kind = n.stack[i].kind
  <2>1. n.stack \in Seq(Route) /\ DOMAIN n.stack = 1 .. Len(n.stack)
    BY NonEmpty DEF NavOK, NavState
  <2>2. \A i \in DOMAIN n.stack : n.stack[i] \in Route
    BY <2>1, NonEmpty
  <2>. QED BY <2>1, <2>2 DEF Unmounted, NavOK, NavState, Route
<1> HIDE DEF m
<1>. QED BY <1>1 DEF Covered, NoForm, m

\* The first page.
LEMMA HomeKinds ==
  /\ Covered(Home("Map")) /\ NoForm(Home("Map")) /\ NoForm(Home("Login"))
<1>1. ASSUME NEW kind
      PROVE  DOMAIN Home(kind).stack = {1} /\ Home(kind).stack[1].kind = kind
  BY DEF Home
<1>. QED BY <1>1 DEF Covered, NoForm, Entrances

-----------------------------------------------------------------------------
(* What a tap or an answer finds *)

\* Firebase and globals agree, as they do unless an account call is answered.
Agreed == auth = IF globals.bLoggedIn THEN globals.firUserId ELSE NoUser

\* The account calls, of which none may be awaited for the two to agree.
Private == AccountSteps \cup {"signOut", "signedOut"}

\* No account call awaited and no spinner left by one that died.
LEMMA OutsideAccountCalls ==
  ASSUME TypeOK, SessionInv, \A d \in Slots : calls[d].step # "signedOut",
         \/ Top(nav).kind # "Spinner"
         \/ nav.resume # << >>
         \/ \E c \in Slots : calls[c].step \in Steps \ (Private \cup {"none"})
  PROVE  Agreed
<1>1. CASE globals.bLoggedIn
  BY <1>1 DEF SessionInv, SessionCoherent, Agreed
<1>2. CASE ~globals.bLoggedIn
  BY <1>2 DEF SessionInv, HalfSignedIn, Agreed, Private, AccountSteps
<1>. QED BY <1>1, <1>2

\* A page on which credentials are typed, on top, belongs to a guest.
LEMMA EntranceIsForGuests ==
  ASSUME TypeOK, SessionInv, nav.resume = << >>, Top(nav).kind \in Entrances
  PROVE  ~globals.bLoggedIn
<1>1. Len(nav.stack) \in Nat \ {0} /\ DOMAIN nav.stack = 1 .. Len(nav.stack)
  BY NonEmpty DEF TypeOK, NavOK, NavState
<1>2. ~Covered(nav)
  <2>1. Len(nav.stack) \in DOMAIN nav.stack /\ \A j \in DOMAIN nav.stack : ~(Len(nav.stack) < j)
    BY <1>1
  <2>. QED BY <2>1 DEF Covered, Top
<1>3. ~AckPending(nav)
  BY DEF AckPending, Entrances
<1>. QED BY <1>2, <1>3 DEF SessionInv

\* A form on top of the stack is a member's.
LEMMA FormIsForMembers ==
  ASSUME TypeOK, SessionInv, NEW i \in DOMAIN nav.stack, nav.stack[i].kind = "Publish"
  PROVE  globals.bLoggedIn
BY DEF SessionInv, FormNeedsSession

\* SessionInv says this of the stack.
StackFits(n) == /\ globals.bLoggedIn => Covered(n) \/ AckPending(n)
                /\ ~globals.bLoggedIn => NoForm(n)

LEMMA StackOfSession == SessionInv => StackFits(nav)
BY DEF SessionInv, StackFits, FormNeedsSession, NoForm

\* A step that leaves session and accounts alone, from a state where they agree.
LEMMA SessionLeftAlone ==
  ASSUME SessionInv, Agreed, UNCHANGED <<globals, auth, subs>>,
         StackFits(nav)', \A c \in Slots : AccountCall(calls[c])'
  PROVE  SessionInv'
<1>1. SessionCoherent'
  BY DEF SessionInv, SessionCoherent, Agreed
<1>2. ConsentRespected'
  BY DEF SessionInv, ConsentRespected
<1>3. FormNeedsSession' /\ (globals'.bLoggedIn => Covered(nav') \/ AckPending(nav'))
  BY DEF StackFits, NoForm, FormNeedsSession
<1>4. HalfSignedIn'
  BY DEF HalfSignedIn, Agreed
<1>. QED BY <1>1, <1>2, <1>3, <1>4 DEF SessionInv

\* A call that is none of the account calls asks nothing of the session.
LEMMA PlainCall ==
  ASSUME NEW call, call.step \notin Private \cup {"open"}
  PROVE  AccountCall(call)'
BY DEF AccountCall, Private, AccountSteps

LEMMA IdleCall == AccountCall(Idle)'
BY PlainCall DEF Idle, Private, AccountSteps

\* The call of one handler, the others idle.
LEMMA OneCall ==
  ASSUME TypeOK, NEW c \in Slots, NEW call, calls' = [calls EXCEPT ![c] = call],
         AccountCall(call)', \A d \in Slots \ {c} : calls[d] = Idle
  PROVE  \A d \in Slots : AccountCall(calls[d])'
<1>1. calls'[c] = call /\ \A d \in Slots \ {c} : calls'[d] = Idle
  BY DEF TypeOK
<1>2. AccountCall(calls[c])'
  BY <1>1 DEF AccountCall
<1>3. \A d \in Slots \ {c} : AccountCall(calls[d])'
  BY <1>1, IdleCall DEF AccountCall
<1>. QED BY <1>2, <1>3

\* Opening the Map covers whatever is below.
LEMMA OpenMapFits ==
  ASSUME TypeOK, NEW n, NavOK(n), NEW page \in PageRef, Mounted(n, page),
         NEW c \in Slots, \A d \in Slots \ {c} : calls[d] = Idle,
         OpenMap(c, n, page), globals'.bLoggedIn \/ NoForm(n)
  PROVE  StackFits(nav)' /\ \A d \in Slots : AccountCall(calls[d])'
<1>1. /\ nav' = Push(n, "Map", page)
      /\ calls' = [calls EXCEPT ![c] = Waiting("open", FreshId(n))]
  BY DEF OpenMap, Show
<1>2. Covered(nav') /\ (NoForm(n) => NoForm(nav'))
  BY <1>1, PushedKinds DEF Kinds, Screens
<1>3. AccountCall(Waiting("open", FreshId(n)))'
  BY <1>2 DEF AccountCall, Waiting, Idle, AccountSteps
<1>. QED BY <1>1, <1>2, <1>3, OneCall DEF StackFits

\* LoadWeatherEvents, and everything else that shows the spinner.
LEMMA SpinnerFits ==
  ASSUME NEW n, NavOK(n), NEW page, ShowProgress(n, page), UNCHANGED globals,
         globals.bLoggedIn => Covered(n), ~globals.bLoggedIn => NoForm(n)
  PROVE  StackFits(nav)'
<1>1. nav' = Push(n, "Spinner", NoPage)
  BY DEF ShowProgress
<1>2. "Spinner" \in Kinds /\ NoPage \in PageRef /\ "Spinner" \notin Entrances
  BY DEF Kinds, PageRef, Entrances
<1>3. (Covered(n) => Covered(nav')) /\ (NoForm(n) => NoForm(nav'))
  BY <1>1, <1>2, PushedKinds
<1>. QED BY <1>3 DEF StackFits

-----------------------------------------------------------------------------
(* Every step keeps SessionInv *)

LEMMA SessionInit == Init => SessionInv
<1> SUFFICES ASSUME Init PROVE SessionInv
  OBVIOUS
<1>1. SessionCoherent /\ ConsentRespected
  BY DEF Init, SessionCoherent, ConsentRespected, LoggedOut
<1>2. FormNeedsSession /\ ~globals.bLoggedIn
  BY HomeKinds DEF Init, FormNeedsSession, NoForm, LoggedOut
<1>3. \A c \in Slots : AccountCall(calls[c])
  BY <1>2 DEF Init, AccountCall, Idle, AccountSteps
<1>. QED BY <1>1, <1>2, <1>3 DEF Init, SessionInv, HalfSignedIn

LEMMA SessionTap ==
  ASSUME TypeOK, ModalInv, SessionInv, Tap, SystemBack = FALSE
  PROVE  SessionInv'
<1> DEFINE Settled == /\ \A c \in Slots : calls[c] = Idle
                      /\ nav.resume = << >> /\ NavOK(nav) /\ WellStacked(nav)
                      /\ NoSpinner(nav) /\ Agreed
<1>1. Ready /\ Top(nav).kind \notin {"Spinner", "BadLocation"} => Settled
  <2>1. SUFFICES ASSUME Ready, Top(nav).kind \notin {"Spinner", "BadLocation"}
                 PROVE  Settled
    OBVIOUS
  <2>2. /\ \A c \in Slots : calls[c] = Idle
        /\ nav.resume = << >> /\ NavOK(nav) /\ WellStacked(nav) /\ NoSpinner(nav)
    BY <2>1, TapsFindIdle
  <2>3. Agreed
    BY <2>1, <2>2, OutsideAccountCalls DEF Idle
  <2>. QED BY <2>2, <2>3
<1>2. \A kind : On(kind) /\ kind \notin {"Spinner", "BadLocation"} =>
           Settled /\ Top(nav).kind = kind
  BY <1>1 DEF On
<1>3. Settled => /\ \A c \in Slots : AccountCall(calls[c]) /\ AccountCall(Idle)'
                 /\ Top(nav).id \in PageRef
                 /\ Top(nav).kind # "Ack" /\ globals.bLoggedIn => Covered(nav)
                 /\ ~globals.bLoggedIn => NoForm(nav)
  <2>1. SUFFICES ASSUME Settled
                 PROVE  /\ Top(nav).kind # "Ack" /\ globals.bLoggedIn => Covered(nav)
                        /\ ~globals.bLoggedIn => NoForm(nav)
    BY IdleCall, TopFacts DEF SessionInv
  <2>. QED BY <2>1, StackOfSession DEF StackFits, AckPending
<1>4. ASSUME Settled, UNCHANGED <<globals, auth, subs>>, StackFits(nav)',
             \/ calls' = calls
             \/ \E c \in Slots : \E call : AccountCall(call)' /\ calls' = [calls EXCEPT ![c] = call]
      PROVE  SessionInv'
  <2>1. \A c \in Slots : AccountCall(calls[c])'
    <3>1. CASE calls' = calls
      <4>1. \A c \in Slots : calls'[c] = Idle
        BY <1>4, <3>1
      <4>. QED BY <1>3, <1>4, <4>1 DEF AccountCall
    <3>2. CASE \E c \in Slots : \E call : AccountCall(call)' /\ calls' = [calls EXCEPT ![c] = call]
      BY <1>4, <3>2, OneCall
    <3>. QED BY <1>4, <3>1, <3>2
  <2>. QED BY <1>4, <2>1, SessionLeftAlone
<1>5. ASSUME NEW on, NEW kind \in Kinds \ {"Publish", "Login"}, on \notin {"Spinner", "BadLocation", "Ack"},
             kind \in Entrances => on \in Entrances, Open(on, kind)
      PROVE  SessionInv'
  <2>1. Settled /\ Top(nav).kind = on
    BY <1>2, <1>5 DEF Open
  <2>2. /\ nav' = Push(nav, kind, Top(nav).id)
        /\ UNCHANGED <<calls, globals, auth, subs>>
    BY <1>5 DEF Open, server
  <2>3. kind \in Entrances => ~globals.bLoggedIn
    BY <1>5, <2>1, EntranceIsForGuests
  <2>4. /\ kind \notin Entrances /\ Covered(nav) => Covered(nav')
        /\ NoForm(nav) => NoForm(nav')
    BY <1>3, <1>5, <2>1, <2>2, PushedKinds
  <2>5. StackFits(nav)'
    BY <1>3, <1>5, <2>1, <2>2, <2>3, <2>4 DEF StackFits
  <2>. QED BY <1>4, <2>1, <2>2, <2>5
<1>6. CASE DrawerInfo
  <2>1. Settled /\ Top(nav).kind = "Drawer"
    BY <1>2, <1>6 DEF DrawerInfo
  <2>2. NavOK(Pop(nav, FALSE))
    BY <2>1, NavigatorOK
  <2>3. /\ globals.bLoggedIn => Covered(Pop(nav, FALSE))
        /\ ~globals.bLoggedIn => NoForm(Pop(nav, FALSE))
    BY <1>3, <2>1, PoppedKinds
  <2>4. /\ nav' = Push(Pop(nav, FALSE), "Info", NoPage)
        /\ UNCHANGED <<calls, globals, auth, subs>>
    BY <1>6 DEF DrawerInfo, server
  <2>5. "Info" \in Kinds \ Entrances /\ NoPage \in PageRef
    BY DEF Kinds, Entrances, PageRef
  <2>6. StackFits(nav)'
    BY <2>2, <2>3, <2>4, <2>5, PushedKinds DEF StackFits
  <2>. QED BY <1>4, <2>1, <2>4, <2>6
<1>7. CASE EnterAsGuest
  <2>1. Settled /\ Top(nav).kind = "Login"
    BY <1>2, <1>7 DEF EnterAsGuest
  <2>2. ~globals.bLoggedIn
    BY <2>1, EntranceIsForGuests DEF Entrances
  <2>3. PICK c \in Slots : OpenMap(c, nav, Top(nav).id)
    BY <1>7 DEF EnterAsGuest
  <2>4. Top(nav).id \in StackIds(nav) /\ Mounted(nav, Top(nav).id) /\ Top(nav).id \in PageRef
    BY <1>3, <2>1, TopIsOpen DEF Screens, Mounted
  <2>5. UNCHANGED <<globals, auth, subs>>
    BY <1>7 DEF EnterAsGuest, server
  <2>6. StackFits(nav)' /\ \A d \in Slots : AccountCall(calls[d])'
    BY <1>3, <2>1, <2>2, <2>3, <2>4, OpenMapFits
  <2>. QED BY <2>1, <2>5, <2>6, SessionLeftAlone
<1>8. ASSUME NEW on \in Screens, NEW step \in Steps \ {"none", "open", "signOut", "signedOut"},
             step \in AccountSteps => step \in {"signIn", "create"} /\ on \in Entrances,
             NEW u, NEW s, Submit(on, step, u, s)
      PROVE  SessionInv'
  <2>0. PICK call : call = [Waiting(step, Top(nav).id) EXCEPT !.user = u, !.sub = s]
    OBVIOUS
  <2>1. Settled /\ Top(nav).kind = on
    BY <1>2, <1>8 DEF Submit, Screens
  <2>2. /\ ShowProgress(nav, Top(nav).id)
        /\ UNCHANGED <<globals, auth, subs>>
        /\ \E c \in Slots : calls' = [calls EXCEPT ![c] = call]
    BY <1>8, <2>0 DEF Submit, Awaits, server
  <2>3. StackFits(nav)'
    BY <1>3, <1>8, <2>1, <2>2, SpinnerFits DEF Screens
  <2>4. call.step = step /\ call.name = NoUser
    BY <2>0 DEF Waiting, Idle
  <2>5. step \in AccountSteps => ~globals.bLoggedIn /\ auth = NoUser
    BY <1>8, <2>1, EntranceIsForGuests DEF Agreed
  <2>6. AccountCall(call)'
    BY <1>8, <2>2, <2>4, <2>5 DEF AccountCall, AccountSteps
  <2>. QED BY <1>4, <2>1, <2>2, <2>3, <2>6
<1>9. CASE SelectFilter
  <2>1. Settled /\ Top(nav).kind = "Filter"
    BY <1>2, <1>9 DEF SelectFilter
  <2>2. PICK c \in Slots : Load(c, Pop(nav, FALSE), Below(nav).id)
    BY <1>9 DEF SelectFilter
  <2>3. UNCHANGED <<globals, auth, subs>>
    BY <1>9 DEF SelectFilter, server
  <2>4. NavOK(Pop(nav, FALSE))
    BY <2>1, NavigatorOK
  <2>5. /\ globals.bLoggedIn => Covered(Pop(nav, FALSE))
        /\ ~globals.bLoggedIn => NoForm(Pop(nav, FALSE))
    BY <1>3, <2>1, PoppedKinds
  <2>6. StackFits(nav)'
    BY <2>2, <2>3, <2>4, <2>5, SpinnerFits DEF Load
  <2>7. PICK call : call = Waiting("query", Below(nav).id)
    OBVIOUS
  <2>8. AccountCall(call)'
    BY <2>7, PlainCall DEF Waiting, Idle, Private, AccountSteps
  <2>9. calls' = [calls EXCEPT ![c] = call]
    BY <2>2, <2>7 DEF Load, Awaits
  <2>. QED BY <1>4, <2>1, <2>3, <2>6, <2>8, <2>9
<1>10. CASE AddObservation
  <2>1. Settled /\ Top(nav).kind = "Map"
    BY <1>2, <1>10 DEF AddObservation
  <2>2. UNCHANGED <<calls, globals, auth, subs>>
    BY <1>10 DEF AddObservation, server
  <2>3. CASE MayPublish
    <3>1. nav' = Push(nav, "Publish", Top(nav).id) /\ globals.bLoggedIn
      BY <1>10, <2>3 DEF AddObservation, MayPublish
    <3>2. Covered(nav')
      BY <1>3, <2>1, <3>1, PushedKinds DEF Kinds, Screens, Entrances
    <3>. QED BY <1>4, <2>1, <2>2, <3>1, <3>2 DEF StackFits
  <2>4. CASE ~MayPublish
    <3>1. nav' = PushOverFirst(nav, "Login") /\ ~globals.bLoggedIn
      BY <1>10, <2>4 DEF AddObservation, MayPublish
    <3>2. NoForm(nav')
      BY <2>1, <3>1, FirstIsNoForm
    <3>. QED BY <1>4, <2>1, <2>2, <3>1, <3>2 DEF StackFits
  <2>. QED BY <2>3, <2>4
<1>11. CASE DrawerLogin
  <2>1. Settled /\ Top(nav).kind = "Drawer" /\ ~globals.bLoggedIn
    BY <1>2, <1>11 DEF DrawerLogin
  <2>2. NavOK(Pop(nav, FALSE)) /\ WellStacked(Pop(nav, FALSE))
    BY <2>1, OverlayCloses
  <2>3. /\ nav' = PushOverFirst(Pop(nav, FALSE), "Login")
        /\ UNCHANGED <<calls, globals, auth, subs>>
    BY <1>11 DEF DrawerLogin, server
  <2>4. NoForm(nav')
    BY <2>2, <2>3, FirstIsNoForm
  <2>. QED BY <1>4, <2>1, <2>3, <2>4 DEF StackFits
<1>12. CASE DrawerLogout
  <2>1. Settled /\ Top(nav).kind = "Drawer" /\ globals.bLoggedIn
    BY <1>2, <1>12 DEF DrawerLogout
  <2>2. PICK c \in Slots : Awaits(c, Waiting("signOut", Below(nav).id))
    BY <1>12 DEF DrawerLogout
  <2>3. ShowProgress(nav, Below(nav).id) /\ UNCHANGED <<globals, auth, subs>>
    BY <1>12 DEF DrawerLogout, server
  <2>4. StackFits(nav)'
    BY <1>3, <2>1, <2>3, SpinnerFits
  <2>5. PICK call : call = Waiting("signOut", Below(nav).id)
    OBVIOUS
  <2>6. AccountCall(call)'
    BY <2>1, <2>3, <2>5 DEF AccountCall, Waiting, Idle, AccountSteps
  <2>7. calls' = [calls EXCEPT ![c] = call]
    BY <2>2, <2>5 DEF Awaits
  <2>. QED BY <1>4, <2>1, <2>3, <2>4, <2>6, <2>7
<1>13. CASE GoBack
  <2>1. /\ Ready /\ Top(nav).kind \in ClosedByTap /\ nav' = Pop(nav, FALSE)
        /\ UNCHANGED <<calls, globals, auth, subs>> /\ Len(nav.stack) > 1
    BY <1>13 DEF GoBack, Close, server
  <2>2. /\ \A c \in Slots : calls[c] = Idle
        /\ nav.resume = << >> /\ NavOK(nav) /\ Agreed
    BY <2>1, TapsFindIdle, OutsideAccountCalls DEF ClosedByTap, Idle
  <2>3. NoForm(nav) => NoForm(nav')
    BY <2>1, <2>2, PoppedKinds
  <2>4. Covered(nav) => Covered(nav')
    BY <2>1, <2>2, PoppedKinds DEF ClosedByTap
  <2>5. Top(nav).kind = "Ack" => AckPending(nav')
    <3>1. SUFFICES ASSUME Top(nav).kind = "Ack" PROVE AckPending(nav')
      OBVIOUS
    <3>2. nav'.resume = Append(<< >>, [kind |-> "Ack", opener |-> Top(nav).opener])
      BY <2>1, <2>2, <3>1 DEF Pop, Wakes, Awaited
    <3>. QED BY <3>2 DEF AckPending
  <2>6. StackFits(nav)'
    BY <2>1, <2>2, <2>3, <2>4, <2>5, StackOfSession DEF StackFits, AckPending
  <2>7. \A c \in Slots : AccountCall(calls[c])'
    <3>1. \A c \in Slots : calls'[c] = Idle
      BY <2>1, <2>2
    <3>. QED BY <3>1, IdleCall DEF AccountCall
  <2>. QED BY <2>1, <2>2, <2>6, <2>7, SessionLeftAlone
<1>14. ~PressSystemBack
  BY DEF PressSystemBack
<1> HIDE DEF Settled
<1>15. CASE OpenSignup \/ OpenForgot \/ OpenFilter \/ OpenDrawer \/ RejectForm \/ OpenInfo
  BY <1>5, <1>15
  DEF OpenSignup, OpenForgot, OpenFilter, OpenDrawer, RejectForm, OpenInfo, Kinds, Screens,
      Awaited, Entrances
<1>16. CASE SubmitLogin \/ SubmitSignup \/ SubmitReset \/ SubmitPublish
  BY <1>8, <1>16
  DEF SubmitLogin, SubmitSignup, SubmitReset, SubmitPublish, Steps, Screens, AccountSteps, Entrances
<1>. QED
  BY <1>6, <1>7, <1>9, <1>10, <1>11, <1>12, <1>13, <1>14, <1>15, <1>16 DEF Tap

\* The session begins with a person whom Firebase knows.
LEMMA SessionBegins ==
  ASSUME TypeOK, NEW u \in Users, NEW name \in {NoUser, u}, NEW notice,
         globals = LoggedOut, globals' = SignedInAs(u, name, notice),
         auth' = u, notice = "Yes" => subs'[u] = "Yes",
         StackFits(nav)', \A c \in Slots : AccountCall(calls[c])'
  PROVE  SessionInv'
<1>1. /\ globals'.bLoggedIn /\ globals'.firUserId = u /\ globals'.isSubscribed = notice
      /\ globals'.userFullName \in {NoUser, u}
  BY DEF SignedInAs, LoggedOut
<1>2. SessionCoherent' /\ ConsentRespected'
  BY <1>1 DEF SessionCoherent, ConsentRespected
<1>3. FormNeedsSession' /\ (Covered(nav') \/ AckPending(nav')) /\ HalfSignedIn'
  BY <1>1 DEF FormNeedsSession, StackFits, HalfSignedIn
<1>. QED BY <1>2, <1>3 DEF SessionInv

\* A call that is one step further, or over, before globals hear of it.
LEMMA SessionOnItsWay ==
  ASSUME SessionInv, ~globals.bLoggedIn, UNCHANGED <<nav, globals, subs>>,
         Top(nav).kind = "Spinner", nav.resume = << >>,
         \A c \in Slots : /\ AccountCall(calls[c])'
                          /\ calls'[c].step \in {"none", "readSub", "profile", "writeSub"}
  PROVE  SessionInv'
<1>1. SessionCoherent' /\ ConsentRespected' /\ FormNeedsSession'
  BY DEF SessionInv, SessionCoherent, ConsentRespected, FormNeedsSession
<1>2. HalfSignedIn'
  BY DEF HalfSignedIn
<1>. QED BY <1>1, <1>2 DEF SessionInv

\* The step from which a handler goes on, and its call then, in the stack the
\* shell shows it.
LEMMA AnswerFinds ==
  ASSUME TypeOK, ModalInv, SessionInv, NEW c \in Slots,
         calls[c].step \notin {"none", "open"}
  PROVE  LET h == HideProgress(nav) IN
         /\ Locked(calls[c]) /\ \A d \in Slots \ {c} : calls[d] = Idle
         /\ AccountCall(calls[c])
         /\ NavOK(nav) /\ NavOK(h) /\ WellStacked(h) /\ NoSpinner(h) /\ h.resume = << >>
         /\ Top(h) = Below(nav) /\ calls[c].page \in StackIds(h) /\ Mounted(h, calls[c].page)
         /\ calls[c].page \in PageRef /\ Top(nav).kind = "Spinner"
         /\ globals.bLoggedIn => Covered(nav) /\ Covered(h)
         /\ ~globals.bLoggedIn => NoForm(nav) /\ NoForm(h)
<1> DEFINE h == HideProgress(nav)
<1>1. /\ Locked(calls[c]) /\ \A d \in Slots \ {c} : calls[d] = Idle
      /\ AccountCall(calls[c]) /\ NavOK(nav) /\ WellStacked(nav)
  BY DEF ModalInv, SessionInv, TypeOK, Idle
<1>2. /\ NavOK(h) /\ WellStacked(h) /\ NoSpinner(h) /\ h.resume = << >>
      /\ Top(h) = Below(nav) /\ calls[c].page \in StackIds(h)
  BY <1>1, HideUnlocks
<1>3. h = Pop(nav, FALSE) /\ Top(nav).kind = "Spinner" /\ nav.resume = << >>
  BY <1>1 DEF HideProgress, Locked, Mounted
<1>4. /\ globals.bLoggedIn => Covered(nav)
      /\ ~globals.bLoggedIn => NoForm(nav)
  BY <1>3, StackOfSession DEF StackFits, AckPending
<1>5. (Covered(nav) => Covered(h)) /\ (NoForm(nav) => NoForm(h))
  BY <1>1, <1>3, PoppedKinds
<1>6. calls[c].page \in PageRef
  BY DEF TypeOK, Call
<1>. QED BY <1>1, <1>2, <1>3, <1>4, <1>5, <1>6 DEF Mounted

\* An answer after which the handler shows a dialog and is done.
LEMMA DialogFits ==
  ASSUME TypeOK, ModalInv, SessionInv, NEW c \in Slots, calls[c].step \notin {"none", "open"},
         NEW kind \in {"Dialog", "Ack", "Thanks"},
         nav' = Show(HideProgress(nav), calls[c].page, kind),
         globals'.bLoggedIn = globals.bLoggedIn \/ (kind = "Ack" /\ globals'.bLoggedIn)
  PROVE  StackFits(nav)'
<1> DEFINE h == HideProgress(nav)
<1>1. /\ NavOK(h) /\ Mounted(h, calls[c].page) /\ calls[c].page \in PageRef
      /\ globals.bLoggedIn => Covered(h)
      /\ ~globals.bLoggedIn => NoForm(h)
  BY AnswerFinds
<1> HIDE DEF h
<1>2. nav' = Push(h, kind, calls[c].page)
  BY <1>1 DEF Show, h
<1>3. kind \in Kinds /\ kind \notin Entrances /\ kind # "Publish"
  BY DEF Kinds, Awaited, Entrances
<1>4. (Covered(h) => Covered(nav')) /\ (NoForm(h) => NoForm(nav'))
  BY <1>1, <1>2, <1>3, PushedKinds
<1>5. Top(nav').kind = kind
  BY <1>1, <1>2, <1>3, PushFacts
<1>6. nav'.resume = << >>
  <2>1. h.resume = << >>
    BY AnswerFinds DEF h
  <2>. QED BY <1>1, <1>2, <2>1 DEF Push, NavOK, NavState
<1>. QED BY <1>1, <1>4, <1>5, <1>6 DEF StackFits, AckPending

LEMMA SessionAnswer ==
  ASSUME TypeOK, ModalInv, SessionInv, NEW c \in Slots, Answer(c)
  PROVE  SessionInv'
<1> DEFINE h == HideProgress(nav)
<1>0. PICK call : call = calls[c]
  OBVIOUS
<1>1. /\ NavOK(nav) /\ call \in Call /\ AccountCall(call)
      /\ call.step \in AccountSteps => call.user \in Users
      /\ call.step \in Steps /\ call.page \in PageRef /\ globals \in Globals
  <2>1. call \in Call
    BY <1>0 DEF TypeOK
  <2>. QED BY <1>0, <2>1 DEF TypeOK, SessionInv, Call
<1>2. ASSUME call.step \notin {"none", "open"}
      PROVE  /\ Locked(call) /\ \A d \in Slots \ {c} : calls[d] = Idle
             /\ NavOK(h) /\ WellStacked(h) /\ NoSpinner(h) /\ h.resume = << >>
             /\ Top(h) = Below(nav) /\ Mounted(h, call.page)
             /\ Top(nav).kind = "Spinner"
             /\ globals.bLoggedIn => Covered(nav) /\ Covered(h)
             /\ ~globals.bLoggedIn => NoForm(nav) /\ NoForm(h)
  BY <1>0, <1>2, AnswerFinds
<1>3. ASSUME call.step \notin {"none", "open"}
      PROVE  StackFits(nav) /\ StackFits(h)
  BY <1>2, <1>3 DEF StackFits
\* A handler that ends or goes on without touching the session.
<1>4. ASSUME call.step \notin {"none", "open", "signedOut"}, Agreed,
             UNCHANGED <<globals, auth, subs>>, StackFits(nav)',
             NEW next, AccountCall(next)', calls' = [calls EXCEPT ![c] = next]
      PROVE  SessionInv'
  <2>1. \A d \in Slots : AccountCall(calls[d])'
    BY <1>2, <1>4, OneCall
  <2>. QED BY <1>4, <2>1, SessionLeftAlone
<1>5. call.step \in Steps \ (Private \cup {"none", "open"}) => Agreed
  <2>1. SUFFICES ASSUME call.step \in Steps \ (Private \cup {"none", "open"}) PROVE Agreed
    OBVIOUS
  <2>2. \A d \in Slots : calls[d].step # "signedOut"
    BY <1>0, <1>2, <2>1 DEF Idle, Private
  <2>. QED BY <1>0, <2>1, <2>2, OutsideAccountCalls
<1>6. call.step \in {"signIn", "create"} => Agreed
  BY <1>1 DEF AccountCall, AccountSteps, Agreed
<1>7. call.step = "signOut" => Agreed
  <2>1. SUFFICES ASSUME call.step = "signOut" PROVE Agreed
    OBVIOUS
  <2>2. \A d \in Slots : calls[d].step # "signedOut"
    BY <1>0, <1>2, <2>1 DEF Idle
  <2>. QED BY <1>1, <2>1, <2>2 DEF AccountCall, SessionInv, SessionCoherent, Agreed
<1>8. ASSUME call.step \notin {"none", "open", "signedOut"}, Agreed,
             UNCHANGED <<globals, auth, subs>>, StackFits(nav)', Ends(c)
      PROVE  SessionInv'
  BY <1>4, <1>8, IdleCall DEF Ends
<1>9. CASE FirstFrame(c)
  <2>1. /\ call.step = "open" /\ nav.resume = << >> /\ UNCHANGED <<globals, auth, subs>>
        /\ \A d \in Slots \ {c} : calls[d] = Idle
    BY <1>0, <1>9 DEF FirstFrame, At, ModalInv, Idle, server
  <2>2. Agreed
    <3>1. \A d \in Slots : calls[d].step # "signedOut"
      BY <1>0, <2>1 DEF Idle
    <3>2. "open" \in Steps \ (Private \cup {"none"})
      BY DEF Steps, Private, AccountSteps
    <3>. QED BY <1>0, <2>1, <3>1, <3>2, OutsideAccountCalls
  <2>3. /\ globals.bLoggedIn => Covered(nav)
        /\ ~globals.bLoggedIn => NoForm(nav)
    BY <1>1, <2>1, StackOfSession DEF AccountCall, StackFits
  <2>4. CASE call.page \in StackIds(nav)
    <3>1. ShowProgress(nav, call.page) /\ Awaits(c, Waiting("query", call.page))
      BY <1>0, <1>9, <2>4 DEF FirstFrame, Load
    <3>2. StackFits(nav)'
      BY <1>1, <2>1, <2>3, <3>1, SpinnerFits
    <3>3. AccountCall(Waiting("query", call.page))'
      BY PlainCall DEF Waiting, Idle, Private, AccountSteps
    <3>4. \A d \in Slots : AccountCall(calls[d])'
      BY <2>1, <3>1, <3>3, OneCall DEF Awaits
    <3>. QED BY <2>1, <2>2, <3>2, <3>4, SessionLeftAlone
  <2>5. CASE call.page \notin StackIds(nav)
    <3>1. nav' = nav /\ Ends(c)
      BY <1>0, <1>9, <2>5 DEF FirstFrame
    <3>2. \A d \in Slots : AccountCall(calls[d])'
      BY <2>1, <3>1, IdleCall, OneCall DEF Ends
    <3>. QED BY <2>1, <2>2, <2>3, <3>1, <3>2, SessionLeftAlone DEF StackFits
  <2>. QED BY <2>4, <2>5
<1>10. CASE QueryAnswered(c)
  <2>1. call.step = "query" /\ nav' \in {h, nav} /\ Ends(c) /\ UNCHANGED <<globals, auth, subs>>
    BY <1>0, <1>10 DEF QueryAnswered, At, server
  <2>. QED BY <1>3, <1>5, <1>8, <2>1 DEF StackFits, Steps, Private, AccountSteps
<1>11. CASE LoginFails(c) \/ SignupFails(c) \/ ResetAnswered(c)
  <2>1. /\ call.step \in {"signIn", "create", "send"} /\ nav' = Show(h, call.page, "Dialog")
        /\ Ends(c) /\ UNCHANGED <<globals, auth, subs>>
    BY <1>0, <1>11 DEF LoginFails, SignupFails, ResetAnswered, Rejected, At, server
  <2>2. StackFits(nav)'
    BY <1>0, <2>1, DialogFits
  <2>3. Agreed
    BY <1>5, <1>6, <2>1 DEF Steps, Private, AccountSteps
  <2>. QED BY <1>8, <2>1, <2>2, <2>3
<1>12. CASE SignedIn(c)
  <2>1. PICK next : next = [call EXCEPT !.step = "readSub", !.name = DisplayName(call.user)]
    OBVIOUS
  <2>2. /\ call.step = "signIn" /\ auth' = call.user /\ UNCHANGED <<nav, globals, subs>>
        /\ calls' = [calls EXCEPT ![c] = next]
    BY <1>0, <1>12, <2>1 DEF SignedIn, Awaits, At
  <2>3. next.step = "readSub" /\ next.user = call.user /\ next.name \in {NoUser, call.user}
    BY <1>1, <2>1 DEF Call, DisplayName
  <2>4. ~globals.bLoggedIn
    BY <1>1, <2>2 DEF AccountCall, AccountSteps
  <2>5. AccountCall(next)'
    BY <2>2, <2>3, <2>4 DEF AccountCall
  <2>6. \A d \in Slots : AccountCall(calls[d])'
    BY <1>2, <2>2, <2>5, OneCall
  <2>7. \A d \in Slots : calls'[d].step \in {"none", "readSub", "profile", "writeSub"}
    <3>1. calls'[c] = next /\ \A d \in Slots \ {c} : calls'[d] = Idle
      BY <1>2, <2>2 DEF TypeOK
    <3>. QED BY <2>3, <3>1 DEF Idle
  <2>. QED BY <1>2, <2>2, <2>4, <2>6, <2>7, SessionOnItsWay DEF Locked
<1>13. CASE LoginCompletes(c)
  <2>1. /\ call.step = "readSub" /\ OpenMap(c, h, call.page) /\ auth' = auth /\ subs' = subs
        /\ \E notice \in NoticeRead(call.user, globals.isSubscribed) :
             globals' = SignedInAs(call.user, call.name, notice)
    BY <1>0, <1>13 DEF LoginCompletes, At, server
  <2>2. /\ globals = LoggedOut /\ auth = call.user /\ call.user \in Users
        /\ call.name \in {NoUser, call.user}
    BY <1>1, <2>1 DEF AccountCall, AccountSteps, SessionInv, SessionCoherent
  <2>3. PICK notice \in NoticeRead(call.user, "No") :
           globals' = SignedInAs(call.user, call.name, notice)
    BY <2>1, <2>2 DEF LoggedOut
  <2>4. notice = "Yes" => subs'[call.user] = "Yes"
    BY <2>1 DEF NoticeRead
  <2>5. globals'.bLoggedIn
    BY <2>3 DEF SignedInAs
  <2>6. StackFits(nav)' /\ \A d \in Slots : AccountCall(calls[d])'
    <3> HIDE DEF h
    <3>. QED BY <1>1, <1>2, <2>1, <2>5, OpenMapFits
  <2>. QED BY <2>1, <2>2, <2>3, <2>4, <2>6, SessionBegins
<1>14. CASE Created(c) \/ ProfileUpdated(c)
  <2>1. PICK next : next = [call EXCEPT !.step = IF call.step = "create" THEN "profile" ELSE "writeSub"]
    OBVIOUS
  <2>2. /\ call.step \in {"create", "profile"} /\ auth' = call.user /\ UNCHANGED <<nav, globals, subs>>
        /\ calls' = [calls EXCEPT ![c] = next]
    BY <1>0, <1>1, <1>14, <2>1 DEF Created, ProfileUpdated, Awaits, At, AccountCall
  <2>3. /\ next.step \in {"profile", "writeSub"} /\ next.user = call.user
        /\ next.name = call.name
    BY <1>1, <2>1 DEF Call
  <2>4. ~globals.bLoggedIn /\ call.name \in {NoUser, call.user}
    BY <1>1, <2>2 DEF AccountCall, AccountSteps
  <2>5. AccountCall(next)'
    BY <2>2, <2>3, <2>4 DEF AccountCall
  <2>6. \A d \in Slots : AccountCall(calls[d])'
    BY <1>2, <2>2, <2>5, OneCall
  <2>7. \A d \in Slots : calls'[d].step \in {"none", "readSub", "profile", "writeSub"}
    <3>1. calls'[c] = next /\ \A d \in Slots \ {c} : calls'[d] = Idle
      BY <1>2, <2>2 DEF TypeOK
    <3>. QED BY <2>3, <3>1 DEF Idle
  <2>. QED BY <1>2, <2>2, <2>4, <2>6, <2>7, SessionOnItsWay DEF Locked
<1>15. CASE SignupCompletes(c)
  <2>1. /\ call.step = "writeSub" /\ nav' = Show(h, call.page, "Ack") /\ Ends(c) /\ auth' = auth
        /\ \/ /\ subs' = [subs EXCEPT ![call.user] = call.sub]
              /\ globals' = SignedInAs(call.user, call.name, call.sub)
           \/ /\ subs' = subs
              /\ globals' = SignedInAs(call.user, call.name, globals.isSubscribed)
    BY <1>0, <1>15 DEF SignupCompletes, At
  <2>2. /\ globals = LoggedOut /\ auth = call.user /\ call.user \in Users
        /\ call.name \in {NoUser, call.user}
    BY <1>1, <2>1 DEF AccountCall, AccountSteps, SessionInv, SessionCoherent
  <2>3. PICK notice : /\ globals' = SignedInAs(call.user, call.name, notice)
                      /\ notice = "Yes" => subs'[call.user] = "Yes"
    BY <2>1, <2>2 DEF LoggedOut, TypeOK
  <2>4. StackFits(nav)'
    <3>1. globals'.bLoggedIn
      BY <2>3 DEF SignedInAs
    <3>. QED BY <1>0, <2>1, <3>1, DialogFits
  <2>5. \A d \in Slots : AccountCall(calls[d])'
    BY <1>2, <2>1, IdleCall, OneCall DEF Ends
  <2>. QED BY <2>1, <2>2, <2>3, <2>4, <2>5, SessionBegins
<1>16. CASE AuthForgets(c)
  <2>1. PICK next : next = [call EXCEPT !.step = "signedOut"]
    OBVIOUS
  <2>2. /\ call.step = "signOut" /\ auth' = NoUser /\ UNCHANGED <<nav, globals, subs>>
        /\ calls' = [calls EXCEPT ![c] = next]
    BY <1>0, <1>16, <2>1 DEF AuthForgets, Awaits, At
  <2>3. next.step = "signedOut" /\ globals.bLoggedIn
    BY <1>1, <2>1, <2>2 DEF Call, AccountCall
  <2>4. AccountCall(next)'
    BY <2>2, <2>3 DEF AccountCall, AccountSteps
  <2>5. \A d \in Slots : AccountCall(calls[d])'
    BY <1>2, <2>2, <2>4, OneCall
  <2>6. calls'[c].step = "signedOut"
    BY <2>2, <2>3 DEF TypeOK
  <2>7. SessionCoherent' /\ ConsentRespected' /\ FormNeedsSession' /\ HalfSignedIn'
    BY <2>2, <2>3, <2>6
    DEF SessionInv, SessionCoherent, ConsentRespected, FormNeedsSession, HalfSignedIn
  <2>. QED BY <2>2, <2>5, <2>7 DEF SessionInv
<1>17. CASE LogoutCompletes(c)
  <2>1. /\ call.step = "signedOut" /\ globals' = LoggedOut /\ Ends(c) /\ auth' = auth
        /\ nav' = IF Mounted(h, call.page)
                  THEN PushOverFirst(Pop(h, FALSE), "Login") ELSE h
    BY <1>0, <1>17 DEF LogoutCompletes, At, ForgetSession, server
  <2>2. /\ NavOK(h) /\ WellStacked(h) /\ NoSpinner(h) /\ h.resume = << >>
        /\ Top(h).kind = "Drawer" /\ nav' = PushOverFirst(Pop(h, FALSE), "Login")
    BY <1>2, <2>1 DEF Locked
  <2>3. auth = NoUser
    BY <1>1, <2>1 DEF AccountCall
  <2> HIDE DEF h
  <2>4. NavOK(Pop(h, FALSE)) /\ WellStacked(Pop(h, FALSE))
    BY <2>2, OverlayCloses
  <2>5. NoForm(nav')
    BY <2>2, <2>4, FirstIsNoForm
  <2>6. \A d \in Slots : AccountCall(calls[d])'
    BY <1>2, <2>1, IdleCall, OneCall DEF Ends
  <2>7. SessionCoherent' /\ ConsentRespected' /\ FormNeedsSession' /\ HalfSignedIn'
    BY <2>1, <2>3, <2>5
    DEF LoggedOut, SessionCoherent, ConsentRespected, FormNeedsSession, HalfSignedIn, NoForm
  <2>. QED BY <2>1, <2>6, <2>7 DEF SessionInv, LoggedOut
<1>18. CASE Located(c)
  <2>1. PICK next : next = [call EXCEPT !.step = "store"]
    OBVIOUS
  <2>2. /\ call.step = "geocode" /\ UNCHANGED <<nav, globals, auth, subs>>
        /\ calls' = [calls EXCEPT ![c] = next] /\ next.step = "store"
    BY <1>0, <1>1, <1>18, <2>1 DEF Located, Awaits, At, server, Call
  <2>3. AccountCall(next)'
    BY <2>2, PlainCall DEF Private, AccountSteps
  <2>. QED BY <1>3, <1>4, <1>5, <2>2, <2>3 DEF StackFits, Steps, Private, AccountSteps
<1>19. CASE NotLocated(c)
  <2>1. /\ call.step = "geocode" /\ nav' = Show(nav, call.page, "BadLocation") /\ Ends(c)
        /\ UNCHANGED <<globals, auth, subs>>
    BY <1>0, <1>19 DEF NotLocated, At, server
  <2>2. nav' = Push(nav, "BadLocation", call.page)
    BY <1>2, <2>1 DEF Locked, Show, Mounted
  <2>3. "BadLocation" \in Kinds /\ "BadLocation" \notin Entrances
    BY DEF Kinds, Awaited, Entrances
  <2>4. StackFits(nav)'
    BY <1>1, <1>2, <2>1, <2>2, <2>3, PushedKinds DEF StackFits
  <2>. QED BY <1>5, <1>8, <2>1, <2>4 DEF Steps, Private, AccountSteps
<1>20. CASE PublishCompletes(c)
  <2>1. /\ call.step = "store" /\ nav' = Show(h, call.page, "Thanks") /\ Ends(c)
        /\ UNCHANGED <<globals, auth, subs>>
    BY <1>0, <1>20 DEF PublishCompletes, At, server
  <2>2. StackFits(nav)'
    BY <1>0, <2>1, DialogFits
  <2>. QED BY <1>5, <1>8, <2>1, <2>2 DEF Steps, Private, AccountSteps
<1>21. CASE Uncaught(c)
  <2>1. /\ call.step \in {"profile", "signOut", "geocode", "store"} /\ Ends(c)
        /\ UNCHANGED <<nav, globals, auth, subs>>
    BY <1>0, <1>21 DEF Uncaught, At, server
  <2>2. CASE call.step = "profile"
    <3>1. /\ \A d \in Slots : AccountCall(calls[d])'
          /\ \A d \in Slots : calls'[d].step \in {"none", "readSub", "profile", "writeSub"}
      BY <1>2, <2>1, IdleCall, OneCall DEF Ends, TypeOK, Idle
    <3>2. ~globals.bLoggedIn
      BY <1>1, <2>2 DEF AccountCall, AccountSteps
    <3>. QED BY <1>2, <2>1, <2>2, <3>1, <3>2, SessionOnItsWay DEF Locked
  <2>3. CASE call.step # "profile"
    <3>1. StackFits(nav)'
      BY <1>3, <2>1 DEF StackFits
    <3>. QED BY <1>5, <1>7, <1>8, <2>1, <2>3, <3>1 DEF Steps, Private, AccountSteps
  <2>. QED BY <2>2, <2>3
<1>. QED
  BY <1>9, <1>10, <1>11, <1>12, <1>13, <1>14, <1>15, <1>16, <1>17, <1>18,
     <1>19, <1>20, <1>21 DEF Answer

\* A continuation runs between two handlers: only that of the success dialog
\* may find an entrance uncovered, and it opens the Map.
LEMMA SessionResume ==
  ASSUME TypeOK, ModalInv, SessionInv, Resume
  PROVE  SessionInv'
<1> DEFINE n == Resumed
<1>1. /\ nav.resume # << >> /\ NavOK(nav) /\ WellStacked(nav) /\ nav \in NavState
      /\ \A c \in Slots : calls[c] = Idle
      /\ UNCHANGED <<globals, auth, subs>>
  BY DEF TypeOK, ModalInv, NavOK, Resume, AfterPublish, AfterAck, AfterBadLocation, AfterThanks,
         Woken, server
<1>2. /\ nav.resume \in Seq(Continuation) /\ Len(nav.resume) = 1
      /\ nav.resume[1].kind \in {"Publish", "Ack"} => nav.resume[1].opener \in StackIds(nav)
      /\ nav.resume[1].kind = "Thanks" => Top(nav).kind = "Publish"
      /\ nav.resume[1].kind = "BadLocation" => Top(nav).kind = "Spinner"
  BY <1>1 DEF WellStacked, ReadyToResume, NavState
<1>3. Tail(nav.resume) = << >> /\ Head(nav.resume) = nav.resume[1] /\ nav.resume[1] \in Continuation
  BY <1>2, Singleton
<1>4. /\ n.stack = nav.stack /\ n.leaving = nav.leaving /\ n.resume = << >>
      /\ n \in NavState
  <2>1. << >> \in Seq(Continuation)
    OBVIOUS
  <2>2. n = [nav EXCEPT !.resume = << >>]
    BY <1>3 DEF Resumed
  <2>. QED BY <1>1, <2>1, <2>2 DEF NavState
<1> HIDE DEF n
<1>5. /\ NavOK(n) /\ StackIds(n) = StackIds(nav) /\ Top(n) = Top(nav)
      /\ Covered(nav) => Covered(n)
      /\ NoForm(nav) => NoForm(n)
  BY <1>1, <1>4 DEF NavOK, Fits, StackIds, Top, Covered, NoForm
<1>6. Agreed
  BY <1>1, OutsideAccountCalls DEF Idle
<1>7. /\ ~globals.bLoggedIn => NoForm(n)
      /\ globals.bLoggedIn /\ nav.resume[1].kind # "Ack" => Covered(n)
  BY <1>1, <1>3, <1>5, StackOfSession DEF StackFits, AckPending
<1>8. Opener = nav.resume[1].opener /\ Opener \in PageRef
  BY <1>3 DEF Opener, Continuation
<1>9. CASE AfterPublish
  <2>1. PICK c \in Slots : Load(c, n, Opener)
    BY <1>9 DEF AfterPublish, n
  <2>2. nav.resume[1].kind = "Publish"
    BY <1>3, <1>9 DEF AfterPublish, Woken
  <2>3. StackFits(nav)'
    BY <1>1, <1>5, <1>7, <2>1, <2>2, SpinnerFits DEF Load
  <2>4. PICK call : call = Waiting("query", Opener)
    OBVIOUS
  <2>5. AccountCall(call)'
    BY <2>4, PlainCall DEF Waiting, Idle, Private, AccountSteps
  <2>6. \A d \in Slots : AccountCall(calls[d])'
    BY <1>1, <2>1, <2>4, <2>5, OneCall DEF Load, Awaits
  <2>. QED BY <1>1, <1>6, <2>3, <2>6, SessionLeftAlone
<1>10. CASE AfterAck
  <2>1. PICK c \in Slots : OpenMap(c, n, Opener)
    BY <1>10 DEF AfterAck, n
  <2>2. nav.resume[1].kind = "Ack"
    BY <1>3, <1>10 DEF AfterAck, Woken
  <2>3. Mounted(n, Opener)
    BY <1>2, <1>5, <1>8, <2>2 DEF Mounted
  <2>4. globals'.bLoggedIn \/ NoForm(n)
    BY <1>1, <1>7
  <2>5. StackFits(nav)' /\ \A d \in Slots : AccountCall(calls[d])'
    BY <1>1, <1>5, <1>8, <2>1, <2>3, <2>4, OpenMapFits
  <2>. QED BY <1>1, <1>6, <2>5, SessionLeftAlone
<1>11. CASE AfterBadLocation \/ AfterThanks
  <2>1. /\ nav.resume[1].kind \in {"BadLocation", "Thanks"} /\ calls' = calls
        /\ nav' \in {n, Pop(n, FALSE), Pop(n, TRUE)}
    BY <1>3, <1>11 DEF AfterBadLocation, AfterThanks, Woken, HideProgress, n
  <2>2. Top(n).kind # "Map"
    BY <1>2, <1>5, <2>1
  <2>3. (Covered(n) => Covered(nav')) /\ (NoForm(n) => NoForm(nav'))
    BY <1>5, <2>1, <2>2, PoppedKinds
  <2>4. StackFits(nav)'
    BY <1>1, <1>7, <2>1, <2>3 DEF StackFits
  <2>5. \A c \in Slots : AccountCall(calls[c])'
    <3>1. \A c \in Slots : calls'[c] = Idle
      BY <1>1, <2>1
    <3>. QED BY <3>1, IdleCall DEF AccountCall
  <2>. QED BY <1>1, <1>6, <2>4, <2>5, SessionLeftAlone
<1>. QED BY <1>9, <1>10, <1>11 DEF Resume

\* The end of an exit animation concerns no session.
LEMMA SessionUnmount ==
  ASSUME TypeOK, ModalInv, SessionInv, Unmount
  PROVE  SessionInv'
<1> PICK x \in nav.leaving :
      /\ nav.resume = << >> /\ nav' = Unmounted(nav, x)
      /\ calls' = [c \in Slots |-> [calls[c] EXCEPT !.page = Forget(calls[c].page, x)]]
      /\ UNCHANGED <<globals, auth, subs>>
  BY DEF Unmount, server
<1>1. NavOK(nav) /\ WellStacked(nav) /\ x # NoPage
  BY NavigatorAssumption DEF TypeOK, ModalInv, NavOK, NavState
<1>2. /\ nav'.resume = << >> /\ Top(nav').kind = Top(nav).kind
      /\ Covered(nav) => Covered(nav')
      /\ NoForm(nav) => NoForm(nav')
  BY <1>1, UnmountedKeeps, UnmountedKinds
<1>3. \A c \in Slots : /\ calls'[c].step = calls[c].step
                       /\ calls'[c].user = calls[c].user
                       /\ calls'[c].name = calls[c].name
  <2>1. \A c \in Slots : calls[c] \in Call
    BY DEF TypeOK
  <2>. QED BY <2>1 DEF Call
<1>4. SessionCoherent' /\ ConsentRespected'
  BY <1>3 DEF SessionInv, SessionCoherent, ConsentRespected
<1>5. /\ globals'.bLoggedIn => Covered(nav') \/ AckPending(nav')
      /\ FormNeedsSession'
  BY <1>2, StackOfSession DEF StackFits, AckPending, FormNeedsSession, NoForm
<1>6. ASSUME NEW c \in Slots
      PROVE  AccountCall(calls[c])'
  <2>1. AccountCall(calls[c])
    BY DEF SessionInv
  <2>. QED BY <1>2, <1>3, <2>1 DEF AccountCall
<1>7. HalfSignedIn'
  BY <1>2, <1>3 DEF SessionInv, HalfSignedIn
<1>. QED BY <1>4, <1>5, <1>6, <1>7 DEF SessionInv

\* The app starts with the person Firebase kept, or with nobody.
LEMMA SessionRestart ==
  ASSUME TypeOK, Restart
  PROVE  SessionInv'
<1>1. PICK notice \in IF auth = NoUser THEN {"No"} ELSE NoticeRead(auth, "No") : Boot(notice)
  BY DEF Restart
<1>2. auth' = auth /\ subs' = subs
  BY DEF Restart, server
<1>3. CASE auth = NoUser
  <2>1. /\ nav' = Home("Login") /\ globals' = LoggedOut
        /\ \A c \in Slots : calls'[c] = Idle
    BY <1>1, <1>3 DEF Boot
  <2>2. NoForm(nav') /\ ~globals'.bLoggedIn /\ globals'.isSubscribed = "No"
    BY <2>1, HomeKinds DEF LoggedOut
  <2>3. \A c \in Slots : AccountCall(calls[c])'
    BY <2>1, IdleCall DEF AccountCall
  <2>4. SessionCoherent' /\ ConsentRespected' /\ FormNeedsSession' /\ HalfSignedIn'
    BY <1>2, <1>3, <2>1, <2>2
    DEF SessionCoherent, ConsentRespected, FormNeedsSession, NoForm, HalfSignedIn
  <2>. QED BY <2>2, <2>3, <2>4 DEF SessionInv
<1>4. CASE auth # NoUser
  <2>1. /\ nav' = Home("Map")
        /\ globals' = [firUserId |-> auth, userFullName |-> DisplayName(auth),
                       isSubscribed |-> notice, bLoggedIn |-> TRUE]
        /\ \A c \in Slots : calls'[c] = Idle \/ calls'[c] = Waiting("open", Top(Home("Map")).id)
    BY <1>1, <1>4 DEF Boot
  <2>2. Covered(nav') /\ auth \in Users /\ DisplayName(auth) \in {NoUser, auth}
    BY <1>4, <2>1, HomeKinds DEF TypeOK, Session, DisplayName
  <2>3. notice = "Yes" => subs[auth] = "Yes"
    BY <1>1, <1>4 DEF NoticeRead
  <2>4. ASSUME NEW c \in Slots
        PROVE  AccountCall(calls[c])'
    <3>1. \A page : Waiting("open", page).step = "open"
      BY DEF Waiting, Idle
    <3>2. Idle.step = "none"
      BY DEF Idle
    <3>3. calls'[c].step \in {"none", "open"}
      BY <2>1, <3>1, <3>2
    <3>. QED BY <2>2, <3>3 DEF AccountCall, AccountSteps
  <2>5. SessionCoherent' /\ ConsentRespected' /\ FormNeedsSession' /\ HalfSignedIn'
    BY <1>2, <2>1, <2>2, <2>3
    DEF SessionCoherent, ConsentRespected, FormNeedsSession, HalfSignedIn
  <2>. QED BY <2>2, <2>4, <2>5 DEF SessionInv
<1>. QED BY <1>3, <1>4

\* SessionInv is inductive relative to the types and to ModalInv.
LEMMA SessionNext ==
  ASSUME SystemBack = FALSE
  PROVE  TypeOK /\ ModalInv /\ SessionInv /\ [Next]_vars => SessionInv'
<1> SUFFICES ASSUME TypeOK, ModalInv, SessionInv, [Next]_vars
             PROVE  SessionInv'
  OBVIOUS
<1>1. CASE UNCHANGED vars
  BY <1>1
  DEF vars, SessionInv, SessionCoherent, ConsentRespected, FormNeedsSession, AccountCall,
      HalfSignedIn
<1>. QED
  BY <1>1, SessionTap, SessionAnswer, SessionResume, SessionUnmount, SessionRestart DEF Next

\* All three together.
LEMMA ShellInvariant ==
  ASSUME SystemBack = FALSE
  PROVE  Spec => [](TypeOK /\ ModalInv /\ SessionInv)
<1>1. Init => TypeOK /\ ModalInv /\ SessionInv
  BY TypeInit, ModalInit, SessionInit
<1>2. TypeOK /\ ModalInv /\ SessionInv /\ [Next]_vars => (TypeOK /\ ModalInv /\ SessionInv)'
  BY TypeNext, ModalNext, SessionNext
<1>. QED BY <1>1, <1>2, PTL DEF Spec

-----------------------------------------------------------------------------
(* What single steps do to the session *)

\* No tap touches the session, the accounts or their answers.
LEMMA TapsLeaveSession == Tap => UNCHANGED <<globals, auth, subs>>
<1>1. \A on, kind : Open(on, kind) => UNCHANGED <<globals, auth, subs>>
  BY DEF Open, server
<1>2. \A on, step, user, sub : Submit(on, step, user, sub) => UNCHANGED <<globals, auth, subs>>
  BY DEF Submit, server
<1>3. \A kinds : Close(kinds) => UNCHANGED <<globals, auth, subs>>
  BY DEF Close, server
<1>4. OpenSignup \/ OpenForgot \/ OpenFilter \/ OpenDrawer \/ RejectForm \/ OpenInfo
        => UNCHANGED <<globals, auth, subs>>
  BY <1>1 DEF OpenSignup, OpenForgot, OpenFilter, OpenDrawer, RejectForm, OpenInfo
<1>5. SubmitLogin \/ SubmitSignup \/ SubmitReset \/ SubmitPublish
        => UNCHANGED <<globals, auth, subs>>
  BY <1>2 DEF SubmitLogin, SubmitSignup, SubmitReset, SubmitPublish
<1>6. DrawerInfo \/ EnterAsGuest \/ SelectFilter \/ AddObservation \/ DrawerLogin \/ DrawerLogout
        => UNCHANGED <<globals, auth, subs>>
  BY DEF DrawerInfo, EnterAsGuest, SelectFilter, AddObservation, DrawerLogin, DrawerLogout, server
<1>. QED BY <1>3, <1>4, <1>5, <1>6 DEF Tap, GoBack, PressSystemBack

\* Only the end of a login, a registration or a logout does.
LEMMA AnswersLeaveSession ==
  ASSUME NEW c \in Slots, Answer(c)
  PROVE  \/ UNCHANGED <<globals, subs>>
         \/ LoginCompletes(c) \/ SignupCompletes(c) \/ LogoutCompletes(c)
BY DEF Answer, FirstFrame, QueryAnswered, Rejected, LoginFails, SignedIn, SignupFails, Created,
       ProfileUpdated, ResetAnswered, AuthForgets, Located, NotLocated, PublishCompletes,
       Uncaught, server

\* A handler that goes on sends no credentials: only a tap does.
LEMMA CredentialsAreTapped ==
  ASSUME TypeOK, NEW c \in Slots, calls[c].step = "none",
         calls'[c].step \in {"signIn", "create"}, Next
  PROVE  Tap
<1>1. ASSUME NEW d \in Slots, NEW next, calls' = [calls EXCEPT ![d] = next],
             next.step \notin {"signIn", "create"}
      PROVE  FALSE
  <2>1. calls'[c] = IF c = d THEN next ELSE calls[c]
    BY <1>1 DEF TypeOK
  <2>. QED BY <1>1, <2>1
<1>2. \A step, page : Waiting(step, page).step = step
  BY DEF Waiting, Idle
<1>3. Idle.step = "none"
  BY DEF Idle
<1>4. \A d \in Slots : \A n, page : ~OpenMap(d, n, page)
  BY <1>1, <1>2, <1>3 DEF OpenMap
<1>5. \A d \in Slots : \A n, page : ~Load(d, n, page)
  BY <1>1, <1>2 DEF Load, Awaits
<1>6. \A d \in Slots : ~Ends(d)
  BY <1>1, <1>3 DEF Ends
<1>7. ASSUME NEW d \in Slots, NEW step, step \notin {"signIn", "create"},
             \/ Awaits(d, [calls[d] EXCEPT !.step = step])
             \/ Awaits(d, [calls[d] EXCEPT !.step = step, !.name = DisplayName(calls[d].user)])
      PROVE  FALSE
  <2>1. calls[d] \in Call
    BY DEF TypeOK
  <2>2. PICK next : /\ calls' = [calls EXCEPT ![d] = next]
                    /\ \/ next = [calls[d] EXCEPT !.step = step]
                       \/ next = [calls[d] EXCEPT !.step = step,
                                                  !.name = DisplayName(calls[d].user)]
    BY <1>7 DEF Awaits
  <2>3. next.step = step
    BY <2>1, <2>2 DEF Call
  <2>. QED BY <1>1, <1>7, <2>2, <2>3
<1>8. ASSUME NEW d \in Slots, Answer(d)
      PROVE  FALSE
  <2>1. CASE \/ FirstFrame(d) \/ QueryAnswered(d) \/ LoginFails(d) \/ LoginCompletes(d)
             \/ SignupFails(d) \/ SignupCompletes(d) \/ ResetAnswered(d) \/ LogoutCompletes(d)
             \/ NotLocated(d) \/ PublishCompletes(d) \/ Uncaught(d)
    BY <1>4, <1>5, <1>6, <2>1
    DEF FirstFrame, QueryAnswered, LoginFails, LoginCompletes, SignupFails, SignupCompletes,
        ResetAnswered, LogoutCompletes, NotLocated, PublishCompletes, Uncaught, Rejected
  <2>2. CASE SignedIn(d)
    <3>1. PICK step : step = "readSub"
      OBVIOUS
    <3>2. Awaits(d, [calls[d] EXCEPT !.step = step, !.name = DisplayName(calls[d].user)])
      BY <2>2, <3>1 DEF SignedIn
    <3>3. step \notin {"signIn", "create"}
      BY <3>1
    <3>. QED BY <1>7, <3>2, <3>3
  <2>3. CASE Created(d) \/ ProfileUpdated(d) \/ AuthForgets(d) \/ Located(d)
    <3>1. \E step \in {"profile", "writeSub", "signedOut", "store"} :
            Awaits(d, [calls[d] EXCEPT !.step = step])
      BY <2>3 DEF Created, ProfileUpdated, AuthForgets, Located
    <3>. QED BY <1>7, <3>1
  <2>. QED BY <1>8, <2>1, <2>2, <2>3 DEF Answer
<1>9. ~Resume
  BY <1>4, <1>5 DEF Resume, AfterPublish, AfterAck, AfterBadLocation, AfterThanks
<1>10. ASSUME Unmount
       PROVE  FALSE
  <2>1. \E page : calls'[c] = [calls[c] EXCEPT !.page = page]
    BY <1>10 DEF Unmount
  <2>2. calls[c] \in Call
    BY DEF TypeOK
  <2>. QED BY <2>1, <2>2 DEF Call
<1>11. ASSUME Restart
       PROVE  FALSE
  <2>1. calls'[c] = Idle \/ \E page : calls'[c] = Waiting("open", page)
    BY <1>11 DEF Restart, Boot
  <2>. QED BY <1>2, <1>3, <2>1
<1>. QED BY <1>8, <1>9, <1>10, <1>11 DEF Next

\* Every step of the shell is one of the abstract session, or none.
LEMMA SessionSteps ==
  ASSUME TypeOK, ModalInv, SessionInv, [Next]_vars
  PROVE  \/ AbstractSession!Next
         \/ UNCHANGED <<globals.firUserId, globals.isSubscribed, subs>>
<1> USE DEF AbstractSession!Next, AbstractSession!Begin, AbstractSession!Again,
            AbstractSession!End, AbstractSession!Allowed
<1>1. CASE UNCHANGED <<globals, subs>>
  BY <1>1
<1>2. ASSUME NEW u, NEW notice \in NoticeRead(u, "No"), u \in Users
      PROVE  notice \in {"No"} \cup ({subs[u]} \cap {"Yes"})
  BY <1>2 DEF NoticeRead, TypeOK
<1>3. LoggedOut.firUserId = NoUser /\ LoggedOut.isSubscribed = "No" /\ NoUser \notin Users
  BY ShellAssumption DEF LoggedOut
<1>4. ASSUME NEW c \in Slots, LoginCompletes(c)
      PROVE  AbstractSession!Next
  <2>1. PICK u : u = calls[c].user
    OBVIOUS
  <2>2. /\ calls[c].step = "readSub" /\ subs' = subs
        /\ \E notice \in NoticeRead(u, globals.isSubscribed) :
             globals' = SignedInAs(u, calls[c].name, notice)
    BY <1>4, <2>1 DEF LoginCompletes, At, server
  <2>3. calls[c] \in Call
    BY DEF TypeOK
  <2>4. u \in Users /\ globals = LoggedOut
    BY <2>1, <2>2, <2>3 DEF SessionInv, AccountCall, AccountSteps, SessionCoherent, Call
  <2>5. PICK notice \in NoticeRead(u, "No") : globals' = SignedInAs(u, calls[c].name, notice)
    BY <1>3, <2>2, <2>4
  <2>6. globals'.firUserId = u /\ globals'.isSubscribed = notice
    BY <2>5 DEF SignedInAs
  <2>7. notice \in {"No"} \cup ({subs[u]} \cap {"Yes"})
    BY <1>2, <2>4, <2>5
  <2>. QED BY <1>3, <2>2, <2>4, <2>6, <2>7
<1>5. ASSUME NEW c \in Slots, SignupCompletes(c)
      PROVE  AbstractSession!Next
  <2>1. PICK u, sub : u = calls[c].user /\ sub = calls[c].sub
    OBVIOUS
  <2>2. /\ calls[c].step = "writeSub"
        /\ \/ /\ subs' = [subs EXCEPT ![u] = sub]
              /\ globals' = SignedInAs(u, calls[c].name, sub)
           \/ /\ subs' = subs
              /\ globals' = SignedInAs(u, calls[c].name, globals.isSubscribed)
    BY <1>5, <2>1 DEF SignupCompletes, At
  <2>3. calls[c] \in Call
    BY DEF TypeOK
  <2>4. u \in Users /\ globals = LoggedOut /\ sub \in {"Yes", "No"}
    BY <2>1, <2>2, <2>3
    DEF SessionInv, AccountCall, AccountSteps, SessionCoherent, Call, Notices
  <2>5. CASE subs' = [subs EXCEPT ![u] = sub] /\ globals' = SignedInAs(u, calls[c].name, sub)
    <3>1. globals'.firUserId = u /\ globals'.isSubscribed = sub
      BY <2>5 DEF SignedInAs
    <3>2. subs'[u] = sub
      BY <2>4, <2>5 DEF TypeOK
    <3>3. subs' \in {subs} \cup {[subs EXCEPT ![u] = a] : a \in {"Yes", "No"}}
      BY <2>4, <2>5
    <3>4. globals'.isSubscribed \in {"No"} \cup ({subs'[u]} \cap {"Yes"})
      BY <2>4, <3>1, <3>2
    <3>. QED BY <1>3, <2>4, <3>1, <3>3, <3>4
  <2>6. CASE subs' = subs /\ globals' = SignedInAs(u, calls[c].name, globals.isSubscribed)
    <3>1. globals'.firUserId = u /\ globals'.isSubscribed = "No"
      BY <1>3, <2>4, <2>6 DEF SignedInAs
    <3>. QED BY <1>3, <2>4, <2>6, <3>1
  <2>. QED BY <2>2, <2>5, <2>6
<1>6. ASSUME NEW c \in Slots, LogoutCompletes(c)
      PROVE  AbstractSession!Next
  <2>1. globals' = LoggedOut /\ subs' = subs /\ calls[c].step = "signedOut"
    BY <1>6 DEF LogoutCompletes, At, ForgetSession, server
  <2>2. globals.firUserId \in Users
    BY <2>1 DEF SessionInv, AccountCall, SessionCoherent
  <2>. QED BY <1>3, <2>1, <2>2
<1>7. ASSUME Restart
      PROVE  \/ AbstractSession!Next
             \/ UNCHANGED <<globals.firUserId, globals.isSubscribed, subs>>
  <2>1. PICK notice \in IF auth = NoUser THEN {"No"} ELSE NoticeRead(auth, "No") : Boot(notice)
    BY <1>7 DEF Restart
  <2>2. subs' = subs
    BY <1>7 DEF Restart, server
  <2>3. IF globals.bLoggedIn
        THEN globals.firUserId \in Users /\ auth \in {globals.firUserId, NoUser}
        ELSE globals = LoggedOut
    BY DEF SessionInv, SessionCoherent, AccountCall
  <2>4. CASE auth = NoUser
    <3>1. globals' = LoggedOut
      BY <2>1, <2>4 DEF Boot
    <3>. QED BY <1>3, <2>2, <2>3, <3>1
  <2>5. CASE auth # NoUser
    <3>1. globals'.firUserId = auth /\ globals'.isSubscribed = notice /\ auth \in Users
      BY <2>1, <2>5 DEF Boot, TypeOK, Session
    <3>2. notice \in {"No"} \cup ({subs[auth]} \cap {"Yes"})
      BY <1>2, <2>1, <2>5, <3>1
    <3>. QED BY <1>3, <2>2, <2>3, <2>5, <3>1, <3>2
  <2>. QED BY <2>4, <2>5
<1>8. Resume \/ Unmount => UNCHANGED <<globals, subs>>
  BY DEF Resume, AfterPublish, AfterAck, AfterBadLocation, AfterThanks, Unmount, server
<1>. QED
  BY <1>1, <1>4, <1>5, <1>6, <1>7, <1>8, TapsLeaveSession, AnswersLeaveSession DEF Next, vars

-----------------------------------------------------------------------------
(* Accounts, with or without a back button *)

\* A handler that goes to such a step has asked nothing of an account yet.
Unasked == Steps \ {"readSub", "profile", "writeSub"}

\* One handler at most moves, and to such a step.
Quiet == \/ calls' = calls
         \/ \E c \in Slots : \E next :
              calls' = [calls EXCEPT ![c] = next] /\ next.step \in Unasked

\* Accounts are not deleted, nor names taken back.
Grows == \A u \in Users : /\ profile[u] # "none" => profile'[u] # "none"
                          /\ profile[u] = "named" => profile'[u] = "named"

LEMMA SameCall ==
  ASSUME TypeOK, AccountsInv, Grows, NEW c \in Slots,
         calls'[c].step = calls[c].step, calls'[c].user = calls[c].user
  PROVE  RegisteredCall(calls[c])'
<1>1. calls[c] \in Call /\ RegisteredCall(calls[c])
  BY DEF TypeOK, AccountsInv
<1>2. CASE calls[c].step \in {"readSub", "profile", "writeSub"}
  <2>1. calls[c].user \in Users
    BY <1>1, <1>2 DEF Call, AccountSteps
  <2>. QED BY <1>1, <2>1 DEF RegisteredCall, Grows
<1>3. CASE calls[c].step \notin {"readSub", "profile", "writeSub"}
  BY <1>3 DEF RegisteredCall
<1>. QED BY <1>2, <1>3

\* The others are where they were.
LEMMA OtherCalls ==
  ASSUME TypeOK, AccountsInv, Grows, NEW c \in Slots, NEW next,
         calls' = [calls EXCEPT ![c] = next]
  PROVE  /\ calls'[c] = next
         /\ \A d \in Slots \ {c} : RegisteredCall(calls[d])'
<1>1. calls'[c] = next /\ \A d \in Slots \ {c} : calls'[d] = calls[d]
  BY DEF TypeOK
<1>. QED BY <1>1, SameCall

LEMMA QuietCalls ==
  ASSUME TypeOK, AccountsInv, Grows, Quiet
  PROVE  \A c \in Slots : RegisteredCall(calls[c])'
<1>1. CASE calls' = calls
  BY <1>1, SameCall
<1>2. ASSUME NEW c \in Slots, NEW next, next.step \in Unasked,
             calls' = [calls EXCEPT ![c] = next]
      PROVE  \A d \in Slots : RegisteredCall(calls[d])'
  <2>1. calls'[c].step \notin {"readSub", "profile", "writeSub"}
    BY <1>2, OtherCalls DEF Unasked
  <2>2. RegisteredCall(calls[c])'
    BY <2>1 DEF RegisteredCall
  <2>. QED BY <1>2, <2>2, OtherCalls
<1>. QED BY <1>1, <1>2 DEF Quiet

\* The moves of the handlers, by the operators that make them.
LEMMA QuietMoves ==
  /\ \A c \in Slots : Ends(c) => Quiet
  /\ \A c \in Slots : \A n, page : OpenMap(c, n, page) => Quiet
  /\ \A c \in Slots : \A n, page : Load(c, n, page) => Quiet
  /\ \A c \in Slots : \A step \in Unasked : \A page :
       Awaits(c, Waiting(step, page)) => Quiet
<1>1. Idle.step = "none" /\ \A step, page : Waiting(step, page).step = step
  BY DEF Idle, Waiting
<1>2. {"none", "open", "query"} \subseteq Unasked
  BY DEF Unasked, Steps
<1>3. ASSUME NEW c \in Slots, Ends(c) PROVE Quiet
  BY <1>1, <1>2, <1>3 DEF Ends, Quiet
<1>4. ASSUME NEW c \in Slots, NEW step \in Unasked, NEW page, Awaits(c, Waiting(step, page))
      PROVE  Quiet
  BY <1>1, <1>4 DEF Awaits, Quiet
<1>5. ASSUME NEW c \in Slots, NEW n, NEW page, OpenMap(c, n, page)
      PROVE  Quiet
  <2>1. PICK next \in {Waiting("open", FreshId(n)), Idle} : calls' = [calls EXCEPT ![c] = next]
    BY <1>5 DEF OpenMap
  <2>2. next.step \in Unasked
    BY <1>1, <1>2, <2>1
  <2>. QED BY <2>1, <2>2 DEF Quiet
<1>6. ASSUME NEW c \in Slots, NEW n, NEW page, Load(c, n, page)
      PROVE  Quiet
  BY <1>2, <1>4, <1>6 DEF Load
<1>. QED BY <1>3, <1>4, <1>5, <1>6

LEMMA TapsAreQuiet == Tap => Quiet /\ UNCHANGED <<globals, server>>
<1>1. \A on, kind : Open(on, kind) => Quiet /\ UNCHANGED <<globals, server>>
  BY DEF Open, Quiet
<1>2. \A kinds : Close(kinds) => Quiet /\ UNCHANGED <<globals, server>>
  BY DEF Close, Quiet
<1>3. ASSUME NEW on, NEW step \in Unasked, NEW user, NEW sub, Submit(on, step, user, sub)
      PROVE  Quiet /\ UNCHANGED <<globals, server>>
  <2> DEFINE next == [Waiting(step, Top(nav).id) EXCEPT !.user = user, !.sub = sub]
  <2>1. PICK c \in Slots : calls' = [calls EXCEPT ![c] = next]
    BY <1>3 DEF Submit, Awaits
  <2>2. next.step = step
    BY DEF Waiting, Idle
  <2>. QED BY <1>3, <2>1, <2>2 DEF Submit, Quiet
<1>4. {"signIn", "create", "send", "geocode", "signOut"} \subseteq Unasked
  BY DEF Unasked, Steps
<1>5. OpenSignup \/ OpenForgot \/ OpenFilter \/ OpenDrawer \/ RejectForm \/ OpenInfo
        => Quiet /\ UNCHANGED <<globals, server>>
  BY <1>1 DEF OpenSignup, OpenForgot, OpenFilter, OpenDrawer, RejectForm, OpenInfo
<1>6. SubmitLogin \/ SubmitSignup \/ SubmitReset \/ SubmitPublish
        => Quiet /\ UNCHANGED <<globals, server>>
  BY <1>3, <1>4 DEF SubmitLogin, SubmitSignup, SubmitReset, SubmitPublish
<1>7. DrawerInfo \/ AddObservation \/ DrawerLogin => Quiet /\ UNCHANGED <<globals, server>>
  BY DEF DrawerInfo, AddObservation, DrawerLogin, Quiet
<1>8. EnterAsGuest \/ SelectFilter \/ DrawerLogout => Quiet /\ UNCHANGED <<globals, server>>
  BY <1>4, QuietMoves DEF EnterAsGuest, SelectFilter, DrawerLogout
<1>. QED BY <1>2, <1>5, <1>6, <1>7, <1>8 DEF Tap, GoBack, PressSystemBack

\* Nothing about the accounts changes.
LEMMA QuietAccounts ==
  ASSUME TypeOK, AccountsInv, Quiet, UNCHANGED <<globals, server>>
  PROVE  AccountsInv'
<1>1. Grows
  BY DEF Grows, server
<1>. QED BY <1>1, QuietCalls DEF AccountsInv, OnlyRegistered, server

LEMMA AccountsAnswer ==
  ASSUME TypeOK, TypeOK', AccountsInv, NEW c \in Slots, Answer(c)
  PROVE  AccountsInv'
<1> DEFINE call == calls[c]
           u == call.user
<1>0. /\ call \in Call /\ RegisteredCall(call)
      /\ call.step \in AccountSteps => u \in Users
  BY DEF TypeOK, AccountsInv, Call
<1>1. CASE \/ FirstFrame(c) \/ QueryAnswered(c) \/ LoginFails(c) \/ ResetAnswered(c)
           \/ NotLocated(c) \/ PublishCompletes(c) \/ Uncaught(c)
  <2>1. Quiet
    BY <1>1, QuietMoves
    DEF FirstFrame, QueryAnswered, LoginFails, ResetAnswered, Rejected, NotLocated,
        PublishCompletes, Uncaught
  <2>2. UNCHANGED <<globals, server>>
    BY <1>1 DEF FirstFrame, QueryAnswered, LoginFails, ResetAnswered, Rejected, NotLocated,
                PublishCompletes, Uncaught
  <2>. QED BY <2>1, <2>2, QuietAccounts
<1>2. CASE Located(c)
  <2> DEFINE next == [call EXCEPT !.step = "store"]
  <2>1. next.step \in Unasked
    BY <1>0 DEF Unasked, Steps, Call
  <2>2. Quiet
    BY <1>2, <2>1 DEF Located, Awaits, Quiet
  <2>. QED BY <1>2, <2>2, QuietAccounts DEF Located
<1>3. CASE SignedIn(c)
  <2>0. PICK next : next = [call EXCEPT !.step = "readSub", !.name = DisplayName(u)]
    OBVIOUS
  <2>1. /\ calls' = [calls EXCEPT ![c] = next] /\ auth' = u /\ profile[u] # "none"
        /\ UNCHANGED <<globals, profile, subs>>
    BY <1>3, <2>0 DEF SignedIn, Awaits
  <2>2. next.step = "readSub" /\ next.user = u
    BY <1>0, <2>0 DEF Call
  <2>3. Grows
    BY <2>1 DEF Grows
  <2>4. RegisteredCall(next)'
    BY <2>1, <2>2 DEF RegisteredCall
  <2>5. \A d \in Slots : RegisteredCall(calls[d])'
    BY <2>1, <2>3, <2>4, OtherCalls
  <2>. QED BY <2>1, <2>5 DEF AccountsInv, OnlyRegistered
<1>4. CASE LoginCompletes(c)
  <2>1. /\ call.step = "readSub" /\ OpenMap(c, HideProgress(nav), call.page)
        /\ globals'.bLoggedIn /\ globals'.firUserId = u /\ UNCHANGED server
    BY <1>4 DEF LoginCompletes, At, SignedInAs
  <2>2. u \in Users /\ profile[u] # "none"
    BY <1>0, <2>1 DEF RegisteredCall, AccountSteps
  <2>3. Grows /\ Quiet
    BY <2>1, QuietMoves DEF Grows, server
  <2>. QED BY <2>1, <2>2, <2>3, QuietCalls DEF AccountsInv, OnlyRegistered, server
<1>5. CASE SignupFails(c)
  <2>1. /\ call.step = "create" /\ Ends(c) /\ UNCHANGED <<globals, auth, subs>>
        /\ \/ profile' = profile
           \/ profile[u] = "none" /\ profile' = [profile EXCEPT ![u] = "unnamed"]
    BY <1>5 DEF SignupFails, Rejected, At
  <2>2. u \in Users
    BY <1>0, <2>1 DEF AccountSteps
  <2>3. Grows /\ Quiet
    BY <2>1, <2>2, QuietMoves DEF Grows, TypeOK
  <2>4. \A d \in Slots : RegisteredCall(calls[d])'
    BY <2>3, QuietCalls
  <2>5. auth # NoUser => auth \in Users
    BY DEF TypeOK, Session
  <2>. QED BY <2>1, <2>3, <2>4, <2>5 DEF AccountsInv, OnlyRegistered, Grows
<1>6. CASE Created(c)
  <2>0. PICK next : next = [call EXCEPT !.step = "profile"]
    OBVIOUS
  <2>1. /\ call.step = "create" /\ calls' = [calls EXCEPT ![c] = next] /\ auth' = u
        /\ profile[u] = "none" /\ profile' = [profile EXCEPT ![u] = "unnamed"]
        /\ UNCHANGED <<globals, subs>>
    BY <1>6, <2>0 DEF Created, At, Awaits
  <2>2. next.step = "profile" /\ next.user = u /\ u \in Users
    BY <1>0, <2>0, <2>1 DEF Call, AccountSteps
  <2>3. Grows /\ profile'[u] = "unnamed"
    BY <2>1, <2>2 DEF Grows, TypeOK
  <2>4. RegisteredCall(next)'
    BY <2>2, <2>3 DEF RegisteredCall
  <2>5. \A d \in Slots : RegisteredCall(calls[d])'
    BY <2>1, <2>3, <2>4, OtherCalls
  <2>6. \A v \in Users : subs[v] # "none" => profile'[v] = "named"
    BY <2>3 DEF AccountsInv, OnlyRegistered, Grows
  <2>7. globals.bLoggedIn => globals.firUserId \in Users /\ profile'[globals.firUserId] # "none"
    BY <2>3 DEF AccountsInv, OnlyRegistered, Grows
  <2>. QED BY <2>1, <2>3, <2>5, <2>6, <2>7 DEF AccountsInv, OnlyRegistered
<1>7. CASE ProfileUpdated(c)
  <2>0. PICK next : next = [call EXCEPT !.step = "writeSub"]
    OBVIOUS
  <2>1. /\ call.step = "profile" /\ calls' = [calls EXCEPT ![c] = next]
        /\ profile' = [profile EXCEPT ![u] = "named"] /\ UNCHANGED <<globals, auth, subs>>
    BY <1>7, <2>0 DEF ProfileUpdated, At, Awaits
  <2>2. next.step = "writeSub" /\ next.user = u /\ u \in Users
    BY <1>0, <2>0, <2>1 DEF Call, AccountSteps
  <2>3. Grows /\ profile'[u] = "named"
    BY <2>1, <2>2 DEF Grows, TypeOK
  <2>4. RegisteredCall(next)'
    BY <2>2, <2>3 DEF RegisteredCall
  <2>5. \A d \in Slots : RegisteredCall(calls[d])'
    BY <2>1, <2>3, <2>4, OtherCalls
  <2>6. auth # NoUser => auth \in Users
    BY DEF TypeOK, Session
  <2>. QED BY <2>1, <2>3, <2>5, <2>6 DEF AccountsInv, OnlyRegistered, Grows
<1>8. CASE SignupCompletes(c)
  <2>1. /\ call.step = "writeSub" /\ Ends(c) /\ UNCHANGED <<auth, profile>>
        /\ globals'.bLoggedIn /\ globals'.firUserId = u
        /\ \A v \in Users : subs'[v] = subs[v] \/ v = u
    BY <1>8 DEF SignupCompletes, At, SignedInAs, TypeOK
  <2>2. u \in Users /\ profile[u] = "named"
    BY <1>0, <2>1 DEF RegisteredCall, AccountSteps
  <2>3. Grows /\ Quiet
    BY <2>1, QuietMoves DEF Grows
  <2>4. \A d \in Slots : RegisteredCall(calls[d])'
    BY <2>3, QuietCalls
  <2>. QED BY <2>1, <2>2, <2>4 DEF AccountsInv, OnlyRegistered
<1>9. CASE AuthForgets(c)
  <2> DEFINE next == [call EXCEPT !.step = "signedOut"]
  <2>1. /\ calls' = [calls EXCEPT ![c] = next] /\ auth' = NoUser
        /\ UNCHANGED <<globals, profile, subs>>
    BY <1>9 DEF AuthForgets, Awaits
  <2>2. next.step \in Unasked
    BY <1>0 DEF Unasked, Steps, Call
  <2>3. Grows /\ Quiet
    BY <2>1, <2>2 DEF Grows, Quiet
  <2>4. \A d \in Slots : RegisteredCall(calls[d])'
    BY <2>3, QuietCalls
  <2>. QED BY <2>1, <2>4 DEF AccountsInv, OnlyRegistered
<1>10. CASE LogoutCompletes(c)
  <2>1. Ends(c) /\ globals' = LoggedOut /\ UNCHANGED server
    BY <1>10 DEF LogoutCompletes, ForgetSession
  <2>2. Grows /\ Quiet
    BY <2>1, QuietMoves DEF Grows, server
  <2>3. \A d \in Slots : RegisteredCall(calls[d])'
    BY <2>2, QuietCalls
  <2>. QED BY <2>1, <2>3 DEF AccountsInv, OnlyRegistered, LoggedOut, server
<1>. QED
  BY <1>1, <1>2, <1>3, <1>4, <1>5, <1>6, <1>7, <1>8, <1>9, <1>10 DEF Answer

LEMMA AccountsNext == TypeOK /\ AccountsInv /\ [Next]_vars => AccountsInv'
<1> SUFFICES ASSUME TypeOK, AccountsInv, [Next]_vars
             PROVE  AccountsInv'
  OBVIOUS
<1>0. TypeOK'
  BY TypeNext
<1>1. CASE UNCHANGED vars
  BY <1>1, QuietAccounts DEF vars, Quiet, server
<1>2. CASE Tap
  BY <1>2, TapsAreQuiet, QuietAccounts
<1>3. CASE Resume
  <2>1. Quiet /\ UNCHANGED <<globals, server>>
    BY <1>3, QuietMoves DEF Resume, AfterPublish, AfterAck, AfterBadLocation, AfterThanks, Quiet
  <2>. QED BY <2>1, QuietAccounts
<1>4. CASE Unmount
  <2>1. PICK i \in nav.leaving :
          /\ calls' = [c \in Slots |-> [calls[c] EXCEPT !.page = Forget(@, i)]]
          /\ UNCHANGED <<globals, server>>
    BY <1>4 DEF Unmount
  <2>2. Grows
    BY <2>1 DEF Grows, server
  <2>3. ASSUME NEW c \in Slots
        PROVE  calls'[c].step = calls[c].step /\ calls'[c].user = calls[c].user
    BY <2>1 DEF TypeOK, Call
  <2>. QED BY <2>1, <2>2, <2>3, SameCall DEF AccountsInv, OnlyRegistered, server
<1>5. CASE Restart
  <2>1. PICK notice \in IF auth = NoUser THEN {"No"} ELSE NoticeRead(auth, "No") : Boot(notice)
    BY <1>5 DEF Restart
  <2>2. UNCHANGED server
    BY <1>5 DEF Restart
  <2>3. \A c \in Slots : RegisteredCall(calls[c])'
    <3>1. \A step, page : Waiting(step, page).step = step /\ Idle.step = "none"
      BY DEF Waiting, Idle
    <3>2. \A c \in Slots : calls'[c].step \in {"open", "none"}
      BY <2>1, <3>1 DEF Boot
    <3>. QED BY <3>2 DEF RegisteredCall
  <2>4. auth # NoUser => auth \in Users
    BY DEF TypeOK, Session
  <2>5. globals'.bLoggedIn => auth # NoUser /\ globals'.firUserId = auth
    BY <2>1 DEF Boot, LoggedOut
  <2>. QED BY <2>2, <2>3, <2>4, <2>5 DEF AccountsInv, OnlyRegistered, server
<1>. QED
  BY <1>0, <1>1, <1>2, <1>3, <1>4, <1>5, AccountsAnswer DEF Next

-----------------------------------------------------------------------------
(* Names, with or without a back button *)

\* Where a name can come from: a FirebaseUser object, or the account itself.
NamesOf(call) == {NoUser, call.name, DisplayName(call.user)}

\* One handler at most moves, and takes its name from there.
KeepsNames == \/ calls' = calls
              \/ \E c \in Slots : \E next :
                   calls' = [calls EXCEPT ![c] = next] /\ next.name \in NamesOf(calls[c])

\* The moves of the handlers, by the operators that make them.
LEMMA NameMoves ==
  /\ \A c \in Slots : Ends(c) => KeepsNames
  /\ \A c \in Slots : \A n, page : OpenMap(c, n, page) => KeepsNames
  /\ \A c \in Slots : \A n, page : Load(c, n, page) => KeepsNames
  /\ \A c \in Slots : \A step, page : Awaits(c, Waiting(step, page)) => KeepsNames
<1>1. Idle.name = NoUser /\ \A step, page : Waiting(step, page).name = NoUser
  BY DEF Idle, Waiting
<1>2. ASSUME NEW c \in Slots, Ends(c) PROVE KeepsNames
  BY <1>1, <1>2 DEF Ends, KeepsNames, NamesOf
<1>3. ASSUME NEW c \in Slots, NEW step, NEW page, Awaits(c, Waiting(step, page))
      PROVE  KeepsNames
  BY <1>1, <1>3 DEF Awaits, KeepsNames, NamesOf
<1>4. ASSUME NEW c \in Slots, NEW n, NEW page, OpenMap(c, n, page)
      PROVE  KeepsNames
  <2>1. PICK next \in {Waiting("open", FreshId(n)), Idle} : calls' = [calls EXCEPT ![c] = next]
    BY <1>4 DEF OpenMap
  <2>2. next.name = NoUser
    BY <1>1, <2>1
  <2>. QED BY <2>1, <2>2 DEF KeepsNames, NamesOf
<1>5. ASSUME NEW c \in Slots, NEW n, NEW page, Load(c, n, page)
      PROVE  KeepsNames
  BY <1>3, <1>5 DEF Load
<1>. QED BY <1>2, <1>3, <1>4, <1>5

LEMMA TapsKeepNames == Tap => KeepsNames
<1>1. \A on, kind : Open(on, kind) => KeepsNames
  BY DEF Open, KeepsNames
<1>2. \A kinds : Close(kinds) => KeepsNames
  BY DEF Close, KeepsNames
<1>3. ASSUME NEW on, NEW step, NEW user, NEW sub, Submit(on, step, user, sub)
      PROVE  KeepsNames
  <2>1. PICK next : next = [Waiting(step, Top(nav).id) EXCEPT !.user = user, !.sub = sub]
    OBVIOUS
  <2>2. PICK c \in Slots : calls' = [calls EXCEPT ![c] = next]
    BY <1>3, <2>1 DEF Submit, Awaits
  <2>3. next.name = NoUser
    BY <2>1 DEF Waiting, Idle
  <2>. QED BY <2>2, <2>3 DEF KeepsNames, NamesOf
<1>4. OpenSignup \/ OpenForgot \/ OpenFilter \/ OpenDrawer \/ RejectForm \/ OpenInfo => KeepsNames
  BY <1>1 DEF OpenSignup, OpenForgot, OpenFilter, OpenDrawer, RejectForm, OpenInfo
<1>5. SubmitLogin \/ SubmitSignup \/ SubmitReset \/ SubmitPublish => KeepsNames
  BY <1>3 DEF SubmitLogin, SubmitSignup, SubmitReset, SubmitPublish
<1>6. DrawerInfo \/ AddObservation \/ DrawerLogin => KeepsNames
  BY DEF DrawerInfo, AddObservation, DrawerLogin, KeepsNames
<1>7. EnterAsGuest \/ SelectFilter \/ DrawerLogout => KeepsNames
  BY NameMoves DEF EnterAsGuest, SelectFilter, DrawerLogout
<1>. QED BY <1>2, <1>4, <1>5, <1>6, <1>7 DEF Tap, GoBack, PressSystemBack

LEMMA AnswersKeepNames ==
  ASSUME TypeOK, NEW c \in Slots, Answer(c)
  PROVE  KeepsNames
<1>1. calls[c] \in Call
  BY DEF TypeOK
<1>2. CASE \/ FirstFrame(c) \/ QueryAnswered(c) \/ LoginFails(c) \/ LoginCompletes(c)
           \/ SignupFails(c) \/ SignupCompletes(c) \/ ResetAnswered(c) \/ LogoutCompletes(c)
           \/ NotLocated(c) \/ PublishCompletes(c) \/ Uncaught(c)
  BY <1>2, NameMoves
  DEF FirstFrame, QueryAnswered, LoginFails, LoginCompletes, SignupFails, SignupCompletes,
      ResetAnswered, LogoutCompletes, Rejected, NotLocated, PublishCompletes, Uncaught
<1>3. CASE Created(c) \/ ProfileUpdated(c) \/ AuthForgets(c) \/ Located(c)
  <2>1. PICK step \in {"profile", "writeSub", "signedOut", "store"} :
          Awaits(c, [calls[c] EXCEPT !.step = step])
    BY <1>3 DEF Created, ProfileUpdated, AuthForgets, Located
  <2>2. [calls[c] EXCEPT !.step = step].name = calls[c].name
    BY <1>1 DEF Call
  <2>. QED BY <2>1, <2>2 DEF Awaits, KeepsNames, NamesOf
<1>4. CASE SignedIn(c)
  <2>1. PICK next : next = [calls[c] EXCEPT !.step = "readSub", !.name = DisplayName(calls[c].user)]
    OBVIOUS
  <2>2. calls' = [calls EXCEPT ![c] = next]
    BY <1>4, <2>1 DEF SignedIn, Awaits
  <2>3. next.name = DisplayName(calls[c].user)
    BY <1>1, <2>1 DEF Call
  <2>. QED BY <2>2, <2>3 DEF KeepsNames, NamesOf
<1>. QED BY <1>2, <1>3, <1>4 DEF Answer

\* What a step does to the names in globals, and to those at Firebase.
LEMMA NameInGlobals ==
  ASSUME TypeOK, [Next]_vars
  PROVE  /\ globals'.userFullName \in {NoUser, globals.userFullName, DisplayName(auth)}
                                       \cup {calls[c].name : c \in Slots}
         /\ \A u \in Users : profile[u] = "named" => profile'[u] = "named"
<1>1. ASSUME UNCHANGED <<globals, profile>>
      PROVE  /\ globals'.userFullName \in {NoUser, globals.userFullName, DisplayName(auth)}
                                           \cup {calls[c].name : c \in Slots}
             /\ \A u \in Users : profile[u] = "named" => profile'[u] = "named"
  BY <1>1
<1>2. Tap \/ Resume \/ Unmount \/ UNCHANGED vars => UNCHANGED <<globals, profile>>
  BY TapsAreQuiet DEF Resume, AfterPublish, AfterAck, AfterBadLocation, AfterThanks, Unmount,
                      server, vars
<1>3. CASE Restart
  <2>1. UNCHANGED profile
    BY <1>3 DEF Restart, server
  <2>2. globals'.userFullName \in {NoUser, DisplayName(auth)}
    BY <1>3 DEF Restart, Boot, LoggedOut
  <2>. QED BY <2>1, <2>2
<1>4. ASSUME NEW c \in Slots, Answer(c)
      PROVE  /\ globals'.userFullName \in {NoUser, globals.userFullName, calls[c].name}
             /\ \A u \in Users : profile[u] = "named" => profile'[u] = "named"
  <2>1. CASE \/ FirstFrame(c) \/ QueryAnswered(c) \/ LoginFails(c) \/ SignedIn(c)
             \/ ResetAnswered(c) \/ AuthForgets(c) \/ Located(c) \/ NotLocated(c)
             \/ PublishCompletes(c) \/ Uncaught(c)
    BY <2>1 DEF FirstFrame, QueryAnswered, LoginFails, SignedIn, ResetAnswered, Rejected,
                AuthForgets, Located, NotLocated, PublishCompletes, Uncaught, server
  <2>2. CASE SignupFails(c) \/ Created(c) \/ ProfileUpdated(c)
    <3>1. UNCHANGED globals
      BY <2>2 DEF SignupFails, Rejected, Created, ProfileUpdated
    <3>2. \A u \in Users : profile[u] = "named" => profile'[u] = "named"
      BY <2>2 DEF SignupFails, Created, ProfileUpdated, TypeOK
    <3>. QED BY <3>1, <3>2
  <2>3. CASE LoginCompletes(c) \/ SignupCompletes(c)
    <3>1. UNCHANGED profile
      BY <2>3 DEF LoginCompletes, SignupCompletes, server
    <3>2. globals'.userFullName \in {globals.userFullName, calls[c].name}
      BY <2>3 DEF LoginCompletes, SignupCompletes, SignedInAs
    <3>. QED BY <3>1, <3>2
  <2>4. CASE LogoutCompletes(c)
    BY <2>4 DEF LogoutCompletes, ForgetSession, LoggedOut, server
  <2>. QED BY <1>4, <2>1, <2>2, <2>3, <2>4 DEF Answer
<1>. QED BY <1>1, <1>2, <1>3, <1>4 DEF Next

LEMMA NamesNext == TypeOK /\ NamesInv /\ [Next]_vars => NamesInv'
<1> SUFFICES ASSUME TypeOK, NamesInv, [Next]_vars
             PROVE  NamesInv'
  OBVIOUS
<1>1. /\ globals'.userFullName \in {NoUser, globals.userFullName, DisplayName(auth)}
                                    \cup {calls[c].name : c \in Slots}
      /\ \A u \in Users : profile[u] = "named" => profile'[u] = "named"
  BY NameInGlobals
<1>2. ASSUME NEW name \in Session, name # NoUser => profile[name] = "named"
      PROVE  name # NoUser => profile'[name] = "named"
  BY <1>1, <1>2 DEF Session
<1>3. \A u \in Session : DisplayName(u) \in Session
        /\ (DisplayName(u) # NoUser => profile[DisplayName(u)] = "named")
  BY DEF DisplayName, Session
<1>4. \A c \in Slots : calls[c] \in Call /\ calls[c].user \in Session /\ calls[c].name \in Session
  BY DEF TypeOK, Call
<1>5. NamesAreStored'
  <2>1. globals.userFullName \in Session /\ auth \in Session
    BY DEF TypeOK, Globals
  <2>. QED BY <1>1, <1>2, <1>3, <1>4, <2>1 DEF NamesInv, NamesAreStored
<1>6. \A c \in Slots : calls[c].name # NoUser => profile'[calls[c].name] = "named"
  BY <1>2, <1>4 DEF NamesInv
<1>7. ASSUME KeepsNames, NEW c \in Slots
      PROVE  calls'[c].name # NoUser => profile'[calls'[c].name] = "named"
  <2>1. CASE calls' = calls
    BY <1>6, <2>1
  <2>2. ASSUME NEW d \in Slots, NEW next, calls' = [calls EXCEPT ![d] = next],
               next.name \in NamesOf(calls[d])
        PROVE  calls'[c].name # NoUser => profile'[calls'[c].name] = "named"
    <3>1. calls'[c] = IF c = d THEN next ELSE calls[c]
      BY <2>2 DEF TypeOK
    <3>2. next.name # NoUser => profile'[next.name] = "named"
      BY <1>2, <1>3, <1>4, <1>6, <2>2 DEF NamesOf
    <3>. QED BY <1>6, <3>1, <3>2
  <2>. QED BY <1>7, <2>1, <2>2 DEF KeepsNames
<1>8. \A c \in Slots : calls'[c].name # NoUser => profile'[calls'[c].name] = "named"
  <2>1. Resume => KeepsNames
    BY NameMoves DEF Resume, AfterPublish, AfterAck, AfterBadLocation, AfterThanks, KeepsNames
  <2>2. UNCHANGED vars => KeepsNames
    BY DEF vars, KeepsNames
  <2>3. CASE Unmount
    <3>1. \A c \in Slots : \E page : calls'[c] = [calls[c] EXCEPT !.page = page]
      BY <2>3 DEF Unmount
    <3>2. \A c \in Slots : calls'[c].name = calls[c].name
      BY <1>4, <3>1 DEF Call
    <3>. QED BY <1>6, <3>2
  <2>4. CASE Restart
    <3>1. \A c \in Slots : calls'[c] = Idle \/ \E page : calls'[c] = Waiting("open", page)
      BY <2>4 DEF Restart, Boot
    <3>2. Idle.name = NoUser /\ \A page : Waiting("open", page).name = NoUser
      BY DEF Idle, Waiting
    <3>. QED BY <3>1, <3>2
  <2>. QED BY <1>7, <2>1, <2>2, <2>3, <2>4, TapsKeepNames, AnswersKeepNames DEF Next
<1>. QED BY <1>5, <1>8 DEF NamesInv

LEMMA NamesAlways == Spec => []NamesInv
<1>1. Init => NamesInv
  BY DEF Init, NamesInv, NamesAreStored, Idle, LoggedOut
<1>2. TypeOK /\ NamesInv /\ [Next]_vars => NamesInv'
  BY NamesNext
<1>. QED BY <1>1, <1>2, TypeCorrect, PTL DEF Spec

-----------------------------------------------------------------------------
(* The theorems *)

\* On a phone without a back button, globals.dart describes one person, the one
\* Firebase has signed in, whoever logs in, registers or logs out after whom,
\* with calls failing and the app killed at any moment; a guest finds no trace
\* of the session before.
THEOREM SessionIsCoherent ==
  ASSUME SystemBack = FALSE
  PROVE  Spec => []SessionCoherent
BY ShellInvariant, PTL DEF SessionInv

\* isSubscribed, with which main.dart and login.dart decide on notices, is "Yes"
\* only by that person's own stored answer.
THEOREM ConsentIsRespected ==
  ASSUME SystemBack = FALSE
  PROVE  Spec => []ConsentRespected
BY ShellInvariant, PTL DEF SessionInv

\* The form of publish.dart is never open for a guest, at whatever depth: not
\* after a logout either, which leaves only the first route below the login.
THEOREM FormIsForMembersOnly ==
  ASSUME SystemBack = FALSE
  PROVE  Spec => []FormNeedsSession
BY ShellInvariant, PTL DEF SessionInv

\* No route leads from the map back to a login or registration form while
\* somebody is signed in, so a second account is never signed in over the first.
THEOREM CredentialsAreForGuests ==
  ASSUME SystemBack = FALSE
  PROVE  Spec => CredentialsOnlyWhenSignedOut
<1> DEFINE A == \A c \in Slots :
                  calls[c].step = "none" /\ calls'[c].step \in {"signIn", "create"}
                    => ~globals.bLoggedIn /\ auth = NoUser
<1>1. ASSUME TypeOK, SessionInv', Next
      PROVE  A
  <2>1. SUFFICES ASSUME NEW c \in Slots, calls[c].step = "none",
                        calls'[c].step \in {"signIn", "create"}
                 PROVE  ~globals.bLoggedIn /\ auth = NoUser
    OBVIOUS
  <2>2. ~globals'.bLoggedIn /\ auth' = NoUser
    BY <1>1, <2>1 DEF SessionInv, AccountCall, AccountSteps
  <2>3. UNCHANGED <<globals, auth>>
    BY <1>1, <2>1, CredentialsAreTapped, TapsLeaveSession
  <2>. QED BY <2>2, <2>3
<1>2. TypeOK /\ SessionInv' /\ [Next]_vars => [A]_vars
  BY <1>1
<1> HIDE DEF A
<1>3. CredentialsOnlyWhenSignedOut <=> [][A]_vars
  BY DEF CredentialsOnlyWhenSignedOut, A
<1>. QED BY <1>2, <1>3, ShellInvariant, PTL DEF Spec

\* The shell implements SessionSpec: at most one person at a time, a new one
\* only after the last has left, and notices only by a stored "Yes".
THEOREM SessionsFollowOneAnother ==
  ASSUME SystemBack = FALSE
  PROVE  Spec => ImplementsSession
<1>1. Init => AbstractSession!Init
  BY DEF Init, LoggedOut, AbstractSession!Init
<1>2. TypeOK /\ ModalInv /\ SessionInv /\ [Next]_vars =>
        [AbstractSession!Next]_<<globals.firUserId, globals.isSubscribed, subs>>
  BY SessionSteps
<1>. QED
  BY <1>1, <1>2, ShellInvariant, PTL DEF Spec, ImplementsSession, AbstractSession!Spec

\* With or without a back button: nobody is signed in without an account, and
\* no consent is stored for an account that has not got its name yet, whatever
\* overlaps and wherever the app is killed.
THEOREM AccountsComeFirst == Spec => []OnlyRegistered
<1>1. Init => TypeOK /\ AccountsInv
  <2>1. Init => AccountsInv
    BY DEF Init, AccountsInv, OnlyRegistered, RegisteredCall, Idle, LoggedOut
  <2>. QED BY <2>1, TypeInit
<1>2. TypeOK /\ AccountsInv /\ [Next]_vars => TypeOK' /\ AccountsInv'
  BY TypeNext, AccountsNext
<1>3. AccountsInv => OnlyRegistered
  BY DEF AccountsInv
<1>. QED BY <1>1, <1>2, <1>3, PTL DEF Spec

\* With or without a back button: globals.userFullName, the name an observation
\* is published under, is that of an account whose name is stored, whatever
\* overlaps, fails or is killed; a registration that stops half-way gives none.
THEOREM NamesComeFromAccounts == Spec => []NamesAreStored
<1>1. NamesInv => NamesAreStored
  BY DEF NamesInv
<1>. QED BY <1>1, NamesAlways, PTL
=============================================================================
