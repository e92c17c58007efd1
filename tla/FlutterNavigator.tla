-------------------------- MODULE FlutterNavigator --------------------------
(***************************************************************************)
(* The part of Flutter's Navigator (1.9) the app relies on, as operators   *)
(* on a navigator state.  It is external to the repository: everything     *)
(* here is what the calls in lib/ (Navigator.push, pop, canPop,            *)
(* pushAndRemoveUntil(r => r.isFirst), showDialog, showGeneralDialog) do.  *)
(*                                                                         *)
(*   stack    the routes, the visible one last.  An open drawer counts as  *)
(*            a route: pop closes it first and canPop sees it.             *)
(*   leaving  screens already popped whose exit animation still runs: they *)
(*            are mounted, so code holding their context still works.      *)
(*   resume   the awaits on a route's result that a pop has completed and  *)
(*            whose continuation (a microtask) has not run yet.            *)
(***************************************************************************)
EXTENDS Naturals, Sequences

CONSTANTS Ids,       \* bound: identities of the screens mounted at one time
          NoPage,    \* a context that is null or unmounted
          MaxRoutes  \* bound: no tap opens a route on a stack this deep

ASSUME NavigatorAssumption ==
  NoPage \notin Ids /\ Ids # {} /\ MaxRoutes \in Nat \ {0}

PageRef == Ids \cup {NoPage}

\* Screens whose State keeps using its context after an await.
Screens == {"Map", "Login", "Signup", "Forgot", "Publish"}

\* Routes some code awaits: "Publish" is the page the map's "+" button pushed,
\* "Ack" the "registered successfully" dialog, "BadLocation" the "invalid
\* location" dialog, "Thanks" the alert that follows a publication.
Awaited == {"Publish", "Ack", "BadLocation", "Thanks"}

Kinds == Screens \cup Awaited \cup
         {"Info", "Drawer", "Filter", "Spinner", "Dialog"}

\* id is that of the screen; overlays have none.
Route        == [kind : Kinds, id : PageRef, opener : PageRef]
Continuation == [kind : Awaited, opener : PageRef]
NavState     == [stack   : Seq(Route),
                 leaving : SUBSET Ids,
                 resume  : Seq(Continuation)]

Top(n)      == n.stack[Len(n.stack)]
Below(n)    == n.stack[Len(n.stack) - 1]
StackIds(n) == {n.stack[i].id : i \in DOMAIN n.stack} \ {NoPage}

\* The type of a navigator in use: the first route is a page, and every
\* screen has an identity (the bound Ids is respected).
Fits(n)  == \A i \in DOMAIN n.stack :
              n.stack[i].kind \in Screens => n.stack[i].id # NoPage
NavOK(n) == /\ n \in NavState /\ n.stack # << >> /\ Fits(n)
            /\ n.stack[1].kind \in Screens

\* Navigator.of(context) finds the navigator exactly from a mounted element.
Mounted(n, p) == p \in StackIds(n) \cup n.leaving

Free(n) == Ids \ (StackIds(n) \cup n.leaving)

\* The identity of the next screen; NoPage when the bound Ids is exhausted.
FreshId(n) == IF Free(n) = {} THEN NoPage ELSE CHOOSE i \in Free(n) : TRUE

\* The navigator an app starts with: one page, nothing pending.
Home(kind) == [stack   |-> << [kind   |-> kind,
                               id     |-> CHOOSE i \in Ids : TRUE,
                               opener |-> NoPage] >>,
               leaving |-> {},
               resume  |-> << >>]

Push(n, kind, opener) ==
  [n EXCEPT !.stack = Append(@, [kind   |-> kind,
                                 id     |-> IF kind \in Screens
                                            THEN FreshId(n) ELSE NoPage,
                                 opener |-> opener])]

\* Does popping r with this result wake a continuation that does anything?
\* The await on the Publish page ignores a null result.
Wakes(r, result) == r.kind \in Awaited /\ (r.kind = "Publish" => result)

\* Navigator.pop(context, result).  The last route is never removed.
Pop(n, result) ==
  IF Len(n.stack) <= 1 THEN n
  ELSE [stack   |-> SubSeq(n.stack, 1, Len(n.stack) - 1),
        leaving |-> IF Top(n).kind \in Screens
                    THEN n.leaving \cup {Top(n).id} ELSE n.leaving,
        resume  |-> IF Wakes(Top(n), result)
                    THEN Append(n.resume, [kind   |-> Top(n).kind,
                                           opener |-> Top(n).opener])
                    ELSE n.resume]

\* A drawer left open belongs to the page under it and stays with it.
FirstPage(s) == IF Len(s) > 1 /\ s[2].kind = "Drawer"
                THEN SubSeq(s, 1, 2) ELSE SubSeq(s, 1, 1)

\* The screens a removal down to the first page takes away.
Removed(s) == {s[i].id : i \in {j \in DOMAIN s : j > 1 /\ s[j].kind \in Screens}}

\* Navigator.pushAndRemoveUntil(context, kind, (r) => r.isFirst).  Awaits on
\* the removed routes never complete.
PushOverFirst(n, kind) ==
  Push([n EXCEPT !.stack   = FirstPage(@),
                 !.leaving = @ \cup Removed(n.stack)], kind, NoPage)

\* The exit animation of i is over: the element is unmounted and every route
\* that still refers to it refers to nothing.
Forget(p, i) == IF p = i THEN NoPage ELSE p

Unmounted(n, i) ==
  [n EXCEPT !.leaving = @ \ {i},
            !.stack   = [k \in DOMAIN n.stack |->
                           [n.stack[k] EXCEPT !.opener = Forget(@, i)]]]
=============================================================================
