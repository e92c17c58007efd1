------------------------------- MODULE FloodUp -------------------------------
(***************************************************************************)
(* The shell and the publication form together.  The shell decides which   *)
(* taps arrive (those on the route that is on top) and who is logged in;   *)
(* the form decides what is validated, uploaded and stored.  Both run the  *)
(* same handler PublishEvent: slot c of the shell is run c of the form.    *)
(*                                                                         *)
(* The form is instantiated twice.  FreeForm takes its taps on trust: only *)
(* the shell's stack says whether they arrive.  LockedForm is PublishScreen as *)
(* it is studied alone, where a form is not edited while it is published;  *)
(* ImplementsForm says that the spinner really gives it that.              *)
(***************************************************************************)
EXTENDS AppShell

CONSTANTS Categories, Other, Places, BadPlaces, NoPlace, Here, Answers, Blank,
          Photos, NoPhoto, Late, OtherPhones, MaxPhotos, MaxTime, MaxEvents

\* PublishScreen's assumption, for this form.
ASSUME FormAssumption ==
  /\ {0, Other} \subseteq Categories /\ Categories \subseteq Nat
  /\ Here \in Places /\ NoPlace \notin Places \cup BadPlaces
  /\ Blank \in Answers /\ NoPhoto \notin Photos
  /\ IsFiniteSet(Slots)
  /\ {Late, OtherPhones} \subseteq BOOLEAN
  /\ MaxPhotos \in Nat /\ MaxTime \in Nat /\ MaxEvents \in Nat

VARIABLES
  form, photos, urls, runs, lookup, sheet, pick, clock, storage, events,
                 \* those of PublishScreen
  sender,        \* history: whose session it was when "publish" was pressed
  publishers     \* the field "publisher" of each event, and its sender

formVars    == <<form, photos, urls, runs, lookup, sheet, pick, clock, storage, events>>
signVars    == <<sender, publishers>>
appVars     == <<vars, formVars, signVars>>

\* _PublishState exists while its page is on the stack.
FormOpen == \E i \in DOMAIN nav.stack : nav.stack[i].kind = "Publish"

FreeForm == INSTANCE PublishScreen WITH
  Handlers <- Slots, page <- FormOpen, SystemBack <- TRUE

LockedForm == INSTANCE PublishScreen WITH
  Handlers <- Slots, page <- FormOpen, SystemBack <- FALSE

-----------------------------------------------------------------------------
(* What the user does on the form *)

OnForm == Ready /\ Top(nav).kind = "Publish"

\* A field, the tile for the next photo, or its sheet, which is counted to the
\* form: while it is open nothing else of the app can be tapped.
EditForm ==
  /\ OnForm
  /\ UNCHANGED <<vars, signVars>>
  /\ \/ FreeForm!SelectCategory \/ FreeForm!TypeHazard
     \/ FreeForm!ChooseLocation \/ FreeForm!FillAnswers
     \/ FreeForm!OpenSheet \/ FreeForm!CloseSheet \/ FreeForm!StartPick

\* The address and the photo the form once asked for.
LateAnswer ==
  /\ UNCHANGED <<vars, signVars>>
  /\ FreeForm!AddressAnswers \/ FreeForm!PickAnswers

OpenForm == AddObservation /\ FreeForm!OpenPage /\ UNCHANGED signVars

LeaveForm == /\ Top(nav).kind = "Publish" /\ GoBack
             /\ FreeForm!LeavePage
             /\ UNCHANGED signVars

SendForm ==
  /\ SubmitPublish
  /\ \E c \in Slots : calls[c] = Idle /\ calls'[c] # Idle /\ FreeForm!Submit(c)
  /\ sender' = globals.firUserId
  /\ UNCHANGED publishers

-----------------------------------------------------------------------------
(* PublishEvent after its awaits *)

PlaceFound(c)    == Located(c) /\ FreeForm!Geocoded(c) /\ UNCHANGED signVars
PlaceNotFound(c) == NotLocated(c) /\ FreeForm!NotGeocoded(c) /\ UNCHANGED signVars

PhotoStored(c) ==
  /\ At(c, "store")
  /\ UNCHANGED <<vars, signVars>>
  /\ FreeForm!Uploaded(c)

\* What the record says of its author, beside whose tap it was.
Signature == [sender    |-> sender,
              session   |-> globals.firUserId,
              publisher |-> globals.userFullName]

\* The record, if it is added, carries the name in globals at that moment.
RecordAnswered(c) ==
  /\ PublishCompletes(c) /\ FreeForm!AddAnswers(c)
  /\ publishers' = IF events' = events THEN publishers ELSE Append(publishers, Signature)
  /\ UNCHANGED sender

CloseBadPlace ==
  /\ AfterBadLocation
  /\ \E c \in Slots : FreeForm!CloseError(c)
  /\ UNCHANGED signVars

CloseThanked ==
  /\ AfterThanks
  /\ \E c \in Slots : FreeForm!CloseThanks(c)
  /\ UNCHANGED signVars

\* An exception in PublishEvent, or in another handler.
UncaughtSomewhere(c) ==
  /\ Uncaught(c)
  /\ IF calls[c].step \in {"geocode", "store"} THEN FreeForm!Uncaught(c)
                                              ELSE UNCHANGED formVars
  /\ UNCHANGED signVars

-----------------------------------------------------------------------------
(* Everything else leaves the form's state alone *)

ElsewhereTap ==
  \/ OpenSignup \/ OpenForgot \/ OpenFilter \/ OpenDrawer \/ OpenInfo \/ DrawerInfo
  \/ EnterAsGuest \/ SubmitLogin \/ SubmitSignup \/ SubmitReset \/ SelectFilter
  \/ DrawerLogin \/ DrawerLogout
  \/ ~MayPublish /\ AddObservation
  \/ (Top(nav).kind = "Publish" => ~FreeForm!Complete(form)) /\ RejectForm
  \/ Top(nav).kind # "Publish" /\ GoBack

ElsewhereAnswer(c) ==
  \/ FirstFrame(c) \/ QueryAnswered(c)
  \/ LoginFails(c) \/ SignedIn(c) \/ LoginCompletes(c)
  \/ SignupFails(c) \/ Created(c) \/ ProfileUpdated(c) \/ SignupCompletes(c)
  \/ ResetAnswered(c) \/ AuthForgets(c) \/ LogoutCompletes(c)

Elsewhere ==
  /\ \/ ~(OnForm /\ sheet) /\ ElsewhereTap
     \/ \E c \in Slots : ElsewhereAnswer(c)
     \/ AfterPublish \/ AfterAck
     \/ Unmount
  /\ UNCHANGED <<formVars, signVars>>

RestartAll == Restart /\ FreeForm!Restart /\ sender' = NoUser /\ UNCHANGED publishers

AppInit == Init /\ FreeForm!Init /\ sender = NoUser /\ publishers = << >>

AppAnswer(c) ==
  \/ PlaceFound(c) \/ PlaceNotFound(c) \/ PhotoStored(c) \/ RecordAnswered(c)
  \/ UncaughtSomewhere(c)

AppNext == \/ EditForm \/ LateAnswer \/ OpenForm \/ LeaveForm \/ SendForm
           \/ \E c \in Slots : AppAnswer(c)
           \/ CloseBadPlace \/ CloseThanked
           \/ Elsewhere \/ RestartAll

AppSpec == AppInit /\ [][AppNext]_appVars

-----------------------------------------------------------------------------
\* Seen without the shell the form is PublishScreen with its lock: no tap that
\* the shell lets through reaches a form while it is being published, no route is
\* popped from under it, and the blind pop after the thanks closes it.
ImplementsForm == LockedForm!Spec

\* An observation is signed with the name of the person who sent it, or with none
\* where that person's session has none (see RegisteredNameIsPublished in
\* AppShell), although the name is read from globals after every await: between
\* the tap and the record nobody can log out, and nobody else can log in.
SignedByItsSender ==
  \A i \in DOMAIN publishers :
    LET p == publishers[i] IN
    p.sender # NoUser /\ p.session = p.sender /\ p.publisher \in {NoUser, p.sender}

\* Whatever is tapped, answered late or killed anywhere in the app, what it adds
\* to the collection is in order: the fields that were validated, the photos in
\* files of their own under the right category, and one signature to each record,
\* with a name only if an account carries it.
RecordsInOrder ==
  /\ FreeForm!PublishedIsComplete /\ FreeForm!PhotosWellFiled
  /\ Len(publishers) = Len(events)
  /\ \A i \in DOMAIN publishers :
       publishers[i].publisher # NoUser => profile[publishers[i].publisher] = "named"

\* Where nothing arrives late, readers see a log of the drafts.
ImplementsLog == FreeForm!ImplementsLog

-----------------------------------------------------------------------------
(* Why the form has its lock: an inductive invariant (SystemBack = FALSE) *)

\* No screen and no success dialog of a registration lies over a form.
FormOnTop(n) ==
  /\ \A i, j \in DOMAIN n.stack :
       n.stack[i].kind = "Publish" /\ i < j => n.stack[j].kind \notin Screens \cup {"Ack"}
  /\ n.resume # << >> /\ Head(n.resume).kind = "Ack" =>
       \A i \in DOMAIN n.stack : n.stack[i].kind # "Publish"

ThanksAreOpen(n) ==
  IF n.resume = << >> THEN Top(n).kind = "Thanks" ELSE Head(n.resume).kind = "Thanks"

\* A run of the form is a call of the shell under its spinner; or it waits for an
\* alert to be closed, or has died under a spinner, and then there is no call.
RunIsCall(c) ==
  \/ /\ calls[c].step \in {"geocode", "store"}
     /\ runs[c].step \in {"geocode", "upload", "add", "stuck"}
  \/ /\ \A d \in Slots : calls[d].step = "none"
     /\ \/ runs[c].step \in {"badPlace", "stuck"} /\ ~NoSpinner(nav)
        \/ runs[c].step = "thanks" /\ ThanksAreOpen(nav)

FormLockInv ==
  /\ FormOnTop(nav)
  /\ runs = [c \in Slots |-> runs[c]]
  /\ \A c, d \in Slots : runs[c].step # "none" /\ runs[d].step # "none" => c = d
  /\ \A c \in Slots : IF runs[c].step = "none" THEN runs[c] = FreeForm!Idle ELSE RunIsCall(c)
=============================================================================
