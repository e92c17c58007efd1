-------------------------- MODULE ObservationRecord --------------------------
(***************************************************************************)
(* An observation on its way from the publication form (publish.dart) into *)
(* a document of "events" and back to the eyes of a reader: the filter and *)
(* the bottom sheet of the map (filterby.dart, map.dart) and the detail    *)
(* page (EventDetail.dart).  Each of them counts categories and ratings    *)
(* from a different origin.                                                *)
(***************************************************************************)
EXTENDS Integers, Sequences, FiniteSets

CONSTANTS
  Scales,     \* the rating bars: climate, upload, bother
  MaxRating,  \* index of a bar's last oval (4)
  Fields,     \* the text fields a reader may find empty
  Texts,      \* bound: what somebody may type
  Empty,      \* an empty text
  Dash,       \* the text "-", which may be typed, too
  NoDoc       \* no document yet

ASSUME RecordAssumption ==
  /\ MaxRating \in Nat
  /\ Empty \in Texts /\ Dash \notin Nat

VARIABLES
  page,    \* what the user sees
  draft,   \* the fields of the form, as they were left
  doc,     \* the document made of them: one observation is followed at a time
  filter   \* selected_category of the map

vars == <<page, draft, doc, filter>>

Pages == {"form", "map", "sheet", "detail"}

\* The list "categories", which the form and the bottom sheet each build, and
\* the filter's list, which has one entry more.
Labels == << "floods", "storm", "landslide", "seastorm", "snowfalls", "droughts",
             "forestfire", "windstorm", "other", "adaptation", "badpractice" >>

FormLabel(index)   == Labels[index + 1]
SheetLabel(index)  == Labels[index + 1]
FilterLabel(index) == (<< "all" >> \o Labels)[index + 1]

Indices == 0 .. Len(Labels) - 1

\* -1 is a bar nobody touched.
Drafts == [category : Indices, alert : BOOLEAN,
           rating : [Scales -> -1 .. MaxRating], text : [Fields -> Texts]]

Blank == [category |-> 0, alert |-> FALSE,
          rating |-> [s \in Scales |-> -1], text |-> [f \in Fields |-> Empty]]

Documents == [category : 1 .. Len(Labels), uploadobservation : BOOLEAN,
              rating : [Scales -> 0 .. MaxRating + 1], text : [Fields -> Texts],
              status : {0, 1}]

\* _ratingBar: the ovals drawn as filled.
Ovals(rating) == {i \in 0 .. MaxRating : rating >= i}

\* (Mutant: ratings are stored as they are.)
DocumentOldRating(d) ==
  [category |-> d.category + 1, uploadobservation |-> d.alert,
   rating |-> d.rating, text |-> d.text, status |-> 1]

\* PublishEvent: the document that is added.
Document(d) ==
  [category |-> d.category + 1, uploadobservation |-> d.alert,
   rating |-> [s \in Scales |-> d.rating[s] + 1], text |-> d.text, status |-> 1]

\* (Mutant: the filter's index is taken for the form's.)
FoundAsIndexed(c, i) == c.status = 1 /\ (i = 0 \/ c.category = i + 1)

\* LoadWeatherEvents: does the query of filter entry i find the document?
Found(c, i) == c.status = 1 /\ (i = 0 \/ c.category = i)

\* EventDetail: what the reader is told.
Detail(c) ==
  [category |-> SheetLabel(c.category - 1),
   alert    |-> IF c.uploadobservation THEN "no" ELSE "yes",
   rating   |-> [s \in Scales |-> IF c.rating[s] > 0 THEN c.rating[s] ELSE Dash],
   text     |-> [f \in Fields |-> IF c.text[f] = Empty THEN Dash ELSE c.text[f]]]

-----------------------------------------------------------------------------
(* The form *)

Fill(d) ==
  /\ page = "form"
  /\ draft' = d
  /\ UNCHANGED <<page, doc, filter>>

SelectCategory == \E k \in Indices : Fill([draft EXCEPT !.category = k])
AnswerAlert    == \E b \in BOOLEAN : Fill([draft EXCEPT !.alert = b])
Rate           == \E s \in Scales, i \in 0 .. MaxRating :
                    Fill([draft EXCEPT !.rating[s] = i])
Type           == \E f \in Fields, t \in Texts : Fill([draft EXCEPT !.text[f] = t])

\* The form closes, the map reloads with the filter it had.
Publish ==
  /\ page = "form"
  /\ doc' = Document(draft)
  /\ page' = "map"
  /\ UNCHANGED <<draft, filter>>

-----------------------------------------------------------------------------
(* The map and the detail page *)

SelectFilter ==
  /\ page = "map"
  /\ filter' \in 0 .. Len(Labels)
  /\ UNCHANGED <<page, draft, doc>>

Turn(from, to) ==
  /\ page = from /\ page' = to
  /\ UNCHANGED <<draft, doc, filter>>

TapMarker  == Turn("map", "sheet") /\ Found(doc, filter)
TapSheet   == Turn("sheet", "detail")
CloseSheet == Turn("sheet", "map")
LeavePage  == Turn("detail", "sheet")

\* The "+" button: a new form.
AddObservation ==
  /\ page = "map"
  /\ page' = "form"
  /\ draft' = Blank
  /\ doc' = NoDoc
  /\ UNCHANGED filter

Init == page = "form" /\ draft = Blank /\ doc = NoDoc /\ filter = 0

Next == \/ SelectCategory \/ AnswerAlert \/ Rate \/ Type \/ Publish
        \/ SelectFilter \/ TapMarker \/ TapSheet \/ CloseSheet \/ LeavePage
        \/ AddObservation

Spec == Init /\ [][Next]_vars

-----------------------------------------------------------------------------
TypeOK ==
  /\ page \in Pages
  /\ draft \in Drafts
  /\ IF page = "form" THEN doc = NoDoc ELSE doc \in Documents
  /\ filter \in 0 .. Len(Labels)

\* One category has one name: on the map the observation is found under exactly
\* the filter entries "all" and the name that was chosen in the form, and that
\* is the name the bottom sheet and the detail page give it.
CategoryKeepsItsName ==
  page # "form" =>
    /\ \A i \in 0 .. Len(Labels) :
         Found(doc, i) <=> FilterLabel(i) \in {"all", FormLabel(draft.category)}
    /\ Detail(doc).category = FormLabel(draft.category)

\* The reader is told as many points as ovals were filled, and "-" exactly for a
\* bar nobody touched.  Of a text "-" tells less: it is empty, or "-" was typed.
ReaderIsToldTheRatings ==
  page # "form" =>
    \A s \in Scales :
      /\ Detail(doc).rating[s] = Dash <=> Ovals(draft.rating[s]) = {}
      /\ Ovals(draft.rating[s]) # {} =>
           Detail(doc).rating[s] = Cardinality(Ovals(draft.rating[s]))

\* The detail page answers the question "do you know if there was an alert or
\* weather warning?" as the form did.
ReaderIsToldTheAnswer ==
  page = "detail" => Detail(doc).alert = IF draft.alert THEN "yes" ELSE "no"
=============================================================================
