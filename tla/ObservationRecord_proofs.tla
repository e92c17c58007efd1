----------------------- MODULE ObservationRecord_proofs -----------------------
(***************************************************************************)
(* Form, filter, bottom sheet and detail page agree about an observation,  *)
(* for any bars, any length of them, any fields and any texts.             *)
(***************************************************************************)
EXTENDS ObservationRecord, FiniteSetTheorems, SequenceTheorems,
        TLAPS

\* The document is what the form was left with: no page changes either.
RecordInv == page # "form" => doc = Document(draft)

-----------------------------------------------------------------------------
(* The lists of categories *)

Names == {Labels[k] : k \in 1 .. 11} \cup {"all"}

LEMMA LabelFacts ==
  /\ Len(Labels) = 11 /\ Labels \in Seq(Names) /\ Indices = 0 .. 10
  /\ \A j, k \in 1 .. 11 : Labels[j] = Labels[k] => j = k
  /\ \A k \in 1 .. 11 : Labels[k] # "all"
<1>1. Len(Labels) = 11
  BY DEF Labels
<1>2. Labels = [k \in 1 .. 11 |-> Labels[k]]
  BY DEF Labels
<1>3. Labels \in [1 .. 11 -> Names]
  BY <1>2 DEF Names
<1>4. Labels \in Seq(Names)
  BY <1>3, SeqDef
<1>5. \A j, k \in 1 .. 11 : Labels[j] = Labels[k] => j = k
  BY DEF Labels
<1>6. \A k \in 1 .. 11 : Labels[k] # "all"
  BY DEF Labels
<1>. QED BY <1>1, <1>4, <1>5, <1>6 DEF Indices

\* The filter's list is the form's, one further on.
LEMMA FilterIsShifted ==
  ASSUME NEW i \in 0 .. 11
  PROVE  FilterLabel(i) = IF i = 0 THEN "all" ELSE Labels[i]
<1>1. PICK S, e, s : S = Names /\ e = "all" /\ s = Labels
  OBVIOUS
<1>2. e \in S /\ s \in Seq(S) /\ Len(s) = 11
  BY <1>1, LabelFacts DEF Names
<1> HIDE DEF Names
<1>3. (<< e >> \o s)[i + 1] = IF i = 0 THEN e ELSE s[i]
  <2>1. e \in S /\ s \in Seq(S) /\ i \in 0 .. Len(s)
    BY <1>2
  <2>. QED BY <2>1, SMT
<1>4. FilterLabel(i) = (<< e >> \o s)[i + 1]
  BY <1>1 DEF FilterLabel
<1>. QED BY <1>1, <1>3, <1>4

-----------------------------------------------------------------------------
(* The ratings *)

\* A bar shows one oval more than the index it was tapped at.
LEMMA OvalsCounted ==
  ASSUME NEW r \in -1 .. MaxRating
  PROVE  /\ Ovals(r) = {} <=> r = -1
         /\ r # -1 => Cardinality(Ovals(r)) = r + 1
<1>1. MaxRating \in Nat
  BY RecordAssumption
<1>2. CASE r = -1
  BY <1>1, <1>2 DEF Ovals
<1>3. CASE r # -1
  <2>1. Ovals(r) = 0 .. r
    BY <1>1, <1>3 DEF Ovals
  <2>2. Cardinality(0 .. r) = r + 1
    BY <1>1, <1>3, FS_Interval
  <2>. QED BY <1>1, <1>3, <2>1, <2>2
<1>. QED BY <1>2, <1>3

-----------------------------------------------------------------------------
(* The invariant *)

LEMMA DocumentTypes ==
  ASSUME NEW d \in Drafts
  PROVE  Document(d) \in Documents
BY LabelFacts, RecordAssumption DEF Drafts, Document, Documents

LEMMA RecordInit == Init => TypeOK /\ RecordInv
BY LabelFacts, RecordAssumption DEF Init, TypeOK, RecordInv, Blank, Drafts, Pages

LEMMA RecordNext == TypeOK /\ RecordInv /\ [Next]_vars => (TypeOK /\ RecordInv)'
<1> SUFFICES ASSUME TypeOK, RecordInv, [Next]_vars
             PROVE  (TypeOK /\ RecordInv)'
  OBVIOUS
<1>1. ASSUME NEW d \in Drafts, Fill(d)
      PROVE  (TypeOK /\ RecordInv)'
  BY <1>1 DEF Fill, TypeOK, RecordInv
<1>2. CASE SelectCategory
  <2>1. PICK k \in Indices : Fill([draft EXCEPT !.category = k])
    BY <1>2 DEF SelectCategory
  <2>2. [draft EXCEPT !.category = k] \in Drafts
    BY DEF TypeOK, Drafts
  <2>. QED BY <1>1, <2>1, <2>2
<1>3. CASE AnswerAlert
  <2>1. PICK b \in BOOLEAN : Fill([draft EXCEPT !.alert = b])
    BY <1>3 DEF AnswerAlert
  <2>2. [draft EXCEPT !.alert = b] \in Drafts
    BY DEF TypeOK, Drafts
  <2>. QED BY <1>1, <2>1, <2>2
<1>4. CASE Rate
  <2>1. PICK s \in Scales, i \in 0 .. MaxRating : Fill([draft EXCEPT !.rating[s] = i])
    BY <1>4 DEF Rate
  <2>2. i \in -1 .. MaxRating
    BY RecordAssumption
  <2>3. [draft EXCEPT !.rating[s] = i] \in Drafts
    BY <2>2 DEF TypeOK, Drafts
  <2>. QED BY <1>1, <2>1, <2>3
<1>5. CASE Type
  <2>1. PICK f \in Fields, t \in Texts : Fill([draft EXCEPT !.text[f] = t])
    BY <1>5 DEF Type
  <2>2. [draft EXCEPT !.text[f] = t] \in Drafts
    BY DEF TypeOK, Drafts
  <2>. QED BY <1>1, <2>1, <2>2
<1>6. CASE Publish
  <2>1. Document(draft) \in Documents
    BY DocumentTypes DEF TypeOK
  <2>2. TypeOK'
    BY <1>6, <2>1 DEF Publish, TypeOK, Pages
  <2>3. RecordInv'
    BY <1>6 DEF Publish, RecordInv
  <2>. QED BY <2>2, <2>3
<1>7. CASE SelectFilter
  BY <1>7 DEF SelectFilter, TypeOK, RecordInv
<1>8. CASE TapMarker \/ TapSheet \/ CloseSheet \/ LeavePage
  BY <1>8 DEF TapMarker, TapSheet, CloseSheet, LeavePage, Turn, TypeOK, RecordInv, Pages
<1>9. CASE AddObservation
  BY <1>9, LabelFacts, RecordAssumption
  DEF AddObservation, TypeOK, RecordInv, Pages, Blank, Drafts
<1>10. CASE UNCHANGED vars
  BY <1>10 DEF vars, TypeOK, RecordInv
<1>. QED
  BY <1>2, <1>3, <1>4, <1>5, <1>6, <1>7, <1>8, <1>9, <1>10 DEF Next

LEMMA RecordAlways == Spec => [](TypeOK /\ RecordInv)
BY RecordInit, RecordNext, PTL DEF Spec

-----------------------------------------------------------------------------
\* Drafts, documents and the filter keep their types, and there is a document
\* exactly when the form is not open.
THEOREM RecordTypes == Spec => []TypeOK
BY RecordAlways, PTL

\* Under whatever filter entry the map looks, the document of publish.dart is
\* found exactly under "all" and the name chosen in the form, and the sheet and
\* EventDetail.dart give it that name: three origins of counting that agree.
THEOREM CategoriesAgree == Spec => []CategoryKeepsItsName
<1>1. ASSUME TypeOK, RecordInv, page # "form"
      PROVE  CategoryKeepsItsName
  <2>1. PICK k \in 0 .. 10 : k = draft.category
    BY <1>1, LabelFacts DEF TypeOK, Drafts
  <2>2. doc.category = k + 1 /\ doc.status = 1
    BY <1>1, <2>1 DEF RecordInv, Document
  <2>3. FormLabel(draft.category) = Labels[k + 1]
    BY <2>1 DEF FormLabel
  <2>4. Detail(doc).category = Labels[k + 1]
    BY <2>2 DEF Detail, SheetLabel
  <2>5. ASSUME NEW i \in 0 .. 11
        PROVE  Found(doc, i) <=> FilterLabel(i) \in {"all", Labels[k + 1]}
    <3>1. Found(doc, i) <=> i = 0 \/ i = k + 1
      BY <2>2 DEF Found
    <3>2. FilterLabel(i) = IF i = 0 THEN "all" ELSE Labels[i]
      BY FilterIsShifted
    <3>. QED BY <3>1, <3>2, LabelFacts
  <2>. QED BY <2>3, <2>4, <2>5, LabelFacts DEF CategoryKeepsItsName
<1>2. TypeOK /\ RecordInv => CategoryKeepsItsName
  BY <1>1 DEF CategoryKeepsItsName
<1>. QED BY <1>2, RecordAlways, PTL

\* EventDetail.dart says as many points as ovals were filled in publish.dart, and
\* "-" exactly for a bar nobody touched, whatever the number of ovals.
THEOREM RatingsAreTold == Spec => []ReaderIsToldTheRatings
<1>1. ASSUME TypeOK, RecordInv, page # "form"
      PROVE  ReaderIsToldTheRatings
  <2>1. draft \in Drafts /\ doc = Document(draft)
    BY <1>1 DEF TypeOK, RecordInv
  <2>2. ASSUME NEW s \in Scales
        PROVE  /\ Detail(doc).rating[s] = Dash <=> Ovals(draft.rating[s]) = {}
               /\ Ovals(draft.rating[s]) # {} =>
                    Detail(doc).rating[s] = Cardinality(Ovals(draft.rating[s]))
    <3>1. PICK r \in -1 .. MaxRating : r = draft.rating[s]
      BY <2>1 DEF Drafts
    <3>2. doc.rating[s] = r + 1
      BY <2>1, <3>1 DEF Document
    <3>3. Detail(doc).rating[s] = IF r + 1 > 0 THEN r + 1 ELSE Dash
      BY <3>2 DEF Detail
    <3>4. Detail(doc).rating[s] = Dash <=> r = -1
      BY <3>1, <3>3, RecordAssumption
    <3>. QED BY <3>1, <3>3, <3>4, OvalsCounted, RecordAssumption
  <2>. QED BY <2>2 DEF ReaderIsToldTheRatings
<1>2. TypeOK /\ RecordInv => ReaderIsToldTheRatings
  BY <1>1 DEF ReaderIsToldTheRatings
<1>. QED BY <1>2, RecordAlways, PTL
=============================================================================
