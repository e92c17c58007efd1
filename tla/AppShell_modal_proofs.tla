------------------------ MODULE AppShell_modal_proofs ------------------------
(***************************************************************************)
(* Proof that the spinner is modal on a phone without a back button: the   *)
(* invariant ModalInv is inductive and implies SpinnerIsModal.             *)
(***************************************************************************)
EXTENDS AppShell_proofs

-----------------------------------------------------------------------------
(* The navigator's operators keep a stack well formed *)

\* A sequence of one element.
LEMMA Singleton ==
  ASSUME NEW S, NEW s \in Seq(S), Len(s) = 1
  PROVE  Tail(s) = << >> /\ Head(s) = s[1] /\ s[1] \in S
<1>1. s # << >> /\ s[1] \in S
  BY NonEmpty
<1>2. Tail(s) \in Seq(S) /\ Len(Tail(s)) = 0
  BY <1>1, HeadTailProperties
<1>3. Tail(s) = << >>
  BY <1>2, NonEmpty
<1>4. Head(s) = s[1]
  OBVIOUS
<1>. QED BY <1>1, <1>3, <1>4

\* The screens of a stack, one by one.
LEMMA StackIdsFacts ==
  ASSUME NEW n, NavOK(n)
  PROVE  /\ \A i \in 1 .. Len(n.stack) :
              n.stack[i].id # NoPage => n.stack[i].id \in StackIds(n)
         /\ \A p \in StackIds(n) : p # NoPage /\ \E i \in 1 .. Len(n.stack) : n.stack[i].id = p
BY NonEmpty DEF StackIds, NavOK, NavState

\* WellStacked, by index.
LEMMA WellStackedFacts ==
  ASSUME NEW n, NavOK(n), WellStacked(n)
  PROVE  /\ Len(n.stack) \in Nat \ {0} /\ DOMAIN n.stack = 1 .. Len(n.stack)
         /\ \A i \in 1 .. Len(n.stack) :
              /\ Placed(n, i)
              /\ n.stack[i].id \notin n.leaving
              /\ n.stack[i].kind \in Screens <=> n.stack[i].id # NoPage
              /\ \A j \in 1 .. Len(n.stack) :
                   n.stack[i].id = n.stack[j].id => i = j \/ n.stack[i].id = NoPage
<1>1. Len(n.stack) \in Nat \ {0} /\ DOMAIN n.stack = 1 .. Len(n.stack)
  BY NonEmpty DEF NavOK, NavState
<1>. QED BY <1>1 DEF WellStacked, IdsApart, NavOK, Fits

\* A spinner is on top or right under the "invalid location" dialog.
LEMMA SpinnerOnTop ==
  ASSUME NEW n, NavOK(n), WellStacked(n), Top(n).kind \notin {"Spinner", "BadLocation"}
  PROVE  NoSpinner(n)
BY DEF WellStacked, Placed, NoSpinner, Top

\* What is on the stack after a pop.
LEMMA PopFacts ==
  ASSUME NEW n, NavOK(n), NEW result \in BOOLEAN, Len(n.stack) > 1
  PROVE  LET k == Len(n.stack) - 1
             m == Pop(n, result) IN
         /\ k \in 1 .. Len(n.stack) /\ Len(n.stack) \in Nat
         /\ Len(m.stack) = k /\ DOMAIN m.stack = 1 .. k
         /\ \A i \in 1 .. k : m.stack[i] = n.stack[i]
         /\ Top(m) = Below(n)
         /\ m.leaving = IF Top(n).kind \in Screens
                        THEN n.leaving \cup {Top(n).id} ELSE n.leaving
         /\ m.resume = IF Wakes(Top(n), result)
                       THEN Append(n.resume, [kind |-> Top(n).kind, opener |-> Top(n).opener])
                       ELSE n.resume
<1> DEFINE k == Len(n.stack) - 1
           m == Pop(n, result)
<1>1. n.stack \in Seq(Route) /\ Len(n.stack) \in Nat /\ k \in 1 .. Len(n.stack)
  BY NonEmpty DEF NavOK, NavState
<1>2. /\ m.stack = SubSeq(n.stack, 1, k)
      /\ m.leaving = IF Top(n).kind \in Screens
                     THEN n.leaving \cup {Top(n).id} ELSE n.leaving
      /\ m.resume = IF Wakes(Top(n), result)
                    THEN Append(n.resume, [kind |-> Top(n).kind, opener |-> Top(n).opener])
                    ELSE n.resume
  BY <1>1 DEF Pop
<1> HIDE DEF m
<1>3. /\ m.stack \in Seq(Route) /\ Len(m.stack) = k
      /\ \A i \in 1 .. k : m.stack[i] = n.stack[i]
  BY <1>1, <1>2, FrontFacts
<1>4. DOMAIN m.stack = 1 .. k
  BY <1>3, NonEmpty
<1>5. Top(m) = Below(n)
  BY <1>1, <1>3 DEF Top, Below
<1>. QED BY <1>1, <1>2, <1>3, <1>4, <1>5 DEF m

\* Navigator.pop leaves the rest of the stack well formed, and a continuation
\* it wakes finds what it needs.
LEMMA PopKeeps ==
  ASSUME NEW n, NavOK(n), WellStacked(n), n.resume = << >>, NEW result \in BOOLEAN
  PROVE  WellStacked(Pop(n, result))
<1>1. CASE Len(n.stack) <= 1
  BY <1>1 DEF Pop
<1>2. CASE Len(n.stack) > 1
  <2> DEFINE k == Len(n.stack) - 1
             m == Pop(n, result)
  <2>1. /\ k \in 1 .. Len(n.stack) /\ Len(n.stack) \in Nat
        /\ Len(m.stack) = k /\ DOMAIN m.stack = 1 .. k
        /\ \A i \in 1 .. k : m.stack[i] = n.stack[i]
        /\ Top(m) = Below(n)
        /\ m.leaving = IF Top(n).kind \in Screens
                       THEN n.leaving \cup {Top(n).id} ELSE n.leaving
        /\ m.resume = IF Wakes(Top(n), result)
                      THEN Append(n.resume, [kind |-> Top(n).kind, opener |-> Top(n).opener])
                      ELSE n.resume
    BY <1>2, PopFacts
  <2>2. /\ DOMAIN n.stack = 1 .. Len(n.stack) /\ Top(n) = n.stack[Len(n.stack)]
        /\ \A i \in 1 .. Len(n.stack) :
              /\ Placed(n, i)
              /\ n.stack[i].id \notin n.leaving
              /\ n.stack[i].kind \in Screens <=> n.stack[i].id # NoPage
              /\ \A j \in 1 .. Len(n.stack) :
                   n.stack[i].id = n.stack[j].id => i = j \/ n.stack[i].id = NoPage
    BY WellStackedFacts DEF Top
  <2>a. \A i \in 1 .. k : i \in 1 .. Len(n.stack) /\ i # Len(n.stack)
    BY <2>1
  <2>b. Len(n.stack) \in 1 .. Len(n.stack)
    BY <2>1
  <2>3. NavOK(m)
    BY NavigatorOK
  <2> HIDE DEF m
  <2>4. IdsApart(m)
    <3>1. ASSUME NEW i \in 1 .. k
          PROVE  m.stack[i].id \notin m.leaving
      <4>1. n.stack[i].id \notin n.leaving
        BY <2>2, <2>a
      <4>3. Top(n).kind \in Screens => n.stack[i].id # Top(n).id
        BY <2>2, <2>a, <2>b
      <4>. QED BY <4>1, <4>3, <2>1
    <3>2. /\ \A i \in 1 .. k : m.stack[i].kind \notin Screens => m.stack[i].id = NoPage
          /\ \A i, j \in 1 .. k :
               m.stack[i].id = m.stack[j].id /\ m.stack[i].id # NoPage => i = j
      BY <2>1, <2>2, <2>a
    <3>. QED BY <3>1, <3>2, <2>1 DEF IdsApart
  <2>5. ASSUME NEW i \in 1 .. k
        PROVE  Placed(m, i)
    <3>1. Placed(n, i)
      BY <2>1, <2>2 DEF WellStacked
    <3>2. \A j \in 1 .. (i - 1) : m.stack[j] = n.stack[j]
      BY <2>1
    <3>3. i > 1 => m.stack[i - 1] = n.stack[i - 1]
      BY <2>1
    <3>4. m.stack[i] = n.stack[i] /\ Len(m.stack) = k /\ i # Len(n.stack)
      BY <2>1
    <3>. QED BY <3>1, <3>2, <3>3, <3>4 DEF Placed
  <2>6. ReadyToResume(m)
    <3>1. CASE ~Wakes(Top(n), result)
      BY <3>1, <2>1 DEF ReadyToResume
    <3>2. CASE Wakes(Top(n), result)
      <4>1. m.resume = << [kind |-> Top(n).kind, opener |-> Top(n).opener] >>
        BY <3>2, <2>1
      <4>2. Len(m.resume) = 1 /\ m.resume[1].kind = Top(n).kind /\ m.resume[1].opener = Top(n).opener
        BY <4>1
      <4>3. Placed(n, Len(n.stack)) /\ n.stack[Len(n.stack)] = Top(n) /\ Below(n) = n.stack[k]
        BY <2>1, <2>2 DEF WellStacked, Below
      <4>4. Top(n).kind \in {"Publish", "Ack"} => Top(n).opener \in StackIds(m)
        <5>1. SUFFICES ASSUME Top(n).kind \in {"Publish", "Ack"}
                       PROVE  Top(n).opener \in StackIds(m)
          OBVIOUS
        <5>2. PICK j \in 1 .. (Len(n.stack) - 1) : n.stack[j].id = Top(n).opener
          BY <5>1, <4>3 DEF Placed
        <5>3. j \in 1 .. k /\ m.stack[j].id = Top(n).opener /\ Top(n).opener # NoPage
          BY <5>1, <5>2, <4>3, <2>1 DEF Placed
        <5>. QED BY <5>3, <2>1, <2>3, StackIdsFacts
      <4>5. Top(n).kind = "Thanks" =>
              Top(m).kind = "Publish" /\ Top(m).id = Top(n).opener
        BY <4>3, <2>1 DEF Placed
      <4>6. Top(n).kind = "BadLocation" => Top(m).kind = "Spinner"
        BY <4>3, <2>1 DEF Placed
      <4>7. Top(n).kind # "BadLocation" => NoSpinner(m)
        <5>1. ASSUME Top(n).kind # "BadLocation", NEW i \in 1 .. k, n.stack[i].kind = "Spinner"
              PROVE  FALSE
          <6>1. Placed(n, i) /\ i # Len(n.stack) /\ i \in Nat
            BY <2>2, <2>a
          <6>. QED BY <5>1, <6>1 DEF Placed
        <5>. QED BY <5>1, <2>1 DEF NoSpinner
      <4>. QED BY <4>2, <4>4, <4>5, <4>6, <4>7 DEF ReadyToResume
    <3>. QED BY <3>1, <3>2
  <2>. QED BY <2>1, <2>4, <2>5, <2>6 DEF WellStacked, m
<1>3. Len(n.stack) \in Nat
  BY NonEmpty DEF NavOK, NavState
<1>. QED BY <1>1, <1>2, <1>3

\* What is on the stack after a push.
LEMMA PushFacts ==
  ASSUME NEW n, NavOK(n), NEW kind \in Kinds, NEW opener \in PageRef
  PROVE  LET k == Len(n.stack)
             m == Push(n, kind, opener) IN
         /\ Len(m.stack) = k + 1 /\ DOMAIN m.stack = 1 .. (k + 1)
         /\ \A i \in 1 .. k : m.stack[i] = n.stack[i]
         /\ Top(m) = m.stack[k + 1]
         /\ Top(m).kind = kind /\ Top(m).opener = opener
         /\ Top(m).id = IF kind \in Screens THEN FreshId(n) ELSE NoPage
         /\ m.leaving = n.leaving /\ m.resume = n.resume
<1> DEFINE k == Len(n.stack)
           m == Push(n, kind, opener)
           r == [kind |-> kind, id |-> IF kind \in Screens THEN FreshId(n) ELSE NoPage,
                 opener |-> opener]
<1>1. n.stack \in Seq(Route) /\ k \in Nat
  BY NonEmpty DEF NavOK, NavState
<1>2. r \in Route /\ r.kind = kind /\ r.opener = opener
      /\ r.id = IF kind \in Screens THEN FreshId(n) ELSE NoPage
  BY FreshIdType DEF Route, PageRef
<1>3. m = [n EXCEPT !.stack = Append(n.stack, r)]
  BY DEF Push
<1>4. m.stack = Append(n.stack, r) /\ m.leaving = n.leaving /\ m.resume = n.resume
  BY <1>3 DEF NavOK, NavState
<1> HIDE DEF m, r
<1>5. /\ m.stack \in Seq(Route) /\ Len(m.stack) = k + 1
      /\ \A i \in 1 .. k : m.stack[i] = n.stack[i]
      /\ m.stack[k + 1] = r
  BY <1>1, <1>2, <1>4, AppendFacts
<1>6. DOMAIN m.stack = 1 .. (k + 1)
  BY <1>5, NonEmpty
<1>. QED BY <1>2, <1>4, <1>5, <1>6 DEF m, Top

\* Navigator.push and showDialog keep the stack well formed when a route is
\* opened where it may be.
LEMMA PushKeeps ==
  ASSUME NEW n, NavOK(n), WellStacked(n), n.resume = << >>,
         NEW kind \in Kinds, NEW opener \in PageRef, Fits(Push(n, kind, opener)),
         kind \in {"Publish", "Ack"} => opener \in StackIds(n),
         kind \in {"Filter", "Drawer"} => Top(n).kind = "Map",
         kind = "Thanks" => Top(n).kind = "Publish" /\ Top(n).id = opener,
         IF kind = "BadLocation" THEN Top(n).kind = "Spinner" ELSE NoSpinner(n)
  PROVE  WellStacked(Push(n, kind, opener))
<1> DEFINE k == Len(n.stack)
           m == Push(n, kind, opener)
<1>1. /\ Len(m.stack) = k + 1 /\ DOMAIN m.stack = 1 .. (k + 1)
      /\ \A i \in 1 .. k : m.stack[i] = n.stack[i]
      /\ Top(m) = m.stack[k + 1]
      /\ Top(m).kind = kind /\ Top(m).opener = opener
      /\ Top(m).id = IF kind \in Screens THEN FreshId(n) ELSE NoPage
      /\ m.leaving = n.leaving /\ m.resume = << >>
  BY PushFacts
<1>2. /\ k \in Nat \ {0} /\ DOMAIN n.stack = 1 .. k
      /\ \A i \in 1 .. k :
           /\ Placed(n, i)
           /\ n.stack[i].id \notin n.leaving
           /\ n.stack[i].kind \in Screens <=> n.stack[i].id # NoPage
           /\ \A j \in 1 .. k : n.stack[i].id = n.stack[j].id => i = j \/ n.stack[i].id = NoPage
  BY WellStackedFacts
<1>3. kind \in Screens => /\ Top(m).id # NoPage
                          /\ Top(m).id \notin n.leaving
                          /\ \A i \in 1 .. k : n.stack[i].id # Top(m).id
  <2> SUFFICES ASSUME kind \in Screens
               PROVE  /\ Top(m).id # NoPage
                      /\ Top(m).id \notin n.leaving
                      /\ \A i \in 1 .. k : n.stack[i].id # Top(m).id
    OBVIOUS
  <2>1. FreshId(n) # NoPage
    <3>1. k + 1 \in DOMAIN m.stack
      BY <1>1, <1>2
    <3>. QED BY <3>1, <1>1 DEF Fits
  <2>2. FreshId(n) \in Free(n)
    BY <2>1 DEF FreshId
  <2>3. FreshId(n) \notin StackIds(n) /\ FreshId(n) \notin n.leaving
    BY <2>2 DEF Free
  <2>. QED BY <2>1, <2>3, <1>1, StackIdsFacts
<1> HIDE DEF m
<1>4. IdsApart(m)
  <2>1. \A i \in 1 .. k : m.stack[i] = n.stack[i] /\ i # k + 1
    BY <1>1, <1>2
  <2>2. \A i \in 1 .. (k + 1) : i \in 1 .. k \/ i = k + 1
    BY <1>2
  <2>3. Top(m).id # NoPage => kind \in Screens
    BY <1>1
  <2>a. Top(m).id \notin m.leaving
    <3>1. n.leaving \subseteq Ids /\ NoPage \notin Ids
      BY NavigatorAssumption DEF NavOK, NavState
    <3>. QED BY <3>1, <2>3, <1>1, <1>3
  <2>4. \A i \in 1 .. (k + 1) : m.stack[i].id \notin m.leaving
    BY <2>1, <2>2, <2>a, <1>1, <1>2
  <2>5. \A i \in 1 .. (k + 1) : m.stack[i].kind \notin Screens => m.stack[i].id = NoPage
    BY <2>1, <2>2, <1>1, <1>2
  <2>6. \A i, j \in 1 .. (k + 1) :
          m.stack[i].id = m.stack[j].id /\ m.stack[i].id # NoPage => i = j
    <3>1. ASSUME NEW i \in 1 .. k, m.stack[i].id = Top(m).id, m.stack[i].id # NoPage
          PROVE  FALSE
      BY <3>1, <2>1, <2>3, <1>3
    <3>2. ASSUME NEW i \in 1 .. k, NEW j \in 1 .. k, m.stack[i].id = m.stack[j].id,
                 m.stack[i].id # NoPage
          PROVE  i = j
      BY <3>2, <2>1, <1>2
    <3>. QED BY <3>1, <3>2, <2>2, <1>1
  <2>. QED BY <2>4, <2>5, <2>6, <1>1 DEF IdsApart
<1>5. ASSUME NEW i \in 1 .. k
      PROVE  Placed(m, i)
  <2>1. Placed(n, i) /\ m.stack[i] = n.stack[i] /\ i \in Nat /\ i # k + 1
    BY <1>1, <1>2
  <2>2. \A j \in 1 .. (i - 1) : m.stack[j] = n.stack[j]
    BY <1>1, <1>2
  <2>3. i > 1 => m.stack[i - 1] = n.stack[i - 1]
    BY <1>1, <1>2
  <2>4. n.stack[i].kind = "Spinner" => kind = "BadLocation" /\ i = k
    <3>1. SUFFICES ASSUME n.stack[i].kind = "Spinner"
                   PROVE  kind = "BadLocation" /\ i = k
      OBVIOUS
    <3>2. kind = "BadLocation"
      BY <3>1, <1>2 DEF NoSpinner
    <3>. QED BY <3>1, <3>2, <2>1 DEF Placed
  <2>5. n.stack[i].kind = "Spinner" => i = Len(m.stack) - 1 /\ Top(m).kind = "BadLocation"
    BY <2>4, <1>1, <1>2
  <2>. QED BY <2>1, <2>2, <2>3, <2>5 DEF Placed
<1>6. Placed(m, k + 1)
  <2>1. k + 1 > 1 /\ k \in 1 .. k /\ (k + 1) - 1 = k
    BY <1>2
  <2>2. m.stack[k] = Top(n)
    BY <2>1, <1>1 DEF Top
  <2>3. kind \in {"Publish", "Ack"} =>
          opener # NoPage /\ \E j \in 1 .. k : m.stack[j].id = opener
    BY <1>1, StackIdsFacts
  <2>4. kind = "BadLocation" => Top(n).kind = "Spinner"
    OBVIOUS
  <2>. QED BY <2>1, <2>2, <2>3, <2>4, <1>1 DEF Placed
<1>7. \A i \in DOMAIN m.stack : Placed(m, i)
  <2>1. \A i \in 1 .. (k + 1) : i \in 1 .. k \/ i = k + 1
    BY <1>2
  <2>. QED BY <2>1, <1>1, <1>5, <1>6
<1>8. ReadyToResume(m)
  BY <1>1 DEF ReadyToResume
<1>. QED BY <1>4, <1>7, <1>8 DEF WellStacked, m

\* Navigator.pushAndRemoveUntil(r => r.isFirst) leaves the first page, with its
\* drawer if that is open, and the new page.
LEMMA PushOverFirstKeeps ==
  ASSUME NEW n, NavOK(n), WellStacked(n), NoSpinner(n), n.resume = << >>,
         Fits(PushOverFirst(n, "Login"))
  PROVE  /\ WellStacked(PushOverFirst(n, "Login"))
         /\ PushOverFirst(n, "Login").resume = << >>
<1> DEFINE m == [n EXCEPT !.stack = FirstPage(n.stack),
                          !.leaving = n.leaving \cup Removed(n.stack)]
           p == IF Len(n.stack) > 1 /\ n.stack[2].kind = "Drawer" THEN 2 ELSE 1
<1>1. /\ Len(n.stack) \in Nat \ {0} /\ DOMAIN n.stack = 1 .. Len(n.stack)
      /\ n.stack \in Seq(Route) /\ n.leaving \in SUBSET Ids
      /\ \A i \in 1 .. Len(n.stack) :
           /\ n.stack[i] \in Route
           /\ Placed(n, i)
           /\ n.stack[i].id \notin n.leaving
           /\ n.stack[i].kind \in Screens <=> n.stack[i].id # NoPage
           /\ \A j \in 1 .. Len(n.stack) :
                n.stack[i].id = n.stack[j].id => i = j \/ n.stack[i].id = NoPage
  BY WellStackedFacts, NonEmpty DEF NavOK, NavState
<1>2. p \in 1 .. Len(n.stack) /\ p \in {1, 2} /\ (p = 2 => n.stack[2].kind = "Drawer")
  BY <1>1
<1>3. FirstPage(n.stack) = SubSeq(n.stack, 1, p)
  BY DEF FirstPage
<1>4. m.leaving = n.leaving \cup Removed(n.stack) /\ m.resume = << >> /\ m.stack = FirstPage(n.stack)
  BY DEF NavOK, NavState
<1>5. PushOverFirst(n, "Login") = Push(m, "Login", NoPage)
  BY DEF PushOverFirst
<1>6. Removed(n.stack) \in SUBSET Ids
  BY <1>1 DEF Removed, Route, PageRef
<1>a. m.stack = SubSeq(n.stack, 1, p)
  BY <1>3, <1>4
<1> HIDE DEF p, m
<1>7. /\ m.stack \in Seq(Route) /\ m.stack # << >> /\ Len(m.stack) = p
      /\ \A i \in 1 .. p : m.stack[i] = n.stack[i]
  BY <1>1, <1>2, <1>a, FrontFacts
<1>8. DOMAIN m.stack = 1 .. p /\ 1 \in 1 .. p /\ 1 .. p \subseteq 1 .. Len(n.stack)
  BY <1>1, <1>2, <1>7, NonEmpty
<1>9. m \in NavState
  BY <1>4, <1>6, <1>7 DEF NavOK, NavState, m
<1>10. NavOK(m)
  BY <1>1, <1>7, <1>8, <1>9 DEF NavOK, Fits
<1>11. NoSpinner(m)
  BY <1>1, <1>7, <1>8 DEF NoSpinner
<1>12. IdsApart(m)
  <2>1. ASSUME NEW i \in 1 .. p, n.stack[i].id \in Removed(n.stack)
        PROVE  FALSE
    <3>1. PICK j \in 1 .. Len(n.stack) :
            j > 1 /\ n.stack[j].kind \in Screens /\ n.stack[j].id = n.stack[i].id
      BY <2>1, <1>1 DEF Removed
    <3>2. i = j
      BY <3>1, <1>1, <1>8
    <3>3. j = 2 /\ p = 2
      BY <3>1, <3>2, <1>2
    <3>. QED BY <3>1, <3>3, <1>2 DEF Screens
  <2>2. \A i \in 1 .. p : m.stack[i].id \notin m.leaving
    BY <2>1, <1>1, <1>4, <1>7, <1>8
  <2>. QED BY <2>2, <1>1, <1>7, <1>8 DEF IdsApart
<1>13. ASSUME NEW i \in 1 .. p
       PROVE  Placed(m, i)
  <2>1. Placed(n, i) /\ m.stack[i] = n.stack[i] /\ i \in Nat /\ n.stack[i].kind # "Spinner"
    BY <1>1, <1>7, <1>8 DEF NoSpinner
  <2>2. \A j \in 1 .. (i - 1) : m.stack[j] = n.stack[j]
    BY <1>2, <1>7
  <2>3. i > 1 => m.stack[i - 1] = n.stack[i - 1]
    BY <1>2, <1>7
  <2>. QED BY <2>1, <2>2, <2>3 DEF Placed
<1>14. WellStacked(m)
  BY <1>4, <1>8, <1>12, <1>13 DEF WellStacked, ReadyToResume
<1>. QED BY <1>4, <1>5, <1>10, <1>11, <1>14, PushKeeps, PushFacts DEF Kinds, Screens, PageRef

\* The end of an exit animation changes no route that is still referred to.
LEMMA UnmountedKeeps ==
  ASSUME NEW n, NavOK(n), WellStacked(n), n.resume = << >>, NEW x \in n.leaving
  PROVE  LET m == Unmounted(n, x) IN
         /\ WellStacked(m) /\ m.resume = << >>
         /\ StackIds(m) = StackIds(n) /\ x \notin StackIds(n)
         /\ Top(m).kind = Top(n).kind
         /\ Len(n.stack) > 1 => Below(m).kind = Below(n).kind /\ Below(m).id = Below(n).id
         /\ NoSpinner(n) => NoSpinner(m)
<1> DEFINE m == Unmounted(n, x)
           k == Len(n.stack)
<1>1. /\ k \in Nat \ {0} /\ DOMAIN n.stack = 1 .. k
      /\ n.stack \in Seq(Route) /\ n.leaving \in SUBSET Ids
      /\ \A i \in 1 .. k :
           /\ n.stack[i] \in Route
           /\ Placed(n, i)
           /\ n.stack[i].id \notin n.leaving
           /\ n.stack[i].kind \in Screens <=> n.stack[i].id # NoPage
           /\ \A j \in 1 .. k :
                n.stack[i].id = n.stack[j].id => i = j \/ n.stack[i].id = NoPage
  BY WellStackedFacts, NonEmpty DEF NavOK, NavState
<1>2. /\ m.stack = [i \in 1 .. k |->
                     [n.stack[i] EXCEPT !.opener = Forget(n.stack[i].opener, x)]]
      /\ m.leaving = n.leaving \ {x} /\ m.resume = << >>
  BY <1>1 DEF Unmounted, NavOK, NavState
<1>3. NavOK(m)
  BY <1>1, NavigatorOK
<1> HIDE DEF m
<1>4. DOMAIN m.stack = 1 .. k /\ Len(m.stack) = k
  <2>1. DOMAIN m.stack = 1 .. k
    BY <1>2
  <2>2. DOMAIN m.stack = 1 .. Len(m.stack) /\ Len(m.stack) \in Nat
    BY <1>3, NonEmpty DEF NavOK, NavState
  <2>. QED BY <2>1, <2>2, <1>1
<1>5. \A i \in 1 .. k : /\ m.stack[i].kind = n.stack[i].kind
                        /\ m.stack[i].id = n.stack[i].id
                        /\ m.stack[i].opener = Forget(n.stack[i].opener, x)
  BY <1>1, <1>2 DEF Route
<1>6. StackIds(m) = StackIds(n)
  BY <1>1, <1>4, <1>5 DEF StackIds
<1>7. x \notin StackIds(n)
  BY <1>1 DEF StackIds
<1>8. Top(m).kind = Top(n).kind /\ (k > 1 => Below(m).kind = Below(n).kind /\ Below(m).id = Below(n).id)
  BY <1>1, <1>4, <1>5 DEF Top, Below
<1>9. NoSpinner(n) => NoSpinner(m)
  BY <1>1, <1>4, <1>5 DEF NoSpinner
<1>10. IdsApart(m)
  BY <1>1, <1>2, <1>4, <1>5 DEF IdsApart
<1>11. ASSUME NEW i \in 1 .. k
       PROVE  Placed(m, i)
  <2>1. Placed(n, i) /\ i \in Nat
    BY <1>1
  <2>2. \A j \in 1 .. (i - 1) : j \in 1 .. k /\ m.stack[j].id = n.stack[j].id
    BY <1>1, <1>5
  <2>3. i > 1 => /\ m.stack[i - 1].kind = n.stack[i - 1].kind
                 /\ m.stack[i - 1].id = n.stack[i - 1].id
    BY <1>1, <1>5
  <2>4. n.stack[i].kind \in {"Publish", "Ack", "Thanks"} => m.stack[i].opener = n.stack[i].opener
    <3>1. SUFFICES ASSUME n.stack[i].kind \in {"Publish", "Ack", "Thanks"}
                   PROVE  n.stack[i].opener # x
      BY <1>5 DEF Forget
    <3>2. PICK j \in 1 .. (i - 1) : n.stack[j].id = n.stack[i].opener
      <4>1. i > 1 => i - 1 \in 1 .. (i - 1)
        BY <2>1
      <4>. QED BY <2>1, <3>1, <4>1 DEF Placed
    <3>. QED BY <3>2, <2>2, <1>1
  <2>. QED BY <2>1, <2>2, <2>3, <2>4, <1>4, <1>5, <1>8 DEF Placed
<1>12. WellStacked(m)
  BY <1>2, <1>4, <1>10, <1>11 DEF WellStacked, ReadyToResume
<1>. QED BY <1>2, <1>6, <1>7, <1>8, <1>9, <1>12 DEF m

\* The navigator an app starts with is well formed.
LEMMA HomeKeeps ==
  ASSUME NEW kind \in {"Login", "Map"}
  PROVE  WellStacked(Home(kind)) /\ NoSpinner(Home(kind)) /\ Home(kind).resume = << >>
<1> DEFINE r == [kind |-> kind, id |-> CHOOSE i \in Ids : TRUE, opener |-> NoPage]
<1>1. /\ Home(kind).stack = << r >> /\ Home(kind).leaving = {} /\ Home(kind).resume = << >>
      /\ r.kind = kind
  BY DEF Home
<1> HIDE DEF r
<1>2. DOMAIN << r >> = {1} /\ << r >>[1] = r
  OBVIOUS
<1>3. IdsApart(Home(kind)) /\ NoSpinner(Home(kind)) /\ ReadyToResume(Home(kind))
  BY <1>1, <1>2 DEF IdsApart, NoSpinner, ReadyToResume, Screens
<1>4. \A i \in DOMAIN Home(kind).stack : Placed(Home(kind), i)
  BY <1>1, <1>2 DEF Placed
<1>. QED BY <1>1, <1>3, <1>4 DEF WellStacked

-----------------------------------------------------------------------------
(* The handlers: what each leaves awaited *)

\* A push keeps the screens that are open, and shows no spinner unless asked to.
LEMMA PushedStack ==
  ASSUME NEW n, NavOK(n), NEW kind \in Kinds, NEW opener \in PageRef,
         Fits(Push(n, kind, opener))
  PROVE  LET m == Push(n, kind, opener) IN
         /\ Top(m).kind = kind /\ Below(m) = Top(n)
         /\ StackIds(n) \subseteq StackIds(m)
         /\ NoSpinner(n) /\ kind # "Spinner" => NoSpinner(m)
         /\ m.resume = n.resume
<1> DEFINE k == Len(n.stack)
           m == Push(n, kind, opener)
<1>1. /\ Len(m.stack) = k + 1 /\ DOMAIN m.stack = 1 .. (k + 1)
      /\ \A i \in 1 .. k : m.stack[i] = n.stack[i]
      /\ Top(m) = m.stack[k + 1] /\ Top(m).kind = kind
      /\ m.resume = n.resume
  BY PushFacts
<1>2. k \in Nat \ {0} /\ DOMAIN n.stack = 1 .. k
  BY NonEmpty DEF NavOK, NavState
<1>3. NavOK(m)
  BY NavigatorOK
<1> HIDE DEF m
<1>4. Below(m) = Top(n)
  BY <1>1, <1>2 DEF Below, Top
<1>5. StackIds(n) \subseteq StackIds(m)
  <2>1. SUFFICES ASSUME NEW q \in StackIds(n)
                 PROVE  q \in StackIds(m)
    OBVIOUS
  <2>2. PICK i \in 1 .. k : q # NoPage /\ n.stack[i].id = q
    BY StackIdsFacts
  <2>3. i \in 1 .. Len(m.stack) /\ m.stack[i].id = q
    BY <1>1, <1>2, <2>2
  <2>. QED BY <2>2, <2>3, <1>3, StackIdsFacts
<1>6. NoSpinner(n) /\ kind # "Spinner" => NoSpinner(m)
  <2>1. \A i \in 1 .. (k + 1) : i \in 1 .. k \/ i = k + 1
    BY <1>2
  <2>. QED BY <2>1, <1>1, <1>2 DEF NoSpinner
<1>. QED BY <1>1, <1>4, <1>5, <1>6 DEF m

\* With no handler awaiting, a well-formed stack is enough.
LEMMA QuietInv ==
  ASSUME WellStacked(nav'), \A d \in Slots : calls'[d] = Idle
  PROVE  ModalInv'
BY DEF ModalInv, Idle

\* One handler awaits, under the spinner.
LEMMA LockedInv ==
  ASSUME WellStacked(nav'), NEW c \in Slots, calls'[c].step \notin {"none", "open"},
         Locked(calls[c])', \A d \in Slots \ {c} : calls'[d] = Idle
  PROVE  ModalInv'
BY DEF ModalInv, Locked, Idle

\* One map waits for its first frame, without a spinner.
LEMMA OpeningInv ==
  ASSUME WellStacked(nav'), NEW c \in Slots, calls'[c].step = "open",
         nav'.resume = << >>, NoSpinner(nav'), \A d \in Slots \ {c} : calls'[d] = Idle
  PROVE  ModalInv'
BY DEF ModalInv, Idle

\* LoadWeatherEvents and the forms: showing the spinner locks the handler that
\* has just sent its call.
LEMMA ShowProgressLocks ==
  ASSUME TypeOK, NEW n, NavOK(n), WellStacked(n), NoSpinner(n), n.resume = << >>,
         NEW page \in StackIds(n), NEW c \in Slots, NEW call,
         \A d \in Slots \ {c} : calls[d] = Idle,
         ShowProgress(n, page), Awaits(c, call), Fits(nav'),
         call.page = page, call.step \notin {"none", "open"},
         call.step \in {"geocode", "store"} => Top(n).kind = "Publish" /\ Top(n).id = page,
         call.step \in {"signOut", "signedOut"} => Top(n).kind = "Drawer"
  PROVE  ModalInv'
<1> DEFINE m == Push(n, "Spinner", NoPage)
<1>1. nav' = m /\ mcontext' = page
  BY DEF ShowProgress
<1>2. "Spinner" \in Kinds /\ NoPage \in PageRef
  BY DEF Kinds, PageRef
<1>3. Fits(m)
  BY <1>1
<1>4. WellStacked(m)
  BY <1>2, <1>3, PushKeeps
<1>5. /\ Top(m).kind = "Spinner" /\ Below(m) = Top(n) /\ StackIds(n) \subseteq StackIds(m)
      /\ m.resume = << >>
  BY <1>2, <1>3, PushedStack
<1>6. calls'[c] = call /\ \A d \in Slots \ {c} : calls'[d] = Idle
  BY DEF Awaits, TypeOK
<1> HIDE DEF m
<1>7. Locked(calls[c])'
  BY <1>1, <1>5, <1>6 DEF Locked
<1>. QED BY <1>1, <1>4, <1>6, <1>7, LockedInv

\* Navigator.push(context, Map()) from a handler: the new map is under no
\* spinner when its first frame asks for one.
LEMMA OpenMapOpens ==
  ASSUME TypeOK, NEW n, NavOK(n), WellStacked(n), NoSpinner(n), n.resume = << >>,
         NEW page \in PageRef, NEW c \in Slots,
         \A d \in Slots \ {c} : calls[d] = Idle,
         OpenMap(c, n, page), Fits(nav')
  PROVE  ModalInv'
<1>1. CASE Mounted(n, page)
  <2>1. nav' = Push(n, "Map", page) /\ calls' = [calls EXCEPT ![c] = Waiting("open", FreshId(n))]
    BY <1>1 DEF OpenMap, Show
  <2>2. "Map" \in Kinds
    BY DEF Kinds, Screens
  <2>3. WellStacked(nav') /\ NoSpinner(nav') /\ nav'.resume = << >>
    BY <2>1, <2>2, PushKeeps, PushedStack
  <2>4. calls'[c].step = "open" /\ \A d \in Slots \ {c} : calls'[d] = Idle
    BY <2>1 DEF TypeOK, Waiting, Idle
  <2>. QED BY <2>3, <2>4, OpeningInv
<1>2. CASE ~Mounted(n, page)
  <2>1. nav' = n /\ calls' = [calls EXCEPT ![c] = Idle]
    BY <1>2 DEF OpenMap, Show
  <2>. QED BY <2>1, QuietInv DEF TypeOK
<1>. QED BY <1>1, <1>2

\* A handler that ends on a well-formed stack.
LEMMA EndsQuietly ==
  ASSUME TypeOK, NEW c \in Slots, \A d \in Slots \ {c} : calls[d] = Idle,
         Ends(c), WellStacked(nav')
  PROVE  ModalInv'
BY QuietInv DEF Ends, TypeOK

\* A handler that goes on to its next await under the same spinner.
LEMMA StillLocked ==
  ASSUME TypeOK, NEW c \in Slots, \A d \in Slots \ {c} : calls[d] = Idle,
         WellStacked(nav), Locked(calls[c]), NEW call, Awaits(c, call),
         UNCHANGED <<nav, mcontext>>,
         call.page = calls[c].page, call.step \notin {"none", "open"},
         call.step \in {"geocode", "store"} => calls[c].step \in {"geocode", "store"},
         call.step \in {"signOut", "signedOut"} => calls[c].step \in {"signOut", "signedOut"}
  PROVE  ModalInv'
<1>1. calls'[c] = call /\ \A d \in Slots \ {c} : calls'[d] = Idle
  BY DEF Awaits, TypeOK
<1>2. Locked(calls[c])'
  BY <1>1 DEF Locked
<1>. QED BY <1>1, <1>2, LockedInv

\* The spinner on top is the only one: popping it leaves none.
LEMMA SpinnerPops ==
  ASSUME NEW n, NavOK(n), WellStacked(n), n.resume = << >>, Top(n).kind = "Spinner"
  PROVE  NoSpinner(Pop(n, FALSE))
<1> DEFINE k == Len(n.stack) - 1
           h == Pop(n, FALSE)
<1>1. Len(n.stack) > 1
  BY TopFacts DEF Screens
<1>2. /\ k \in 1 .. Len(n.stack) /\ Len(n.stack) \in Nat
      /\ DOMAIN h.stack = 1 .. k
      /\ \A i \in 1 .. k : h.stack[i] = n.stack[i]
  BY <1>1, PopFacts
<1> HIDE DEF h
<1>3. ASSUME NEW i \in 1 .. k, n.stack[i].kind = "Spinner"
      PROVE  FALSE
  <2>1. Placed(n, i) /\ i # Len(n.stack)
    BY <1>2, WellStackedFacts
  <2>. QED BY <1>3, <2>1 DEF Placed
<1>4. NoSpinner(h)
  BY <1>2, <1>3 DEF NoSpinner
<1>. QED BY <1>4 DEF h

\* When an answer arrives, hideProgress takes exactly the spinner away and the
\* screen of the handler is still open.
LEMMA HideUnlocks ==
  ASSUME TypeOK, WellStacked(nav), NEW call, Locked(call)
  PROVE  LET h == HideProgress(nav) IN
         /\ NavOK(h) /\ WellStacked(h) /\ NoSpinner(h) /\ h.resume = << >>
         /\ Top(h) = Below(nav) /\ call.page \in StackIds(h)
<1> DEFINE k == Len(nav.stack) - 1
           h == Pop(nav, FALSE)
<1>1. NavOK(nav) /\ nav.resume = << >> /\ Top(nav).kind = "Spinner" /\ call.page \in StackIds(nav)
  BY DEF TypeOK, Locked
<1>2. HideProgress(nav) = h
  BY DEF HideProgress, Locked, Mounted
<1>3. NavOK(h)
  BY <1>1, NavigatorOK
<1>4. WellStacked(h)
  BY <1>1, PopKeeps
<1>5. Len(nav.stack) > 1
  BY <1>1, TopFacts DEF Screens
<1>6. /\ k \in 1 .. Len(nav.stack) /\ Len(nav.stack) \in Nat
      /\ Len(h.stack) = k /\ DOMAIN h.stack = 1 .. k
      /\ \A i \in 1 .. k : h.stack[i] = nav.stack[i]
      /\ Top(h) = Below(nav)
      /\ h.resume = << >>
  BY <1>1, <1>5, PopFacts DEF Wakes, Awaited
<1>7. \A i \in 1 .. Len(nav.stack) :
        /\ Placed(nav, i)
        /\ nav.stack[i].kind \in Screens <=> nav.stack[i].id # NoPage
  BY <1>1, WellStackedFacts
<1>8. NoSpinner(h)
  BY <1>1, <1>3, SpinnerPops
<1> HIDE DEF h
<1>9. call.page \in StackIds(h)
  <2>1. PICK i \in 1 .. Len(nav.stack) : nav.stack[i].id = call.page /\ call.page # NoPage
    BY <1>1, StackIdsFacts
  <2>2. i # Len(nav.stack)
    <3>1. nav.stack[i].kind \in Screens
      BY <2>1, <1>7
    <3>. QED BY <3>1, <1>1 DEF Top, Screens
  <2>3. i \in 1 .. k
    BY <2>1, <2>2, <1>6
  <2>. QED BY <2>1, <2>3, <1>3, <1>6, StackIdsFacts
<1>. QED BY <1>2, <1>3, <1>4, <1>6, <1>8, <1>9

-----------------------------------------------------------------------------
(* ModalInv is inductive *)

\* A tap that reaches a control other than those of a dialog over the spinner
\* finds no handler awaiting.
LEMMA TapsFindIdle ==
  ASSUME TypeOK, ModalInv, Ready, Top(nav).kind # "Spinner"
  PROVE  /\ \A c \in Slots : calls[c] = Idle
         /\ nav.resume = << >> /\ NavOK(nav) /\ WellStacked(nav)
         /\ Top(nav).kind # "BadLocation" => NoSpinner(nav)
<1>1. NavOK(nav) /\ WellStacked(nav) /\ nav.resume = << >>
  BY DEF TypeOK, ModalInv, Ready
<1>. QED BY <1>1, SpinnerOnTop DEF ModalInv, Locked, Ready

\* A screen on top of the stack is one of the screens that are open.
LEMMA TopIsOpen ==
  ASSUME NEW n, NavOK(n), Top(n).kind \in Screens
  PROVE  Top(n).id \in StackIds(n)
<1>1. Len(n.stack) \in Nat \ {0} /\ DOMAIN n.stack = 1 .. Len(n.stack)
  BY NonEmpty DEF NavOK, NavState
<1>2. Len(n.stack) \in 1 .. Len(n.stack)
  BY <1>1
<1>. QED BY <1>1, <1>2, StackIdsFacts DEF Top, NavOK, Fits

\* Under the drawer and the filter is the map they were opened on.
LEMMA MapBelow ==
  ASSUME NEW n, NavOK(n), WellStacked(n), Top(n).kind \in {"Drawer", "Filter"}
  PROVE  /\ Len(n.stack) > 1 /\ Below(n).kind = "Map" /\ Below(n).id \in StackIds(n)
<1>1. Len(n.stack) > 1
  BY TopFacts DEF Screens
<1>2. /\ Len(n.stack) \in Nat /\ Len(n.stack) \in 1 .. Len(n.stack)
      /\ Len(n.stack) - 1 \in 1 .. Len(n.stack)
  BY <1>1, NonEmpty DEF NavOK, NavState
<1>3. Placed(n, Len(n.stack)) /\ DOMAIN n.stack = 1 .. Len(n.stack)
  BY <1>2, WellStackedFacts
<1>4. Below(n).kind = "Map"
  BY <1>3 DEF Placed, Top, Below
<1>5. Below(n).id # NoPage
  BY <1>2, <1>3, <1>4 DEF NavOK, Fits, Below, Screens
<1>. QED BY <1>1, <1>2, <1>4, <1>5, StackIdsFacts DEF Below

\* What is left when a drawer or a filter closes: its map, on top.
LEMMA OverlayCloses ==
  ASSUME NEW n, NavOK(n), WellStacked(n), NoSpinner(n), n.resume = << >>,
         Top(n).kind \in {"Drawer", "Filter"}
  PROVE  LET m == Pop(n, FALSE) IN
         /\ NavOK(m) /\ WellStacked(m) /\ NoSpinner(m) /\ m.resume = << >>
         /\ Top(m) = Below(n) /\ Below(n).id \in StackIds(m)
<1> DEFINE m == Pop(n, FALSE)
           k == Len(n.stack) - 1
<1>1. Len(n.stack) > 1 /\ Below(n).kind = "Map"
  BY MapBelow
<1>2. NavOK(m) /\ WellStacked(m)
  BY NavigatorOK, PopKeeps
<1>3. /\ k \in 1 .. Len(n.stack) /\ Len(n.stack) \in Nat /\ DOMAIN m.stack = 1 .. k
      /\ \A i \in 1 .. k : m.stack[i] = n.stack[i]
      /\ Top(m) = Below(n) /\ m.resume = << >>
  BY <1>1, PopFacts DEF Wakes, Awaited
<1>4. DOMAIN n.stack = 1 .. Len(n.stack)
  BY WellStackedFacts
<1> HIDE DEF m
<1>5. NoSpinner(m)
  BY <1>3, <1>4 DEF NoSpinner
<1>6. Below(n).id \in StackIds(m)
  BY <1>1, <1>2, <1>3, TopIsOpen DEF Screens
<1>. QED BY <1>2, <1>3, <1>5, <1>6 DEF m

\* A fresh install satisfies ModalInv.
LEMMA ModalInit == Init => ModalInv
BY HomeKeeps DEF Init, ModalInv, Idle

\* No tap breaks ModalInv, on a phone without a back button.
LEMMA ModalTap ==
  ASSUME TypeOK, ModalInv, Tap, TypeOK', SystemBack = FALSE
  PROVE  ModalInv'
<1> DEFINE Settled == /\ \A c \in Slots : calls[c] = Idle
                      /\ nav.resume = << >> /\ NavOK(nav) /\ WellStacked(nav)
<1>0. /\ Top(nav).id \in PageRef
      /\ \A kind : On(kind) /\ kind \notin {"Spinner", "BadLocation"} =>
           Settled /\ NoSpinner(nav) /\ Top(nav).kind = kind
  <2>1. Top(nav).id \in PageRef
    BY TopFacts DEF TypeOK
  <2>. QED BY <2>1, TapsFindIdle DEF On
<1>1. ASSUME NEW on, NEW kind \in Kinds \ {"Spinner", "Publish", "Ack", "Thanks", "BadLocation"},
             on \notin {"Spinner", "BadLocation"},
             kind \in {"Filter", "Drawer"} => on = "Map", Open(on, kind)
      PROVE  ModalInv'
  <2>1. Settled /\ NoSpinner(nav) /\ Top(nav).kind = on
    BY <1>0, <1>1 DEF Open
  <2>2. nav' = Push(nav, kind, Top(nav).id) /\ Fits(nav') /\ calls' = calls
    BY <1>1 DEF Open
  <2>3. WellStacked(nav')
    BY <1>0, <1>1, <2>1, <2>2, PushKeeps
  <2>. QED BY <2>1, <2>2, <2>3, QuietInv
<1>2. ASSUME DrawerInfo
      PROVE  ModalInv'
  <2>1. Settled /\ NoSpinner(nav) /\ Top(nav).kind = "Drawer"
    BY <1>0, <1>2 DEF DrawerInfo
  <2>2. /\ NavOK(Pop(nav, FALSE)) /\ WellStacked(Pop(nav, FALSE))
        /\ NoSpinner(Pop(nav, FALSE)) /\ Pop(nav, FALSE).resume = << >>
    BY <2>1, OverlayCloses
  <2>3. WellStacked(nav')
    BY <1>2, <2>2, PushKeeps DEF DrawerInfo, Kinds, PageRef
  <2>. QED BY <1>2, <2>1, <2>3, QuietInv DEF DrawerInfo
<1>3. ASSUME EnterAsGuest
      PROVE  ModalInv'
  <2>1. Settled /\ NoSpinner(nav)
    BY <1>0, <1>3 DEF EnterAsGuest
  <2>. QED BY <1>0, <1>3, <2>1, OpenMapOpens DEF EnterAsGuest
<1>4. ASSUME NEW on \in Screens, NEW step \in Steps \ {"none", "open", "store", "signOut", "signedOut"},
             step = "geocode" => on = "Publish",
             NEW u, NEW s, Submit(on, step, u, s)
      PROVE  ModalInv'
  <2>1. Settled /\ NoSpinner(nav) /\ Top(nav).kind = on
    BY <1>0, <1>4 DEF Submit, Screens
  <2>2. Top(nav).id \in StackIds(nav)
    BY <1>4, <2>1, TopIsOpen
  <2>3. PICK c \in Slots :
          Awaits(c, [Waiting(step, Top(nav).id) EXCEPT !.user = u, !.sub = s])
    BY <1>4 DEF Submit
  <2> DEFINE call == [Waiting(step, Top(nav).id) EXCEPT !.user = u, !.sub = s]
  <2>4. call.step = step /\ call.page = Top(nav).id
    BY DEF Waiting, Idle
  <2>5. ShowProgress(nav, Top(nav).id) /\ Fits(nav')
    BY <1>4 DEF Submit
  <2> HIDE DEF call
  <2>6. Awaits(c, call)
    BY <2>3 DEF call
  <2>. QED BY <1>4, <2>1, <2>2, <2>4, <2>5, <2>6, ShowProgressLocks
<1>5. ASSUME SelectFilter
      PROVE  ModalInv'
  <2>1. Settled /\ NoSpinner(nav) /\ Top(nav).kind = "Filter"
    BY <1>0, <1>5 DEF SelectFilter
  <2>2. /\ NavOK(Pop(nav, FALSE)) /\ WellStacked(Pop(nav, FALSE))
        /\ NoSpinner(Pop(nav, FALSE)) /\ Pop(nav, FALSE).resume = << >>
        /\ Below(nav).id \in StackIds(Pop(nav, FALSE))
    BY <2>1, OverlayCloses
  <2>3. PICK c \in Slots : Load(c, Pop(nav, FALSE), Below(nav).id)
    BY <1>5 DEF SelectFilter
  <2>4. /\ Waiting("query", Below(nav).id).step = "query"
        /\ Waiting("query", Below(nav).id).page = Below(nav).id
    BY DEF Waiting, Idle
  <2>. QED BY <1>5, <2>1, <2>2, <2>3, <2>4, ShowProgressLocks DEF SelectFilter, Load
<1>6. ASSUME AddObservation
      PROVE  ModalInv'
  <2>1. Settled /\ NoSpinner(nav) /\ Top(nav).kind = "Map" /\ calls' = calls
    BY <1>0, <1>6 DEF AddObservation
  <2>2. CASE MayPublish
    <3>1. Top(nav).id \in StackIds(nav)
      BY <2>1, TopIsOpen DEF Screens
    <3>2. WellStacked(nav')
      BY <1>0, <1>6, <2>1, <2>2, <3>1, PushKeeps DEF AddObservation, Kinds, Screens
    <3>. QED BY <2>1, <3>2, QuietInv
  <2>3. CASE ~MayPublish
    BY <1>6, <2>1, <2>3, PushOverFirstKeeps, QuietInv DEF AddObservation
  <2>. QED BY <2>2, <2>3
<1>7. ASSUME DrawerLogin
      PROVE  ModalInv'
  <2>1. Settled /\ NoSpinner(nav) /\ Top(nav).kind = "Drawer"
    BY <1>0, <1>7 DEF DrawerLogin
  <2>2. /\ NavOK(Pop(nav, FALSE)) /\ WellStacked(Pop(nav, FALSE))
        /\ NoSpinner(Pop(nav, FALSE)) /\ Pop(nav, FALSE).resume = << >>
    BY <2>1, OverlayCloses
  <2>3. WellStacked(nav')
    BY <1>7, <2>2, PushOverFirstKeeps DEF DrawerLogin
  <2>. QED BY <1>7, <2>1, <2>3, QuietInv DEF DrawerLogin
<1>8. ASSUME DrawerLogout
      PROVE  ModalInv'
  <2>1. Settled /\ NoSpinner(nav) /\ Top(nav).kind = "Drawer"
    BY <1>0, <1>8 DEF DrawerLogout
  <2>2. Below(nav).id \in StackIds(nav)
    BY <2>1, MapBelow
  <2>3. PICK c \in Slots : Awaits(c, Waiting("signOut", Below(nav).id))
    BY <1>8 DEF DrawerLogout
  <2>4. /\ Waiting("signOut", Below(nav).id).step = "signOut"
        /\ Waiting("signOut", Below(nav).id).page = Below(nav).id
    BY DEF Waiting, Idle
  <2>. QED BY <1>8, <2>1, <2>2, <2>3, <2>4, ShowProgressLocks DEF DrawerLogout
<1>9. ASSUME GoBack
      PROVE  ModalInv'
  <2>1. Settled
    BY <1>9, TapsFindIdle DEF GoBack, Close, ClosedByTap
  <2>2. WellStacked(nav')
    BY <1>9, <2>1, PopKeeps DEF GoBack, Close
  <2>. QED BY <1>9, <2>1, <2>2, QuietInv DEF GoBack, Close
<1>10. ~PressSystemBack
  BY DEF PressSystemBack
<1> HIDE DEF Settled
<1>11. CASE OpenSignup \/ OpenForgot \/ OpenFilter \/ OpenDrawer \/ RejectForm \/ OpenInfo
  BY <1>1, <1>11
  DEF OpenSignup, OpenForgot, OpenFilter, OpenDrawer, RejectForm, OpenInfo, Kinds, Screens, Awaited
<1>12. CASE SubmitLogin \/ SubmitSignup \/ SubmitReset \/ SubmitPublish
  BY <1>4, <1>12 DEF SubmitLogin, SubmitSignup, SubmitReset, SubmitPublish, Steps, Screens
<1>. QED
  BY <1>2, <1>3, <1>5, <1>6, <1>7, <1>8, <1>9, <1>10, <1>11, <1>12 DEF Tap

\* No answer to an awaited call breaks ModalInv.
LEMMA ModalAnswer ==
  ASSUME TypeOK, ModalInv, NEW c \in Slots, Answer(c)
  PROVE  ModalInv'
<1> DEFINE call == calls[c]
           h == HideProgress(nav)
<1>0. /\ NavOK(nav) /\ WellStacked(nav) /\ nav.resume = << >>
      /\ call \in Call /\ call.page \in PageRef
      /\ \A step \in Steps \ {"none"} : call.step = step => \A d \in Slots \ {c} : calls[d] = Idle
  <2>1. nav.resume = << >>
    BY DEF Answer, At, FirstFrame, QueryAnswered, LoginFails, SignedIn, LoginCompletes, SignupFails,
           Created, ProfileUpdated, SignupCompletes, ResetAnswered, AuthForgets,
           LogoutCompletes, Located, NotLocated, PublishCompletes, Uncaught
  <2>2. calls[c] \in Call
    BY DEF TypeOK
  <2>3. calls[c].page \in PageRef
    BY <2>2 DEF Call
  <2>. QED BY <2>1, <2>2, <2>3 DEF TypeOK, ModalInv, Idle
<1>1. ASSUME call.step \in Steps \ {"none", "open"}
      PROVE  /\ Locked(call) /\ \A d \in Slots \ {c} : calls[d] = Idle
             /\ NavOK(h) /\ WellStacked(h) /\ NoSpinner(h) /\ h.resume = << >>
             /\ Top(h) = Below(nav) /\ call.page \in StackIds(h)
  <2>1. Locked(call)
    BY <1>1 DEF ModalInv
  <2>2. \A d \in Slots \ {c} : calls[d] = Idle
    BY <1>0, <1>1
  <2> HIDE DEF call
  <2>. QED BY <1>0, <2>1, <2>2, HideUnlocks
<1>2. ASSUME NEW kind \in {"Dialog", "Ack", "Thanks"}, call.step \in Steps \ {"none", "open"},
             kind = "Thanks" => call.step = "store",
             nav' = Show(h, call.page, kind), Fits(nav'), Ends(c)
      PROVE  ModalInv'
  <2>1. nav' = Push(h, kind, call.page)
    BY <1>1, <1>2 DEF Show, Mounted
  <2>2. kind = "Thanks" => Top(h).kind = "Publish" /\ Top(h).id = call.page
    BY <1>1, <1>2 DEF Locked
  <2> HIDE DEF h, call
  <2>3. WellStacked(nav')
    BY <1>0, <1>1, <1>2, <2>1, <2>2, PushKeeps DEF Kinds, Awaited
  <2>. QED BY <1>1, <1>2, <2>3, EndsQuietly
<1>3. ASSUME NEW next, call.step \in Steps \ {"none", "open"}, Awaits(c, next),
             UNCHANGED <<nav, mcontext>>,
             next.page = call.page, next.step \notin {"none", "open"},
             next.step \in {"geocode", "store"} => call.step \in {"geocode", "store"},
             next.step \in {"signOut", "signedOut"} => call.step \in {"signOut", "signedOut"}
      PROVE  ModalInv'
  BY <1>0, <1>1, <1>3, StillLocked
<1>4. CASE FirstFrame(c)
  <2>1. call.step = "open" /\ NoSpinner(nav) /\ \A d \in Slots \ {c} : calls[d] = Idle
    BY <1>0, <1>4 DEF FirstFrame, At, ModalInv, Steps
  <2>2. CASE call.page \in StackIds(nav)
    <3>1. /\ ShowProgress(nav, call.page) /\ Awaits(c, Waiting("query", call.page))
          /\ Fits(nav')
      BY <1>4, <2>2 DEF FirstFrame, Load
    <3>2. Waiting("query", call.page).step = "query" /\ Waiting("query", call.page).page = call.page
      BY DEF Waiting, Idle
    <3> HIDE DEF call
    <3>. QED BY <1>0, <2>1, <2>2, <3>1, <3>2, ShowProgressLocks
  <2>3. CASE call.page \notin StackIds(nav)
    BY <1>0, <1>4, <2>1, <2>3, EndsQuietly DEF FirstFrame
  <2>. QED BY <2>2, <2>3
<1>5. CASE QueryAnswered(c)
  BY <1>0, <1>1, <1>5, EndsQuietly DEF QueryAnswered, At, Steps
<1>6. CASE LoginFails(c) \/ SignupFails(c) \/ ResetAnswered(c)
  BY <1>2, <1>6 DEF LoginFails, SignupFails, ResetAnswered, Rejected, At, Steps
<1>7. CASE SignedIn(c)
  <2>1. Awaits(c, [call EXCEPT !.step = "readSub", !.name = DisplayName(call.user)])
        /\ UNCHANGED <<nav, mcontext>> /\ call.step = "signIn"
    BY <1>7 DEF SignedIn, At
  <2>2. /\ [call EXCEPT !.step = "readSub", !.name = DisplayName(call.user)].page = call.page
        /\ [call EXCEPT !.step = "readSub", !.name = DisplayName(call.user)].step = "readSub"
    BY <1>0 DEF Call
  <2>. QED BY <1>3, <2>1, <2>2 DEF Steps
<1>8. CASE LoginCompletes(c)
  BY <1>0, <1>1, <1>8, OpenMapOpens DEF LoginCompletes, At, Steps
<1>9. ASSUME NEW step \in Steps \ {"none", "open"}, call.step \in Steps \ {"none", "open"},
             Awaits(c, [call EXCEPT !.step = step]), UNCHANGED <<nav, mcontext>>,
             step \in {"geocode", "store"} => call.step \in {"geocode", "store"},
             step \in {"signOut", "signedOut"} => call.step \in {"signOut", "signedOut"}
      PROVE  ModalInv'
  <2>1. [call EXCEPT !.step = step].page = call.page /\ [call EXCEPT !.step = step].step = step
    BY <1>0 DEF Call
  <2>. QED BY <1>3, <1>9, <2>1
<1>10. CASE Created(c)
  BY <1>9, <1>10 DEF Created, At, Steps
<1>11. CASE ProfileUpdated(c)
  BY <1>9, <1>11 DEF ProfileUpdated, At, Steps
<1>12. CASE SignupCompletes(c)
  BY <1>2, <1>12 DEF SignupCompletes, At, Steps
<1>13. CASE AuthForgets(c)
  BY <1>9, <1>13 DEF AuthForgets, At, Steps
<1>14. CASE LogoutCompletes(c)
  <2>1. /\ call.step = "signedOut" /\ Fits(nav') /\ Ends(c)
        /\ nav' = IF Mounted(h, call.page)
                  THEN PushOverFirst(Pop(h, FALSE), "Login") ELSE h
    BY <1>14 DEF LogoutCompletes, At
  <2>2. Top(h).kind = "Drawer"
    BY <1>1, <2>1 DEF Locked, Steps
  <2>3. Mounted(h, call.page)
    BY <1>1, <2>1 DEF Mounted, Steps
  <2>4. NavOK(h) /\ WellStacked(h) /\ NoSpinner(h) /\ h.resume = << >>
    BY <1>1, <2>1 DEF Steps
  <2> HIDE DEF h
  <2>5. WellStacked(nav')
    BY <2>1, <2>2, <2>3, <2>4, OverlayCloses, PushOverFirstKeeps
  <2>. QED BY <1>0, <2>1, <2>5, EndsQuietly DEF Steps
<1>15. CASE Located(c)
  BY <1>9, <1>15 DEF Located, At, Steps
<1>16. CASE NotLocated(c)
  <2>1. call.step = "geocode" /\ nav' = Show(nav, call.page, "BadLocation") /\ Fits(nav') /\ Ends(c)
    BY <1>16 DEF NotLocated, At
  <2>2. Locked(call) /\ \A d \in Slots \ {c} : calls[d] = Idle
    BY <1>1, <2>1 DEF Steps
  <2>3. nav' = Push(nav, "BadLocation", call.page) /\ Top(nav).kind = "Spinner"
    BY <2>1, <2>2 DEF Locked, Show, Mounted
  <2> HIDE DEF call
  <2>4. WellStacked(nav')
    BY <1>0, <2>1, <2>3, PushKeeps DEF Kinds, Awaited
  <2>. QED BY <2>1, <2>2, <2>4, EndsQuietly
<1>17. CASE PublishCompletes(c)
  BY <1>2, <1>17 DEF PublishCompletes, At, Steps
<1>18. CASE Uncaught(c)
  BY <1>0, <1>18, EndsQuietly DEF Uncaught, At, Steps
<1>. QED
  BY <1>4, <1>5, <1>6, <1>7, <1>8, <1>10, <1>11, <1>12, <1>13, <1>14,
     <1>15, <1>16, <1>17, <1>18 DEF Answer

\* No continuation of an await on a route breaks ModalInv.
LEMMA ModalResume ==
  ASSUME TypeOK, ModalInv, Resume
  PROVE  ModalInv'
<1> DEFINE n == Resumed
<1>1. /\ nav.resume # << >> /\ NavOK(nav) /\ WellStacked(nav) /\ nav \in NavState
      /\ \A c \in Slots : calls[c] = Idle
  BY DEF TypeOK, ModalInv, NavOK, Resume, AfterPublish, AfterAck, AfterBadLocation, AfterThanks, Woken
<1>2. /\ nav.resume \in Seq(Continuation) /\ Len(nav.resume) = 1
      /\ nav.resume[1].kind \in {"Publish", "Ack"} => nav.resume[1].opener \in StackIds(nav)
      /\ nav.resume[1].kind # "BadLocation" => NoSpinner(nav)
  BY <1>1 DEF WellStacked, ReadyToResume, NavState
<1>3. Tail(nav.resume) = << >> /\ Head(nav.resume) = nav.resume[1] /\ nav.resume[1] \in Continuation
  BY <1>2, Singleton
<1>4. /\ n.stack = nav.stack /\ n.leaving = nav.leaving /\ n.resume = << >>
      /\ n \in NavState
  <2>1. << >> \in Seq(Continuation)
    OBVIOUS
  <2>2. n = [nav EXCEPT !.resume = << >>]
    BY <1>3 DEF Resumed
  <2>. QED BY <1>1, <2>1, <2>2 DEF NavState
<1> HIDE DEF n
<1>5. /\ NavOK(n) /\ StackIds(n) = StackIds(nav)
      /\ NoSpinner(nav) => NoSpinner(n)
  BY <1>1, <1>4 DEF NavOK, Fits, StackIds, NoSpinner
<1>6. WellStacked(n)
  <2>1. IdsApart(n)
    BY <1>1, <1>4 DEF WellStacked, IdsApart
  <2>2. \A i \in DOMAIN n.stack : Placed(n, i)
    BY <1>1, <1>4 DEF WellStacked, Placed, Top
  <2>. QED BY <2>1, <2>2, <1>4 DEF WellStacked, ReadyToResume
<1>7. Opener = nav.resume[1].opener /\ Opener \in PageRef
  BY <1>3 DEF Opener, Continuation
<1>8. CASE AfterPublish
  <2>1. Opener \in StackIds(n) /\ NoSpinner(n)
    BY <1>2, <1>3, <1>5, <1>7, <1>8 DEF AfterPublish, Woken
  <2>2. PICK c \in Slots : Load(c, n, Opener)
    BY <1>8 DEF AfterPublish, n
  <2>3. Waiting("query", Opener).step = "query" /\ Waiting("query", Opener).page = Opener
    BY DEF Waiting, Idle
  <2>4. ShowProgress(n, Opener) /\ Awaits(c, Waiting("query", Opener)) /\ Fits(nav')
    BY <1>8, <2>2 DEF AfterPublish, Load
  <2>. QED BY <1>1, <1>4, <1>5, <1>6, <2>1, <2>3, <2>4, ShowProgressLocks
<1>9. CASE AfterAck
  <2>1. NoSpinner(n)
    BY <1>2, <1>3, <1>5, <1>9 DEF AfterAck, Woken
  <2>2. PICK c \in Slots : OpenMap(c, n, Opener)
    BY <1>9 DEF AfterAck, n
  <2>. QED BY <1>1, <1>4, <1>5, <1>6, <1>7, <1>9, <2>1, <2>2, OpenMapOpens DEF AfterAck
<1>10. CASE AfterBadLocation
  <2>1. nav' = HideProgress(n) /\ calls' = calls
    BY <1>10 DEF AfterBadLocation, n
  <2>2. WellStacked(nav')
    BY <1>4, <1>5, <1>6, <2>1, PopKeeps DEF HideProgress
  <2>. QED BY <1>1, <2>1, <2>2, QuietInv
<1>11. CASE AfterThanks
  <2>1. nav' \in {Pop(n, TRUE), n} /\ calls' = calls
    BY <1>11 DEF AfterThanks, n
  <2>2. WellStacked(nav')
    BY <1>4, <1>5, <1>6, <2>1, PopKeeps
  <2>. QED BY <1>1, <2>1, <2>2, QuietInv
<1>. QED BY <1>8, <1>9, <1>10, <1>11 DEF Resume

\* The end of an exit animation does not break ModalInv: the screen that shows
\* the spinner is not the one that leaves.
LEMMA ModalUnmount ==
  ASSUME TypeOK, ModalInv, Unmount
  PROVE  ModalInv'
<1> PICK x \in nav.leaving :
      /\ nav.resume = << >> /\ nav' = Unmounted(nav, x)
      /\ mcontext' = Forget(mcontext, x)
      /\ calls' = [c \in Slots |-> [calls[c] EXCEPT !.page = Forget(calls[c].page, x)]]
  BY DEF Unmount
<1>1. NavOK(nav) /\ WellStacked(nav) /\ x # NoPage
  BY NavigatorAssumption DEF TypeOK, ModalInv, NavOK, NavState
<1>2. /\ WellStacked(nav') /\ nav'.resume = << >>
      /\ StackIds(nav') = StackIds(nav) /\ x \notin StackIds(nav)
      /\ Top(nav').kind = Top(nav).kind
      /\ Len(nav.stack) > 1 =>
           Below(nav').kind = Below(nav).kind /\ Below(nav').id = Below(nav).id
      /\ NoSpinner(nav) => NoSpinner(nav')
  BY <1>1, UnmountedKeeps
<1>3. \A c \in Slots : calls'[c] = [calls[c] EXCEPT !.page = Forget(calls[c].page, x)]
  OBVIOUS
<1>4. \A c \in Slots : /\ calls'[c].step = calls[c].step
                       /\ calls'[c].page = Forget(calls[c].page, x)
                       /\ calls[c] = Idle => calls'[c] = Idle
  <2>1. \A c \in Slots : calls[c] \in Call
    BY DEF TypeOK
  <2>2. Forget(NoPage, x) = NoPage /\ [Idle EXCEPT !.page = NoPage] = Idle /\ Idle.page = NoPage
    BY <1>1 DEF Forget, Idle
  <2>3. ASSUME NEW c \in Slots
        PROVE  calls'[c].step = calls[c].step /\ calls'[c].page = Forget(calls[c].page, x)
    BY <1>3, <2>1, <2>3 DEF Call
  <2>. QED BY <1>3, <2>2, <2>3
<1>5. CASE \A c \in Slots : calls[c] = Idle
  BY <1>2, <1>4, <1>5, QuietInv
<1>6. CASE \E c \in Slots : calls[c] # Idle
  <2>1. PICK c \in Slots : calls[c] # Idle
    BY <1>6
  <2>2. calls[c].step # "none" /\ \A d \in Slots \ {c} : calls'[d] = Idle
    BY <1>4, <2>1 DEF ModalInv
  <2>3. CASE calls[c].step = "open"
    BY <1>2, <1>4, <2>2, <2>3, OpeningInv DEF ModalInv
  <2>4. CASE calls[c].step # "open"
    <3>1. Locked(calls[c])
      BY <2>2, <2>4 DEF ModalInv
    <3>2. Len(nav.stack) > 1
      BY <1>1, <3>1, TopFacts DEF Locked, Screens
    <3>3. mcontext' = mcontext /\ calls'[c].page = calls[c].page
      BY <1>2, <1>4, <3>1 DEF Locked, Forget
    <3>4. Locked(calls[c])'
      BY <1>2, <1>4, <3>1, <3>2, <3>3 DEF Locked
    <3>. QED BY <1>2, <1>4, <2>2, <2>4, <3>4, LockedInv
  <2>. QED BY <2>3, <2>4
<1>. QED BY <1>5, <1>6

\* A restart, at whatever moment, re-establishes ModalInv.
LEMMA ModalRestart ==
  ASSUME Restart
  PROVE  ModalInv'
<1> DEFINE home == IF auth = NoUser THEN "Login" ELSE "Map"
<1>1. PICK notice : Boot(notice)
  BY DEF Restart
<1>2. PICK first \in Slots :
        calls' = [c \in Slots |->
                    IF home = "Map" /\ c = first
                    THEN Waiting("open", Top(Home(home)).id) ELSE Idle]
  BY <1>1 DEF Boot
<1>3. nav' = Home(home) /\ home \in {"Login", "Map"}
  BY <1>1 DEF Boot
<1> HIDE DEF home
<1>4. WellStacked(nav') /\ NoSpinner(nav') /\ nav'.resume = << >>
  BY <1>3, HomeKeeps
<1>5. CASE home = "Map"
  <2>1. calls'[first].step = "open" /\ \A d \in Slots \ {first} : calls'[d] = Idle
    BY <1>2, <1>5 DEF Waiting, Idle
  <2>. QED BY <1>4, <2>1, OpeningInv
<1>6. CASE home # "Map"
  BY <1>2, <1>4, <1>6, QuietInv
<1>. QED BY <1>5, <1>6

\* ModalInv is inductive relative to the types.
LEMMA ModalNext ==
  ASSUME SystemBack = FALSE
  PROVE  TypeOK /\ TypeOK' /\ ModalInv /\ [Next]_vars => ModalInv'
<1> SUFFICES ASSUME TypeOK, TypeOK', ModalInv, [Next]_vars
             PROVE  ModalInv'
  OBVIOUS
<1>1. CASE UNCHANGED vars
  BY <1>1 DEF vars, ModalInv, Locked
<1>. QED
  BY <1>1, ModalTap, ModalAnswer, ModalResume, ModalUnmount, ModalRestart DEF Next

\* ModalInv gives the property.
LEMMA ModalImplies == TypeOK /\ ModalInv => SpinnerIsModal
<1> SUFFICES ASSUME TypeOK, ModalInv
             PROVE  SpinnerIsModal
  OBVIOUS
<1>1. InFlight # {} => Top(nav).kind = "Spinner" /\ nav.resume = << >>
  BY DEF InFlight, ModalInv, Locked
<1>2. \A i, j \in Spinners : i = j
  <2>1. NavOK(nav) /\ WellStacked(nav)
    BY DEF TypeOK, ModalInv
  <2>2. Len(nav.stack) \in Nat /\ DOMAIN nav.stack = 1 .. Len(nav.stack)
    BY <2>1, WellStackedFacts
  <2>3. SUFFICES ASSUME NEW i \in Spinners, NEW j \in Spinners, i # j
                 PROVE  FALSE
    OBVIOUS
  <2>4. /\ i \in 1 .. Len(nav.stack) /\ j \in 1 .. Len(nav.stack)
        /\ nav.stack[i].kind = "Spinner" /\ nav.stack[j].kind = "Spinner"
        /\ Placed(nav, i) /\ Placed(nav, j)
    BY <2>1, <2>2 DEF Spinners, WellStacked
  <2>5. \A k \in {i, j} : k = Len(nav.stack)
          \/ (k = Len(nav.stack) - 1 /\ nav.stack[Len(nav.stack)].kind = "BadLocation")
    BY <2>4 DEF Placed, Top
  <2>. QED BY <2>2, <2>3, <2>4, <2>5
<1>. QED BY <1>1, <1>2 DEF SpinnerIsModal, ModalInv

\* ModalInv also tells what is on top when the thanks have been closed.
LEMMA ModalImpliesThanks == TypeOK /\ ModalInv => ThanksCloseTheirForm
<1> SUFFICES ASSUME TypeOK, ModalInv, nav.resume # << >>, Head(nav.resume).kind = "Thanks"
             PROVE  Top(nav).kind = "Publish" /\ Top(nav).id = Head(nav.resume).opener
  BY DEF ThanksCloseTheirForm
<1>1. nav.resume \in Seq(Continuation) /\ Len(nav.resume) = 1
  BY DEF TypeOK, NavOK, NavState, ModalInv, WellStacked, ReadyToResume
<1>2. Head(nav.resume) = nav.resume[1]
  BY <1>1, Singleton
<1>. QED BY <1>2 DEF ModalInv, WellStacked, ReadyToResume

\* On a phone without a back button the spinner is a lock, for any number of
\* accounts, screens and handlers and with every failure the handlers leave
\* uncaught: while a call of lib/login.dart, signup.dart, forgot.dart, map.dart
\* or publish.dart is awaited the spinner is on top, no second handler runs
\* beside it, and there is never a second spinner.
THEOREM SpinnerLocks ==
  ASSUME SystemBack = FALSE
  PROVE  Spec => []SpinnerIsModal
<1>1. Init => TypeOK /\ ModalInv
  BY TypeInit, ModalInit
<1>2. TypeOK /\ ModalInv /\ [Next]_vars => TypeOK' /\ ModalInv'
  BY TypeNext, ModalNext
<1>. QED BY <1>1, <1>2, ModalImplies, PTL DEF Spec

\* On a phone without a back button the pop that follows the thanks of
\* PublishEvent (publish.dart:470) closes the form that was sent, whatever
\* happened between the alert's opening and its end.
THEOREM ThanksPopTheForm ==
  ASSUME SystemBack = FALSE
  PROVE  Spec => []ThanksCloseTheirForm
<1>1. Init => TypeOK /\ ModalInv
  BY TypeInit, ModalInit
<1>2. TypeOK /\ ModalInv /\ [Next]_vars => TypeOK' /\ ModalInv'
  BY TypeNext, ModalNext
<1>. QED BY <1>1, <1>2, ModalImpliesThanks, PTL DEF Spec

-----------------------------------------------------------------------------
(* The screen the spinner belongs to *)

\* What a pop leaves of spinners and, if no screen goes, of screens.
LEMMA PoppedStack ==
  ASSUME NEW n, NavOK(n), WellStacked(n), NEW result \in BOOLEAN
  PROVE  LET m == Pop(n, result) IN
         /\ NoSpinner(n) => NoSpinner(m)
         /\ Top(n).kind \notin Screens => StackIds(n) \subseteq StackIds(m)
<1> DEFINE m == Pop(n, result)
           k == Len(n.stack) - 1
<1>1. CASE Len(n.stack) <= 1
  BY <1>1 DEF Pop
<1>2. CASE Len(n.stack) > 1
  <2>1. /\ k \in 1 .. Len(n.stack) /\ Len(n.stack) \in Nat
        /\ DOMAIN m.stack = 1 .. k /\ \A i \in 1 .. k : m.stack[i] = n.stack[i]
    BY <1>2, PopFacts
  <2>2. DOMAIN n.stack = 1 .. Len(n.stack)
    BY WellStackedFacts
  <2> HIDE DEF m
  <2>3. NoSpinner(n) => NoSpinner(m)
    BY <2>1, <2>2 DEF NoSpinner
  <2>4. ASSUME Top(n).kind \notin Screens, NEW p \in StackIds(n)
        PROVE  p \in StackIds(m)
    <3>1. p # NoPage /\ \E i \in 1 .. Len(n.stack) : n.stack[i].id = p
      BY StackIdsFacts
    <3>2. n.stack[Len(n.stack)].id = NoPage
      BY <2>1, <2>4, WellStackedFacts DEF Top
    <3>3. PICK i \in 1 .. k : m.stack[i].id = p
      BY <2>1, <3>1, <3>2
    <3>. QED BY <2>1, <3>1, <3>3 DEF StackIds
  <2>. QED BY <2>3, <2>4 DEF m
<1>. QED BY <1>1, <1>2, WellStackedFacts

\* Down to the first page and over it the login.
LEMMA LoginOnTop ==
  ASSUME NEW n, NavOK(n)
  PROVE  Top(PushOverFirst(n, "Login")).kind = "Login"
<1> DEFINE m == [n EXCEPT !.stack = FirstPage(n.stack),
                          !.leaving = n.leaving \cup Removed(n.stack)]
           r == [kind   |-> "Login",
                 id     |-> IF "Login" \in Screens THEN FreshId(m) ELSE NoPage,
                 opener |-> NoPage]
           t == Append(FirstPage(n.stack), r)
<1>1. n.stack \in Seq(Route) /\ Len(n.stack) \in Nat \ {0}
  BY NonEmpty DEF NavOK, NavState
<1>2. /\ DOMAIN n = {"stack", "leaving", "resume"}
      /\ m.stack = FirstPage(n.stack) /\ DOMAIN m = {"stack", "leaving", "resume"}
  BY DEF NavOK, NavState
<1>3. PushOverFirst(n, "Login") = Push(m, "Login", NoPage)
  BY DEF PushOverFirst
<1>4. PushOverFirst(n, "Login").stack = t
  <2> HIDE DEF m
  <2>. QED BY <1>2, <1>3 DEF Push
<1>5. FirstPage(n.stack) \in Seq(Route)
  BY <1>1 DEF FirstPage
<1>6. r.kind = "Login"
  OBVIOUS
<1> HIDE DEF r
<1>7. t[Len(t)] = r
  BY <1>5
<1>. QED BY <1>4, <1>6, <1>7 DEF Top

\* The static context names a page under the spinner, be its handler dead or not.
SpinnerKept == NoSpinner(nav) \/ mcontext \in StackIds(nav)

\* Whoever loads is at an await.
LEMMA LoadAwaits ==
  ASSUME calls \in [Slots -> Call], NEW c \in Slots, NEW n, NEW page, Load(c, n, page)
  PROVE  calls'[c] # Idle
<1>1. PICK next : next = Waiting("query", page) /\ calls' = [calls EXCEPT ![c] = next]
  BY DEF Load, Awaits
<1>2. next.step = "query" /\ calls'[c] = next
  BY <1>1 DEF Waiting, Idle
<1>. QED BY <1>2 DEF Idle

\* A tap that sends no call finds no spinner, or closes an alert over it.
LEMMA QuietTap ==
  ASSUME SystemBack = FALSE, TypeOK, TypeOK', ModalInv, ModalInv', Tap,
         \A c \in Slots : calls'[c] = Idle
  PROVE  NoSpinner(nav') \/ GoBack
<1>0. /\ NavOK(nav) /\ WellStacked(nav) /\ NavOK(nav') /\ WellStacked(nav')
      /\ Top(nav).id \in PageRef
  BY TopFacts DEF TypeOK, ModalInv
<1>1. Top(nav').kind \notin {"Spinner", "BadLocation"} => NoSpinner(nav')
  BY <1>0, SpinnerOnTop
<1>2. ASSUME NEW c \in Slots, NEW next, calls' = [calls EXCEPT ![c] = next], next.step # "none"
      PROVE  FALSE
  BY <1>2 DEF TypeOK, Idle
<1>3. ASSUME NEW on, NEW kind \in Kinds \ {"Spinner", "BadLocation"}, Open(on, kind)
      PROVE  NoSpinner(nav')
  BY <1>0, <1>1, <1>3, PushedStack DEF Open
<1>4. \A step, page, user, sub :
        /\ Waiting(step, page).step = step
        /\ [Waiting(step, page) EXCEPT !.user = user, !.sub = sub].step = step
  BY DEF Waiting, Idle
<1>5. ASSUME NEW on, NEW step, NEW user, NEW sub, Submit(on, step, user, sub), step # "none"
      PROVE  FALSE
  <2> DEFINE next == [Waiting(step, Top(nav).id) EXCEPT !.user = user, !.sub = sub]
  <2>1. PICK c \in Slots : calls' = [calls EXCEPT ![c] = next]
    BY <1>5 DEF Submit, Awaits
  <2>2. next.step = step
    BY <1>4
  <2>. QED BY <1>2, <1>5, <2>1, <2>2
<1>6. ~SelectFilter /\ ~DrawerLogout
  <2>1. SUFFICES ASSUME SelectFilter \/ DrawerLogout PROVE FALSE
    OBVIOUS
  <2>2. PICK c \in Slots, step \in {"query", "signOut"} :
          calls' = [calls EXCEPT ![c] = Waiting(step, Below(nav).id)]
    BY <2>1 DEF SelectFilter, Load, DrawerLogout, Awaits
  <2>3. Waiting(step, Below(nav).id).step = step /\ step # "none"
    BY <1>4
  <2>. QED BY <1>2, <2>2, <2>3
<1>7. CASE EnterAsGuest
  <2>1. /\ Top(nav).kind = "Login" /\ Fits(nav')
        /\ nav' = nav \/ nav' = Push(nav, "Map", Top(nav).id)
    BY <1>7 DEF EnterAsGuest, On, OpenMap, Show
  <2>. QED BY <1>0, <1>1, <2>1, PushedStack DEF Kinds, Screens
<1>8. ASSUME DrawerInfo \/ DrawerLogin
      PROVE  NoSpinner(nav')
  <2>1. /\ Ready /\ Top(nav).kind = "Drawer" /\ Fits(nav')
        /\ nav' = Push(Pop(nav, FALSE), "Info", NoPage) \/ nav' = PushOverFirst(Pop(nav, FALSE), "Login")
    BY <1>8 DEF DrawerInfo, DrawerLogin, On
  <2>2. NavOK(Pop(nav, FALSE))
    BY <2>1, TapsFindIdle, OverlayCloses
  <2>3. nav' = PushOverFirst(Pop(nav, FALSE), "Login") => Top(nav').kind = "Login"
    BY <2>2, LoginOnTop
  <2>4. nav' = Push(Pop(nav, FALSE), "Info", NoPage) => Top(nav').kind = "Info"
    <3>1. "Info" \in Kinds /\ NoPage \in PageRef
      BY DEF Kinds, PageRef
    <3>2. ASSUME NEW n, NavOK(n), Fits(Push(n, "Info", NoPage))
          PROVE  Top(Push(n, "Info", NoPage)).kind = "Info"
      BY <3>1, <3>2, PushedStack
    <3>. QED BY <2>1, <2>2, <3>2
  <2>. QED BY <1>1, <2>1, <2>3, <2>4
<1>9. CASE AddObservation
  <2>1. /\ Fits(nav')
        /\ nav' = Push(nav, "Publish", Top(nav).id) \/ nav' = PushOverFirst(nav, "Login")
    BY <1>9 DEF AddObservation
  <2>. QED BY <1>0, <1>1, <2>1, PushedStack, LoginOnTop DEF Kinds, Screens
<1>10. ~PressSystemBack
  BY DEF PressSystemBack
<1>11. CASE OpenSignup \/ OpenForgot \/ OpenFilter \/ OpenDrawer \/ RejectForm \/ OpenInfo
  BY <1>3, <1>11
  DEF OpenSignup, OpenForgot, OpenFilter, OpenDrawer, RejectForm, OpenInfo, Kinds, Screens
<1>12. ~(SubmitLogin \/ SubmitSignup \/ SubmitReset \/ SubmitPublish)
  BY <1>5 DEF SubmitLogin, SubmitSignup, SubmitReset, SubmitPublish
<1>. QED
  BY <1>6, <1>7, <1>8, <1>9, <1>10, <1>11, <1>12 DEF Tap

\* Closing a route leaves no spinner, or is the end of the alert over it.
LEMMA AlertCloses ==
  ASSUME TypeOK, ModalInv, GoBack
  PROVE  \/ NoSpinner(nav')
         \/ /\ StackIds(nav) \subseteq StackIds(nav')
            /\ nav'.resume # << >> /\ Head(nav'.resume).kind = "BadLocation"
<1>1. /\ Ready /\ Top(nav).kind \in ClosedByTap /\ nav' = Pop(nav, FALSE)
      /\ Len(nav.stack) > 1
  BY DEF GoBack, Close
<1>2. NavOK(nav) /\ WellStacked(nav) /\ nav.resume = << >>
  BY <1>1 DEF TypeOK, ModalInv, Ready
<1>3. CASE Top(nav).kind = "BadLocation"
  <2>1. nav'.resume = Append(<< >>, [kind |-> Top(nav).kind, opener |-> Top(nav).opener])
    BY <1>1, <1>2, <1>3, PopFacts DEF Wakes, Awaited
  <2>2. nav'.resume # << >> /\ Head(nav'.resume).kind = "BadLocation"
    BY <1>3, <2>1
  <2>. QED BY <1>1, <1>2, <1>3, <2>2, PoppedStack DEF Screens
<1>4. CASE Top(nav).kind # "BadLocation"
  BY <1>1, <1>2, <1>4, SpinnerOnTop, PoppedStack DEF ClosedByTap
<1>. QED BY <1>3, <1>4

\* The last answer to a handler takes the spinner down, but for the alert that is
\* opened over it and a failure that nothing catches.
LEMMA QuietAnswer ==
  ASSUME TypeOK, TypeOK', ModalInv, ModalInv', NEW c \in Slots, Answer(c),
         \A d \in Slots : calls'[d] = Idle
  PROVE  \/ NoSpinner(nav')
         \/ Top(nav').kind = "BadLocation" /\ mcontext' \in StackIds(nav')
         \/ Faults /\ UNCHANGED <<nav, mcontext>>
<1> DEFINE h == HideProgress(nav)
<1>0. /\ NavOK(nav) /\ WellStacked(nav) /\ NavOK(nav') /\ WellStacked(nav')
      /\ calls[c] \in Call /\ calls[c].page \in PageRef
  BY DEF TypeOK, ModalInv, Call
<1>1. Top(nav').kind \notin {"Spinner", "BadLocation"} => NoSpinner(nav')
  BY <1>0, SpinnerOnTop
<1>2. ASSUME NEW step, step # "none",
             \/ Awaits(c, [calls[c] EXCEPT !.step = step])
             \/ Awaits(c, [calls[c] EXCEPT !.step = step, !.name = DisplayName(calls[c].user)])
      PROVE  FALSE
  <2>1. PICK next : /\ calls' = [calls EXCEPT ![c] = next]
                    /\ \/ next = [calls[c] EXCEPT !.step = step]
                       \/ next = [calls[c] EXCEPT !.step = step,
                                                  !.name = DisplayName(calls[c].user)]
    BY <1>2 DEF Awaits
  <2>2. next.step = step
    BY <1>0, <2>1 DEF Call
  <2>. QED BY <1>2, <2>1, <2>2 DEF TypeOK, Idle
<1>3. ASSUME calls[c].step \notin {"none", "open"}
      PROVE  /\ NavOK(h) /\ WellStacked(h) /\ NoSpinner(h) /\ h.resume = << >>
             /\ Top(h) = Below(nav)
             /\ mcontext \in StackIds(nav) /\ Locked(calls[c])
  <2>1. Locked(calls[c])
    BY <1>3 DEF ModalInv
  <2>. QED BY <1>0, <2>1, HideUnlocks DEF Locked
<1> HIDE DEF h
<1>4. ASSUME NEW kind \in Kinds \ {"Spinner", "BadLocation"}, NoSpinner(h), NavOK(h),
             nav' = Show(h, calls[c].page, kind), Fits(nav')
      PROVE  NoSpinner(nav')
  <2>1. nav' = h \/ nav' = Push(h, kind, calls[c].page)
    BY <1>4 DEF Show
  <2>. QED BY <1>0, <1>1, <1>4, <2>1, PushedStack
<1>5. CASE FirstFrame(c)
  <2>1. ~Load(c, nav, calls[c].page)
    BY LoadAwaits DEF TypeOK
  <2>2. NoSpinner(nav)
    BY <1>5 DEF FirstFrame, At, ModalInv
  <2>. QED BY <1>5, <2>1, <2>2 DEF FirstFrame
<1>6. CASE QueryAnswered(c)
  <2>1. calls[c].step = "query" /\ mcontext' = mcontext
    BY <1>6 DEF QueryAnswered, At
  <2>2. NoSpinner(h) /\ Mounted(nav, calls[c].page)
    BY <1>3, <2>1 DEF Locked, Mounted
  <2>3. nav' = h \/ (Faults /\ UNCHANGED nav)
    BY <1>6, <2>2 DEF QueryAnswered, h
  <2>. QED BY <2>1, <2>2, <2>3
<1>7. CASE LoginFails(c) \/ SignupFails(c) \/ ResetAnswered(c)
  <2>1. /\ nav' = Show(h, calls[c].page, "Dialog") /\ Fits(nav')
        /\ calls[c].step \notin {"none", "open"}
    BY <1>7 DEF LoginFails, SignupFails, ResetAnswered, Rejected, At, h
  <2>. QED BY <1>3, <1>4, <2>1 DEF Kinds
<1>8. CASE LoginCompletes(c)
  <2>1. /\ nav' = Show(h, calls[c].page, "Map") /\ Fits(nav')
        /\ calls[c].step \notin {"none", "open"}
    BY <1>8 DEF LoginCompletes, OpenMap, At, h
  <2>. QED BY <1>3, <1>4, <2>1 DEF Kinds, Screens
<1>9. CASE SignupCompletes(c)
  <2>1. /\ nav' = Show(h, calls[c].page, "Ack") /\ Fits(nav')
        /\ calls[c].step \notin {"none", "open"}
    BY <1>9 DEF SignupCompletes, At, h
  <2>. QED BY <1>3, <1>4, <2>1 DEF Kinds, Awaited
<1>10. CASE PublishCompletes(c)
  <2>1. /\ nav' = Show(h, calls[c].page, "Thanks") /\ Fits(nav')
        /\ calls[c].step \notin {"none", "open"}
    BY <1>10 DEF PublishCompletes, At, h
  <2>. QED BY <1>3, <1>4, <2>1 DEF Kinds, Awaited
<1>11. CASE LogoutCompletes(c)
  <2>1. /\ calls[c].step = "signedOut"
        /\ nav' = PushOverFirst(Pop(h, FALSE), "Login") \/ nav' = h
    BY <1>11 DEF LogoutCompletes, At, h
  <2>2. NavOK(Pop(h, FALSE))
    <3>1. Top(h).kind = "Drawer"
      BY <1>3, <2>1 DEF Locked
    <3>. QED BY <1>3, <2>1, <3>1, OverlayCloses
  <2>. QED BY <1>1, <1>3, <2>1, <2>2, LoginOnTop
<1>12. CASE NotLocated(c)
  <2>1. /\ calls[c].step = "geocode" /\ mcontext' = mcontext /\ Fits(nav')
        /\ nav' = Show(nav, calls[c].page, "BadLocation")
    BY <1>12 DEF NotLocated, At
  <2>2. nav' = Push(nav, "BadLocation", calls[c].page)
    BY <1>3, <2>1 DEF Show, Locked, Mounted
  <2>3. Top(nav').kind = "BadLocation" /\ StackIds(nav) \subseteq StackIds(nav')
    BY <1>0, <2>1, <2>2, PushedStack DEF Kinds, Awaited
  <2>. QED BY <1>3, <2>1, <2>3
<1>13. ~(SignedIn(c) \/ Created(c) \/ ProfileUpdated(c) \/ AuthForgets(c) \/ Located(c))
  BY <1>2 DEF SignedIn, Created, ProfileUpdated, AuthForgets, Located
<1>14. Uncaught(c) => Faults /\ UNCHANGED <<nav, mcontext>>
  BY DEF Uncaught
<1>. QED
  BY <1>5, <1>6, <1>7, <1>8, <1>9, <1>10, <1>11, <1>12, <1>13, <1>14
  DEF Answer

\* A continuation that sends no call leaves no spinner.
LEMMA QuietResume ==
  ASSUME TypeOK, TypeOK', ModalInv, ModalInv', SpinnerKept, Resume,
         \A c \in Slots : calls'[c] = Idle
  PROVE  NoSpinner(nav')
<1> DEFINE n == Resumed
<1>1. /\ NavOK(nav) /\ WellStacked(nav) /\ NavOK(nav') /\ WellStacked(nav')
      /\ nav.resume # << >>
  BY DEF TypeOK, ModalInv, Resume, AfterPublish, AfterAck, AfterBadLocation, AfterThanks, Woken
<1>2. /\ Len(nav.resume) = 1 /\ nav.resume \in Seq(Continuation)
      /\ nav.resume[1].kind # "BadLocation" => NoSpinner(nav)
      /\ nav.resume[1].kind = "BadLocation" => Top(nav).kind = "Spinner"
  BY <1>1 DEF WellStacked, ReadyToResume, NavOK, NavState
<1>3. Tail(nav.resume) = << >> /\ Head(nav.resume) = nav.resume[1] /\ nav.resume[1] \in Continuation
  BY <1>2, Singleton
<1>4. /\ n.stack = nav.stack /\ n.leaving = nav.leaving /\ n.resume = << >>
      /\ n \in NavState
  <2>1. << >> \in Seq(Continuation)
    OBVIOUS
  <2>2. n = [nav EXCEPT !.resume = << >>]
    BY <1>3 DEF Resumed
  <2>. QED BY <1>1, <2>1, <2>2 DEF NavOK, NavState
<1> HIDE DEF n
<1>5. /\ NavOK(n) /\ StackIds(n) = StackIds(nav) /\ Top(n) = Top(nav)
      /\ NoSpinner(nav) => NoSpinner(n)
  BY <1>1, <1>4 DEF NavOK, Fits, StackIds, NoSpinner, Top
<1>6. WellStacked(n)
  <2>1. IdsApart(n)
    BY <1>1, <1>4 DEF WellStacked, IdsApart
  <2>2. \A i \in DOMAIN n.stack : Placed(n, i)
    BY <1>1, <1>4 DEF WellStacked, Placed, Top
  <2>. QED BY <2>1, <2>2, <1>4 DEF WellStacked, ReadyToResume
<1>7. Opener \in PageRef
  BY <1>3 DEF Opener, Continuation
<1>8. ~AfterPublish
  <2>1. \A c \in Slots : ~Load(c, Resumed, Opener)
    BY LoadAwaits DEF TypeOK
  <2>. QED BY <2>1 DEF AfterPublish
<1>9. CASE AfterAck
  <2>1. NoSpinner(n)
    BY <1>2, <1>3, <1>5, <1>9 DEF AfterAck, Woken
  <2>2. Fits(nav') /\ (nav' = n \/ nav' = Push(n, "Map", Opener))
    BY <1>9 DEF AfterAck, OpenMap, Show, n
  <2>3. nav' = Push(n, "Map", Opener) => NoSpinner(nav')
    BY <1>5, <1>7, <2>1, <2>2, PushedStack DEF Kinds, Screens
  <2>. QED BY <2>1, <2>2, <2>3
<1>10. CASE AfterBadLocation
  <2>1. Top(n).kind = "Spinner"
    BY <1>2, <1>3, <1>5, <1>10 DEF AfterBadLocation, Woken
  <2>2. ~NoSpinner(n)
    BY <1>5, <2>1, NonEmpty DEF NoSpinner, Top, NavOK, NavState
  <2>3. Mounted(n, mcontext)
    BY <1>4, <1>5, <2>2 DEF SpinnerKept, NoSpinner, Mounted
  <2>4. nav' = Pop(n, FALSE)
    BY <1>10, <2>3 DEF AfterBadLocation, HideProgress, n
  <2>. QED BY <1>4, <1>5, <1>6, <2>1, <2>4, SpinnerPops
<1>11. CASE AfterThanks
  <2>1. nav' \in {Pop(n, TRUE), n}
    BY <1>11 DEF AfterThanks, n
  <2>2. NoSpinner(n)
    BY <1>2, <1>3, <1>5, <1>11 DEF AfterThanks, Woken
  <2>. QED BY <1>5, <1>6, <2>1, <2>2, PoppedStack
<1>. QED BY <1>8, <1>9, <1>10, <1>11 DEF Resume

LEMMA SpinnerStays ==
  ASSUME SystemBack = FALSE
  PROVE  TypeOK /\ TypeOK' /\ ModalInv /\ ModalInv' /\ SpinnerKept /\ [Next]_vars => SpinnerKept'
<1> SUFFICES ASSUME TypeOK, TypeOK', ModalInv, ModalInv', SpinnerKept, [Next]_vars
             PROVE  SpinnerKept'
  OBVIOUS
<1>1. CASE UNCHANGED vars
  BY <1>1 DEF vars, SpinnerKept
<1>2. ASSUME NEW c \in Slots, calls'[c] # Idle
      PROVE  SpinnerKept'
  <2>1. calls'[c].step # "none"
    BY <1>2 DEF ModalInv
  <2>. QED BY <2>1 DEF ModalInv, Locked, SpinnerKept
<1>3. CASE Unmount
  <2>1. PICK x \in nav.leaving :
          nav.resume = << >> /\ nav' = Unmounted(nav, x) /\ mcontext' = Forget(mcontext, x)
    BY <1>3 DEF Unmount
  <2>2. /\ StackIds(nav') = StackIds(nav) /\ x \notin StackIds(nav)
        /\ NoSpinner(nav) => NoSpinner(nav')
    BY <2>1, UnmountedKeeps DEF TypeOK, ModalInv
  <2>. QED BY <2>1, <2>2 DEF SpinnerKept, Forget
<1>4. CASE Restart
  <2>1. nav' = Home(IF auth = NoUser THEN "Login" ELSE "Map")
    BY <1>4 DEF Restart, Boot
  <2>. QED BY <2>1, HomeKeeps DEF SpinnerKept
<1>5. ASSUME GoBack
      PROVE  SpinnerKept'
  <2>1. mcontext' = mcontext
    BY <1>5 DEF GoBack, Close
  <2>2. NoSpinner(nav) => NoSpinner(nav')
    BY <1>5, PoppedStack DEF GoBack, Close, TypeOK, ModalInv
  <2>. QED BY <1>5, <2>1, <2>2, AlertCloses DEF SpinnerKept
<1>6. CASE Tap
  BY <1>2, <1>5, <1>6, QuietTap DEF SpinnerKept
<1>7. ASSUME NEW c \in Slots, Answer(c)
      PROVE  SpinnerKept'
  <2>1. SUFFICES ASSUME \A d \in Slots : calls'[d] = Idle
                 PROVE  SpinnerKept'
    BY <1>2
  <2>. QED BY <1>7, <2>1, QuietAnswer DEF SpinnerKept
<1>8. CASE Resume
  BY <1>2, <1>8, QuietResume DEF SpinnerKept
<1>. QED BY <1>1, <1>3, <1>4, <1>6, <1>7, <1>8 DEF Next

\* On a phone without a back button hideProgress is never refused: the static
\* HOWNDProgressIndicator.mcontext, which every screen overwrites, is an open
\* page as long as there is a spinner, also one whose handler has died.
THEOREM SpinnersCanGo ==
  ASSUME SystemBack = FALSE
  PROVE  Spec => []SpinnerHasItsScreen
<1>1. Init => TypeOK /\ ModalInv /\ SpinnerKept
  <2>1. Init => NoSpinner(nav)
    BY HomeKeeps DEF Init
  <2>. QED BY <2>1, TypeInit, ModalInit DEF SpinnerKept
<1>2. TypeOK /\ ModalInv /\ SpinnerKept /\ [Next]_vars
        => (TypeOK /\ ModalInv /\ SpinnerKept)'
  BY TypeNext, ModalNext, SpinnerStays
<1>3. SpinnerKept => SpinnerHasItsScreen
  BY DEF SpinnerKept, NoSpinner, SpinnerHasItsScreen, Spinners, Mounted
<1>. QED BY <1>1, <1>2, <1>3, PTL DEF Spec

-----------------------------------------------------------------------------
(* Whoever put the spinner up is still to come *)

LEMMA AwaitedOrGone ==
  /\ NoSpinner(nav) => SpinnerIsAwaited
  /\ \A c \in Slots : calls[c].step \notin {"none", "open"} => SpinnerIsAwaited
BY DEF NoSpinner, SpinnerIsAwaited, Spinners, InFlight

LEMMA SpinnerAwaitedNext ==
  ASSUME SystemBack = FALSE, Faults = FALSE
  PROVE  TypeOK /\ TypeOK' /\ ModalInv /\ ModalInv' /\ SpinnerKept /\ SpinnerIsAwaited
           /\ [Next]_vars => SpinnerIsAwaited'
<1> SUFFICES ASSUME TypeOK, TypeOK', ModalInv, ModalInv', SpinnerKept, SpinnerIsAwaited,
                    [Next]_vars
             PROVE  SpinnerIsAwaited'
  OBVIOUS
<1>1. NoSpinner(nav') => SpinnerIsAwaited'
  BY DEF NoSpinner, SpinnerIsAwaited, Spinners
<1>2. ASSUME NEW c \in Slots, calls'[c] # Idle
      PROVE  SpinnerIsAwaited'
  <2>1. CASE calls'[c].step = "open"
    BY <1>1, <2>1 DEF ModalInv
  <2>2. CASE calls'[c].step # "open"
    <3>1. calls'[c].step # "none"
      BY <1>2 DEF ModalInv
    <3>. QED BY <2>2, <3>1 DEF SpinnerIsAwaited, InFlight
  <2>. QED BY <2>1, <2>2
<1>3. CASE UNCHANGED vars
  BY <1>3 DEF vars, SpinnerIsAwaited, Spinners, InFlight
<1>4. CASE Tap
  <2>1. GoBack => SpinnerIsAwaited'
    BY <1>1, AlertCloses DEF SpinnerIsAwaited
  <2>. QED BY <1>1, <1>2, <1>4, <2>1, QuietTap
<1>5. ASSUME NEW c \in Slots, Answer(c)
      PROVE  SpinnerIsAwaited'
  <2>1. Top(nav').kind = "BadLocation" => SpinnerIsAwaited'
    BY DEF SpinnerIsAwaited
  <2>. QED BY <1>1, <1>2, <1>5, <2>1, QuietAnswer
<1>6. CASE Resume
  BY <1>1, <1>2, <1>6, QuietResume
<1>7. CASE Unmount
  <2>1. PICK x \in nav.leaving :
          /\ nav.resume = << >> /\ nav' = Unmounted(nav, x)
          /\ calls' = [c \in Slots |-> [calls[c] EXCEPT !.page = Forget(@, x)]]
    BY <1>7 DEF Unmount
  <2>2. NoSpinner(nav) => NoSpinner(nav')
    BY <2>1, UnmountedKeeps DEF TypeOK, ModalInv
  <2>3. \A c \in Slots : calls'[c].step = calls[c].step
    BY <2>1 DEF TypeOK, Call
  <2>4. Top(nav').kind = Top(nav).kind
    <3>1. /\ nav \in NavState /\ nav.stack \in Seq(Route)
          /\ Len(nav.stack) \in Nat \ {0} /\ DOMAIN nav.stack = 1 .. Len(nav.stack)
          /\ \A i \in DOMAIN nav.stack : nav.stack[i] \in Route
      BY NonEmpty DEF TypeOK, NavOK, NavState
    <3>2. nav'.stack = [k \in DOMAIN nav.stack |->
                          [nav.stack[k] EXCEPT !.opener = Forget(@, x)]]
      BY <2>1, <3>1 DEF Unmounted, NavState
    <3>3. Len(nav'.stack) = Len(nav.stack)
      BY <3>1, <3>2
    <3>4. nav'.stack[Len(nav.stack)].kind = nav.stack[Len(nav.stack)].kind
      BY <3>1, <3>2 DEF Route
    <3>. QED BY <3>3, <3>4 DEF Top
  <2>5. CASE NoSpinner(nav)
    BY <1>1, <2>2, <2>5
  <2>6. CASE ~NoSpinner(nav)
    BY <2>1, <2>3, <2>4, <2>6 DEF SpinnerIsAwaited, NoSpinner, Spinners, InFlight
  <2>. QED BY <2>5, <2>6
<1>8. CASE Restart
  <2>1. nav' = Home(IF auth = NoUser THEN "Login" ELSE "Map")
    BY <1>8 DEF Restart, Boot
  <2>. QED BY <1>1, <2>1, HomeKeeps
<1>. QED BY <1>3, <1>4, <1>5, <1>6, <1>7, <1>8 DEF Next

\* On a phone without a back button, and without failures that nothing catches,
\* there is never a spinner that nobody takes down: a call is being answered, or
\* the "invalid location" alert of publish.dart, whose end hides it, is open or
\* has just been closed.
THEOREM SpinnersAreAwaited ==
  ASSUME SystemBack = FALSE, Faults = FALSE
  PROVE  Spec => []SpinnerIsAwaited
<1>1. Init => TypeOK /\ ModalInv /\ SpinnerKept /\ SpinnerIsAwaited
  <2>1. Init => NoSpinner(nav)
    BY HomeKeeps DEF Init
  <2>. QED BY <2>1, TypeInit, ModalInit, AwaitedOrGone DEF SpinnerKept
<1>2. TypeOK /\ ModalInv /\ SpinnerKept /\ SpinnerIsAwaited /\ [Next]_vars
        => (TypeOK /\ ModalInv /\ SpinnerKept /\ SpinnerIsAwaited)'
  BY TypeNext, ModalNext, SpinnerStays, SpinnerAwaitedNext
<1>. QED BY <1>1, <1>2, PTL DEF Spec
=============================================================================
