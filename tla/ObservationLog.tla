--------------------------- MODULE ObservationLog ---------------------------
(***************************************************************************)
(* What publishing promises: a log of observations that only grows, each   *)
(* entry being the complete draft as it stood, with all of its photos in   *)
(* the order they were taken, and never more than one entry at a time.     *)
(***************************************************************************)
EXTENDS Sequences

CONSTANTS Forms, Photos, EmptyForm, Complete(_)

VARIABLES draft,  \* what the user sees: the fields and the photos
          log     \* what everybody sees

Drafts == [form : Forms, photos : Seq(Photos)]

EditDraft == draft' \in Drafts /\ UNCHANGED log

Post == /\ Complete(draft.form)
        /\ log' = Append(log, draft)
        /\ UNCHANGED draft

Init == draft = [form |-> EmptyForm, photos |-> << >>] /\ log = << >>

Next == EditDraft \/ Post

Spec == Init /\ [][Next]_<<draft, log>>
=============================================================================
