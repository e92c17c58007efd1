---------------------------- MODULE SessionSpec -----------------------------
(***************************************************************************)
(* What lib/globals.dart promises the rest of the app about the person who *)
(* uses it: at most one person at a time, a new person only after the      *)
(* previous one has left, and the right to send notices only from that     *)
(* person's own answer.                                                    *)
(***************************************************************************)
CONSTANTS Users, NoUser

VARIABLES user,    \* who is logged in
          notice,  \* may this person be sent notices ("Yes", "No")?
          wish     \* what each person answered when registering, if stored

Allowed(w, u) == {"No"} \cup ({w[u]} \cap {"Yes"})

\* Somebody logs in or registers; registering may store an answer.
Begin(u) ==
  /\ user = NoUser
  /\ user' = u
  /\ wish' \in {wish} \cup {[wish EXCEPT ![u] = a] : a \in {"Yes", "No"}}
  /\ notice' \in Allowed(wish', u)

\* The app is started again with the same person.
Again ==
  /\ user # NoUser /\ user' = user
  /\ wish' = wish
  /\ notice' \in Allowed(wish, user)

End ==
  /\ user # NoUser /\ user' = NoUser
  /\ notice' = "No"
  /\ wish' = wish

Init == /\ user = NoUser
        /\ notice = "No"
        /\ wish = [u \in Users |-> "none"]

Next == (\E u \in Users : Begin(u)) \/ Again \/ End

Spec == Init /\ [][Next]_<<user, notice, wish>>
=============================================================================
