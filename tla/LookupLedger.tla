---------------------------- MODULE LookupLedger ----------------------------
(***************************************************************************)
(* What a seller lookup promises the person at the form: one question at a *)
(* time, answered at most once, about the name that was asked and no       *)
(* other; an answer stands until the person asks again or changes the name.*)
(***************************************************************************)
CONSTANTS Names, Nobody

VARIABLES asked, answer

\* about: the seller of the answer; Nobody when there is nothing to show.
Waiting == [status |-> "waiting", about |-> Nobody]
Answers(n) ==
    { [status |-> "none", about |-> n], [status |-> "active_store", about |-> n],
      [status |-> "active_applicant", about |-> n],
      [status |-> "not_found", about |-> Nobody], [status |-> "failed", about |-> Nobody] }

Init == asked = Nobody /\ answer = Waiting

Ask == asked' \in Names /\ answer' = Waiting

Answer ==
    /\ asked # Nobody /\ answer = Waiting
    /\ answer' \in Answers(asked)
    /\ UNCHANGED asked

Forget == asked' = Nobody /\ answer' = Waiting

Next == Ask \/ Answer \/ Forget

Spec == Init /\ [][Next]_<<asked, answer>>
=============================================================================
