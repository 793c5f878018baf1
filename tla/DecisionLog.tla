------------------------------ MODULE DecisionLog ------------------------------
(***************************************************************************)
(* What the interaction store promises of a question put to the user: it   *)
(* stays open until one decision closes it, the decision is final, and the *)
(* journal announces that decision and no other.                           *)
(***************************************************************************)

CONSTANTS Asks, Answers

VARIABLES
  verdict,    \* the closed state of each question, or "open"
  announced   \* the answers the journal has announced for each question

Closed == Answers \cup {"expired"}

Init ==
  /\ verdict = [p \in Asks |-> "open"]
  /\ announced = [p \in Asks |-> {}]

(* Close an open question with an answer. *)
Decide(p, d) ==
  /\ verdict[p] = "open"
  /\ verdict' = [verdict EXCEPT ![p] = d]
  /\ UNCHANGED announced

(* A restart closes every question that is still open among qs. *)
Expire(qs) ==
  /\ \A p \in qs : verdict[p] = "open"
  /\ verdict' = [p \in Asks |-> IF p \in qs THEN "expired" ELSE verdict[p]]
  /\ UNCHANGED announced

(* Announce the decision of a question that has been answered. *)
Announce(p) ==
  /\ verdict[p] \in Answers
  /\ announced' = [announced EXCEPT ![p] = @ \cup {verdict[p]}]
  /\ UNCHANGED verdict

Next ==
  \/ \E p \in Asks : Announce(p) \/ \E d \in Answers : Decide(p, d)
  \/ \E qs \in SUBSET Asks : Expire(qs)

Spec == Init /\ [][Next]_<<verdict, announced>>

================================================================================
