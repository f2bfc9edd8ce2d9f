----------------------------- MODULE RecordContract -----------------------------
(****************************************************************************)
(* What the program promises about one operation record, without versions,  *)
(* callers or statements.  A record stands open until it is resolved.  It   *)
(* counts for billing once it was accepted, or ruled on after a dispute, or *)
(* approved by a reviewer after it was held for one.  Withdrawing it is     *)
(* final; a disputed record can only be ruled on, once, and a ruling is     *)
(* never undone; a reviewer decides once, and nothing but the decision ever *)
(* makes a held record count.                                               *)
(****************************************************************************)

VARIABLES
  standing,  \* how the record stands
  decision,  \* what the reviewer decided
  ruled      \* a ruling was made

vars == <<standing, decision, ruled>>

Standing == {"open", "billable", "disputed", "held", "withdrawn"}

Init == standing = "open" /\ decision = "none" /\ ruled = FALSE

Resolve ==
  /\ standing = "open"
  /\ standing' \in {"billable", "disputed", "held"}
  /\ UNCHANGED <<decision, ruled>>

Rule ==
  /\ standing = "disputed" /\ ~ruled
  /\ standing' = "billable"
  /\ ruled' = TRUE
  /\ UNCHANGED decision

(* The record may have been withdrawn behind the reviewer's back; the       *)
(* decision then has no effect.                                             *)
Decide ==
  /\ standing \in {"held", "withdrawn"} /\ decision = "none"
  /\ decision' \in {"accept", "reject"}
  /\ UNCHANGED <<standing, ruled>>

Conclude ==
  /\ standing = "held"
  /\ \/ decision = "accept" /\ standing' = "billable"
     \/ decision = "reject" /\ standing' = "withdrawn"
  /\ UNCHANGED <<decision, ruled>>

Withdraw ==
  /\ standing \in {"open", "billable", "held"} /\ ~ruled
  /\ standing' = "withdrawn"
  /\ UNCHANGED <<decision, ruled>>

Next == Resolve \/ Rule \/ Decide \/ Conclude \/ Withdraw

Spec == Init /\ [][Next]_vars
================================================================================
