------------------------- MODULE ApprovalLifecycle -------------------------
(***************************************************************************)
(* What the approvals crate promises about one pending_approvals row,      *)
(* whoever decides it and however often they try: it is opened once,       *)
(* decided once, and resumes its workflow instance at most once, after it  *)
(* was decided.                                                            *)
(***************************************************************************)
EXTENDS Naturals

CONSTANT Approvals

VARIABLES
  record,   \* the status on record, "none" before the row exists
  resumed   \* how often the approval resumed its instance

Decided == {"approved", "rejected", "expired"}

Init ==
  /\ record = [a \in Approvals |-> "none"]
  /\ resumed = [a \in Approvals |-> 0]

Open(a) ==
  /\ record[a] = "none"
  /\ record' = [record EXCEPT ![a] = "pending"]
  /\ UNCHANGED resumed

Decide(a, status) ==
  /\ record[a] = "pending"
  /\ record' = [record EXCEPT ![a] = status]
  /\ UNCHANGED resumed

Resume(a) ==
  /\ record[a] \in Decided
  /\ resumed[a] = 0
  /\ resumed' = [resumed EXCEPT ![a] = 1]
  /\ UNCHANGED record

Next ==
  \E a \in Approvals :
    \/ Open(a)
    \/ \E status \in Decided : Decide(a, status)
    \/ Resume(a)

Spec == Init /\ [][Next]_<<record, resumed>>
=============================================================================
