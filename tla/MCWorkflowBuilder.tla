------------------------- MODULE MCWorkflowBuilder -------------------------
(***************************************************************************)
(* Small instances of WorkflowBuilder: the ids the page gives, two names a *)
(* person may choose, and texts to load.                                   *)
(***************************************************************************)
EXTENDS WorkflowBuilder

MCNewId(kind, counter) == kind \o "_" \o ToString(counter)

\* "end_3" is also what the page would call its next End step.
MCNames == {"ask_summary", "end_3"}

JsonQuestion(id, next) ==
  [id |-> id, kind |-> "question", refs |-> [next |-> next],
   filled |-> {"field_key"}]
JsonEnd(id) == [id |-> id, kind |-> "end", refs |-> <<>>, filled |-> {}]
Unknown == [id |-> "old", kind |-> "timer", refs |-> <<>>, filled |-> {}]

\* A loadable graph without an entry, one with a blank id, and two that stop
\* the load at their first and at their second step.
MCTexts ==
  {NotAGraph,
   [entry_step_id |-> "", steps |-> <<JsonQuestion("end_3", "gone")>>],
   [entry_step_id |-> "gone", steps |-> <<JsonEnd("")>>],
   [entry_step_id |-> "", steps |-> <<Unknown>>],
   [entry_step_id |-> "", steps |-> <<JsonEnd("end_3"), Unknown>>]}
=============================================================================
