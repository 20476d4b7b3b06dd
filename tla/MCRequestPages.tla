--------------------------- MODULE MCRequestPages ---------------------------
(* Items of all five patterns with up to three questions, an item whose    *)
(* workflow branches on a yes/no question, and items with every graph of   *)
(* up to three questions, branches, tickets and ends, where a step may     *)
(* lead to any of them or to a step that is not there.                     *)
EXTENDS RequestPages

MCQIds == <<"q1", "q2", "q3">>
Why == [field_key |-> "why", input_type |-> "text", required |-> TRUE]
Count == [field_key |-> "count", input_type |-> "number", required |-> FALSE]
Urgent == [field_key |-> "urgent", input_type |-> "boolean", required |-> TRUE]
Which == [field_key |-> "which", input_type |-> "multi_select", required |-> FALSE]

Seeded(p, qs) == [pattern |-> p, questions |-> qs, graph |-> <<>>]
Custom(g) == [pattern |-> "custom", questions |-> <<>>, graph |-> g]

\* A question, a branch on its answer, an approval only if it holds.
Branching(q, value) ==
  [entry_step_id |-> "q1",
   conditions |-> [big |-> [op |-> "equals", field_key |-> q.field_key, value |-> value]],
   steps |-> Then([q1 |-> Question(q, "size"),
                   size |-> [kind |-> "branch", condition |-> "big",
                             on_true |-> "manager_approval", on_false |-> "submit"],
                   manager_approval |-> WaitForApproval("manager_of_requester", "q2"),
                   q2 |-> Question(Why, "submit")],
                  push_submit_and_ends(TRUE))]

Small == {"s1", "s2", "s3"}
Anywhere == Small \cup {"gone"}

SmallSteps ==
  {Question(Urgent, next) : next \in Anywhere}
    \cup {[kind |-> "submit_ticket", next |-> next] : next \in Anywhere}
    \cup {[kind |-> "branch", condition |-> "yes", on_true |-> yes, on_false |-> no] :
             yes \in Anywhere, no \in Anywhere}
    \cup {end_step("completed")}

SmallGraphs ==
  {[entry_step_id |-> entry, steps |-> steps,
    conditions |-> [yes |-> [op |-> "equals", field_key |-> "urgent",
                             value |-> Json("boolean", "true")]]] :
     entry \in {"s1"}, steps \in [Small -> SmallSteps]}

\* A step that no other step leads to makes the graph one of fewer steps.
Connected(g) ==
  \A s \in {"s2", "s3"} : \E t \in Small \ {s} : s \in Successors(g.steps[t])

Empty == [entry_step_id |-> "gone", steps |-> <<>>, conditions |-> <<>>]

MCOffers ==
  {Seeded(p, qs) : p \in Patterns,
                   qs \in {<<>>, <<Why>>, <<Urgent, Count>>, <<Why, Which, Count>>}}
    \cup {Custom(Branching(Urgent, Json("boolean", text))) : text \in YesNo}
    \cup {Custom(Empty)}
    \cup {Custom(g) : g \in {g \in SmallGraphs : Connected(g)}}

MCStepIds == {"q1", "q2", "q3", "size", "manager_approval", "security_approval",
              "finance_approval", "submit", "end_completed", "end_rejected"} \cup Anywhere
MCFieldKeys == {"why", "count", "urgent", "which"}

MCRawTexts == [text |-> {"new"}, number |-> {"5", ""}, boolean |-> {"true", "false"},
               multi_select |-> {"a, b", ""}]
MCItems == "a, b" :> "a,b" @@ "" :> ""
MCApiValues == [text |-> {Json("string", "new")}, number |-> {Json("int", "5"), Null},
                boolean |-> {Json("boolean", "false")}, multi_select |-> {}]
MCValues == {Json("string", text) : text \in {"new", "5", "", "true", "false", "a, b"}}
  \cup {Json("float", "5"), Json("int", "5"), Null,
             Json("boolean", "true"), Json("boolean", "false"),
             Json("array", "a,b"), Json("array", "")}
=============================================================================
