--------------------------- MODULE MCOrchestrator ---------------------------
(***************************************************************************)
(* Small instances of Orchestrator: workflow graphs of the shapes that the *)
(* starter catalog and the graph builder produce, a directory of users and *)
(* the symmetry of the interchangeable ids.                                *)
(***************************************************************************)
EXTENDS OrchestratorProperties, TLC

Question(key, next) ==
  [kind |-> "question", field_key |-> key, next |-> next]
Approval(resolution, timeout, approve, reject) ==
  [kind |-> "wait_for_approval", approver_resolution |-> resolution,
   has_timeout |-> timeout, on_approve |-> approve, on_reject |-> reject]
Submit(next) == [kind |-> "submit_ticket", next |-> next]
End(outcome) == [kind |-> "end", outcome |-> outcome]
Branch(condition, yes, no) ==
  [kind |-> "branch", condition |-> condition, on_true |-> yes,
   on_false |-> no]

Manager == [type |-> "manager_of_requester"]
Agent == [type |-> "role_in_department", role |-> "agent"]
Static(u) == [type |-> "static", user_id |-> u]

\* One question, an approval that may time out, a ticket.
ApprovedTicket ==
  [entry_step_id |-> "ask",
   conditions |-> <<>>,
   steps |-> [ask   |-> Question("room", "boss"),
              boss  |-> Approval(Manager, TRUE, "file", "no"),
              file  |-> Submit("done"),
              done  |-> End("completed"),
              no    |-> End("rejected")]]

\* The answer decides whether an approval is needed; no timeout.
BranchedTicket(resolution) ==
  [entry_step_id |-> "ask",
   conditions |-> [big |-> [op |-> "equals", field_key |-> "room",
                            value |-> "big"]],
   steps |-> [ask   |-> Question("room", "size"),
              size  |-> Branch("big", "boss", "file"),
              boss  |-> Approval(resolution, FALSE, "file", "no"),
              file  |-> Submit("done"),
              done  |-> End("completed"),
              no    |-> End("cancelled")]]

MCStepIds == {"ask", "size", "boss", "file", "done", "no"}

MCDefinition ==
  [approved |-> [graph |-> ApprovedTicket, deliverable |-> TRUE,
                 mapping_fields |-> {"room"}],
   branched |-> [graph |-> BranchedTicket(Agent), deliverable |-> TRUE,
                 mapping_fields |-> {"room"}],
   unmapped |-> [graph |-> BranchedTicket(Static("bob")), deliverable |-> FALSE,
                 mapping_fields |-> {}]]

Person(manager, role, active, name) ==
  [manager |-> manager, department |-> 1, role |-> role,
   is_active |-> active, display_name |-> name]

\* Who can approve: both a manager and an active agent, an agent only, a
\* manager only.
Staffed == [ann |-> Person("bob", "requester", TRUE, 1),
            bob |-> Person(None, "agent", TRUE, 2)]
Unmanaged == [ann |-> Person(None, "requester", TRUE, 1),
              bob |-> Person(None, "agent", TRUE, 2)]
OnLeave == [ann |-> Person("bob", "requester", TRUE, 1),
            bob |-> Person(None, "agent", FALSE, 2)]

MCUsers == {"ann", "bob"}
OneDirectory == {Staffed}
TwoDirectories == {Unmanaged, OnLeave}

Ids == Permutations(Instances) \cup Permutations(Approvals)
         \cup Permutations(Tickets) \cup Permutations(Handlers)
=============================================================================
