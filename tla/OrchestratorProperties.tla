----------------------- MODULE OrchestratorProperties -----------------------
(***************************************************************************)
(* What the orchestrator, the approvals crate and the tables they write    *)
(* promise: under every interleaving and failure, under serial requests,   *)
(* and in the long run.                                                    *)
(***************************************************************************)
EXTENDS Orchestrator

----------------------------------------------------------------------------
(* What holds whatever the interleaving and wherever handlers are lost.    *)

\* Once approved, rejected or expired, an approval keeps that status: of a
\* decision, a duplicate of it and the poller's expiry only one takes effect
\* (approvals::decide).
DecisionIsFinal ==
  [][\A a \in Approvals :
       approvals[a] # None /\ approvals[a].status # "pending"
         => approvals'[a] # None /\ approvals'[a].status = approvals[a].status
    ]_vars

\* An approval resumes its instance at most once, and never while it is
\* pending (service::decide, poll_once): a part of ImplementsLifecycle.
ResumedOnce ==
  \A a \in Approvals :
    /\ resumes[a] <= 1
    /\ resumes[a] > 0 => approvals[a] # None /\ approvals[a].status # "pending"

Lifecycle ==
  INSTANCE ApprovalLifecycle
  WITH record <- [a \in Approvals |->
                    IF approvals[a] = None THEN "none" ELSE approvals[a].status],
       resumed <- resumes

\* The approvals table, the approvers' requests, the poller and the resumed
\* handlers together implement the life cycle of an approval: no step of
\* theirs does anything else to a row, and of all who try to decide one only
\* the first resumes the instance (service::decide, poll_once).
ImplementsLifecycle == Lifecycle!Spec

\* The branch a handler is about to take out of a WaitForApproval step is
\* the one on record: on_approve for an approved row, on_reject for a
\* rejected or expired one, of the row's own instance.
ResumeFollowsRecord ==
  \A t \in Tasks :
    tasks[t].pc = "resume" =>
      LET row == approvals[tasks[t].approval]
      IN  /\ row # None
          /\ row.status # "pending"
          /\ row.instance = tasks[t].instance
          /\ tasks[t].decision = "approve" <=> row.status = "approved"

\* The status of an instance and the kind of its step agree; an in_progress
\* instance that is not at a Question is one whose first save never happened
\* (apply_outcome, save_progress).
StatusMatchesStep ==
  \A i \in Instances :
    instances[i] # None =>
      LET row == instances[i]
          step == Graph(i).steps[row.step]
      IN  /\ row.step \in DOMAIN Graph(i).steps
          /\ row.status = "in_progress" =>
               \/ step.kind = "question"
               \/ row.step = engine_start(Graph(i)).step /\ row.answers = NoAnswers
          /\ row.status = "awaiting_approval" => step.kind = "wait_for_approval"
          /\ row.status = "failed" => step.kind = "submit_ticket"
          /\ row.status \in EndOutcomes =>
               step.kind = "end" /\ step.outcome = row.status
          /\ row.status \in Terminal => row.completed_at

\* An instance shown as awaiting approval has an approval row for the step it
\* waits at: the row is inserted before the instance is saved.
AwaitingHasApproval ==
  \A i \in Instances :
    instances[i] # None /\ instances[i].status = "awaiting_approval" =>
      \E a \in Approvals :
        /\ approvals[a] # None
        /\ approvals[a].instance = i
        /\ approvals[a].step = instances[i].step

\* A ticket row is settled once: sent and failed are never changed, by
\* whatever handlers are at work on the same instance.
TicketSettlesOnce ==
  [][\A k \in Tickets :
       tickets[k] # None /\ tickets[k].status # "pending"
         => tickets'[k] = tickets[k]]_vars

\* The tickets table and the ticketing system: nothing is created there
\* without a row here, and a row marked sent stands for a ticket that exists.
TicketsAgree ==
  /\ \A k \in external : tickets[k] # None
  /\ \A k \in Tickets :
       tickets[k] # None /\ tickets[k].status = "sent" => k \in external

\* Every way from the entry of g to a step that Target selects crosses an
\* edge that Crossing selects: some set of steps that holds the entry and is
\* closed under all other edges avoids the targets.
Guarded(g, Crossing(_, _), Target(_)) ==
  \E avoided \in SUBSET StepIds :
    /\ g.entry_step_id \in avoided
    /\ \A s \in avoided \cap DOMAIN g.steps :
         /\ ~Target(g.steps[s])
         /\ \A next \in Successors(g.steps[s]) :
              next \in avoided \/ Crossing(g.steps[s], next)

\* No path of the graph reaches a SubmitTicket step but through an approval.
NeedsApproval(g) ==
  Guarded(g,
    LAMBDA step, next : /\ step.kind = "wait_for_approval"
                        /\ next = step.on_approve
                        /\ next # step.on_reject,
    LAMBDA step : step.kind = "submit_ticket")

ApprovalFirst == {d \in Definitions : NeedsApproval(Definition[d].graph)}

\* If the workflow puts an approval before every ticket, no ticket row exists
\* for an instance none of whose approvals was approved: rejecting, expiry,
\* races and restarts dispatch nothing.
NoTicketWithoutApproval ==
  \A k \in Tickets :
    /\ tickets[k] # None
    /\ instances[tickets[k].instance].definition \in ApprovalFirst
    =>
      \E a \in Approvals :
        /\ approvals[a] # None
        /\ approvals[a].instance = tickets[k].instance
        /\ approvals[a].status = "approved"

\* No path of the graph completes but through a SubmitTicket step.
NeedsTicket(g) ==
  Guarded(g,
    LAMBDA step, next : step.kind = "submit_ticket",
    LAMBDA step : step.kind = "end" /\ step.outcome = "completed")

TicketFirst == {d \in Definitions : NeedsTicket(Definition[d].graph)}

\* If the workflow puts a ticket before every completed End, an instance is
\* only shown as completed when one of its tickets was marked sent.
CompletedHasTicket ==
  \A i \in Instances :
    /\ instances[i] # None
    /\ instances[i].status = "completed"
    /\ instances[i].definition \in TicketFirst
    => \E k \in Tickets :
         /\ tickets[k] # None
         /\ tickets[k].instance = i
         /\ tickets[k].status = "sent"

----------------------------------------------------------------------------
(* What needs requests about one instance to be serial, and no failures:   *)
(* Orchestrator_proofs proves it of SerialSpec.  Under Spec it fails.      *)

Busy(i) == \E t \in Tasks : tasks[t].instance = i

PendingFor(i) ==
  {a \in Approvals : /\ approvals[a] # None
                     /\ approvals[a].instance = i
                     /\ approvals[a].status = "pending"}

\* No way from step s of g leads to a step that Target selects.
Beyond(g, s, Target(_)) ==
  \E ahead \in SUBSET StepIds :
    /\ s \in ahead
    /\ \A p \in ahead \cap DOMAIN g.steps :
         ~Target(g.steps[p]) /\ Successors(g.steps[p]) \subseteq ahead

\* Past a question of g its field is never asked for again.
AsksOnce(g) ==
  \A q \in DOMAIN g.steps :
    g.steps[q].kind = "question" =>
      Beyond(g, g.steps[q].next,
        LAMBDA step : /\ step.kind = "question"
                      /\ step.field_key = g.steps[q].field_key)

\* Past a ticket of g there is no other ticket.
FilesOnce(g) ==
  \A q \in DOMAIN g.steps :
    g.steps[q].kind = "submit_ticket" =>
      Beyond(g, g.steps[q].next, LAMBDA step : step.kind = "submit_ticket")

\* A directory in which u's request finds an approver.
Resolves(directory, u, resolution) ==
  CASE resolution.type = "static" -> resolution.user_id \in Users
    [] resolution.type = "manager_of_requester" -> directory[u].manager # None
    [] resolution.type = "role_in_department" ->
         /\ directory[u].department # None
         /\ \E h \in Users : /\ directory[h].is_active
                            /\ directory[h].role = resolution.role
                            /\ directory[h].department = directory[u].department

\* Neither the engine nor the resolution of an approver can fail a request
\* of u along g once it was decided or has filed a ticket.
Unfailing(g, u) ==
  \A s \in DOMAIN g.steps :
    /\ g.steps[s].kind \in {"wait_for_approval", "submit_ticket"} =>
         \A next \in Successors(g.steps[s]), answers \in Answers :
           auto_advance(g, next, answers).err = "none"
    /\ g.steps[s].kind = "wait_for_approval" =>
         \A directory \in Directories :
           Resolves(directory, u, g.steps[s].approver_resolution)

AskingOnce == {d \in Definitions : AsksOnce(Definition[d].graph)}
FilingOnce == {d \in Definitions : FilesOnce(Definition[d].graph)}
Sound ==
  [u \in Users |-> {d \in Definitions : Unfailing(Definition[d].graph, u)}]
Unfailed(i) == instances[i].definition \in Sound[instances[i].requester]

\* Between requests an instance waits exactly for what is on record: a
\* pending approval is its only one, is for its current step, and the instance
\* is awaiting_approval; and if it is, there is one, unless the handler that
\* resumed it met a fault of the graph or found no approver.
WaitsForItsApproval ==
  faults = 0 =>
    \A i \in Instances :
      instances[i] # None /\ ~Busy(i) =>
        /\ \A a \in PendingFor(i) :
             /\ PendingFor(i) = {a}
             /\ approvals[a].step = instances[i].step
             /\ instances[i].status = "awaiting_approval"
        /\ /\ instances[i].status = "awaiting_approval"
           /\ Unfailed(i)
           => PendingFor(i) # {}

\* A request never goes back: a completed, rejected, cancelled or failed
\* instance never changes again (Outcome::Finished: "persist this as the
\* instance's final status"), and an answer that was saved is never lost or
\* replaced by a later save, unless the workflow itself asks for it again.
ProgressIsKept ==
  [][faults = 0 =>
       \A i \in Instances :
         instances[i] # None =>
           /\ instances[i].status \in Terminal => instances'[i] = instances[i]
           /\ instances[i].definition \in AskingOnce =>
                \A k \in FieldKeys :
                  instances[i].answers[k] # Absent
                    => instances'[i].answers[k] = instances[i].answers[k]]_vars

\* There is at most one tickets row per instance (get_by_instance_id), if its
\* workflow files one ticket and nothing fails once it is filed.
OneTicketPerInstance ==
  faults = 0 =>
    \A k, other \in Tickets :
      /\ tickets[k] # None
      /\ tickets[other] # None
      /\ tickets[k].instance = tickets[other].instance
      /\ instances[tickets[k].instance].definition \in FilingOnce
      /\ Unfailed(tickets[k].instance)
      => k = other

----------------------------------------------------------------------------
(* What must eventually happen.                                            *)

TimedWait(i) ==
  /\ instances[i] # None
  /\ instances[i].status = "awaiting_approval"
  /\ Graph(i).steps[instances[i].step].has_timeout

\* The approvals made for the step that an instance rests at.
Expected(i) ==
  {a \in Approvals : /\ approvals[a] # None
                     /\ approvals[a].instance = i
                     /\ approvals[a].step = instances[i].step}

\* An instance waiting at a step with a timeout, for an approval that is still
\* pending, does not wait there for ever ("the instance reflects that without
\* any manual intervention"), however the poller and the approvers interleave;
\* unless a duplicate of the answer made a second approval, whose handler may
\* put the instance back to this step after both were decided.
TimedWaitEnds ==
  \A i \in Instances :
    TimedWait(i) /\ Expected(i) \cap PendingFor(i) # {}
      ~> ~TimedWait(i) \/ \E a, other \in Expected(i) : a # other
=============================================================================
