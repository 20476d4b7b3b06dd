---------------------------- MODULE Orchestrator ----------------------------
(***************************************************************************)
(* Requests in flight: the server's workflow orchestrator together with    *)
(* the approvals crate, its expiry poller and the tables they write.       *)
(*                                                                         *)
(* No handler opens a transaction, so each SQL statement and each call of  *)
(* a connector is a step of its own and the steps of concurrent handlers   *)
(* interleave freely.  A handler's local variables are a task record; they *)
(* are lost when the client disconnects, when a statement fails and when   *)
(* the process stops, while the tables and the external ticketing system   *)
(* keep what was written.  Reads of rows that never change (workflow       *)
(* definitions, the decided approval a handler reads back) and the lookup  *)
(* of an approver are merged with the step that follows them.              *)
(***************************************************************************)
EXTENDS WorkflowEngine

CONSTANTS
  Definitions,   \* ids of workflow definitions
  Definition,    \* Definitions -> [graph, deliverable, mapping_fields]
  Users,         \* user ids
  Directories,   \* the contents the users table may have
  Instances,     \* ids of workflow_instances rows, bounds their number
  Approvals,     \* ids of pending_approvals rows, bounds their number
  Tickets,       \* ids of tickets rows, bounds their number
  Handlers,      \* request handlers that may run at the same time
  Poller,        \* the task of spawn_expiry_poller
  None,          \* SQL NULL, an unused local, a row that does not exist
  MaxFaults      \* bound on statement failures, disconnects and restarts

VARIABLES
  instances,     \* table workflow_instances
  approvals,     \* table pending_approvals
  tickets,       \* table tickets
  users,         \* table users, the columns approver resolution reads
  external,      \* tickets the external ticketing system has created
  tasks,         \* the handlers and the poller's current expiry
  batch,         \* what is left of the poller's list_expired result
  faults,        \* failures so far
  resumes        \* history: how often an approval resumed its instance

tables == <<instances, approvals, tickets, users>>
vars == <<instances, approvals, tickets, users, external, tasks, batch,
          faults, resumes>>

----------------------------------------------------------------------------
(* Types.                                                                  *)

InstanceStatus == {"in_progress", "awaiting_approval", "completed",
                   "rejected", "cancelled", "failed"}
ApprovalStatus == {"pending", "approved", "rejected", "expired"}
DispatchStatus == {"pending", "sent", "failed", "acked"}
Decisions == {"approve", "reject"}
Roles == {"requester", "approver", "agent", "admin"}

Terminal == {"completed", "rejected", "cancelled", "failed"}

WorkflowInstance ==
  [definition : Definitions, requester : Users, step : StepIds,
   answers : Answers, status : InstanceStatus, completed_at : BOOLEAN]

\* expires_at is NULL ("never"), in the future ("later") or reached ("past").
PendingApproval ==
  [instance : Instances, step : StepIds, approver : Users,
   status : ApprovalStatus, expires_at : {"never", "later", "past"}]

Ticket ==
  [instance : Instances, payload : Answers, status : DispatchStatus]

\* display_name is reduced to the user's place in the ORDER BY.
User ==
  [manager : Users \cup {None}, department : Nat \cup {None}, role : Roles,
   is_active : BOOLEAN, display_name : Nat]

Tasks == Handlers \cup {Poller}

\* Where a task stands: before the statement or call it names.
PCs == {"idle", "decide", "resume", "create_approval", "create_ticket",
        "dispatch", "mark_sent", "mark_failed", "save"}

Task ==
  [pc : PCs, instance : Instances \cup {None},
   approval : Approvals \cup {None}, decision : Decisions \cup {None},
   step : StepIds \cup {None}, answers : Answers,
   status : InstanceStatus \cup {None}, ticket : Tickets \cup {None}]

Idle ==
  [pc |-> "idle", instance |-> None, approval |-> None, decision |-> None,
   step |-> None, answers |-> NoAnswers, status |-> None, ticket |-> None]

TypeOK ==
  /\ instances \in [Instances -> WorkflowInstance \cup {None}]
  /\ approvals \in [Approvals -> PendingApproval \cup {None}]
  /\ tickets \in [Tickets -> Ticket \cup {None}]
  /\ users \in Directories
  /\ external \in SUBSET Tickets
  /\ tasks \in [Tasks -> Task]
  /\ batch \in SUBSET Approvals
  /\ faults \in 0 .. MaxFaults
  /\ resumes \in [Approvals -> Nat]

ASSUME DefinitionAssumption ==
  \A d \in Definitions :
    /\ IsGraph(Definition[d].graph)
    /\ Definition[d].deliverable \in BOOLEAN
    /\ Definition[d].mapping_fields \subseteq FieldKeys
ASSUME DirectoriesAssumption == Directories \subseteq [Users -> User]
ASSUME PollerAssumption == Poller \notin Handlers
ASSUME NoneAssumption ==
  /\ None \notin Instances \cup Approvals \cup Tickets \cup Users \cup StepIds
  /\ None \notin WorkflowInstance
  /\ None \notin PendingApproval
  /\ None \notin Ticket
ASSUME MaxFaultsAssumption == MaxFaults \in Nat

----------------------------------------------------------------------------
(* Helpers.                                                                *)

Graph(i) == Definition[instances[i].definition].graph

\* resolve_approver_user_id: None where the code returns an error, and where
\* the foreign key on approver_user_id refuses the INSERT that would follow.
resolve_approver_user_id(u, resolution) ==
  LET holders == {h \in Users :
                    /\ users[h].is_active
                    /\ users[h].role = resolution.role
                    /\ users[h].department = users[u].department}
  IN  CASE resolution.type = "static" ->
             IF resolution.user_id \in Users THEN resolution.user_id ELSE None
        [] resolution.type = "manager_of_requester" -> users[u].manager
        [] resolution.type = "role_in_department" ->
             IF users[u].department = None \/ holders = {} THEN None
             ELSE CHOOSE h \in holders : \A other \in holders :
                    users[h].display_name <= users[other].display_name

\* render_field_mapping: the payload holds the answers the templates name,
\* and rendering fails when one of them has no answer.
RenderFails(d, answers) ==
  \E k \in Definition[d].mapping_fields : answers[k] = Absent
Render(d, answers) ==
  [k \in FieldKeys |->
     IF k \in Definition[d].mapping_fields THEN answers[k] ELSE Absent]

\* The head of apply_outcome's loop: what the task does next with the result
\* of an engine call.  An engine error ends the handler, nothing is saved.
ApplyOutcome(i, result, answers) ==
  IF result.err # "none" THEN Idle
  ELSE [Idle EXCEPT
          !.pc = CASE result.outcome = "awaiting_approval" -> "create_approval"
                   [] result.outcome = "ready_to_submit_ticket" -> "create_ticket"
                   [] OTHER -> "save",
          !.instance = i,
          !.step = result.step,
          !.answers = answers,
          !.status = CASE result.outcome = "awaiting_answer" -> "in_progress"
                       [] result.outcome = "ready_to_submit_ticket" -> None
                       [] OTHER -> result.outcome]

\* The WHERE clause of approvals::decide, and so rows_affected() > 0.
StillPending(a) == approvals[a].status = "pending"

\* approvals::decide.
decide(a, status) ==
  approvals' = IF StillPending(a)
               THEN [approvals EXCEPT ![a].status = status]
               ELSE approvals

\* The locals of a handler that is at work on an approval.
Deciding(pc, a, decision) ==
  [Idle EXCEPT !.pc = pc, !.instance = approvals[a].instance,
               !.approval = a, !.decision = decision]

\* What follows decide(): only the task that affected the row goes on to
\* resume the instance.
AfterDecide_ignoring_lost_race(a, decision) == Deciding("resume", a, decision)
AfterDecide_without_resume(a, decision) == Idle
AfterDecide(a, decision) ==
  IF StillPending(a) THEN Deciding("resume", a, decision) ELSE Idle

\* mark_sent and mark_failed.
mark_by_instance(k, status) ==
  [other \in Tickets |->
     IF tickets[other] # None /\ tickets[other].instance = tickets[k].instance
     THEN [tickets[other] EXCEPT !.status = status] ELSE tickets[other]]
mark_as_sent(k, status) == [tickets EXCEPT ![k].status = "sent"]
mark(k, status) == [tickets EXCEPT ![k].status = status]

\* Any error of dispatch_ticket makes apply_outcome save the status failed.
GiveUp_without_status(task) == [task EXCEPT !.pc = "save"]
GiveUp_completed(task) == [task EXCEPT !.pc = "save", !.status = "completed"]
GiveUp(task) == [task EXCEPT !.pc = "save", !.status = "failed"]

\* The SET clause of save_progress.
Progress_without_step(row, task) ==
  [row EXCEPT !.answers = task.answers, !.status = task.status,
              !.completed_at = @ \/ task.status \in Terminal]
Progress(row, task) ==
  [row EXCEPT !.step = task.step, !.answers = task.answers,
              !.status = task.status,
              !.completed_at = @ \/ task.status \in Terminal]

----------------------------------------------------------------------------
Init ==
  /\ instances = [i \in Instances |-> None]
  /\ approvals = [a \in Approvals |-> None]
  /\ tickets = [k \in Tickets |-> None]
  /\ users \in Directories
  /\ external = {}
  /\ tasks = [t \in Tasks |-> Idle]
  /\ batch = {}
  /\ faults = 0
  /\ resumes = [a \in Approvals |-> 0]

(* Requests.  A request the code refuses changes nothing.                  *)

\* start_instance: the engine runs before the row is inserted.
StartInstance(t, i, d, u) ==
  LET result == engine_start(Definition[d].graph)
  IN  /\ tasks[t].pc = "idle"
      /\ instances[i] = None
      /\ result.err = "none"
      /\ instances' = [instances EXCEPT ![i] =
           [definition |-> d, requester |-> u, step |-> result.step,
            answers |-> NoAnswers, status |-> "in_progress",
            completed_at |-> FALSE]]
      /\ tasks' = [tasks EXCEPT ![t] = ApplyOutcome(i, result, NoAnswers)]
      /\ UNCHANGED <<approvals, tickets, users, external, batch, faults,
                     resumes>>

\* submit_answer up to apply_outcome: the row read here is not read again.
SubmitAnswer(t, i, field_key, value) ==
  LET result == engine_submit_answer(Graph(i), instances[i].step,
                                     instances[i].answers, field_key, value)
  IN  /\ tasks[t].pc = "idle"
      /\ instances[i] # None
      /\ instances[i].status = "in_progress"
      /\ result.err = "none"
      /\ tasks' = [tasks EXCEPT ![t] =
           ApplyOutcome(i, result,
                        Insert(instances[i].answers, field_key, value))]
      /\ UNCHANGED <<tables, external, batch, faults, resumes>>

\* decide: the approver's request reads the row and finds it pending.
DecideApproval(t, a, decision) ==
  /\ tasks[t].pc = "idle"
  /\ approvals[a] # None
  /\ approvals[a].status = "pending"
  /\ tasks' = [tasks EXCEPT ![t] = Deciding("decide", a, decision)]
  /\ UNCHANGED <<tables, external, batch, faults, resumes>>

\* decide: the conditional UPDATE; a lost race ends the request.
RecordDecision(t) ==
  LET a == tasks[t].approval
      decision == tasks[t].decision
  IN  /\ tasks[t].pc = "decide"
      /\ decide(a, IF decision = "approve" THEN "approved" ELSE "rejected")
      /\ tasks' = [tasks EXCEPT ![t] = AfterDecide(a, decision)]
      /\ UNCHANGED <<instances, tickets, users, external, batch, faults,
                     resumes>>

\* resume_after_approval up to apply_outcome.  It works from the approval's
\* step and does not look at the instance's own step or status.
ResumeAfterApproval(t) ==
  LET a == tasks[t].approval
      i == tasks[t].instance
  IN  /\ tasks[t].pc = "resume"
      /\ tasks' = [tasks EXCEPT ![t] =
           ApplyOutcome(i, engine_resume_after_approval(Graph(i),
                             approvals[a].step, instances[i].answers,
                             tasks[t].decision),
                        instances[i].answers)]
      /\ resumes' = [resumes EXCEPT ![a] = @ + 1]
      /\ UNCHANGED <<tables, external, batch, faults>>

----------------------------------------------------------------------------
(* The rest of apply_outcome.                                              *)

\* create_for_instance: the approver is resolved and the row inserted.
CreateApproval(t, a) ==
  LET i == tasks[t].instance
      step == Graph(i).steps[tasks[t].step]
      approver == resolve_approver_user_id(instances[i].requester,
                                           step.approver_resolution)
  IN  /\ tasks[t].pc = "create_approval"
      /\ approver # None
      /\ approvals[a] = None
      /\ approvals' = [approvals EXCEPT ![a] =
           [instance |-> i, step |-> tasks[t].step, approver |-> approver,
            status |-> "pending",
            expires_at |-> IF step.has_timeout THEN "later" ELSE "never"]]
      /\ tasks' = [tasks EXCEPT ![t].pc = "save"]
      /\ UNCHANGED <<instances, tickets, users, external, batch, faults,
                     resumes>>

ResolutionFails_ignored(t) ==
  LET i == tasks[t].instance
      step == Graph(i).steps[tasks[t].step]
  IN  /\ tasks[t].pc = "create_approval"
      /\ resolve_approver_user_id(instances[i].requester,
                                  step.approver_resolution) = None
      /\ tasks' = [tasks EXCEPT ![t].pc = "save"]
      /\ UNCHANGED <<tables, external, batch, faults, resumes>>

\* create_for_instance fails to resolve an approver: the error is returned.
ResolutionFails(t) ==
  LET i == tasks[t].instance
      step == Graph(i).steps[tasks[t].step]
  IN  /\ tasks[t].pc = "create_approval"
      /\ resolve_approver_user_id(instances[i].requester,
                                  step.approver_resolution) = None
      /\ tasks' = [tasks EXCEPT ![t] = Idle]
      /\ UNCHANGED <<tables, external, batch, faults, resumes>>

\* dispatch_ticket: the definition has no target system, no field mapping or
\* no registered connector, or its templates do not render.
CannotDispatch(t) ==
  LET d == instances[tasks[t].instance].definition
  IN  /\ tasks[t].pc = "create_ticket"
      /\ ~Definition[d].deliverable \/ RenderFails(d, tasks[t].answers)
      /\ tasks' = [tasks EXCEPT ![t] = GiveUp(@)]
      /\ UNCHANGED <<tables, external, batch, faults, resumes>>

\* tickets::create, reached when the definition can be dispatched.
InsertTicket(t, k) ==
  LET i == tasks[t].instance
      d == instances[i].definition
  IN  /\ tasks[t].pc = "create_ticket"
      /\ Definition[d].deliverable /\ ~RenderFails(d, tasks[t].answers)
      /\ tickets[k] = None
      /\ tickets' = [tickets EXCEPT ![k] =
           [instance |-> i, payload |-> Render(d, tasks[t].answers),
            status |-> "pending"]]

\* dispatch_ticket: the tickets row is inserted before the connector runs.
CreateTicket(t, k) ==
  /\ InsertTicket(t, k)
  /\ tasks' = [tasks EXCEPT ![t].pc = "dispatch", ![t].ticket = k]
  /\ UNCHANGED <<instances, approvals, users, external, batch, faults,
                 resumes>>

\* connector.dispatch.  An error may be reported although the ticketing
\* system created the ticket (its answer was lost or could not be read).
Dispatch(t, created, reported) ==
  /\ tasks[t].pc = "dispatch"
  /\ reported => created
  /\ external' = IF created THEN external \cup {tasks[t].ticket} ELSE external
  /\ tasks' = [tasks EXCEPT ![t].pc =
                 IF reported THEN "mark_sent" ELSE "mark_failed"]
  /\ UNCHANGED <<tables, batch, faults, resumes>>

\* mark_sent, after which the engine moves on from the SubmitTicket step.
MarkSent(t) ==
  LET i == tasks[t].instance
  IN  /\ tasks[t].pc = "mark_sent"
      /\ tickets' = mark(tasks[t].ticket, "sent")
      /\ tasks' = [tasks EXCEPT ![t] =
           ApplyOutcome(i, engine_resume_after_ticket_dispatch(Graph(i),
                             tasks[t].step, tasks[t].answers),
                        tasks[t].answers)]
      /\ UNCHANGED <<instances, approvals, users, external, batch, faults,
                     resumes>>

MarkFailed(t) ==
  /\ tasks[t].pc = "mark_failed"
  /\ tickets' = mark(tasks[t].ticket, "failed")
  /\ tasks' = [tasks EXCEPT ![t] = GiveUp(@)]
  /\ UNCHANGED <<instances, approvals, users, external, batch, faults,
                 resumes>>

\* save_progress, an UPDATE by id alone; it ends the handler.
SaveProgress(t) ==
  /\ tasks[t].pc = "save"
  /\ instances' = [instances EXCEPT ![tasks[t].instance] =
                     Progress(@, tasks[t])]
  /\ tasks' = [tasks EXCEPT ![t] = Idle]
  /\ UNCHANGED <<approvals, tickets, users, external, batch, faults, resumes>>

----------------------------------------------------------------------------
(* The expiry poller: one poll at a time, one approval of it at a time.    *)

list_expired ==
  {a \in Approvals : /\ approvals[a] # None
                     /\ approvals[a].status = "pending"
                     /\ approvals[a].expires_at = "past"}

PollList ==
  /\ tasks[Poller].pc = "idle"
  /\ batch = {}
  /\ list_expired # {}
  /\ batch' = list_expired
  /\ UNCHANGED <<tables, external, tasks, faults, resumes>>

\* The handler is only called for a row the poller itself has flipped.
PollExpire(a) ==
  /\ tasks[Poller].pc = "idle"
  /\ a \in batch
  /\ batch' = batch \ {a}
  /\ decide(a, "expired")
  /\ tasks' = [tasks EXCEPT ![Poller] = AfterDecide(a, "reject")]
  /\ UNCHANGED <<instances, tickets, users, external, faults, resumes>>

\* The clock reaches expires_at.
TimePasses(a) ==
  /\ approvals[a] # None
  /\ approvals[a].expires_at = "later"
  /\ approvals' = [approvals EXCEPT ![a].expires_at = "past"]
  /\ UNCHANGED <<instances, tickets, users, external, tasks, batch, faults,
                 resumes>>

\* An administrator edits or deactivates users; a manager or a department
\* that was set can be changed but not cleared.
EditUsers ==
  /\ users' \in Directories \ {users}
  /\ \A u \in Users :
       /\ users[u].manager # None => users'[u].manager # None
       /\ users[u].department # None => users'[u].department # None
  /\ UNCHANGED <<instances, approvals, tickets, external, tasks, batch, faults,
                 resumes>>

----------------------------------------------------------------------------
(* Failures.                                                               *)

Fault == faults < MaxFaults /\ faults' = faults + 1

Dispatching == {"create_ticket", "dispatch", "mark_sent", "mark_failed"}

\* A statement fails, or the client of a request disconnects and its handler
\* is dropped.  The poller has no client: inside dispatch_ticket its errors
\* are those of DispatchStatementFails, elsewhere it logs them and goes on
\* with its batch.
TaskLost(t) ==
  /\ Fault
  /\ tasks[t].pc # "idle"
  /\ t = Poller => tasks[t].pc \notin Dispatching
  /\ tasks' = [tasks EXCEPT ![t] = Idle]
  /\ UNCHANGED <<tables, external, batch, resumes>>

\* A statement of dispatch_ticket fails: one that reads, or one that writes
\* the ticket row, whose change may be there when the error is reported.
DispatchStatementFails(t) ==
  /\ Fault
  /\ tasks[t].pc \in Dispatching \ {"dispatch"}
  /\ \/ tickets' = tickets
     \/ \E k \in Tickets : InsertTicket(t, k)
     \/ /\ tasks[t].pc = "mark_sent"
        /\ tickets' = mark(tasks[t].ticket, "sent")
     \/ /\ tasks[t].pc = "mark_failed"
        /\ tickets' = mark(tasks[t].ticket, "failed")
  /\ tasks' = [tasks EXCEPT ![t] = GiveUp(@)]
  /\ UNCHANGED <<instances, approvals, users, external, batch, resumes>>

\* The poller's own UPDATE fails and ends this poll.
PollAborts ==
  /\ Fault
  /\ tasks[Poller].pc = "idle"
  /\ batch # {}
  /\ batch' = {}
  /\ UNCHANGED <<tables, external, tasks, resumes>>

\* The process stops and is started again.
Restart ==
  /\ Fault
  /\ tasks' = [t \in Tasks |-> Idle]
  /\ batch' = {}
  /\ UNCHANGED <<tables, external, resumes>>

----------------------------------------------------------------------------
\* One step of a task that is already running.
TaskStep(t) ==
  \/ RecordDecision(t)
  \/ ResumeAfterApproval(t)
  \/ \E a \in Approvals : CreateApproval(t, a)
  \/ ResolutionFails(t)
  \/ CannotDispatch(t)
  \/ \E k \in Tickets : CreateTicket(t, k)
  \/ \E created, reported \in BOOLEAN : Dispatch(t, created, reported)
  \/ MarkSent(t)
  \/ MarkFailed(t)
  \/ SaveProgress(t)

NewRequest(t) ==
  \/ \E i \in Instances, d \in Definitions, u \in Users :
       StartInstance(t, i, d, u)
  \/ \E i \in Instances, field_key \in FieldKeys, value \in Values :
       SubmitAnswer(t, i, field_key, value)
  \/ \E a \in Approvals, decision \in Decisions :
       DecideApproval(t, a, decision)

Poll == PollList \/ \E a \in Approvals : PollExpire(a)

Failure ==
  \/ \E t \in Tasks : TaskLost(t) \/ DispatchStatementFails(t)
  \/ PollAborts
  \/ Restart

Next ==
  \/ \E t \in Handlers : NewRequest(t)
  \/ \E t \in Tasks : TaskStep(t)
  \/ Poll
  \/ \E a \in Approvals : TimePasses(a)
  \/ EditUsers
  \/ Failure

Spec == Init /\ [][Next]_vars

\* Tokio runs every handler to its end and time goes on.  Nobody has to make
\* a request, and nothing fails by necessity.
TaskFairness ==
  /\ \A t \in Tasks : WF_vars(TaskStep(t))
  /\ \A a \in Approvals : WF_vars(TimePasses(a))

\* The poller's interval ticks for ever.
FairSpec == Spec /\ TaskFairness /\ WF_vars(Poll)

\* Requests about one instance wait for each other, and an approval does not
\* time out under a handler that is still at work on its instance.
OneTaskPerInstance ==
  \A t, other \in Tasks :
    t # other /\ tasks[t].instance # None
      => tasks[t].instance # tasks[other].instance

SerialSpec ==
  /\ Init
  /\ [][Next /\ OneTaskPerInstance']_vars
  /\ TaskFairness
  /\ WF_vars(Poll /\ OneTaskPerInstance')
=============================================================================
