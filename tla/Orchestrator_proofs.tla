------------------------ MODULE Orchestrator_proofs ------------------------
(***************************************************************************)
(* Proofs, for every workflow graph, directory of users and number of      *)
(* instances, approvals, tickets and handlers, of what                     *)
(* OrchestratorProperties states without serial requests: under every      *)
(* interleaving, loss of handlers and restart.                             *)
(***************************************************************************)
EXTENDS OrchestratorProperties, Engine_proofs

----------------------------------------------------------------------------
(* The inductive invariant behind type correctness.  A task's locals are   *)
(* typed by where it stands: the rows they name exist and the step they    *)
(* hold is of the kind the next statement needs.                           *)

\* The status that may be saved at a step.
Fits(step, status) ==
  /\ status \in InstanceStatus
  /\ status = "in_progress" => step.kind = "question"
  /\ status = "awaiting_approval" => step.kind = "wait_for_approval"
  /\ status = "failed" => step.kind = "submit_ticket"
  /\ status \in EndOutcomes => step.kind = "end" /\ step.outcome = status

Applying == Dispatching \cup {"create_approval", "save"}

\* The step of a task k inside apply_outcome suits what it is about to do.
Suits(k, g) ==
  /\ k.step \in DOMAIN g.steps
  /\ k.pc = "save" => Fits(g.steps[k.step], k.status)
  /\ k.pc = "create_approval" =>
       /\ g.steps[k.step].kind = "wait_for_approval"
       /\ k.status = "awaiting_approval"
  /\ k.pc \in Dispatching => g.steps[k.step].kind = "submit_ticket"

\* What holds of the locals k of a task.
TaskOK(k) ==
  /\ k.pc # "idle" => k.instance \in Instances /\ instances[k.instance] # None
  /\ k.pc \in {"decide", "resume"} =>
       /\ k.approval \in Approvals
       /\ approvals[k.approval] # None
       /\ approvals[k.approval].instance = k.instance
       /\ k.decision \in Decisions
  /\ k.pc \in Applying => Suits(k, Graph(k.instance))
  /\ k.pc \in Dispatching \ {"create_ticket"} =>
       /\ k.ticket \in Tickets
       /\ tickets[k.ticket] # None
       /\ tickets[k.ticket].instance = k.instance

TasksOK == \A t \in Tasks : TaskOK(tasks[t])

\* Approvals and tickets belong to instances that exist (foreign keys).
Rooted ==
  /\ \A a \in Approvals :
       approvals[a] # None => instances[approvals[a].instance] # None
  /\ \A k \in Tickets :
       tickets[k] # None => instances[tickets[k].instance] # None

TypeInv == TypeOK /\ TasksOK /\ Rooted

\* The approvals of the poller's batch are rows.
Listed == \A a \in batch : approvals[a] # None

\* What no step takes back: rows stay, and so does what they belong to.
Persists ==
  /\ \A i \in Instances :
       instances[i] # None =>
         /\ instances'[i] # None
         /\ instances'[i].definition = instances[i].definition
  /\ \A a \in Approvals :
       approvals[a] # None =>
         /\ approvals'[a] # None
         /\ approvals'[a].instance = approvals[a].instance
  /\ \A k \in Tickets :
       tickets[k] # None =>
         /\ tickets'[k] # None
         /\ tickets'[k].instance = tickets[k].instance

\* Locals that suit the rows before a step suit the rows after it.
LEMMA TaskOKPersists ==
  ASSUME NEW t \in Tasks, TaskOK(tasks'[t]), Persists
  PROVE  TaskOK(tasks[t])'
  BY DEF TaskOK, Persists, Graph, Applying, Dispatching

\* A step that moves one task has to account for that task only.
LEMMA OneTaskMoves ==
  ASSUME TasksOK, Persists, NEW t \in Tasks, TaskOK(tasks[t])',
         \A u \in Tasks \ {t} : tasks'[u] = tasks[u]
  PROVE  TasksOK'
<1>. SUFFICES ASSUME NEW u \in Tasks, u # t PROVE TaskOK(tasks[u])'
  BY DEF TasksOK
<1>1. TaskOK(tasks'[u])
  BY DEF TasksOK
<1>. QED
  BY <1>1, TaskOKPersists

\* An idle task is well typed.
LEMMA IdleOK ==
  /\ Idle \in Task
  /\ TaskOK(Idle)
<1>1. Idle.pc = "idle"
  BY DEF Idle
<1>2. NoAnswers \in Answers
  BY DEF NoAnswers, Answers
<1>3. Idle \in Task
  BY <1>2 DEF Idle, Task, PCs
<1>. QED
  BY <1>1, <1>3 DEF TaskOK, Applying, Dispatching

Begins == {"save", "create_approval", "create_ticket"}

\* What apply_outcome does with a result of the engine suits the graph, and
\* the task it leaves is about to save or to create a row, or is done.
LEMMA ApplyOutcomeOK ==
  ASSUME NEW g, IsGraph(g), NEW r, Rests(g, r),
         NEW i \in Instances, NEW answers \in Answers
  PROVE  LET k == ApplyOutcome(i, r, answers)
         IN  /\ k \in Task
             /\ \/ k = Idle
                \/ k.pc \in Begins /\ k.instance = i /\ Suits(k, g)
<1>. DEFINE k == ApplyOutcome(i, r, answers)
            step == g.steps[r.step]
<1>1. CASE r.err # "none"
  BY <1>1, IdleOK DEF ApplyOutcome
<1>2. CASE r.err = "none"
  <2>1. /\ r.step \in DOMAIN g.steps
        /\ r.step \in StepIds
        /\ step.kind \in StepKinds \ {"branch"}
        /\ r.outcome = OutcomeOf(step)
        /\ step.kind = "end" => step.outcome \in EndOutcomes
    BY <1>2 DEF Rests, IsGraph
  <2>. DEFINE Made(pc, status) ==
         [pc |-> pc, instance |-> i, approval |-> None, decision |-> None,
          step |-> r.step, answers |-> answers, status |-> status,
          ticket |-> None]
  <2>2. k = Made(CASE r.outcome = "awaiting_approval" -> "create_approval"
                   [] r.outcome = "ready_to_submit_ticket" -> "create_ticket"
                   [] OTHER -> "save",
                 CASE r.outcome = "awaiting_answer" -> "in_progress"
                   [] r.outcome = "ready_to_submit_ticket" -> None
                   [] OTHER -> r.outcome)
    BY <1>2 DEF ApplyOutcome, Idle
  <2>3. \A pc \in PCs, status \in InstanceStatus \cup {None} :
          Made(pc, status) \in Task
    BY <2>1 DEF Task
  <2>4. \A pc, status :
          /\ Made(pc, status).pc = pc
          /\ Made(pc, status).status = status
          /\ Made(pc, status).instance = i
          /\ Made(pc, status).step = r.step
    OBVIOUS
  <2>5. CASE step.kind = "question"
    <3>1. k = Made("save", "in_progress")
      BY <2>1, <2>2, <2>5 DEF OutcomeOf
    <3>2. Fits(step, "in_progress")
      BY <2>5 DEF Fits, InstanceStatus, EndOutcomes
    <3>. QED
      BY <2>1, <2>3, <2>4, <3>1, <3>2
      DEF PCs, InstanceStatus, Suits, Begins, Dispatching
  <2>6. CASE step.kind = "wait_for_approval"
    <3>1. k = Made("create_approval", "awaiting_approval")
      BY <2>1, <2>2, <2>6 DEF OutcomeOf
    <3>. QED
      BY <2>1, <2>3, <2>4, <2>6, <3>1
      DEF PCs, InstanceStatus, Suits, Begins, Dispatching
  <2>7. CASE step.kind = "submit_ticket"
    <3>1. k = Made("create_ticket", None)
      BY <2>1, <2>2, <2>7 DEF OutcomeOf
    <3>. QED
      BY <2>1, <2>3, <2>4, <2>7, <3>1
      DEF PCs, InstanceStatus, Suits, Begins, Dispatching
  <2>8. CASE step.kind = "end"
    <3>1. k = Made("save", step.outcome)
      BY <2>1, <2>2, <2>8 DEF OutcomeOf, EndOutcomes
    <3>2. Fits(step, step.outcome)
      BY <2>1, <2>8 DEF Fits, InstanceStatus, EndOutcomes
    <3>3. step.outcome \in InstanceStatus
      BY <2>1, <2>8 DEF InstanceStatus, EndOutcomes
    <3>. QED
      BY <2>1, <2>3, <2>4, <3>1, <3>2, <3>3
      DEF PCs, Suits, Begins, Dispatching
  <2>. QED
    BY <2>1, <2>5, <2>6, <2>7, <2>8 DEF StepKinds
<1>. QED
  BY <1>1, <1>2

----------------------------------------------------------------------------
(* Every action keeps TypeInv.                                             *)

\* Of any users one comes first in the ORDER BY.
LEMMA LeastHolder ==
  ASSUME TypeOK, NEW holders \in SUBSET Users, holders # {}
  PROVE  \E h \in holders : \A other \in holders :
           users[h].display_name <= users[other].display_name
<1>1. \A h \in holders : users[h].display_name \in Nat
  BY DirectoriesAssumption DEF TypeOK, User
<1>. DEFINE names == {users[h].display_name : h \in holders}
<1>2. names \in SUBSET Nat /\ names # {}
  BY <1>1
<1>. HIDE DEF names
<1>3. \E x \in names : \A y \in names : x <= y
  BY <1>2, LeastNat
<1>. QED
  BY <1>3 DEF names

\* Approver resolution names a user or fails.
LEMMA ResolveOK ==
  ASSUME TypeOK, NEW u \in Users, NEW resolution,
         resolution.type \in ResolutionTypes
  PROVE  resolve_approver_user_id(u, resolution) \in Users \cup {None}
<1>1. users \in [Users -> User]
  BY DirectoriesAssumption DEF TypeOK
<1>2. CASE resolution.type = "static"
  BY <1>2 DEF resolve_approver_user_id
<1>3. CASE resolution.type = "manager_of_requester"
  BY <1>1, <1>3 DEF resolve_approver_user_id, User
<1>4. CASE resolution.type = "role_in_department"
  <2>. DEFINE holders == {h \in Users :
                            /\ users[h].is_active
                            /\ users[h].role = resolution.role
                            /\ users[h].department = users[u].department}
              First(h) == \A other \in holders :
                            users[h].display_name <= users[other].display_name
  <2>1. holders # {} => \E h \in holders : First(h)
    BY LeastHolder
  <2>2. holders # {} => (CHOOSE h \in holders : First(h)) \in holders
    <3>. HIDE DEF holders, First
    <3>. QED
      BY <2>1
  <2>3. resolve_approver_user_id(u, resolution) =
          IF users[u].department = None \/ holders = {} THEN None
          ELSE CHOOSE h \in holders : First(h)
    BY <1>4 DEF resolve_approver_user_id
  <2>. QED
    BY <2>2, <2>3
<1>. QED
  BY <1>2, <1>3, <1>4 DEF ResolutionTypes

\* The graph of an instance is one of the workflow graphs.
LEMMA GraphOK ==
  ASSUME TypeOK, NEW i \in Instances, instances[i] # None
  PROVE  /\ instances[i] \in WorkflowInstance
         /\ IsGraph(Graph(i))
  BY DefinitionAssumption DEF TypeOK, Graph, WorkflowInstance

\* start_instance inserts the row its task then works on.
LEMMA StartInstanceTyped ==
  ASSUME TypeInv, NEW t \in Handlers, NEW i \in Instances,
         NEW d \in Definitions, NEW u \in Users, StartInstance(t, i, d, u)
  PROVE  TypeInv' /\ Persists
<1>. DEFINE r == engine_start(Definition[d].graph)
            row == [definition |-> d, requester |-> u, step |-> r.step,
                    answers |-> NoAnswers, status |-> "in_progress",
                    completed_at |-> FALSE]
<1>. USE DEF TypeInv
<1>1. /\ r.err = "none"
      /\ instances[i] = None
      /\ instances' = [instances EXCEPT ![i] = row]
      /\ tasks' = [tasks EXCEPT ![t] = ApplyOutcome(i, r, NoAnswers)]
      /\ UNCHANGED <<approvals, tickets, users, external, batch, faults,
                     resumes>>
  BY DEF StartInstance
<1>2. Rests(Definition[d].graph, r)
  BY EngineRests
<1>3. IsGraph(Definition[d].graph)
  BY DefinitionAssumption
<1>4. r.step \in StepIds
  BY <1>1, <1>2, <1>3 DEF Rests, IsGraph
<1>. HIDE DEF r
<1>5. NoAnswers \in Answers
  BY IdleOK DEF Task, Idle
<1>6. row \in WorkflowInstance /\ row # None
  <2>1. row \in WorkflowInstance
    BY <1>4, <1>5 DEF WorkflowInstance, InstanceStatus
  <2>. QED
    BY <2>1, NoneAssumption
<1>. HIDE DEF row
<1>7. instances' \in [Instances -> WorkflowInstance \cup {None}]
  BY <1>1, <1>6 DEF TypeOK
<1>8. instances'[i] # None /\ Graph(i)' = Definition[d].graph
  BY <1>1, <1>6 DEF TypeOK, Graph, row
<1>9. Persists
  BY <1>1, <1>6 DEF TypeOK, Persists
<1>. DEFINE k == ApplyOutcome(i, r, NoAnswers)
<1>10. /\ k \in Task
       /\ \/ k = Idle
          \/ k.pc \in Begins /\ k.instance = i /\ Suits(k, Definition[d].graph)
  BY <1>2, <1>3, <1>5, ApplyOutcomeOK
<1>. HIDE DEF k
<1>11. TypeOK'
  BY <1>1, <1>7, <1>10 DEF TypeOK, Tasks, k
<1>12. TasksOK'
  <2>1. tasks'[t] = k
    BY <1>1 DEF TypeOK, Tasks, k
  <2>2. TaskOK(tasks[t])'
    BY <1>8, <1>10, <2>1 DEF TaskOK, Idle, Applying, Dispatching, Begins
  <2>. QED
    BY <1>1, <1>9, <2>2, OneTaskMoves DEF TypeOK, Tasks
<1>13. Rooted'
  BY <1>1, <1>9 DEF Rooted, Persists, TypeOK, PendingApproval, Ticket
<1>. QED
  BY <1>9, <1>11, <1>12, <1>13

\* What apply_outcome does next for an instance that exists is well typed.
LEMMA AppliesTyped ==
  ASSUME TypeOK, NEW i \in Instances, instances[i] # None,
         NEW r, Rests(Graph(i), r), NEW answers \in Answers
  PROVE  /\ ApplyOutcome(i, r, answers) \in Task
         /\ TaskOK(ApplyOutcome(i, r, answers))
<1>. DEFINE k == ApplyOutcome(i, r, answers)
<1>1. /\ k \in Task
      /\ \/ k = Idle
         \/ k.pc \in Begins /\ k.instance = i /\ Suits(k, Graph(i))
  BY GraphOK, ApplyOutcomeOK
<1>. HIDE DEF k
<1>2. TaskOK(k)
  BY <1>1, IdleOK DEF TaskOK, Applying, Dispatching, Begins
<1>. QED
  BY <1>1, <1>2 DEF k

\* A step that leaves the tables alone and moves one task to well typed
\* locals keeps the invariant.
LEMMA OnlyTaskMoves ==
  ASSUME TypeInv, UNCHANGED tables, NEW t \in Tasks, NEW k, k \in Task, TaskOK(k),
         tasks' = [tasks EXCEPT ![t] = k]
  PROVE  /\ tasks' \in [Tasks -> Task]
         /\ TasksOK' /\ Rooted' /\ Persists
<1>1. tasks' \in [Tasks -> Task]
  BY DEF TypeInv, TypeOK
<1>2. Persists
  BY DEF tables, Persists
<1>3. tasks'[t] = k
  BY DEF TypeInv, TypeOK
<1>4. TaskOK(tasks[t])'
  BY <1>2, <1>3, TaskOKPersists
<1>5. TasksOK'
  BY <1>2, <1>4, OneTaskMoves DEF TypeInv, TypeOK
<1>6. Rooted'
  BY DEF TypeInv, Rooted, tables
<1>. QED
  BY <1>1, <1>2, <1>5, <1>6

\* submit_answer reads the row and runs the engine.
LEMMA SubmitAnswerTyped ==
  ASSUME TypeInv, NEW t \in Handlers, NEW i \in Instances,
         NEW field_key \in FieldKeys, NEW value \in Values,
         SubmitAnswer(t, i, field_key, value)
  PROVE  TypeInv' /\ Persists
<1>. DEFINE r == engine_submit_answer(Graph(i), instances[i].step,
                   instances[i].answers, field_key, value)
            answers == Insert(instances[i].answers, field_key, value)
            k == ApplyOutcome(i, r, answers)
<1>1. /\ instances[i] # None
      /\ tasks' = [tasks EXCEPT ![t] = k]
      /\ UNCHANGED <<tables, external, batch, faults, resumes>>
  BY DEF SubmitAnswer
<1>2. Rests(Graph(i), r)
  BY EngineRests
<1>3. answers \in Answers
  BY <1>1, GraphOK DEF TypeInv, WorkflowInstance, Insert, Answers
<1>4. k \in Task /\ TaskOK(k)
  BY <1>1, <1>2, <1>3, AppliesTyped DEF TypeInv
<1>. HIDE DEF k
<1>5. tasks' \in [Tasks -> Task] /\ TasksOK' /\ Rooted' /\ Persists
  BY <1>1, <1>4, OnlyTaskMoves DEF Tasks
<1>. QED
  BY <1>1, <1>5 DEF TypeInv, TypeOK, tables

\* The locals of a handler at work on an approval are well typed.
LEMMA DecidingOK ==
  ASSUME TypeOK, Rooted, NEW a \in Approvals, approvals[a] # None,
         NEW decision \in Decisions, NEW pc \in {"decide", "resume"}
  PROVE  /\ Deciding(pc, a, decision) \in Task
         /\ TaskOK(Deciding(pc, a, decision))
<1>. DEFINE k == Deciding(pc, a, decision)
<1>1. /\ k.pc = pc
      /\ k.instance = approvals[a].instance
      /\ k.approval = a
      /\ k.decision = decision
  BY DEF Deciding, Idle
<1>2. approvals[a].instance \in Instances
  BY DEF TypeOK, PendingApproval
<1>3. k \in Task
  <2>1. \A i \in Instances, at \in PCs, d \in Decisions :
          [Idle EXCEPT !.pc = at, !.instance = i, !.approval = a,
                       !.decision = d] \in Task
    BY IdleOK DEF Task
  <2>. QED
    BY <1>2, <2>1 DEF Deciding, PCs
<1>. HIDE DEF k
<1>4. TaskOK(k)
  BY <1>1, <1>2 DEF TaskOK, Rooted, Applying, Dispatching
<1>. QED
  BY <1>3, <1>4 DEF k

\* The approver's request and the poller's expiry write the approval row and
\* hold well typed locals afterwards.
LEMMA DecideTyped ==
  ASSUME TypeInv, NEW t \in Tasks, NEW a \in Approvals, approvals[a] # None,
         NEW decision \in Decisions, NEW status \in ApprovalStatus,
         decide(a, status), tasks' = [tasks EXCEPT ![t] = AfterDecide(a, decision)],
         UNCHANGED <<instances, tickets>>
  PROVE  /\ approvals' \in [Approvals -> PendingApproval \cup {None}]
         /\ tasks' \in [Tasks -> Task]
         /\ TasksOK' /\ Rooted' /\ Persists
<1>. DEFINE k == AfterDecide(a, decision)
<1>1. k \in Task /\ TaskOK(k)
  BY IdleOK, DecidingOK DEF AfterDecide, TypeInv
<1>. HIDE DEF k
<1>2. approvals[a] \in PendingApproval
  BY DEF TypeInv, TypeOK
<1>3. [approvals[a] EXCEPT !.status = status] \in PendingApproval
  BY <1>2 DEF PendingApproval
<1>4. approvals' \in [Approvals -> PendingApproval \cup {None}]
  BY <1>3 DEF decide, TypeInv, TypeOK
<1>5. Persists
  <2>1. \A b \in Approvals :
          \/ approvals'[b] = approvals[b]
          \/ b = a /\ approvals'[b] = [approvals[a] EXCEPT !.status = status]
    BY DEF decide, TypeInv, TypeOK
  <2>2. [approvals[a] EXCEPT !.status = status].instance = approvals[a].instance
    BY <1>2 DEF PendingApproval
  <2>. QED
    BY <1>3, <2>1, <2>2, NoneAssumption DEF Persists
<1>6. tasks' \in [Tasks -> Task]
  BY <1>1 DEF TypeInv, TypeOK, k
<1>7. tasks'[t] = k
  BY DEF TypeInv, TypeOK, k
<1>8. TaskOK(tasks[t])'
  BY <1>1, <1>5, <1>7, TaskOKPersists
<1>9. TasksOK'
  BY <1>5, <1>8, OneTaskMoves DEF TypeInv, TypeOK
<1>10. Rooted'
  <2>1. \A b \in Approvals :
          approvals'[b] # None =>
            approvals[b] # None /\ approvals'[b].instance = approvals[b].instance
    BY <1>5 DEF decide, Persists, TypeInv, TypeOK
  <2>. QED
    BY <2>1 DEF Rooted, TypeInv
<1>. QED
  BY <1>4, <1>5, <1>6, <1>9, <1>10

\* Both steps of an approver's decision.
LEMMA DecisionTyped ==
  ASSUME TypeInv, NEW t \in Tasks,
         \/ \E a \in Approvals, decision \in Decisions :
              DecideApproval(t, a, decision)
         \/ RecordDecision(t)
  PROVE  TypeInv' /\ Persists
<1>1. ASSUME NEW a \in Approvals, NEW decision \in Decisions,
             DecideApproval(t, a, decision)
      PROVE  TypeInv' /\ Persists
  <2>. DEFINE k == Deciding("decide", a, decision)
  <2>1. /\ tasks' = [tasks EXCEPT ![t] = k]
        /\ UNCHANGED <<tables, external, batch, faults, resumes>>
    BY <1>1 DEF DecideApproval
  <2>2. k \in Task /\ TaskOK(k)
    BY <1>1, DecidingOK DEF TypeInv, DecideApproval
  <2>. HIDE DEF k
  <2>3. tasks' \in [Tasks -> Task] /\ TasksOK' /\ Rooted' /\ Persists
    BY <2>1, <2>2, OnlyTaskMoves
  <2>. QED
    BY <2>1, <2>3 DEF TypeInv, TypeOK, tables
<1>2. CASE RecordDecision(t)
  <2>. DEFINE a == tasks[t].approval
              decision == tasks[t].decision
              status == IF decision = "approve" THEN "approved" ELSE "rejected"
  <2>1. /\ tasks[t].pc = "decide"
        /\ decide(a, status)
        /\ tasks' = [tasks EXCEPT ![t] = AfterDecide(a, decision)]
        /\ UNCHANGED <<instances, tickets, users, external, batch, faults,
                       resumes>>
    BY <1>2 DEF RecordDecision
  <2>2. a \in Approvals /\ approvals[a] # None /\ decision \in Decisions
    BY <2>1 DEF TypeInv, TasksOK, TaskOK
  <2>3. status \in ApprovalStatus
    BY DEF ApprovalStatus
  <2>. HIDE DEF a, decision, status
  <2>4. /\ approvals' \in [Approvals -> PendingApproval \cup {None}]
        /\ tasks' \in [Tasks -> Task]
        /\ TasksOK' /\ Rooted' /\ Persists
    BY <2>1, <2>2, <2>3, DecideTyped
  <2>. QED
    BY <2>1, <2>4 DEF TypeInv, TypeOK
<1>. QED
  BY <1>1, <1>2

\* resume_after_approval runs the engine on the row as it is.
LEMMA ResumeTyped ==
  ASSUME TypeInv, NEW t \in Tasks, ResumeAfterApproval(t)
  PROVE  TypeInv' /\ Persists
<1>. DEFINE a == tasks[t].approval
            i == tasks[t].instance
            r == engine_resume_after_approval(Graph(i), approvals[a].step,
                   instances[i].answers, tasks[t].decision)
            k == ApplyOutcome(i, r, instances[i].answers)
<1>1. /\ tasks[t].pc = "resume"
      /\ tasks' = [tasks EXCEPT ![t] = k]
      /\ resumes' = [resumes EXCEPT ![a] = @ + 1]
      /\ UNCHANGED <<tables, external, batch, faults>>
  BY DEF ResumeAfterApproval
<1>2. a \in Approvals /\ i \in Instances /\ instances[i] # None
  BY <1>1 DEF TypeInv, TasksOK, TaskOK
<1>3. Rests(Graph(i), r)
  BY EngineRests
<1>4. instances[i].answers \in Answers
  BY <1>2, GraphOK DEF TypeInv, WorkflowInstance
<1>. HIDE DEF r
<1>5. k \in Task /\ TaskOK(k)
  BY <1>2, <1>3, <1>4, AppliesTyped DEF TypeInv
<1>. HIDE DEF k
<1>6. tasks' \in [Tasks -> Task] /\ TasksOK' /\ Rooted' /\ Persists
  BY <1>1, <1>5, OnlyTaskMoves
<1>7. resumes' \in [Approvals -> Nat]
  BY <1>1, <1>2 DEF TypeInv, TypeOK
<1>. QED
  BY <1>1, <1>6, <1>7 DEF TypeInv, TypeOK, tables

\* create_for_instance inserts a pending row for the task's instance.
LEMMA CreateApprovalTyped ==
  ASSUME TypeInv, NEW t \in Tasks, NEW a \in Approvals, CreateApproval(t, a)
  PROVE  /\ TypeInv' /\ Persists
         /\ approvals'[a] # None
         /\ approvals'[a].instance = tasks[t].instance
         /\ approvals'[a].step = tasks[t].step
<1>. DEFINE i == tasks[t].instance
            step == Graph(i).steps[tasks[t].step]
            approver == resolve_approver_user_id(instances[i].requester,
                          step.approver_resolution)
            row == [instance |-> i, step |-> tasks[t].step,
                    approver |-> approver, status |-> "pending",
                    expires_at |-> IF step.has_timeout THEN "later" ELSE "never"]
            k == [tasks[t] EXCEPT !.pc = "save"]
<1>1. /\ tasks[t].pc = "create_approval"
      /\ approver # None
      /\ approvals[a] = None
      /\ approvals' = [approvals EXCEPT ![a] = row]
      /\ tasks' = [tasks EXCEPT ![t] = k]
      /\ UNCHANGED <<instances, tickets, users, external, batch, faults,
                     resumes>>
  BY DEF CreateApproval
<1>2. /\ i \in Instances /\ instances[i] # None
      /\ Suits(tasks[t], Graph(i))
      /\ tasks[t] \in Task
  BY <1>1 DEF TypeInv, TypeOK, TasksOK, TaskOK, Applying
<1>3. /\ step.kind = "wait_for_approval"
      /\ tasks[t].status = "awaiting_approval"
      /\ tasks[t].step \in DOMAIN Graph(i).steps
  BY <1>1, <1>2 DEF Suits
<1>4. /\ tasks[t].step \in StepIds
      /\ step.approver_resolution.type \in ResolutionTypes
  BY <1>2, <1>3, GraphOK DEF TypeInv, IsGraph
<1>5. approver \in Users
  <2>1. instances[i].requester \in Users
    BY <1>2, GraphOK DEF TypeInv, WorkflowInstance
  <2>. QED
    BY <1>1, <1>4, <2>1, ResolveOK DEF TypeInv
<1>. HIDE DEF approver
<1>6. row \in PendingApproval
  BY <1>2, <1>4, <1>5 DEF PendingApproval, ApprovalStatus
<1>7. row # None /\ row.instance = i /\ row.step = tasks[t].step
  BY <1>6, NoneAssumption
<1>. HIDE DEF row
<1>8. approvals' \in [Approvals -> PendingApproval \cup {None}]
  BY <1>1, <1>6 DEF TypeInv, TypeOK
<1>9. Persists
  BY <1>1, <1>7 DEF TypeInv, TypeOK, Persists
<1>10. k \in Task /\ TaskOK(k)
  <2>1. /\ k \in Task
        /\ k.pc = "save" /\ k.instance = i /\ k.step = tasks[t].step
        /\ k.status = "awaiting_approval"
    BY <1>2, <1>3 DEF Task, PCs
  <2>2. Fits(step, "awaiting_approval")
    BY <1>3 DEF Fits, InstanceStatus, EndOutcomes
  <2>. HIDE DEF k
  <2>. QED
    BY <1>2, <1>3, <2>1, <2>2 DEF TaskOK, Suits, Applying, Dispatching
<1>. HIDE DEF k
<1>11. tasks' \in [Tasks -> Task] /\ tasks'[t] = k
  BY <1>1, <1>10 DEF TypeInv, TypeOK
<1>12. TasksOK'
  <2>1. TaskOK(tasks[t])'
    BY <1>9, <1>10, <1>11, TaskOKPersists
  <2>. QED
    BY <1>1, <1>9, <2>1, OneTaskMoves DEF TypeInv, TypeOK
<1>13. Rooted'
  BY <1>1, <1>2, <1>7 DEF TypeInv, TypeOK, Rooted
<1>. QED
  BY <1>1, <1>7, <1>8, <1>9, <1>11, <1>12, <1>13 DEF TypeInv, TypeOK

\* An error of dispatch_ticket makes the task save the status failed.
LEMMA GiveUpOK ==
  ASSUME TypeInv, NEW t \in Tasks, tasks[t].pc \in Dispatching
  PROVE  GiveUp(tasks[t]) \in Task /\ TaskOK(GiveUp(tasks[t]))
<1>. DEFINE k == GiveUp(tasks[t])
            i == tasks[t].instance
<1>1. /\ i \in Instances /\ instances[i] # None
      /\ tasks[t].step \in DOMAIN Graph(i).steps
      /\ Graph(i).steps[tasks[t].step].kind = "submit_ticket"
      /\ tasks[t] \in Task
  BY DEF TypeInv, TypeOK, TasksOK, TaskOK, Applying, Dispatching, Suits
<1>2. /\ k \in Task
      /\ k.pc = "save" /\ k.instance = i /\ k.step = tasks[t].step
      /\ k.status = "failed"
  BY <1>1 DEF GiveUp, Task, PCs, InstanceStatus
<1>3. Fits(Graph(i).steps[tasks[t].step], "failed")
  BY <1>1 DEF Fits, InstanceStatus, EndOutcomes
<1>. HIDE DEF k
<1>4. TaskOK(k)
  BY <1>1, <1>2, <1>3 DEF TaskOK, Suits, Applying, Dispatching
<1>. QED
  BY <1>2, <1>4 DEF k

\* Steps that change nothing but the task.
LEMMA TaskOnlyTyped ==
  ASSUME TypeInv, NEW t \in Tasks,
         \/ ResolutionFails(t)
         \/ CannotDispatch(t)
         \/ \E created, reported \in BOOLEAN : Dispatch(t, created, reported)
         \/ TaskLost(t)
  PROVE  TypeInv' /\ Persists
<1>1. CASE ResolutionFails(t)
  <2>1. tasks' \in [Tasks -> Task] /\ TasksOK' /\ Rooted' /\ Persists
    BY <1>1, IdleOK, OnlyTaskMoves DEF ResolutionFails, tables
  <2>. QED
    BY <1>1, <2>1 DEF ResolutionFails, TypeInv, TypeOK, tables
<1>2. CASE CannotDispatch(t)
  <2>1. tasks' = [tasks EXCEPT ![t] = GiveUp(tasks[t])]
    BY <1>2 DEF CannotDispatch, TypeInv, TypeOK
  <2>2. tasks[t].pc \in Dispatching /\ UNCHANGED <<tables, external, batch, faults, resumes>>
    BY <1>2 DEF CannotDispatch, Dispatching
  <2>3. tasks' \in [Tasks -> Task] /\ TasksOK' /\ Rooted' /\ Persists
    BY <2>1, <2>2, GiveUpOK, OnlyTaskMoves
  <2>. QED
    BY <2>2, <2>3 DEF TypeInv, TypeOK, tables
<1>3. ASSUME NEW created \in BOOLEAN, NEW reported \in BOOLEAN,
             Dispatch(t, created, reported)
      PROVE  TypeInv' /\ Persists
  <2>. DEFINE pc == IF reported THEN "mark_sent" ELSE "mark_failed"
              k == [tasks[t] EXCEPT !.pc = pc]
  <2>1. /\ tasks[t].pc = "dispatch"
        /\ tasks' = [tasks EXCEPT ![t] = k]
        /\ external' \in {external, external \cup {tasks[t].ticket}}
        /\ UNCHANGED <<tables, batch, faults, resumes>>
    BY <1>3 DEF Dispatch
  <2>2. tasks[t] \in Task /\ TaskOK(tasks[t])
    BY DEF TypeInv, TypeOK, TasksOK
  <2>3. /\ k \in Task
        /\ k.pc = pc /\ k.instance = tasks[t].instance
        /\ k.step = tasks[t].step /\ k.ticket = tasks[t].ticket
    BY <2>2 DEF Task, PCs
  <2>. HIDE DEF k
  <2>4. TaskOK(k)
    BY <2>1, <2>2, <2>3 DEF TaskOK, Suits, Applying, Dispatching
  <2>5. tasks[t].ticket \in Tickets
    BY <2>1, <2>2 DEF TaskOK, Dispatching
  <2>6. tasks' \in [Tasks -> Task] /\ TasksOK' /\ Rooted' /\ Persists
    BY <2>1, <2>3, <2>4, OnlyTaskMoves
  <2>. QED
    BY <2>1, <2>5, <2>6 DEF TypeInv, TypeOK, tables
<1>4. CASE TaskLost(t)
  <2>1. tasks' \in [Tasks -> Task] /\ TasksOK' /\ Rooted' /\ Persists
    BY <1>4, IdleOK, OnlyTaskMoves DEF TaskLost, tables
  <2>2. faults' \in 0 .. MaxFaults
    BY <1>4, MaxFaultsAssumption DEF TaskLost, Fault, TypeInv, TypeOK
  <2>. QED
    BY <1>4, <2>1, <2>2 DEF TaskLost, TypeInv, TypeOK, tables
<1>. QED
  BY <1>1, <1>2, <1>3, <1>4

\* tickets::create inserts a row of the task's instance.
LEMMA InsertTicketOK ==
  ASSUME TypeInv, NEW t \in Tasks, NEW k \in Tickets, InsertTicket(t, k),
         UNCHANGED <<instances, approvals>>
  PROVE  /\ tickets' \in [Tickets -> Ticket \cup {None}]
         /\ tickets'[k] # None /\ tickets'[k].instance = tasks[t].instance
         /\ Persists /\ Rooted'
<1>. DEFINE i == tasks[t].instance
            d == instances[i].definition
            row == [instance |-> i, payload |-> Render(d, tasks[t].answers),
                    status |-> "pending"]
<1>1. /\ tasks[t].pc = "create_ticket"
      /\ tickets[k] = None
      /\ tickets' = [tickets EXCEPT ![k] = row]
  BY DEF InsertTicket
<1>2. /\ i \in Instances /\ instances[i] # None
      /\ tasks[t] \in Task
  BY <1>1 DEF TypeInv, TypeOK, TasksOK, TaskOK
<1>3. Render(d, tasks[t].answers) \in Answers
  BY <1>2 DEF Render, Answers, Task
<1>4. row \in Ticket
  BY <1>2, <1>3 DEF Ticket, DispatchStatus
<1>5. row # None /\ row.instance = i
  BY <1>4, NoneAssumption
<1>. HIDE DEF row
<1>6. Persists
  BY <1>1, <1>5 DEF TypeInv, TypeOK, Persists
<1>7. Rooted'
  BY <1>1, <1>2, <1>5 DEF TypeInv, TypeOK, Rooted
<1>. QED
  BY <1>1, <1>4, <1>5, <1>6, <1>7 DEF TypeInv, TypeOK

\* mark_sent and mark_failed change the status of the task's own row.
LEMMA MarkOK ==
  ASSUME TypeInv, NEW t \in Tasks, tasks[t].pc \in {"mark_sent", "mark_failed"},
         NEW status \in DispatchStatus, tickets' = mark(tasks[t].ticket, status),
         UNCHANGED <<instances, approvals>>
  PROVE  /\ tickets' \in [Tickets -> Ticket \cup {None}]
         /\ Persists /\ Rooted'
<1>. DEFINE k == tasks[t].ticket
            row == [tickets[k] EXCEPT !.status = status]
<1>1. k \in Tickets /\ tickets[k] # None
  BY DEF TypeInv, TasksOK, TaskOK, Dispatching
<1>2. tickets[k] \in Ticket
  BY <1>1 DEF TypeInv, TypeOK
<1>3. row \in Ticket /\ row.instance = tickets[k].instance
  BY <1>2 DEF Ticket
<1>4. row # None
  BY <1>3, NoneAssumption
<1>5. tickets' = [tickets EXCEPT ![k] = row]
  BY DEF mark
<1>. HIDE DEF row, k
<1>6. Persists
  BY <1>1, <1>3, <1>4, <1>5 DEF TypeInv, TypeOK, Persists
<1>7. Rooted'
  BY <1>1, <1>3, <1>4, <1>5 DEF TypeInv, TypeOK, Rooted
<1>. QED
  BY <1>1, <1>3, <1>5, <1>6, <1>7 DEF TypeInv, TypeOK

\* The steps that write the tickets table.
LEMMA TicketStepsTyped ==
  ASSUME TypeInv, NEW t \in Tasks,
         \/ \E k \in Tickets : CreateTicket(t, k)
         \/ MarkSent(t)
         \/ MarkFailed(t)
         \/ DispatchStatementFails(t)
  PROVE  TypeInv' /\ Persists
<1>0. tasks[t] \in Task /\ TaskOK(tasks[t]) /\ tasks \in [Tasks -> Task]
  BY DEF TypeInv, TypeOK, TasksOK
<1>1. ASSUME NEW k \in Tickets, CreateTicket(t, k)
      PROVE  TypeInv' /\ Persists
  <2>. DEFINE m == [tasks[t] EXCEPT !.pc = "dispatch", !.ticket = k]
  <2>1. /\ tasks[t].pc = "create_ticket"
        /\ tasks' = [tasks EXCEPT ![t] = m]
        /\ UNCHANGED <<instances, approvals, users, external, batch, faults,
                       resumes>>
    BY <1>1 DEF CreateTicket, InsertTicket
  <2>2. /\ tickets' \in [Tickets -> Ticket \cup {None}]
        /\ tickets'[k] # None /\ tickets'[k].instance = tasks[t].instance
        /\ Persists /\ Rooted'
    BY <1>1, <2>1, InsertTicketOK DEF CreateTicket
  <2>3. /\ m \in Task
        /\ m.pc = "dispatch" /\ m.instance = tasks[t].instance
        /\ m.step = tasks[t].step /\ m.ticket = k
    BY <1>0 DEF Task, PCs
  <2>. HIDE DEF m
  <2>4. tasks' \in [Tasks -> Task] /\ tasks'[t] = m
    BY <1>0, <2>1, <2>3
  <2>5. TaskOK(tasks[t])'
    BY <1>0, <2>1, <2>2, <2>3, <2>4
    DEF TaskOK, Suits, Applying, Dispatching, Graph
  <2>6. TasksOK'
    BY <1>0, <2>1, <2>2, <2>5, OneTaskMoves DEF TypeInv
  <2>. QED
    BY <2>1, <2>2, <2>4, <2>6 DEF TypeInv, TypeOK
<1>2. ASSUME MarkSent(t)
      PROVE  TypeInv' /\ Persists
  <2>. DEFINE i == tasks[t].instance
              r == engine_resume_after_ticket_dispatch(Graph(i),
                     tasks[t].step, tasks[t].answers)
              m == ApplyOutcome(i, r, tasks[t].answers)
  <2>1. /\ tasks[t].pc = "mark_sent"
        /\ tickets' = mark(tasks[t].ticket, "sent")
        /\ tasks' = [tasks EXCEPT ![t] = m]
        /\ UNCHANGED <<instances, approvals, users, external, batch, faults,
                       resumes>>
    BY <1>2 DEF MarkSent
  <2>2. tickets' \in [Tickets -> Ticket \cup {None}] /\ Persists /\ Rooted'
    BY <2>1, MarkOK DEF DispatchStatus
  <2>3. Rests(Graph(i), r)
    BY EngineRests
  <2>4. i \in Instances /\ instances[i] # None /\ tasks[t].answers \in Answers
    BY <1>0, <2>1 DEF TaskOK, Task
  <2>. HIDE DEF r
  <2>5. m \in Task /\ TaskOK(m)
    BY <2>3, <2>4, AppliesTyped DEF TypeInv
  <2>. HIDE DEF m
  <2>6. tasks' \in [Tasks -> Task] /\ tasks'[t] = m
    BY <1>0, <2>1, <2>5
  <2>7. TaskOK(tasks[t])'
    BY <2>2, <2>5, <2>6, TaskOKPersists
  <2>8. TasksOK'
    BY <1>0, <2>1, <2>2, <2>7, OneTaskMoves DEF TypeInv
  <2>. QED
    BY <2>1, <2>2, <2>6, <2>8 DEF TypeInv, TypeOK
<1>3. ASSUME MarkFailed(t) \/ DispatchStatementFails(t)
      PROVE  TypeInv' /\ Persists
  <2>. DEFINE m == GiveUp(tasks[t])
  <2>1. /\ tasks[t].pc \in Dispatching
        /\ tasks' = [tasks EXCEPT ![t] = m]
        /\ UNCHANGED <<instances, approvals, users, external, batch, resumes>>
    BY <1>0, <1>3 DEF MarkFailed, DispatchStatementFails, Dispatching
  <2>2. m \in Task /\ TaskOK(m)
    BY <2>1, GiveUpOK
  <2>. HIDE DEF m
  <2>3. faults' \in 0 .. MaxFaults
    BY <1>3, MaxFaultsAssumption
    DEF MarkFailed, DispatchStatementFails, Fault, TypeInv, TypeOK
  <2>4. tickets' \in [Tickets -> Ticket \cup {None}] /\ Persists /\ Rooted'
    <3>1. \/ tickets' = tickets
          \/ \E k \in Tickets : InsertTicket(t, k)
          \/ tasks[t].pc = "mark_sent" /\ tickets' = mark(tasks[t].ticket, "sent")
          \/ tasks[t].pc = "mark_failed" /\ tickets' = mark(tasks[t].ticket, "failed")
      BY <1>3 DEF MarkFailed, DispatchStatementFails
    <3>2. CASE tickets' = tickets
      BY <2>1, <3>2 DEF TypeInv, TypeOK, Persists, Rooted
    <3>3. CASE \E k \in Tickets : InsertTicket(t, k)
      BY <2>1, <3>3, InsertTicketOK
    <3>4. CASE tasks[t].pc = "mark_sent" /\ tickets' = mark(tasks[t].ticket, "sent")
      BY <2>1, <3>4, MarkOK DEF DispatchStatus
    <3>5. CASE tasks[t].pc = "mark_failed" /\ tickets' = mark(tasks[t].ticket, "failed")
      BY <2>1, <3>5, MarkOK DEF DispatchStatus
    <3>. QED
      BY <3>1, <3>2, <3>3, <3>4, <3>5
  <2>5. tasks' \in [Tasks -> Task] /\ tasks'[t] = m
    BY <1>0, <2>1, <2>2
  <2>6. TaskOK(tasks[t])'
    BY <2>2, <2>4, <2>5, TaskOKPersists
  <2>7. TasksOK'
    BY <1>0, <2>1, <2>4, <2>6, OneTaskMoves DEF TypeInv
  <2>. QED
    BY <2>1, <2>3, <2>4, <2>5, <2>7 DEF TypeInv, TypeOK
<1>. QED
  BY <1>1, <1>2, <1>3

\* save_progress writes the step, the answers and the status of the task.
LEMMA SaveProgressTyped ==
  ASSUME TypeInv, NEW t \in Tasks, SaveProgress(t)
  PROVE  TypeInv' /\ Persists
<1>. DEFINE i == tasks[t].instance
            row == Progress(instances[i], tasks[t])
<1>1. /\ tasks[t].pc = "save"
      /\ tasks' = [tasks EXCEPT ![t] = Idle]
      /\ UNCHANGED <<approvals, tickets, users, external, batch, faults, resumes>>
  BY DEF SaveProgress
<1>2. /\ i \in Instances /\ instances[i] # None
      /\ tasks[t] \in Task /\ Suits(tasks[t], Graph(i))
  BY <1>1 DEF TypeInv, TypeOK, TasksOK, TaskOK, Applying
<1>3. /\ tasks[t].step \in StepIds
      /\ tasks[t].answers \in Answers
      /\ tasks[t].status \in InstanceStatus
  BY <1>1, <1>2, GraphOK DEF TypeInv, Suits, Fits, IsGraph, Task
<1>4. instances[i] \in WorkflowInstance
  BY <1>2, GraphOK DEF TypeInv
<1>5. row \in WorkflowInstance /\ row.definition = instances[i].definition
  BY <1>3, <1>4 DEF Progress, WorkflowInstance
<1>6. row # None
  BY <1>5, NoneAssumption
<1>7. instances' = [instances EXCEPT ![i] = row]
  BY <1>2 DEF SaveProgress, TypeInv, TypeOK
<1>. HIDE DEF row
<1>8. instances' \in [Instances -> WorkflowInstance \cup {None}]
  BY <1>2, <1>5, <1>7 DEF TypeInv, TypeOK
<1>9. Persists
  BY <1>1, <1>2, <1>5, <1>6, <1>7 DEF TypeInv, TypeOK, Persists
<1>10. tasks' \in [Tasks -> Task] /\ tasks'[t] = Idle
  BY <1>1, IdleOK DEF TypeInv, TypeOK
<1>11. TasksOK'
  <2>1. TaskOK(tasks[t])'
    BY <1>9, <1>10, IdleOK, TaskOKPersists
  <2>. QED
    BY <1>1, <1>9, <2>1, OneTaskMoves DEF TypeInv, TypeOK
<1>12. Rooted'
  BY <1>1, <1>9 DEF Rooted, Persists, TypeInv, TypeOK, PendingApproval, Ticket
<1>. QED
  BY <1>1, <1>8, <1>9, <1>10, <1>11, <1>12 DEF TypeInv, TypeOK

\* The poller, the clock, edits of users, an aborted poll and a restart.
LEMMA BackgroundTyped ==
  ASSUME TypeInv, Listed,
         \/ Poll
         \/ \E a \in Approvals : TimePasses(a)
         \/ EditUsers
         \/ PollAborts
         \/ Restart
  PROVE  TypeInv' /\ Persists
<1>1. ASSUME PollList \/ EditUsers \/ PollAborts
      PROVE  TypeInv' /\ Persists
  <2>1. UNCHANGED <<instances, approvals, tickets, tasks>>
    BY <1>1 DEF PollList, EditUsers, PollAborts, tables
  <2>2. Persists
    BY <2>1 DEF Persists
  <2>3. TasksOK' /\ Rooted'
    BY <2>1 DEF TypeInv, TasksOK, TaskOK, Graph, Rooted
  <2>4. batch' \in SUBSET Approvals /\ faults' \in 0 .. MaxFaults
    BY <1>1, MaxFaultsAssumption
    DEF PollList, EditUsers, PollAborts, list_expired, Fault, TypeInv, TypeOK
  <2>. QED
    BY <1>1, <2>1, <2>2, <2>3, <2>4
    DEF PollList, EditUsers, PollAborts, TypeInv, TypeOK, tables
<1>2. ASSUME NEW a \in Approvals, PollExpire(a)
      PROVE  TypeInv' /\ Persists
  <2>1. /\ a \in batch /\ batch' = batch \ {a}
        /\ decide(a, "expired")
        /\ tasks' = [tasks EXCEPT ![Poller] = AfterDecide(a, "reject")]
        /\ UNCHANGED <<instances, tickets, users, external, faults, resumes>>
    BY <1>2 DEF PollExpire
  <2>2. approvals[a] # None
    BY <2>1 DEF Listed
  <2>3. /\ approvals' \in [Approvals -> PendingApproval \cup {None}]
        /\ tasks' \in [Tasks -> Task]
        /\ TasksOK' /\ Rooted' /\ Persists
    BY <2>1, <2>2, DecideTyped DEF Tasks, Decisions, ApprovalStatus
  <2>. QED
    BY <2>1, <2>3 DEF TypeInv, TypeOK
<1>3. ASSUME NEW a \in Approvals, TimePasses(a)
      PROVE  TypeInv' /\ Persists
  <2>. DEFINE row == [approvals[a] EXCEPT !.expires_at = "past"]
  <2>1. /\ approvals[a] # None
        /\ approvals' = [approvals EXCEPT ![a] = row]
        /\ UNCHANGED <<instances, tickets, users, external, tasks, batch,
                       faults, resumes>>
    BY <1>3 DEF TimePasses
  <2>2. row \in PendingApproval /\ row.instance = approvals[a].instance
    BY <2>1 DEF TypeInv, TypeOK, PendingApproval
  <2>3. row # None
    BY <2>2, NoneAssumption
  <2>. HIDE DEF row
  <2>4. approvals' \in [Approvals -> PendingApproval \cup {None}]
    BY <2>1, <2>2 DEF TypeInv, TypeOK
  <2>5. Persists
    BY <2>1, <2>2, <2>3 DEF TypeInv, TypeOK, Persists
  <2>6. TasksOK'
    <3>. SUFFICES ASSUME NEW t \in Tasks PROVE TaskOK(tasks[t])'
      BY DEF TasksOK
    <3>. QED
      BY <2>1, <2>5, TaskOKPersists DEF TypeInv, TasksOK
  <2>7. Rooted'
    BY <2>1, <2>2 DEF TypeInv, TypeOK, Rooted
  <2>. QED
    BY <2>1, <2>4, <2>5, <2>6, <2>7 DEF TypeInv, TypeOK
<1>4. ASSUME Restart
      PROVE  TypeInv' /\ Persists
  <2>1. /\ tasks' = [t \in Tasks |-> Idle]
        /\ UNCHANGED <<instances, approvals, tickets, users, external, resumes>>
    BY <1>4 DEF Restart, tables
  <2>2. Persists
    BY <2>1 DEF Persists
  <2>3. TasksOK'
    <3>. SUFFICES ASSUME NEW t \in Tasks PROVE TaskOK(tasks[t])'
      BY DEF TasksOK
    <3>. QED
      BY <2>1, <2>2, IdleOK, TaskOKPersists
  <2>4. Rooted'
    BY <2>1 DEF TypeInv, Rooted
  <2>5. tasks' \in [Tasks -> Task]
    BY <2>1, IdleOK
  <2>6. batch' = {} /\ faults' \in 0 .. MaxFaults
    BY <1>4, MaxFaultsAssumption DEF Restart, Fault, TypeInv, TypeOK
  <2>. QED
    BY <2>1, <2>2, <2>3, <2>4, <2>5, <2>6 DEF TypeInv, TypeOK
<1>. QED
  BY <1>1, <1>2, <1>3, <1>4 DEF Poll

\* No step of a task and no request touches the poller's batch.
LEMMA BatchKept ==
  ASSUME NEW t \in Tasks,
         TaskStep(t) \/ NewRequest(t) \/ TaskLost(t) \/ DispatchStatementFails(t)
  PROVE  batch' = batch
  BY DEF TaskStep, NewRequest, TaskLost, DispatchStatementFails,
     RecordDecision, ResumeAfterApproval, CreateApproval, ResolutionFails,
     CannotDispatch, CreateTicket, Dispatch, MarkSent, MarkFailed, SaveProgress,
     StartInstance, SubmitAnswer, DecideApproval

\* Every step keeps the invariant, and no row is ever taken back.
LEMMA TypeInvStep ==
  ASSUME TypeInv, Listed, [Next]_vars
  PROVE  TypeInv' /\ Listed' /\ Persists
<1>1. ASSUME NEW t \in Handlers, NewRequest(t)
      PROVE  TypeInv' /\ Persists /\ batch' = batch
  BY <1>1, StartInstanceTyped, SubmitAnswerTyped, DecisionTyped, BatchKept
  DEF NewRequest, Tasks
<1>2. ASSUME NEW t \in Tasks, TaskStep(t)
      PROVE  TypeInv' /\ Persists /\ batch' = batch
  BY <1>2, DecisionTyped, ResumeTyped, CreateApprovalTyped, TaskOnlyTyped,
     TicketStepsTyped, SaveProgressTyped, BatchKept
  DEF TaskStep
<1>3. ASSUME NEW t \in Tasks, TaskLost(t) \/ DispatchStatementFails(t)
      PROVE  TypeInv' /\ Persists /\ batch' = batch
  BY <1>3, TaskOnlyTyped, TicketStepsTyped, BatchKept
<1>4. ASSUME Poll \/ (\E a \in Approvals : TimePasses(a)) \/ EditUsers
             \/ PollAborts \/ Restart
      PROVE  TypeInv' /\ Persists /\ (batch' \subseteq batch \/ batch' = list_expired)
  <2>1. TypeInv' /\ Persists
    BY <1>4, BackgroundTyped
  <2>2. batch' \subseteq batch \/ batch' = list_expired
    BY <1>4 DEF Poll, PollList, PollExpire, TimePasses, EditUsers, PollAborts,
       Restart
  <2>. QED
    BY <2>1, <2>2
<1>5. ASSUME UNCHANGED vars
      PROVE  TypeInv' /\ Persists /\ batch' = batch
  <2>1. TypeOK' /\ Rooted' /\ Persists /\ batch' = batch
    BY <1>5 DEF vars, TypeInv, TypeOK, Rooted, Persists
  <2>2. TasksOK'
    BY <1>5 DEF vars, TypeInv, TasksOK, TaskOK, Graph
  <2>. QED
    BY <2>1, <2>2 DEF TypeInv
<1>6. TypeInv' /\ Persists /\ (batch' \subseteq batch \/ batch' = list_expired)
  BY <1>1, <1>2, <1>3, <1>4, <1>5 DEF Next, Failure
<1>7. Listed'
  BY <1>6 DEF Listed, Persists, list_expired, TypeInv, TypeOK
<1>. QED
  BY <1>6, <1>7

\* The invariant holds initially.
LEMMA TypeInvInit ==
  ASSUME Init
  PROVE  TypeInv /\ Listed
<1>1. TypeOK
  BY IdleOK, MaxFaultsAssumption DEF Init, TypeOK
<1>2. TasksOK
  <2>. SUFFICES ASSUME NEW t \in Tasks PROVE TaskOK(tasks[t])
    BY DEF TasksOK
  <2>. QED
    BY IdleOK DEF Init
<1>3. Rooted /\ Listed
  BY DEF Init, Rooted, Listed
<1>. QED
  BY <1>1, <1>2, <1>3 DEF TypeInv

\* The inductive invariant holds in every run, and in every step rows persist.
LEMMA TypeInvariant == Spec => [](TypeInv /\ Listed) /\ [][Persists]_vars
<1>. DEFINE Inv == TypeInv /\ Listed
<1>1. Init => Inv
  BY TypeInvInit
<1>2. Inv /\ [Next]_vars => Inv' /\ [Persists]_vars
  BY TypeInvStep
<1>. QED
  BY <1>1, <1>2, PTL DEF Spec

\* TypeOK is an invariant of every run of the server: whatever handlers are
\* interleaved, lost or restarted, the tables hold well formed rows, and each
\* statement finds in its handler's locals the ids, the step and the status
\* it needs.
THEOREM TypeCorrect == Spec => [](TypeOK /\ TasksOK)
<1>1. TypeInv => TypeOK /\ TasksOK
  BY DEF TypeInv
<1>. QED
  BY <1>1, TypeInvariant, PTL

----------------------------------------------------------------------------
(***************************************************************************)
(* Of everyone who tries to decide an approval - the approver, a duplicate *)
(* of the request, the expiry poller - exactly one takes effect, and it    *)
(* resumes the instance at most once along the branch on record.  Proved   *)
(* for every interleaving, loss of handlers and restart.                   *)
(***************************************************************************)

Resuming(t, a) == tasks[t].pc = "resume" /\ tasks[t].approval = a

\* The inductive invariant.  The right to resume is held by one task at most:
\* whoever flipped the row and has not used it yet.
ResumeInv ==
  /\ \A a \in Approvals :
       /\ resumes[a] <= 1
       /\ approvals[a] = None \/ approvals[a].status = "pending"
            => resumes[a] = 0
  /\ \A a \in Approvals, t \in Tasks : Resuming(t, a) =>
       /\ resumes[a] = 0
       /\ approvals[a] # None
       /\ approvals[a].status # "pending"
       /\ tasks[t].decision = "approve" <=> approvals[a].status = "approved"
       /\ \A u \in Tasks : Resuming(u, a) => u = t

----------------------------------------------------------------------------
(* The steps as ResumeInv sees them.                                       *)

\* The row of a is as before, as far as its status goes.
SameStatus(a) ==
  /\ approvals[a] = None => approvals'[a] = None
  /\ approvals[a] # None => /\ approvals'[a] # None
                            /\ approvals'[a].status = approvals[a].status

\* A step that decides nothing and resumes nothing: it may insert a pending
\* row, and no task comes to hold the right to resume.
Quiet ==
  /\ \/ \A a \in Approvals : SameStatus(a)
     \/ \E a \in Approvals :
          /\ approvals[a] = None
          /\ approvals'[a] = None \/ approvals'[a].status = "pending"
          /\ \A b \in Approvals \ {a} : SameStatus(b)
  /\ resumes' = resumes
  /\ \A t \in Tasks : tasks'[t].pc = "resume" => tasks'[t] = tasks[t]

\* A task flips the row of a and takes the right to resume.
Flips(t, a, decision, status) ==
  /\ approvals[a] # None /\ approvals[a].status = "pending"
  /\ approvals' = [approvals EXCEPT ![a].status = status]
  /\ status \in {"approved", "rejected", "expired"}
  /\ decision = "approve" <=> status = "approved"
  /\ tasks'[t].approval = a /\ tasks'[t].decision = decision
  /\ \A u \in Tasks \ {t} : tasks'[u] = tasks[u]
  /\ resumes' = resumes

\* A task uses the right it holds.
Uses(t, a) ==
  /\ Resuming(t, a)
  /\ approvals' = approvals
  /\ tasks'[t].pc # "resume"
  /\ \A u \in Tasks \ {t} : tasks'[u] = tasks[u]
  /\ resumes' = [resumes EXCEPT ![a] = @ + 1]

\* apply_outcome never leaves a task at work on an approval.
LEMMA ApplyOutcomePC ==
  ASSUME NEW i, NEW r, NEW answers
  PROVE  ApplyOutcome(i, r, answers).pc # "resume"
  BY DEF ApplyOutcome, Idle

\* Requests decide nothing: the row is only read.
LEMMA NewRequestQuiet ==
  ASSUME TypeInv, NEW t \in Tasks, NewRequest(t)
  PROVE  Quiet
<1>1. tasks \in [Tasks -> Task]
  BY DEF TypeInv, TypeOK
<1>2. approvals' = approvals /\ resumes' = resumes
  BY DEF NewRequest, StartInstance, SubmitAnswer, DecideApproval, tables
<1>3. \E k : tasks' = [tasks EXCEPT ![t] = k] /\ k.pc # "resume"
  <2>1. ASSUME NEW a \in Approvals, NEW decision \in Decisions,
               DecideApproval(t, a, decision)
        PROVE  \E k : tasks' = [tasks EXCEPT ![t] = k] /\ k.pc # "resume"
    <3>1. Deciding("decide", a, decision).pc = "decide"
      BY DEF Deciding, Idle
    <3>. QED
      BY <2>1, <3>1 DEF DecideApproval
  <2>. QED
    BY <2>1, ApplyOutcomePC DEF NewRequest, StartInstance, SubmitAnswer
<1>. QED
  BY <1>1, <1>2, <1>3 DEF Quiet, SameStatus

\* The steps that run inside apply_outcome, and all failures, decide nothing.
LEMMA ApplyingQuiet ==
  ASSUME TypeInv, NEW t \in Tasks,
         \/ \E a \in Approvals : CreateApproval(t, a)
         \/ ResolutionFails(t)
         \/ CannotDispatch(t)
         \/ \E k \in Tickets : CreateTicket(t, k)
         \/ \E created, reported \in BOOLEAN : Dispatch(t, created, reported)
         \/ MarkSent(t)
         \/ MarkFailed(t)
         \/ SaveProgress(t)
         \/ TaskLost(t)
         \/ DispatchStatementFails(t)
  PROVE  Quiet
<1>1. tasks \in [Tasks -> Task] /\ approvals \in [Approvals -> PendingApproval \cup {None}]
  BY DEF TypeInv, TypeOK
<1>2. resumes' = resumes
  BY DEF CreateApproval, ResolutionFails, CannotDispatch, CreateTicket, Dispatch,
     MarkSent, MarkFailed, SaveProgress, TaskLost, DispatchStatementFails
<1>3. /\ \A u \in Tasks \ {t} : tasks'[u] = tasks[u]
      /\ tasks'[t].pc # "resume"
  <2>1. Idle.pc # "resume"
    BY DEF Idle
  <2>2. GiveUp(tasks[t]).pc # "resume"
    BY <1>1 DEF GiveUp, Task
  <2>3. \A pc \in PCs, k \in Tickets \cup {None} :
          /\ [tasks[t] EXCEPT !.pc = pc].pc = pc
          /\ [tasks[t] EXCEPT !.pc = pc, !.ticket = k].pc = pc
    BY <1>1 DEF Task
  <2>4. ASSUME NEW k \in Tickets, CreateTicket(t, k)
        PROVE  /\ \A u \in Tasks \ {t} : tasks'[u] = tasks[u]
               /\ tasks'[t].pc # "resume"
    BY <1>1, <2>3, <2>4 DEF CreateTicket, PCs
  <2>5. ASSUME NEW created \in BOOLEAN, NEW reported \in BOOLEAN,
               Dispatch(t, created, reported)
        PROVE  /\ \A u \in Tasks \ {t} : tasks'[u] = tasks[u]
               /\ tasks'[t].pc # "resume"
    BY <1>1, <2>3, <2>5 DEF Dispatch, PCs
  <2>6. ASSUME NEW a \in Approvals, CreateApproval(t, a)
        PROVE  /\ \A u \in Tasks \ {t} : tasks'[u] = tasks[u]
               /\ tasks'[t].pc # "resume"
    BY <1>1, <2>3, <2>6 DEF CreateApproval, PCs
  <2>7. ASSUME MarkSent(t)
        PROVE  /\ \A u \in Tasks \ {t} : tasks'[u] = tasks[u]
               /\ tasks'[t].pc # "resume"
    BY <1>1, <2>7, ApplyOutcomePC DEF MarkSent
  <2>. QED
    BY <1>1, <2>1, <2>2, <2>4, <2>5, <2>6, <2>7
    DEF ResolutionFails, CannotDispatch, MarkFailed, SaveProgress, TaskLost,
        DispatchStatementFails
<1>4. \/ approvals' = approvals
      \/ \E a \in Approvals : \E row :
           /\ approvals[a] = None /\ row.status = "pending"
           /\ approvals' = [approvals EXCEPT ![a] = row]
  BY DEF CreateApproval, ResolutionFails, CannotDispatch, CreateTicket, Dispatch,
     MarkSent, MarkFailed, SaveProgress, TaskLost, DispatchStatementFails, tables
<1>5. \/ \A a \in Approvals : SameStatus(a)
      \/ \E a \in Approvals :
           /\ approvals[a] = None
           /\ approvals'[a].status = "pending"
           /\ \A b \in Approvals \ {a} : SameStatus(b)
  BY <1>1, <1>4 DEF SameStatus
<1>. QED
  BY <1>2, <1>3, <1>5 DEF Quiet

\* The rest of the background: listing, the clock, edits, aborts, restarts.
LEMMA BackgroundQuiet ==
  ASSUME TypeInv,
         \/ PollList
         \/ \E a \in Approvals : TimePasses(a)
         \/ EditUsers
         \/ PollAborts
         \/ Restart
         \/ UNCHANGED vars
  PROVE  Quiet
<1>1. tasks \in [Tasks -> Task] /\ approvals \in [Approvals -> PendingApproval \cup {None}]
  BY DEF TypeInv, TypeOK
<1>2. CASE \E a \in Approvals : TimePasses(a)
  <2>1. PICK a \in Approvals : TimePasses(a)
    BY <1>2
  <2>. DEFINE row == [approvals[a] EXCEPT !.expires_at = "past"]
  <2>2. /\ approvals[a] # None
        /\ approvals' = [approvals EXCEPT ![a] = row]
        /\ tasks' = tasks /\ resumes' = resumes
    BY <2>1 DEF TimePasses
  <2>3. row \in PendingApproval /\ row.status = approvals[a].status
    BY <1>1, <2>2 DEF PendingApproval
  <2>4. row # None
    BY <2>3, NoneAssumption
  <2>. HIDE DEF row
  <2>. QED
    BY <1>1, <2>2, <2>3, <2>4 DEF Quiet, SameStatus
<1>3. CASE Restart
  <2>1. \A t \in Tasks : tasks'[t].pc = "idle"
    BY <1>3 DEF Restart, Idle
  <2>. QED
    BY <1>3, <2>1 DEF Quiet, SameStatus, Restart, tables
<1>4. CASE PollList \/ EditUsers \/ PollAborts \/ UNCHANGED vars
  BY <1>4 DEF Quiet, SameStatus, PollList, EditUsers, PollAborts, vars, tables
<1>. QED
  BY <1>2, <1>3, <1>4

\* approvals::decide: the task that affects the row takes the right to
\* resume, the one that loses the race gets nothing.
LEMMA DecideFlips ==
  ASSUME TypeInv, NEW t \in Tasks, NEW a \in Approvals, approvals[a] # None,
         NEW decision, NEW status \in {"approved", "rejected", "expired"},
         decision = "approve" <=> status = "approved",
         decide(a, status), resumes' = resumes,
         tasks' = [tasks EXCEPT ![t] = AfterDecide(a, decision)]
  PROVE  Quiet \/ Flips(t, a, decision, status)
<1>1. tasks \in [Tasks -> Task]
  BY DEF TypeInv, TypeOK
<1>2. CASE StillPending(a)
  <2>1. /\ Deciding("resume", a, decision).approval = a
        /\ Deciding("resume", a, decision).decision = decision
    BY DEF Deciding, Idle
  <2>2. tasks'[t] = Deciding("resume", a, decision)
    BY <1>1, <1>2 DEF AfterDecide
  <2>3. \A u \in Tasks \ {t} : tasks'[u] = tasks[u]
    BY <1>1
  <2>4. approvals[a].status = "pending"
    BY <1>2 DEF StillPending
  <2>5. approvals' = [approvals EXCEPT ![a].status = status]
    BY <1>2 DEF decide
  <2>. QED
    BY <2>1, <2>2, <2>3, <2>4, <2>5 DEF Flips
<1>3. CASE ~StillPending(a)
  <2>1. tasks'[t].pc = "idle"
    BY <1>1, <1>3 DEF AfterDecide, Idle
  <2>. QED
    BY <1>1, <1>3, <2>1 DEF Quiet, SameStatus, decide
<1>. QED
  BY <1>2, <1>3

\* Every step is quiet, flips one row or uses one right.
LEMMA ThreeKinds ==
  ASSUME TypeInv, Listed, [Next]_vars
  PROVE  \/ Quiet
         \/ \E t \in Tasks, a \in Approvals : \E decision, status :
              Flips(t, a, decision, status)
         \/ \E t \in Tasks, a \in Approvals : Uses(t, a)
<1>1. ASSUME NEW t \in Tasks, RecordDecision(t)
      PROVE  Quiet \/ \E a \in Approvals : \E decision, status :
                        Flips(t, a, decision, status)
  <2>. DEFINE a == tasks[t].approval
              decision == tasks[t].decision
              status == IF decision = "approve" THEN "approved" ELSE "rejected"
  <2>1. a \in Approvals /\ approvals[a] # None
    BY <1>1 DEF RecordDecision, TypeInv, TasksOK, TaskOK
  <2>2. /\ decide(a, status) /\ resumes' = resumes
        /\ tasks' = [tasks EXCEPT ![t] = AfterDecide(a, decision)]
    BY <1>1 DEF RecordDecision
  <2>3. /\ status \in {"approved", "rejected", "expired"}
        /\ decision = "approve" <=> status = "approved"
    OBVIOUS
  <2>. HIDE DEF a, decision, status
  <2>4. Quiet \/ Flips(t, a, decision, status)
    BY <2>1, <2>2, <2>3, DecideFlips
  <2>. QED
    BY <2>1, <2>4
<1>2. ASSUME NEW a \in Approvals, PollExpire(a)
      PROVE  Quiet \/ Flips(Poller, a, "reject", "expired")
  <2>1. approvals[a] # None
    BY <1>2 DEF PollExpire, Listed
  <2>2. Poller \in Tasks
    BY DEF Tasks
  <2>. QED
    BY <1>2, <2>1, <2>2, DecideFlips DEF PollExpire
<1>3. ASSUME NEW t \in Tasks, ResumeAfterApproval(t)
      PROVE  \E a \in Approvals : Uses(t, a)
  <2>. DEFINE a == tasks[t].approval
  <2>1. tasks[t].pc = "resume" /\ a \in Approvals /\ approvals[a] # None
    BY <1>3 DEF ResumeAfterApproval, TypeInv, TasksOK, TaskOK
  <2>2. /\ tasks'[t].pc # "resume"
        /\ \A u \in Tasks \ {t} : tasks'[u] = tasks[u]
    BY <1>3, ApplyOutcomePC DEF ResumeAfterApproval, TypeInv, TypeOK
  <2>3. Uses(t, a)
    BY <1>3, <2>1, <2>2 DEF Uses, Resuming, ResumeAfterApproval, tables
  <2>. QED
    BY <2>1, <2>3
<1>4. ASSUME NEW t \in Tasks, TaskStep(t)
      PROVE  \/ Quiet
             \/ \E a \in Approvals : \E decision, status : Flips(t, a, decision, status)
             \/ \E a \in Approvals : Uses(t, a)
  BY <1>1, <1>3, <1>4, ApplyingQuiet DEF TaskStep
<1>5. Poller \in Tasks
  BY DEF Tasks
<1>. QED
  BY <1>2, <1>4, <1>5, NewRequestQuiet, ApplyingQuiet, BackgroundQuiet
  DEF Next, Poll, Failure, Tasks

----------------------------------------------------------------------------
(* Each kind of step keeps ResumeInv.                                      *)

\* Without a decision or a resume nobody's right changes.
LEMMA QuietKeeps ==
  ASSUME TypeInv, ResumeInv, Quiet
  PROVE  ResumeInv'
<1>1. \A t \in Tasks, a \in Approvals : Resuming(t, a)' =>
        Resuming(t, a) /\ tasks'[t] = tasks[t]
  BY DEF Quiet, SameStatus, Resuming
<1>2. \A a \in Approvals :
        /\ resumes'[a] <= 1
        /\ (approvals'[a] = None \/ approvals'[a].status = "pending"
              => resumes'[a] = 0)
  BY DEF Quiet, SameStatus, ResumeInv
<1>. QED
  BY <1>1, <1>2 DEF Quiet, SameStatus, ResumeInv

\* The task that flips a row becomes the only one to hold its right.
LEMMA FlipsKeeps ==
  ASSUME TypeInv, ResumeInv, NEW t \in Tasks, NEW a \in Approvals,
         NEW decision, NEW status, Flips(t, a, decision, status)
  PROVE  ResumeInv'
<1>1. /\ approvals'[a] = [approvals[a] EXCEPT !.status = status]
      /\ \A b \in Approvals \ {a} : approvals'[b] = approvals[b]
  BY DEF Flips, TypeInv, TypeOK
<1>2. approvals'[a] \in PendingApproval /\ approvals'[a].status = status
  <2>1. approvals[a] \in PendingApproval
    BY DEF Flips, TypeInv, TypeOK
  <2>. QED
    BY <1>1, <2>1 DEF Flips, PendingApproval, ApprovalStatus
<1>3. approvals'[a] # None
  BY <1>2, NoneAssumption
<1>4. resumes[a] = 0 /\ \A u \in Tasks : ~Resuming(u, a)
  BY DEF Flips, ResumeInv
<1>5. \A u \in Tasks, b \in Approvals : Resuming(u, b)' =>
        \/ u = t /\ b = a
        \/ u # t /\ b # a /\ Resuming(u, b) /\ tasks'[u] = tasks[u]
  BY <1>4 DEF Flips, Resuming
<1>6. \A b \in Approvals :
        /\ resumes'[b] <= 1
        /\ (approvals'[b] = None \/ approvals'[b].status = "pending"
              => resumes'[b] = 0)
  BY <1>1, <1>2, <1>3, <1>4 DEF Flips, ResumeInv
<1>7. \A b \in Approvals, u \in Tasks : Resuming(u, b)' =>
        /\ resumes'[b] = 0
        /\ approvals'[b] # None
        /\ approvals'[b].status # "pending"
        /\ tasks'[u].decision = "approve" <=> approvals'[b].status = "approved"
        /\ \A v \in Tasks : Resuming(v, b)' => v = u
  BY <1>1, <1>2, <1>3, <1>4, <1>5 DEF Flips, ResumeInv
<1>. QED
  BY <1>6, <1>7 DEF ResumeInv

\* The right that is used is gone, for every task and for ever.
LEMMA UsesKeeps ==
  ASSUME TypeInv, ResumeInv, NEW t \in Tasks, NEW a \in Approvals, Uses(t, a)
  PROVE  ResumeInv'
<1>1. /\ resumes'[a] = 1
      /\ \A b \in Approvals \ {a} : resumes'[b] = resumes[b]
      /\ approvals' = approvals
  BY DEF Uses, ResumeInv, TypeInv, TypeOK
<1>2. \A u \in Tasks, b \in Approvals : Resuming(u, b)' =>
        u # t /\ b # a /\ Resuming(u, b) /\ tasks'[u] = tasks[u]
  BY DEF Uses, Resuming, ResumeInv
<1>3. \A b \in Approvals :
        /\ resumes'[b] <= 1
        /\ (approvals'[b] = None \/ approvals'[b].status = "pending"
              => resumes'[b] = 0)
  BY <1>1 DEF ResumeInv, Uses
<1>. QED
  BY <1>1, <1>2, <1>3 DEF ResumeInv

\* ResumeInv is an invariant.
LEMMA ResumeInvariant == Spec => []ResumeInv
<1>1. Init => ResumeInv
  BY DEF Init, ResumeInv, Resuming, Idle
<1>2. TypeInv /\ Listed /\ ResumeInv /\ [Next]_vars => ResumeInv'
  BY ThreeKinds, QuietKeeps, FlipsKeeps, UsesKeeps
<1>. QED
  BY <1>1, <1>2, TypeInvariant, PTL DEF Spec

----------------------------------------------------------------------------
(* What follows.                                                           *)

\* An approval resumes its instance at most once and never while it is
\* pending, whoever decides it and whatever is lost on the way.
THEOREM ResumedAtMostOnce == Spec => []ResumedOnce
<1>1. TypeInv /\ ResumeInv => ResumedOnce
  BY DEF TypeInv, TypeOK, ResumeInv, ResumedOnce
<1>. QED
  BY <1>1, TypeInvariant, ResumeInvariant, PTL

\* The branch taken out of a WaitForApproval step is the one on record.
THEOREM BranchOnRecord == Spec => []ResumeFollowsRecord
<1>1. ASSUME TypeInv, ResumeInv PROVE ResumeFollowsRecord
  <2>. SUFFICES ASSUME NEW t \in Tasks, tasks[t].pc = "resume"
                PROVE  LET row == approvals[tasks[t].approval]
                       IN  /\ row # None
                           /\ row.status # "pending"
                           /\ row.instance = tasks[t].instance
                           /\ tasks[t].decision = "approve" <=> row.status = "approved"
    BY DEF ResumeFollowsRecord
  <2>1. /\ tasks[t].approval \in Approvals
        /\ approvals[tasks[t].approval] # None
        /\ approvals[tasks[t].approval].instance = tasks[t].instance
    BY <1>1 DEF TypeInv, TasksOK, TaskOK
  <2>2. Resuming(t, tasks[t].approval)
    BY DEF Resuming
  <2>. QED
    BY <1>1, <2>1, <2>2 DEF ResumeInv
<1>. QED
  BY <1>1, TypeInvariant, ResumeInvariant, PTL

\* No step changes the status of a decided approval.
LEMMA DecidedStays ==
  ASSUME TypeInv, Listed, [Next]_vars
  PROVE  \A a \in Approvals :
           approvals[a] # None /\ approvals[a].status # "pending"
             => approvals'[a] # None /\ approvals'[a].status = approvals[a].status
<1>. DEFINE Final == \A a \in Approvals :
       approvals[a] # None /\ approvals[a].status # "pending"
         => approvals'[a] # None /\ approvals'[a].status = approvals[a].status
<1>1. CASE Quiet
  BY <1>1 DEF Quiet, SameStatus
<1>2. ASSUME NEW t \in Tasks, NEW a \in Approvals, NEW decision, NEW status,
             Flips(t, a, decision, status)
      PROVE  Final
  BY <1>2 DEF Flips, TypeInv, TypeOK
<1>3. ASSUME NEW t \in Tasks, NEW a \in Approvals, Uses(t, a)
      PROVE  Final
  BY <1>3 DEF Uses
<1>. QED
  BY <1>1, <1>2, <1>3, ThreeKinds

\* Once decided, an approval keeps its status for ever.
THEOREM DecisionStays == Spec => DecisionIsFinal
<1>. DEFINE Final == \A a \in Approvals :
       approvals[a] # None /\ approvals[a].status # "pending"
         => approvals'[a] # None /\ approvals'[a].status = approvals[a].status
<1>1. TypeInv /\ Listed /\ [Next]_vars => [Final]_vars
  BY DecidedStays
<1>. QED
  BY <1>1, TypeInvariant, PTL DEF Spec, DecisionIsFinal

\* The server implements the life cycle of an approval.
THEOREM ApprovalRefinement == Spec => ImplementsLifecycle
<1>. DEFINE record == [a \in Approvals |->
               IF approvals[a] = None THEN "none" ELSE approvals[a].status]
<1>1. Init => Lifecycle!Init
  BY DEF Init, Lifecycle!Init
<1>2. ASSUME TypeInv, Listed, ResumeInv, [Next]_vars
      PROVE  [Lifecycle!Next]_<<record, resumes>>
  <2>1. CASE Quiet
    <3>1. ASSUME \A a \in Approvals : SameStatus(a)
          PROVE  record' = record
      BY <3>1 DEF SameStatus
    <3>2. ASSUME NEW a \in Approvals, approvals[a] = None,
                 approvals'[a] = None \/ approvals'[a].status = "pending",
                 \A b \in Approvals \ {a} : SameStatus(b)
          PROVE  record' = record \/ Lifecycle!Open(a)
      <4>1. /\ record[a] = "none"
            /\ record'[a] \in {"none", "pending"}
            /\ \A b \in Approvals \ {a} : record'[b] = record[b]
        BY <3>2 DEF SameStatus
      <4>2. record' = record \/ record' = [record EXCEPT ![a] = "pending"]
        BY <4>1
      <4>. QED
        BY <2>1, <4>1, <4>2 DEF Quiet, Lifecycle!Open
    <3>3. record' = record \/ \E a \in Approvals : Lifecycle!Open(a)
      BY <2>1, <3>1, <3>2 DEF Quiet
    <3>. QED
      BY <2>1, <3>3 DEF Quiet, Lifecycle!Next
  <2>2. ASSUME NEW t \in Tasks, NEW a \in Approvals, NEW decision, NEW status,
               Flips(t, a, decision, status)
        PROVE  Lifecycle!Decide(a, status) /\ status \in Lifecycle!Decided
    <3>1. approvals[a] \in PendingApproval
      BY <1>2, <2>2 DEF Flips, TypeInv, TypeOK
    <3>2. approvals' = [approvals EXCEPT ![a] = [approvals[a] EXCEPT !.status = status]]
      BY <2>2 DEF Flips
    <3>3. /\ [approvals[a] EXCEPT !.status = status] \in PendingApproval
          /\ [approvals[a] EXCEPT !.status = status].status = status
      BY <2>2, <3>1 DEF Flips, PendingApproval, ApprovalStatus
    <3>4. /\ record[a] = "pending"
          /\ record'[a] = status
          /\ \A b \in Approvals \ {a} : record'[b] = record[b]
      BY <1>2, <2>2, <3>2, <3>3, NoneAssumption DEF Flips, TypeInv, TypeOK
    <3>5. record' = [record EXCEPT ![a] = status]
      BY <3>4
    <3>. QED
      BY <2>2, <3>4, <3>5 DEF Flips, Lifecycle!Decide, Lifecycle!Decided
  <2>3. ASSUME NEW t \in Tasks, NEW a \in Approvals, Uses(t, a)
        PROVE  Lifecycle!Resume(a)
    <3>1. resumes[a] = 0 /\ approvals[a] # None /\ approvals[a].status # "pending"
      BY <1>2, <2>3 DEF ResumeInv, Uses
    <3>2. approvals[a].status \in Lifecycle!Decided
      BY <1>2, <3>1 DEF TypeInv, TypeOK, PendingApproval, ApprovalStatus,
         Lifecycle!Decided
    <3>3. resumes' = [resumes EXCEPT ![a] = 1]
      BY <1>2, <2>3, <3>1 DEF Uses, TypeInv, TypeOK
    <3>4. record' = record
      BY <2>3 DEF Uses
    <3>5. record[a] = approvals[a].status
      BY <3>1
    <3>. QED
      BY <3>1, <3>2, <3>3, <3>4, <3>5 DEF Lifecycle!Resume
  <2>. QED
    BY <1>2, <2>1, <2>2, <2>3, ThreeKinds DEF Lifecycle!Next
<1>. QED
  BY <1>1, <1>2, TypeInvariant, ResumeInvariant, PTL
  DEF Spec, ImplementsLifecycle, Lifecycle!Spec

----------------------------------------------------------------------------
(***************************************************************************)
(* What the rows of a request say is true of it: the status of an instance *)
(* agrees with its step, an instance that waits has an approval to wait    *)
(* for, and the tickets table agrees with the ticketing system.  Proved    *)
(* for every graph, interleaving, loss of handlers and restart.            *)
(***************************************************************************)

----------------------------------------------------------------------------
(* The steps as these invariants see them: one task goes on inside         *)
(* apply_outcome, or the step is aside from it.                            *)

\* The other tasks stand where they stood.
Only(t) == \A u \in Tasks \ {t} : tasks'[u] = tasks[u]

\* The approvals are the same rows, of the same instances and steps.
SameApprovals ==
  \A a \in Approvals :
    /\ approvals[a] = None => approvals'[a] = None
    /\ approvals[a] # None =>
         /\ approvals'[a] # None
         /\ approvals'[a].instance = approvals[a].instance
         /\ approvals'[a].step = approvals[a].step

\* A step that is not part of apply_outcome: it decides an approval, drops
\* tasks, or is the clock's, the poller's or an administrator's.
Aside ==
  /\ UNCHANGED <<instances, tickets, external>>
  /\ SameApprovals
  /\ \A t \in Tasks : \/ tasks'[t] = tasks[t]
                      \/ tasks'[t].pc \in {"idle", "decide", "resume"}

\* A step into apply_outcome or inside it.
Acts(t) ==
  \/ \E i \in Instances, d \in Definitions, u \in Users :
       StartInstance(t, i, d, u)
  \/ \E i \in Instances, field_key \in FieldKeys, value \in Values :
       SubmitAnswer(t, i, field_key, value)
  \/ ResumeAfterApproval(t)
  \/ \E a \in Approvals : CreateApproval(t, a)
  \/ CannotDispatch(t)
  \/ \E k \in Tickets : CreateTicket(t, k)
  \/ \E created, reported \in BOOLEAN : Dispatch(t, created, reported)
  \/ MarkSent(t)
  \/ MarkFailed(t)
  \/ SaveProgress(t)
  \/ DispatchStatementFails(t)

\* approvals::decide keeps what a row belongs to.
LEMMA DecideAside ==
  ASSUME TypeInv, NEW a \in Approvals, approvals[a] # None,
         NEW status \in ApprovalStatus, decide(a, status)
  PROVE  SameApprovals
<1>. DEFINE row == [approvals[a] EXCEPT !.status = status]
<1>1. /\ row \in PendingApproval
      /\ row.instance = approvals[a].instance
      /\ row.step = approvals[a].step
  BY DEF TypeInv, TypeOK, PendingApproval
<1>2. row # None
  BY <1>1, NoneAssumption
<1>3. approvals' = approvals \/ approvals' = [approvals EXCEPT ![a] = row]
  BY DEF decide
<1>. HIDE DEF row
<1>. QED
  BY <1>1, <1>2, <1>3 DEF TypeInv, TypeOK, SameApprovals

\* Deciding leaves a task idle or at work on an approval.
LEMMA DecidingPC ==
  ASSUME NEW a, NEW decision
  PROVE  /\ Deciding("decide", a, decision).pc = "decide"
         /\ AfterDecide(a, decision).pc \in {"idle", "resume"}
  BY DEF Deciding, AfterDecide, Idle

\* Requests and steps of tasks that are not part of apply_outcome.
LEMMA TaskAside ==
  ASSUME TypeInv, NEW t \in Tasks,
         \/ \E a \in Approvals, decision \in Decisions :
              DecideApproval(t, a, decision)
         \/ RecordDecision(t)
         \/ ResolutionFails(t)
         \/ TaskLost(t)
  PROVE  Aside
<1>1. tasks \in [Tasks -> Task]
  BY DEF TypeInv, TypeOK
<1>2. UNCHANGED <<instances, tickets, external>>
  BY DEF DecideApproval, RecordDecision, ResolutionFails, TaskLost, tables
<1>3. SameApprovals
  <2>1. CASE RecordDecision(t)
    <3>. DEFINE status == IF tasks[t].decision = "approve" THEN "approved"
                                                           ELSE "rejected"
    <3>1. /\ tasks[t].approval \in Approvals
          /\ approvals[tasks[t].approval] # None
      BY <2>1 DEF RecordDecision, TypeInv, TasksOK, TaskOK
    <3>2. status \in ApprovalStatus /\ decide(tasks[t].approval, status)
      BY <2>1 DEF RecordDecision, ApprovalStatus
    <3>. QED
      BY <3>1, <3>2, DecideAside
  <2>2. CASE approvals' = approvals
    BY <2>2 DEF SameApprovals
  <2>. QED
    BY <2>1, <2>2 DEF DecideApproval, ResolutionFails, TaskLost, tables
<1>4. tasks'[t].pc \in {"idle", "decide", "resume"} /\ Only(t)
  <2>1. Idle.pc = "idle"
    BY DEF Idle
  <2>2. ASSUME NEW a \in Approvals, NEW decision \in Decisions,
               DecideApproval(t, a, decision)
        PROVE  tasks'[t].pc \in {"idle", "decide", "resume"} /\ Only(t)
    BY <1>1, <2>2, DecidingPC DEF DecideApproval, Only
  <2>3. CASE RecordDecision(t)
    BY <1>1, <2>3, DecidingPC DEF RecordDecision, Only
  <2>4. CASE ResolutionFails(t) \/ TaskLost(t)
    BY <1>1, <2>1, <2>4 DEF ResolutionFails, TaskLost, Only
  <2>. QED
    BY <2>2, <2>3, <2>4
<1>. QED
  BY <1>2, <1>3, <1>4 DEF Aside, Only

\* The poller, the clock, edits of users, an aborted poll and a restart.
LEMMA BackgroundAside ==
  ASSUME TypeInv, Listed,
         \/ Poll
         \/ \E a \in Approvals : TimePasses(a)
         \/ EditUsers
         \/ PollAborts
         \/ Restart
         \/ UNCHANGED vars
  PROVE  Aside
<1>1. tasks \in [Tasks -> Task]
  BY DEF TypeInv, TypeOK
<1>2. CASE PollList \/ EditUsers \/ PollAborts \/ UNCHANGED vars
  <2>1. UNCHANGED <<instances, approvals, tickets, external, tasks>>
    BY <1>2 DEF PollList, EditUsers, PollAborts, tables, vars
  <2>. QED
    BY <2>1 DEF Aside, SameApprovals
<1>3. CASE Restart
  <2>1. /\ UNCHANGED <<instances, approvals, tickets, external>>
        /\ \A t \in Tasks : tasks'[t].pc = "idle"
    BY <1>3 DEF Restart, tables, Idle
  <2>. QED
    BY <2>1 DEF Aside, SameApprovals
<1>4. ASSUME NEW a \in Approvals, PollExpire(a)
      PROVE  Aside
  <2>1. approvals[a] # None /\ decide(a, "expired")
    BY <1>4 DEF PollExpire, Listed
  <2>2. SameApprovals
    BY <2>1, DecideAside DEF ApprovalStatus
  <2>3. \A t \in Tasks : \/ tasks'[t] = tasks[t]
                         \/ tasks'[t].pc \in {"idle", "resume"}
    BY <1>1, <1>4, DecidingPC DEF PollExpire
  <2>. QED
    BY <1>4, <2>2, <2>3 DEF PollExpire, Aside
<1>5. ASSUME NEW a \in Approvals, TimePasses(a)
      PROVE  Aside
  <2>. DEFINE row == [approvals[a] EXCEPT !.expires_at = "past"]
  <2>1. /\ approvals[a] # None
        /\ approvals' = [approvals EXCEPT ![a] = row]
        /\ UNCHANGED <<instances, tickets, external, tasks>>
    BY <1>5 DEF TimePasses
  <2>2. /\ row \in PendingApproval
        /\ row.instance = approvals[a].instance
        /\ row.step = approvals[a].step
    BY <2>1 DEF TypeInv, TypeOK, PendingApproval
  <2>3. row # None
    BY <2>2, NoneAssumption
  <2>. HIDE DEF row
  <2>4. SameApprovals
    BY <2>1, <2>2, <2>3 DEF TypeInv, TypeOK, SameApprovals
  <2>. QED
    BY <2>1, <2>4 DEF Aside
<1>. QED
  BY <1>2, <1>3, <1>4, <1>5 DEF Poll

\* A step inside apply_outcome moves one task only.
LEMMA ActsAlone ==
  ASSUME TypeInv, NEW t \in Tasks, Acts(t)
  PROVE  Only(t)
<1>1. tasks \in [Tasks -> Task]
  BY DEF TypeInv, TypeOK
<1>2. \E k : tasks' = [tasks EXCEPT ![t] = k]
  BY DEF Acts, StartInstance, SubmitAnswer, ResumeAfterApproval, CreateApproval,
     CannotDispatch, CreateTicket, Dispatch, MarkSent, MarkFailed, SaveProgress,
     DispatchStatementFails
<1>. QED
  BY <1>1, <1>2 DEF Only

\* There are no other steps.
LEMMA TwoKinds ==
  ASSUME TypeInv, Listed, [Next]_vars
  PROVE  Aside \/ \E t \in Tasks : Only(t) /\ Acts(t)
<1>1. ASSUME NEW t \in Tasks, NewRequest(t) \/ TaskStep(t)
      PROVE  Aside \/ Acts(t)
  BY <1>1, TaskAside DEF NewRequest, TaskStep, Acts
<1>2. ASSUME NEW t \in Tasks, TaskLost(t) \/ DispatchStatementFails(t)
      PROVE  Aside \/ Acts(t)
  BY <1>2, TaskAside DEF Acts
<1>3. Aside \/ \E t \in Tasks : Acts(t)
  BY <1>1, <1>2, BackgroundAside DEF Next, Failure, Tasks
<1>. QED
  BY <1>3, ActsAlone

\* Only the INSERT of start_instance and the UPDATE of save_progress write
\* the instances table.
LEMMA InstancesWritten ==
  ASSUME NEW t \in Tasks, Acts(t)
  PROVE  \/ instances' = instances
         \/ \E i \in Instances, d \in Definitions, u \in Users :
              StartInstance(t, i, d, u)
         \/ SaveProgress(t)
  BY DEF Acts, SubmitAnswer, ResumeAfterApproval, CreateApproval, CannotDispatch,
     CreateTicket, Dispatch, MarkSent, MarkFailed, DispatchStatementFails, tables

\* The row that start_instance inserts.
LEMMA StartRow ==
  ASSUME TypeInv, NEW t \in Tasks, NEW i \in Instances, NEW d \in Definitions,
         NEW u \in Users, StartInstance(t, i, d, u)
  PROVE  /\ instances[i] = None
         /\ instances'[i] # None
         /\ instances'[i].definition = d
         /\ instances'[i].step = engine_start(Definition[d].graph).step
         /\ instances'[i].answers = NoAnswers
         /\ instances'[i].status = "in_progress"
         /\ \A j \in Instances \ {i} : instances'[j] = instances[j]
<1>. DEFINE r == engine_start(Definition[d].graph)
            row == [definition |-> d, requester |-> u, step |-> r.step,
                    answers |-> NoAnswers, status |-> "in_progress",
                    completed_at |-> FALSE]
<1>1. /\ r.err = "none"
      /\ instances[i] = None
      /\ instances' = [instances EXCEPT ![i] = row]
  BY DEF StartInstance
<1>2. Rests(Definition[d].graph, r)
  BY EngineRests
<1>3. r.step \in StepIds
  BY <1>1, <1>2, DefinitionAssumption DEF Rests, IsGraph
<1>. HIDE DEF r
<1>4. row \in WorkflowInstance
  BY <1>3, IdleOK DEF WorkflowInstance, InstanceStatus, Task, Idle
<1>5. row # None
  BY <1>4, NoneAssumption
<1>6. /\ row.definition = d /\ row.step = r.step
      /\ row.answers = NoAnswers /\ row.status = "in_progress"
  OBVIOUS
<1>. HIDE DEF row
<1>. QED
  BY <1>1, <1>5, <1>6 DEF TypeInv, TypeOK, r

\* The row that save_progress leaves.
LEMMA SaveRow ==
  ASSUME TypeInv, NEW t \in Tasks, SaveProgress(t)
  PROVE  LET i == tasks[t].instance IN
         /\ i \in Instances /\ instances[i] # None
         /\ Suits(tasks[t], Graph(i)) /\ tasks[t].pc = "save"
         /\ instances'[i] # None
         /\ instances'[i].definition = instances[i].definition
         /\ instances'[i].step = tasks[t].step
         /\ instances'[i].answers = tasks[t].answers
         /\ instances'[i].status = tasks[t].status
         /\ tasks[t].status \in Terminal => instances'[i].completed_at
         /\ \A j \in Instances \ {i} : instances'[j] = instances[j]
<1>. DEFINE i == tasks[t].instance
            row == Progress(instances[i], tasks[t])
<1>1. tasks[t].pc = "save"
  BY DEF SaveProgress
<1>2. /\ i \in Instances /\ instances[i] # None
      /\ tasks[t] \in Task /\ Suits(tasks[t], Graph(i))
  BY <1>1 DEF TypeInv, TypeOK, TasksOK, TaskOK, Applying
<1>3. instances[i] \in WorkflowInstance
  BY <1>2, GraphOK DEF TypeInv
<1>4. /\ row.definition = instances[i].definition
      /\ row.step = tasks[t].step
      /\ row.answers = tasks[t].answers
      /\ row.status = tasks[t].status
      /\ tasks[t].status \in Terminal => row.completed_at
  BY <1>3 DEF Progress, WorkflowInstance
<1>5. instances' = [instances EXCEPT ![i] = row]
  BY <1>2 DEF SaveProgress, TypeInv, TypeOK
<1>. HIDE DEF row
<1>6. instances'[i] # None
  BY <1>2, SaveProgressTyped DEF Persists
<1>. QED
  BY <1>1, <1>2, <1>4, <1>5, <1>6 DEF TypeInv, TypeOK

----------------------------------------------------------------------------
(* The status of an instance.                                              *)

\* What the row of an instance says of the step it rests at.
RowFits(row, g) ==
  /\ row.step \in DOMAIN g.steps
  /\ row.status = "in_progress" =>
       \/ g.steps[row.step].kind = "question"
       \/ row.step = engine_start(g).step /\ row.answers = NoAnswers
  /\ row.status = "awaiting_approval" => g.steps[row.step].kind = "wait_for_approval"
  /\ row.status = "failed" => g.steps[row.step].kind = "submit_ticket"
  /\ row.status \in EndOutcomes =>
       /\ g.steps[row.step].kind = "end"
       /\ g.steps[row.step].outcome = row.status
  /\ row.status \in Terminal => row.completed_at

\* Every write of the instances table keeps status and step in agreement.
LEMMA StatusStep ==
  ASSUME TypeInv, Listed, StatusMatchesStep, [Next]_vars
  PROVE  StatusMatchesStep'
<1>1. \A i \in Instances : instances[i] # None => RowFits(instances[i], Graph(i))
  BY DEF StatusMatchesStep, RowFits
<1>2. SUFFICES ASSUME NEW j \in Instances, instances'[j] # None
               PROVE  RowFits(instances'[j], Definition[instances'[j].definition].graph)
  BY DEF StatusMatchesStep, RowFits, Graph
<1>3. CASE instances'[j] = instances[j]
  BY <1>1, <1>2, <1>3 DEF Graph
<1>4. ASSUME NEW t \in Tasks, NEW i \in Instances, NEW d \in Definitions,
             NEW u \in Users, StartInstance(t, i, d, u), j = i
      PROVE  RowFits(instances'[j], Definition[instances'[j].definition].graph)
  <2>1. Rests(Definition[d].graph, engine_start(Definition[d].graph))
    BY EngineRests
  <2>2. engine_start(Definition[d].graph).err = "none"
    BY <1>4 DEF StartInstance
  <2>. QED
    BY <1>4, <2>1, <2>2, StartRow DEF RowFits, Rests, EndOutcomes, Terminal
<1>5. ASSUME NEW t \in Tasks, SaveProgress(t), j = tasks[t].instance
      PROVE  RowFits(instances'[j], Definition[instances'[j].definition].graph)
  <2>. DEFINE row == instances'[j]
              g == Definition[row.definition].graph
  <2>1. /\ g = Graph(j) /\ Suits(tasks[t], Graph(j)) /\ tasks[t].pc = "save"
        /\ row.step = tasks[t].step /\ row.status = tasks[t].status
    BY <1>5, SaveRow DEF Graph
  <2>2. tasks[t].status \in Terminal => row.completed_at
    BY <1>5, SaveRow
  <2>. HIDE DEF row, g
  <2>3. row.step \in DOMAIN g.steps /\ Fits(g.steps[row.step], row.status)
    BY <2>1 DEF Suits
  <2>. QED
    BY <2>1, <2>2, <2>3, Zenon DEF RowFits, Fits, row, g
<1>6. instances'[j] = instances[j] \/ \E t \in Tasks : Acts(t)
  BY TwoKinds DEF Aside
<1>7. ASSUME NEW t \in Tasks, Acts(t)
      PROVE  RowFits(instances'[j], Definition[instances'[j].definition].graph)
  BY <1>3, <1>4, <1>5, <1>7, InstancesWritten, StartRow, SaveRow
<1>. QED
  BY <1>3, <1>6, <1>7

\* The status of an instance and the kind of the step it rests at agree in
\* every run: apply_outcome never saves one without the other, whichever of
\* its handlers is the last to save.
THEOREM StatusAgrees == Spec => []StatusMatchesStep
<1>1. Init => StatusMatchesStep
  BY DEF Init, StatusMatchesStep
<1>2. TypeInv /\ Listed /\ StatusMatchesStep /\ [Next]_vars => StatusMatchesStep'
  BY StatusStep
<1>. QED
  BY <1>1, <1>2, TypeInvariant, PTL DEF Spec

----------------------------------------------------------------------------
(* A task's locals after a step inside apply_outcome.                      *)

\* The instance and the step a task works on stay.
Carried(t) ==
  /\ tasks'[t].instance = tasks[t].instance
  /\ tasks'[t].step = tasks[t].step

\* The locals that the head of apply_outcome's loop leaves.
Headed(k, i, r) ==
  \/ k = Idle
  \/ /\ r.err = "none"
     /\ k.pc \in Begins
     /\ k.instance = i
     /\ k.step = r.step
     /\ k.pc = "save" => k.status # "awaiting_approval"

\* An approval is awaited only after its row is there: the head of the loop
\* never goes straight to save with that status.
LEMMA ApplyOutcomeHeaded ==
  ASSUME NEW i, NEW r, NEW answers
  PROVE  Headed(ApplyOutcome(i, r, answers), i, r)
<1>1. CASE r.err # "none"
  BY <1>1 DEF ApplyOutcome, Headed
<1>2. CASE r.err = "none"
  <2>. DEFINE Made(pc, status) ==
         [pc |-> pc, instance |-> i, approval |-> None, decision |-> None,
          step |-> r.step, answers |-> answers, status |-> status,
          ticket |-> None]
              pc == CASE r.outcome = "awaiting_approval" -> "create_approval"
                      [] r.outcome = "ready_to_submit_ticket" -> "create_ticket"
                      [] OTHER -> "save"
              status == CASE r.outcome = "awaiting_answer" -> "in_progress"
                          [] r.outcome = "ready_to_submit_ticket" -> None
                          [] OTHER -> r.outcome
  <2>1. ApplyOutcome(i, r, answers) = Made(pc, status)
    BY <1>2 DEF ApplyOutcome, Idle
  <2>2. \A p, s : /\ Made(p, s).pc = p
                  /\ Made(p, s).status = s
                  /\ Made(p, s).instance = i
                  /\ Made(p, s).step = r.step
    OBVIOUS
  <2>3. pc \in Begins /\ (pc = "save" => status # "awaiting_approval")
    BY DEF Begins
  <2>. HIDE DEF Made, pc, status
  <2>. QED
    BY <1>2, <2>1, <2>2, <2>3 DEF Headed
<1>. QED
  BY <1>1, <1>2

\* The locals after each step that keeps the task at work on its step.
LEMMA LocalsCarried ==
  ASSUME TypeInv, NEW t \in Tasks
  PROVE  /\ \A a \in Approvals : CreateApproval(t, a) =>
              /\ Carried(t) /\ tasks'[t].pc = "save"
              /\ tasks'[t].status = tasks[t].status
         /\ CannotDispatch(t) \/ MarkFailed(t) \/ DispatchStatementFails(t) =>
              /\ Carried(t) /\ tasks'[t].pc = "save"
              /\ tasks'[t].status = "failed"
         /\ \A k \in Tickets : CreateTicket(t, k) =>
              /\ Carried(t) /\ tasks'[t].pc = "dispatch"
              /\ tasks'[t].ticket = k
         /\ \A created, reported \in BOOLEAN : Dispatch(t, created, reported) =>
              /\ Carried(t)
              /\ tasks'[t].pc = IF reported THEN "mark_sent" ELSE "mark_failed"
              /\ tasks'[t].ticket = tasks[t].ticket
         /\ SaveProgress(t) => tasks'[t] = Idle
<1>1. tasks \in [Tasks -> Task] /\ tasks[t] \in Task
  BY DEF TypeInv, TypeOK
<1>2. /\ \A pc \in PCs : LET k == [tasks[t] EXCEPT !.pc = pc] IN
           /\ k.pc = pc /\ k.instance = tasks[t].instance
           /\ k.step = tasks[t].step /\ k.status = tasks[t].status
           /\ k.ticket = tasks[t].ticket
      /\ \A pc \in PCs, n \in Tickets :
           LET k == [tasks[t] EXCEPT !.pc = pc, !.ticket = n] IN
           /\ k.pc = pc /\ k.instance = tasks[t].instance
           /\ k.step = tasks[t].step /\ k.ticket = n
  BY <1>1 DEF Task
<1>3. LET k == GiveUp(tasks[t]) IN
        /\ k.pc = "save" /\ k.status = "failed"
        /\ k.instance = tasks[t].instance /\ k.step = tasks[t].step
  BY <1>1 DEF GiveUp, Task
<1>4. ASSUME NEW a \in Approvals, CreateApproval(t, a)
      PROVE  /\ Carried(t) /\ tasks'[t].pc = "save"
             /\ tasks'[t].status = tasks[t].status
  <2>1. tasks'[t] = [tasks[t] EXCEPT !.pc = "save"]
    BY <1>1, <1>4 DEF CreateApproval
  <2>. QED
    BY <1>2, <2>1 DEF Carried, PCs
<1>5. ASSUME CannotDispatch(t) \/ MarkFailed(t) \/ DispatchStatementFails(t)
      PROVE  /\ Carried(t) /\ tasks'[t].pc = "save"
             /\ tasks'[t].status = "failed"
  <2>1. tasks'[t] = GiveUp(tasks[t])
    BY <1>1, <1>5 DEF CannotDispatch, MarkFailed, DispatchStatementFails
  <2>. QED
    BY <1>3, <2>1 DEF Carried
<1>6. ASSUME NEW k \in Tickets, CreateTicket(t, k)
      PROVE  Carried(t) /\ tasks'[t].pc = "dispatch" /\ tasks'[t].ticket = k
  <2>1. tasks'[t] = [tasks[t] EXCEPT !.pc = "dispatch", !.ticket = k]
    BY <1>1, <1>6 DEF CreateTicket
  <2>. QED
    BY <1>2, <2>1 DEF Carried, PCs
<1>7. ASSUME NEW created \in BOOLEAN, NEW reported \in BOOLEAN,
             Dispatch(t, created, reported)
      PROVE  /\ Carried(t)
             /\ tasks'[t].pc = IF reported THEN "mark_sent" ELSE "mark_failed"
             /\ tasks'[t].ticket = tasks[t].ticket
  <2>. DEFINE pc == IF reported THEN "mark_sent" ELSE "mark_failed"
  <2>1. tasks'[t] = [tasks[t] EXCEPT !.pc = pc]
    BY <1>1, <1>7 DEF Dispatch
  <2>2. pc \in PCs
    BY DEF PCs
  <2>. HIDE DEF pc
  <2>3. Carried(t) /\ tasks'[t].pc = pc /\ tasks'[t].ticket = tasks[t].ticket
    BY <1>2, <2>1, <2>2 DEF Carried
  <2>. QED
    BY <2>3 DEF pc
<1>8. SaveProgress(t) => tasks'[t] = Idle
  BY <1>1 DEF SaveProgress
<1>. QED
  BY <1>4, <1>5, <1>6, <1>7, <1>8

\* The locals after each step that runs the engine.
LEMMA LocalsHeaded ==
  ASSUME TypeInv, NEW t \in Tasks
  PROVE  /\ \A i \in Instances, d \in Definitions, u \in Users :
              StartInstance(t, i, d, u) =>
                Headed(tasks'[t], i, engine_start(Definition[d].graph))
         /\ \A i \in Instances, field_key \in FieldKeys, value \in Values :
              SubmitAnswer(t, i, field_key, value) =>
                Headed(tasks'[t], i,
                       engine_submit_answer(Graph(i), instances[i].step,
                         instances[i].answers, field_key, value))
         /\ ResumeAfterApproval(t) =>
              Headed(tasks'[t], tasks[t].instance,
                     engine_resume_after_approval(Graph(tasks[t].instance),
                       approvals[tasks[t].approval].step,
                       instances[tasks[t].instance].answers, tasks[t].decision))
         /\ MarkSent(t) =>
              Headed(tasks'[t], tasks[t].instance,
                     engine_resume_after_ticket_dispatch(
                       Graph(tasks[t].instance), tasks[t].step,
                       tasks[t].answers))
<1>1. tasks \in [Tasks -> Task]
  BY DEF TypeInv, TypeOK
<1>2. \A k : tasks' = [tasks EXCEPT ![t] = k] => tasks'[t] = k
  BY <1>1
<1>. QED
  BY <1>2, ApplyOutcomeHeaded
  DEF StartInstance, SubmitAnswer, ResumeAfterApproval, MarkSent

----------------------------------------------------------------------------
(* An instance that waits has an approval to wait for.                     *)

HasApproval(rows, i, s) ==
  \E a \in Approvals :
    /\ rows[a] # None
    /\ rows[a].instance = i
    /\ rows[a].step = s

\* The inductive invariant: the row is there before its instance is saved as
\* awaiting it.
AwaitInv ==
  /\ \A i \in Instances :
       instances[i] # None /\ instances[i].status = "awaiting_approval"
         => HasApproval(approvals, i, instances[i].step)
  /\ \A t \in Tasks :
       tasks[t].pc = "save" /\ tasks[t].status = "awaiting_approval"
         => HasApproval(approvals, tasks[t].instance, tasks[t].step)

\* create_for_instance inserts a row for the task's instance and step, and
\* the other steps inside apply_outcome leave the approvals alone.
LEMMA ApprovalsWritten ==
  ASSUME TypeInv, NEW t \in Tasks, Acts(t)
  PROVE  \/ approvals' = approvals
         \/ \E a \in Approvals :
              /\ CreateApproval(t, a)
              /\ approvals[a] = None
              /\ approvals'[a] # None
              /\ approvals'[a].instance = tasks[t].instance
              /\ approvals'[a].step = tasks[t].step
              /\ \A b \in Approvals \ {a} : approvals'[b] = approvals[b]
<1>1. ASSUME NEW a \in Approvals, CreateApproval(t, a)
      PROVE  /\ approvals[a] = None
             /\ approvals'[a] # None
             /\ approvals'[a].instance = tasks[t].instance
             /\ approvals'[a].step = tasks[t].step
             /\ \A b \in Approvals \ {a} : approvals'[b] = approvals[b]
  <2>1. /\ approvals[a] = None
        /\ \E row : approvals' = [approvals EXCEPT ![a] = row]
    BY <1>1 DEF CreateApproval
  <2>. QED
    BY <1>1, <2>1, CreateApprovalTyped DEF TypeInv, TypeOK
<1>. QED
  BY <1>1 DEF Acts, StartInstance, SubmitAnswer, ResumeAfterApproval,
     CannotDispatch, CreateTicket, Dispatch, MarkSent, MarkFailed, SaveProgress,
     DispatchStatementFails, tables

\* What an approval was inserted for stays on record.
LEMMA ApprovalStays ==
  ASSUME TypeInv, Listed, [Next]_vars, NEW i, NEW s, HasApproval(approvals, i, s)
  PROVE  HasApproval(approvals', i, s)
<1>1. PICK a \in Approvals : /\ approvals[a] # None
                             /\ approvals[a].instance = i
                             /\ approvals[a].step = s
  BY DEF HasApproval
<1>2. /\ approvals'[a] # None
      /\ approvals'[a].instance = i
      /\ approvals'[a].step = s
  BY <1>1, TwoKinds, ApprovalsWritten DEF Aside, SameApprovals
<1>. QED
  BY <1>2 DEF HasApproval

\* Only create_for_instance brings a task to save awaiting_approval.
LEMMA SavesAwaiting ==
  ASSUME TypeInv, NEW t \in Tasks, Acts(t),
         tasks'[t].pc = "save", tasks'[t].status = "awaiting_approval"
  PROVE  Carried(t) /\ \E a \in Approvals : CreateApproval(t, a)
<1>1. Idle.pc # "save"
  BY DEF Idle
<1>2. \A i, r : ~Headed(tasks'[t], i, r)
  BY <1>1 DEF Headed
<1>. HIDE DEF Headed
<1>3. CASE \E a \in Approvals : CreateApproval(t, a)
  BY <1>3, LocalsCarried
<1>4. CASE ~\E a \in Approvals : CreateApproval(t, a)
  BY <1>1, <1>2, <1>4, LocalsCarried, LocalsHeaded DEF Acts
<1>. QED
  BY <1>3, <1>4

\* Every step keeps the invariant.
LEMMA AwaitStep ==
  ASSUME TypeInv, Listed, AwaitInv, [Next]_vars
  PROVE  AwaitInv'
<1>1. ASSUME NEW t \in Tasks,
             tasks'[t].pc = "save", tasks'[t].status = "awaiting_approval"
      PROVE  HasApproval(approvals', tasks'[t].instance, tasks'[t].step)
  <2>1. CASE tasks'[t] = tasks[t]
    BY <1>1, <2>1, ApprovalStays DEF AwaitInv
  <2>2. CASE tasks'[t] # tasks[t]
    <3>1. Acts(t)
      BY <1>1, <2>2, TwoKinds DEF Aside, Only
    <3>2. PICK a \in Approvals : CreateApproval(t, a)
      BY <1>1, <3>1, SavesAwaiting
    <3>3. Carried(t)
      BY <1>1, <3>1, SavesAwaiting
    <3>. QED
      BY <3>2, <3>3, CreateApprovalTyped DEF HasApproval, Carried
  <2>. QED
    BY <2>1, <2>2
<1>2. ASSUME NEW i \in Instances, instances'[i] # None,
             instances'[i].status = "awaiting_approval"
      PROVE  HasApproval(approvals', i, instances'[i].step)
  <2>1. CASE instances'[i] = instances[i]
    BY <1>2, <2>1, ApprovalStays DEF AwaitInv
  <2>2. ASSUME NEW t \in Tasks, SaveProgress(t), i = tasks[t].instance
        PROVE  HasApproval(approvals', i, instances'[i].step)
    <3>1. HasApproval(approvals, i, tasks[t].step)
      BY <1>2, <2>2, SaveRow DEF AwaitInv
    <3>. QED
      BY <2>2, <3>1, SaveRow, ApprovalStays
  <2>3. \/ instances'[i] = instances[i]
        \/ \E t \in Tasks : SaveProgress(t) /\ i = tasks[t].instance
    BY <1>2, TwoKinds, InstancesWritten, StartRow, SaveRow DEF Aside
  <2>. QED
    BY <2>1, <2>2, <2>3
<1>. QED
  BY <1>1, <1>2 DEF AwaitInv

\* An instance shown as awaiting approval has an approval row for the step it
\* waits at, whatever handler was lost on the way: the row is inserted first
\* and never taken back.
THEOREM AwaitedIsThere == Spec => []AwaitingHasApproval
<1>1. Init => AwaitInv
  BY DEF Init, AwaitInv, Idle
<1>2. TypeInv /\ Listed /\ AwaitInv /\ [Next]_vars => AwaitInv'
  BY AwaitStep
<1>3. AwaitInv => AwaitingHasApproval
  BY DEF AwaitInv, AwaitingHasApproval, HasApproval
<1>. QED
  BY <1>1, <1>2, <1>3, TypeInvariant, PTL DEF Spec

----------------------------------------------------------------------------
(* The tickets table and the ticketing system.                             *)

HoldsTicket == {"dispatch", "mark_sent", "mark_failed"}

\* The inductive invariant: the row a task is about to settle is pending,
\* no other task is at work on it, and it is in the ticketing system when it
\* is about to be marked sent.
TicketInv ==
  /\ \A k \in external : tickets[k] # None
  /\ \A k \in Tickets :
       tickets[k] # None /\ tickets[k].status = "sent" => k \in external
  /\ \A t \in Tasks : tasks[t].pc \in HoldsTicket =>
       /\ tickets[tasks[t].ticket].status = "pending"
       /\ tasks[t].pc = "mark_sent" => tasks[t].ticket \in external
       /\ \A u \in Tasks :
            tasks[u].pc \in HoldsTicket /\ tasks[u].ticket = tasks[t].ticket
              => u = t

\* The task inserts the row k, and from there on may hold it.
Inserts(t, k) ==
  /\ tasks[t].pc = "create_ticket"
  /\ tickets[k] = None
  /\ tickets'[k] # None
  /\ tickets'[k].instance = tasks[t].instance
  /\ tickets'[k].status = "pending"
  /\ \A other \in Tickets \ {k} : tickets'[other] = tickets[other]
  /\ external' = external
  /\ tasks'[t].pc \in HoldsTicket =>
       tasks'[t].pc = "dispatch" /\ tasks'[t].ticket = k

\* The task settles the row it holds and lets go of it.
Settles(t, status) ==
  /\ tasks[t].pc = IF status = "sent" THEN "mark_sent" ELSE "mark_failed"
  /\ tickets'[tasks[t].ticket] # None
  /\ tickets'[tasks[t].ticket].instance = tickets[tasks[t].ticket].instance
  /\ tickets'[tasks[t].ticket].status = status
  /\ \A other \in Tickets \ {tasks[t].ticket} : tickets'[other] = tickets[other]
  /\ external' = external
  /\ tasks'[t].pc \notin HoldsTicket

\* The connector is called for the row the task holds.
Delivers(t) ==
  /\ tickets' = tickets
  /\ tasks[t].pc = "dispatch"
  /\ external \subseteq external'
  /\ external' \subseteq external \cup {tasks[t].ticket}
  /\ tasks'[t].ticket = tasks[t].ticket
  /\ tasks'[t].pc \in HoldsTicket
  /\ tasks'[t].pc = "mark_sent" => tasks[t].ticket \in external'

\* The task holds no ticket after the step and writes none.
KeepsOff(t) ==
  /\ tickets' = tickets
  /\ external' = external
  /\ tasks'[t].pc \notin HoldsTicket

\* The head of apply_outcome's loop lets go of a ticket.
LEMMA HeadedHolds ==
  ASSUME NEW k, NEW i, NEW r, Headed(k, i, r)
  PROVE  k.pc \notin HoldsTicket
  BY DEF Headed, Begins, HoldsTicket, Idle

\* tickets::create, whatever becomes of the task.
LEMMA InsertsRow ==
  ASSUME TypeInv, NEW t \in Tasks, NEW k \in Tickets, InsertTicket(t, k),
         UNCHANGED <<instances, approvals, external>>,
         tasks'[t].pc \in HoldsTicket =>
           tasks'[t].pc = "dispatch" /\ tasks'[t].ticket = k
  PROVE  Inserts(t, k)
<1>. DEFINE row == [instance |-> tasks[t].instance,
                    payload |-> Render(instances[tasks[t].instance].definition,
                                       tasks[t].answers),
                    status |-> "pending"]
<1>1. /\ tasks[t].pc = "create_ticket"
      /\ tickets[k] = None
      /\ tickets' = [tickets EXCEPT ![k] = row]
  BY DEF InsertTicket
<1>2. tickets'[k] # None /\ tickets'[k].instance = tasks[t].instance
  BY InsertTicketOK
<1>3. row.status = "pending"
  OBVIOUS
<1>. HIDE DEF row
<1>. QED
  BY <1>1, <1>2, <1>3 DEF Inserts, TypeInv, TypeOK

\* mark_sent and mark_failed, whatever becomes of the task.
LEMMA SettlesRow ==
  ASSUME TypeInv, NEW t \in Tasks, NEW status \in {"sent", "failed"},
         tasks[t].pc = IF status = "sent" THEN "mark_sent" ELSE "mark_failed",
         tickets' = mark(tasks[t].ticket, status),
         UNCHANGED <<instances, approvals, external>>,
         tasks'[t].pc \notin HoldsTicket
  PROVE  Settles(t, status)
<1>. DEFINE k == tasks[t].ticket
            row == [tickets[k] EXCEPT !.status = status]
<1>1. k \in Tickets /\ tickets[k] # None
  BY DEF TypeInv, TasksOK, TaskOK, Dispatching
<1>2. tickets[k] \in Ticket
  BY <1>1 DEF TypeInv, TypeOK
<1>3. row \in Ticket /\ row.instance = tickets[k].instance /\ row.status = status
  BY <1>2 DEF Ticket, DispatchStatus
<1>4. row # None
  BY <1>3, NoneAssumption
<1>5. tickets' = [tickets EXCEPT ![k] = row]
  BY DEF mark
<1>. HIDE DEF row
<1>. QED
  BY <1>1, <1>3, <1>4, <1>5 DEF Settles, TypeInv, TypeOK

\* What the steps inside apply_outcome do to tickets.
LEMMA TicketKinds ==
  ASSUME TypeInv, NEW t \in Tasks, Acts(t)
  PROVE  \/ \E k \in Tickets : Inserts(t, k)
         \/ Settles(t, "sent")
         \/ Settles(t, "failed")
         \/ Delivers(t)
         \/ KeepsOff(t)
<1>1. CASE \/ \E i \in Instances, d \in Definitions, u \in Users :
                StartInstance(t, i, d, u)
           \/ \E i \in Instances, field_key \in FieldKeys, value \in Values :
                SubmitAnswer(t, i, field_key, value)
           \/ ResumeAfterApproval(t)
  <2>1. tasks'[t].pc \notin HoldsTicket
    BY <1>1, LocalsHeaded, HeadedHolds
  <2>2. tickets' = tickets /\ external' = external
    BY <1>1 DEF StartInstance, SubmitAnswer, ResumeAfterApproval, tables
  <2>. QED
    BY <2>1, <2>2 DEF KeepsOff
<1>2. CASE (\E a \in Approvals : CreateApproval(t, a)) \/ CannotDispatch(t)
           \/ SaveProgress(t)
  <2>1. tasks'[t].pc \notin HoldsTicket
    BY <1>2, LocalsCarried DEF HoldsTicket, Idle
  <2>2. tickets' = tickets /\ external' = external
    BY <1>2 DEF CreateApproval, CannotDispatch, SaveProgress, tables
  <2>. QED
    BY <2>1, <2>2 DEF KeepsOff
<1>3. ASSUME NEW k \in Tickets, CreateTicket(t, k)
      PROVE  Inserts(t, k)
  BY <1>3, LocalsCarried, InsertsRow DEF CreateTicket
<1>4. ASSUME NEW created \in BOOLEAN, NEW reported \in BOOLEAN,
             Dispatch(t, created, reported)
      PROVE  Delivers(t)
  <2>1. /\ tasks[t].pc = "dispatch"
        /\ reported => created
        /\ external' = IF created THEN external \cup {tasks[t].ticket} ELSE external
        /\ tickets' = tickets
    BY <1>4 DEF Dispatch, tables
  <2>2. /\ tasks'[t].pc = IF reported THEN "mark_sent" ELSE "mark_failed"
        /\ tasks'[t].ticket = tasks[t].ticket
    BY <1>4, LocalsCarried
  <2>. QED
    BY <2>1, <2>2 DEF Delivers, HoldsTicket
<1>5. CASE MarkSent(t)
  BY <1>5, LocalsHeaded, HeadedHolds, SettlesRow DEF MarkSent
<1>6. CASE MarkFailed(t)
  <2>1. tasks'[t].pc \notin HoldsTicket
    BY <1>6, LocalsCarried DEF HoldsTicket
  <2>. QED
    BY <1>6, <2>1, SettlesRow DEF MarkFailed
<1>7. CASE DispatchStatementFails(t)
  <2>1. tasks'[t].pc \notin HoldsTicket
    BY <1>7, LocalsCarried DEF HoldsTicket
  <2>2. UNCHANGED <<instances, approvals, external>>
    BY <1>7 DEF DispatchStatementFails
  <2>3. \/ tickets' = tickets
        \/ \E k \in Tickets : InsertTicket(t, k)
        \/ tasks[t].pc = "mark_sent" /\ tickets' = mark(tasks[t].ticket, "sent")
        \/ tasks[t].pc = "mark_failed" /\ tickets' = mark(tasks[t].ticket, "failed")
    BY <1>7 DEF DispatchStatementFails
  <2>. QED
    BY <2>1, <2>2, <2>3, InsertsRow, SettlesRow DEF KeepsOff
<1>. QED
  BY <1>1, <1>2, <1>3, <1>4, <1>5, <1>6, <1>7 DEF Acts

\* Every step keeps the invariant, and no settled row is written again.
LEMMA TicketStep ==
  ASSUME TypeInv, Listed, TicketInv, [Next]_vars
  PROVE  /\ TicketInv'
         /\ \A k \in Tickets :
              tickets[k] # None /\ tickets[k].status # "pending"
                => tickets'[k] = tickets[k]
<1>1. \A t \in Tasks : tasks[t].pc \in HoldsTicket =>
        tasks[t].ticket \in Tickets /\ tickets[tasks[t].ticket] # None
  BY DEF TypeInv, TasksOK, TaskOK, Dispatching, HoldsTicket
<1>2. external \subseteq Tickets
  BY DEF TypeInv, TypeOK
<1>3. CASE Aside
  BY <1>3 DEF Aside, TicketInv, HoldsTicket
<1>4. ASSUME NEW t \in Tasks, Only(t), NEW k \in Tickets, Inserts(t, k)
      PROVE  /\ TicketInv'
             /\ \A n \in Tickets :
                  tickets[n] # None /\ tickets[n].status # "pending"
                    => tickets'[n] = tickets[n]
  BY <1>1, <1>2, <1>4 DEF Only, Inserts, TicketInv, HoldsTicket
<1>5. ASSUME NEW t \in Tasks, Only(t), NEW status \in {"sent", "failed"},
             Settles(t, status)
      PROVE  /\ TicketInv'
             /\ \A n \in Tickets :
                  tickets[n] # None /\ tickets[n].status # "pending"
                    => tickets'[n] = tickets[n]
  <2>1. tasks[t].pc \in HoldsTicket
    BY <1>5 DEF Settles, HoldsTicket
  <2>. QED
    BY <1>1, <1>2, <1>5, <2>1 DEF Only, Settles, TicketInv
<1>6. ASSUME NEW t \in Tasks, Only(t), Delivers(t)
      PROVE  TicketInv' /\ tickets' = tickets
  <2>1. tasks[t].pc \in HoldsTicket
    BY <1>6 DEF Delivers, HoldsTicket
  <2>. QED
    BY <1>1, <1>2, <1>6, <2>1 DEF Only, Delivers, TicketInv
<1>7. ASSUME NEW t \in Tasks, Only(t), KeepsOff(t)
      PROVE  TicketInv' /\ tickets' = tickets
  BY <1>7 DEF Only, KeepsOff, TicketInv
<1>8. CASE \E t \in Tasks : Only(t) /\ Acts(t)
  BY <1>4, <1>5, <1>6, <1>7, <1>8, TicketKinds
<1>. QED
  BY <1>3, <1>8, TwoKinds DEF Aside

\* TicketInv is an invariant.
LEMMA TicketInvariant == Spec => []TicketInv
<1>1. Init => TicketInv
  BY DEF Init, TicketInv, HoldsTicket, Idle
<1>2. TypeInv /\ Listed /\ TicketInv /\ [Next]_vars => TicketInv'
  BY TicketStep
<1>. QED
  BY <1>1, <1>2, TypeInvariant, PTL DEF Spec

\* Nothing is created in the ticketing system without a row here, and a row
\* marked sent stands for a ticket that exists there.
THEOREM TicketsAreReal == Spec => []TicketsAgree
<1>1. TicketInv => TicketsAgree
  BY DEF TicketInv, TicketsAgree
<1>. QED
  BY <1>1, TicketInvariant, PTL

\* A ticket row that is sent or failed never changes again, however many
\* handlers are at work on its instance: no two of them hold the same row.
THEOREM TicketStays == Spec => TicketSettlesOnce
<1>. DEFINE Settled == \A k \in Tickets :
       tickets[k] # None /\ tickets[k].status # "pending"
         => tickets'[k] = tickets[k]
<1>1. TypeInv /\ Listed /\ TicketInv /\ [Next]_vars => [Settled]_vars
  BY TicketStep
<1>. QED
  BY <1>1, TypeInvariant, TicketInvariant, PTL DEF Spec, TicketSettlesOnce

----------------------------------------------------------------------------
(***************************************************************************)
(* No instance gets past what its graph puts in the way: without an        *)
(* approval no ticket, where every way to a ticket needs one, and without  *)
(* a ticket no completion, where every way to completion files one.        *)
(* Proved for every graph, interleaving, loss of handlers and restart.     *)
(***************************************************************************)

----------------------------------------------------------------------------
(* Fences: sets of steps an instance cannot leave by answering questions,  *)
(* by branches or by a rejection.                                          *)

Fenced(g, A) ==
  /\ g.entry_step_id \in A
  /\ \A s \in A \cap DOMAIN g.steps :
       /\ g.steps[s].kind \in {"question", "branch"}
            => Successors(g.steps[s]) \subseteq A
       /\ g.steps[s].kind = "wait_for_approval" => g.steps[s].on_reject \in A

\* A fence that approving does not lead out of either.
ApprovalsInside(g, A) ==
  \A s \in A \cap DOMAIN g.steps :
    g.steps[s].kind = "wait_for_approval" => g.steps[s].on_approve \in A

ApprovalFence(g, A) ==
  /\ Fenced(g, A)
  /\ \A s \in A \cap DOMAIN g.steps : g.steps[s].kind # "submit_ticket"

TicketFence(g, A) ==
  /\ Fenced(g, A)
  /\ ApprovalsInside(g, A)
  /\ \A s \in A \cap DOMAIN g.steps :
       ~(g.steps[s].kind = "end" /\ g.steps[s].outcome = "completed")

\* The graphs the properties are about have such fences.
LEMMA NeedsFences ==
  ASSUME NEW g
  PROVE  /\ NeedsApproval(g) => \E A \in SUBSET StepIds : ApprovalFence(g, A)
         /\ NeedsTicket(g) => \E A \in SUBSET StepIds : TicketFence(g, A)
<1>0. \A step :
        /\ step.kind = "question" => Successors(step) = {step.next}
        /\ step.kind = "branch" => Successors(step) = {step.on_true, step.on_false}
        /\ step.kind = "wait_for_approval" =>
             Successors(step) = {step.on_approve, step.on_reject}
  BY DEF Successors
<1>1. ASSUME NeedsApproval(g)
      PROVE  \E A \in SUBSET StepIds : ApprovalFence(g, A)
  <2>1. PICK A \in SUBSET StepIds :
          /\ g.entry_step_id \in A
          /\ \A s \in A \cap DOMAIN g.steps :
               /\ g.steps[s].kind # "submit_ticket"
               /\ \A next \in Successors(g.steps[s]) :
                    \/ next \in A
                    \/ /\ g.steps[s].kind = "wait_for_approval"
                       /\ next = g.steps[s].on_approve
                       /\ next # g.steps[s].on_reject
    BY <1>1 DEF NeedsApproval, Guarded
  <2>2. ASSUME NEW s \in A \cap DOMAIN g.steps,
               g.steps[s].kind \in {"question", "branch"}
        PROVE  Successors(g.steps[s]) \subseteq A
    BY <2>1, <2>2
  <2>3. ASSUME NEW s \in A \cap DOMAIN g.steps,
               g.steps[s].kind = "wait_for_approval"
        PROVE  g.steps[s].on_reject \in A
    BY <1>0, <2>1, <2>3
  <2>. QED
    BY <2>1, <2>2, <2>3 DEF ApprovalFence, Fenced
<1>2. ASSUME NeedsTicket(g)
      PROVE  \E A \in SUBSET StepIds : TicketFence(g, A)
  <2>1. PICK A \in SUBSET StepIds :
          /\ g.entry_step_id \in A
          /\ \A s \in A \cap DOMAIN g.steps :
               /\ ~(g.steps[s].kind = "end" /\ g.steps[s].outcome = "completed")
               /\ \A next \in Successors(g.steps[s]) :
                    next \in A \/ g.steps[s].kind = "submit_ticket"
    BY <1>2 DEF NeedsTicket, Guarded
  <2>2. ASSUME NEW s \in A \cap DOMAIN g.steps,
               g.steps[s].kind # "submit_ticket"
        PROVE  Successors(g.steps[s]) \subseteq A
    BY <2>1, <2>2
  <2>3. ASSUME NEW s \in A \cap DOMAIN g.steps,
               g.steps[s].kind = "wait_for_approval"
        PROVE  g.steps[s].on_reject \in A /\ g.steps[s].on_approve \in A
    BY <1>0, <2>2, <2>3
  <2>. QED
    BY <2>1, <2>2, <2>3 DEF TicketFence, ApprovalsInside, Fenced
<1>. QED
  BY <1>1, <1>2

\* So do the engine calls, but for one that resumes with an approval or past
\* a ticket.
LEMMA EngineStays ==
  ASSUME NEW g, NEW A, Fenced(g, A), NEW answers
  PROVE  /\ engine_start(g).step \in A
         /\ \A s \in A : \A field_key, value :
              engine_submit_answer(g, s, answers, field_key, value).step \in A
         /\ \A s \in A : \A decision :
              (decision # "approve" \/ ApprovalsInside(g, A)) =>
                engine_resume_after_approval(g, s, answers, decision).step \in A
<1>0. /\ \A e, s : Error(e, s).step = s
      /\ \A x \in A \cap DOMAIN g.steps :
           g.steps[x].kind = "branch" => Successors(g.steps[x]) \subseteq A
  BY DEF Error, Fenced
<1>1. engine_start(g).step \in A
  BY <1>0, AdvanceStays DEF engine_start, Fenced
<1>2. ASSUME NEW s \in A, NEW field_key, NEW value
      PROVE  engine_submit_answer(g, s, answers, field_key, value).step \in A
  <2>1. s \in DOMAIN g.steps /\ g.steps[s].kind = "question"
          => g.steps[s].next \in A
    BY DEF Fenced, Successors
  <2>. QED
    BY <1>0, <2>1, AdvanceStays DEF engine_submit_answer
<1>3. ASSUME NEW s \in A, NEW decision,
             decision # "approve" \/ ApprovalsInside(g, A)
      PROVE  engine_resume_after_approval(g, s, answers, decision).step \in A
  <2>1. s \in DOMAIN g.steps /\ g.steps[s].kind = "wait_for_approval" =>
          (IF decision = "approve" THEN g.steps[s].on_approve
                                   ELSE g.steps[s].on_reject) \in A
    BY <1>3 DEF Fenced, ApprovalsInside
  <2>. QED
    BY <1>0, <2>1, AdvanceStays DEF engine_resume_after_approval
<1>. QED
  BY <1>1, <1>2, <1>3

----------------------------------------------------------------------------
(* An instance inside a fence.                                             *)

\* Everything on record for the instance, and every handler at work on it,
\* is at a step inside the fence.
Within(A, i) ==
  /\ instances[i].step \in A
  /\ \A a \in Approvals :
       approvals[a] # None /\ approvals[a].instance = i => approvals[a].step \in A
  /\ \A t \in Tasks :
       tasks[t].pc \in Applying /\ tasks[t].instance = i => tasks[t].step \in A

\* A task inside apply_outcome after a step was there before, or comes from
\* an engine call.
LEMMA ActsLocals ==
  ASSUME TypeInv, NEW t \in Tasks, Acts(t), tasks'[t].pc \in Applying
  PROVE  \/ Carried(t) /\ tasks[t].pc \in Applying
         \/ \E i \in Instances, d \in Definitions, u \in Users :
              /\ StartInstance(t, i, d, u)
              /\ tasks'[t].instance = i
              /\ tasks'[t].step = engine_start(Definition[d].graph).step
         \/ \E i \in Instances, field_key \in FieldKeys, value \in Values :
              /\ SubmitAnswer(t, i, field_key, value)
              /\ tasks'[t].instance = i
              /\ tasks'[t].step =
                   engine_submit_answer(Graph(i), instances[i].step,
                     instances[i].answers, field_key, value).step
         \/ /\ ResumeAfterApproval(t)
            /\ tasks'[t].instance = tasks[t].instance
            /\ tasks'[t].step =
                 engine_resume_after_approval(Graph(tasks[t].instance),
                   approvals[tasks[t].approval].step,
                   instances[tasks[t].instance].answers, tasks[t].decision).step
         \/ MarkSent(t) /\ tasks'[t].instance = tasks[t].instance
<1>1. Idle.pc \notin Applying
  BY DEF Idle, Applying, Dispatching
<1>2. \A i, r : Headed(tasks'[t], i, r) =>
        tasks'[t].instance = i /\ tasks'[t].step = r.step
  BY <1>1 DEF Headed
<1>3. CASE (\E a \in Approvals : CreateApproval(t, a)) \/ CannotDispatch(t)
           \/ (\E k \in Tickets : CreateTicket(t, k))
           \/ (\E created, reported \in BOOLEAN : Dispatch(t, created, reported))
           \/ MarkFailed(t) \/ DispatchStatementFails(t)
  <2>1. Carried(t)
    BY <1>3, LocalsCarried
  <2>2. tasks[t].pc \in Applying
    BY <1>3 DEF CreateApproval, CannotDispatch, CreateTicket, InsertTicket,
       Dispatch, MarkFailed, DispatchStatementFails, Applying, Dispatching
  <2>. QED
    BY <2>1, <2>2
<1>4. ~SaveProgress(t)
  BY <1>1, LocalsCarried
<1>5. ASSUME NEW i \in Instances, NEW d \in Definitions, NEW u \in Users,
             StartInstance(t, i, d, u)
      PROVE  /\ tasks'[t].instance = i
             /\ tasks'[t].step = engine_start(Definition[d].graph).step
  BY <1>2, <1>5, LocalsHeaded
<1>6. ASSUME NEW i \in Instances, NEW field_key \in FieldKeys,
             NEW value \in Values, SubmitAnswer(t, i, field_key, value)
      PROVE  /\ tasks'[t].instance = i
             /\ tasks'[t].step =
                  engine_submit_answer(Graph(i), instances[i].step,
                    instances[i].answers, field_key, value).step
  BY <1>2, <1>6, LocalsHeaded
<1>7. ASSUME ResumeAfterApproval(t)
      PROVE  /\ tasks'[t].instance = tasks[t].instance
             /\ tasks'[t].step =
                  engine_resume_after_approval(Graph(tasks[t].instance),
                    approvals[tasks[t].approval].step,
                    instances[tasks[t].instance].answers, tasks[t].decision).step
  BY <1>2, <1>7, LocalsHeaded
<1>8. MarkSent(t) => tasks'[t].instance = tasks[t].instance
  BY <1>2, LocalsHeaded
<1>. QED
  BY <1>3, <1>4, <1>5, <1>6, <1>7, <1>8 DEF Acts

\* An instance stays inside a fence as long as no approval and no ticket
\* leads it out.
LEMMA WithinStep ==
  ASSUME TypeInv, Listed, [Next]_vars,
         NEW i \in Instances, instances'[i] # None, NEW A,
         Fenced(Definition[instances'[i].definition].graph, A),
         instances[i] # None => Within(A, i),
         \A t \in Tasks :
           /\ tasks[t].pc = "resume" /\ tasks[t].instance = i =>
                \/ tasks[t].decision # "approve"
                \/ ApprovalsInside(Graph(i), A)
           /\ MarkSent(t) => tasks[t].instance # i
  PROVE  Within(A, i)'
<1>1. instances[i] # None =>
        /\ Definition[instances'[i].definition].graph = Graph(i)
        /\ Fenced(Graph(i), A)
  BY TypeInvStep DEF Persists, Graph
<1>2. \A t \in Tasks : tasks[t].pc # "idle" =>
        tasks[t].instance \in Instances /\ instances[tasks[t].instance] # None
  BY DEF TypeInv, TasksOK, TaskOK
<1>3. "idle" \notin Applying
  BY DEF Applying, Dispatching
<1>4. ASSUME NEW t \in Tasks, tasks'[t].pc \in Applying, tasks'[t].instance = i
      PROVE  tasks'[t].step \in A
  <2>1. CASE tasks'[t] = tasks[t]
    BY <1>2, <1>3, <1>4, <2>1 DEF Within
  <2>2. CASE tasks'[t] # tasks[t]
    <3>1. Acts(t)
      BY <1>4, <2>2, TwoKinds DEF Aside, Only, Applying, Dispatching
    <3>2. CASE Carried(t) /\ tasks[t].pc \in Applying
      BY <1>2, <1>3, <1>4, <3>2 DEF Within, Carried
    <3>3. ASSUME NEW d \in Definitions, NEW u \in Users,
                 StartInstance(t, i, d, u),
                 tasks'[t].step = engine_start(Definition[d].graph).step
          PROVE  tasks'[t].step \in A
      BY <3>3, StartRow, EngineStays
    <3>4. ASSUME NEW field_key \in FieldKeys, NEW value \in Values,
                 SubmitAnswer(t, i, field_key, value),
                 tasks'[t].step =
                   engine_submit_answer(Graph(i), instances[i].step,
                     instances[i].answers, field_key, value).step
          PROVE  tasks'[t].step \in A
      <4>1. instances[i] # None
        BY <3>4 DEF SubmitAnswer
      <4>2. instances[i].step \in A /\ Fenced(Graph(i), A)
        BY <1>1, <4>1 DEF Within
      <4>. QED
        BY <3>4, <4>2, EngineStays
    <3>5. ASSUME ResumeAfterApproval(t), tasks[t].instance = i,
                 tasks'[t].step =
                   engine_resume_after_approval(Graph(i),
                     approvals[tasks[t].approval].step,
                     instances[i].answers, tasks[t].decision).step
          PROVE  tasks'[t].step \in A
      <4>1. tasks[t].pc = "resume"
        BY <3>5 DEF ResumeAfterApproval
      <4>2. /\ instances[i] # None
            /\ tasks[t].approval \in Approvals
            /\ approvals[tasks[t].approval] # None
            /\ approvals[tasks[t].approval].instance = i
        BY <3>5, <4>1 DEF TypeInv, TasksOK, TaskOK
      <4>3. approvals[tasks[t].approval].step \in A /\ Fenced(Graph(i), A)
        BY <1>1, <4>2 DEF Within
      <4>4. tasks[t].decision # "approve" \/ ApprovalsInside(Graph(i), A)
        BY <3>5, <4>1
      <4>. QED
        BY <3>5, <4>3, <4>4, EngineStays
    <3>. QED
      BY <1>4, <3>1, <3>2, <3>3, <3>4, <3>5, ActsLocals
  <2>. QED
    BY <2>1, <2>2
<1>5. ASSUME NEW a \in Approvals, approvals'[a] # None, approvals'[a].instance = i
      PROVE  approvals'[a].step \in A
  <2>1. CASE /\ approvals[a] # None
             /\ approvals'[a].instance = approvals[a].instance
             /\ approvals'[a].step = approvals[a].step
    <3>1. instances[i] # None
      BY <1>5, <2>1 DEF TypeInv, Rooted
    <3>. QED
      BY <1>5, <2>1, <3>1 DEF Within
  <2>2. ASSUME NEW t \in Tasks, CreateApproval(t, a),
               approvals'[a].instance = tasks[t].instance,
               approvals'[a].step = tasks[t].step
        PROVE  approvals'[a].step \in A
    <3>1. tasks[t].pc = "create_approval"
      BY <2>2 DEF CreateApproval
    <3>2. instances[i] # None
      BY <1>2, <1>5, <2>2, <3>1
    <3>. QED
      BY <1>5, <2>2, <3>1, <3>2 DEF Within, Applying
  <2>. QED
    BY <1>5, <2>1, <2>2, TwoKinds, ApprovalsWritten DEF Aside, SameApprovals
<1>6. instances'[i].step \in A
  <2>1. CASE instances'[i] = instances[i]
    BY <2>1 DEF Within
  <2>2. ASSUME NEW t \in Tasks, NEW d \in Definitions, NEW u \in Users,
               StartInstance(t, i, d, u)
        PROVE  instances'[i].step \in A
    BY <2>2, StartRow, EngineStays
  <2>3. ASSUME NEW t \in Tasks, SaveProgress(t), tasks[t].instance = i
        PROVE  instances'[i].step \in A
    BY <2>3, SaveRow DEF Within, Applying
  <2>. QED
    BY <2>1, <2>2, <2>3, TwoKinds, InstancesWritten, StartRow, SaveRow DEF Aside
<1>. QED
  BY <1>4, <1>5, <1>6 DEF Within

----------------------------------------------------------------------------
(* No ticket without an approval.                                          *)

Approved(i) ==
  \E a \in Approvals : /\ approvals[a] # None
                       /\ approvals[a].instance = i
                       /\ approvals[a].status = "approved"

\* The inductive invariant: until one of its approvals is approved, an
\* instance is inside every fence that keeps tickets out, and has none.
ApprovalFenceInv ==
  \A i \in Instances, A \in SUBSET StepIds :
    instances[i] # None /\ ~Approved(i) /\ ApprovalFence(Graph(i), A) =>
      /\ Within(A, i)
      /\ \A k \in Tickets : tickets[k] # None => tickets[k].instance # i

\* An approval, once given, stays.
LEMMA ApprovedStays ==
  ASSUME TypeInv, Listed, [Next]_vars, NEW i, Approved(i)
  PROVE  Approved(i)'
<1>1. PICK a \in Approvals : /\ approvals[a] # None
                             /\ approvals[a].instance = i
                             /\ approvals[a].status = "approved"
  BY DEF Approved
<1>2. /\ approvals'[a] # None
      /\ approvals'[a].instance = i
      /\ approvals'[a].status = "approved"
  BY <1>1, DecidedStays, TypeInvStep DEF Persists
<1>. QED
  BY <1>2 DEF Approved

\* Every step keeps the invariant.
LEMMA ApprovalFenceStep ==
  ASSUME TypeInv, Listed, ResumeFollowsRecord, ApprovalFenceInv, [Next]_vars
  PROVE  ApprovalFenceInv'
<1>. SUFFICES ASSUME NEW i \in Instances, NEW A \in SUBSET StepIds,
                     instances'[i] # None, ~Approved(i)',
                     ApprovalFence(Graph(i), A)'
              PROVE  /\ Within(A, i)'
                     /\ \A k \in Tickets : tickets'[k] # None
                          => tickets'[k].instance # i
  BY DEF ApprovalFenceInv
<1>1. ~Approved(i)
  BY ApprovedStays
<1>2. /\ ApprovalFence(Definition[instances'[i].definition].graph, A)
      /\ Fenced(Definition[instances'[i].definition].graph, A)
  BY DEF Graph, ApprovalFence
<1>3. instances[i] # None =>
        Definition[instances'[i].definition].graph = Graph(i)
  BY TypeInvStep DEF Persists, Graph
<1>4. instances[i] # None => /\ ApprovalFence(Graph(i), A)
                             /\ Within(A, i)
                             /\ \A k \in Tickets : tickets[k] # None
                                  => tickets[k].instance # i
  BY <1>1, <1>2, <1>3 DEF ApprovalFenceInv
<1>5. ASSUME NEW t \in Tasks, tasks[t].pc \in Dispatching
      PROVE  tasks[t].instance # i
  <2>. SUFFICES ASSUME tasks[t].instance = i PROVE FALSE
    OBVIOUS
  <2>1. /\ instances[i] # None
        /\ tasks[t].step \in DOMAIN Graph(i).steps
        /\ Graph(i).steps[tasks[t].step].kind = "submit_ticket"
    BY <1>5 DEF TypeInv, TasksOK, TaskOK, Suits, Applying, Dispatching
  <2>2. tasks[t].step \in A
    BY <1>4, <1>5, <2>1 DEF Within, Applying
  <2>. QED
    BY <1>4, <2>1, <2>2 DEF ApprovalFence
<1>6. ASSUME NEW t \in Tasks, tasks[t].pc = "resume", tasks[t].instance = i
      PROVE  tasks[t].decision # "approve"
  <2>1. /\ tasks[t].approval \in Approvals
        /\ approvals[tasks[t].approval] # None
        /\ approvals[tasks[t].approval].instance = i
    BY <1>6 DEF TypeInv, TasksOK, TaskOK
  <2>2. approvals[tasks[t].approval].status # "approved"
    BY <1>1, <2>1 DEF Approved
  <2>. QED
    BY <1>6, <2>2 DEF ResumeFollowsRecord
<1>7. \A t \in Tasks : MarkSent(t) => tasks[t].instance # i
  BY <1>5 DEF MarkSent, Dispatching
<1>8. Within(A, i)'
  BY <1>2, <1>4, <1>6, <1>7, WithinStep
<1>9. ASSUME NEW k \in Tickets, tickets'[k] # None
      PROVE  tickets'[k].instance # i
  <2>1. CASE tickets[k] # None
    <3>1. tickets'[k].instance = tickets[k].instance
      BY <2>1, TypeInvStep DEF Persists
    <3>2. tickets[k].instance = i => instances[i] # None
      BY <2>1 DEF TypeInv, Rooted
    <3>. QED
      BY <1>4, <2>1, <3>1, <3>2
  <2>2. CASE tickets[k] = None
    <3>1. PICK t \in Tasks : Acts(t)
      BY <1>9, <2>2, TwoKinds DEF Aside
    <3>2. tasks[t].pc \in HoldsTicket =>
            tasks[t].ticket \in Tickets /\ tickets[tasks[t].ticket] # None
      BY DEF TypeInv, TasksOK, TaskOK, Dispatching, HoldsTicket
    <3>3. Inserts(t, k)
      BY <1>9, <2>2, <3>1, <3>2, TicketKinds
      DEF Inserts, Settles, Delivers, KeepsOff, HoldsTicket
    <3>. QED
      BY <1>5, <3>3 DEF Inserts, Dispatching
  <2>. QED
    BY <2>1, <2>2
<1>. QED
  BY <1>8, <1>9

\* If the graph puts an approval before every ticket, no ticket row exists
\* for an instance none of whose approvals was approved: rejection, expiry,
\* duplicated requests, lost handlers and restarts file nothing.
THEOREM ApprovalComesFirst == Spec => []NoTicketWithoutApproval
<1>1. Init => ApprovalFenceInv
  BY DEF Init, ApprovalFenceInv
<1>2. TypeInv /\ Listed /\ ResumeFollowsRecord /\ ApprovalFenceInv /\ [Next]_vars
        => ApprovalFenceInv'
  BY ApprovalFenceStep
<1>3. TypeInv /\ ApprovalFenceInv => NoTicketWithoutApproval
  <2>. SUFFICES ASSUME TypeInv, ApprovalFenceInv, NEW k \in Tickets,
                       tickets[k] # None,
                       instances[tickets[k].instance].definition \in ApprovalFirst
                PROVE  Approved(tickets[k].instance)
    BY DEF NoTicketWithoutApproval, Approved
  <2>. DEFINE i == tickets[k].instance
  <2>1. i \in Instances /\ instances[i] # None
    BY DEF TypeInv, TypeOK, Rooted, Ticket
  <2>2. NeedsApproval(Graph(i))
    BY DEF ApprovalFirst, Graph
  <2>3. PICK A \in SUBSET StepIds : ApprovalFence(Graph(i), A)
    BY <2>2, NeedsFences
  <2>. QED
    BY <2>1, <2>3 DEF ApprovalFenceInv
<1>. QED
  BY <1>1, <1>2, <1>3, TypeInvariant, BranchOnRecord, PTL DEF Spec

----------------------------------------------------------------------------
(* No completion without a ticket.                                         *)

Sent(i) ==
  \E k \in Tickets : /\ tickets[k] # None
                     /\ tickets[k].instance = i
                     /\ tickets[k].status = "sent"

\* The inductive invariant: until one of its tickets is sent, an instance is
\* inside every fence that keeps completion out.
TicketFenceInv ==
  \A i \in Instances, A \in SUBSET StepIds :
    instances[i] # None /\ ~Sent(i) /\ TicketFence(Graph(i), A) => Within(A, i)

\* Every step keeps the invariant.
LEMMA TicketFenceStep ==
  ASSUME TypeInv, Listed, TicketInv, TicketFenceInv, [Next]_vars
  PROVE  TicketFenceInv'
<1>. SUFFICES ASSUME NEW i \in Instances, NEW A \in SUBSET StepIds,
                     instances'[i] # None, ~Sent(i)', TicketFence(Graph(i), A)'
              PROVE  Within(A, i)'
  BY DEF TicketFenceInv
<1>1. ~Sent(i)
  BY TicketStep DEF Sent
<1>2. /\ TicketFence(Definition[instances'[i].definition].graph, A)
      /\ Fenced(Definition[instances'[i].definition].graph, A)
      /\ ApprovalsInside(Definition[instances'[i].definition].graph, A)
  BY DEF Graph, TicketFence
<1>3. instances[i] # None =>
        Definition[instances'[i].definition].graph = Graph(i)
  BY TypeInvStep DEF Persists, Graph
<1>4. instances[i] # None => Within(A, i) /\ ApprovalsInside(Graph(i), A)
  BY <1>1, <1>2, <1>3 DEF TicketFenceInv
<1>5. ASSUME NEW t \in Tasks, MarkSent(t)
      PROVE  tasks[t].instance # i
  <2>. DEFINE k == tasks[t].ticket
  <2>1. tasks[t].pc = "mark_sent"
    BY <1>5 DEF MarkSent
  <2>2. k \in Tickets /\ tickets[k].instance = tasks[t].instance
    BY <2>1 DEF TypeInv, TasksOK, TaskOK, Dispatching
  <2>3. Settles(t, "sent")
    BY <1>5, LocalsHeaded, HeadedHolds, SettlesRow DEF MarkSent
  <2>. QED
    BY <2>2, <2>3 DEF Settles, Sent
<1>6. ASSUME NEW t \in Tasks, tasks[t].pc = "resume", tasks[t].instance = i
      PROVE  ApprovalsInside(Graph(i), A)
  BY <1>4, <1>6 DEF TypeInv, TasksOK, TaskOK
<1>. QED
  BY <1>2, <1>4, <1>5, <1>6, WithinStep

\* If the graph puts a ticket before every completed End, an instance is only
\* shown as completed when one of its tickets was marked sent.
THEOREM TicketComesFirst == Spec => []CompletedHasTicket
<1>1. Init => TicketFenceInv
  BY DEF Init, TicketFenceInv
<1>2. TypeInv /\ Listed /\ TicketInv /\ TicketFenceInv /\ [Next]_vars
        => TicketFenceInv'
  BY TicketFenceStep
<1>3. TypeInv /\ StatusMatchesStep /\ TicketFenceInv => CompletedHasTicket
  <2>. SUFFICES ASSUME TypeInv, StatusMatchesStep, TicketFenceInv,
                       NEW i \in Instances, instances[i] # None,
                       instances[i].status = "completed",
                       instances[i].definition \in TicketFirst
                PROVE  Sent(i)
    BY DEF CompletedHasTicket, Sent
  <2>1. NeedsTicket(Graph(i))
    BY DEF TicketFirst, Graph
  <2>2. PICK A \in SUBSET StepIds : TicketFence(Graph(i), A)
    BY <2>1, NeedsFences
  <2>3. /\ instances[i].step \in DOMAIN Graph(i).steps
        /\ Graph(i).steps[instances[i].step].kind = "end"
        /\ Graph(i).steps[instances[i].step].outcome = "completed"
    BY DEF StatusMatchesStep, EndOutcomes
  <2>4. instances[i].step \notin A
    BY <2>2, <2>3 DEF TicketFence
  <2>. QED
    BY <2>2, <2>4 DEF TicketFenceInv, Within
<1>. QED
  BY <1>1, <1>2, <1>3, TypeInvariant, TicketInvariant, StatusAgrees, PTL DEF Spec

----------------------------------------------------------------------------
(***************************************************************************)
(* What holds when requests about one instance wait for each other and     *)
(* nothing fails: an instance waits for what is on record, never goes back *)
(* and files one ticket.  Proved for every graph and for every             *)
(* interleaving of requests about different instances.                     *)
(***************************************************************************)

----------------------------------------------------------------------------
(* The inductive invariant, one instance at a time.                        *)

\* The tasks that will write the instance without looking at it again.
AtWork == Applying \cup {"resume"}

TicketsOf(i) == {k \in Tickets : tickets[k] # None /\ tickets[k].instance = i}

\* No way from step s of g leads into T.
Past(g, s, T) ==
  \E ahead \in SUBSET StepIds :
    /\ s \in ahead
    /\ ahead \cap T = {}
    /\ \A p \in ahead \cap DOMAIN g.steps : Successors(g.steps[p]) \subseteq ahead

QuestionsFor(g, key) ==
  {p \in DOMAIN g.steps : g.steps[p].kind = "question" /\ g.steps[p].field_key = key}
Submits(g) == {p \in DOMAIN g.steps : g.steps[p].kind = "submit_ticket"}

Answered(g, s, key) == Past(g, s, QuestionsFor(g, key))
Filed(g, s) == Past(g, s, Submits(g))

FilesOne(i) == instances[i].definition \in FilingOnce /\ Unfailed(i)

\* A task at work on an instance that is not over has used up its approval,
\* and inserts the next one just before it saves.
StageWaits(t, i) ==
  /\ instances[i].status \notin Terminal
  /\ tasks[t].pc = "resume" =>
       /\ instances[i].status = "awaiting_approval"
       /\ approvals[tasks[t].approval].step = instances[i].step
  /\ tasks[t].pc = "save" /\ tasks[t].status = "awaiting_approval" =>
       \E a \in PendingFor(i) :
         PendingFor(i) = {a} /\ approvals[a].step = tasks[t].step
  /\ tasks[t].pc # "save" \/ tasks[t].status # "awaiting_approval" =>
       PendingFor(i) = {}

\* It holds the answers that are saved, and none that is still to be asked.
StageAnswers(t, i) ==
  instances[i].definition \in AskingOnce /\ tasks[t].pc \in Applying =>
    \A key \in FieldKeys :
      /\ instances[i].answers[key] # Absent
           => tasks[t].answers[key] = instances[i].answers[key]
      /\ tasks[t].answers[key] # Absent
           => Answered(Graph(i), tasks[t].step, key)

\* It has the ticket in hand, has given up, or is past it.
StageTicket(t, i) ==
  FilesOne(i) /\ TicketsOf(i) # {} =>
    \/ tasks[t].pc \in HoldsTicket
    \/ tasks[t].pc = "save" /\ tasks[t].status = "failed"
    \/ tasks[t].pc = "resume" /\ Filed(Graph(i), instances[i].step)
    \/ tasks[t].pc # "resume" /\ Filed(Graph(i), tasks[t].step)

Stage(t, i) == StageWaits(t, i) /\ StageAnswers(t, i) /\ StageTicket(t, i)

\* An instance nobody is at work on.
RestWaits(i) ==
  /\ \A a \in PendingFor(i) :
       /\ PendingFor(i) = {a}
       /\ approvals[a].step = instances[i].step
       /\ instances[i].status = "awaiting_approval"
  /\ instances[i].status = "awaiting_approval" /\ Unfailed(i)
       => PendingFor(i) # {}

RestTicket(i) ==
  FilesOne(i) /\ TicketsOf(i) # {} =>
    instances[i].status \in Terminal \/ Filed(Graph(i), instances[i].step)

Rest(i) == RestWaits(i) /\ RestTicket(i)

\* What its rows say at any time.
RowAnswers(i) ==
  instances[i].definition \in AskingOnce =>
    \A key \in FieldKeys :
      instances[i].answers[key] # Absent
        => Answered(Graph(i), instances[i].step, key)

RowTicket(i) == FilesOne(i) => \A k, other \in TicketsOf(i) : k = other

Phase(i) ==
  instances[i] # None =>
    /\ RowAnswers(i)
    /\ RowTicket(i)
    /\ \A t \in Tasks :
         tasks[t].instance = i /\ tasks[t].pc \in AtWork => Stage(t, i)
    /\ \/ \E t \in Tasks : tasks[t].instance = i /\ tasks[t].pc \in AtWork
       \/ Rest(i)

InPhase == \A i \in Instances : Phase(i)

SerialInv == OneTaskPerInstance /\ (faults = 0 => InPhase)


----------------------------------------------------------------------------
(* What lies behind an instance stays behind it.                           *)

\* In the graphs the properties are about, a question and a ticket that is
\* passed does not come again.
LEMMA OncePast ==
  ASSUME NEW g, NEW q \in DOMAIN g.steps
  PROVE  /\ AsksOnce(g) /\ g.steps[q].kind = "question" =>
              Answered(g, g.steps[q].next, g.steps[q].field_key)
         /\ FilesOnce(g) /\ g.steps[q].kind = "submit_ticket" =>
              Filed(g, g.steps[q].next)
<1>1. ASSUME AsksOnce(g), g.steps[q].kind = "question"
      PROVE  Answered(g, g.steps[q].next, g.steps[q].field_key)
  <2>. DEFINE T == QuestionsFor(g, g.steps[q].field_key)
  <2>1. PICK ahead \in SUBSET StepIds :
          /\ g.steps[q].next \in ahead
          /\ \A p \in ahead \cap DOMAIN g.steps :
               /\ ~(/\ g.steps[p].kind = "question"
                    /\ g.steps[p].field_key = g.steps[q].field_key)
               /\ Successors(g.steps[p]) \subseteq ahead
    BY <1>1 DEF AsksOnce, Beyond
  <2>2. ahead \cap T = {}
    BY <2>1 DEF QuestionsFor
  <2>. QED
    BY <2>1, <2>2 DEF Answered, Past
<1>2. ASSUME FilesOnce(g), g.steps[q].kind = "submit_ticket"
      PROVE  Filed(g, g.steps[q].next)
  <2>1. PICK ahead \in SUBSET StepIds :
          /\ g.steps[q].next \in ahead
          /\ \A p \in ahead \cap DOMAIN g.steps :
               /\ g.steps[p].kind # "submit_ticket"
               /\ Successors(g.steps[p]) \subseteq ahead
    BY <1>2 DEF FilesOnce, Beyond
  <2>2. ahead \cap Submits(g) = {}
    BY <2>1 DEF Submits
  <2>. QED
    BY <2>1, <2>2 DEF Filed, Past
<1>. QED
  BY <1>1, <1>2

\* What is behind a step is behind those that follow it and behind those
\* that auto_advance reaches from it.
LEMMA PastGoesOn ==
  ASSUME NEW g, NEW T, NEW s, Past(g, s, T)
  PROVE  /\ s \notin T
         /\ s \in DOMAIN g.steps =>
              \A next \in Successors(g.steps[s]) : Past(g, next, T)
         /\ \A answers : Past(g, auto_advance(g, s, answers).step, T)
<1>1. PICK ahead \in SUBSET StepIds :
        /\ s \in ahead
        /\ ahead \cap T = {}
        /\ \A p \in ahead \cap DOMAIN g.steps : Successors(g.steps[p]) \subseteq ahead
  BY DEF Past
<1>2. \A x \in ahead : Past(g, x, T)
  BY <1>1 DEF Past
<1>3. \A answers : auto_advance(g, s, answers).step \in ahead
  BY <1>1, AdvanceStays
<1>. QED
  BY <1>1, <1>2, <1>3

\* What an answer that the engine accepts leaves behind.
LEMMA SubmitPast ==
  ASSUME NEW g, NEW s, NEW answers, NEW field_key, NEW value,
         engine_submit_answer(g, s, answers, field_key, value).err = "none"
  PROVE  LET r == engine_submit_answer(g, s, answers, field_key, value) IN
         /\ s \in DOMAIN g.steps
         /\ g.steps[s].kind = "question"
         /\ g.steps[s].field_key = field_key
         /\ \A T : Past(g, s, T) \/ Past(g, g.steps[s].next, T) => Past(g, r.step, T)
<1>. DEFINE next == g.steps[s].next
            r == engine_submit_answer(g, s, answers, field_key, value)
<1>1. \A e, x : Error(e, x).err = e
  BY DEF Error
<1>2. /\ s \in DOMAIN g.steps
      /\ g.steps[s].kind = "question"
      /\ g.steps[s].field_key = field_key
      /\ r = auto_advance(g, next, Insert(answers, field_key, value))
  BY <1>1 DEF engine_submit_answer
<1>3. Successors(g.steps[s]) = {next}
  BY <1>2 DEF Successors
<1>4. ASSUME NEW T, Past(g, s, T) \/ Past(g, next, T)
      PROVE  Past(g, r.step, T)
  <2>1. Past(g, next, T)
    BY <1>2, <1>3, <1>4, PastGoesOn
  <2>. QED
    BY <1>2, <2>1, PastGoesOn
<1>. QED
  BY <1>2, <1>4

\* What a decision leaves behind.
LEMMA ResumePast ==
  ASSUME NEW g, NEW s, NEW answers, NEW decision,
         engine_resume_after_approval(g, s, answers, decision).err = "none",
         NEW T, Past(g, s, T)
  PROVE  Past(g, engine_resume_after_approval(g, s, answers, decision).step, T)
<1>. DEFINE r == engine_resume_after_approval(g, s, answers, decision)
<1>1. \A e, x : Error(e, x).err = e
  BY DEF Error
<1>2. /\ s \in DOMAIN g.steps
      /\ g.steps[s].kind = "wait_for_approval"
      /\ \E next \in {g.steps[s].on_approve, g.steps[s].on_reject} :
           r = auto_advance(g, next, answers)
  BY <1>1 DEF engine_resume_after_approval
<1>3. Successors(g.steps[s]) = {g.steps[s].on_approve, g.steps[s].on_reject}
  BY <1>2 DEF Successors
<1>4. \A next \in {g.steps[s].on_approve, g.steps[s].on_reject} : Past(g, next, T)
  BY <1>2, <1>3, PastGoesOn
<1>. HIDE DEF r
<1>5. Past(g, r.step, T)
  BY <1>2, <1>4, PastGoesOn
<1>. QED
  BY <1>5 DEF r

\* What a ticket leaves behind.
LEMMA TicketPast ==
  ASSUME NEW g, NEW s, NEW answers,
         engine_resume_after_ticket_dispatch(g, s, answers).err = "none"
  PROVE  LET r == engine_resume_after_ticket_dispatch(g, s, answers) IN
         /\ s \in DOMAIN g.steps
         /\ g.steps[s].kind = "submit_ticket"
         /\ \A T : Past(g, s, T) \/ Past(g, g.steps[s].next, T) => Past(g, r.step, T)
<1>. DEFINE next == g.steps[s].next
            r == engine_resume_after_ticket_dispatch(g, s, answers)
<1>1. \A e, x : Error(e, x).err = e
  BY DEF Error
<1>2. /\ s \in DOMAIN g.steps
      /\ g.steps[s].kind = "submit_ticket"
      /\ r = auto_advance(g, next, answers)
  BY <1>1 DEF engine_resume_after_ticket_dispatch
<1>3. Successors(g.steps[s]) = {next}
  BY <1>2 DEF Successors
<1>4. ASSUME NEW T, Past(g, s, T) \/ Past(g, next, T)
      PROVE  Past(g, r.step, T)
  <2>1. Past(g, next, T)
    BY <1>2, <1>3, <1>4, PastGoesOn
  <2>. QED
    BY <1>2, <2>1, PastGoesOn
<1>. QED
  BY <1>2, <1>4

----------------------------------------------------------------------------
(* A step is about one instance and leaves the phase of all others.        *)

Engaged(t, i) == tasks[t].instance = i /\ tasks[t].pc \in AtWork

\* The approvals that were there keep their step.
StepsKept ==
  \A a \in Approvals : approvals[a] # None => approvals'[a].step = approvals[a].step

\* Nothing that is on record for the instance changes, but for the time an
\* approval has left.
Untouched(i) ==
  /\ instances'[i] = instances[i]
  /\ PendingFor(i)' = PendingFor(i)
  /\ TicketsOf(i)' = TicketsOf(i)

\* The stage of a task that stands where it stood.
LEMMA StageStays ==
  ASSUME TypeInv, NEW i \in Instances, Untouched(i), StepsKept,
         NEW t \in Tasks, tasks'[t] = tasks[t], Engaged(t, i), Stage(t, i)
  PROVE  Stage(t, i)'
<1>1. /\ instances'[i] = instances[i]
      /\ PendingFor(i)' = PendingFor(i)
      /\ TicketsOf(i)' = TicketsOf(i)
  BY DEF Untouched
<1>2. StageWaits(t, i)'
  <2>1. tasks[t].pc = "resume" =>
          approvals'[tasks[t].approval].step = approvals[tasks[t].approval].step
    BY DEF TypeInv, TasksOK, TaskOK, StepsKept
  <2>2. \A a \in PendingFor(i) : approvals'[a].step = approvals[a].step
    BY DEF PendingFor, StepsKept
  <2>. HIDE DEF PendingFor
  <2>. QED
    BY <1>1, <2>1, <2>2 DEF Stage, StageWaits
<1>3. StageAnswers(t, i)'
  BY <1>1 DEF Stage, StageAnswers, Graph
<1>4. StageTicket(t, i)'
  <2>. HIDE DEF TicketsOf
  <2>. QED
    BY <1>1 DEF Stage, StageTicket, Graph, FilesOne, Unfailed
<1>. QED
  BY <1>2, <1>3, <1>4 DEF Stage

\* What is on record for the instance stays as it is.
LEMMA RowsStay ==
  ASSUME TypeInv, NEW i \in Instances, Untouched(i), StepsKept
  PROVE  /\ RowAnswers(i) => RowAnswers(i)'
         /\ RowTicket(i) => RowTicket(i)'
         /\ Rest(i) => Rest(i)'
<1>1. /\ instances'[i] = instances[i]
      /\ PendingFor(i)' = PendingFor(i)
      /\ TicketsOf(i)' = TicketsOf(i)
  BY DEF Untouched
<1>2. \A a \in PendingFor(i) : approvals'[a].step = approvals[a].step
  BY DEF PendingFor, StepsKept
<1>. HIDE DEF PendingFor, TicketsOf
<1>3. RowAnswers(i) => RowAnswers(i)'
  BY <1>1 DEF RowAnswers, Graph
<1>4. RowTicket(i) => RowTicket(i)'
  BY <1>1 DEF RowTicket, FilesOne, Unfailed
<1>5. RestWaits(i) => RestWaits(i)'
  BY <1>1, <1>2 DEF RestWaits, Unfailed
<1>6. RestTicket(i) => RestTicket(i)'
  BY <1>1 DEF RestTicket, Graph, FilesOne, Unfailed
<1>. QED
  BY <1>3, <1>4, <1>5, <1>6 DEF Rest

\* A step that leaves the rows of an instance and the tasks at work on it.
LEMMA PhaseStays ==
  ASSUME TypeInv, NEW i \in Instances, Phase(i), Untouched(i), StepsKept,
         \A t \in Tasks : tasks'[t] = tasks[t] \/ (~Engaged(t, i) /\ ~Engaged(t, i)')
  PROVE  Phase(i)'
<1>. SUFFICES ASSUME instances'[i] # None PROVE Phase(i)'
  BY DEF Phase
<1>1. instances[i] # None
  BY DEF Untouched
<1>2. RowAnswers(i)' /\ RowTicket(i)'
  BY <1>1, RowsStay DEF Phase
<1>3. ASSUME NEW t \in Tasks, Engaged(t, i)'
      PROVE  Stage(t, i)'
  <2>1. tasks'[t] = tasks[t] /\ Engaged(t, i)
    BY <1>3 DEF Engaged
  <2>2. Stage(t, i)
    BY <1>1, <2>1 DEF Phase, Engaged
  <2>. QED
    BY <2>1, <2>2, StageStays
<1>4. (\E t \in Tasks : Engaged(t, i)') \/ Rest(i)'
  <2>1. CASE \E t \in Tasks : Engaged(t, i)
    BY <2>1 DEF Engaged
  <2>2. CASE Rest(i)
    BY <2>2, RowsStay
  <2>. QED
    BY <1>1, <2>1, <2>2 DEF Phase, Engaged
<1>. QED
  BY <1>2, <1>3, <1>4 DEF Phase, Engaged

\* A step that writes rows of the instance i only.
Confined(i) ==
  /\ \A j \in Instances \ {i} : instances'[j] = instances[j]
  /\ \A a \in Approvals :
       approvals'[a] = approvals[a] \/
         /\ approvals'[a] # None
         /\ approvals'[a].instance = i
         /\ approvals[a] # None =>
              approvals[a].instance = i /\ approvals'[a].step = approvals[a].step
  /\ \A k \in Tickets :
       tickets'[k] = tickets[k] \/
         /\ tickets'[k] # None
         /\ tickets'[k].instance = i
         /\ tickets[k] # None => tickets[k].instance = i

\* The other instances stay in their phase.
LEMMA OthersStay ==
  ASSUME TypeInv, InPhase,
         NEW i \in Instances, Confined(i), NEW t \in Tasks, Only(t),
         tasks[t].pc = "idle" \/ tasks[t].instance = i,
         tasks'[t].pc = "idle" \/ tasks'[t].instance = i
  PROVE  \A j \in Instances \ {i} : Phase(j)'
<1>. SUFFICES ASSUME NEW j \in Instances, j # i PROVE Phase(j)'
  OBVIOUS
<1>1. Untouched(j)
  BY DEF Untouched, Confined, PendingFor, TicketsOf
<1>2. StepsKept
  BY DEF Confined, StepsKept
<1>3. "idle" \notin AtWork
  BY DEF AtWork, Applying, Dispatching
<1>4. ~Engaged(t, j) /\ ~Engaged(t, j)'
  BY <1>3 DEF Engaged
<1>. QED
  BY <1>1, <1>2, <1>4, PhaseStays DEF Only, InPhase

\* The task that moves is the only one of its instance.
LEMMA Alone ==
  ASSUME NEW t \in Tasks, NEW i \in Instances, Only(t),
         \/ tasks[t].instance = i /\ OneTaskPerInstance
         \/ tasks'[t].instance = i /\ OneTaskPerInstance'
  PROVE  \A u \in Tasks \ {t} : tasks[u].instance # i /\ tasks'[u].instance # i
  BY NoneAssumption DEF Only, OneTaskPerInstance

\* The phase of the instance a step is about, from the task that moves.
LEMMA OwnPhase ==
  ASSUME NEW t \in Tasks, NEW i \in Instances,
         \A u \in Tasks \ {t} : tasks'[u].instance # i,
         RowAnswers(i)', RowTicket(i)',
         \/ Engaged(t, i)' /\ Stage(t, i)'
         \/ ~Engaged(t, i)' /\ Rest(i)'
  PROVE  Phase(i)'
  BY DEF Phase, Engaged


----------------------------------------------------------------------------
(* Steps that run the engine.                                              *)

\* The locals that the head of apply_outcome's loop makes of a result.
LEMMA HeadMakes ==
  ASSUME NEW i, NEW r, NEW answers, r.err = "none"
  PROVE  LET k == ApplyOutcome(i, r, answers) IN
         /\ k.pc \in Begins /\ k.instance = i
         /\ k.step = r.step /\ k.answers = answers
         /\ k.pc = "save" => k.status # "awaiting_approval"
<1>. DEFINE Made(pc, status) ==
       [pc |-> pc, instance |-> i, approval |-> None, decision |-> None,
        step |-> r.step, answers |-> answers, status |-> status, ticket |-> None]
            pc == CASE r.outcome = "awaiting_approval" -> "create_approval"
                    [] r.outcome = "ready_to_submit_ticket" -> "create_ticket"
                    [] OTHER -> "save"
            status == CASE r.outcome = "awaiting_answer" -> "in_progress"
                        [] r.outcome = "ready_to_submit_ticket" -> None
                        [] OTHER -> r.outcome
<1>1. ApplyOutcome(i, r, answers) = Made(pc, status)
  BY DEF ApplyOutcome, Idle
<1>2. \A p, s : /\ Made(p, s).pc = p
                /\ Made(p, s).status = s
                /\ Made(p, s).instance = i
                /\ Made(p, s).step = r.step
                /\ Made(p, s).answers = answers
  OBVIOUS
<1>3. pc \in Begins /\ (pc = "save" => status # "awaiting_approval")
  BY DEF Begins
<1>. HIDE DEF Made, pc, status
<1>. QED
  BY <1>1, <1>2, <1>3

\* The stage a task is at when it enters apply_outcome's loop.
LEMMA StageBegins ==
  ASSUME NEW t \in Tasks, NEW i \in Instances, NEW r, NEW answers,
         r.err = "none", tasks'[t] = ApplyOutcome(i, r, answers),
         instances'[i].status \notin Terminal, PendingFor(i)' = {},
         instances'[i].definition \in AskingOnce =>
           \A key \in FieldKeys :
             /\ instances'[i].answers[key] # Absent
                  => answers[key] = instances'[i].answers[key]
             /\ answers[key] # Absent => Answered(Graph(i)', r.step, key),
         FilesOne(i)' /\ TicketsOf(i)' # {} => Filed(Graph(i)', r.step)
  PROVE  Engaged(t, i)' /\ Stage(t, i)'
<1>1. /\ tasks'[t].pc \in Begins
      /\ tasks'[t].instance = i
      /\ tasks'[t].step = r.step
      /\ tasks'[t].answers = answers
      /\ tasks'[t].pc = "save" => tasks'[t].status # "awaiting_approval"
  BY HeadMakes
<1>2. Engaged(t, i)' /\ tasks'[t].pc # "resume"
  BY <1>1 DEF Engaged, AtWork, Applying, Dispatching, Begins
<1>. HIDE DEF PendingFor, TicketsOf
<1>3. StageWaits(t, i)'
  BY <1>1, <1>2 DEF StageWaits
<1>4. StageAnswers(t, i)'
  BY <1>1 DEF StageAnswers
<1>5. StageTicket(t, i)'
  BY <1>1, <1>2 DEF StageTicket
<1>. QED
  BY <1>2, <1>3, <1>4, <1>5 DEF Stage

\* Once decided or filed, a request along a sound graph meets no error.
LEMMA UnfailedRuns ==
  ASSUME TypeInv, NEW i \in Instances, instances[i] # None, Unfailed(i),
         NEW s \in DOMAIN Graph(i).steps
  PROVE  /\ Graph(i).steps[s].kind = "wait_for_approval" =>
              /\ \A answers \in Answers, decision \in Decisions :
                   engine_resume_after_approval(Graph(i), s, answers, decision).err
                     = "none"
              /\ resolve_approver_user_id(instances[i].requester,
                   Graph(i).steps[s].approver_resolution) # None
         /\ Graph(i).steps[s].kind = "submit_ticket" =>
              \A answers \in Answers :
                engine_resume_after_ticket_dispatch(Graph(i), s, answers).err = "none"
<1>. DEFINE g == Graph(i)
            u == instances[i].requester
            resolution == g.steps[s].approver_resolution
<1>1. u \in Users /\ instances[i].definition \in Definitions /\ IsGraph(g)
  BY GraphOK DEF TypeInv, WorkflowInstance
<1>2. Unfailing(g, u)
  BY <1>1 DEF Unfailed, Sound, Graph
<1>3. users \in Directories
  BY DEF TypeInv, TypeOK
<1>4. ASSUME g.steps[s].kind \in {"wait_for_approval", "submit_ticket"},
             NEW next \in Successors(g.steps[s]), NEW answers \in Answers
      PROVE  auto_advance(g, next, answers).err = "none"
  BY <1>2, <1>4 DEF Unfailing
<1>5. ASSUME g.steps[s].kind = "wait_for_approval"
      PROVE  /\ resolution.type \in ResolutionTypes
             /\ Resolves(users, u, resolution)
  BY <1>1, <1>2, <1>3, <1>5 DEF Unfailing, IsGraph
<1>6. ASSUME g.steps[s].kind = "wait_for_approval",
             NEW answers \in Answers, NEW decision \in Decisions
      PROVE  engine_resume_after_approval(g, s, answers, decision).err = "none"
  <2>1. Successors(g.steps[s]) = {g.steps[s].on_approve, g.steps[s].on_reject}
    BY <1>6 DEF Successors
  <2>. QED
    BY <1>4, <1>6, <2>1 DEF engine_resume_after_approval
<1>7. ASSUME g.steps[s].kind = "submit_ticket", NEW answers \in Answers
      PROVE  engine_resume_after_ticket_dispatch(g, s, answers).err = "none"
  <2>1. Successors(g.steps[s]) = {g.steps[s].next}
    BY <1>7 DEF Successors
  <2>. QED
    BY <1>4, <1>7, <2>1 DEF engine_resume_after_ticket_dispatch
<1>8. ASSUME g.steps[s].kind = "wait_for_approval"
      PROVE  resolve_approver_user_id(u, resolution) # None
  <2>. HIDE DEF resolution, u, g
  <2>1. CASE resolution.type = "static"
    BY <1>1, <1>5, <1>8, <2>1, NoneAssumption DEF Resolves, resolve_approver_user_id
  <2>2. CASE resolution.type = "manager_of_requester"
    BY <1>5, <1>8, <2>2 DEF Resolves, resolve_approver_user_id
  <2>3. CASE resolution.type = "role_in_department"
    <3>. DEFINE holders == {h \in Users :
                              /\ users[h].is_active
                              /\ users[h].role = resolution.role
                              /\ users[h].department = users[u].department}
    <3>1. users[u].department # None /\ holders # {}
      BY <1>5, <1>8, <2>3 DEF Resolves
    <3>2. \E h \in holders : \A other \in holders :
            users[h].display_name <= users[other].display_name
      BY <3>1, LeastHolder DEF TypeInv
    <3>3. resolve_approver_user_id(u, resolution) =
            CHOOSE h \in holders : \A other \in holders :
              users[h].display_name <= users[other].display_name
      BY <2>3, <3>1 DEF resolve_approver_user_id
    <3>4. holders \subseteq Users
      OBVIOUS
    <3>. HIDE DEF holders
    <3>5. resolve_approver_user_id(u, resolution) \in holders
      BY <3>2, <3>3
    <3>. QED
      BY <3>4, <3>5, NoneAssumption
  <2>. QED
    BY <1>5, <1>8, <2>1, <2>2, <2>3 DEF ResolutionTypes
<1>. QED
  BY <1>6, <1>7, <1>8


\* The phase of an instance that none of the tasks is at work on.
LEMMA AtRest ==
  ASSUME NEW i \in Instances, instances[i] # None, Phase(i),
         \A t \in Tasks : ~Engaged(t, i)
  PROVE  Rest(i)
  BY DEF Phase, Engaged

LEMMA IdleIsAside ==
  ASSUME NEW t, NEW i
  PROVE  /\ tasks[t].pc \in {"idle", "decide"} => ~Engaged(t, i)
         /\ tasks'[t].pc \in {"idle", "decide"} => ~Engaged(t, i)'
         /\ tasks'[t] = Idle => ~Engaged(t, i)' /\ tasks'[t].pc = "idle"
  BY DEF Engaged, AtWork, Applying, Dispatching, Idle

\* start_instance: nothing is on record for the new instance.
LEMMA StartPhase ==
  ASSUME TypeInv, InPhase, OneTaskPerInstance', NEW t \in Tasks,
         NEW i \in Instances, NEW d \in Definitions, NEW u \in Users,
         StartInstance(t, i, d, u)
  PROVE  InPhase'
<1>. DEFINE r == engine_start(Definition[d].graph)
<1>1. /\ tasks[t].pc = "idle" /\ r.err = "none"
      /\ tasks' = [tasks EXCEPT ![t] = ApplyOutcome(i, r, NoAnswers)]
      /\ UNCHANGED <<approvals, tickets>>
  BY DEF StartInstance
<1>2. tasks'[t] = ApplyOutcome(i, r, NoAnswers) /\ Only(t)
  BY <1>1 DEF TypeInv, TypeOK, Only
<1>3. tasks'[t].instance = i
  BY <1>1, <1>2, HeadMakes
<1>4. /\ instances[i] = None
      /\ instances'[i].answers = NoAnswers
      /\ instances'[i].status = "in_progress"
      /\ \A j \in Instances \ {i} : instances'[j] = instances[j]
  BY StartRow
<1>5. PendingFor(i)' = {} /\ TicketsOf(i)' = {}
  BY <1>1, <1>4 DEF TypeInv, Rooted, PendingFor, TicketsOf
<1>. HIDE DEF PendingFor, TicketsOf, r
<1>6. \A key \in FieldKeys : NoAnswers[key] = Absent
  BY DEF NoAnswers
<1>7. RowAnswers(i)' /\ RowTicket(i)'
  BY <1>4, <1>5, <1>6 DEF RowAnswers, RowTicket
<1>8. instances'[i].status \notin Terminal
  BY <1>4 DEF Terminal
<1>9. Engaged(t, i)' /\ Stage(t, i)'
  BY <1>1, <1>2, <1>4, <1>5, <1>6, <1>8, StageBegins
<1>10. Phase(i)'
  BY <1>2, <1>3, <1>7, <1>9, Alone, OwnPhase
<1>11. Confined(i)
  BY <1>1, <1>4 DEF Confined
<1>12. \A j \in Instances \ {i} : Phase(j)'
  BY <1>1, <1>2, <1>3, <1>11, OthersStay
<1>. QED
  BY <1>10, <1>12 DEF InPhase

\* submit_answer: the question it answers was not answered before.
LEMMA SubmitPhase ==
  ASSUME TypeInv, InPhase, OneTaskPerInstance', NEW t \in Tasks,
         NEW i \in Instances, NEW field_key \in FieldKeys, NEW value \in Values,
         SubmitAnswer(t, i, field_key, value)
  PROVE  InPhase'
<1>. DEFINE g == Graph(i)
            row == instances[i]
            r == engine_submit_answer(g, row.step, row.answers, field_key, value)
            answers == Insert(row.answers, field_key, value)
<1>1. /\ tasks[t].pc = "idle" /\ r.err = "none"
      /\ row # None /\ row.status = "in_progress"
      /\ tasks' = [tasks EXCEPT ![t] = ApplyOutcome(i, r, answers)]
      /\ UNCHANGED <<instances, approvals, tickets>>
  BY DEF SubmitAnswer, tables
<1>2. tasks'[t] = ApplyOutcome(i, r, answers) /\ Only(t)
  BY <1>1 DEF TypeInv, TypeOK, Only
<1>3. tasks'[t].instance = i
  BY <1>1, <1>2, HeadMakes
<1>4. \A u \in Tasks \ {t} : tasks[u].instance # i /\ tasks'[u].instance # i
  BY <1>2, <1>3, Alone
<1>5. Phase(i) /\ Rest(i)
  <2>1. \A u \in Tasks : ~Engaged(u, i)
    BY <1>1, <1>4, IdleIsAside DEF Engaged
  <2>. QED
    BY <1>1, <2>1, AtRest DEF InPhase
<1>6. RowAnswers(i) /\ RowTicket(i)
  BY <1>1, <1>5 DEF Phase
<1>7. PendingFor(i) = {}
  BY <1>1, <1>5 DEF Rest, RestWaits
<1>8. Untouched(i) /\ StepsKept
  BY <1>1 DEF Untouched, StepsKept, PendingFor, TicketsOf
<1>9. RowAnswers(i)' /\ RowTicket(i)'
  BY <1>6, <1>8, RowsStay
<1>10. /\ row.step \in DOMAIN g.steps
       /\ g.steps[row.step].kind = "question"
       /\ g.steps[row.step].field_key = field_key
       /\ \A T : Past(g, row.step, T) \/ Past(g, g.steps[row.step].next, T)
                   => Past(g, r.step, T)
  BY <1>1, SubmitPast
<1>11. ASSUME row.definition \in AskingOnce, NEW key \in FieldKeys
       PROVE  /\ row.answers[key] # Absent => answers[key] = row.answers[key]
              /\ answers[key] # Absent => Answered(g, r.step, key)
  <2>1. AsksOnce(g)
    BY <1>11 DEF AskingOnce, Graph
  <2>2. row.answers[key] # Absent => Answered(g, row.step, key)
    BY <1>6, <1>11 DEF RowAnswers
  <2>3. row.answers \in Answers
    BY <1>1, GraphOK DEF TypeInv, WorkflowInstance
  <2>4. CASE key # field_key
    <3>1. answers[key] = row.answers[key]
      BY <2>3, <2>4 DEF Insert, Answers
    <3>. QED
      BY <1>10, <2>2, <3>1 DEF Answered
  <2>5. CASE key = field_key
    <3>1. Answered(g, g.steps[row.step].next, key)
      BY <1>10, <2>1, <2>5, OncePast
    <3>2. ~Answered(g, row.step, key)
      BY <1>10, <2>5, PastGoesOn DEF Answered, QuestionsFor
    <3>. QED
      BY <1>10, <2>2, <3>1, <3>2 DEF Answered
  <2>. QED
    BY <2>4, <2>5
<1>12. FilesOne(i) /\ TicketsOf(i) # {} => Filed(g, r.step)
  BY <1>1, <1>5, <1>10 DEF Rest, RestTicket, Filed, Terminal
<1>13. Engaged(t, i)' /\ Stage(t, i)'
  <2>1. /\ instances'[i] = row /\ Graph(i)' = g
        /\ PendingFor(i)' = {} /\ TicketsOf(i)' = TicketsOf(i)
        /\ FilesOne(i)' = FilesOne(i)
    BY <1>1, <1>7, <1>8 DEF Untouched, Graph, FilesOne, Unfailed
  <2>2. row.status \notin Terminal
    BY <1>1 DEF Terminal
  <2>. HIDE DEF r, row, answers, g, TicketsOf, PendingFor
  <2>. QED
    BY <1>1, <1>2, <1>11, <1>12, <2>1, <2>2, StageBegins
<1>14. Phase(i)'
  BY <1>4, <1>9, <1>13, OwnPhase
<1>15. Confined(i)
  BY <1>1 DEF Confined
<1>16. \A j \in Instances \ {i} : Phase(j)'
  BY <1>1, <1>2, <1>3, <1>15, OthersStay
<1>. QED
  BY <1>14, <1>16 DEF InPhase


\* What holds of a task at work on an instance, and that it is alone.
LEMMA AtStage ==
  ASSUME TypeInv, InPhase, OneTaskPerInstance, NEW t \in Tasks, Only(t),
         tasks[t].pc \in AtWork
  PROVE  LET i == tasks[t].instance IN
         /\ i \in Instances /\ instances[i] # None
         /\ RowAnswers(i) /\ RowTicket(i)
         /\ Engaged(t, i) /\ Stage(t, i)
         /\ \A u \in Tasks \ {t} : tasks[u].instance # i /\ tasks'[u].instance # i
<1>. DEFINE i == tasks[t].instance
<1>1. tasks[t].pc # "idle"
  BY DEF AtWork, Applying, Dispatching
<1>2. i \in Instances /\ instances[i] # None
  BY <1>1 DEF TypeInv, TasksOK, TaskOK
<1>3. RowAnswers(i) /\ RowTicket(i) /\ Stage(t, i)
  BY <1>2 DEF InPhase, Phase
<1>. QED
  BY <1>2, <1>3, Alone DEF Engaged

\* resume_after_approval goes on from the step the instance waits at.
LEMMA ResumePhase ==
  ASSUME TypeInv, StatusMatchesStep, InPhase, OneTaskPerInstance,
         NEW t \in Tasks, ResumeAfterApproval(t)
  PROVE  InPhase'
<1>0. PICK i : i = tasks[t].instance
  OBVIOUS
<1>. DEFINE g == Graph(i)
            row == instances[i]
            s == approvals[tasks[t].approval].step
            r == engine_resume_after_approval(g, s, row.answers, tasks[t].decision)
<1>1. /\ tasks[t].pc = "resume"
      /\ tasks' = [tasks EXCEPT ![t] = ApplyOutcome(i, r, row.answers)]
      /\ UNCHANGED <<instances, approvals, tickets>>
  BY <1>0 DEF ResumeAfterApproval, tables
<1>2. tasks'[t] = ApplyOutcome(i, r, row.answers) /\ Only(t)
  BY <1>1 DEF TypeInv, TypeOK, Only
<1>3. /\ i \in Instances /\ row # None
      /\ RowAnswers(i) /\ RowTicket(i) /\ Stage(t, i)
      /\ \A u \in Tasks \ {t} : tasks[u].instance # i /\ tasks'[u].instance # i
  BY <1>0, <1>1, <1>2, AtStage DEF AtWork
<1>4. /\ row.status = "awaiting_approval" /\ s = row.step /\ PendingFor(i) = {}
      /\ FilesOne(i) /\ TicketsOf(i) # {} => Filed(g, row.step)
  BY <1>1, <1>3 DEF Stage, StageWaits, StageTicket, HoldsTicket
<1>5. Untouched(i) /\ StepsKept
  BY <1>1 DEF Untouched, StepsKept, PendingFor, TicketsOf
<1>6. RowAnswers(i)' /\ RowTicket(i)'
  BY <1>3, <1>5, RowsStay
<1>7. Confined(i)
  BY <1>1 DEF Confined
<1>8. /\ instances'[i] = row /\ Graph(i)' = g
      /\ PendingFor(i)' = {} /\ TicketsOf(i)' = TicketsOf(i)
      /\ FilesOne(i)' = FilesOne(i) /\ Unfailed(i)' = Unfailed(i)
  BY <1>1, <1>4, <1>5 DEF Untouched, Graph, FilesOne, Unfailed
<1>9. CASE r.err = "none"
  <2>1. \A T : Past(g, row.step, T) => Past(g, r.step, T)
    BY <1>4, <1>9, ResumePast
  <2>2. row.definition \in AskingOnce =>
          \A key \in FieldKeys :
            row.answers[key] # Absent => Answered(g, r.step, key)
    BY <1>3, <2>1 DEF RowAnswers, Answered
  <2>3. FilesOne(i) /\ TicketsOf(i) # {} => Filed(g, r.step)
    BY <1>4, <2>1 DEF Filed
  <2>4. row.status \notin Terminal
    BY <1>4 DEF Terminal
  <2>5. tasks'[t].instance = i
    BY <1>2, <1>9, HeadMakes
  <2>. HIDE DEF r, row, g, s, TicketsOf, PendingFor
  <2>6. Engaged(t, i)' /\ Stage(t, i)'
    BY <1>2, <1>3, <1>8, <1>9, <2>2, <2>3, <2>4, StageBegins
  <2>7. Phase(i)'
    BY <1>3, <1>6, <2>6, OwnPhase
  <2>. QED
    BY <1>0, <1>2, <1>3, <1>7, <2>5, <2>7, OthersStay DEF InPhase
<1>10. CASE r.err # "none"
  <2>1. tasks'[t] = Idle
    BY <1>2, <1>10 DEF ApplyOutcome
  <2>2. row.step \in DOMAIN g.steps /\ g.steps[row.step].kind = "wait_for_approval"
    BY <1>3, <1>4 DEF StatusMatchesStep
  <2>3. row.answers \in Answers /\ tasks[t].decision \in Decisions
    BY <1>1, <1>3, GraphOK DEF TypeInv, TasksOK, TaskOK, WorkflowInstance
  <2>4. ~Unfailed(i)
    BY <1>3, <1>4, <1>10, <2>2, <2>3, UnfailedRuns
  <2>. HIDE DEF r, row, g, s, TicketsOf, PendingFor
  <2>5. Rest(i)'
    BY <1>8, <2>4 DEF Rest, RestWaits, RestTicket, FilesOne
  <2>6. Phase(i)'
    BY <1>3, <1>6, <2>1, <2>5, IdleIsAside, OwnPhase
  <2>. QED
    BY <1>0, <1>2, <1>3, <1>7, <2>1, <2>6, IdleIsAside, OthersStay DEF InPhase
<1>. QED
  BY <1>9, <1>10


\* A ticket that is settled stays a ticket of its instance.
LEMMA SettledStays ==
  ASSUME TypeInv, NEW t \in Tasks, NEW status \in {"sent", "failed"},
         Settles(t, status)
  PROVE  /\ \A j \in Instances : TicketsOf(j)' = TicketsOf(j)
         /\ \A k \in Tickets :
              tickets'[k] = tickets[k] \/
                /\ tickets'[k] # None
                /\ tickets'[k].instance = tasks[t].instance
                /\ tickets[k] # None
                /\ tickets[k].instance = tasks[t].instance
<1>1. tasks[t].pc \in {"mark_sent", "mark_failed"}
  BY DEF Settles
<1>2. /\ tasks[t].ticket \in Tickets
      /\ tickets[tasks[t].ticket] # None
      /\ tickets[tasks[t].ticket].instance = tasks[t].instance
  BY <1>1 DEF TypeInv, TasksOK, TaskOK, Dispatching
<1>. QED
  BY <1>2 DEF Settles, TicketsOf

\* mark_sent: past its ticket the instance files no other.
LEMMA MarkSentPhase ==
  ASSUME TypeInv, InPhase, OneTaskPerInstance, NEW t \in Tasks, MarkSent(t)
  PROVE  InPhase'
<1>0. PICK i : i = tasks[t].instance
  OBVIOUS
<1>. DEFINE g == Graph(i)
            row == instances[i]
            k == tasks[t]
            r == engine_resume_after_ticket_dispatch(g, k.step, k.answers)
<1>1. /\ k.pc = "mark_sent"
      /\ tickets' = mark(k.ticket, "sent")
      /\ tasks' = [tasks EXCEPT ![t] = ApplyOutcome(i, r, k.answers)]
      /\ UNCHANGED <<instances, approvals, external>>
  BY <1>0 DEF MarkSent
<1>2. tasks'[t] = ApplyOutcome(i, r, k.answers) /\ Only(t)
  BY <1>1 DEF TypeInv, TypeOK, Only
<1>3. /\ i \in Instances /\ row # None
      /\ RowAnswers(i) /\ RowTicket(i) /\ Stage(t, i)
      /\ \A u \in Tasks \ {t} : tasks[u].instance # i /\ tasks'[u].instance # i
  BY <1>0, <1>1, <1>2, AtStage DEF AtWork, Applying, Dispatching
<1>4. /\ row.status \notin Terminal /\ PendingFor(i) = {}
      /\ StageAnswers(t, i)
  BY <1>1, <1>3 DEF Stage, StageWaits
<1>5. Settles(t, "sent")
  BY <1>1, LocalsHeaded, HeadedHolds, SettlesRow
<1>6. Untouched(i) /\ StepsKept /\ Confined(i)
  BY <1>0, <1>1, <1>3, <1>5, SettledStays
  DEF Untouched, StepsKept, Confined, PendingFor
<1>7. RowAnswers(i)' /\ RowTicket(i)'
  BY <1>3, <1>6, RowsStay
<1>8. /\ instances'[i] = row /\ Graph(i)' = g
      /\ PendingFor(i)' = {} /\ TicketsOf(i)' = TicketsOf(i)
      /\ FilesOne(i)' = FilesOne(i) /\ Unfailed(i)' = Unfailed(i)
  BY <1>1, <1>4, <1>6 DEF Untouched, Graph, FilesOne, Unfailed
<1>9. CASE r.err = "none"
  <2>1. /\ k.step \in DOMAIN g.steps
        /\ g.steps[k.step].kind = "submit_ticket"
        /\ \A T : Past(g, k.step, T) \/ Past(g, g.steps[k.step].next, T)
                    => Past(g, r.step, T)
    BY <1>9, TicketPast
  <2>2. row.definition \in AskingOnce =>
          \A key \in FieldKeys :
            /\ row.answers[key] # Absent => k.answers[key] = row.answers[key]
            /\ k.answers[key] # Absent => Answered(g, r.step, key)
    BY <1>1, <1>4, <2>1 DEF StageAnswers, Answered, Applying, Dispatching
  <2>3. FilesOne(i) => Filed(g, r.step)
    <3>1. FilesOne(i) => FilesOnce(g)
      BY DEF FilesOne, FilingOnce, Graph
    <3>. QED
      BY <2>1, <3>1, OncePast DEF Filed
  <2>4. tasks'[t].instance = i
    BY <1>2, <1>9, HeadMakes
  <2>. HIDE DEF r, row, g, k, TicketsOf, PendingFor
  <2>5. Engaged(t, i)' /\ Stage(t, i)'
    BY <1>2, <1>3, <1>4, <1>8, <1>9, <2>2, <2>3, StageBegins
  <2>6. Phase(i)'
    BY <1>3, <1>7, <2>5, OwnPhase
  <2>. QED
    BY <1>0, <1>2, <1>3, <1>6, <2>4, <2>6, OthersStay DEF InPhase
<1>10. CASE r.err # "none"
  <2>1. tasks'[t] = Idle
    BY <1>2, <1>10 DEF ApplyOutcome
  <2>2. /\ k.step \in DOMAIN g.steps
        /\ g.steps[k.step].kind = "submit_ticket"
        /\ k.answers \in Answers
    BY <1>0, <1>1 DEF TypeInv, TypeOK, Task, TasksOK, TaskOK, Suits, Applying,
       Dispatching
  <2>3. ~Unfailed(i)
    BY <1>3, <1>10, <2>2, UnfailedRuns
  <2>. HIDE DEF r, row, g, k, TicketsOf, PendingFor
  <2>4. Rest(i)'
    BY <1>8, <2>3 DEF Rest, RestWaits, RestTicket, FilesOne
  <2>5. Phase(i)'
    BY <1>3, <1>7, <2>1, <2>4, IdleIsAside, OwnPhase
  <2>. QED
    BY <1>0, <1>2, <1>3, <1>6, <2>1, <2>5, IdleIsAside, OthersStay DEF InPhase
<1>. QED
  BY <1>9, <1>10

----------------------------------------------------------------------------
(* The other steps inside apply_outcome.                                   *)

\* The answers a task holds stay.
LEMMA AnswersCarried ==
  ASSUME TypeInv, NEW t \in Tasks,
         \/ \E a \in Approvals : CreateApproval(t, a)
         \/ CannotDispatch(t)
         \/ \E k \in Tickets : CreateTicket(t, k)
         \/ \E created, reported \in BOOLEAN : Dispatch(t, created, reported)
         \/ MarkFailed(t)
  PROVE  tasks'[t].answers = tasks[t].answers
<1>1. tasks \in [Tasks -> Task] /\ tasks[t] \in Task
  BY DEF TypeInv, TypeOK
<1>2. /\ \A pc \in PCs : [tasks[t] EXCEPT !.pc = pc].answers = tasks[t].answers
      /\ \A pc \in PCs, k \in Tickets :
           [tasks[t] EXCEPT !.pc = pc, !.ticket = k].answers = tasks[t].answers
  BY <1>1 DEF Task
<1>3. GiveUp(tasks[t]).answers = tasks[t].answers
  BY <1>1 DEF Task, GiveUp
<1>4. ASSUME NEW a \in Approvals, CreateApproval(t, a)
      PROVE  tasks'[t].answers = tasks[t].answers
  <2>1. tasks'[t] = [tasks[t] EXCEPT !.pc = "save"]
    BY <1>1, <1>4 DEF CreateApproval
  <2>. QED
    BY <1>2, <2>1 DEF PCs
<1>5. CASE CannotDispatch(t) \/ MarkFailed(t)
  <2>1. tasks'[t] = GiveUp(tasks[t])
    BY <1>1, <1>5 DEF CannotDispatch, MarkFailed
  <2>. QED
    BY <1>3, <2>1
<1>6. ASSUME NEW k \in Tickets, CreateTicket(t, k)
      PROVE  tasks'[t].answers = tasks[t].answers
  <2>1. tasks'[t] = [tasks[t] EXCEPT !.pc = "dispatch", !.ticket = k]
    BY <1>1, <1>6 DEF CreateTicket
  <2>. QED
    BY <1>2, <2>1 DEF PCs
<1>7. ASSUME NEW created \in BOOLEAN, NEW reported \in BOOLEAN,
             Dispatch(t, created, reported)
      PROVE  tasks'[t].answers = tasks[t].answers
  <2>. DEFINE pc == IF reported THEN "mark_sent" ELSE "mark_failed"
  <2>1. tasks'[t] = [tasks[t] EXCEPT !.pc = pc]
    BY <1>1, <1>7 DEF Dispatch
  <2>2. pc \in PCs
    BY DEF PCs
  <2>. HIDE DEF pc
  <2>. QED
    BY <1>2, <2>1, <2>2
<1>. QED
  BY <1>4, <1>5, <1>6, <1>7

\* A task that goes on with its ticket, or gives up.
LEMMA StageCarried ==
  ASSUME NEW t \in Tasks, NEW i \in Instances, instances'[i] = instances[i],
         PendingFor(i)' = PendingFor(i), Engaged(t, i), Stage(t, i),
         tasks[t].pc \in Dispatching, Carried(t),
         tasks'[t].answers = tasks[t].answers,
         \/ tasks'[t].pc \in HoldsTicket
         \/ tasks'[t].pc = "save" /\ tasks'[t].status = "failed"
  PROVE  Engaged(t, i)' /\ Stage(t, i)'
<1>1. /\ tasks[t].pc \in Applying /\ tasks[t].pc # "save" /\ tasks[t].pc # "resume"
      /\ tasks'[t].pc \in Applying /\ tasks'[t].pc # "resume"
      /\ tasks'[t].pc # "save" \/ tasks'[t].status # "awaiting_approval"
  BY DEF Applying, Dispatching, HoldsTicket
<1>2. Engaged(t, i)'
  BY <1>1 DEF Engaged, AtWork, Carried
<1>. HIDE DEF PendingFor
<1>3. StageWaits(t, i)'
  BY <1>1 DEF Stage, StageWaits
<1>4. StageAnswers(t, i)'
  BY <1>1 DEF Stage, StageAnswers, Graph, Carried
<1>5. StageTicket(t, i)'
  BY <1>1 DEF StageTicket
<1>. QED
  BY <1>2, <1>3, <1>4, <1>5 DEF Stage


\* A step that goes on with a ticket, or gives up, and inserts no row.
LEMMA TicketPhase ==
  ASSUME TypeInv, InPhase, OneTaskPerInstance, NEW t \in Tasks,
         \/ CannotDispatch(t)
         \/ \E created, reported \in BOOLEAN : Dispatch(t, created, reported)
         \/ MarkFailed(t)
  PROVE  InPhase'
<1>0. PICK i : i = tasks[t].instance
  OBVIOUS
<1>1. /\ tasks[t].pc \in Dispatching
      /\ UNCHANGED <<instances, approvals>>
  BY DEF CannotDispatch, Dispatch, MarkFailed, Dispatching, tables
<1>2. Only(t)
  BY ActsAlone DEF Acts
<1>3. /\ i \in Instances /\ instances[i] # None
      /\ RowAnswers(i) /\ RowTicket(i) /\ Engaged(t, i) /\ Stage(t, i)
      /\ \A u \in Tasks \ {t} : tasks[u].instance # i /\ tasks'[u].instance # i
  BY <1>0, <1>1, <1>2, AtStage DEF AtWork, Applying
<1>4. /\ Carried(t) /\ tasks'[t].answers = tasks[t].answers
      /\ \/ tasks'[t].pc \in HoldsTicket
         \/ tasks'[t].pc = "save" /\ tasks'[t].status = "failed"
  BY LocalsCarried, AnswersCarried DEF HoldsTicket
<1>5. /\ \A j \in Instances : TicketsOf(j)' = TicketsOf(j)
      /\ \A k \in Tickets :
           tickets'[k] = tickets[k] \/
             /\ tickets'[k] # None
             /\ tickets'[k].instance = i
             /\ tickets[k].instance = i
  <2>1. CASE tickets' = tickets
    BY <2>1 DEF TicketsOf
  <2>2. CASE MarkFailed(t)
    <3>1. tasks'[t].pc \notin HoldsTicket
      BY <2>2, LocalsCarried DEF HoldsTicket
    <3>2. Settles(t, "failed")
      BY <2>2, <3>1, SettlesRow DEF MarkFailed
    <3>. QED
      BY <1>0, <3>2, SettledStays
  <2>. QED
    BY <2>1, <2>2 DEF CannotDispatch, Dispatch, tables
<1>6. Untouched(i) /\ StepsKept /\ Confined(i)
  BY <1>1, <1>3, <1>5 DEF Untouched, StepsKept, Confined, PendingFor
<1>7. RowAnswers(i)' /\ RowTicket(i)'
  BY <1>3, <1>6, RowsStay
<1>8. Engaged(t, i)' /\ Stage(t, i)'
  BY <1>1, <1>3, <1>4, <1>6, StageCarried DEF Untouched
<1>9. Phase(i)'
  BY <1>3, <1>7, <1>8, OwnPhase
<1>. QED
  BY <1>0, <1>2, <1>3, <1>4, <1>6, <1>9, OthersStay DEF InPhase, Carried

\* tickets::create: a task at a ticket has none behind it.
LEMMA CreateTicketPhase ==
  ASSUME TypeInv, InPhase, OneTaskPerInstance, NEW t \in Tasks,
         NEW k \in Tickets, CreateTicket(t, k)
  PROVE  InPhase'
<1>0. PICK i : i = tasks[t].instance
  OBVIOUS
<1>1. /\ tasks[t].pc = "create_ticket"
      /\ UNCHANGED <<instances, approvals, external>>
  BY DEF CreateTicket, InsertTicket
<1>2. Only(t)
  BY ActsAlone DEF Acts
<1>3. /\ i \in Instances /\ instances[i] # None
      /\ RowAnswers(i) /\ RowTicket(i) /\ Engaged(t, i) /\ Stage(t, i)
      /\ \A u \in Tasks \ {t} : tasks[u].instance # i /\ tasks'[u].instance # i
  BY <1>0, <1>1, <1>2, AtStage DEF AtWork, Applying, Dispatching
<1>4. /\ Carried(t) /\ tasks'[t].answers = tasks[t].answers
      /\ tasks'[t].pc = "dispatch"
  BY LocalsCarried, AnswersCarried
<1>5. Inserts(t, k)
  BY <1>1, LocalsCarried, InsertsRow DEF CreateTicket
<1>6. /\ TicketsOf(i)' = TicketsOf(i) \cup {k}
      /\ Confined(i)
  BY <1>0, <1>1, <1>5 DEF Inserts, TicketsOf, Confined
<1>7. FilesOne(i) => TicketsOf(i) = {}
  <2>1. tasks[t].step \in Submits(Graph(i))
    BY <1>0, <1>1 DEF TypeInv, TasksOK, TaskOK, Suits, Applying, Dispatching, Submits
  <2>2. ~Filed(Graph(i), tasks[t].step)
    BY <2>1, PastGoesOn DEF Filed
  <2>. QED
    BY <1>1, <1>3, <2>2 DEF Stage, StageTicket, HoldsTicket
<1>8. RowTicket(i)'
  <2>1. FilesOne(i)' => FilesOne(i)
    BY <1>1 DEF FilesOne, Unfailed
  <2>. HIDE DEF TicketsOf
  <2>. QED
    BY <1>6, <1>7, <2>1 DEF RowTicket
<1>9. RowAnswers(i)'
  BY <1>1, <1>3 DEF RowAnswers, Graph
<1>10. PendingFor(i)' = PendingFor(i)
  BY <1>1 DEF PendingFor
<1>11. Engaged(t, i)' /\ Stage(t, i)'
  BY <1>1, <1>3, <1>4, <1>10, StageCarried DEF HoldsTicket, Dispatching
<1>12. Phase(i)'
  BY <1>3, <1>8, <1>9, <1>11, OwnPhase
<1>. QED
  BY <1>0, <1>2, <1>3, <1>4, <1>6, <1>12, OthersStay DEF InPhase, Carried

\* create_for_instance: the new approval is the only one that is pending.
LEMMA CreateApprovalPhase ==
  ASSUME TypeInv, InPhase, OneTaskPerInstance, NEW t \in Tasks,
         NEW a \in Approvals, CreateApproval(t, a)
  PROVE  InPhase'
<1>0. PICK i : i = tasks[t].instance
  OBVIOUS
<1>1. /\ tasks[t].pc = "create_approval"
      /\ approvals[a] = None
      /\ UNCHANGED <<instances, tickets>>
  BY DEF CreateApproval
<1>2. Only(t)
  BY ActsAlone DEF Acts
<1>3. /\ i \in Instances /\ instances[i] # None
      /\ RowAnswers(i) /\ RowTicket(i) /\ Engaged(t, i) /\ Stage(t, i)
      /\ \A u \in Tasks \ {t} : tasks[u].instance # i /\ tasks'[u].instance # i
  BY <1>0, <1>1, <1>2, AtStage DEF AtWork, Applying
<1>4. /\ Carried(t) /\ tasks'[t].answers = tasks[t].answers
      /\ tasks'[t].pc = "save" /\ tasks'[t].status = tasks[t].status
  BY LocalsCarried, AnswersCarried
<1>5. tasks[t].status = "awaiting_approval"
  BY <1>0, <1>1 DEF TypeInv, TasksOK, TaskOK, Suits, Applying
<1>6. /\ approvals'[a] # None
      /\ approvals'[a].instance = i
      /\ approvals'[a].step = tasks[t].step
      /\ approvals'[a].status = "pending"
      /\ \A b \in Approvals \ {a} : approvals'[b] = approvals[b]
  <2>1. /\ approvals'[a] # None
        /\ approvals'[a].instance = i
        /\ approvals'[a].step = tasks[t].step
    BY <1>0, CreateApprovalTyped
  <2>2. \E x, y : approvals' = [approvals EXCEPT ![a] =
          [instance |-> tasks[t].instance, step |-> tasks[t].step,
           approver |-> x, status |-> "pending", expires_at |-> y]]
    BY DEF CreateApproval
  <2>. QED
    BY <2>1, <2>2 DEF TypeInv, TypeOK
<1>7. PendingFor(i) = {}
  BY <1>1, <1>3 DEF Stage, StageWaits
<1>8. PendingFor(i)' = {a} /\ TicketsOf(i)' = TicketsOf(i) /\ Confined(i)
  BY <1>1, <1>6, <1>7 DEF PendingFor, TicketsOf, Confined
<1>9. RowTicket(i)' /\ RowAnswers(i)'
  <2>. HIDE DEF TicketsOf
  <2>. QED
    BY <1>1, <1>3, <1>8 DEF RowAnswers, RowTicket, FilesOne, Unfailed, Graph
<1>10. Engaged(t, i)'
  BY <1>0, <1>4 DEF Engaged, AtWork, Applying, Carried
<1>11. StageWaits(t, i)'
  <2>1. instances'[i].status \notin Terminal
    BY <1>1, <1>3 DEF Stage, StageWaits
  <2>. HIDE DEF PendingFor
  <2>. QED
    BY <1>4, <1>5, <1>6, <1>8, <2>1 DEF StageWaits, Carried
<1>12. StageAnswers(t, i)'
  BY <1>1, <1>3, <1>4 DEF Stage, StageAnswers, Carried, Graph, Applying
<1>13. StageTicket(t, i)'
  <2>. HIDE DEF TicketsOf
  <2>. QED
    BY <1>1, <1>3, <1>4, <1>8
    DEF Stage, StageTicket, Carried, Graph, FilesOne, Unfailed, HoldsTicket
<1>14. Phase(i)'
  BY <1>3, <1>9, <1>10, <1>11, <1>12, <1>13, OwnPhase DEF Stage
<1>. QED
  BY <1>0, <1>2, <1>3, <1>4, <1>8, <1>14, OthersStay DEF InPhase, Carried

\* An instance of a sound graph finds its approver.
LEMMA ResolutionPhase ==
  ASSUME TypeInv, InPhase, OneTaskPerInstance, NEW t \in Tasks, ResolutionFails(t)
  PROVE  InPhase'
<1>0. PICK i : i = tasks[t].instance
  OBVIOUS
<1>1. /\ tasks[t].pc = "create_approval"
      /\ resolve_approver_user_id(instances[i].requester,
           Graph(i).steps[tasks[t].step].approver_resolution) = None
      /\ UNCHANGED <<instances, approvals, tickets>>
  BY <1>0 DEF ResolutionFails, tables
<1>2. tasks'[t] = Idle /\ Only(t)
  BY DEF ResolutionFails, TypeInv, TypeOK, Only
<1>3. /\ i \in Instances /\ instances[i] # None
      /\ RowAnswers(i) /\ RowTicket(i) /\ Stage(t, i)
      /\ \A u \in Tasks \ {t} : tasks[u].instance # i /\ tasks'[u].instance # i
  BY <1>0, <1>1, <1>2, AtStage DEF AtWork, Applying
<1>4. /\ tasks[t].step \in DOMAIN Graph(i).steps
      /\ Graph(i).steps[tasks[t].step].kind = "wait_for_approval"
  BY <1>0, <1>1 DEF TypeInv, TasksOK, TaskOK, Suits, Applying
<1>5. ~Unfailed(i)
  BY <1>1, <1>3, <1>4, UnfailedRuns
<1>6. Untouched(i) /\ StepsKept /\ Confined(i)
  BY <1>1 DEF Untouched, StepsKept, Confined, PendingFor, TicketsOf
<1>7. RowAnswers(i)' /\ RowTicket(i)'
  BY <1>3, <1>6, RowsStay
<1>8. PendingFor(i) = {}
  BY <1>1, <1>3 DEF Stage, StageWaits
<1>9. Rest(i)
  BY <1>5, <1>8 DEF Rest, RestWaits, RestTicket, FilesOne
<1>10. Phase(i)'
  BY <1>2, <1>3, <1>6, <1>7, <1>9, RowsStay, IdleIsAside, OwnPhase
<1>. QED
  BY <1>0, <1>2, <1>3, <1>6, <1>10, IdleIsAside, OthersStay DEF InPhase

\* save_progress: what the task held is what the instance rests at.
LEMMA SavePhase ==
  ASSUME TypeInv, InPhase, OneTaskPerInstance, NEW t \in Tasks, SaveProgress(t)
  PROVE  InPhase'
<1>0. PICK i : i = tasks[t].instance
  OBVIOUS
<1>1. /\ tasks[t].pc = "save"
      /\ UNCHANGED <<approvals, tickets>>
  BY DEF SaveProgress
<1>2. tasks'[t] = Idle /\ Only(t)
  BY DEF SaveProgress, TypeInv, TypeOK, Only
<1>3. /\ i \in Instances /\ instances[i] # None
      /\ RowTicket(i) /\ Stage(t, i)
      /\ \A u \in Tasks \ {t} : tasks[u].instance # i /\ tasks'[u].instance # i
  BY <1>0, <1>1, <1>2, AtStage DEF AtWork, Applying
<1>4. /\ instances'[i].definition = instances[i].definition
      /\ instances'[i].step = tasks[t].step
      /\ instances'[i].answers = tasks[t].answers
      /\ instances'[i].status = tasks[t].status
      /\ \A j \in Instances \ {i} : instances'[j] = instances[j]
  BY <1>0, SaveRow
<1>5. instances'[i].requester = instances[i].requester
  <2>1. instances[i] \in WorkflowInstance
    BY <1>3, GraphOK DEF TypeInv
  <2>2. instances' = [instances EXCEPT ![i] = Progress(instances[i], tasks[t])]
    BY <1>0, <1>3 DEF SaveProgress, TypeInv, TypeOK
  <2>3. Progress(instances[i], tasks[t]).requester = instances[i].requester
    BY <2>1 DEF Progress, WorkflowInstance
  <2>. QED
    BY <1>3, <2>2, <2>3 DEF TypeInv, TypeOK
<1>6. /\ PendingFor(i)' = PendingFor(i) /\ TicketsOf(i)' = TicketsOf(i)
      /\ Graph(i)' = Graph(i) /\ FilesOne(i)' = FilesOne(i)
      /\ Confined(i)
  BY <1>1, <1>4, <1>5
  DEF PendingFor, TicketsOf, Confined, Graph, FilesOne, Unfailed
<1>7. RowAnswers(i)'
  BY <1>1, <1>3, <1>4, <1>6 DEF Stage, StageAnswers, RowAnswers, Applying
<1>. HIDE DEF PendingFor, TicketsOf
<1>8. RowTicket(i)'
  BY <1>3, <1>6 DEF RowTicket
<1>9. RestWaits(i)'
  <2>1. CASE tasks[t].status = "awaiting_approval"
    <3>1. PICK a \in PendingFor(i) :
            PendingFor(i) = {a} /\ approvals[a].step = tasks[t].step
      BY <1>1, <1>3, <2>1 DEF Stage, StageWaits
    <3>. QED
      BY <1>1, <1>4, <1>6, <2>1, <3>1 DEF RestWaits
  <2>2. CASE tasks[t].status # "awaiting_approval"
    <3>1. PendingFor(i) = {}
      BY <1>3, <2>2 DEF Stage, StageWaits
    <3>. QED
      BY <1>4, <1>6, <2>2, <3>1 DEF RestWaits
  <2>. QED
    BY <2>1, <2>2
<1>10. RestTicket(i)'
  BY <1>1, <1>3, <1>4, <1>6 DEF Stage, StageTicket, RestTicket, HoldsTicket, Terminal
<1>11. Phase(i)'
  BY <1>2, <1>3, <1>7, <1>8, <1>9, <1>10, IdleIsAside, OwnPhase DEF Rest
<1>. QED
  BY <1>0, <1>2, <1>3, <1>6, <1>11, IdleIsAside, OthersStay DEF InPhase


----------------------------------------------------------------------------
(* Decisions, the clock and the administrator.                             *)

\* decide, of an approver or of the poller: who wins finds the instance at
\* rest at the approval's step.
LEMMA DecisionPhase ==
  ASSUME TypeInv, InPhase, OneTaskPerInstance', NEW t \in Tasks, Only(t),
         tasks[t].pc \in {"idle", "decide"},
         NEW a \in Approvals, approvals[a] # None,
         NEW decision, tasks'[t] = AfterDecide(a, decision),
         tasks[t].pc = "idle" \/ tasks[t].instance = approvals[a].instance,
         NEW status \in ApprovalStatus \ {"pending"}, decide(a, status),
         UNCHANGED <<instances, tickets>>
  PROVE  InPhase'
<1>0. PICK i : i = approvals[a].instance
  OBVIOUS
<1>1. i \in Instances /\ instances[i] # None
  BY <1>0 DEF TypeInv, TypeOK, PendingApproval, Rooted
<1>2. CASE approvals[a].status # "pending"
  <2>1. approvals' = approvals /\ tasks'[t] = Idle
    BY <1>2 DEF decide, StillPending, AfterDecide
  <2>2. \A j \in Instances : Untouched(j) /\ StepsKept
    BY <2>1 DEF Untouched, StepsKept, PendingFor, TicketsOf
  <2>3. \A j \in Instances : ~Engaged(t, j) /\ ~Engaged(t, j)'
    BY <2>1, IdleIsAside
  <2>. QED
    BY <2>2, <2>3, PhaseStays DEF InPhase, Only
<1>3. CASE approvals[a].status = "pending"
  <2>. DEFINE new == [approvals[a] EXCEPT !.status = status]
  <2>1. /\ new.instance = i /\ new.step = approvals[a].step /\ new.status = status
        /\ new \in PendingApproval
    BY <1>0 DEF TypeInv, TypeOK, PendingApproval
  <2>2. approvals' = [approvals EXCEPT ![a] = new]
    BY <1>3 DEF decide, StillPending
  <2>3. new # None
    BY <2>1, NoneAssumption
  <2>. HIDE DEF new
  <2>4. /\ approvals'[a] = new
        /\ \A b \in Approvals \ {a} : approvals'[b] = approvals[b]
    BY <2>2 DEF TypeInv, TypeOK
  <2>5. /\ tasks'[t].pc = "resume" /\ tasks'[t].instance = i
        /\ tasks'[t].approval = a
    BY <1>0, <1>3 DEF AfterDecide, StillPending, Deciding, Idle
  <2>6. \A u \in Tasks \ {t} : tasks[u].instance # i /\ tasks'[u].instance # i
    BY <1>1, <2>5, Alone
  <2>7. RowAnswers(i) /\ RowTicket(i) /\ Rest(i)
    <3>1. \A u \in Tasks : ~Engaged(u, i)
      BY <2>6, IdleIsAside DEF Engaged
    <3>. QED
      BY <1>1, <3>1, AtRest DEF InPhase, Phase
  <2>8. a \in PendingFor(i)
    BY <1>0, <1>3 DEF PendingFor
  <2>9. /\ PendingFor(i) = {a}
        /\ approvals[a].step = instances[i].step
        /\ instances[i].status = "awaiting_approval"
    BY <2>7, <2>8 DEF Rest, RestWaits
  <2>10. PendingFor(i)' = {} /\ TicketsOf(i)' = TicketsOf(i)
    BY <2>1, <2>4, <2>9 DEF PendingFor, TicketsOf
  <2>11. Confined(i)
    BY <1>0, <2>1, <2>3, <2>4 DEF Confined
  <2>12. RowAnswers(i)' /\ RowTicket(i)'
    <3>. HIDE DEF TicketsOf
    <3>. QED
      BY <2>7, <2>10 DEF RowAnswers, RowTicket, FilesOne, Unfailed, Graph
  <2>13. Engaged(t, i)'
    BY <2>5 DEF Engaged, AtWork
  <2>14. StageWaits(t, i)'
    <3>. HIDE DEF PendingFor
    <3>. QED
      BY <2>1, <2>4, <2>5, <2>9, <2>10 DEF StageWaits, Terminal
  <2>15. StageAnswers(t, i)'
    BY <2>5 DEF StageAnswers, Applying, Dispatching
  <2>16. StageTicket(t, i)'
    <3>. HIDE DEF TicketsOf
    <3>. QED
      BY <2>5, <2>7, <2>9, <2>10
      DEF Rest, RestTicket, StageTicket, FilesOne, Unfailed, Graph, Terminal
  <2>17. Phase(i)'
    BY <1>1, <2>6, <2>12, <2>13, <2>14, <2>15, <2>16, OwnPhase DEF Stage
  <2>. QED
    BY <1>0, <1>1, <2>5, <2>11, <2>17, OthersStay DEF InPhase
<1>. QED
  BY <1>2, <1>3

\* Steps that no instance is concerned by, or that only read.
LEMMA BackgroundPhase ==
  ASSUME TypeInv, InPhase,
         \/ \E t \in Tasks, a \in Approvals, decision \in Decisions :
              DecideApproval(t, a, decision)
         \/ PollList
         \/ \E a \in Approvals : TimePasses(a)
         \/ EditUsers
         \/ UNCHANGED vars
  PROVE  InPhase'
<1>1. ASSUME UNCHANGED <<instances, tickets>>, StepsKept,
             \A i \in Instances : PendingFor(i)' = PendingFor(i),
             \A t \in Tasks : \/ tasks'[t] = tasks[t]
                              \/ /\ tasks[t].pc \in {"idle", "decide"}
                                 /\ tasks'[t].pc \in {"idle", "decide"}
      PROVE  InPhase'
  <2>1. \A i \in Instances : Untouched(i)
    BY <1>1 DEF Untouched, TicketsOf
  <2>. QED
    BY <1>1, <2>1, IdleIsAside, PhaseStays DEF InPhase
<1>2. ASSUME NEW t \in Tasks, NEW a \in Approvals, NEW decision \in Decisions,
             DecideApproval(t, a, decision)
      PROVE  InPhase'
  <2>1. /\ UNCHANGED <<instances, tickets, approvals>>
        /\ tasks[t].pc = "idle"
        /\ tasks' = [tasks EXCEPT ![t] = Deciding("decide", a, decision)]
    BY <1>2 DEF DecideApproval, tables
  <2>2. /\ tasks'[t].pc = "decide"
        /\ \A u \in Tasks \ {t} : tasks'[u] = tasks[u]
    BY <2>1, DecidingPC DEF TypeInv, TypeOK
  <2>. QED
    BY <1>1, <2>1, <2>2 DEF StepsKept, PendingFor
<1>3. CASE PollList \/ EditUsers \/ UNCHANGED vars
  <2>1. UNCHANGED <<instances, tickets, approvals, tasks>>
    BY <1>3 DEF PollList, EditUsers, tables, vars
  <2>. QED
    BY <1>1, <2>1 DEF StepsKept, PendingFor
<1>4. ASSUME NEW a \in Approvals, TimePasses(a)
      PROVE  InPhase'
  <2>. DEFINE new == [approvals[a] EXCEPT !.expires_at = "past"]
  <2>1. /\ approvals[a] # None
        /\ approvals' = [approvals EXCEPT ![a] = new]
        /\ UNCHANGED <<instances, tickets, tasks>>
    BY <1>4 DEF TimePasses
  <2>2. /\ new.instance = approvals[a].instance
        /\ new.step = approvals[a].step
        /\ new.status = approvals[a].status
        /\ new \in PendingApproval
    BY <2>1 DEF TypeInv, TypeOK, PendingApproval
  <2>3. new # None
    BY <2>2, NoneAssumption
  <2>. HIDE DEF new
  <2>4. /\ approvals'[a] = new
        /\ \A b \in Approvals \ {a} : approvals'[b] = approvals[b]
    BY <2>1 DEF TypeInv, TypeOK
  <2>. QED
    BY <1>1, <2>1, <2>2, <2>3, <2>4 DEF StepsKept, PendingFor
<1>. QED
  BY <1>2, <1>3, <1>4

----------------------------------------------------------------------------
(* The theorems.                                                           *)

\* Only failures are counted.
LEMMA FaultsKept ==
  ASSUME Next, ~Failure
  PROVE  faults' = faults
<1>1. ASSUME NEW t \in Tasks, TaskStep(t) \/ NewRequest(t)
      PROVE  faults' = faults
  BY <1>1 DEF TaskStep, NewRequest, RecordDecision, ResumeAfterApproval,
     CreateApproval, ResolutionFails, CannotDispatch, CreateTicket, Dispatch,
     MarkSent, MarkFailed, SaveProgress, StartInstance, SubmitAnswer, DecideApproval
<1>. QED
  BY <1>1 DEF Next, Poll, PollList, PollExpire, TimePasses, EditUsers, Tasks

\* Every failure is counted.
LEMMA FaultsCounted ==
  ASSUME TypeInv, Failure
  PROVE  faults' # 0
<1>1. Fault
  BY DEF Failure, TaskLost, DispatchStatementFails, PollAborts, Restart
<1>. QED
  BY <1>1, MaxFaultsAssumption DEF Fault, TypeInv, TypeOK

\* Every step without a failure keeps all instances in phase.
LEMMA PhaseStep ==
  ASSUME TypeInv, Listed, StatusMatchesStep, InPhase, OneTaskPerInstance,
         Next, ~Failure, OneTaskPerInstance'
  PROVE  InPhase'
<1>1. ASSUME NEW t \in Tasks, RecordDecision(t)
      PROVE  InPhase'
  <2>. DEFINE a == tasks[t].approval
              status == IF tasks[t].decision = "approve" THEN "approved"
                                                         ELSE "rejected"
  <2>1. /\ tasks[t].pc = "decide"
        /\ a \in Approvals /\ approvals[a] # None
        /\ approvals[a].instance = tasks[t].instance
    BY <1>1 DEF RecordDecision, TypeInv, TasksOK, TaskOK
  <2>2. /\ decide(a, status) /\ status \in ApprovalStatus \ {"pending"}
        /\ UNCHANGED <<instances, tickets>>
    BY <1>1 DEF RecordDecision, ApprovalStatus
  <2>3. tasks'[t] = AfterDecide(a, tasks[t].decision) /\ Only(t)
    BY <1>1 DEF RecordDecision, TypeInv, TypeOK, Only
  <2>. HIDE DEF status
  <2>. QED
    BY <2>1, <2>2, <2>3, DecisionPhase
<1>2. ASSUME NEW a \in Approvals, PollExpire(a)
      PROVE  InPhase'
  <2>1. approvals[a] # None /\ tasks[Poller].pc = "idle" /\ Poller \in Tasks
    BY <1>2 DEF PollExpire, Listed, Tasks
  <2>2. /\ decide(a, "expired") /\ "expired" \in ApprovalStatus \ {"pending"}
        /\ UNCHANGED <<instances, tickets>>
    BY <1>2 DEF PollExpire, ApprovalStatus
  <2>3. tasks'[Poller] = AfterDecide(a, "reject") /\ Only(Poller)
    BY <1>2, <2>1 DEF PollExpire, TypeInv, TypeOK, Only
  <2>. QED
    BY <2>1, <2>2, <2>3, DecisionPhase
<1>3. ASSUME NEW t \in Tasks, TaskStep(t)
      PROVE  InPhase'
  BY <1>1, <1>3, ResumePhase, CreateApprovalPhase, ResolutionPhase, TicketPhase,
     CreateTicketPhase, MarkSentPhase, SavePhase DEF TaskStep
<1>4. ASSUME NEW t \in Tasks, NewRequest(t)
      PROVE  InPhase'
  BY <1>4, StartPhase, SubmitPhase, BackgroundPhase DEF NewRequest
<1>. QED
  BY <1>2, <1>3, <1>4, BackgroundPhase DEF Next, Poll, Tasks

\* SerialInv is an invariant of serial requests.
LEMMA SerialInvariant ==
  SerialSpec => [](TypeInv /\ Listed /\ StatusMatchesStep /\ SerialInv)
<1>. DEFINE Inv == TypeInv /\ Listed /\ StatusMatchesStep
<1>1. SerialSpec => Spec
  BY PTL DEF SerialSpec, Spec
<1>2. Init => SerialInv
  BY DEF Init, SerialInv, InPhase, Phase, OneTaskPerInstance, Idle
<1>3. Inv /\ SerialInv /\ [Next /\ OneTaskPerInstance']_vars => SerialInv'
  <2>. SUFFICES ASSUME Inv, SerialInv, [Next /\ OneTaskPerInstance']_vars
                PROVE  SerialInv'
    OBVIOUS
  <2>1. CASE UNCHANGED vars
    <3>1. OneTaskPerInstance' /\ faults' = faults
      BY <2>1 DEF SerialInv, OneTaskPerInstance, vars
    <3>. QED
      BY <2>1, <3>1, BackgroundPhase DEF SerialInv
  <2>2. CASE Next /\ OneTaskPerInstance' /\ ~Failure
    <3>1. faults' = faults
      BY <2>2, FaultsKept
    <3>. QED
      BY <2>2, <3>1, PhaseStep DEF SerialInv
  <2>3. CASE Failure /\ OneTaskPerInstance'
    BY <2>3, FaultsCounted DEF SerialInv
  <2>. QED
    BY <2>1, <2>2, <2>3
<1>. QED
  BY <1>1, <1>2, <1>3, TypeInvariant, StatusAgrees, PTL DEF SerialSpec


\* With serial requests and no failure, an instance between requests waits
\* exactly for what is on record, for every graph: a pending approval is its
\* only one and for its step, and an awaiting_approval instance has one unless
\* the request that resumed it met a fault of the graph or no approver.
THEOREM WaitsForOneApproval == SerialSpec => []WaitsForItsApproval
<1>1. SerialInv => WaitsForItsApproval
  <2>. SUFFICES ASSUME SerialInv, faults = 0, NEW i \in Instances,
                       instances[i] # None, ~Busy(i)
                PROVE  RestWaits(i)
    BY DEF WaitsForItsApproval, RestWaits
  <2>1. \A t \in Tasks : ~Engaged(t, i)
    BY DEF Busy, Engaged
  <2>. QED
    BY <2>1, AtRest DEF SerialInv, InPhase, Rest
<1>. QED
  BY <1>1, SerialInvariant, PTL

\* With serial requests and no failure, an instance has at most one ticket if
\* its graph files one on every way and cannot fail once it is filed.
THEOREM FilesOneTicket == SerialSpec => []OneTicketPerInstance
<1>1. TypeInv /\ SerialInv => OneTicketPerInstance
  <2>. SUFFICES ASSUME TypeInv, SerialInv, faults = 0,
                       NEW k \in Tickets, NEW other \in Tickets,
                       tickets[k] # None, tickets[other] # None,
                       tickets[k].instance = tickets[other].instance,
                       FilesOne(tickets[k].instance)
                PROVE  k = other
    BY DEF OneTicketPerInstance, FilesOne
  <2>. DEFINE i == tickets[k].instance
  <2>1. i \in Instances /\ instances[i] # None
    BY DEF TypeInv, TypeOK, Ticket, Rooted
  <2>2. RowTicket(i)
    BY <2>1 DEF SerialInv, InPhase, Phase
  <2>. QED
    BY <2>2 DEF RowTicket, TicketsOf
<1>. QED
  BY <1>1, SerialInvariant, PTL

\* With serial requests and no failure, no save takes a final status back or
\* loses an answer, for every graph that asks for each field once on every way.
THEOREM ProgressStays == SerialSpec => ProgressIsKept
<1>. DEFINE Kept ==
       faults = 0 =>
         \A i \in Instances :
           instances[i] # None =>
             /\ instances[i].status \in Terminal => instances'[i] = instances[i]
             /\ instances[i].definition \in AskingOnce =>
                  \A k \in FieldKeys :
                    instances[i].answers[k] # Absent
                      => instances'[i].answers[k] = instances[i].answers[k]
<1>1. TypeInv /\ Listed /\ SerialInv /\ [Next /\ OneTaskPerInstance']_vars
        => [Kept]_vars
  <2>. SUFFICES ASSUME TypeInv, Listed, SerialInv, [Next]_vars, faults = 0,
                       NEW i \in Instances, instances[i] # None
                PROVE  /\ instances[i].status \in Terminal
                            => instances'[i] = instances[i]
                       /\ instances[i].definition \in AskingOnce =>
                            \A k \in FieldKeys :
                              instances[i].answers[k] # Absent
                                => instances'[i].answers[k] = instances[i].answers[k]
    OBVIOUS
  <2>1. CASE instances'[i] = instances[i]
    BY <2>1
  <2>2. ASSUME NEW t \in Tasks, SaveProgress(t), i = tasks[t].instance
        PROVE  /\ instances[i].status \notin Terminal
               /\ instances[i].definition \in AskingOnce =>
                    \A k \in FieldKeys :
                      instances[i].answers[k] # Absent
                        => instances'[i].answers[k] = instances[i].answers[k]
    <3>1. tasks[t].pc = "save" /\ instances'[i].answers = tasks[t].answers
      BY <2>2, SaveRow
    <3>2. Stage(t, i)
      BY <2>2, <3>1 DEF SerialInv, InPhase, Phase, AtWork, Applying
    <3>. QED
      BY <3>1, <3>2 DEF Stage, StageWaits, StageAnswers, Applying
  <2>3. \/ instances'[i] = instances[i]
        \/ \E t \in Tasks : SaveProgress(t) /\ i = tasks[t].instance
    BY TwoKinds, InstancesWritten, StartRow, SaveRow DEF Aside
  <2>. QED
    BY <2>1, <2>2, <2>3
<1>. QED
  BY <1>1, SerialInvariant, PTL DEF SerialSpec, ProgressIsKept
=============================================================================
