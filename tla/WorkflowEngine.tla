--------------------------- MODULE WorkflowEngine ---------------------------
(***************************************************************************)
(* The pure interpreter of workflow graphs (crates/workflow-engine).  It   *)
(* has no state of its own: every operation maps a graph, a step and the   *)
(* answers collected so far to an error or to a resting step together with *)
(* the Outcome that tells the caller what to do or wait for.               *)
(*                                                                         *)
(* A graph is a record [entry_step_id, steps, conditions].  steps maps the *)
(* ids that occur in the graph to steps; the ids a step refers to are any  *)
(* members of StepIds, so a reference may dangle.  The nested Condition    *)
(* tree of a Branch is kept as a table of nodes that name their children.  *)
(* The JSON object of answers is a function on all field keys, Absent      *)
(* where the object has no such key.                                       *)
(***************************************************************************)
EXTENDS Naturals, FiniteSets

CONSTANTS
  StepIds,         \* every id a step may have or refer to
  FieldKeys,       \* the field_key values of Question steps
  Values,          \* the JSON values an answer may have
  Absent,          \* no answer recorded under a field key
  MAX_AUTO_STEPS   \* steps visited by one engine call (256 in the code)

ASSUME MaxAutoStepsAssumption == MAX_AUTO_STEPS \in Nat \ {0}
ASSUME AbsentAssumption == Absent \notin Values

Answers == [FieldKeys -> Values \cup {Absent}]
NoAnswers == [k \in FieldKeys |-> Absent]

EndOutcomes == {"completed", "rejected", "cancelled"}

\* What an engine call asks of its caller; an EndOutcome stands for
\* Outcome::Finished with that outcome.
Outcomes ==
  {"awaiting_answer", "awaiting_approval", "ready_to_submit_ticket"}
    \cup EndOutcomes

EngineErrors ==
  {"UnknownStep", "WrongStepKind", "UnexpectedField", "EmptyGraph",
   "TooManySteps"}

StepKinds ==
  {"question", "branch", "wait_for_approval", "submit_ticket", "end"}

ResolutionTypes == {"static", "manager_of_requester", "role_in_department"}

\* The steps a step may hand control to.
Successors(step) ==
  CASE step.kind = "question"          -> {step.next}
    [] step.kind = "branch"            -> {step.on_true, step.on_false}
    [] step.kind = "wait_for_approval" -> {step.on_approve, step.on_reject}
    [] step.kind = "submit_ticket"     -> {step.next}
    [] OTHER                           -> {}

IsGraph(g) ==
  /\ g.entry_step_id \in StepIds
  /\ DOMAIN g.steps \subseteq StepIds
  /\ \A s \in DOMAIN g.steps :
       /\ g.steps[s].kind \in StepKinds
       /\ Successors(g.steps[s]) \subseteq StepIds
       /\ g.steps[s].kind = "question" => g.steps[s].field_key \in FieldKeys
       /\ g.steps[s].kind = "end" => g.steps[s].outcome \in EndOutcomes
       /\ g.steps[s].kind = "wait_for_approval" =>
            /\ g.steps[s].has_timeout \in BOOLEAN
            /\ g.steps[s].approver_resolution.type \in ResolutionTypes

ConditionOps == {"equals", "not_equals", "exists", "in", "and", "or", "not"}

Children(node) ==
  CASE node.op \in {"and", "or"} -> node.conditions
    [] node.op = "not"           -> {node.condition}
    [] OTHER                     -> {}

\* The table of a Condition: finitely many nodes, each above its children.
IsNested(g) ==
  LET nodes == DOMAIN g.conditions
  IN /\ IsFiniteSet(nodes)
     /\ \E height \in [nodes -> 0 .. Cardinality(nodes)] :
          \A c \in nodes :
            /\ g.conditions[c].op \in ConditionOps
            /\ \A n \in Children(g.conditions[c]) : n \in nodes /\ height[n] < height[c]

----------------------------------------------------------------------------
Result(s, outcome) == [err |-> "none", step |-> s, outcome |-> outcome]
Error(e, s) == [err |-> e, step |-> s, outcome |-> "none"]

HasKind(g, s, kind) == s \in DOMAIN g.steps /\ g.steps[s].kind = kind

\* Whether one node of a condition holds, given which of the others do.
Holds(node, answers, holds) ==
  CASE node.op = "equals"     -> answers[node.field_key] = node.value
    [] node.op = "not_equals" -> answers[node.field_key] # node.value
    [] node.op = "exists"     -> answers[node.field_key] # Absent
    [] node.op = "in"         -> answers[node.field_key] \in node.values
    [] node.op = "and"        -> \A n \in node.conditions : holds[n]
    [] node.op = "or"         -> \E n \in node.conditions : holds[n]
    [] node.op = "not"        -> ~holds[node.condition]

eval_condition(g, condition, answers) ==
  LET holds[c \in DOMAIN g.conditions] == Holds(g.conditions[c], answers, holds)
  IN  holds[condition]

\* One turn of auto_advance's loop: a Branch is resolved, any other step
\* (and an id the graph does not have) stays where it is.
Follow(g, answers, s) ==
  IF HasKind(g, s, "branch")
  THEN IF eval_condition(g, g.steps[s].condition, answers)
       THEN g.steps[s].on_true ELSE g.steps[s].on_false
  ELSE s

OutcomeOf(step) ==
  CASE step.kind = "question"          -> "awaiting_answer"
    [] step.kind = "wait_for_approval" -> "awaiting_approval"
    [] step.kind = "submit_ticket"     -> "ready_to_submit_ticket"
    [] step.kind = "end"               -> step.outcome

\* visited[n] is the step the loop looks at in its turn n.
Visited(g, s, answers) ==
  LET visited[n \in Nat] ==
        IF n = 0 THEN s ELSE Follow(g, answers, visited[n - 1])
  IN  visited

auto_advance_one_short(g, s, answers) ==
  LET last == Visited(g, s, answers)[MAX_AUTO_STEPS - 2]
  IN  IF last \notin DOMAIN g.steps THEN Error("UnknownStep", last)
      ELSE IF g.steps[last].kind = "branch" THEN Error("TooManySteps", last)
      ELSE Result(last, OutcomeOf(g.steps[last]))

auto_advance(g, s, answers) ==
  LET last == Visited(g, s, answers)[MAX_AUTO_STEPS - 1]
  IN  IF last \notin DOMAIN g.steps THEN Error("UnknownStep", last)
      ELSE IF g.steps[last].kind = "branch" THEN Error("TooManySteps", last)
      ELSE Result(last, OutcomeOf(g.steps[last]))

engine_start(g) ==
  IF g.entry_step_id \notin DOMAIN g.steps
  THEN Error("EmptyGraph", g.entry_step_id)
  ELSE auto_advance(g, g.entry_step_id, NoAnswers)

\* The answers after answers.insert(field_key, value).
Insert(answers, field_key, value) == [answers EXCEPT ![field_key] = value]

engine_submit_answer(g, s, answers, field_key, value) ==
  IF s \notin DOMAIN g.steps THEN Error("UnknownStep", s)
  ELSE IF g.steps[s].kind # "question" THEN Error("WrongStepKind", s)
  ELSE IF g.steps[s].field_key # field_key THEN Error("UnexpectedField", s)
  ELSE auto_advance(g, g.steps[s].next, Insert(answers, field_key, value))

engine_resume_after_approval_swapped(g, s, answers, decision) ==
  IF s \notin DOMAIN g.steps THEN Error("UnknownStep", s)
  ELSE IF g.steps[s].kind # "wait_for_approval" THEN Error("WrongStepKind", s)
  ELSE auto_advance(g, IF decision = "approve" THEN g.steps[s].on_reject
                                               ELSE g.steps[s].on_approve,
                    answers)

engine_resume_after_approval(g, s, answers, decision) ==
  IF s \notin DOMAIN g.steps THEN Error("UnknownStep", s)
  ELSE IF g.steps[s].kind # "wait_for_approval" THEN Error("WrongStepKind", s)
  ELSE auto_advance(g, IF decision = "approve" THEN g.steps[s].on_approve
                                               ELSE g.steps[s].on_reject,
                    answers)

engine_resume_after_ticket_dispatch_in_place(g, s, answers) ==
  IF s \notin DOMAIN g.steps THEN Error("UnknownStep", s)
  ELSE auto_advance(g, s, answers)

engine_resume_after_ticket_dispatch(g, s, answers) ==
  IF s \notin DOMAIN g.steps THEN Error("UnknownStep", s)
  ELSE IF g.steps[s].kind # "submit_ticket" THEN Error("WrongStepKind", s)
  ELSE auto_advance(g, g.steps[s].next, answers)
=============================================================================
