---------------------------- MODULE RequestPages ----------------------------
(***************************************************************************)
(* One request as its requester sees it: the page of a catalog item with   *)
(* the preview of its questions (web/pages/catalog.rs), the form for each  *)
(* question (web/pages/requests.rs) or the JSON API, and the engine behind *)
(* both, for the workflows that the starter catalog is built of            *)
(* (catalog_seed::build_graph) and for graphs that admins store, which     *)
(* nothing checks: they may branch in circles, ask in circles, create      *)
(* tickets in circles and name steps that they do not have.                *)
(*                                                                         *)
(* What overlapping requests and failures do to an instance is the subject *)
(* of Orchestrator; here one step of it follows the other, up to the first *)
(* engine error.  A JSON value is its type, where integers and floats      *)
(* differ as they do in serde_json, and its text.                          *)
(***************************************************************************)
EXTENDS WorkflowEngine, SequencesExt

CONSTANTS
  QIds,         \* the ids q1, q2, ... of the seeded questions, in order
  Offers,       \* the items on offer: [pattern, questions, graph]
  RawTexts,     \* what a form may submit, for each input type
  ApiValues,    \* what the API accepts, for each input type
  Numerals,     \* the texts that parse as a number
  Items,        \* the list that a comma-separated text stands for
  MaxShown,     \* bound on the questions noted in preview and asked
  MaxTickets    \* bound on the count of tickets, which begins again at 1

VARIABLES
  item,         \* the item whose page is open
  preview,      \* preview_questions: its current step and what it has shown
  instance,     \* step, status and answers of the request
  asked,        \* the ids of the questions answered so far, in order
  typed,        \* history: the text typed for each field, or Absent
  approved,     \* the approval steps that were approved, in order
  tickets,      \* how many tickets were created
  error         \* an engine error, or none

vars == <<item, preview, instance, asked, typed, approved, tickets, error>>

----------------------------------------------------------------------------
(* catalog_seed::build_graph.                                              *)

Patterns == {"simple_ticket", "manager_approval_ticket", "security_approval_ticket",
             "finance_approval_ticket", "info_only"}

Question(q, next) ==
  [kind |-> "question", field_key |-> q.field_key, input_type |-> q.input_type,
   required |-> q.required, next |-> next]
WaitForApproval(resolution, on_approve) ==
  [kind |-> "wait_for_approval", on_approve |-> on_approve, on_reject |-> "end_rejected",
   has_timeout |-> FALSE, approver_resolution |-> [type |-> resolution]]
end_step(outcome) == [kind |-> "end", outcome |-> outcome]

Index(questions, s) == CHOOSE i \in DOMAIN questions : QIds[i] = s

append_questions(questions, next_after) ==
  [s \in {QIds[i] : i \in DOMAIN questions} |->
     Question(questions[Index(questions, s)],
              IF Index(questions, s) < Len(questions)
              THEN QIds[Index(questions, s) + 1] ELSE next_after)]

push_submit_and_ends(rejected) ==
  LET submit == [kind |-> "submit_ticket", next |-> "end_completed"]
  IN IF rejected
     THEN [submit |-> submit, end_completed |-> end_step("completed"),
           end_rejected |-> end_step("rejected")]
     ELSE [submit |-> submit, end_completed |-> end_step("completed")]

\* A map of steps and the steps that are pushed after them.
Then(these, others) ==
  [s \in DOMAIN these \cup DOMAIN others |->
     IF s \in DOMAIN these THEN these[s] ELSE others[s]]

SecondApproval(pattern) ==
  IF pattern = "security_approval_ticket" THEN "security_approval" ELSE "finance_approval"

\* The steps after the questions, and the first of them.
TailOf_manager_only(pattern) ==
  CASE pattern = "simple_ticket" ->
         [first |-> "submit", steps |-> push_submit_and_ends(FALSE)]
    [] pattern = "info_only" ->
         [first |-> "end_completed", steps |-> [end_completed |-> end_step("completed")]]
    [] OTHER ->
         [first |-> "manager_approval",
          steps |-> Then([manager_approval |-> WaitForApproval("manager_of_requester", "submit")],
                         push_submit_and_ends(TRUE))]

TailOf(pattern) ==
  CASE pattern = "simple_ticket" ->
         [first |-> "submit", steps |-> push_submit_and_ends(FALSE)]
    [] pattern = "info_only" ->
         [first |-> "end_completed", steps |-> [end_completed |-> end_step("completed")]]
    [] pattern = "manager_approval_ticket" ->
         [first |-> "manager_approval",
          steps |-> Then([manager_approval |-> WaitForApproval("manager_of_requester", "submit")],
                         push_submit_and_ends(TRUE))]
    [] OTHER ->
         [first |-> "manager_approval",
          steps |-> Then([s \in {"manager_approval", SecondApproval(pattern)} |->
                            IF s = "manager_approval"
                            THEN WaitForApproval("manager_of_requester", SecondApproval(pattern))
                            ELSE WaitForApproval("role_in_department", "submit")],
                         push_submit_and_ends(TRUE))]

build_graph(pattern, questions) ==
  LET rest == TailOf(pattern)
  IN [entry_step_id |-> IF questions = <<>> THEN rest.first ELSE QIds[1],
      steps |-> Then(append_questions(questions, rest.first), rest.steps),
      conditions |-> <<>>]

\* The graph of an item: seeded from its pattern, or an admin's own.
Graph == IF item.pattern \in Patterns THEN build_graph(item.pattern, item.questions)
                                      ELSE item.graph
Steps == Graph.steps

\* The ids of the seeded steps other than questions.
TailIds == {"manager_approval", "security_approval", "finance_approval", "submit",
            "end_completed", "end_rejected"}

\* The two texts of a yes/no question's form.
YesNo == {"true", "false"}

ASSUME BoundsAssumption == MaxShown \in Nat /\ MaxTickets \in Nat \ {0}
ASSUME QIdsAssumption ==
  /\ QIds \in Seq(StepIds \ TailIds) /\ IsInjective(QIds)
  /\ TailIds \subseteq StepIds
ASSUME OffersAssumption ==
  \A offer \in Offers :
    /\ offer.pattern \in Patterns =>
         /\ offer.questions \in Seq([field_key : FieldKeys, input_type : DOMAIN RawTexts,
                                     required : BOOLEAN])
         /\ Len(offer.questions) <= Len(QIds) /\ Len(offer.questions) <= MaxShown
    /\ offer.pattern \notin Patterns => IsGraph(offer.graph)
\* A condition is a tree, and "equals" compares the answer to a field.
ASSUME ConditionsAssumption ==
  \A offer \in {offer \in Offers : offer.pattern \notin Patterns} :
    /\ IsNested(offer.graph)
    /\ \A c \in DOMAIN offer.graph.conditions :
         offer.graph.conditions[c].op = "equals"
           => offer.graph.conditions[c].field_key \in FieldKeys
ASSUME NoTextAssumption == Absent \notin YesNo

----------------------------------------------------------------------------
Json(type, text) == [type |-> type, of |-> text]
Null == Json("null", "null")

coerce_answer_as_text(input_type, raw) == Json("string", raw)

\* The JSON value that a form's text is turned into.
coerce_answer(input_type, raw) ==
  CASE input_type = "boolean" ->
         Json("boolean", IF raw \in {"true", "on"} THEN "true" ELSE "false")
    [] input_type = "number" -> IF raw \in Numerals THEN Json("float", raw) ELSE Null
    [] input_type = "multi_select" -> Json("array", Items[raw])
    [] OTHER -> Json("string", raw)

Closed == [step |-> "none", status |-> "none", answers |-> NoAnswers]

Init ==
  /\ item \in Offers
  /\ preview = [pc |-> "start", step |-> "none", shown |-> <<>>]
  /\ instance = Closed /\ asked = <<>> /\ approved = <<>> /\ tickets = 0
  /\ typed = [k \in FieldKeys |-> Absent]
  /\ error = "none"

----------------------------------------------------------------------------
(* The item's page: item_detail and its preview_questions.                 *)

Note(seq, s) == IF Len(seq) < MaxShown THEN Append(seq, s) ELSE seq

PreviewStart_second ==
  IF HasKind(Graph, Graph.entry_step_id, "question")
  THEN Steps[Graph.entry_step_id].next ELSE Graph.entry_step_id
PreviewStart == Graph.entry_step_id

item_detail ==
  /\ preview.pc = "start"
  /\ preview' = [preview EXCEPT !.pc = "loop", !.step = PreviewStart]
  /\ UNCHANGED <<item, instance, asked, typed, approved, tickets, error>>

preview_questions_without_break ==
  /\ preview.pc = "loop"
  /\ HasKind(Graph, preview.step, "question")
  /\ preview' = [preview EXCEPT !.step = Steps[preview.step].next,
                                !.shown = Note(@, preview.step)]
  /\ UNCHANGED <<item, instance, asked, typed, approved, tickets, error>>

\* One turn of the loop: a question is listed, anything else ends it.
preview_questions ==
  /\ preview.pc = "loop"
  /\ preview' =
       IF HasKind(Graph, preview.step, "question")
       THEN [preview EXCEPT !.step = Steps[preview.step].next, !.shown = Note(@, preview.step)]
       ELSE [preview EXCEPT !.pc = "shown"]
  /\ UNCHANGED <<item, instance, asked, typed, approved, tickets, error>>

----------------------------------------------------------------------------
(* The request.                                                            *)

StatusOf(outcome) ==
  CASE outcome = "awaiting_answer" -> "in_progress"
    [] outcome = "ready_to_submit_ticket" -> "dispatching"
    [] OTHER -> outcome

\* What the orchestrator makes of the engine's result.
Apply(r, answers) ==
  IF r.err = "none"
  THEN /\ instance' = [step |-> r.step, status |-> StatusOf(r.outcome), answers |-> answers]
       /\ error' = error
  ELSE error' = r.err /\ instance' = instance

\* The "Request" button of the page, and POST /instances, which needs no page.
start_request ==
  /\ instance = Closed /\ error = "none"
  /\ Apply(engine_start(Graph), NoAnswers)
  /\ UNCHANGED <<item, preview, asked, typed, approved, tickets>>

Answer(value, text) ==
  LET step == instance.step
      key == Steps[step].field_key
      r == engine_submit_answer(Graph, step, instance.answers, key, value)
  IN /\ Apply(r, Insert(instance.answers, key, value))
     /\ asked' = IF r.err = "none" THEN Note(asked, step) ELSE asked
     /\ typed' = IF r.err = "none" THEN [typed EXCEPT ![key] = text] ELSE typed
     /\ UNCHANGED <<item, preview, approved, tickets>>

\* The page shows a form while the request is in progress at a question; the
\* browser does not submit an empty text for a required one.
Asking == error = "none" /\ instance.status = "in_progress"

submit_form(raw) ==
  /\ Asking
  /\ raw \in RawTexts[Steps[instance.step].input_type]
  /\ Steps[instance.step].required => raw # ""
  /\ Answer(coerce_answer(Steps[instance.step].input_type, raw), raw)

\* POST /instances/{id}/answers.
submit_api(value) ==
  /\ Asking
  /\ value \in ApiValues[Steps[instance.step].input_type]
  /\ Answer(value, Absent)

decide(decision) ==
  /\ error = "none" /\ instance.status = "awaiting_approval"
  /\ Apply(engine_resume_after_approval(Graph, instance.step, instance.answers, decision),
           instance.answers)
  /\ approved' = IF decision = "approve" THEN Append(approved, instance.step) ELSE approved
  /\ UNCHANGED <<item, preview, asked, typed, tickets>>

dispatch_ticket ==
  /\ error = "none" /\ instance.status = "dispatching"
  /\ \/ /\ tickets' = (tickets % MaxTickets) + 1
        /\ Apply(engine_resume_after_ticket_dispatch(Graph, instance.step, instance.answers),
                 instance.answers)
     \/ /\ instance' = [instance EXCEPT !.status = "failed"]
        /\ UNCHANGED <<tickets, error>>
  /\ UNCHANGED <<item, preview, asked, typed, approved>>

Next ==
  \/ item_detail \/ preview_questions \/ start_request
  \/ \E type \in DOMAIN RawTexts : \E raw \in RawTexts[type] : submit_form(raw)
  \/ \E type \in DOMAIN ApiValues : \E value \in ApiValues[type] : submit_api(value)
  \/ \E decision \in {"approve", "reject"} : decide(decision)
  \/ dispatch_ticket

\* The server goes on with a page, and with a ticket, that it has begun.
Spec ==
  /\ Init /\ [][Next]_vars
  /\ WF_vars(item_detail \/ preview_questions) /\ WF_vars(dispatch_ticket)

----------------------------------------------------------------------------
(* Properties.                                                             *)

\* Some chain of at least MAX_AUTO_STEPS branches, each leading to the next.
BranchChain ==
  \E chain \in [1 .. MAX_AUTO_STEPS -> DOMAIN Steps] :
    /\ \A n \in DOMAIN chain : Steps[chain[n]].kind = "branch"
    /\ \A n \in 1 .. MAX_AUTO_STEPS - 1 : chain[n + 1] \in Successors(Steps[chain[n]])

Dangles ==
  LET named == {Graph.entry_step_id} \cup UNION {Successors(Steps[s]) : s \in DOMAIN Steps}
  IN ~(named \subseteq DOMAIN Steps)

\* The engine gives up for a reason: a request, whatever is answered and
\* decided, meets an engine error only if its graph names a step that it does
\* not have or has MAX_AUTO_STEPS branches in a row, so never in a workflow of
\* the starter catalog (auto_advance, build_graph).
ErrorsAreTheGraphs ==
  error # "none" =>
    /\ item.pattern \notin Patterns
    /\ IF error = "TooManySteps" THEN BranchChain ELSE Dangles

\* What the item's page announces is what the requester is then asked: the
\* questions come in the order of the preview, and only after all of them does
\* anything else happen.
PreviewIsAsked ==
  instance # Closed /\ preview.pc = "shown" =>
    /\ IsPrefix(asked, preview.shown) \/ IsPrefix(preview.shown, asked)
    /\ asked # <<>> /\ instance.status # "in_progress" => IsPrefix(preview.shown, asked)

RequiredApprovals ==
  CASE item.pattern = "manager_approval_ticket" -> <<"manager_approval">>
    [] item.pattern = "security_approval_ticket" -> <<"manager_approval", "security_approval">>
    [] item.pattern = "finance_approval_ticket" -> <<"manager_approval", "finance_approval">>
    [] OTHER -> <<>>

\* A starter workflow creates its ticket after all the approvals of its
\* pattern, in their order, and after every question was answered; it completes
\* with a ticket unless it is for information only.
TicketAfterApprovals ==
  item.pattern \in Patterns =>
    /\ tickets > 0 => approved = RequiredApprovals /\ Len(asked) = Len(item.questions)
    /\ instance.status = "completed" => (tickets = 1) = (item.pattern # "info_only")
    /\ instance.status = "rejected" => tickets = 0 /\ approved # RequiredApprovals

AsksYesNo(k) ==
  \A s \in DOMAIN Steps :
    Steps[s].kind = "question" /\ Steps[s].field_key = k => Steps[s].input_type = "boolean"

\* A condition that compares the answer to a yes/no question with true or false
\* holds exactly if the requester chose that in the form, whatever was answered
\* before, in the form or not (coerce_answer, "compares against a real
\* JsonValue::Bool").  This is about yes/no questions only: a number that is
\* typed never equals the integer of a condition.
TypedMatchesCondition ==
  \A c \in DOMAIN Graph.conditions :
    LET node == Graph.conditions[c]
    IN  /\ node.op = "equals"
        /\ node.value \in {Json("boolean", text) : text \in YesNo}
        /\ AsksYesNo(node.field_key)
        /\ typed[node.field_key] \in YesNo
        => eval_condition(Graph, c, instance.answers) = (typed[node.field_key] = node.value.of)

\* From step s the graph can be followed for ever through steps of these kinds.
Endless(s, kinds) ==
  \E trap \in SUBSET {t \in DOMAIN Steps : Steps[t].kind \in kinds} :
    s \in trap /\ \A t \in trap : Successors(Steps[t]) \cap trap # {}

\* The page of an item is shown in the end, preview_questions leaves its loop,
\* unless the questions that it begins with lead back to themselves.
PreviewEnds == Endless(Graph.entry_step_id, {"question"}) \/ <>(preview.pc = "shown")

\* Creating tickets comes to an end: apply_outcome and dispatch_ticket call
\* each other only a number of times, unless the workflow can be followed for
\* ever from a ticket through tickets and branches alone.
DispatchEnds ==
  instance.status = "dispatching" /\ ~Endless(instance.step, {"submit_ticket", "branch"})
    ~> instance.status # "dispatching" \/ error # "none"
=============================================================================
