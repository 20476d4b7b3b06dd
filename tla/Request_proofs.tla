--------------------------- MODULE Request_proofs ---------------------------
(***************************************************************************)
(* What a requester is shown, asked and given: the engine gives up only    *)
(* for a fault of the graph, the preview is what is then asked, a starter  *)
(* workflow files its ticket after its questions and approvals, and a      *)
(* condition finds what was typed.                                         *)
(* Proved for every graph, list of questions and way of answering.         *)
(***************************************************************************)
EXTENDS RequestPages, Engine_proofs, SequenceTheorems

----------------------------------------------------------------------------
(* The seeded graphs, step by step.                                        *)

\* The steps after the questions, pattern by pattern.
LEMMA Tails ==
  ASSUME NEW p \in Patterns
  PROVE  /\ DOMAIN TailOf(p).steps \subseteq TailIds
         /\ "end_completed" \in DOMAIN TailOf(p).steps
         /\ TailOf(p).steps["end_completed"] = end_step("completed")
         /\ p = "info_only" =>
              /\ TailOf(p).first = "end_completed"
              /\ DOMAIN TailOf(p).steps = {"end_completed"}
         /\ p # "info_only" =>
              /\ "submit" \in DOMAIN TailOf(p).steps
              /\ TailOf(p).steps["submit"]
                   = [kind |-> "submit_ticket", next |-> "end_completed"]
         /\ p = "simple_ticket" =>
              /\ TailOf(p).first = "submit"
              /\ DOMAIN TailOf(p).steps = {"submit", "end_completed"}
         /\ p \notin {"info_only", "simple_ticket"} =>
              /\ TailOf(p).first = "manager_approval"
              /\ "manager_approval" \in DOMAIN TailOf(p).steps
              /\ "end_rejected" \in DOMAIN TailOf(p).steps
              /\ TailOf(p).steps["end_rejected"] = end_step("rejected")
         /\ p = "manager_approval_ticket" =>
              /\ DOMAIN TailOf(p).steps
                   = {"manager_approval", "submit", "end_completed", "end_rejected"}
              /\ TailOf(p).steps["manager_approval"]
                   = WaitForApproval("manager_of_requester", "submit")
         /\ p \in {"security_approval_ticket", "finance_approval_ticket"} =>
              /\ DOMAIN TailOf(p).steps
                   = {"manager_approval", SecondApproval(p), "submit", "end_completed",
                      "end_rejected"}
              /\ TailOf(p).steps["manager_approval"]
                   = WaitForApproval("manager_of_requester", SecondApproval(p))
              /\ TailOf(p).steps[SecondApproval(p)]
                   = WaitForApproval("role_in_department", "submit")
         /\ SecondApproval(p) \in {"security_approval", "finance_approval"}
<1>1. \A rejected \in BOOLEAN :
        /\ DOMAIN push_submit_and_ends(rejected)
             = {"submit", "end_completed"} \cup (IF rejected THEN {"end_rejected"} ELSE {})
        /\ push_submit_and_ends(rejected)["submit"]
             = [kind |-> "submit_ticket", next |-> "end_completed"]
        /\ push_submit_and_ends(rejected)["end_completed"] = end_step("completed")
        /\ rejected => push_submit_and_ends(rejected)["end_rejected"] = end_step("rejected")
  BY DEF push_submit_and_ends
<1>2. CASE p = "simple_ticket"
  BY <1>1, <1>2 DEF TailOf, TailIds, SecondApproval
<1>3. CASE p = "info_only"
  BY <1>3 DEF TailOf, TailIds, SecondApproval
<1>4. PICK ends : ends = push_submit_and_ends(TRUE)
  OBVIOUS
<1>5. /\ DOMAIN ends = {"submit", "end_completed", "end_rejected"}
      /\ ends["submit"] = [kind |-> "submit_ticket", next |-> "end_completed"]
      /\ ends["end_completed"] = end_step("completed")
      /\ ends["end_rejected"] = end_step("rejected")
  BY <1>1, <1>4
<1>6. CASE p = "manager_approval_ticket"
  <2>1. PICK these : these = [manager_approval |-> WaitForApproval("manager_of_requester", "submit")]
    OBVIOUS
  <2>2. /\ DOMAIN these = {"manager_approval"}
        /\ these["manager_approval"] = WaitForApproval("manager_of_requester", "submit")
    BY <2>1
  <2>3. TailOf(p) = [first |-> "manager_approval", steps |-> Then(these, ends)]
    BY <1>4, <1>6, <2>1 DEF TailOf
  <2>4. PICK all : all = Then(these, ends)
    OBVIOUS
  <2>5. /\ DOMAIN all = {"manager_approval", "submit", "end_completed", "end_rejected"}
        /\ all["manager_approval"] = WaitForApproval("manager_of_requester", "submit")
        /\ \A s \in {"submit", "end_completed", "end_rejected"} : all[s] = ends[s]
    <3>1. /\ DOMAIN all = DOMAIN these \cup DOMAIN ends
          /\ \A s \in DOMAIN these : all[s] = these[s]
          /\ \A s \in DOMAIN ends \ DOMAIN these : all[s] = ends[s]
      BY <2>4 DEF Then
    <3>. QED
      BY <1>5, <2>2, <3>1
  <2>6. TailOf(p).first = "manager_approval" /\ TailOf(p).steps = all
    BY <2>3, <2>4
  <2>. QED
    BY <1>5, <1>6, <2>5, <2>6 DEF TailIds, SecondApproval
<1>7. CASE p \in {"security_approval_ticket", "finance_approval_ticket"}
  <2>0. PICK second : second = SecondApproval(p)
    OBVIOUS
  <2>1. PICK these : these = [s \in {"manager_approval", second} |->
                               IF s = "manager_approval"
                               THEN WaitForApproval("manager_of_requester", second)
                               ELSE WaitForApproval("role_in_department", "submit")]
    OBVIOUS
  <2>2. /\ second \in {"security_approval", "finance_approval"}
        /\ DOMAIN these = {"manager_approval", second}
        /\ these["manager_approval"] = WaitForApproval("manager_of_requester", second)
        /\ these[second] = WaitForApproval("role_in_department", "submit")
    BY <2>0, <2>1 DEF SecondApproval
  <2>3. TailOf(p) = [first |-> "manager_approval", steps |-> Then(these, ends)]
    BY <1>4, <1>7, <2>0, <2>1 DEF TailOf
  <2>4. PICK all : all = Then(these, ends)
    OBVIOUS
  <2>5. /\ DOMAIN all = {"manager_approval", second, "submit", "end_completed", "end_rejected"}
        /\ all["manager_approval"] = WaitForApproval("manager_of_requester", second)
        /\ all[second] = WaitForApproval("role_in_department", "submit")
        /\ \A s \in {"submit", "end_completed", "end_rejected"} : all[s] = ends[s]
    <3>1. /\ DOMAIN all = DOMAIN these \cup DOMAIN ends
          /\ \A s \in DOMAIN these : all[s] = these[s]
          /\ \A s \in DOMAIN ends \ DOMAIN these : all[s] = ends[s]
      BY <2>4 DEF Then
    <3>. QED
      BY <1>5, <2>2, <3>1
  <2>6. TailOf(p).first = "manager_approval" /\ TailOf(p).steps = all
    BY <2>3, <2>4
  <2>. QED
    BY <1>5, <1>7, <2>0, <2>2, <2>5, <2>6 DEF TailIds
<1>8. SecondApproval(p) \in {"security_approval", "finance_approval"}
  BY DEF SecondApproval
<1>. QED
  BY <1>2, <1>3, <1>6, <1>7, <1>8 DEF Patterns


Seeded == item \in Offers /\ item.pattern \in Patterns
NQ == Len(item.questions)
TailFirst == TailOf(item.pattern).first
TailSteps == TailOf(item.pattern).steps

\* What the constants say of the questions and their ids.
LEMMA QuestionsAre ==
  ASSUME Seeded
  PROVE  /\ NQ \in Nat /\ NQ <= MaxShown
         /\ DOMAIN item.questions = 1..NQ
         /\ \A i \in 1..NQ : item.questions[i].field_key \in FieldKeys
         /\ \A i \in 1..NQ : i \in DOMAIN QIds /\ QIds[i] \in StepIds \ TailIds
         /\ \A i, j \in 1..NQ : QIds[i] = QIds[j] => i = j
         /\ NQ = 0 <=> item.questions = <<>>
<1>. DEFINE Q == [field_key : FieldKeys, input_type : DOMAIN RawTexts, required : BOOLEAN]
<1>1. item.questions \in Seq(Q) /\ NQ <= Len(QIds) /\ NQ <= MaxShown
  BY OffersAssumption DEF Seeded, NQ
<1>2. NQ \in Nat /\ DOMAIN item.questions = 1..NQ
  BY <1>1, LenProperties DEF NQ
<1>3. \A i \in 1..NQ : item.questions[i] \in Q
  BY <1>1, <1>2, ElementOfSeq DEF NQ
<1>4. DOMAIN QIds = 1..Len(QIds) /\ Len(QIds) \in Nat
  BY QIdsAssumption, LenProperties
<1>5. \A i \in 1..NQ : i \in 1..Len(QIds)
  BY <1>1, <1>2, <1>4
<1>6. \A i \in 1..Len(QIds) : QIds[i] \in StepIds \ TailIds
  BY QIdsAssumption, ElementOfSeq
<1>7. \A i, j \in 1..Len(QIds) : QIds[i] = QIds[j] => i = j
  BY <1>4, QIdsAssumption DEF IsInjective
<1>8. NQ = 0 <=> item.questions = <<>>
  BY <1>1, EmptySeq DEF NQ
<1>9. \A i \in 1..NQ : item.questions[i].field_key \in FieldKeys
  BY <1>3
<1>. QED
  BY <1>1, <1>2, <1>4, <1>5, <1>6, <1>7, <1>8, <1>9

\* The questions in their order, then the tail.
LEMMA SeededSteps ==
  ASSUME Seeded
  PROVE  /\ Graph.entry_step_id = IF NQ = 0 THEN TailFirst ELSE QIds[1]
         /\ DOMAIN Steps = {QIds[i] : i \in 1..NQ} \cup DOMAIN TailSteps
         /\ \A i \in 1..NQ :
              Steps[QIds[i]] = Question(item.questions[i],
                                        IF i < NQ THEN QIds[i + 1] ELSE TailFirst)
         /\ \A s \in DOMAIN TailSteps : Steps[s] = TailSteps[s]
<1>. DEFINE qs == append_questions(item.questions, TailFirst)
<1>1. Graph = build_graph(item.pattern, item.questions)
  BY DEF Graph, Seeded
<1>2. /\ Graph.entry_step_id = IF item.questions = <<>> THEN TailFirst ELSE QIds[1]
      /\ Steps = Then(qs, TailSteps)
  BY <1>1 DEF build_graph, Steps, TailFirst, TailSteps
<1>3. /\ NQ \in Nat
      /\ DOMAIN item.questions = 1..NQ
      /\ \A i \in 1..NQ : QIds[i] \in StepIds \ TailIds
      /\ \A i, j \in 1..NQ : QIds[i] = QIds[j] => i = j
      /\ NQ = 0 <=> item.questions = <<>>
  BY QuestionsAre
<1>4. DOMAIN qs = {QIds[i] : i \in 1..NQ}
  BY <1>3 DEF append_questions
<1>5. ASSUME NEW i \in 1..NQ
      PROVE  qs[QIds[i]] = Question(item.questions[i],
                                    IF i < NQ THEN QIds[i + 1] ELSE TailFirst)
  <2>1. QIds[i] \in {QIds[j] : j \in DOMAIN item.questions}
    BY <1>3
  <2>2. Index(item.questions, QIds[i]) = i
    <3>1. \E j \in DOMAIN item.questions : QIds[j] = QIds[i]
      BY <1>3
    <3>2. /\ Index(item.questions, QIds[i]) \in DOMAIN item.questions
          /\ QIds[Index(item.questions, QIds[i])] = QIds[i]
      BY <3>1, Zenon DEF Index
    <3>. QED
      BY <1>3, <3>2
  <2>. QED
    BY <2>1, <2>2 DEF append_questions, NQ
<1>. HIDE DEF qs
<1>6. DOMAIN TailSteps \subseteq TailIds
  BY Tails DEF Seeded, TailSteps
<1>7. /\ DOMAIN Then(qs, TailSteps) = DOMAIN qs \cup DOMAIN TailSteps
      /\ \A s \in DOMAIN qs : Then(qs, TailSteps)[s] = qs[s]
      /\ \A s \in DOMAIN TailSteps \ DOMAIN qs : Then(qs, TailSteps)[s] = TailSteps[s]
  BY DEF Then
<1>8. \A s \in DOMAIN TailSteps : s \notin DOMAIN qs
  BY <1>3, <1>4, <1>6
<1>. QED
  BY <1>2, <1>3, <1>4, <1>5, <1>7, <1>8

\* The steps of a seeded graph.
IsQuestion(s) ==
  \E i \in 1..NQ :
    /\ s = QIds[i]
    /\ Steps[s].kind = "question"
    /\ Steps[s].field_key \in FieldKeys
    /\ Successors(Steps[s]) = {Steps[s].next}
    /\ Steps[s].next = IF i < NQ THEN QIds[i + 1] ELSE TailFirst
IsApproval(s) ==
  /\ s \in {"manager_approval", "security_approval", "finance_approval"}
  /\ Steps[s].kind = "wait_for_approval"
  /\ Steps[s].on_approve \in DOMAIN Steps
  /\ Steps[s].on_reject = "end_rejected" /\ "end_rejected" \in DOMAIN Steps
  /\ Successors(Steps[s]) = {Steps[s].on_approve, Steps[s].on_reject}
  /\ Steps[s].has_timeout = FALSE
  /\ Steps[s].approver_resolution.type \in ResolutionTypes
IsTicket(s) ==
  /\ s = "submit"
  /\ Steps[s].kind = "submit_ticket"
  /\ Steps[s].next = "end_completed" /\ "end_completed" \in DOMAIN Steps
  /\ Successors(Steps[s]) = {Steps[s].next}
IsEnd(s) ==
  /\ s \in {"end_completed", "end_rejected"}
  /\ Steps[s].kind = "end"
  /\ Steps[s].outcome = IF s = "end_completed" THEN "completed" ELSE "rejected"
  /\ Successors(Steps[s]) = {}

\* There are no others.
LEMMA SeededKinds ==
  ASSUME Seeded, NEW s \in DOMAIN Steps
  PROVE  IsQuestion(s) \/ IsApproval(s) \/ IsTicket(s) \/ IsEnd(s)
<1>0. item.pattern \in Patterns
  BY DEF Seeded
<1>1. \A q, next :
        /\ Question(q, next).kind = "question"
        /\ Question(q, next).field_key = q.field_key
        /\ Question(q, next).next = next
        /\ Successors(Question(q, next)) = {next}
  BY DEF Question, Successors
<1>2. \A r, next :
        /\ WaitForApproval(r, next).kind = "wait_for_approval"
        /\ WaitForApproval(r, next).on_approve = next
        /\ WaitForApproval(r, next).on_reject = "end_rejected"
        /\ WaitForApproval(r, next).has_timeout = FALSE
        /\ WaitForApproval(r, next).approver_resolution.type = r
        /\ Successors(WaitForApproval(r, next)) = {next, "end_rejected"}
  BY DEF WaitForApproval, Successors
<1>3. \A outcome :
        /\ end_step(outcome).kind = "end"
        /\ end_step(outcome).outcome = outcome
        /\ Successors(end_step(outcome)) = {}
  BY DEF end_step, Successors
<1>4. CASE s \in {QIds[i] : i \in 1..NQ}
  <2>1. PICK i \in 1..NQ : s = QIds[i]
    BY <1>4
  <2>2. Steps[s] = Question(item.questions[i], IF i < NQ THEN QIds[i + 1] ELSE TailFirst)
    BY <2>1, SeededSteps
  <2>3. item.questions[i].field_key \in FieldKeys
    BY QuestionsAre
  <2>. QED
    BY <1>1, <2>1, <2>2, <2>3 DEF IsQuestion
<1>5. CASE s \in DOMAIN TailSteps
  <2>1. Steps[s] = TailSteps[s] /\ DOMAIN TailSteps \subseteq DOMAIN Steps
    BY <1>5, SeededSteps
  <2>2. s \in TailIds
    BY <1>0, <1>5, Tails DEF TailSteps
  <2>3. CASE s = "submit"
    <3>1. item.pattern # "info_only"
      BY <1>0, <1>5, <2>3, Tails DEF TailSteps
    <3>2. Steps[s] = [kind |-> "submit_ticket", next |-> "end_completed"]
      BY <1>0, <2>1, <2>3, <3>1, Tails DEF TailSteps
    <3>3. "end_completed" \in DOMAIN Steps
      BY <1>0, <2>1, Tails DEF TailSteps
    <3>. QED
      BY <2>3, <3>2, <3>3 DEF Successors, IsTicket
  <2>4. CASE s = "end_completed"
    BY <1>0, <1>3, <2>1, <2>4, Tails DEF TailSteps, IsEnd
  <2>5. CASE s = "end_rejected"
    <3>1. item.pattern \notin {"info_only", "simple_ticket"}
      BY <1>0, <1>5, <2>5, Tails DEF TailSteps
    <3>2. Steps[s] = end_step("rejected")
      BY <1>0, <2>1, <2>5, <3>1, Tails DEF TailSteps
    <3>. QED
      BY <1>3, <2>5, <3>2 DEF IsEnd
  <2>6. CASE s \in {"manager_approval", "security_approval", "finance_approval"}
    <3>1. item.pattern \notin {"info_only", "simple_ticket"}
      BY <1>0, <1>5, <2>6, Tails DEF TailSteps
    <3>2. "submit" \in DOMAIN Steps /\ "end_rejected" \in DOMAIN Steps
      BY <1>0, <2>1, <3>1, Tails DEF TailSteps
    <3>3. CASE item.pattern = "manager_approval_ticket"
      <4>1. s = "manager_approval"
        BY <1>0, <1>5, <2>6, <3>3, Tails DEF TailSteps
      <4>2. Steps[s] = WaitForApproval("manager_of_requester", "submit")
        BY <1>0, <2>1, <3>3, <4>1, Tails DEF TailSteps
      <4>. QED
        BY <1>2, <2>6, <3>2, <4>2 DEF ResolutionTypes, IsApproval
    <3>4. CASE item.pattern \in {"security_approval_ticket", "finance_approval_ticket"}
      <4>1. s = "manager_approval" \/ s = SecondApproval(item.pattern)
        BY <1>0, <1>5, <2>6, <3>4, Tails DEF TailSteps
      <4>2. SecondApproval(item.pattern) \in DOMAIN Steps
        BY <1>0, <2>1, <3>4, Tails DEF TailSteps
      <4>3. \/ Steps[s] = WaitForApproval("manager_of_requester", SecondApproval(item.pattern))
            \/ Steps[s] = WaitForApproval("role_in_department", "submit")
        BY <1>0, <2>1, <3>4, <4>1, Tails DEF TailSteps
      <4>. QED
        BY <1>2, <2>6, <3>2, <4>2, <4>3 DEF ResolutionTypes, IsApproval
    <3>. QED
      BY <1>0, <3>1, <3>3, <3>4 DEF Patterns
  <2>. QED
    BY <2>2, <2>3, <2>4, <2>5, <2>6 DEF TailIds
<1>. QED
  BY <1>4, <1>5, SeededSteps


\* A seeded graph has every step that it names, and no Branch.
LEMMA SeededClosed ==
  ASSUME Seeded
  PROVE  /\ Graph.entry_step_id \in DOMAIN Steps
         /\ TailFirst \in DOMAIN TailSteps
         /\ \A s \in DOMAIN Steps : /\ Steps[s].kind # "branch"
                                    /\ Successors(Steps[s]) \subseteq DOMAIN Steps
<1>1. TailFirst \in DOMAIN TailSteps
  <2>1. item.pattern \in Patterns
    BY DEF Seeded
  <2>2. CASE item.pattern = "info_only"
    BY <2>1, <2>2, Tails DEF TailFirst, TailSteps
  <2>3. CASE item.pattern = "simple_ticket"
    BY <2>1, <2>3, Tails DEF TailFirst, TailSteps
  <2>4. CASE item.pattern \notin {"info_only", "simple_ticket"}
    BY <2>1, <2>4, Tails DEF TailFirst, TailSteps
  <2>. QED
    BY <2>2, <2>3, <2>4
<1>2. /\ NQ \in Nat
      /\ \A i \in 1..NQ : QIds[i] \in DOMAIN Steps
      /\ TailFirst \in DOMAIN Steps
  BY <1>1, SeededSteps, QuestionsAre
<1>3. Graph.entry_step_id \in DOMAIN Steps
  BY <1>2, SeededSteps
<1>4. ASSUME NEW i \in 1..NQ
      PROVE  (IF i < NQ THEN QIds[i + 1] ELSE TailFirst) \in DOMAIN Steps
  <2>1. i < NQ => i + 1 \in 1..NQ
    BY <1>2
  <2>. QED
    BY <1>2, <2>1
<1>5. ASSUME NEW s \in DOMAIN Steps
      PROVE  Steps[s].kind # "branch" /\ Successors(Steps[s]) \subseteq DOMAIN Steps
  <2>1. CASE IsQuestion(s)
    BY <1>4, <2>1 DEF IsQuestion
  <2>2. CASE IsApproval(s)
    BY <2>2 DEF IsApproval
  <2>3. CASE IsTicket(s)
    BY <2>3 DEF IsTicket
  <2>4. CASE IsEnd(s)
    BY <2>4 DEF IsEnd
  <2>. QED
    BY <2>1, <2>2, <2>3, <2>4, SeededKinds
<1>. QED
  BY <1>1, <1>3, <1>5

\* What an item offers is a graph.
LEMMA GraphIsGraph ==
  ASSUME item \in Offers
  PROVE  IsGraph(Graph)
<1>1. CASE item.pattern \notin Patterns
  BY <1>1, OffersAssumption DEF Graph
<1>2. CASE item.pattern \in Patterns
  <2>0. Seeded
    BY <1>2 DEF Seeded
  <2>1. \A i \in 1..NQ : QIds[i] \in StepIds
    BY <2>0, QuestionsAre
  <2>2. DOMAIN TailSteps \subseteq StepIds
    BY <1>2, Tails, QIdsAssumption DEF TailSteps
  <2>3. DOMAIN Steps \subseteq StepIds
    BY <2>0, <2>1, <2>2, SeededSteps
  <2>4. Graph.entry_step_id \in StepIds
    BY <2>0, <2>3, SeededClosed
  <2>5. ASSUME NEW s \in DOMAIN Steps
        PROVE  /\ Steps[s].kind \in StepKinds
               /\ Successors(Steps[s]) \subseteq StepIds
               /\ Steps[s].kind = "question" => Steps[s].field_key \in FieldKeys
               /\ Steps[s].kind = "end" => Steps[s].outcome \in EndOutcomes
               /\ Steps[s].kind = "wait_for_approval" =>
                    /\ Steps[s].has_timeout \in BOOLEAN
                    /\ Steps[s].approver_resolution.type \in ResolutionTypes
    <3>1. Successors(Steps[s]) \subseteq StepIds
      BY <2>0, <2>3, SeededClosed
    <3>. QED
      BY <2>0, <3>1, SeededKinds DEF StepKinds, EndOutcomes,
         IsQuestion, IsApproval, IsTicket, IsEnd
  <2>. QED
    BY <2>3, <2>4, <2>5 DEF IsGraph, Steps
<1>. QED
  BY <1>1, <1>2

----------------------------------------------------------------------------
(* The status of a request and its step.                                   *)

\* The status says what the step is.
StatusFits(s, status) ==
  /\ status = "in_progress" <=> HasKind(Graph, s, "question")
  /\ status = "awaiting_approval" <=> HasKind(Graph, s, "wait_for_approval")
  /\ status = "dispatching" <=> HasKind(Graph, s, "submit_ticket")
  /\ \A outcome \in EndOutcomes :
       status = outcome <=> HasKind(Graph, s, "end") /\ Steps[s].outcome = outcome
  /\ status # "none" /\ status # "failed"

\* A successful call of the engine leaves such a status.
LEMMA RestsFit ==
  ASSUME item \in Offers, NEW r, Rests(Graph, r), r.err = "none"
  PROVE  StatusFits(r.step, StatusOf(r.outcome))
<1>1. /\ r.step \in DOMAIN Steps
      /\ Steps[r.step].kind # "branch"
      /\ r.outcome = OutcomeOf(Steps[r.step])
  BY DEF Rests, Steps
<1>2. /\ Steps[r.step].kind \in StepKinds
      /\ Steps[r.step].kind = "end" => Steps[r.step].outcome \in EndOutcomes
  BY <1>1, GraphIsGraph DEF IsGraph, Steps
<1>3. \A kind : HasKind(Graph, r.step, kind) <=> Steps[r.step].kind = kind
  BY <1>1 DEF HasKind, Steps
<1>4. CASE Steps[r.step].kind = "question"
  BY <1>1, <1>3, <1>4 DEF StatusFits, StatusOf, OutcomeOf, EndOutcomes
<1>5. CASE Steps[r.step].kind = "wait_for_approval"
  BY <1>1, <1>3, <1>5 DEF StatusFits, StatusOf, OutcomeOf, EndOutcomes
<1>6. CASE Steps[r.step].kind = "submit_ticket"
  BY <1>1, <1>3, <1>6 DEF StatusFits, StatusOf, OutcomeOf, EndOutcomes
<1>7. CASE Steps[r.step].kind = "end"
  BY <1>1, <1>2, <1>3, <1>7 DEF StatusFits, StatusOf, OutcomeOf, EndOutcomes
<1>. QED
  BY <1>1, <1>2, <1>4, <1>5, <1>6, <1>7 DEF StepKinds

----------------------------------------------------------------------------
(* The engine gives up for a reason.                                       *)

\* A step that the graph names.
Named(s) ==
  s = Graph.entry_step_id \/ \E x \in DOMAIN Steps : s \in Successors(Steps[x])

Reason(err) ==
  /\ item.pattern \notin Patterns
  /\ IF err = "TooManySteps" THEN BranchChain ELSE Dangles

LEMMA DanglesIs ==
  ASSUME NEW s, Named(s), s \notin DOMAIN Steps
  PROVE  Dangles
  BY DEF Dangles, Named

LEMMA AdvanceReason ==
  ASSUME item \in Offers, NEW s, Named(s), NEW answers,
         auto_advance(Graph, s, answers).err # "none"
  PROVE  Reason(auto_advance(Graph, s, answers).err)
<1>1. IsGraph(Graph)
  BY GraphIsGraph
<1>2. s \in StepIds
  BY <1>1 DEF Named, IsGraph, Steps
<1>3. item.pattern \notin Patterns
  <2>. SUFFICES ASSUME item.pattern \in Patterns PROVE FALSE
    OBVIOUS
  <2>1. Seeded
    BY DEF Seeded
  <2>2. s \in DOMAIN Steps /\ Steps[s].kind # "branch"
    BY <2>1, SeededClosed DEF Named
  <2>3. auto_advance(Graph, s, answers) = Result(s, OutcomeOf(Graph.steps[s]))
    BY <2>2, AdvanceRests DEF HasKind, Steps
  <2>. QED
    BY <2>3 DEF Result
<1>4. PICK err : err = auto_advance(Graph, s, answers).err
  OBVIOUS
<1>5. CASE err = "UnknownStep"
  <2>1. \/ s \notin DOMAIN Steps
        \/ \E x \in DOMAIN Steps : ~(Successors(Steps[x]) \subseteq DOMAIN Steps)
    BY <1>1, <1>2, <1>4, <1>5, AdvanceErrs DEF Steps
  <2>2. Dangles
    BY <2>1, DanglesIs DEF Named
  <2>. QED
    BY <1>3, <1>4, <1>5, <2>2 DEF Reason
<1>6. CASE err = "TooManySteps"
  <2>1. PICK chain \in [1 .. MAX_AUTO_STEPS -> DOMAIN Steps] : BranchesInARow(Graph, chain)
    BY <1>1, <1>2, <1>4, <1>6, AdvanceErrs DEF Steps
  <2>2. \A n \in DOMAIN chain : Steps[chain[n]].kind = "branch"
    BY <2>1 DEF BranchesInARow, HasKind, Steps
  <2>3. ASSUME NEW n \in 1 .. MAX_AUTO_STEPS - 1
        PROVE  chain[n + 1] \in Successors(Steps[chain[n]])
    BY <2>1 DEF BranchesInARow, Steps
  <2>4. BranchChain
    BY <2>2, <2>3 DEF BranchChain
  <2>. QED
    BY <1>3, <1>4, <1>6, <2>4 DEF Reason
<1>. QED
  BY <1>1, <1>2, <1>4, <1>5, <1>6, AdvanceErrs


----------------------------------------------------------------------------
(* The invariant behind all of it: a request is at a step that its status  *)
(* fits, so that every call of the engine suits the step.                  *)

RequestOK ==
  /\ item \in Offers
  /\ instance = [step |-> instance.step, status |-> instance.status,
                 answers |-> instance.answers]
  /\ \/ instance = Closed
     \/ instance.status = "failed"
     \/ StatusFits(instance.step, instance.status)

\* No step changes the item, so the graph stays what it is.
LEMMA GraphStays ==
  ASSUME item' = item
  PROVE  /\ Graph' = Graph /\ Steps' = Steps
         /\ BranchChain' <=> BranchChain
         /\ Dangles' <=> Dangles
         /\ \A s, status : StatusFits(s, status)' <=> StatusFits(s, status)
<1>1. Graph' = Graph
  BY DEF Graph
<1>2. Steps' = Steps
  BY <1>1 DEF Steps
<1>3. BranchChain' <=> BranchChain
  BY <1>2 DEF BranchChain
<1>4. Dangles' <=> Dangles
  BY <1>1, <1>2 DEF Dangles
<1>5. ASSUME NEW s, NEW status
      PROVE  StatusFits(s, status)' <=> StatusFits(s, status)
  BY <1>1, <1>2 DEF StatusFits
<1>. QED
  BY <1>1, <1>2, <1>3, <1>4, <1>5

\* A call of the engine that suits the step it is made at.
Suits(r) == Rests(Graph, r) /\ (r.err # "none" => Reason(r.err))

\* What is left of a request after it.
Applied(r, answers) ==
  /\ error = "none"
  /\ \/ /\ r.err = "none"
        /\ instance' = [step |-> r.step, status |-> StatusOf(r.outcome), answers |-> answers]
        /\ StatusFits(r.step, StatusOf(r.outcome))
        /\ error' = "none"
     \/ /\ r.err # "none"
        /\ instance' = instance
        /\ Reason(error')

LEMMA ApplyOK ==
  ASSUME item \in Offers, error = "none", NEW r, NEW answers, Suits(r), Apply(r, answers)
  PROVE  Applied(r, answers)
  BY RestsFit DEF Suits, Apply, Applied

\* The calls that the pages and handlers make suit the steps they make them at.
LEMMA StartSuits ==
  ASSUME item \in Offers
  PROVE  Suits(engine_start(Graph))
<1>1. Rests(Graph, engine_start(Graph))
  BY EngineRests
<1>2. CASE Graph.entry_step_id \in DOMAIN Graph.steps
  <2>1. engine_start(Graph) = auto_advance(Graph, Graph.entry_step_id, NoAnswers)
    BY <1>2 DEF engine_start
  <2>2. Named(Graph.entry_step_id)
    BY DEF Named
  <2>. QED
    BY <1>1, <2>1, <2>2, AdvanceReason DEF Suits
<1>3. CASE Graph.entry_step_id \notin DOMAIN Graph.steps
  <2>1. engine_start(Graph).err = "EmptyGraph"
    BY <1>3 DEF engine_start, Error
  <2>2. Dangles
    BY <1>3, DanglesIs DEF Named, Steps
  <2>3. item.pattern \notin Patterns
    BY <1>3, SeededClosed DEF Seeded, Steps
  <2>. QED
    BY <1>1, <2>1, <2>2, <2>3 DEF Suits, Reason
<1>. QED
  BY <1>2, <1>3

LEMMA AnswerSuits ==
  ASSUME item \in Offers, NEW s, HasKind(Graph, s, "question"), NEW answers, NEW value
  PROVE  /\ Suits(engine_submit_answer(Graph, s, answers, Steps[s].field_key, value))
         /\ engine_submit_answer(Graph, s, answers, Steps[s].field_key, value)
              = auto_advance(Graph, Steps[s].next, Insert(answers, Steps[s].field_key, value))
<1>1. s \in DOMAIN Graph.steps /\ Graph.steps[s].kind = "question" /\ Graph.steps = Steps
  BY DEF HasKind, Steps
<1>2. Rests(Graph, engine_submit_answer(Graph, s, answers, Steps[s].field_key, value))
  BY EngineRests
<1>3. engine_submit_answer(Graph, s, answers, Steps[s].field_key, value)
        = auto_advance(Graph, Steps[s].next, Insert(answers, Steps[s].field_key, value))
  BY <1>1 DEF engine_submit_answer
<1>4. Named(Steps[s].next)
  BY <1>1 DEF Named, Successors
<1>. QED
  BY <1>2, <1>3, <1>4, AdvanceReason DEF Suits

LEMMA ApprovalSuits ==
  ASSUME item \in Offers, NEW s, HasKind(Graph, s, "wait_for_approval"), NEW answers, NEW decision
  PROVE  /\ Suits(engine_resume_after_approval(Graph, s, answers, decision))
         /\ engine_resume_after_approval(Graph, s, answers, decision)
              = auto_advance(Graph, IF decision = "approve" THEN Steps[s].on_approve
                                                            ELSE Steps[s].on_reject, answers)
<1>1. s \in DOMAIN Graph.steps /\ Graph.steps[s].kind = "wait_for_approval" /\ Graph.steps = Steps
  BY DEF HasKind, Steps
<1>2. Rests(Graph, engine_resume_after_approval(Graph, s, answers, decision))
  BY EngineRests
<1>3. PICK next : next = IF decision = "approve" THEN Steps[s].on_approve
                                                 ELSE Steps[s].on_reject
  OBVIOUS
<1>4. engine_resume_after_approval(Graph, s, answers, decision)
        = auto_advance(Graph, next, answers)
  BY <1>1, <1>3 DEF engine_resume_after_approval
<1>5. Successors(Steps[s]) = {Steps[s].on_approve, Steps[s].on_reject}
  BY <1>1 DEF Successors
<1>6. Named(next)
  BY <1>1, <1>3, <1>5 DEF Named
<1>. QED
  BY <1>2, <1>3, <1>4, <1>6, AdvanceReason DEF Suits

LEMMA TicketSuits ==
  ASSUME item \in Offers, NEW s, HasKind(Graph, s, "submit_ticket"), NEW answers
  PROVE  /\ Suits(engine_resume_after_ticket_dispatch(Graph, s, answers))
         /\ engine_resume_after_ticket_dispatch(Graph, s, answers)
              = auto_advance(Graph, Steps[s].next, answers)
<1>1. s \in DOMAIN Graph.steps /\ Graph.steps[s].kind = "submit_ticket" /\ Graph.steps = Steps
  BY DEF HasKind, Steps
<1>2. Rests(Graph, engine_resume_after_ticket_dispatch(Graph, s, answers))
  BY EngineRests
<1>3. engine_resume_after_ticket_dispatch(Graph, s, answers)
        = auto_advance(Graph, Steps[s].next, answers)
  BY <1>1 DEF engine_resume_after_ticket_dispatch
<1>4. Successors(Steps[s]) = {Steps[s].next}
  BY <1>1 DEF Successors
<1>5. Named(Steps[s].next)
  BY <1>1, <1>4 DEF Named
<1>. QED
  BY <1>2, <1>3, <1>5, AdvanceReason DEF Suits


----------------------------------------------------------------------------
(* The steps of the specification, with the engine's part spelt out.       *)

Paged == UNCHANGED <<instance, asked, typed, approved, tickets, error>>

Started ==
  /\ instance = Closed
  /\ Applied(engine_start(Graph), NoAnswers)
  /\ UNCHANGED <<preview, asked, approved, tickets>>

Answered ==
  \E answers :
    /\ instance.status = "in_progress"
    /\ HasKind(Graph, instance.step, "question")
    /\ Applied(auto_advance(Graph, Steps[instance.step].next, answers), answers)
    /\ asked' = IF auto_advance(Graph, Steps[instance.step].next, answers).err = "none"
                THEN Note(asked, instance.step) ELSE asked
    /\ UNCHANGED <<preview, approved, tickets>>

Decided ==
  \E decision \in {"approve", "reject"} :
    /\ instance.status = "awaiting_approval"
    /\ HasKind(Graph, instance.step, "wait_for_approval")
    /\ Applied(auto_advance(Graph, IF decision = "approve" THEN Steps[instance.step].on_approve
                                                           ELSE Steps[instance.step].on_reject,
                            instance.answers), instance.answers)
    /\ approved' = IF decision = "approve" THEN Append(approved, instance.step) ELSE approved
    /\ UNCHANGED <<preview, asked, tickets>>

Filed ==
  /\ instance.status = "dispatching"
  /\ HasKind(Graph, instance.step, "submit_ticket")
  /\ tickets' = (tickets % MaxTickets) + 1
  /\ Applied(auto_advance(Graph, Steps[instance.step].next, instance.answers), instance.answers)
  /\ UNCHANGED <<preview, asked, approved>>

NotFiled ==
  /\ instance.status = "dispatching"
  /\ HasKind(Graph, instance.step, "submit_ticket")
  /\ instance' = [instance EXCEPT !.status = "failed"]
  /\ UNCHANGED <<preview, asked, approved, tickets, error>>

\* The fit of a status that is neither Closed's nor "failed".
LEMMA FitsNow ==
  ASSUME RequestOK,
         instance.status \in {"in_progress", "awaiting_approval", "dispatching"}
                               \cup EndOutcomes
  PROVE  StatusFits(instance.step, instance.status)
<1>1. instance # Closed /\ instance.status # "failed"
  BY DEF Closed, EndOutcomes
<1>. QED
  BY <1>1 DEF RequestOK

LEMMA StepsAre ==
  ASSUME RequestOK, Next
  PROVE  /\ item' = item
         /\ Paged \/ Started \/ Answered \/ Decided \/ Filed \/ NotFiled
<1>0. item \in Offers
  BY DEF RequestOK
<1>1. CASE item_detail \/ preview_questions
  BY <1>1 DEF item_detail, preview_questions, Paged
<1>2. CASE start_request
  BY <1>0, <1>2, StartSuits, ApplyOK DEF start_request, Started
<1>3. ASSUME NEW value, NEW text, Asking, Answer(value, text)
      PROVE  item' = item /\ Answered
  <2>1. /\ error = "none" /\ instance.status = "in_progress"
        /\ HasKind(Graph, instance.step, "question")
    BY <1>3, FitsNow DEF Asking, StatusFits
  <2>2. PICK answers : answers = Insert(instance.answers, Steps[instance.step].field_key, value)
    OBVIOUS
  <2>3. PICK r : r = engine_submit_answer(Graph, instance.step, instance.answers,
                                          Steps[instance.step].field_key, value)
    OBVIOUS
  <2>4. /\ Apply(r, answers)
        /\ asked' = IF r.err = "none" THEN Note(asked, instance.step) ELSE asked
        /\ UNCHANGED <<item, preview, approved, tickets>>
    BY <1>3, <2>2, <2>3 DEF Answer
  <2>5. Suits(r) /\ r = auto_advance(Graph, Steps[instance.step].next, answers)
    BY <1>0, <2>1, <2>2, <2>3, AnswerSuits
  <2>6. Applied(r, answers)
    BY <1>0, <2>1, <2>4, <2>5, ApplyOK
  <2>. QED
    BY <2>1, <2>4, <2>5, <2>6 DEF Answered
<1>4. CASE \E type \in DOMAIN RawTexts : \E raw \in RawTexts[type] : submit_form(raw)
  BY <1>3, <1>4 DEF submit_form
<1>5. CASE \E type \in DOMAIN ApiValues : \E value \in ApiValues[type] : submit_api(value)
  BY <1>3, <1>5 DEF submit_api
<1>6. ASSUME NEW decision \in {"approve", "reject"}, decide(decision)
      PROVE  item' = item /\ Decided
  <2>1. /\ error = "none" /\ instance.status = "awaiting_approval"
        /\ HasKind(Graph, instance.step, "wait_for_approval")
    BY <1>6, FitsNow DEF decide, StatusFits
  <2>2. PICK r : r = engine_resume_after_approval(Graph, instance.step, instance.answers, decision)
    OBVIOUS
  <2>3. /\ Apply(r, instance.answers)
        /\ approved' = IF decision = "approve" THEN Append(approved, instance.step) ELSE approved
        /\ UNCHANGED <<item, preview, asked, tickets>>
    BY <1>6, <2>2 DEF decide
  <2>4. /\ Suits(r)
        /\ r = auto_advance(Graph, IF decision = "approve" THEN Steps[instance.step].on_approve
                                                           ELSE Steps[instance.step].on_reject,
                            instance.answers)
    BY <1>0, <2>1, <2>2, ApprovalSuits
  <2>5. Applied(r, instance.answers)
    BY <1>0, <2>1, <2>3, <2>4, ApplyOK
  <2>. QED
    BY <2>1, <2>3, <2>4, <2>5 DEF Decided
<1>7. CASE dispatch_ticket
  <2>1. /\ error = "none" /\ instance.status = "dispatching"
        /\ HasKind(Graph, instance.step, "submit_ticket")
    BY <1>7, FitsNow DEF dispatch_ticket, StatusFits
  <2>2. PICK r : r = engine_resume_after_ticket_dispatch(Graph, instance.step, instance.answers)
    OBVIOUS
  <2>3. /\ Suits(r)
        /\ r = auto_advance(Graph, Steps[instance.step].next, instance.answers)
    BY <1>0, <2>1, <2>2, TicketSuits
  <2>4. CASE /\ tickets' = (tickets % MaxTickets) + 1
             /\ Apply(r, instance.answers)
    <3>1. Applied(r, instance.answers)
      BY <1>0, <2>1, <2>3, <2>4, ApplyOK
    <3>. QED
      BY <1>7, <2>1, <2>3, <2>4, <3>1 DEF dispatch_ticket, Filed
  <2>5. CASE /\ instance' = [instance EXCEPT !.status = "failed"]
             /\ UNCHANGED <<tickets, error>>
    BY <1>7, <2>1, <2>5 DEF dispatch_ticket, NotFiled
  <2>. QED
    BY <1>7, <2>2, <2>4, <2>5 DEF dispatch_ticket
<1>. QED
  BY <1>1, <1>2, <1>4, <1>5, <1>6, <1>7 DEF Next

----------------------------------------------------------------------------
(* The invariant holds, and errors have their reason.                      *)

LEMMA RequestStep ==
  ASSUME RequestOK, ErrorsAreTheGraphs, [Next]_vars
  PROVE  RequestOK' /\ ErrorsAreTheGraphs'
<1>1. CASE UNCHANGED vars
  <2>1. item' = item /\ instance' = instance /\ error' = error
    BY <1>1 DEF vars
  <2>. QED
    BY <2>1, GraphStays DEF RequestOK, ErrorsAreTheGraphs, StatusFits
<1>2. CASE Next
  <2>1. item' = item
    BY <1>2, StepsAre
  <2>2. ASSUME NEW r, NEW answers, Applied(r, answers)
        PROVE  RequestOK' /\ ErrorsAreTheGraphs'
    <3>1. CASE /\ r.err = "none"
               /\ instance' = [step |-> r.step, status |-> StatusOf(r.outcome), answers |-> answers]
               /\ StatusFits(r.step, StatusOf(r.outcome))
               /\ error' = "none"
      <4>1. instance'.step = r.step /\ instance'.status = StatusOf(r.outcome)
            /\ instance'.answers = answers
        BY <3>1
      <4>2. StatusFits(instance.step, instance.status)'
        BY <2>1, <3>1, <4>1, GraphStays DEF StatusFits
      <4>. QED
        BY <2>1, <3>1, <4>1, <4>2 DEF RequestOK, ErrorsAreTheGraphs
    <3>2. CASE r.err # "none" /\ instance' = instance /\ Reason(error')
      BY <2>1, <3>2, GraphStays DEF RequestOK, ErrorsAreTheGraphs, StatusFits, Reason
    <3>. QED
      BY <2>2, <3>1, <3>2 DEF Applied
  <2>3. CASE Paged
    BY <2>1, <2>3, GraphStays DEF Paged, RequestOK, ErrorsAreTheGraphs, StatusFits
  <2>4. CASE NotFiled
    BY <2>1, <2>4, GraphStays DEF NotFiled, RequestOK, ErrorsAreTheGraphs
  <2>. QED
    BY <1>2, <2>2, <2>3, <2>4, StepsAre DEF Started, Answered, Decided, Filed
<1>. QED
  BY <1>1, <1>2

LEMMA RequestInvariant ==
  Spec => [](RequestOK /\ ErrorsAreTheGraphs)
<1>1. Init => RequestOK /\ ErrorsAreTheGraphs
  BY DEF Init, RequestOK, ErrorsAreTheGraphs, Closed
<1>. QED
  BY <1>1, RequestStep, PTL DEF Spec

\* Whatever is answered and decided, the engine gives up a request only if its
\* graph names a step that it does not have or has MAX_AUTO_STEPS branches in a
\* row, and never one of a starter workflow.
THEOREM EngineGivesUpForAReason ==
  Spec => []ErrorsAreTheGraphs
  BY RequestInvariant, PTL


----------------------------------------------------------------------------
(* The preview and the questions.  Both follow one line: from the entry    *)
(* from question to question, as far as there is nothing else between.     *)

\* Where a line leads after its first n questions.
LeadsTo(g, line, n) == IF n = 0 THEN g.entry_step_id ELSE g.steps[line[n]].next

IsLine(g, line) ==
  /\ line \in Seq(StepIds)
  /\ \A k \in 1..Len(line) : /\ HasKind(g, line[k], "question")
                             /\ line[k] = LeadsTo(g, line, k - 1)

\* A line that ends because no question follows.
IsWhole(g, line) ==
  IsLine(g, line) /\ ~HasKind(g, LeadsTo(g, line, Len(line)), "question")

\* p begins with the line.
BeginsWith(p, line) ==
  Len(line) <= Len(p) /\ \A k \in 1..Len(line) : p[k] = line[k]

LEMMA LenIsNat ==
  ASSUME NEW S, NEW s \in Seq(S)
  PROVE  Len(s) \in Nat /\ DOMAIN s = 1..Len(s)
  BY LenProperties

\* Two lines of one graph agree as far as both go.
LEMMA LinesAgree ==
  ASSUME NEW g, NEW s, NEW t, IsLine(g, s), IsLine(g, t), Len(s) <= Len(t)
  PROVE  BeginsWith(t, s)
<1>. DEFINE T == {k \in Nat : k \in 1..Len(s) => s[k] = t[k]}
<1>0. Len(s) \in Nat /\ Len(t) \in Nat
  BY LenIsNat DEF IsLine
<1>1. 0 \in T
  OBVIOUS
<1>2. ASSUME NEW k \in T PROVE k + 1 \in T
  <2>1. CASE k + 1 \in 1..Len(s)
    <3>1. k \in Nat /\ k + 1 \in 1..Len(t) /\ (k + 1) - 1 = k
      BY <1>0, <2>1
    <3>2. s[k + 1] = LeadsTo(g, s, k) /\ t[k + 1] = LeadsTo(g, t, k)
      BY <2>1, <3>1 DEF IsLine
    <3>3. CASE k = 0
      BY <3>1, <3>2, <3>3 DEF LeadsTo
    <3>4. CASE k # 0
      <4>1. k \in 1..Len(s)
        BY <1>0, <2>1, <3>1, <3>4
      <4>2. s[k] = t[k]
        BY <4>1
      <4>. QED
        BY <3>1, <3>2, <3>4, <4>2 DEF LeadsTo
    <3>. QED
      BY <3>3, <3>4
  <2>2. CASE k + 1 \notin 1..Len(s)
    BY <2>2
  <2>. QED
    BY <2>1, <2>2
<1>3. T \in SUBSET Nat
  OBVIOUS
<1>. HIDE DEF T
<1>4. T = Nat
  BY <1>1, <1>2, <1>3, NatSteps
<1>5. \A k \in 1..Len(s) : s[k] = t[k]
  BY <1>0, <1>4 DEF T
<1>. QED
  BY <1>5 DEF BeginsWith

\* A line never goes on where another one of its graph ends.
LEMMA WholeIsLonger ==
  ASSUME NEW g, NEW s, NEW t, IsLine(g, s), IsWhole(g, t)
  PROVE  Len(s) <= Len(t)
<1>. SUFFICES ASSUME ~(Len(s) <= Len(t)) PROVE FALSE
  OBVIOUS
<1>0. Len(s) \in Nat /\ Len(t) \in Nat
  BY LenIsNat DEF IsLine, IsWhole
<1>1. /\ Len(t) <= Len(s) /\ Len(t) + 1 \in 1..Len(s) /\ (Len(t) + 1) - 1 = Len(t)
      /\ Len(t) # 0 => Len(t) \in 1..Len(t)
  BY <1>0
<1>2. BeginsWith(s, t)
  BY <1>1, LinesAgree DEF IsWhole
<1>3. HasKind(g, s[Len(t) + 1], "question") /\ s[Len(t) + 1] = LeadsTo(g, s, Len(t))
  BY <1>1 DEF IsLine
<1>4. LeadsTo(g, s, Len(t)) = LeadsTo(g, t, Len(t))
  BY <1>1, <1>2 DEF LeadsTo, BeginsWith
<1>. QED
  BY <1>3, <1>4 DEF IsWhole

\* IsPrefix, index by index.
LEMMA PrefixIs ==
  ASSUME NEW s \in Seq(StepIds), NEW t \in Seq(StepIds), BeginsWith(t, s)
  PROVE  IsPrefix(s, t)
<1>1. PICK n : n = Len(s)
  OBVIOUS
<1>2. n \in Nat /\ Len(t) \in Nat /\ n <= Len(t) /\ 1 \in Int /\ n \in Int
  BY <1>1, LenIsNat DEF BeginsWith
<1>3. \A k \in 1..n : s[k] \in StepIds /\ t[k] \in StepIds /\ t[k] = s[k]
  BY <1>1, <1>2, ElementOfSeq DEF BeginsWith
<1>4. /\ SubSeq(s, 1, n) \in Seq(StepIds)
      /\ Len(SubSeq(s, 1, n)) = IF 1 <= n THEN n - 1 + 1 ELSE 0
      /\ \A i \in 1 .. n - 1 + 1 : SubSeq(s, 1, n)[i] = s[1 + i - 1]
  BY <1>2, <1>3, SubSeqProperties
<1>5. /\ SubSeq(t, 1, n) \in Seq(StepIds)
      /\ Len(SubSeq(t, 1, n)) = IF 1 <= n THEN n - 1 + 1 ELSE 0
      /\ \A i \in 1 .. n - 1 + 1 : SubSeq(t, 1, n)[i] = t[1 + i - 1]
  BY <1>2, <1>3, SubSeqProperties
<1>6. PICK a, b : a = SubSeq(s, 1, n) /\ b = SubSeq(t, 1, n)
  OBVIOUS
<1>7. Len(a) = n /\ Len(b) = n
  BY <1>2, <1>4, <1>5, <1>6
<1>8. ASSUME NEW i \in 1..n PROVE a[i] = b[i]
  <2>1. i \in 1 .. n - 1 + 1 /\ 1 + i - 1 = i
    BY <1>2
  <2>. QED
    BY <1>3, <1>4, <1>5, <1>6, <2>1
<1>9. a = b
  BY <1>4, <1>5, <1>6, <1>7, <1>8, SeqEqual
<1>. QED
  BY <1>1, <1>2, <1>6, <1>9 DEF IsPrefix

\* A line grows by the question it leads to.
LEMMA LineGrows ==
  ASSUME NEW g, IsGraph(g), NEW line, IsLine(g, line),
         NEW s, s = LeadsTo(g, line, Len(line)), HasKind(g, s, "question")
  PROVE  /\ IsLine(g, Append(line, s))
         /\ Len(Append(line, s)) = Len(line) + 1
         /\ LeadsTo(g, Append(line, s), Len(line) + 1) = g.steps[s].next
<1>0. s \in StepIds /\ line \in Seq(StepIds) /\ Len(line) \in Nat
  BY LenIsNat DEF HasKind, IsGraph, IsLine
<1>1. PICK longer : longer = Append(line, s)
  OBVIOUS
<1>2. /\ longer \in Seq(StepIds)
      /\ Len(longer) = Len(line) + 1
      /\ \A i \in 1..Len(line) : longer[i] = line[i]
      /\ longer[Len(line) + 1] = s
  BY <1>0, <1>1, AppendProperties
<1>3. \A n \in 0..Len(line) : LeadsTo(g, longer, n) = LeadsTo(g, line, n)
  <2>. SUFFICES ASSUME NEW n \in 0..Len(line)
                PROVE  LeadsTo(g, longer, n) = LeadsTo(g, line, n)
    OBVIOUS
  <2>1. n # 0 => n \in 1..Len(line)
    BY <1>0
  <2>. QED
    BY <1>2, <2>1 DEF LeadsTo
<1>4. ASSUME NEW k \in 1..(Len(line) + 1)
      PROVE  HasKind(g, longer[k], "question") /\ longer[k] = LeadsTo(g, longer, k - 1)
  <2>1. k - 1 \in 0..Len(line)
    BY <1>0
  <2>2. CASE k = Len(line) + 1
    <3>1. k - 1 = Len(line)
      BY <1>0, <2>2
    <3>. QED
      BY <1>2, <1>3, <2>1, <2>2, <3>1
  <2>3. CASE k # Len(line) + 1
    <3>1. k \in 1..Len(line)
      BY <1>0, <2>3
    <3>. QED
      BY <1>2, <1>3, <2>1, <3>1 DEF IsLine
  <2>. QED
    BY <2>2, <2>3
<1>5. LeadsTo(g, longer, Len(line) + 1) = g.steps[s].next
  <2>1. Len(line) + 1 # 0
    BY <1>0
  <2>. QED
    BY <1>2, <2>1 DEF LeadsTo
<1>. QED
  BY <1>1, <1>2, <1>4, <1>5 DEF IsLine

LEMMA EmptyLine ==
  ASSUME NEW g
  PROVE  IsLine(g, <<>>) /\ Len(<<>>) = 0 /\ LeadsTo(g, <<>>, 0) = g.entry_step_id
<1>1. <<>> \in Seq(StepIds) /\ Len(<<>>) = 0
  BY EmptySeq
<1>2. \A k \in 1..Len(<<>>) : FALSE
  BY <1>1
<1>. QED
  BY <1>1, <1>2 DEF IsLine, LeadsTo


\* The preview has listed a line, up to the bound, and at the end all of it.
ShownInv ==
  /\ preview = [pc |-> preview.pc, step |-> preview.step, shown |-> preview.shown]
  /\ IsLine(Graph, preview.shown) /\ Len(preview.shown) <= MaxShown
  /\ preview.pc = "start" => preview.shown = <<>>
  /\ preview.pc = "loop" =>
       \/ Len(preview.shown) = MaxShown
       \/ preview.step = LeadsTo(Graph, preview.shown, Len(preview.shown))
  /\ preview.pc = "shown" =>
       Len(preview.shown) = MaxShown \/ IsWhole(Graph, preview.shown)

\* Where a request is on the line, given what was asked: at the question that
\* comes next, past the bound, or past the whole of it.
OnLine(g, qs, step, status) ==
  \/ IsLine(g, qs) /\ status = "in_progress" /\ step = LeadsTo(g, qs, Len(qs))
  \/ IsLine(g, qs) /\ Len(qs) = MaxShown
  \/ \E line \in Seq(StepIds) : IsWhole(g, line) /\ BeginsWith(qs, line)

AskedInv ==
  /\ asked \in Seq(StepIds) /\ Len(asked) <= MaxShown
  /\ instance = Closed => asked = <<>>
  /\ instance # Closed => OnLine(Graph, asked, instance.step, instance.status)

LEMMA ShownStep ==
  ASSUME RequestOK, ShownInv, [Next]_vars
  PROVE  ShownInv'
<1>0. item' = item
  BY StepsAre DEF vars
<1>1. Graph' = Graph /\ Steps' = Steps /\ IsGraph(Graph)
  BY <1>0, GraphStays, GraphIsGraph DEF RequestOK
<1>2. CASE preview' = preview
  BY <1>1, <1>2 DEF ShownInv
<1>3. CASE item_detail
  <2>1. /\ preview.shown = <<>> /\ preview.pc = "start"
        /\ preview' = [pc |-> "loop", step |-> Graph.entry_step_id, shown |-> <<>>]
    BY <1>3 DEF item_detail, PreviewStart, ShownInv
  <2>2. /\ preview'.pc = "loop" /\ preview'.step = Graph.entry_step_id
        /\ preview'.shown = <<>>
    BY <2>1
  <2>3. 0 <= MaxShown
    BY BoundsAssumption
  <2>. QED
    BY <1>1, <2>1, <2>2, <2>3, EmptyLine DEF ShownInv
<1>4. CASE preview_questions
  <2>0. PICK shown : shown = preview.shown
    OBVIOUS
  <2>1. /\ preview.pc = "loop"
        /\ IsLine(Graph, shown) /\ Len(shown) <= MaxShown /\ Len(shown) \in Nat
        /\ Len(shown) = MaxShown \/ preview.step = LeadsTo(Graph, shown, Len(shown))
    BY <1>4, <2>0, LenIsNat DEF preview_questions, ShownInv, IsLine
  <2>2. CASE ~HasKind(Graph, preview.step, "question")
    <3>1. preview' = [pc |-> "shown", step |-> preview.step, shown |-> shown]
      BY <1>4, <2>0, <2>2 DEF preview_questions, ShownInv
    <3>2. preview'.pc = "shown" /\ preview'.shown = shown /\ preview'.step = preview.step
      BY <3>1
    <3>3. Len(shown) = MaxShown \/ IsWhole(Graph, shown)
      BY <2>1, <2>2 DEF IsWhole
    <3>. QED
      BY <1>1, <2>1, <3>1, <3>2, <3>3 DEF ShownInv
  <2>3. CASE HasKind(Graph, preview.step, "question")
    <3>1. PICK longer : longer = Note(shown, preview.step)
      OBVIOUS
    <3>2. preview' = [pc |-> "loop", step |-> Steps[preview.step].next, shown |-> longer]
      BY <1>4, <2>0, <2>1, <2>3, <3>1 DEF preview_questions, ShownInv
    <3>3. /\ preview'.pc = "loop" /\ preview'.step = Steps[preview.step].next
          /\ preview'.shown = longer
      BY <3>2
    <3>4. CASE Len(shown) = MaxShown
      <4>1. longer = shown
        BY <2>1, <3>1, <3>4, BoundsAssumption DEF Note
      <4>. QED
        BY <1>1, <2>1, <3>2, <3>3, <3>4, <4>1 DEF ShownInv
    <3>5. CASE Len(shown) # MaxShown
      <4>1. Len(shown) < MaxShown /\ Len(shown) + 1 <= MaxShown
        BY <2>1, <3>5, BoundsAssumption
      <4>2. longer = Append(shown, preview.step)
        BY <3>1, <4>1 DEF Note
      <4>3. /\ IsLine(Graph, longer) /\ Len(longer) = Len(shown) + 1
            /\ LeadsTo(Graph, longer, Len(shown) + 1) = Steps[preview.step].next
        BY <1>1, <2>1, <2>3, <3>5, <4>2, LineGrows DEF Steps
      <4>. QED
        BY <1>1, <3>2, <3>3, <4>1, <4>3 DEF ShownInv
    <3>. QED
      BY <3>4, <3>5
  <2>. QED
    BY <2>2, <2>3
<1>5. \/ preview' = preview \/ item_detail \/ preview_questions
  BY DEF Next, vars, start_request, submit_form, submit_api, Answer, decide, dispatch_ticket
<1>. QED
  BY <1>2, <1>3, <1>4, <1>5

\* A request past the bound or past the line stays there.
LEMMA StaysPast ==
  ASSUME NEW g, NEW qs \in Seq(StepIds), NEW step, NEW status, OnLine(g, qs, step, status),
         status # "in_progress", NEW step2, NEW status2
  PROVE  OnLine(g, qs, step2, status2)
  BY DEF OnLine

\* Answering the question that the request is at.
LEMMA AnsweredOnLine ==
  ASSUME NEW g, IsGraph(g), NEW qs \in Seq(StepIds), Len(qs) <= MaxShown,
         NEW step, HasKind(g, step, "question"),
         OnLine(g, qs, step, "in_progress"),
         NEW step2, NEW status2,
         HasKind(g, g.steps[step].next, "question")
           => step2 = g.steps[step].next /\ status2 = "in_progress"
  PROVE  /\ Note(qs, step) \in Seq(StepIds) /\ Len(Note(qs, step)) <= MaxShown
         /\ OnLine(g, Note(qs, step), step2, status2)
<1>0. Len(qs) \in Nat /\ step \in StepIds
  BY LenIsNat DEF HasKind, IsGraph
<1>1. CASE Len(qs) = MaxShown
  <2>1. Note(qs, step) = qs
    BY <1>0, <1>1, BoundsAssumption DEF Note
  <2>2. IsLine(g, qs) \/ \E line \in Seq(StepIds) : IsWhole(g, line) /\ BeginsWith(qs, line)
    BY DEF OnLine
  <2>. QED
    BY <1>1, <2>1, <2>2 DEF OnLine
<1>2. CASE Len(qs) # MaxShown
  <2>1. PICK longer : longer = Append(qs, step)
    OBVIOUS
  <2>2. Note(qs, step) = longer /\ Len(qs) + 1 <= MaxShown
    BY <1>0, <1>2, <2>1, BoundsAssumption DEF Note
  <2>3. /\ longer \in Seq(StepIds) /\ Len(longer) = Len(qs) + 1
        /\ \A k \in 1..Len(qs) : longer[k] = qs[k]
    BY <1>0, <2>1, AppendProperties
  <2>4. CASE IsLine(g, qs) /\ step = LeadsTo(g, qs, Len(qs))
    <3>1. IsLine(g, longer) /\ LeadsTo(g, longer, Len(longer)) = g.steps[step].next
      BY <2>1, <2>3, <2>4, LineGrows
    <3>2. CASE HasKind(g, g.steps[step].next, "question")
      BY <2>2, <2>3, <3>1, <3>2 DEF OnLine
    <3>3. CASE ~HasKind(g, g.steps[step].next, "question")
      <4>1. IsWhole(g, longer) /\ BeginsWith(longer, longer)
        BY <1>0, <2>3, <3>1, <3>3 DEF IsWhole, BeginsWith
      <4>. QED
        BY <2>2, <2>3, <4>1 DEF OnLine
    <3>. QED
      BY <3>2, <3>3
  <2>5. CASE \E line \in Seq(StepIds) : IsWhole(g, line) /\ BeginsWith(qs, line)
    <3>1. PICK line \in Seq(StepIds) : IsWhole(g, line) /\ BeginsWith(qs, line)
      BY <2>5
    <3>2. Len(line) \in Nat
      BY LenIsNat
    <3>3. BeginsWith(longer, line)
      BY <1>0, <2>3, <3>1, <3>2 DEF BeginsWith
    <3>. QED
      BY <2>2, <2>3, <3>1, <3>3 DEF OnLine
  <2>. QED
    BY <1>2, <2>4, <2>5 DEF OnLine
<1>. QED
  BY <1>1, <1>2

LEMMA AskedStep ==
  ASSUME RequestOK, AskedInv, [Next]_vars
  PROVE  AskedInv'
<1>0. item' = item
  BY StepsAre DEF vars
<1>1. Graph' = Graph /\ Steps' = Steps /\ IsGraph(Graph) /\ Graph.steps = Steps
  BY <1>0, GraphStays, GraphIsGraph DEF RequestOK, Steps
<1>2. CASE instance' = instance /\ asked' = asked
  BY <1>1, <1>2 DEF AskedInv
<1>3. \A s, status, answers :
        status # "none" => [step |-> s, status |-> status, answers |-> answers] # Closed
  BY DEF Closed
\* Where an engine call rests if it is made at a question.
<1>4. ASSUME NEW s, HasKind(Graph, s, "question"), NEW answers
      PROVE  auto_advance(Graph, s, answers).step = s
  <2>1. ~HasKind(Graph, s, "branch") /\ s \in DOMAIN Graph.steps
    BY <1>4 DEF HasKind
  <2>2. auto_advance(Graph, s, answers) = Result(s, OutcomeOf(Graph.steps[s]))
    BY <2>1, AdvanceRests
  <2>. QED
    BY <2>2 DEF Result
<1>5. CASE Started
  <2>1. PICK r : r = engine_start(Graph)
    OBVIOUS
  <2>2. CASE r.err # "none"
    BY <1>2, <1>5, <2>1, <2>2 DEF Started, Applied
  <2>3. CASE r.err = "none"
    <3>1. /\ instance' = [step |-> r.step, status |-> StatusOf(r.outcome), answers |-> NoAnswers]
          /\ StatusFits(r.step, StatusOf(r.outcome))
          /\ asked' = <<>>
      BY <1>5, <2>1, <2>3 DEF Started, Applied, AskedInv
    <3>2. /\ instance'.step = r.step /\ instance'.status = StatusOf(r.outcome)
          /\ instance' # Closed
      BY <1>3, <3>1 DEF StatusFits
    <3>3. r = auto_advance(Graph, Graph.entry_step_id, NoAnswers)
      BY <2>1, <2>3 DEF engine_start, Error
    <3>4. CASE HasKind(Graph, Graph.entry_step_id, "question")
      <4>1. r.step = Graph.entry_step_id /\ StatusOf(r.outcome) = "in_progress"
        BY <1>4, <3>1, <3>3, <3>4 DEF StatusFits
      <4>2. OnLine(Graph, <<>>, r.step, StatusOf(r.outcome))
        BY <4>1, EmptyLine DEF OnLine
      <4>. QED
        BY <1>1, <3>1, <3>2, <4>2, EmptyLine, BoundsAssumption DEF AskedInv, IsLine
    <3>5. CASE ~HasKind(Graph, Graph.entry_step_id, "question")
      <4>1. IsWhole(Graph, <<>>) /\ BeginsWith(<<>>, <<>>) /\ <<>> \in Seq(StepIds)
        BY <3>5, EmptyLine DEF IsWhole, BeginsWith, IsLine
      <4>2. OnLine(Graph, <<>>, r.step, StatusOf(r.outcome))
        BY <4>1 DEF OnLine
      <4>. QED
        BY <1>1, <3>1, <3>2, <4>1, <4>2, EmptyLine, BoundsAssumption DEF AskedInv
    <3>. QED
      BY <3>4, <3>5
  <2>. QED
    BY <2>2, <2>3
<1>6. CASE Answered
  <2>1. PICK answers :
          /\ instance.status = "in_progress"
          /\ HasKind(Graph, instance.step, "question")
          /\ Applied(auto_advance(Graph, Steps[instance.step].next, answers), answers)
          /\ asked' = IF auto_advance(Graph, Steps[instance.step].next, answers).err = "none"
                      THEN Note(asked, instance.step) ELSE asked
    BY <1>6 DEF Answered
  <2>2. PICK next, r : /\ next = Steps[instance.step].next
                       /\ r = auto_advance(Graph, next, answers)
    OBVIOUS
  <2>3. CASE r.err # "none"
    BY <1>2, <2>1, <2>2, <2>3 DEF Applied
  <2>4. CASE r.err = "none"
    <3>1. /\ instance' = [step |-> r.step, status |-> StatusOf(r.outcome), answers |-> answers]
          /\ StatusFits(r.step, StatusOf(r.outcome))
          /\ asked' = Note(asked, instance.step)
      BY <2>1, <2>2, <2>4 DEF Applied
    <3>2. /\ instance'.step = r.step /\ instance'.status = StatusOf(r.outcome)
          /\ instance' # Closed
      BY <1>3, <3>1 DEF StatusFits
    <3>3. HasKind(Graph, next, "question")
            => r.step = next /\ StatusOf(r.outcome) = "in_progress"
      BY <1>4, <2>2, <3>1 DEF StatusFits
    <3>4. /\ asked \in Seq(StepIds) /\ Len(asked) <= MaxShown
          /\ OnLine(Graph, asked, instance.step, "in_progress")
      BY <2>1 DEF AskedInv, Closed
    <3>5. /\ Note(asked, instance.step) \in Seq(StepIds)
          /\ Len(Note(asked, instance.step)) <= MaxShown
          /\ OnLine(Graph, Note(asked, instance.step), r.step, StatusOf(r.outcome))
      BY <1>1, <2>1, <2>2, <3>3, <3>4, AnsweredOnLine
    <3>. QED
      BY <1>1, <3>1, <3>2, <3>5 DEF AskedInv
  <2>. QED
    BY <2>3, <2>4
<1>7. ASSUME instance.status \in {"awaiting_approval", "dispatching"}, asked' = asked,
             instance' = instance \/ instance'.status # "none"
      PROVE  AskedInv'
  <2>1. instance.status # "in_progress" /\ instance # Closed
    BY <1>7 DEF Closed
  <2>2. asked \in Seq(StepIds) /\ OnLine(Graph, asked, instance.step, instance.status)
    BY <2>1 DEF AskedInv
  <2>3. OnLine(Graph, asked, instance'.step, instance'.status)
    BY <2>1, <2>2, StaysPast
  <2>4. instance' # Closed
    BY <1>7, <2>1 DEF Closed
  <2>. QED
    BY <1>1, <1>7, <2>3, <2>4 DEF AskedInv
<1>8. ASSUME NEW r, NEW answers, Applied(r, answers)
      PROVE  instance' = instance \/ instance'.status # "none"
  BY <1>8 DEF Applied, StatusFits
<1>9. CASE Decided
  BY <1>7, <1>8, <1>9 DEF Decided
<1>10. CASE Filed
  BY <1>7, <1>8, <1>10 DEF Filed
<1>11. CASE NotFiled
  <2>1. instance'.status = "failed"
    BY <1>11 DEF NotFiled, RequestOK
  <2>. QED
    BY <1>7, <1>11, <2>1 DEF NotFiled
<1>12. CASE Paged
  BY <1>2, <1>12 DEF Paged
<1>. QED
  BY <1>2, <1>5, <1>6, <1>9, <1>10, <1>11, <1>12, StepsAre DEF vars

\* What the page of an item announces is what the requester is then asked, in
\* that order, and nothing else happens before: for every graph an admin may
\* store.
THEOREM PreviewTellsWhatIsAsked ==
  Spec => []PreviewIsAsked
<1>1. Init => ShownInv /\ AskedInv
  <2>. SUFFICES ASSUME Init PROVE ShownInv /\ AskedInv
    OBVIOUS
  <2>1. 0 <= MaxShown
    BY BoundsAssumption
  <2>2. ShownInv
    BY <2>1, EmptyLine DEF Init, ShownInv
  <2>3. AskedInv
    BY <2>1, EmptyLine DEF Init, AskedInv, IsLine
  <2>. QED
    BY <2>2, <2>3
<1>2. ShownInv /\ AskedInv => PreviewIsAsked
  <2>. SUFFICES ASSUME ShownInv, AskedInv, instance # Closed, preview.pc = "shown"
                PROVE  /\ IsPrefix(asked, preview.shown) \/ IsPrefix(preview.shown, asked)
                       /\ asked # <<>> /\ instance.status # "in_progress"
                            => IsPrefix(preview.shown, asked)
    BY DEF PreviewIsAsked
  <2>0. PICK shown : shown = preview.shown
    OBVIOUS
  <2>1. /\ IsLine(Graph, shown) /\ shown \in Seq(StepIds) /\ Len(shown) \in Nat
        /\ asked \in Seq(StepIds) /\ Len(asked) \in Nat
        /\ Len(shown) <= MaxShown
    BY <2>0, LenIsNat DEF ShownInv, AskedInv, IsLine
  <2>2. CASE IsLine(Graph, asked) /\ instance.status = "in_progress"
    <3>1. BeginsWith(asked, shown) \/ BeginsWith(shown, asked)
      BY <2>1, <2>2, LinesAgree
    <3>. QED
      BY <2>0, <2>1, <2>2, <3>1, PrefixIs
  <2>3. CASE IsLine(Graph, asked) /\ Len(asked) = MaxShown
    <3>1. BeginsWith(asked, shown)
      BY <2>1, <2>3, LinesAgree
    <3>. QED
      BY <2>0, <2>1, <3>1, PrefixIs
  <2>4. CASE \E line \in Seq(StepIds) : IsWhole(Graph, line) /\ BeginsWith(asked, line)
    <3>1. PICK line \in Seq(StepIds) : IsWhole(Graph, line) /\ BeginsWith(asked, line)
      BY <2>4
    <3>2. Len(shown) <= Len(line) /\ Len(line) \in Nat
      BY <2>1, <3>1, WholeIsLonger, LenIsNat
    <3>3. BeginsWith(line, shown)
      BY <2>1, <3>1, <3>2, LinesAgree DEF IsWhole
    <3>4. BeginsWith(asked, shown)
      BY <2>1, <3>1, <3>2, <3>3 DEF BeginsWith
    <3>. QED
      BY <2>0, <2>1, <3>4, PrefixIs
  <2>. QED
    BY <2>2, <2>3, <2>4 DEF AskedInv, OnLine
<1>. QED
  BY <1>1, <1>2, ShownStep, AskedStep, RequestInvariant, PTL DEF Spec


----------------------------------------------------------------------------
(* The ticket of a starter workflow.                                       *)

\* What a seeded request has behind it when it rests at step s: how many of its
\* questions, which approvals and how many tickets.
Behind(s, answered, approvals, filed) ==
  \/ /\ answered + 1 \in 1..NQ /\ s = QIds[answered + 1]
     /\ approvals = <<>> /\ filed = 0
  \/ /\ s = "manager_approval" /\ item.pattern \notin {"info_only", "simple_ticket"}
     /\ answered = NQ /\ approvals = <<>> /\ filed = 0
  \/ /\ item.pattern \in {"security_approval_ticket", "finance_approval_ticket"}
     /\ s = SecondApproval(item.pattern)
     /\ answered = NQ /\ approvals = <<"manager_approval">> /\ filed = 0
  \/ /\ s = "submit" /\ item.pattern # "info_only"
     /\ answered = NQ /\ approvals = RequiredApprovals /\ filed = 0
  \/ /\ s = "end_completed"
     /\ answered = NQ /\ approvals = RequiredApprovals
     /\ filed = IF item.pattern = "info_only" THEN 0 ELSE 1
  \/ /\ s = "end_rejected"
     /\ answered = NQ /\ approvals # RequiredApprovals /\ filed = 0

SeededInv ==
  item.pattern \in Patterns =>
    /\ instance = Closed => asked = <<>> /\ approved = <<>> /\ tickets = 0
    /\ instance # Closed => Behind(instance.step, Len(asked), approved, tickets)

\* An engine call that is handed a step of a seeded graph rests there.
LEMMA SeededLands ==
  ASSUME Seeded, NEW s \in DOMAIN Steps, NEW answers, NEW kept,
         Applied(auto_advance(Graph, s, answers), kept)
  PROVE  /\ auto_advance(Graph, s, answers).err = "none"
         /\ instance'.step = s /\ instance' # Closed
<1>1. ~HasKind(Graph, s, "branch") /\ s \in DOMAIN Graph.steps
  BY SeededClosed DEF HasKind, Steps
<1>2. PICK r : r = auto_advance(Graph, s, answers)
  OBVIOUS
<1>3. r.err = "none" /\ r.step = s
  <2>1. r = Result(s, OutcomeOf(Graph.steps[s]))
    BY <1>1, <1>2, AdvanceRests
  <2>. QED
    BY <2>1 DEF Result
<1>4. PICK status : status = StatusOf(r.outcome)
  OBVIOUS
<1>5. instance' = [step |-> s, status |-> status, answers |-> kept] /\ status # "none"
  BY <1>2, <1>3, <1>4 DEF Applied, StatusFits
<1>. QED
  BY <1>2, <1>3, <1>5 DEF Closed

\* When every question is answered, the request comes to the tail.
LEMMA BehindFirst ==
  ASSUME Seeded
  PROVE  Behind(TailFirst, NQ, <<>>, 0)
<1>0. item.pattern \in Patterns
  BY DEF Seeded
<1>1. CASE item.pattern = "info_only"
  <2>1. TailFirst = "end_completed"
    BY <1>0, <1>1, Tails DEF TailFirst
  <2>. QED
    BY <1>1, <2>1 DEF Behind, RequiredApprovals
<1>2. CASE item.pattern = "simple_ticket"
  <2>1. TailFirst = "submit"
    BY <1>0, <1>2, Tails DEF TailFirst
  <2>. QED
    BY <1>2, <2>1 DEF Behind, RequiredApprovals
<1>3. CASE item.pattern \notin {"info_only", "simple_ticket"}
  <2>1. TailFirst = "manager_approval"
    BY <1>0, <1>3, Tails DEF TailFirst
  <2>. QED
    BY <1>3, <2>1 DEF Behind
<1>. QED
  BY <1>1, <1>2, <1>3

\* Where a request comes when the question it is at has been answered.
LEMMA BehindAnswer ==
  ASSUME Seeded, NEW s, HasKind(Graph, s, "question"),
         NEW answered \in Nat, NEW approvals, NEW filed, Behind(s, answered, approvals, filed)
  PROVE  /\ answered + 1 <= NQ
         /\ Behind(Steps[s].next, answered + 1, approvals, filed)
<1>1. s \in DOMAIN Steps /\ Steps[s].kind = "question"
  BY DEF HasKind, Steps
<1>2. IsQuestion(s)
  BY <1>1, SeededKinds DEF IsApproval, IsTicket, IsEnd
<1>3. PICK i \in 1..NQ : /\ s = QIds[i]
                         /\ Steps[s].next = IF i < NQ THEN QIds[i + 1] ELSE TailFirst
  BY <1>2 DEF IsQuestion
<1>4. /\ NQ \in Nat /\ s \notin TailIds
      /\ \A j \in 1..NQ : QIds[i] = QIds[j] => i = j
  BY <1>3, QuestionsAre
<1>5. SecondApproval(item.pattern) \in TailIds
  BY DEF SecondApproval, TailIds
<1>6. answered + 1 \in 1..NQ /\ s = QIds[answered + 1] /\ approvals = <<>> /\ filed = 0
  BY <1>4, <1>5 DEF Behind, TailIds
<1>7. i = answered + 1
  BY <1>3, <1>4, <1>6
<1>8. CASE i < NQ
  <2>1. (answered + 1) + 1 \in 1..NQ /\ Steps[s].next = QIds[(answered + 1) + 1]
    BY <1>3, <1>4, <1>7, <1>8
  <2>. QED
    BY <1>6, <2>1 DEF Behind
<1>9. CASE ~(i < NQ)
  <2>1. answered + 1 = NQ /\ Steps[s].next = TailFirst
    BY <1>3, <1>4, <1>7, <1>9
  <2>. QED
    BY <1>4, <1>6, <2>1, BehindFirst
<1>. QED
  BY <1>4, <1>6, <1>8, <1>9

\* A second element after the first.
LEMMA AppendSecond ==
  ASSUME NEW x, NEW y
  PROVE  Append(<<x>>, y) = <<x, y>>
<1>1. /\ <<x>> \in Seq({x, y}) /\ Len(<<x>>) = 1
      /\ <<x, y>> \in Seq({x, y}) /\ Len(<<x, y>>) = 2
  OBVIOUS
<1>2. /\ Append(<<x>>, y) \in Seq({x, y}) /\ Len(Append(<<x>>, y)) = 2
      /\ Append(<<x>>, y)[1] = x /\ Append(<<x>>, y)[2] = y
  BY <1>1, AppendProperties
<1>3. \A k \in 1..2 : Append(<<x>>, y)[k] = <<x, y>>[k]
  BY <1>2
<1>. QED
  BY <1>1, <1>2, <1>3, SeqEqual

\* Where it comes when the approval it waits for is decided.
LEMMA BehindDecision ==
  ASSUME Seeded, NEW s, HasKind(Graph, s, "wait_for_approval"),
         NEW answered \in Nat, NEW approvals, NEW filed, Behind(s, answered, approvals, filed)
  PROVE  /\ Behind(Steps[s].on_approve, answered, Append(approvals, s), filed)
         /\ Behind(Steps[s].on_reject, answered, approvals, filed)
<1>0. item.pattern \in Patterns
  BY DEF Seeded
<1>1. s \in DOMAIN Steps /\ Steps[s].kind = "wait_for_approval"
  BY DEF HasKind, Steps
<1>2. IsApproval(s)
  BY <1>1, SeededKinds DEF IsQuestion, IsTicket, IsEnd
<1>3. /\ s \in {"manager_approval", "security_approval", "finance_approval"}
      /\ Steps[s].on_reject = "end_rejected"
      /\ s \in TailIds
  BY <1>2 DEF IsApproval, TailIds
<1>4. ~(answered + 1 \in 1..NQ /\ s = QIds[answered + 1])
  BY <1>3, QuestionsAre
<1>5. /\ s \in DOMAIN TailSteps => Steps[s] = TailSteps[s]
      /\ \A r, next : WaitForApproval(r, next).on_approve = next
  BY SeededSteps DEF WaitForApproval
<1>6. s \in DOMAIN TailSteps
  BY <1>1, <1>3, SeededSteps, QuestionsAre
<1>7. /\ Append(<<>>, "manager_approval") = <<"manager_approval">>
      /\ \A x : Append(<<"manager_approval">>, x) = <<"manager_approval", x>>
  BY AppendSecond
<1>8. /\ <<>> # <<"manager_approval">>
      /\ \A x : <<>> # <<"manager_approval", x>> /\ <<"manager_approval">> # <<"manager_approval", x>>
  OBVIOUS
<1>9. CASE /\ s = "manager_approval" /\ item.pattern \notin {"info_only", "simple_ticket"}
           /\ answered = NQ /\ approvals = <<>> /\ filed = 0
  <2>1. CASE item.pattern = "manager_approval_ticket"
    <3>1. Steps[s].on_approve = "submit"
      BY <1>0, <1>5, <1>6, <1>9, <2>1, Tails DEF TailSteps
    <3>2. RequiredApprovals = <<"manager_approval">>
      BY <2>1 DEF RequiredApprovals
    <3>. QED
      BY <1>3, <1>7, <1>8, <1>9, <2>1, <3>1, <3>2 DEF Behind
  <2>2. CASE item.pattern \in {"security_approval_ticket", "finance_approval_ticket"}
    <3>1. Steps[s].on_approve = SecondApproval(item.pattern)
      BY <1>0, <1>5, <1>6, <1>9, <2>2, Tails DEF TailSteps
    <3>2. RequiredApprovals # <<>>
      BY <1>8, <2>2 DEF RequiredApprovals
    <3>. QED
      BY <1>3, <1>7, <1>9, <2>2, <3>1, <3>2 DEF Behind
  <2>. QED
    BY <1>0, <1>9, <2>1, <2>2 DEF Patterns
<1>10. CASE /\ item.pattern \in {"security_approval_ticket", "finance_approval_ticket"}
            /\ s = SecondApproval(item.pattern)
            /\ answered = NQ /\ approvals = <<"manager_approval">> /\ filed = 0
  <2>1. Steps[s].on_approve = "submit"
    BY <1>0, <1>5, <1>6, <1>10, Tails DEF TailSteps
  <2>2. RequiredApprovals = <<"manager_approval", SecondApproval(item.pattern)>>
    BY <1>10 DEF RequiredApprovals, SecondApproval
  <2>3. Append(approvals, s) = RequiredApprovals /\ approvals # RequiredApprovals
    BY <1>7, <1>8, <1>10, <2>2
  <2>4. item.pattern # "info_only"
    BY <1>10
  <2>. QED
    BY <1>3, <1>10, <2>1, <2>3, <2>4 DEF Behind
<1>. QED
  BY <1>3, <1>4, <1>9, <1>10 DEF Behind

\* Where it comes when its ticket is filed.
LEMMA BehindTicket ==
  ASSUME Seeded, NEW s, HasKind(Graph, s, "submit_ticket"),
         NEW answered \in Nat, NEW approvals, NEW filed, Behind(s, answered, approvals, filed)
  PROVE  Behind(Steps[s].next, answered, approvals, (filed % MaxTickets) + 1)
<1>1. s \in DOMAIN Steps /\ Steps[s].kind = "submit_ticket"
  BY DEF HasKind, Steps
<1>2. IsTicket(s)
  BY <1>1, SeededKinds DEF IsQuestion, IsApproval, IsEnd
<1>3. s = "submit" /\ Steps[s].next = "end_completed" /\ s \in TailIds
  BY <1>2 DEF IsTicket, TailIds
<1>4. ~(answered + 1 \in 1..NQ /\ s = QIds[answered + 1]) /\ s # SecondApproval(item.pattern)
  BY <1>3, QuestionsAre DEF SecondApproval
<1>5. /\ item.pattern # "info_only"
      /\ answered = NQ /\ approvals = RequiredApprovals /\ filed = 0
  BY <1>3, <1>4 DEF Behind
<1>6. (0 % MaxTickets) + 1 = 1
  BY BoundsAssumption
<1>. QED
  BY <1>3, <1>5, <1>6 DEF Behind


LEMMA SeededStep ==
  ASSUME RequestOK, AskedInv, SeededInv, [Next]_vars
  PROVE  SeededInv'
<1>. SUFFICES ASSUME item.pattern \in Patterns PROVE SeededInv'
  <2>1. item' = item
    BY StepsAre DEF vars
  <2>. QED
    BY <2>1 DEF SeededInv
<1>0. item' = item /\ Seeded
  BY StepsAre DEF vars, RequestOK, Seeded
<1>1. \A s, n, approvals, filed :
        Behind(s, n, approvals, filed)' <=> Behind(s, n, approvals, filed)
  BY <1>0 DEF Behind, NQ, RequiredApprovals
<1>2. CASE UNCHANGED <<instance, asked, approved, tickets>>
  BY <1>0, <1>1, <1>2 DEF SeededInv
<1>3. ASSUME NEW s, instance'.step = s, instance' # Closed, NEW n, n = Len(asked'),
             Behind(s, n, approved', tickets')
      PROVE  SeededInv'
  BY <1>1, <1>3 DEF SeededInv
<1>4. Len(asked) \in Nat /\ asked \in Seq(StepIds)
  BY LenIsNat DEF AskedInv
<1>5. instance # Closed => Behind(instance.step, Len(asked), approved, tickets)
  BY DEF SeededInv
<1>6. \A s \in DOMAIN Steps : Successors(Steps[s]) \subseteq DOMAIN Steps
  BY <1>0, SeededClosed
<1>7. CASE Started
  <2>1. PICK s : s = Graph.entry_step_id
    OBVIOUS
  <2>2. s \in DOMAIN Steps
    BY <1>0, <2>1, SeededClosed
  <2>3. engine_start(Graph) = auto_advance(Graph, s, NoAnswers)
    BY <2>1, <2>2 DEF engine_start, Steps
  <2>4. instance'.step = s /\ instance' # Closed
    BY <1>0, <1>7, <2>2, <2>3, SeededLands DEF Started
  <2>5. asked' = <<>> /\ approved' = <<>> /\ tickets' = 0 /\ Len(asked') = 0
    BY <1>7 DEF Started, SeededInv
  <2>6. Behind(s, 0, <<>>, 0)
    <3>1. NQ \in Nat
      BY <1>0, QuestionsAre
    <3>2. CASE NQ = 0
      BY <1>0, <2>1, <3>2, BehindFirst, SeededSteps
    <3>3. CASE NQ # 0
      <4>1. s = QIds[0 + 1] /\ 0 + 1 \in 1..NQ
        BY <1>0, <2>1, <3>1, <3>3, SeededSteps
      <4>. QED
        BY <4>1 DEF Behind
    <3>. QED
      BY <3>2, <3>3
  <2>. QED
    BY <1>3, <2>4, <2>5, <2>6
<1>8. CASE Answered
  <2>1. PICK answers :
          /\ instance.status = "in_progress"
          /\ HasKind(Graph, instance.step, "question")
          /\ Applied(auto_advance(Graph, Steps[instance.step].next, answers), answers)
          /\ asked' = IF auto_advance(Graph, Steps[instance.step].next, answers).err = "none"
                      THEN Note(asked, instance.step) ELSE asked
          /\ UNCHANGED <<approved, tickets>>
    BY <1>8 DEF Answered
  <2>2. PICK s, next : s = instance.step /\ next = Steps[s].next
    OBVIOUS
  <2>3. s \in DOMAIN Steps /\ Successors(Steps[s]) = {next}
    BY <2>1, <2>2 DEF HasKind, Steps, Successors
  <2>4. next \in DOMAIN Steps
    BY <1>6, <2>3
  <2>5. /\ auto_advance(Graph, next, answers).err = "none"
        /\ instance'.step = next /\ instance' # Closed
    BY <1>0, <2>1, <2>2, <2>4, SeededLands
  <2>6. instance # Closed
    BY <2>1 DEF Closed
  <2>7. Len(asked) + 1 <= NQ /\ Behind(next, Len(asked) + 1, approved, tickets)
    BY <1>0, <1>4, <1>5, <2>1, <2>2, <2>6, BehindAnswer
  <2>8. NQ \in Nat /\ NQ <= MaxShown
    BY <1>0, QuestionsAre
  <2>9. asked' = Append(asked, s)
    <3>1. Len(asked) < MaxShown
      BY <1>4, <2>7, <2>8, BoundsAssumption
    <3>. QED
      BY <2>1, <2>2, <2>5, <3>1 DEF Note
  <2>10. s \in StepIds
    BY <1>0, <2>3, GraphIsGraph DEF IsGraph, Steps, Seeded
  <2>11. Len(asked') = Len(asked) + 1
    BY <1>4, <2>9, <2>10, AppendProperties
  <2>. QED
    BY <1>3, <2>1, <2>5, <2>7, <2>11
<1>9. CASE Decided
  <2>1. PICK decision \in {"approve", "reject"} :
          /\ instance.status = "awaiting_approval"
          /\ HasKind(Graph, instance.step, "wait_for_approval")
          /\ Applied(auto_advance(Graph, IF decision = "approve" THEN Steps[instance.step].on_approve
                                                                 ELSE Steps[instance.step].on_reject,
                                  instance.answers), instance.answers)
          /\ approved' = IF decision = "approve" THEN Append(approved, instance.step) ELSE approved
          /\ UNCHANGED <<asked, tickets>>
    BY <1>9 DEF Decided
  <2>2. PICK s, next : /\ s = instance.step
                       /\ next = IF decision = "approve" THEN Steps[s].on_approve
                                                         ELSE Steps[s].on_reject
    OBVIOUS
  <2>3. s \in DOMAIN Steps /\ Successors(Steps[s]) = {Steps[s].on_approve, Steps[s].on_reject}
    BY <2>1, <2>2 DEF HasKind, Steps, Successors
  <2>4. next \in DOMAIN Steps
    BY <1>6, <2>2, <2>3
  <2>5. instance'.step = next /\ instance' # Closed
    BY <1>0, <2>1, <2>2, <2>4, SeededLands
  <2>6. instance # Closed
    BY <2>1 DEF Closed
  <2>7. /\ Behind(Steps[s].on_approve, Len(asked), Append(approved, s), tickets)
        /\ Behind(Steps[s].on_reject, Len(asked), approved, tickets)
    BY <1>0, <1>4, <1>5, <2>1, <2>2, <2>6, BehindDecision
  <2>8. Behind(next, Len(asked), approved', tickets)
    BY <2>1, <2>2, <2>7
  <2>. QED
    BY <1>3, <2>1, <2>5, <2>8
<1>10. CASE Filed
  <2>1. /\ instance.status = "dispatching"
        /\ HasKind(Graph, instance.step, "submit_ticket")
        /\ Applied(auto_advance(Graph, Steps[instance.step].next, instance.answers),
                   instance.answers)
        /\ tickets' = (tickets % MaxTickets) + 1
        /\ UNCHANGED <<asked, approved>>
    BY <1>10 DEF Filed
  <2>2. PICK s, next : s = instance.step /\ next = Steps[s].next
    OBVIOUS
  <2>3. s \in DOMAIN Steps /\ Successors(Steps[s]) = {next}
    BY <2>1, <2>2 DEF HasKind, Steps, Successors
  <2>4. next \in DOMAIN Steps
    BY <1>6, <2>3
  <2>5. instance'.step = next /\ instance' # Closed
    BY <1>0, <2>1, <2>2, <2>4, SeededLands
  <2>6. instance # Closed
    BY <2>1 DEF Closed
  <2>7. Behind(next, Len(asked), approved, (tickets % MaxTickets) + 1)
    BY <1>0, <1>4, <1>5, <2>1, <2>2, <2>6, BehindTicket
  <2>. QED
    BY <1>3, <2>1, <2>5, <2>7
<1>11. CASE NotFiled
  <2>1. /\ instance' = [step |-> instance.step, status |-> "failed", answers |-> instance.answers]
        /\ instance # Closed
        /\ UNCHANGED <<asked, approved, tickets>>
    BY <1>11 DEF NotFiled, RequestOK, Closed
  <2>2. instance'.step = instance.step /\ instance' # Closed
    BY <2>1 DEF Closed
  <2>. QED
    BY <1>3, <1>5, <2>1, <2>2
<1>12. CASE Paged
  BY <1>2, <1>12 DEF Paged
<1>. QED
  BY <1>2, <1>7, <1>8, <1>9, <1>10, <1>11, <1>12, StepsAre DEF vars

\* A starter workflow creates its ticket after every question was answered and
\* every approval of its pattern given, in their order; it completes with
\* exactly one ticket unless it is for information only, and a rejected one has
\* none: for every list of questions, answers and decisions (build_graph, the
\* engine).
THEOREM TicketComesLast ==
  Spec => []TicketAfterApprovals
<1>1. Init => AskedInv /\ SeededInv
  <2>. SUFFICES ASSUME Init PROVE AskedInv /\ SeededInv
    OBVIOUS
  <2>1. 0 <= MaxShown
    BY BoundsAssumption
  <2>2. AskedInv
    BY <2>1, EmptyLine DEF Init, AskedInv, IsLine
  <2>. QED
    BY <2>2 DEF Init, SeededInv
<1>2. RequestOK /\ SeededInv => TicketAfterApprovals
  <2>. SUFFICES ASSUME RequestOK, SeededInv, item.pattern \in Patterns
                PROVE  TicketAfterApprovals
    BY DEF TicketAfterApprovals
  <2>1. CASE instance = Closed
    BY <2>1 DEF SeededInv, Closed, TicketAfterApprovals
  <2>2. CASE instance # Closed
    <3>0. Seeded
      BY DEF RequestOK, Seeded
    <3>1. Behind(instance.step, Len(asked), approved, tickets)
      BY <2>2 DEF SeededInv
    <3>2. tickets > 0 => approved = RequiredApprovals /\ Len(asked) = Len(item.questions)
      BY <3>1 DEF Behind, NQ
    <3>3. ASSUME NEW outcome \in {"completed", "rejected"}, instance.status = outcome
          PROVE  /\ instance.step = IF outcome = "completed" THEN "end_completed"
                                                             ELSE "end_rejected"
                 /\ instance.step \in TailIds
                 /\ instance.step # SecondApproval(item.pattern)
      <4>1. outcome \in EndOutcomes
        BY DEF EndOutcomes
      <4>2. HasKind(Graph, instance.step, "end") /\ Steps[instance.step].outcome = outcome
        BY <3>3, <4>1, FitsNow DEF StatusFits
      <4>3. instance.step \in DOMAIN Steps /\ Steps[instance.step].kind = "end"
        BY <4>2 DEF HasKind, Steps
      <4>4. IsEnd(instance.step)
        BY <3>0, <4>3, SeededKinds DEF IsQuestion, IsApproval, IsTicket
      <4>. QED
        BY <4>2, <4>4 DEF IsEnd, TailIds, SecondApproval
    <3>4. instance.step \in TailIds =>
            ~(Len(asked) + 1 \in 1..NQ /\ instance.step = QIds[Len(asked) + 1])
      BY <3>0, QuestionsAre
    <3>5. instance.status = "completed" => (tickets = 1) = (item.pattern # "info_only")
      <4>. SUFFICES ASSUME instance.status = "completed"
                    PROVE  (tickets = 1) = (item.pattern # "info_only")
        OBVIOUS
      <4>1. tickets = IF item.pattern = "info_only" THEN 0 ELSE 1
        BY <3>1, <3>3, <3>4 DEF Behind
      <4>. QED
        BY <4>1
    <3>6. instance.status = "rejected" => tickets = 0 /\ approved # RequiredApprovals
      BY <3>1, <3>3, <3>4 DEF Behind
    <3>. QED
      BY <3>2, <3>5, <3>6 DEF TicketAfterApprovals
  <2>. QED
    BY <2>1, <2>2
<1>. QED
  BY <1>1, <1>2, AskedStep, SeededStep, RequestInvariant, PTL DEF Spec


----------------------------------------------------------------------------
(* What is typed in the form and what a condition finds.                   *)

\* The text typed for a field is the answer that is recorded, coerced for a
\* question that asks for the field.
Recorded(k, text, value) ==
  \E s \in DOMAIN Steps :
    /\ Steps[s].kind = "question" /\ Steps[s].field_key = k
    /\ value = coerce_answer(Steps[s].input_type, text)

TypedInv ==
  /\ typed = [k \in FieldKeys |-> typed[k]]
  /\ instance.answers = [k \in FieldKeys |-> instance.answers[k]]
  /\ instance = Closed => \A k \in FieldKeys : typed[k] = Absent
  /\ \A k \in FieldKeys :
       typed[k] = Absent \/ Recorded(k, typed[k], instance.answers[k])

\* One answer, of the form or of the API.
LEMMA TypedAnswer ==
  ASSUME RequestOK, TypedInv, Asking, NEW value, NEW text, Answer(value, text),
         \/ text = Absent
         \/ value = coerce_answer(Steps[instance.step].input_type, text)
  PROVE  TypedInv'
<1>0. item' = item /\ item \in Offers
  BY DEF Answer, RequestOK
<1>1. Steps' = Steps /\ IsGraph(Graph)
  BY <1>0, GraphStays, GraphIsGraph
<1>2. HasKind(Graph, instance.step, "question") /\ instance # Closed
  BY FitsNow DEF Asking, StatusFits, Closed
<1>3. PICK s, key : s = instance.step /\ key = Steps[s].field_key
  OBVIOUS
<1>4. s \in DOMAIN Steps /\ Steps[s].kind = "question" /\ key \in FieldKeys
  BY <1>1, <1>2, <1>3 DEF HasKind, IsGraph, Steps
<1>5. PICK r : r = engine_submit_answer(Graph, s, instance.answers, key, value)
  OBVIOUS
<1>6. PICK answers : answers = Insert(instance.answers, key, value)
  OBVIOUS
<1>7. /\ Apply(r, answers)
      /\ typed' = IF r.err = "none" THEN [typed EXCEPT ![key] = text] ELSE typed
  BY <1>3, <1>5, <1>6 DEF Answer
<1>8. \A k, t, v : Recorded(k, t, v)' <=> Recorded(k, t, v)
  BY <1>1 DEF Recorded
<1>9. CASE r.err # "none"
  <2>1. instance' = instance /\ typed' = typed
    BY <1>7, <1>9 DEF Apply
  <2>. QED
    BY <1>8, <2>1 DEF TypedInv
<1>10. CASE r.err = "none"
  <2>1. /\ instance' = [step |-> r.step, status |-> StatusOf(r.outcome), answers |-> answers]
        /\ typed' = [typed EXCEPT ![key] = text]
    BY <1>7, <1>10 DEF Apply
  <2>2. /\ answers = [k \in FieldKeys |-> IF k = key THEN value ELSE instance.answers[k]]
        /\ typed' = [k \in FieldKeys |-> IF k = key THEN text ELSE typed[k]]
    BY <1>4, <1>6, <2>1 DEF Insert, TypedInv
  <2>3. instance'.answers = answers
    BY <2>1
  <2>4. instance' # Closed
    <3>1. Suits(r)
      BY <1>0, <1>2, <1>3, <1>5, AnswerSuits
    <3>2. StatusOf(r.outcome) # "none"
      BY <1>0, <1>10, <3>1, RestsFit DEF Suits, StatusFits
    <3>. QED
      BY <2>1, <3>2 DEF Closed
  <2>5. ASSUME NEW k \in FieldKeys
        PROVE  typed'[k] = Absent \/ Recorded(k, typed'[k], answers[k])
    <3>1. CASE k = key
      <4>1. typed'[k] = text /\ answers[k] = value
        BY <2>2, <3>1
      <4>2. text = Absent \/ Recorded(k, text, value)
        BY <1>3, <1>4, <3>1 DEF Recorded
      <4>. QED
        BY <4>1, <4>2
    <3>2. CASE k # key
      <4>1. typed'[k] = typed[k] /\ answers[k] = instance.answers[k]
        BY <2>2, <3>2
      <4>. QED
        BY <4>1 DEF TypedInv
    <3>. QED
      BY <3>1, <3>2
  <2>. QED
    BY <1>8, <2>2, <2>3, <2>4, <2>5 DEF TypedInv
<1>. QED
  BY <1>9, <1>10

LEMMA TypedStep ==
  ASSUME RequestOK, TypedInv, [Next]_vars
  PROVE  TypedInv'
<1>0. item' = item
  BY StepsAre DEF vars
<1>1. \A k, t, v : Recorded(k, t, v)' <=> Recorded(k, t, v)
  BY <1>0, GraphStays DEF Recorded
<1>2. CASE typed' = typed /\ instance' = instance
  BY <1>1, <1>2 DEF TypedInv
\* A step that records nothing.
<1>3. ASSUME typed' = typed, instance # Closed, instance' # Closed,
             instance'.answers = instance.answers
      PROVE  TypedInv'
  BY <1>1, <1>3 DEF TypedInv
<1>4. ASSUME NEW r, NEW answers, Applied(r, answers)
      PROVE  \/ instance' = instance
             \/ instance'.answers = answers /\ instance' # Closed
  <2>1. PICK status : status = StatusOf(r.outcome)
    OBVIOUS
  <2>2. \/ instance' = instance
        \/ instance' = [step |-> r.step, status |-> status, answers |-> answers]
           /\ status # "none"
    BY <1>4, <2>1 DEF Applied, StatusFits
  <2>. QED
    BY <2>2 DEF Closed
<1>5. CASE start_request
  <2>1. /\ Applied(engine_start(Graph), NoAnswers)
        /\ instance = Closed /\ typed' = typed
    BY <1>5, StartSuits, ApplyOK DEF start_request, RequestOK
  <2>2. CASE instance' = instance
    BY <1>2, <2>1, <2>2
  <2>3. CASE instance'.answers = NoAnswers /\ instance' # Closed
    <3>1. NoAnswers = [k \in FieldKeys |-> NoAnswers[k]]
      BY DEF NoAnswers
    <3>. QED
      BY <2>1, <2>3, <3>1 DEF TypedInv
  <2>. QED
    BY <1>4, <2>1, <2>2, <2>3
<1>6. CASE \E type \in DOMAIN RawTexts : \E raw \in RawTexts[type] : submit_form(raw)
  BY <1>6, TypedAnswer DEF submit_form
<1>7. CASE \E type \in DOMAIN ApiValues : \E value \in ApiValues[type] : submit_api(value)
  BY <1>7, TypedAnswer DEF submit_api
<1>8. ASSUME Decided \/ Filed, typed' = typed PROVE TypedInv'
  <2>1. instance # Closed
    BY <1>8 DEF Decided, Filed, Closed
  <2>2. \/ instance' = instance
        \/ instance'.answers = instance.answers /\ instance' # Closed
    BY <1>4, <1>8 DEF Decided, Filed
  <2>. QED
    BY <1>2, <1>3, <1>8, <2>1, <2>2
<1>9. ASSUME NotFiled, typed' = typed PROVE TypedInv'
  <2>1. /\ instance # Closed
        /\ instance' = [step |-> instance.step, status |-> "failed", answers |-> instance.answers]
    BY <1>9 DEF NotFiled, RequestOK, Closed
  <2>2. instance' # Closed /\ instance'.answers = instance.answers
    BY <2>1 DEF Closed
  <2>. QED
    BY <1>3, <1>9, <2>1, <2>2
<1>10. ASSUME (\E decision \in {"approve", "reject"} : decide(decision)) \/ dispatch_ticket
       PROVE  TypedInv'
  <2>1. typed' = typed /\ instance.status \in {"awaiting_approval", "dispatching"}
    BY <1>10 DEF decide, dispatch_ticket
  <2>2. Paged \/ Started \/ Answered \/ Decided \/ Filed \/ NotFiled
    BY <1>10, StepsAre DEF Next
  <2>3. ~Started /\ ~Answered
    BY <2>1 DEF Started, Answered, Closed
  <2>. QED
    BY <1>2, <1>8, <1>9, <2>1, <2>2, <2>3 DEF Paged
<1>. QED
  BY <1>2, <1>5, <1>6, <1>7, <1>10 DEF Next, vars, item_detail, preview_questions

\* A seeded graph has no conditions (build_graph).
LEMMA SeededConditions ==
  item.pattern \in Patterns => DOMAIN Graph.conditions = {}
<1>1. item.pattern \in Patterns => Graph = build_graph(item.pattern, item.questions)
  BY DEF Graph
<1>2. build_graph(item.pattern, item.questions).conditions = <<>>
  BY DEF build_graph
<1>3. DOMAIN <<>> = {}
  OBVIOUS
<1>. QED
  BY <1>1, <1>2, <1>3

\* A condition that compares the answer to a yes/no question with true or false
\* holds exactly if the requester chose that in the form, however the question
\* was answered before (submit_form, coerce_answer, eval_condition): for every
\* graph, nested condition and sequence of answers.
THEOREM TypedTextsCompare == Spec => []TypedMatchesCondition
<1>1. Init => TypedInv
  BY DEF Init, TypedInv, Closed, NoAnswers
<1>2. RequestOK /\ TypedInv => TypedMatchesCondition
  <2>. SUFFICES ASSUME RequestOK, TypedInv,
                       NEW c \in DOMAIN Graph.conditions, NEW node, node = Graph.conditions[c],
                       node.op = "equals",
                       node.value \in {Json("boolean", text) : text \in YesNo},
                       AsksYesNo(node.field_key), typed[node.field_key] \in YesNo
                PROVE  eval_condition(Graph, c, instance.answers)
                         = (typed[node.field_key] = node.value.of)
    BY DEF TypedMatchesCondition
  <2>1. PICK k, text : k = node.field_key /\ text = typed[k]
    OBVIOUS
  <2>2. PICK value \in YesNo : node.value = Json("boolean", value)
    OBVIOUS
  <2>3. IsNested(Graph) /\ k \in FieldKeys
    <3>1. item.pattern \notin Patterns
      BY SeededConditions DEF RequestOK
    <3>2. Graph = item.graph /\ item \in Offers
      BY <3>1 DEF Graph, RequestOK
    <3>. QED
      BY <2>1, <3>1, <3>2, ConditionsAssumption
  <2>4. PICK s \in DOMAIN Steps :
          /\ Steps[s].kind = "question" /\ Steps[s].field_key = k
          /\ instance.answers[k] = coerce_answer(Steps[s].input_type, text)
    BY <2>1, <2>3, NoTextAssumption DEF TypedInv, Recorded
  <2>5. instance.answers[k] = Json("boolean", IF text \in {"true", "on"} THEN "true" ELSE "false")
    BY <2>1, <2>4 DEF AsksYesNo, coerce_answer
  <2>6. instance.answers[k] = Json("boolean", text)
    BY <2>1, <2>5 DEF YesNo
  <2>7. (instance.answers[k] = node.value) = (text = value)
    BY <2>2, <2>6 DEF Json
  <2>8. PICK h : eval_condition(Graph, c, instance.answers)
                   = Holds(Graph.conditions[c], instance.answers, h)
    BY <2>3, ConditionIs
  <2>9. Holds(node, instance.answers, h) = (instance.answers[k] = node.value)
    BY <2>1 DEF Holds
  <2>10. node.value.of = value
    BY <2>2 DEF Json
  <2>. QED
    BY <2>1, <2>7, <2>8, <2>9, <2>10
<1>. QED
  BY <1>1, <1>2, TypedStep, RequestInvariant, PTL DEF Spec
=============================================================================
