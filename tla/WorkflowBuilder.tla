-------------------------- MODULE WorkflowBuilder --------------------------
(***************************************************************************)
(* static/workflow_builder.js: the visual editor of a WorkflowGraph on the *)
(* page admin/workflows.html, and what the page's form does with the text  *)
(* it posts (web/pages/admin/workflows.rs).                                *)
(*                                                                         *)
(* Every action is one event of the page, which runs to its end before the *)
(* next one: the change, then renderAll, which writes the JSON text area   *)
(* and the status box again.  Ids are opaque; the empty string is a blank  *)
(* field and the null entry.  Of a step's other fields only whether the    *)
(* one that validate() asks for is filled in is kept.                      *)
(***************************************************************************)
EXTENDS Integers, SequencesExt

CONSTANTS
  NewId(_, _),  \* the id newStep gives: the kind and the counter
  Names,        \* the ids that a person types or loads
  Texts,        \* what a person types into the text area
  NotAGraph,    \* a text that is not JSON or has no array of steps
  None,         \* nothing has been stored yet
  Kinds,        \* the kinds of steps that are added
  MaxSteps,     \* bound on the steps of the list
  MaxCounter,   \* bound on stepCounter
  MaxEvents     \* bound on the events of one page

VARIABLES
  steps,        \* the list of cards
  entryStepId,
  stepCounter,
  textarea,     \* the text of "Advanced: edit as JSON"
  status,       \* the status box: hidden, warning or error
  saved,        \* the graph that the page stored in the end
  events        \* how many events there were

vars == <<steps, entryStepId, stepCounter, textarea, status, saved, events>>

----------------------------------------------------------------------------
(* The model: steps, their connections, their JSON.                        *)

REF_FIELDS == {"next", "on_true", "on_false", "on_approve", "on_reject"}

\* The ref fields a kind uses, and the field validate() wants filled in.
outgoingEdges ==
  [question |-> {"next"}, branch |-> {"on_true", "on_false"},
   wait_for_approval |-> {"on_approve", "on_reject"},
   submit_ticket |-> {"next"}, end |-> {}]
Demanded ==
  [question |-> {"field_key"}, branch |-> {"condition_field_key"},
   wait_for_approval |-> {"approver"}, submit_ticket |-> {}, end |-> {}]

newStep(kind, counter) ==
  [uid |-> counter, id |-> NewId(kind, counter), kind |-> kind,
   refs |-> [f \in REF_FIELDS |-> ""], filled |-> {"approver"}]

IdsOf(ss) == {ss[p].id : p \in DOMAIN ss}

\* A JSON text that can be loaded: any strings as ids and kinds, and in a step
\* of a known kind the connections of that kind.
Connections ==
  [{} -> STRING] \cup [{"next"} -> STRING] \cup [{"on_true", "on_false"} -> STRING]
    \cup [{"on_approve", "on_reject"} -> STRING]
Graphs ==
  [entry_step_id : STRING,
   steps : Seq([id : STRING, kind : STRING, refs : Connections, filled : SUBSET STRING])]
WellFormed(text) ==
  /\ text \in Graphs
  /\ Len(text.steps) <= MaxCounter
  /\ \A p \in DOMAIN text.steps :
       text.steps[p].kind \in DOMAIN outgoingEdges
         => outgoingEdges[text.steps[p].kind] \subseteq DOMAIN text.steps[p].refs

ASSUME BoundsAssumption ==
  /\ MaxSteps \in Nat /\ MaxCounter \in Nat /\ MaxEvents \in Nat
  /\ 2 <= MaxCounter /\ MaxSteps <= MaxCounter
\* Of TLA+ itself, for the provers: these literals are strings.
ASSUME LiteralsAssumption ==
  {"", "ask_summary", "end_ok", "field_key", "condition_field_key", "approver"}
    \cup DOMAIN outgoingEdges \subseteq STRING
ASSUME IdsAssumption ==
  /\ Names \subseteq STRING
  /\ Kinds \subseteq DOMAIN outgoingEdges
  /\ \A kind \in DOMAIN outgoingEdges, counter \in 1..MaxCounter :
       NewId(kind, counter) \in STRING
ASSUME TextsAssumption ==
  /\ \A text \in Texts : text = NotAGraph \/ WellFormed(text)
  /\ NotAGraph \notin Graphs /\ None \notin Graphs

stepToJson(s) ==
  [id |-> s.id, kind |-> s.kind,
   refs |-> [f \in outgoingEdges[s.kind] |-> s.refs[f]],
   filled |-> s.filled \cap Demanded[s.kind]]

buildGraphObject(ss, entry) ==
  [entry_step_id |-> entry, steps |-> [p \in DOMAIN ss |-> stepToJson(ss[p])]]

\* validate() finds nothing to complain about.
Valid(ss, entry) ==
  /\ ss # <<>>
  /\ entry \in IdsOf(ss)
  /\ \E p \in DOMAIN ss : ss[p].kind = "end"
  /\ \A p, q \in DOMAIN ss : ss[p].id = ss[q].id => p = q
  /\ \A p \in DOMAIN ss :
       /\ ss[p].id # ""
       /\ \A f \in outgoingEdges[ss[p].kind] : ss[p].refs[f] \in IdsOf(ss) \ {""}
       /\ Demanded[ss[p].kind] \subseteq ss[p].filled

\* renderAll: the cards, syncGraphTextarea and renderValidationStatus.
renderAll ==
  /\ textarea' = buildGraphObject(steps', entryStepId')
  /\ status' = IF Valid(steps', entryStepId') THEN "hidden" ELSE "warning"

\* The page opens with an example of one question and one End step.
StarterExample ==
  <<[newStep("question", 1) EXCEPT !.id = "ask_summary", !.refs["next"] = "end_ok",
                                   !.filled = @ \cup {"field_key"}],
    [newStep("end", 2) EXCEPT !.id = "end_ok"]>>

\* The step at whose place the graph's JSON cannot be read, if any.
UnknownKinds(g) == {p \in DOMAIN g.steps : g.steps[p].kind \notin DOMAIN outgoingEdges}

\* One step read back from its JSON; the fields of other kinds are blank.
Hydrated(s, counter) ==
  [newStep(s.kind, counter) EXCEPT
     !.id = IF s.id = "" THEN @ ELSE s.id,
     !.refs = [f \in REF_FIELDS |-> IF f \in outgoingEdges[s.kind] THEN s.refs[f] ELSE ""],
     !.filled = IF s.kind = "wait_for_approval" THEN s.filled ELSE @ \cup s.filled]

\* hydrateFromGraph: the whole list is replaced, or, if it throws at a step of
\* an unknown kind, only the counter has changed.
hydrateFromGraph(g) ==
  /\ steps' = [p \in DOMAIN g.steps |-> Hydrated(g.steps[p], p)]
  /\ stepCounter' = Len(g.steps)
  /\ entryStepId' = CASE g.entry_step_id # "" -> g.entry_step_id
                      [] g.entry_step_id = "" /\ g.steps # <<>> -> steps'[1].id
                      [] OTHER -> ""

----------------------------------------------------------------------------
(* The events.  A card knows its step by uid: findStepByUid takes the first *)
(* match.                                                                  *)

findStepByUid(i) ==
  CHOOSE p \in DOMAIN steps :
    /\ steps[p].uid = steps[i].uid
    /\ \A q \in DOMAIN steps : steps[q].uid = steps[i].uid => p <= q

addStep(kind) ==
  /\ Len(steps) < MaxSteps /\ stepCounter < MaxCounter
  /\ stepCounter' = stepCounter + 1
  /\ steps' = Append(steps, newStep(kind, stepCounter + 1))
  /\ entryStepId' = IF entryStepId = "" THEN NewId(kind, stepCounter + 1) ELSE entryStepId
  /\ renderAll
  /\ UNCHANGED saved

\* The drop-down of a connection offers every step of the list.
ChangeRef(i, f, target) ==
  /\ f \in outgoingEdges[steps[i].kind]
  /\ target \in IdsOf(steps) \cup {""}
  /\ steps' = [steps EXCEPT ![findStepByUid(i)].refs[f] = target]
  /\ UNCHANGED <<entryStepId, stepCounter, saved>>
  /\ renderAll

\* The other input the kind must have is filled in or cleared.
ChangeField(i, d, filled) ==
  /\ d \in Demanded[steps[i].kind]
  /\ steps' = [steps EXCEPT ![findStepByUid(i)].filled =
                 IF filled THEN @ \cup {d} ELSE @ \ {d}]
  /\ UNCHANGED <<entryStepId, stepCounter, saved>>
  /\ renderAll

\* commitIdChange: every connection to the old id follows.
Renamed(p, newId) ==
  /\ steps' = [q \in DOMAIN steps |->
       [steps[q] EXCEPT
          !.id = IF q = p THEN newId ELSE @,
          !.refs = [f \in REF_FIELDS |-> IF @[f] = steps[p].id THEN newId ELSE @[f]]]]
  /\ entryStepId' = IF entryStepId = steps[p].id THEN newId ELSE entryStepId

\* A blank id and one that another step has are refused; the page is rendered
\* again in every case.
commitIdChange(i, newId) ==
  LET p == findStepByUid(i)
      refused == \/ newId = ""
                 \/ newId = steps[p].id
                 \/ \E q \in DOMAIN steps \ {p} : steps[q].id = newId
  IN  /\ \/ refused /\ UNCHANGED <<steps, entryStepId>>
         \/ ~refused /\ Renamed(p, newId)
      /\ renderAll
      /\ UNCHANGED <<stepCounter, saved>>

EntryAfterDelete_kept(p) == entryStepId
EntryAfterDelete(p) ==
  IF entryStepId # steps[p].id THEN entryStepId
  ELSE IF steps' = <<>> THEN "" ELSE steps'[1].id

deleteStep(i) ==
  LET p == findStepByUid(i)
  IN  /\ steps' = RemoveAt(steps, p)
      /\ entryStepId' = EntryAfterDelete(p)
      /\ renderAll
      /\ UNCHANGED <<stepCounter, saved>>

setEntry(i) ==
  /\ entryStepId' = steps[findStepByUid(i)].id
  /\ UNCHANGED steps
  /\ renderAll
  /\ UNCHANGED <<stepCounter, saved>>

\* move-down is move-up of the card below; the buttons at the ends are
\* disabled by the place of the card, the splice goes by that of its step.
moveUp(i) ==
  LET p == findStepByUid(i)
  IN  /\ i > 1 /\ p > 1
      /\ steps' = [steps EXCEPT ![p] = steps[p - 1], ![p - 1] = steps[p]]
      /\ UNCHANGED entryStepId
      /\ renderAll
      /\ UNCHANGED <<stepCounter, saved>>

moveDown(i) ==
  LET p == findStepByUid(i)
  IN  /\ i < Len(steps) /\ p < Len(steps)
      /\ steps' = [steps EXCEPT ![p] = steps[p + 1], ![p + 1] = steps[p]]
      /\ UNCHANGED entryStepId
      /\ renderAll
      /\ UNCHANGED <<stepCounter, saved>>

\* Typing into the text area is no event of the builder.
TypeText(text) ==
  /\ textarea' = text
  /\ UNCHANGED <<steps, entryStepId, stepCounter, status, saved>>

LoadFails ==
  /\ \/ textarea = NotAGraph /\ UNCHANGED stepCounter
     \/ /\ textarea # NotAGraph
        /\ UnknownKinds(textarea) # {}
        /\ stepCounter' = Min(UnknownKinds(textarea)) - 1
  /\ status' = "error"
  /\ UNCHANGED <<steps, entryStepId, textarea, saved>>

LoadSucceeds ==
  /\ textarea # NotAGraph
  /\ UnknownKinds(textarea) = {}
  /\ hydrateFromGraph(textarea)
  /\ renderAll
  /\ UNCHANGED saved

loadFromTextarea == LoadFails \/ LoadSucceeds

\* The text that the form posts: onSubmit writes the text area once more.
Posted_as_typed == textarea
Posted == buildGraphObject(steps, entryStepId)

\* onSubmit: a graph with errors is not posted.
SubmitRefused ==
  /\ ~Valid(steps, entryStepId)
  /\ status' = "error"
  /\ UNCHANGED <<steps, entryStepId, stepCounter, textarea, saved>>

\* create stores the definition and redirects: this page is gone, and the
\* next one begins again in the initial state, ...
SubmitStored ==
  /\ Valid(steps, entryStepId)
  /\ saved' = Posted
  /\ UNCHANGED <<steps, entryStepId, stepCounter, textarea, status>>

\* ... or finds fault with another field of the form and answers with a page
\* whose builder starts from the posted text (workflow_form_error, main).
SubmitReturned ==
  /\ Valid(steps, entryStepId)
  /\ hydrateFromGraph(Posted)
  /\ renderAll
  /\ UNCHANGED saved

----------------------------------------------------------------------------
Init ==
  /\ steps = StarterExample
  /\ entryStepId = "ask_summary"
  /\ stepCounter = 2
  /\ textarea = buildGraphObject(StarterExample, "ask_summary")
  /\ status = "hidden"
  /\ saved = None
  /\ events = 0

CardEvent(i) ==
  \/ \E f \in REF_FIELDS, target \in IdsOf(steps) \cup {""} : ChangeRef(i, f, target)
  \/ \E d \in Demanded[steps[i].kind], filled \in BOOLEAN : ChangeField(i, d, filled)
  \/ \E newId \in Names \cup {""} : commitIdChange(i, newId)
  \/ deleteStep(i)
  \/ setEntry(i)
  \/ moveUp(i)
  \/ moveDown(i)

Next ==
  /\ saved = None
  /\ events < MaxEvents
  /\ events' = events + 1
  /\ \/ \E kind \in Kinds : addStep(kind)
     \/ \E i \in DOMAIN steps : CardEvent(i)
     \/ \E text \in Texts : TypeText(text)
     \/ loadFromTextarea
     \/ SubmitRefused
     \/ SubmitStored
     \/ SubmitReturned

Spec == Init /\ [][Next]_vars

----------------------------------------------------------------------------
(* Properties.                                                             *)

\* A definition that the page stores can be walked by the engine without a
\* missing or ambiguous step, whatever was typed into the text area before.
SavedIsSound ==
  saved # None =>
    /\ saved # NotAGraph
    /\ LET ids == {saved.steps[p].id : p \in DOMAIN saved.steps}
       IN  /\ saved.entry_step_id \in ids
           /\ \A p, q \in DOMAIN saved.steps :
                saved.steps[p].id = saved.steps[q].id => p = q
           /\ \A p \in DOMAIN saved.steps :
                \A f \in DOMAIN saved.steps[p].refs : saved.steps[p].refs[f] \in ids

RedirectsNothing ==
  /\ \A i \in DOMAIN steps, newId \in Names :
       /\ commitIdChange(i, newId)
       /\ IsInjective([p \in DOMAIN steps |-> steps[p].id])
       => \A q \in DOMAIN steps :
            /\ entryStepId = steps[q].id => entryStepId' = steps'[q].id
            /\ \A p \in DOMAIN steps, f \in REF_FIELDS :
                 steps[p].refs[f] = steps[q].id => steps'[p].refs[f] = steps'[q].id
  /\ /\ entryStepId \in IdsOf(steps)
     /\ \E i \in DOMAIN steps : CardEvent(i)
     /\ steps' # <<>>
     => entryStepId' \in IdsOf(steps')

\* Editing cards loses nothing.  While ids are distinct, changing an id
\* redirects nothing: what led to a card, and the entry mark, still lead to that
\* card.  And if the entry mark is on a step it stays on one for as long as
\* there is one, whatever is deleted, moved and renamed.
EditsRedirectNothing == [][RedirectsNothing]_vars
=============================================================================
