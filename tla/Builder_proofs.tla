--------------------------- MODULE Builder_proofs ---------------------------
(***************************************************************************)
(* What the workflow builder stores can be walked by the engine, and       *)
(* editing cards redirects nothing.  Proved for every list of steps, every *)
(* typed text and every naming of ids.                                     *)
(***************************************************************************)
EXTENDS WorkflowBuilder, SequenceTheorems, WellFoundedInduction, TLAPS

----------------------------------------------------------------------------
(* The inductive invariant: the types.                                     *)

Cards ==
  [uid : Nat, id : STRING, kind : DOMAIN outgoingEdges,
   refs : [REF_FIELDS -> STRING], filled : SUBSET STRING]

\* The list of cards, whose every step got a uid within the bound.
CardsOK(ss) == ss \in Seq(Cards) /\ Len(ss) <= MaxCounter

BuilderOK ==
  /\ CardsOK(steps)
  /\ entryStepId \in STRING
  /\ stepCounter \in 0..MaxCounter
  /\ textarea = NotAGraph \/ WellFormed(textarea)
  /\ status \in {"hidden", "warning", "error"}
  /\ events \in 0..MaxEvents

----------------------------------------------------------------------------
(* Sequences.                                                              *)

\* A set of numbers that is not empty has a least one.
LEMMA LeastOf ==
  ASSUME NEW S \in SUBSET Nat, S # {}
  PROVE  \E x \in S : \A y \in S : x <= y
<1>1. PICK x \in S : \A y \in S : ~ (<<y, x>> \in OpToRel(<, Nat))
  BY NatLessThanWellFounded, WFMin
<1>2. \A y \in S : y < x => <<y, x>> \in OpToRel(<, Nat)
  BY Zenon DEF OpToRel
<1>3. \A y \in S : ~ (y < x)
  BY <1>1, <1>2, Zenon
<1>. QED
  BY <1>3, SMT

\* A function on 1..n is a sequence of length n.
LEMMA FunctionIsSeq ==
  ASSUME NEW S, NEW n \in Nat, NEW f, f \in [1..n -> S]
  PROVE  f \in Seq(S) /\ Len(f) = n /\ DOMAIN f = 1..n
<1>1. f \in Seq(S)
  BY SeqDef
<1>. QED
  BY <1>1, LenProperties

\* RemoveAt takes one element out, and the others stay in the list.
LEMMA Removed ==
  ASSUME NEW S, NEW s \in Seq(S), NEW p \in DOMAIN s
  PROVE  /\ RemoveAt(s, p) \in Seq(S)
         /\ Len(RemoveAt(s, p)) = Len(s) - 1
         /\ \A q \in DOMAIN s \ {p} :
              \E r \in DOMAIN RemoveAt(s, p) : RemoveAt(s, p)[r] = s[q]
<1>1. /\ DOMAIN s = 1..Len(s) /\ Len(s) \in Nat /\ p \in 1..Len(s)
      /\ \A q \in 1..Len(s) : s[q] \in S
  BY LenProperties, ElementOfSeq
<1>0. PICK a, b : a = SubSeq(s, 1, p - 1) /\ b = SubSeq(s, p + 1, Len(s))
  OBVIOUS
<1>2. /\ a \in Seq(S) /\ Len(a) = p - 1
      /\ \A q \in 1..(p - 1) : a[q] = s[q]
  <2>1. \A q \in 1..(p - 1) : s[q] \in S
    BY <1>1
  <2>2. /\ a \in Seq(S)
        /\ Len(a) = IF 1 <= p - 1 THEN (p - 1) - 1 + 1 ELSE 0
        /\ \A q \in 1..((p - 1) - 1 + 1) : a[q] = s[1 + q - 1]
    BY <1>0, <1>1, <2>1, SubSeqProperties
  <2>3. /\ (IF 1 <= p - 1 THEN (p - 1) - 1 + 1 ELSE 0) = p - 1
        /\ (p - 1) - 1 + 1 = p - 1
        /\ \A q \in 1..(p - 1) : 1 + q - 1 = q
    BY <1>1
  <2>. QED
    BY <2>2, <2>3
<1>3. /\ b \in Seq(S) /\ Len(b) = Len(s) - p
      /\ \A q \in 1..(Len(s) - p) : b[q] = s[p + q]
  <2>1. \A q \in (p + 1)..Len(s) : s[q] \in S
    BY <1>1
  <2>2. /\ b \in Seq(S)
        /\ Len(b) = IF p + 1 <= Len(s) THEN Len(s) - (p + 1) + 1 ELSE 0
        /\ \A q \in 1..(Len(s) - (p + 1) + 1) : b[q] = s[(p + 1) + q - 1]
    BY <1>0, <1>1, <2>1, SubSeqProperties
  <2>3. /\ (IF p + 1 <= Len(s) THEN Len(s) - (p + 1) + 1 ELSE 0) = Len(s) - p
        /\ Len(s) - (p + 1) + 1 = Len(s) - p
        /\ \A q \in 1..(Len(s) - p) : (p + 1) + q - 1 = p + q
    BY <1>1
  <2>. QED
    BY <2>2, <2>3
<1>4. PICK c : c = a \o b
  OBVIOUS
<1>5. /\ c \in Seq(S)
      /\ Len(c) = Len(a) + Len(b)
      /\ \A q \in 1..(Len(a) + Len(b)) :
           c[q] = IF q <= Len(a) THEN a[q] ELSE b[q - Len(a)]
  BY <1>2, <1>3, <1>4, ConcatProperties
<1>6. RemoveAt(s, p) = c
  BY <1>0, <1>4 DEF RemoveAt
<1>7. PICK n : n = Len(s)
  OBVIOUS
<1>8. n \in Nat /\ p \in 1..n
  BY <1>1, <1>7
<1>9. Len(a) = p - 1 /\ Len(b) = n - p /\ Len(c) = n - 1
  <2>1. Len(a) = p - 1 /\ Len(b) = n - p
    BY <1>2, <1>3, <1>7
  <2>2. (p - 1) + (n - p) = n - 1
    BY <1>8
  <2>. QED
    BY <1>5, <2>1, <2>2
<1>10. DOMAIN c = 1..(n - 1)
  BY <1>5, <1>9, LenProperties
<1>11. \A q \in 1..(n - 1) : c[q] = IF q <= p - 1 THEN a[q] ELSE b[q - (p - 1)]
  <2>1. (p - 1) + (n - p) = n - 1
    BY <1>8
  <2>. QED
    BY <1>5, <1>9, <2>1
<1>12. ASSUME NEW q \in 1..n, q # p
       PROVE  \E r \in 1..(n - 1) : c[r] = s[q]
  <2>1. CASE q < p
    <3>1. q \in 1..(p - 1) /\ q \in 1..(n - 1) /\ q <= p - 1
      BY <1>8, <2>1
    <3>2. c[q] = a[q] /\ a[q] = s[q]
      BY <3>1, <1>2, <1>11
    <3>. QED
      BY <3>1, <3>2
  <2>2. CASE q > p
    <3>1. /\ q - 1 \in 1..(n - 1) /\ ~(q - 1 <= p - 1)
          /\ (q - 1) - (p - 1) = q - p /\ q - p \in 1..(n - p)
          /\ p + (q - p) = q
      BY <1>8, <2>2
    <3>2. c[q - 1] = b[q - p]
      BY <3>1, <1>11
    <3>3. b[q - p] = s[q]
      BY <3>1, <1>3, <1>7
    <3>. QED
      BY <3>1, <3>2, <3>3
  <2>. QED
    BY <1>8, <1>12, <2>1, <2>2
<1>. QED
  BY <1>1, <1>5, <1>6, <1>7, <1>9, <1>10, <1>12


----------------------------------------------------------------------------
(* Cards and their JSON.                                                   *)

\* The connections of a kind are fields that hold connections.
LEMMA EdgesAreRefs ==
  ASSUME NEW k \in DOMAIN outgoingEdges
  PROVE  /\ outgoingEdges[k] \subseteq REF_FIELDS
         /\ k \in STRING
         /\ [outgoingEdges[k] -> STRING] \subseteq Connections
<1>1. k \in {"question", "branch", "wait_for_approval", "submit_ticket", "end"}
  BY DEF outgoingEdges
<1>2. /\ outgoingEdges["question"] = {"next"}
      /\ outgoingEdges["branch"] = {"on_true", "on_false"}
      /\ outgoingEdges["wait_for_approval"] = {"on_approve", "on_reject"}
      /\ outgoingEdges["submit_ticket"] = {"next"}
      /\ outgoingEdges["end"] = {}
  BY DEF outgoingEdges
<1>3. k \in STRING
  BY LiteralsAssumption
<1>. QED
  BY <1>1, <1>2, <1>3 DEF REF_FIELDS, Connections

\* What a list of cards is.
LEMMA CardsAre ==
  ASSUME NEW ss, CardsOK(ss)
  PROVE  /\ DOMAIN ss = 1..Len(ss) /\ Len(ss) \in Nat
         /\ \A p \in DOMAIN ss :
              /\ ss[p] \in Cards
              /\ ss[p].uid \in Nat
              /\ ss[p].id \in STRING
              /\ ss[p].kind \in DOMAIN outgoingEdges
              /\ ss[p].refs \in [REF_FIELDS -> STRING]
              /\ ss[p].filled \in SUBSET STRING
<1>1. DOMAIN ss = 1..Len(ss) /\ Len(ss) \in Nat
  BY LenProperties DEF CardsOK
<1>2. \A p \in DOMAIN ss : ss[p] \in Cards
  BY <1>1, ElementOfSeq DEF CardsOK
<1>. QED
  BY <1>1, <1>2 DEF Cards

\* A list that is put together place by place.
LEMMA CardsFrom ==
  ASSUME NEW n \in Nat, n <= MaxCounter, NEW ss, ss \in [1..n -> Cards]
  PROVE  CardsOK(ss)
  BY FunctionIsSeq DEF CardsOK

\* newStep makes a card.
LEMMA NewStepIsCard ==
  ASSUME NEW k \in DOMAIN outgoingEdges, NEW n \in 1..MaxCounter
  PROVE  newStep(k, n) \in Cards
<1>1. NewId(k, n) \in STRING /\ n \in Nat
  BY IdsAssumption, BoundsAssumption
<1>2. [f \in REF_FIELDS |-> ""] \in [REF_FIELDS -> STRING]
  BY LiteralsAssumption
<1>3. {"approver"} \in SUBSET STRING
  BY LiteralsAssumption
<1>. QED
  BY <1>1, <1>2, <1>3, Zenon DEF newStep, Cards

\* The JSON of a list of cards can be read back.
LEMMA GraphBuilt ==
  ASSUME NEW ss, CardsOK(ss), NEW entry \in STRING
  PROVE  WellFormed(buildGraphObject(ss, entry))
<1>. DEFINE js == [p \in DOMAIN ss |-> stepToJson(ss[p])]
            J == [id : STRING, kind : STRING, refs : Connections, filled : SUBSET STRING]
<1>1. ASSUME NEW p \in DOMAIN ss
      PROVE  /\ stepToJson(ss[p]) \in J
             /\ stepToJson(ss[p]).kind = ss[p].kind
             /\ DOMAIN stepToJson(ss[p]).refs = outgoingEdges[ss[p].kind]
  <2>1. /\ ss[p].id \in STRING
        /\ ss[p].kind \in DOMAIN outgoingEdges
        /\ ss[p].refs \in [REF_FIELDS -> STRING]
        /\ ss[p].filled \in SUBSET STRING
    BY CardsAre
  <2>2. [f \in outgoingEdges[ss[p].kind] |-> ss[p].refs[f]] \in [outgoingEdges[ss[p].kind] -> STRING]
    BY <2>1, EdgesAreRefs
  <2>3. [f \in outgoingEdges[ss[p].kind] |-> ss[p].refs[f]] \in Connections
    BY <2>1, <2>2, EdgesAreRefs
  <2>4. ss[p].kind \in STRING /\ ss[p].filled \cap Demanded[ss[p].kind] \in SUBSET STRING
    BY <2>1, EdgesAreRefs
  <2>. QED
    BY <2>1, <2>3, <2>4 DEF stepToJson
<1>2. DOMAIN ss = 1..Len(ss) /\ Len(ss) \in Nat
  BY CardsAre
<1>3. js \in [1..Len(ss) -> J]
  BY <1>1, <1>2
<1>4. js \in Seq(J) /\ Len(js) = Len(ss) /\ DOMAIN js = DOMAIN ss
  BY <1>2, <1>3, FunctionIsSeq
<1>5. \A p \in DOMAIN js : /\ js[p].kind = ss[p].kind
                           /\ DOMAIN js[p].refs = outgoingEdges[ss[p].kind]
  BY <1>1
<1>6. /\ buildGraphObject(ss, entry).steps = js
      /\ buildGraphObject(ss, entry).entry_step_id = entry
      /\ buildGraphObject(ss, entry) = [entry_step_id |-> entry, steps |-> js]
  BY DEF buildGraphObject
<1>. HIDE DEF js
<1>7. buildGraphObject(ss, entry) \in Graphs
  BY <1>4, <1>6 DEF Graphs
<1>. QED
  BY <1>4, <1>5, <1>6, <1>7 DEF WellFormed, CardsOK

\* Reading a graph back makes cards.
LEMMA HydratedIsCard ==
  ASSUME NEW g, WellFormed(g), NEW p \in DOMAIN g.steps,
         g.steps[p].kind \in DOMAIN outgoingEdges
  PROVE  Hydrated(g.steps[p], p) \in Cards
<1>. DEFINE J == [id : STRING, kind : STRING, refs : Connections, filled : SUBSET STRING]
            s == g.steps[p]
<1>1. g.steps \in Seq(J) /\ Len(g.steps) <= MaxCounter
  BY DEF WellFormed, Graphs
<1>2. DOMAIN g.steps = 1..Len(g.steps) /\ Len(g.steps) \in Nat
  BY <1>1, LenProperties
<1>3. s \in J
  BY <1>1, <1>2, ElementOfSeq
<1>4. s.id \in STRING /\ s.filled \in SUBSET STRING /\ s.refs \in Connections
  BY <1>3
<1>5. p \in 1..MaxCounter
  BY <1>1, <1>2, BoundsAssumption
<1>6. \A r \in Connections : \A f \in DOMAIN r : r[f] \in STRING
  BY Zenon DEF Connections
<1>7. outgoingEdges[s.kind] \subseteq DOMAIN s.refs
  BY DEF WellFormed
<1>8. PICK new : new = newStep(s.kind, p)
  OBVIOUS
<1>9. new \in Cards
  BY <1>5, <1>8, NewStepIsCard
<1>10. [f \in REF_FIELDS |-> IF f \in outgoingEdges[s.kind] THEN s.refs[f] ELSE ""]
         \in [REF_FIELDS -> STRING]
  BY <1>4, <1>6, <1>7, LiteralsAssumption
<1>11. PICK refs \in [REF_FIELDS -> STRING] :
         refs = [f \in REF_FIELDS |-> IF f \in outgoingEdges[s.kind] THEN s.refs[f] ELSE ""]
  BY <1>10
<1>12. PICK filled \in SUBSET STRING :
         filled = IF s.kind = "wait_for_approval" THEN s.filled ELSE new.filled \cup s.filled
  BY <1>4, <1>9 DEF Cards
<1>13. PICK id \in STRING : id = IF s.id = "" THEN new.id ELSE s.id
  BY <1>4, <1>9 DEF Cards
<1>14. Hydrated(s, p) = [new EXCEPT !.id = id, !.refs = refs, !.filled = filled]
  BY <1>8, <1>11, <1>12, <1>13 DEF Hydrated
<1>. QED
  BY <1>9, <1>14 DEF Cards


----------------------------------------------------------------------------
(* The events on a card.                                                   *)

\* findStepByUid finds a step: the card itself is a match.
LEMMA StepFound ==
  ASSUME CardsOK(steps), NEW i \in DOMAIN steps
  PROVE  findStepByUid(i) \in DOMAIN steps
<1>. DEFINE matches == {p \in DOMAIN steps : steps[p].uid = steps[i].uid}
<1>1. matches \in SUBSET Nat /\ matches # {}
  BY CardsAre
<1>. HIDE DEF matches
<1>2. PICK p \in matches : \A q \in matches : p <= q
  BY <1>1, LeastOf
<1>3. \E x \in DOMAIN steps :
        /\ steps[x].uid = steps[i].uid
        /\ \A q \in DOMAIN steps : steps[q].uid = steps[i].uid => x <= q
  BY <1>2 DEF matches
<1>. QED
  BY <1>3, Zenon DEF findStepByUid

\* The list keeps its places and each place its id.
SameIds ==
  /\ DOMAIN steps' = DOMAIN steps
  /\ \A q \in DOMAIN steps : steps'[q].id = steps[q].id

\* Replacing one card.
LEMMA CardReplaced ==
  ASSUME CardsOK(steps), NEW p \in DOMAIN steps, NEW card \in Cards,
         steps' = [steps EXCEPT ![p] = card]
  PROVE  /\ CardsOK(steps')
         /\ DOMAIN steps' = DOMAIN steps
         /\ steps'[p] = card
         /\ \A q \in DOMAIN steps \ {p} : steps'[q] = steps[q]
<1>1. /\ DOMAIN steps = 1..Len(steps) /\ Len(steps) \in Nat
      /\ \A q \in DOMAIN steps : steps[q] \in Cards
  BY CardsAre
<1>2. /\ DOMAIN steps' = DOMAIN steps
      /\ steps'[p] = card
      /\ \A q \in DOMAIN steps \ {p} : steps'[q] = steps[q]
  OBVIOUS
<1>3. steps' \in [1..Len(steps) -> Cards]
  BY <1>1
<1>4. CardsOK(steps')
  BY <1>1, <1>3, CardsFrom DEF CardsOK
<1>. QED
  BY <1>2, <1>4

LEMMA ChangeRefOK ==
  ASSUME CardsOK(steps), NEW i \in DOMAIN steps, NEW f \in REF_FIELDS, NEW target,
         ChangeRef(i, f, target), target \in STRING
  PROVE  CardsOK(steps') /\ SameIds
<1>1. PICK p \in DOMAIN steps : p = findStepByUid(i)
  BY StepFound
<1>2. steps[p] \in Cards /\ steps[p].refs \in [REF_FIELDS -> STRING]
  BY CardsAre
<1>3. PICK refs : refs = [steps[p].refs EXCEPT ![f] = target]
  OBVIOUS
<1>4. refs \in [REF_FIELDS -> STRING]
  BY <1>2, <1>3
<1>5. PICK card : card = [steps[p] EXCEPT !.refs = refs]
  OBVIOUS
<1>6. card \in Cards /\ card.id = steps[p].id
  BY <1>2, <1>4, <1>5 DEF Cards
<1>7. steps' = [steps EXCEPT ![p] = card]
  BY <1>1, <1>3, <1>5 DEF ChangeRef
<1>. QED
  BY <1>6, <1>7, CardReplaced DEF SameIds

LEMMA ChangeFieldOK ==
  ASSUME CardsOK(steps), NEW i \in DOMAIN steps, NEW d, NEW fill \in BOOLEAN,
         ChangeField(i, d, fill)
  PROVE  CardsOK(steps') /\ SameIds
<1>1. PICK p \in DOMAIN steps : p = findStepByUid(i)
  BY StepFound
<1>2. steps[p] \in Cards /\ steps[p].filled \in SUBSET STRING
  BY CardsAre
<1>3. d \in STRING
  <2>1. steps[i].kind \in DOMAIN outgoingEdges
    BY CardsAre
  <2>2. \A k \in DOMAIN outgoingEdges :
          Demanded[k] \subseteq {"field_key", "condition_field_key", "approver"}
    BY DEF Demanded, outgoingEdges
  <2>. QED
    BY <2>1, <2>2, LiteralsAssumption DEF ChangeField
<1>4. PICK filled : filled = IF fill THEN steps[p].filled \cup {d}
                                     ELSE steps[p].filled \ {d}
  OBVIOUS
<1>5. filled \in SUBSET STRING
  BY <1>2, <1>3, <1>4
<1>6. PICK card : card = [steps[p] EXCEPT !.filled = filled]
  OBVIOUS
<1>7. card \in Cards /\ card.id = steps[p].id
  BY <1>2, <1>5, <1>6 DEF Cards
<1>8. steps' = [steps EXCEPT ![p] = card]
  BY <1>1, <1>4, <1>6 DEF ChangeField
<1>. QED
  BY <1>7, <1>8, CardReplaced DEF SameIds

\* Changing an id: the card has the new one, and every connection to the old
\* one has it too.
LEMMA RenamedOK ==
  ASSUME CardsOK(steps), NEW p \in DOMAIN steps, NEW newId \in STRING,
         entryStepId \in STRING, Renamed(p, newId)
  PROVE  /\ CardsOK(steps')
         /\ entryStepId' \in STRING
         /\ DOMAIN steps' = DOMAIN steps
         /\ \A q \in DOMAIN steps :
              /\ steps'[q].id = IF q = p THEN newId ELSE steps[q].id
              /\ \A f \in REF_FIELDS :
                   steps'[q].refs[f] = IF steps[q].refs[f] = steps[p].id
                                       THEN newId ELSE steps[q].refs[f]
<1>1. /\ DOMAIN steps = 1..Len(steps) /\ Len(steps) \in Nat
      /\ \A q \in DOMAIN steps : steps[q] \in Cards
  BY CardsAre
<1>2. DOMAIN steps' = DOMAIN steps
  BY DEF Renamed
<1>3. ASSUME NEW q \in DOMAIN steps
      PROVE  /\ steps'[q] \in Cards
             /\ steps'[q].id = IF q = p THEN newId ELSE steps[q].id
             /\ \A f \in REF_FIELDS :
                  steps'[q].refs[f] = IF steps[q].refs[f] = steps[p].id
                                      THEN newId ELSE steps[q].refs[f]
  <2>1. steps[q].refs \in [REF_FIELDS -> STRING] /\ steps[q].id \in STRING
    BY CardsAre
  <2>2. PICK refs : refs = [f \in REF_FIELDS |-> IF steps[q].refs[f] = steps[p].id
                                                 THEN newId ELSE steps[q].refs[f]]
    OBVIOUS
  <2>3. refs \in [REF_FIELDS -> STRING]
    BY <2>1, <2>2
  <2>4. PICK id \in STRING : id = IF q = p THEN newId ELSE steps[q].id
    BY <2>1
  <2>5. steps'[q] = [steps[q] EXCEPT !.id = id, !.refs = refs]
    BY <2>2, <2>4 DEF Renamed
  <2>6. steps'[q] \in Cards /\ steps'[q].id = id /\ steps'[q].refs = refs
    BY <1>1, <2>3, <2>5 DEF Cards
  <2>. QED
    BY <2>2, <2>4, <2>6
<1>4. steps' \in [1..Len(steps) -> Cards]
  <2>1. steps' = [q \in DOMAIN steps |-> steps'[q]]
    BY DEF Renamed
  <2>. QED
    BY <1>1, <1>3, <2>1
<1>5. CardsOK(steps')
  BY <1>1, <1>4, CardsFrom DEF CardsOK
<1>6. entryStepId' \in STRING
  BY DEF Renamed
<1>. QED
  BY <1>2, <1>3, <1>5, <1>6

\* Swapping two cards keeps the ids of the list.
LEMMA Swapped ==
  ASSUME CardsOK(steps), NEW p \in DOMAIN steps, NEW r \in DOMAIN steps, p # r,
         steps' = [steps EXCEPT ![p] = steps[r], ![r] = steps[p]]
  PROVE  CardsOK(steps') /\ IdsOf(steps') = IdsOf(steps)
<1>1. /\ DOMAIN steps = 1..Len(steps) /\ Len(steps) \in Nat
      /\ \A q \in DOMAIN steps : steps[q] \in Cards
  BY CardsAre
<1>2. /\ DOMAIN steps' = DOMAIN steps
      /\ steps'[p] = steps[r] /\ steps'[r] = steps[p]
      /\ \A q \in DOMAIN steps \ {p, r} : steps'[q] = steps[q]
  OBVIOUS
<1>3. steps' \in [1..Len(steps) -> Cards]
  BY <1>1
<1>4. CardsOK(steps')
  BY <1>1, <1>3, CardsFrom DEF CardsOK
<1>. QED
  BY <1>2, <1>4 DEF IdsOf


\* What an event on a card leaves: a list of cards, rendered, whose entry mark
\* is on a step if it was on one before and there is one left.
CardsKept ==
  /\ CardsOK(steps')
  /\ entryStepId' \in STRING
  /\ stepCounter' = stepCounter
  /\ saved' = saved
  /\ renderAll
  /\ entryStepId \in IdsOf(steps) /\ steps' # <<>> => entryStepId' \in IdsOf(steps')

LEMMA CommitIdChangeOK ==
  ASSUME CardsOK(steps), entryStepId \in STRING, NEW i \in DOMAIN steps,
         NEW newId \in STRING, commitIdChange(i, newId)
  PROVE  CardsKept
<1>1. PICK p \in DOMAIN steps : p = findStepByUid(i)
  BY StepFound
<1>2. /\ UNCHANGED <<steps, entryStepId>> \/ Renamed(p, newId)
      /\ renderAll /\ stepCounter' = stepCounter /\ saved' = saved
  BY <1>1 DEF commitIdChange
<1>3. CASE UNCHANGED <<steps, entryStepId>>
  BY <1>2, <1>3 DEF CardsKept, IdsOf
<1>4. CASE Renamed(p, newId)
  <2>1. CardsOK(steps') /\ entryStepId' \in STRING
    BY <1>4, RenamedOK
  <2>2. ASSUME entryStepId \in IdsOf(steps)
        PROVE  entryStepId' \in IdsOf(steps')
    <3>1. PICK q \in DOMAIN steps : entryStepId = steps[q].id
      BY <2>2 DEF IdsOf
    <3>2. /\ DOMAIN steps' = DOMAIN steps
          /\ steps'[p].id = newId
          /\ q # p => steps'[q].id = steps[q].id
      BY <1>4, RenamedOK
    <3>3. entryStepId' = IF entryStepId = steps[p].id THEN newId ELSE entryStepId
      BY <1>4 DEF Renamed
    <3>. QED
      BY <3>1, <3>2, <3>3 DEF IdsOf
  <2>. QED
    BY <1>2, <2>1, <2>2 DEF CardsKept
<1>. QED
  BY <1>2, <1>3, <1>4

LEMMA DeleteStepOK ==
  ASSUME CardsOK(steps), entryStepId \in STRING, NEW i \in DOMAIN steps,
         deleteStep(i)
  PROVE  CardsKept
<1>1. PICK p \in DOMAIN steps : p = findStepByUid(i)
  BY StepFound
<1>2. /\ steps' = RemoveAt(steps, p)
      /\ entryStepId' = EntryAfterDelete(p)
      /\ renderAll /\ stepCounter' = stepCounter /\ saved' = saved
  BY <1>1 DEF deleteStep
<1>3. /\ steps' \in Seq(Cards)
      /\ Len(steps') = Len(steps) - 1
      /\ \A q \in DOMAIN steps \ {p} : \E r \in DOMAIN steps' : steps'[r] = steps[q]
  BY <1>2, Removed DEF CardsOK
<1>4. Len(steps) \in Nat
  BY CardsAre
<1>5. CardsOK(steps')
  BY <1>3, <1>4, BoundsAssumption DEF CardsOK
<1>6. steps' # <<>> => 1 \in DOMAIN steps'
  <2>1. steps' # <<>> => Len(steps') \in Nat \ {0}
    BY <1>3, EmptySeq
  <2>2. DOMAIN steps' = 1..Len(steps')
    BY <1>3, LenProperties
  <2>. QED
    BY <2>1, <2>2
<1>7. entryStepId' = IF entryStepId # steps[p].id THEN entryStepId
                     ELSE IF steps' = <<>> THEN "" ELSE steps'[1].id
  BY <1>2 DEF EntryAfterDelete
<1>8. steps' # <<>> => steps'[1].id \in STRING
  BY <1>5, <1>6, CardsAre
<1>9. entryStepId' \in STRING
  BY <1>7, <1>8, LiteralsAssumption
<1>10. ASSUME entryStepId \in IdsOf(steps), steps' # <<>>
       PROVE  entryStepId' \in IdsOf(steps')
  <2>1. CASE entryStepId = steps[p].id
    BY <1>6, <1>7, <1>10, <2>1 DEF IdsOf
  <2>2. CASE entryStepId # steps[p].id
    <3>1. PICK q \in DOMAIN steps \ {p} : entryStepId = steps[q].id
      BY <1>10, <2>2 DEF IdsOf
    <3>2. PICK r \in DOMAIN steps' : steps'[r] = steps[q]
      BY <1>3, <3>1
    <3>. QED
      BY <1>7, <2>2, <3>1, <3>2 DEF IdsOf
  <2>. QED
    BY <2>1, <2>2
<1>. QED
  BY <1>2, <1>5, <1>9, <1>10 DEF CardsKept

\* Every event on a card is such a step.
LEMMA CardEventOK ==
  ASSUME CardsOK(steps), entryStepId \in STRING, NEW i \in DOMAIN steps,
         CardEvent(i)
  PROVE  CardsKept
<1>1. PICK p \in DOMAIN steps : p = findStepByUid(i)
  BY StepFound
<1>2. /\ DOMAIN steps = 1..Len(steps) /\ Len(steps) \in Nat
      /\ \A q \in DOMAIN steps : steps[q].id \in STRING
  BY CardsAre
<1>3. CASE \E f \in REF_FIELDS, target \in IdsOf(steps) \cup {""} : ChangeRef(i, f, target)
  <2>1. PICK f \in REF_FIELDS, target \in IdsOf(steps) \cup {""} : ChangeRef(i, f, target)
    BY <1>3
  <2>2. target \in STRING
    BY <1>2, LiteralsAssumption DEF IdsOf
  <2>3. CardsOK(steps') /\ SameIds
    BY <2>1, <2>2, ChangeRefOK
  <2>. QED
    BY <2>1, <2>3 DEF CardsKept, ChangeRef, SameIds, IdsOf
<1>4. CASE \E d \in Demanded[steps[i].kind], filled \in BOOLEAN : ChangeField(i, d, filled)
  <2>1. PICK d \in Demanded[steps[i].kind], filled \in BOOLEAN : ChangeField(i, d, filled)
    BY <1>4
  <2>2. CardsOK(steps') /\ SameIds
    BY <2>1, ChangeFieldOK
  <2>. QED
    BY <2>1, <2>2 DEF CardsKept, ChangeField, SameIds, IdsOf
<1>5. CASE \E newId \in Names \cup {""} : commitIdChange(i, newId)
  BY <1>5, CommitIdChangeOK, IdsAssumption, LiteralsAssumption
<1>6. CASE deleteStep(i)
  BY <1>6, DeleteStepOK
<1>7. CASE setEntry(i)
  BY <1>1, <1>2, <1>7 DEF setEntry, CardsKept, IdsOf
<1>8. CASE moveUp(i)
  <2>1. /\ p > 1 /\ steps' = [steps EXCEPT ![p] = steps[p - 1], ![p - 1] = steps[p]]
        /\ entryStepId' = entryStepId
        /\ renderAll /\ stepCounter' = stepCounter /\ saved' = saved
    BY <1>1, <1>8 DEF moveUp
  <2>2. p - 1 \in DOMAIN steps /\ p # p - 1
    BY <1>2, <2>1
  <2>3. CardsOK(steps') /\ IdsOf(steps') = IdsOf(steps)
    BY <2>1, <2>2, Swapped
  <2>. QED
    BY <2>1, <2>3 DEF CardsKept
<1>9. CASE moveDown(i)
  <2>1. /\ p < Len(steps)
        /\ steps' = [steps EXCEPT ![p] = steps[p + 1], ![p + 1] = steps[p]]
        /\ entryStepId' = entryStepId
        /\ renderAll /\ stepCounter' = stepCounter /\ saved' = saved
    BY <1>1, <1>9 DEF moveDown
  <2>2. p + 1 \in DOMAIN steps /\ p # p + 1
    BY <1>2, <2>1
  <2>3. CardsOK(steps') /\ IdsOf(steps') = IdsOf(steps)
    BY <2>1, <2>2, Swapped
  <2>. QED
    BY <2>1, <2>3 DEF CardsKept
<1>. QED
  BY <1>3, <1>4, <1>5, <1>6, <1>7, <1>8, <1>9 DEF CardEvent

----------------------------------------------------------------------------
(* Every step keeps the types.                                             *)

\* renderAll writes a text that can be loaded.
LEMMA RenderOK ==
  ASSUME renderAll, CardsOK(steps'), entryStepId' \in STRING
  PROVE  WellFormed(textarea') /\ status' \in {"hidden", "warning", "error"}
  BY GraphBuilt DEF renderAll

\* hydrateFromGraph makes a list of cards.
LEMMA HydrateOK ==
  ASSUME NEW g, WellFormed(g), UnknownKinds(g) = {}, hydrateFromGraph(g)
  PROVE  /\ CardsOK(steps') /\ entryStepId' \in STRING
         /\ stepCounter' \in 0..MaxCounter
<1>1. /\ g.entry_step_id \in STRING
      /\ DOMAIN g.steps = 1..Len(g.steps) /\ Len(g.steps) \in Nat
      /\ Len(g.steps) <= MaxCounter
      /\ g.steps # <<>> => Len(g.steps) \in Nat \ {0}
  BY LenProperties, EmptySeq DEF WellFormed, Graphs
<1>2. \A p \in DOMAIN g.steps : Hydrated(g.steps[p], p) \in Cards
  BY HydratedIsCard DEF UnknownKinds
<1>3. steps' \in [1..Len(g.steps) -> Cards]
  BY <1>1, <1>2 DEF hydrateFromGraph
<1>4. CardsOK(steps')
  BY <1>1, <1>3, CardsFrom
<1>5. g.steps # <<>> => steps'[1].id \in STRING
  BY <1>1, <1>3, <1>4, CardsAre
<1>6. entryStepId' = CASE g.entry_step_id # "" -> g.entry_step_id
                       [] g.entry_step_id = "" /\ g.steps # <<>> -> steps'[1].id
                       [] OTHER -> ""
  BY DEF hydrateFromGraph
<1>7. entryStepId' \in STRING
  BY <1>1, <1>5, <1>6, LiteralsAssumption
<1>8. stepCounter' \in 0..MaxCounter
  <2>1. stepCounter' = Len(g.steps)
    BY Zenon DEF hydrateFromGraph
  <2>. QED
    BY <1>1, <2>1, BoundsAssumption
<1>. QED
  BY <1>4, <1>7, <1>8


\* The example that the page opens with is a list of cards.
LEMMA StarterOK ==
  CardsOK(StarterExample)
<1>1. 1 \in 1..MaxCounter /\ 2 \in 1..MaxCounter
  BY BoundsAssumption
<1>2. PICK a, b \in Cards : a = newStep("question", 1) /\ b = newStep("end", 2)
  BY <1>1, NewStepIsCard DEF outgoingEdges
<1>3. PICK refs : refs = [a.refs EXCEPT !["next"] = "end_ok"]
  OBVIOUS
<1>4. refs \in [REF_FIELDS -> STRING]
  BY <1>2, <1>3, LiteralsAssumption DEF Cards
<1>5. PICK filled : filled = a.filled \cup {"field_key"}
  OBVIOUS
<1>6. filled \in SUBSET STRING
  BY <1>2, <1>5, LiteralsAssumption DEF Cards
<1>7. PICK ask, done : /\ ask = [a EXCEPT !.id = "ask_summary", !.refs = refs, !.filled = filled]
                       /\ done = [b EXCEPT !.id = "end_ok"]
  OBVIOUS
<1>8. ask \in Cards /\ done \in Cards
  BY <1>2, <1>4, <1>6, <1>7, LiteralsAssumption DEF Cards
<1>9. StarterExample = <<ask, done>>
  BY <1>2, <1>3, <1>5, <1>7 DEF StarterExample
<1>10. <<ask, done>> \in Seq(Cards) /\ Len(<<ask, done>>) = 2
  BY <1>8
<1>. QED
  BY <1>9, <1>10, BoundsAssumption DEF CardsOK

LEMMA BuilderInit ==
  ASSUME Init
  PROVE  BuilderOK
<1>1. CardsOK(steps) /\ entryStepId \in STRING
  BY StarterOK, LiteralsAssumption DEF Init
<1>2. WellFormed(textarea)
  BY StarterOK, LiteralsAssumption, GraphBuilt DEF Init
<1>. QED
  BY <1>1, <1>2, BoundsAssumption DEF Init, BuilderOK

\* A load that stops at a step leaves the counter just before it.
LEMMA LoadFailsOK ==
  ASSUME BuilderOK, LoadFails
  PROVE  stepCounter' \in 0..MaxCounter
<1>1. CASE UNCHANGED stepCounter
  BY <1>1 DEF BuilderOK
<1>2. CASE /\ textarea # NotAGraph
           /\ UnknownKinds(textarea) # {}
           /\ stepCounter' = Min(UnknownKinds(textarea)) - 1
  <2>1. /\ DOMAIN textarea.steps = 1..Len(textarea.steps) /\ Len(textarea.steps) \in Nat
        /\ Len(textarea.steps) <= MaxCounter
    BY <1>2, LenProperties DEF BuilderOK, WellFormed, Graphs
  <2>2. PICK U : U = UnknownKinds(textarea)
    OBVIOUS
  <2>3. U \subseteq 1..MaxCounter /\ U # {}
    BY <1>2, <2>1, <2>2, BoundsAssumption DEF UnknownKinds
  <2>4. U \in SUBSET Nat
    BY <2>3, BoundsAssumption
  <2>5. \E x \in U : \A y \in U : x <= y
    BY <2>3, <2>4, LeastOf
  <2>6. Min(U) \in U
    BY <2>5, Zenon DEF Min
  <2>7. Min(U) \in 1..MaxCounter
    BY <2>3, <2>6
  <2>. QED
    BY <1>2, <2>2, <2>7, BoundsAssumption
<1>. QED
  BY <1>1, <1>2 DEF LoadFails

LEMMA BuilderStep ==
  ASSUME BuilderOK, [Next]_vars
  PROVE  BuilderOK'
<1>. USE DEF BuilderOK
<1>1. CASE UNCHANGED vars
  BY <1>1 DEF vars, WellFormed
<1>2. ASSUME Next
      PROVE  events' \in 0..MaxEvents
  BY <1>2, BoundsAssumption DEF Next
<1>3. ASSUME renderAll, CardsOK(steps'), entryStepId' \in STRING,
             stepCounter' \in 0..MaxCounter, Next
      PROVE  BuilderOK'
  BY <1>2, <1>3, RenderOK
<1>4. ASSUME NEW kind \in Kinds, addStep(kind), Next
      PROVE  BuilderOK'
  <2>1. stepCounter + 1 \in 1..MaxCounter /\ kind \in DOMAIN outgoingEdges
    <3>1. stepCounter < MaxCounter /\ stepCounter \in 0..MaxCounter
      BY <1>4 DEF addStep
    <3>2. kind \in DOMAIN outgoingEdges
      BY IdsAssumption
    <3>. QED
      BY <3>1, <3>2, BoundsAssumption
  <2>2. PICK card \in Cards : card = newStep(kind, stepCounter + 1)
    BY <2>1, NewStepIsCard
  <2>3. NewId(kind, stepCounter + 1) \in STRING
    BY <2>1, IdsAssumption
  <2>4. steps' = Append(steps, card) /\ Len(steps) < MaxSteps
    BY <1>4, <2>2 DEF addStep
  <2>5. steps' \in Seq(Cards) /\ Len(steps') = Len(steps) + 1 /\ Len(steps) \in Nat
    BY <2>4, AppendProperties, CardsAre DEF CardsOK
  <2>6. CardsOK(steps')
    BY <2>4, <2>5, BoundsAssumption DEF CardsOK
  <2>7. entryStepId' \in STRING /\ stepCounter' \in 0..MaxCounter /\ renderAll
    <3>1. /\ entryStepId' \in {entryStepId, NewId(kind, stepCounter + 1)}
          /\ stepCounter' = stepCounter + 1
          /\ renderAll
      BY <1>4 DEF addStep
    <3>2. entryStepId' \in STRING
      BY <2>3, <3>1
    <3>3. stepCounter' \in 0..MaxCounter
      BY <2>1, <3>1, BoundsAssumption
    <3>. QED
      BY <3>1, <3>2, <3>3
  <2>. QED
    BY <1>3, <1>4, <2>6, <2>7
<1>5. ASSUME NEW i \in DOMAIN steps, CardEvent(i), Next
      PROVE  BuilderOK'
  <2>1. CardsKept
    BY <1>5, CardEventOK
  <2>. QED
    BY <1>3, <1>5, <2>1 DEF CardsKept
<1>6. ASSUME NEW text \in Texts, TypeText(text), Next
      PROVE  BuilderOK'
  BY <1>2, <1>6, TextsAssumption DEF TypeText
<1>7. ASSUME LoadFails, Next
      PROVE  BuilderOK'
  <2>1. stepCounter' \in 0..MaxCounter
    BY <1>7, LoadFailsOK
  <2>. QED
    BY <1>2, <1>7, <2>1 DEF LoadFails, WellFormed
<1>8. ASSUME LoadSucceeds, Next
      PROVE  BuilderOK'
  <2>1. /\ CardsOK(steps') /\ entryStepId' \in STRING
        /\ stepCounter' \in 0..MaxCounter
    BY <1>8, HydrateOK DEF LoadSucceeds
  <2>. QED
    BY <1>3, <1>8, <2>1 DEF LoadSucceeds
<1>9. ASSUME SubmitRefused, Next
      PROVE  BuilderOK'
  BY <1>2, <1>9 DEF SubmitRefused, WellFormed
<1>10. ASSUME SubmitStored, Next
       PROVE  BuilderOK'
  BY <1>2, <1>10 DEF SubmitStored, WellFormed
<1>11. ASSUME SubmitReturned, Next
       PROVE  BuilderOK'
  <2>1. PICK g : g = buildGraphObject(steps, entryStepId)
    OBVIOUS
  <2>2. WellFormed(g)
    BY <2>1, GraphBuilt
  <2>3. UnknownKinds(g) = {}
    BY <2>1, CardsAre DEF UnknownKinds, buildGraphObject, stepToJson
  <2>4. hydrateFromGraph(g) /\ renderAll
    BY <1>11, <2>1 DEF SubmitReturned, Posted
  <2>5. /\ CardsOK(steps') /\ entryStepId' \in STRING
        /\ stepCounter' \in 0..MaxCounter
    BY <2>2, <2>3, <2>4, HydrateOK
  <2>. QED
    BY <1>3, <1>11, <2>4, <2>5
<1>. QED
  BY <1>1, <1>4, <1>5, <1>6, <1>7, <1>8, <1>9, <1>10, <1>11
     DEF Next, loadFromTextarea

LEMMA BuilderInvariant ==
  Spec => []BuilderOK
  BY BuilderInit, BuilderStep, PTL DEF Spec

----------------------------------------------------------------------------
(* What the page stores, and what its editing keeps.                       *)

\* A list of which validate() says nothing makes a sound graph.
LEMMA ValidIsSound ==
  ASSUME CardsOK(steps), entryStepId \in STRING, Valid(steps, entryStepId),
         saved' = Posted
  PROVE  SavedIsSound'
<1>1. saved' = buildGraphObject(steps, entryStepId)
  BY DEF Posted
<1>2. saved' # NotAGraph
  BY <1>1, GraphBuilt, TextsAssumption DEF WellFormed
<1>3. /\ DOMAIN saved'.steps = DOMAIN steps
      /\ saved'.entry_step_id = entryStepId
      /\ \A p \in DOMAIN steps :
           /\ saved'.steps[p].id = steps[p].id
           /\ DOMAIN saved'.steps[p].refs = outgoingEdges[steps[p].kind]
           /\ \A f \in outgoingEdges[steps[p].kind] :
                saved'.steps[p].refs[f] = steps[p].refs[f]
  BY <1>1 DEF buildGraphObject, stepToJson
<1>4. {saved'.steps[p].id : p \in DOMAIN saved'.steps} = IdsOf(steps)
  BY <1>3 DEF IdsOf
<1>5. entryStepId \in IdsOf(steps)
  BY DEF Valid
<1>6. \A p, q \in DOMAIN steps : steps[p].id = steps[q].id => p = q
  BY DEF Valid
<1>7. \A p \in DOMAIN steps : \A f \in outgoingEdges[steps[p].kind] :
        steps[p].refs[f] \in IdsOf(steps)
  BY DEF Valid
<1>8. \A p \in DOMAIN saved'.steps : \A f \in DOMAIN saved'.steps[p].refs :
        saved'.steps[p].refs[f] \in IdsOf(steps)
  BY <1>3, <1>7
<1>9. \A p, q \in DOMAIN saved'.steps :
        saved'.steps[p].id = saved'.steps[q].id => p = q
  BY <1>3, <1>6
<1>10. saved'.entry_step_id \in IdsOf(steps)
  BY <1>3, <1>5
<1>. QED
  BY <1>2, <1>4, <1>8, <1>9, <1>10, Zenon DEF SavedIsSound

\* A definition that the page stores can be walked by the engine without a
\* missing or ambiguous step, whatever was typed, loaded and edited before the
\* form was posted.
THEOREM StoredGraphsAreSound ==
  Spec => []SavedIsSound
<1>1. Init => SavedIsSound
  BY DEF Init, SavedIsSound
<1>2. BuilderOK /\ SavedIsSound /\ [Next]_vars => SavedIsSound'
  <2>. SUFFICES ASSUME BuilderOK, SavedIsSound, [Next]_vars
                PROVE  SavedIsSound'
    OBVIOUS
  <2>1. CASE saved' = saved
    BY <2>1 DEF SavedIsSound
  <2>2. CASE SubmitStored
    BY <2>2, ValidIsSound DEF BuilderOK, SubmitStored
  <2>3. \A i \in DOMAIN steps : CardEvent(i) => saved' = saved
    BY CardEventOK DEF BuilderOK, CardsKept
  <2>. QED
    BY <2>1, <2>2, <2>3 DEF Next, vars, addStep, TypeText, loadFromTextarea,
       LoadFails, LoadSucceeds, SubmitRefused, SubmitReturned
<1>. QED
  BY <1>1, <1>2, BuilderInvariant, PTL DEF Spec

\* Changing the id of a card redirects neither a connection nor the entry mark
\* while ids are distinct, and no editing of cards loses the entry mark.
THEOREM EditsKeepRoutes ==
  Spec => EditsRedirectNothing
<1>1. ASSUME BuilderOK, NEW i \in DOMAIN steps, NEW newId \in Names,
             commitIdChange(i, newId),
             IsInjective([p \in DOMAIN steps |-> steps[p].id]),
             NEW q \in DOMAIN steps
      PROVE  /\ entryStepId = steps[q].id => entryStepId' = steps'[q].id
             /\ \A p \in DOMAIN steps, f \in REF_FIELDS :
                  steps[p].refs[f] = steps[q].id => steps'[p].refs[f] = steps'[q].id
  <2>1. PICK p \in DOMAIN steps : p = findStepByUid(i)
    BY <1>1, StepFound DEF BuilderOK
  <2>2. UNCHANGED <<steps, entryStepId>> \/ Renamed(p, newId)
    BY <1>1, <2>1 DEF commitIdChange
  <2>3. CASE UNCHANGED <<steps, entryStepId>>
    BY <2>3
  <2>4. CASE Renamed(p, newId)
    <3>1. newId \in STRING /\ CardsOK(steps) /\ entryStepId \in STRING
      BY <1>1, IdsAssumption DEF BuilderOK
    <3>2. \A r \in DOMAIN steps :
            /\ steps'[r].id = IF r = p THEN newId ELSE steps[r].id
            /\ \A f \in REF_FIELDS :
                 steps'[r].refs[f] = IF steps[r].refs[f] = steps[p].id
                                     THEN newId ELSE steps[r].refs[f]
      BY <2>4, <3>1, RenamedOK
    <3>3. entryStepId' = IF entryStepId = steps[p].id THEN newId ELSE entryStepId
      BY <2>4 DEF Renamed
    <3>4. steps[p].id = steps[q].id => p = q
      BY <1>1 DEF IsInjective
    <3>. QED
      BY <3>2, <3>3, <3>4
  <2>. QED
    BY <2>2, <2>3, <2>4
<1>2. ASSUME BuilderOK, NEW i \in DOMAIN steps, CardEvent(i),
             entryStepId \in IdsOf(steps), steps' # <<>>
      PROVE  entryStepId' \in IdsOf(steps')
  BY <1>2, CardEventOK DEF BuilderOK, CardsKept
<1>3. BuilderOK => [RedirectsNothing]_vars
  BY <1>1, <1>2, Zenon DEF RedirectsNothing
<1>. QED
  BY <1>3, BuilderInvariant, PTL DEF EditsRedirectNothing
=============================================================================
