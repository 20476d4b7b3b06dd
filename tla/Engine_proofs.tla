--------------------------- MODULE Engine_proofs ---------------------------
(***************************************************************************)
(* What the proofs about requests need of the workflow engine, for every   *)
(* graph: where an engine call may rest, and what auto_advance's loop      *)
(* visits on the way there.                                                *)
(***************************************************************************)
EXTENDS WorkflowEngine, FiniteSetTheorems, WellFoundedInduction, TLAPS

\* A call that succeeds rests at a step of the graph that is no Branch, and
\* its Outcome is the one for that step.
Rests(g, r) ==
  r.err = "none" =>
    /\ r.step \in DOMAIN g.steps
    /\ g.steps[r.step].kind # "branch"
    /\ r.outcome = OutcomeOf(g.steps[r.step])

\* auto_advance and the engine calls built on it only succeed at a resting
\* step.
LEMMA EngineRests ==
  ASSUME NEW g, NEW s, NEW answers, NEW field_key, NEW value, NEW decision
  PROVE  /\ Rests(g, auto_advance(g, s, answers))
         /\ Rests(g, engine_start(g))
         /\ Rests(g, engine_submit_answer(g, s, answers, field_key, value))
         /\ Rests(g, engine_resume_after_approval(g, s, answers, decision))
         /\ Rests(g, engine_resume_after_ticket_dispatch(g, s, answers))
<1>1. \A x, a : Rests(g, auto_advance(g, x, a))
  <2>1. SUFFICES ASSUME NEW x, NEW a PROVE Rests(g, auto_advance(g, x, a))
    OBVIOUS
  <2>2. \A last : Rests(g, Error("UnknownStep", last))
                  /\ Rests(g, Error("TooManySteps", last))
    BY DEF Rests, Error
  <2>3. \A last \in DOMAIN g.steps :
          g.steps[last].kind # "branch"
            => Rests(g, Result(last, OutcomeOf(g.steps[last])))
    BY DEF Rests, Result
  <2>. QED
    BY <2>2, <2>3 DEF auto_advance
<1>2. \A e \in EngineErrors : \A x : Rests(g, Error(e, x))
  BY DEF Rests, Error, EngineErrors
<1>. QED
  BY <1>1, <1>2, Zenon DEF engine_start, engine_submit_answer, EngineErrors,
     engine_resume_after_approval, engine_resume_after_ticket_dispatch

----------------------------------------------------------------------------
(* auto_advance's loop.  Visited is defined by recursion on the number of  *)
(* turns, so what it computes rests on the existence of such a function.   *)

\* The first n turns of a loop that starts at s and follows F.
Turns(F, s, n, h) ==
  /\ h[0] = s
  /\ \A m \in 1 .. n : h[m] = F[h[m - 1]]

\* A non-empty set of numbers has a least one.
LEMMA LeastNat ==
  ASSUME NEW T \in SUBSET Nat, T # {}
  PROVE  \E x \in T : \A y \in T : x <= y
<1>1. \E x \in T : \A y \in T : ~ (<<y, x>> \in OpToRel(<, Nat))
  BY NatLessThanWellFounded, WFMin
<1>2. \A x \in T, y \in T : y < x => <<y, x>> \in OpToRel(<, Nat)
  BY Zenon DEF OpToRel
<1>3. \E x \in T : \A y \in T : ~ (y < x)
  BY <1>1, <1>2, Zenon
<1>. QED
  BY <1>3, SMT

\* What holds of 0, and of n + 1 whenever it holds of n, holds of every
\* number: otherwise there is a least one it does not hold of.
LEMMA NatSteps ==
  ASSUME NEW T \in SUBSET Nat, 0 \in T, \A n \in T : n + 1 \in T
  PROVE  T = Nat
<1>. SUFFICES ASSUME Nat \ T # {} PROVE FALSE
  OBVIOUS
<1>1. PICK x \in Nat \ T : \A y \in Nat \ T : x <= y
  BY LeastNat
<1>2. x # 0 /\ x - 1 \in Nat
  BY <1>1
<1>3. x - 1 \in T
  BY <1>1, <1>2
<1>. QED
  BY <1>1, <1>2, <1>3

\* For every n there are n turns.
LEMMA TurnsExist ==
  ASSUME NEW S, NEW s \in S, NEW F \in [S -> S], NEW n \in Nat
  PROVE  \E h \in [0 .. n -> S] : Turns(F, s, n, h)
<1>. DEFINE T == {m \in Nat : \E h \in [0 .. m -> S] : Turns(F, s, m, h)}
<1>1. 0 \in T
  <2>1. [m \in 0 .. 0 |-> s] \in [0 .. 0 -> S]
    OBVIOUS
  <2>2. Turns(F, s, 0, [m \in 0 .. 0 |-> s])
    BY DEF Turns
  <2>. QED
    BY <2>1, <2>2
<1>2. ASSUME NEW m \in T PROVE m + 1 \in T
  <2>1. PICK h \in [0 .. m -> S] : Turns(F, s, m, h)
    BY <1>2
  <2>. DEFINE k == [x \in 0 .. (m + 1) |-> IF x = m + 1 THEN F[h[m]] ELSE h[x]]
  <2>2. m \in Nat
    OBVIOUS
  <2>3. k \in [0 .. (m + 1) -> S]
    BY <2>2
  <2>4. \A x \in 1 .. (m + 1) : k[x] = F[k[x - 1]]
    <3>. SUFFICES ASSUME NEW x \in 1 .. (m + 1) PROVE k[x] = F[k[x - 1]]
      OBVIOUS
    <3>1. x - 1 \in 0 .. m /\ k[x - 1] = h[x - 1]
      BY <2>2
    <3>2. CASE x = m + 1
      BY <2>2, <3>1, <3>2
    <3>3. CASE x # m + 1
      <4>1. x \in 1 .. m /\ k[x] = h[x]
        BY <2>2, <3>3
      <4>. QED
        BY <2>1, <3>1, <4>1 DEF Turns
    <3>. QED
      BY <3>2, <3>3
  <2>5. k[0] = s
    BY <2>1, <2>2 DEF Turns
  <2>6. Turns(F, s, m + 1, k)
    BY <2>4, <2>5 DEF Turns
  <2>. HIDE DEF k
  <2>. QED
    BY <2>2, <2>3, <2>6
<1>3. T \in SUBSET Nat
  OBVIOUS
<1>. HIDE DEF T
<1>4. T = Nat
  BY <1>1, <1>2, <1>3, NatSteps
<1>. QED
  BY <1>4 DEF T

\* Turns from the same step agree as far as both go.
LEMMA TurnsAgree ==
  ASSUME NEW S, NEW s \in S, NEW F \in [S -> S],
         NEW n \in Nat, NEW h, Turns(F, s, n, h),
         NEW m \in Nat, NEW k, Turns(F, s, m, k), n <= m
  PROVE  \A x \in 0 .. n : h[x] = k[x]
<1>. DEFINE T == {x \in Nat : x <= n => h[x] = k[x]}
<1>1. 0 \in T
  BY DEF Turns
<1>2. ASSUME NEW x \in T PROVE x + 1 \in T
  <2>1. x \in Nat /\ (x <= n => h[x] = k[x])
    OBVIOUS
  <2>2. CASE x + 1 <= n
    <3>1. x + 1 \in 1 .. n /\ x + 1 \in 1 .. m /\ (x + 1) - 1 = x /\ x <= n
      BY <2>1, <2>2
    <3>2. h[x + 1] = F[h[x]] /\ k[x + 1] = F[k[x]]
      BY <3>1 DEF Turns
    <3>. QED
      BY <2>1, <3>1, <3>2
  <2>3. CASE ~(x + 1 <= n)
    BY <2>1, <2>3
  <2>. QED
    BY <2>2, <2>3
<1>3. T \in SUBSET Nat
  OBVIOUS
<1>. HIDE DEF T
<1>4. T = Nat
  BY <1>1, <1>2, <1>3, NatSteps
<1>. QED
  BY <1>4 DEF T

\* So there is a function of all turns.
LEMMA LoopExists ==
  ASSUME NEW S, NEW s \in S, NEW F \in [S -> S]
  PROVE  \E f \in [Nat -> S] :
           /\ f[0] = s
           /\ \A n \in Nat \ {0} : f[n] = F[f[n - 1]]
<1>. DEFINE Some(n) == CHOOSE h \in [0 .. n -> S] : Turns(F, s, n, h)
            f == [n \in Nat |-> Some(n)[n]]
<1>1. \A n \in Nat : Some(n) \in [0 .. n -> S] /\ Turns(F, s, n, Some(n))
  BY TurnsExist
<1>. HIDE DEF Some
<1>2. f \in [Nat -> S]
  BY <1>1
<1>3. f[0] = s
  BY <1>1 DEF Turns
<1>4. ASSUME NEW n \in Nat \ {0}
      PROVE  f[n] = F[f[n - 1]]
  <2>1. n - 1 \in Nat /\ n - 1 <= n /\ n \in 1 .. n /\ n - 1 \in 0 .. (n - 1)
    OBVIOUS
  <2>2. Some(n)[n] = F[Some(n)[n - 1]]
    BY <1>1, <2>1 DEF Turns
  <2>3. Some(n - 1)[n - 1] = Some(n)[n - 1]
    BY <1>1, <2>1, TurnsAgree
  <2>. QED
    BY <2>1, <2>2, <2>3
<1>. QED
  BY <1>2, <1>3, <1>4

\* The loop goes from step to step by Follow, and never leaves a set of steps
\* that its turns do not leave.
LEMMA VisitedStays ==
  ASSUME NEW g, NEW answers, NEW A, NEW s \in A,
         \A x \in A : Follow(g, answers, x) \in A
  PROVE  /\ Visited(g, s, answers)[0] = s
         /\ \A n \in Nat :
              /\ Visited(g, s, answers)[n] \in A
              /\ Visited(g, s, answers)[n + 1]
                   = Follow(g, answers, Visited(g, s, answers)[n])
<1>. DEFINE F == [x \in A |-> Follow(g, answers, x)]
            IsLoop(v) ==
              v = [n \in Nat |-> IF n = 0 THEN s ELSE Follow(g, answers, v[n - 1])]
            v == CHOOSE v : IsLoop(v)
<1>1. F \in [A -> A]
  OBVIOUS
<1>2. \A x \in A : F[x] = Follow(g, answers, x)
  OBVIOUS
<1>. HIDE DEF F
<1>3. PICK f \in [Nat -> A] : /\ f[0] = s
                              /\ \A n \in Nat \ {0} : f[n] = F[f[n - 1]]
  BY <1>1, LoopExists
<1>4. IsLoop(f)
  <2>1. f = [n \in Nat |-> f[n]]
    BY <1>3
  <2>2. ASSUME NEW n \in Nat
        PROVE  f[n] = IF n = 0 THEN s ELSE Follow(g, answers, f[n - 1])
    <3>1. CASE n = 0
      BY <1>3, <3>1
    <3>2. CASE n # 0
      <4>1. n \in Nat \ {0} /\ n - 1 \in Nat
        BY <3>2
      <4>. QED
        BY <1>2, <1>3, <3>2, <4>1
    <3>. QED
      BY <3>1, <3>2
  <2>. QED
    BY <2>1, <2>2
<1>5. IsLoop(v)
  <2>. HIDE DEF IsLoop
  <2>. QED
    BY <1>4
<1>6. Visited(g, s, answers) = v
  BY DEF Visited
<1>. HIDE DEF v
<1>. DEFINE T == {n \in Nat : v[n] \in A}
<1>0. ASSUME NEW n \in Nat PROVE v[n + 1] = Follow(g, answers, v[n])
  <2>1. n + 1 \in Nat /\ n + 1 # 0 /\ (n + 1) - 1 = n
    OBVIOUS
  <2>. QED
    BY <1>5, <2>1
<1>7. v[0] = s /\ 0 \in T
  BY <1>5
<1>8. ASSUME NEW n \in T PROVE n + 1 \in T
  BY <1>0
<1>9. T \in SUBSET Nat
  OBVIOUS
<1>. HIDE DEF T
<1>10. T = Nat
  BY <1>7, <1>8, <1>9, NatSteps
<1>. QED
  BY <1>0, <1>6, <1>7, <1>10 DEF T

\* auto_advance stays inside a set of steps that branches do not lead out of.
LEMMA AdvanceStays ==
  ASSUME NEW g, NEW A, NEW s \in A, NEW answers,
         \A x \in A \cap DOMAIN g.steps :
           g.steps[x].kind = "branch" => Successors(g.steps[x]) \subseteq A
  PROVE  auto_advance(g, s, answers).step \in A
<1>1. ASSUME NEW x \in A PROVE Follow(g, answers, x) \in A
  <2>1. CASE HasKind(g, x, "branch")
    <3>1. x \in A \cap DOMAIN g.steps /\ g.steps[x].kind = "branch"
      BY <2>1 DEF HasKind
    <3>2. Successors(g.steps[x]) = {g.steps[x].on_true, g.steps[x].on_false}
      BY <3>1 DEF Successors
    <3>3. {g.steps[x].on_true, g.steps[x].on_false} \subseteq A
      BY <3>1, <3>2
    <3>. QED
      BY <2>1, <3>3 DEF Follow
  <2>2. CASE ~HasKind(g, x, "branch")
    BY <2>2 DEF Follow
  <2>. QED
    BY <2>1, <2>2
<1>. DEFINE last == Visited(g, s, answers)[MAX_AUTO_STEPS - 1]
<1>2. last \in A
  BY <1>1, VisitedStays, MaxAutoStepsAssumption
<1>. HIDE DEF last
<1>3. \/ auto_advance(g, s, answers) = Error("UnknownStep", last)
      \/ auto_advance(g, s, answers) = Error("TooManySteps", last)
      \/ auto_advance(g, s, answers) = Result(last, OutcomeOf(g.steps[last]))
  BY DEF auto_advance, last
<1>. QED
  BY <1>2, <1>3 DEF Error, Result

\* Started at a step that is no Branch, it stays there.
LEMMA AdvanceRests ==
  ASSUME NEW g, NEW s, NEW answers, ~HasKind(g, s, "branch")
  PROVE  auto_advance(g, s, answers) =
           IF s \in DOMAIN g.steps THEN Result(s, OutcomeOf(g.steps[s]))
                                   ELSE Error("UnknownStep", s)
<1>1. \A x \in {s} : Follow(g, answers, x) \in {s}
  BY DEF Follow
<1>2. MAX_AUTO_STEPS - 1 \in Nat
  BY MaxAutoStepsAssumption
<1>3. PICK A : A = {s}
  OBVIOUS
<1>4. s \in A /\ \A x \in A : Follow(g, answers, x) \in A
  BY <1>1, <1>3
<1>5. Visited(g, s, answers)[MAX_AUTO_STEPS - 1] \in A
  BY <1>2, <1>4, VisitedStays
<1>6. Visited(g, s, answers)[MAX_AUTO_STEPS - 1] = s
  BY <1>3, <1>5
<1>. QED
  BY <1>6 DEF auto_advance, HasKind

----------------------------------------------------------------------------
(* Why auto_advance gives up.                                              *)

\* Branches in a row, as many as one call of the engine visits.
BranchesInARow(g, chain) ==
  /\ \A n \in 1 .. MAX_AUTO_STEPS : HasKind(g, chain[n], "branch")
  /\ \A n \in 1 .. MAX_AUTO_STEPS - 1 : chain[n + 1] \in Successors(g.steps[chain[n]])

\* A turn of the loop at a Branch takes one of its edges.
LEMMA FollowsEdge ==
  ASSUME NEW g, NEW answers, NEW s, HasKind(g, s, "branch")
  PROVE  Follow(g, answers, s) \in Successors(g.steps[s])
<1>1. Successors(g.steps[s]) = {g.steps[s].on_true, g.steps[s].on_false}
  BY DEF HasKind, Successors
<1>. QED
  BY <1>1 DEF Follow

\* It gives up at a step the graph does not have, or after branches in a row.
LEMMA AdvanceErrs ==
  ASSUME NEW g, IsGraph(g), NEW s \in StepIds, NEW answers
  PROVE  /\ auto_advance(g, s, answers).err \in {"none", "UnknownStep", "TooManySteps"}
         /\ auto_advance(g, s, answers).err = "UnknownStep" =>
              \/ s \notin DOMAIN g.steps
              \/ \E x \in DOMAIN g.steps : ~(Successors(g.steps[x]) \subseteq DOMAIN g.steps)
         /\ auto_advance(g, s, answers).err = "TooManySteps" =>
              \E chain \in [1 .. MAX_AUTO_STEPS -> DOMAIN g.steps] : BranchesInARow(g, chain)
<1>. DEFINE v == Visited(g, s, answers)
            top == MAX_AUTO_STEPS - 1
            r == auto_advance(g, s, answers)
<1>1. top \in Nat /\ MAX_AUTO_STEPS \in Nat
  BY MaxAutoStepsAssumption
<1>2. /\ v[top] \notin DOMAIN g.steps => r.err = "UnknownStep"
      /\ HasKind(g, v[top], "branch") => r.err = "TooManySteps"
      /\ v[top] \in DOMAIN g.steps /\ ~HasKind(g, v[top], "branch") => r.err = "none"
  BY DEF auto_advance, Error, Result, HasKind
<1>3. \A x \in StepIds : Follow(g, answers, x) \in StepIds
  <2>. SUFFICES ASSUME NEW x \in StepIds PROVE Follow(g, answers, x) \in StepIds
    OBVIOUS
  <2>1. CASE HasKind(g, x, "branch")
    <3>1. Successors(g.steps[x]) \subseteq StepIds
      BY <2>1 DEF HasKind, IsGraph
    <3>. QED
      BY <2>1, <3>1, FollowsEdge
  <2>2. CASE ~HasKind(g, x, "branch")
    BY <2>2 DEF Follow
  <2>. QED
    BY <2>1, <2>2
<1>4. /\ v[0] = s
      /\ \A n \in Nat : v[n + 1] = Follow(g, answers, v[n])
  BY <1>3, VisitedStays
<1>5. ASSUME s \in DOMAIN g.steps,
             \A x \in DOMAIN g.steps : Successors(g.steps[x]) \subseteq DOMAIN g.steps
      PROVE  v[top] \in DOMAIN g.steps
  <2>1. PICK A : A = DOMAIN g.steps
    OBVIOUS
  <2>2. \A x \in A : Follow(g, answers, x) \in A
    <3>. SUFFICES ASSUME NEW x \in A PROVE Follow(g, answers, x) \in A
      OBVIOUS
    <3>1. CASE HasKind(g, x, "branch")
      BY <1>5, <2>1, <3>1, FollowsEdge
    <3>2. CASE ~HasKind(g, x, "branch")
      BY <3>2 DEF Follow
    <3>. QED
      BY <3>1, <3>2
  <2>3. v[top] \in A
    BY <1>1, <1>5, <2>1, <2>2, VisitedStays
  <2>. QED
    BY <2>1, <2>3
<1>6. ASSUME NEW n \in 0 .. top, HasKind(g, v[top], "branch")
      PROVE  HasKind(g, v[n], "branch")
  <2>. SUFFICES ASSUME ~HasKind(g, v[n], "branch") PROVE FALSE
    OBVIOUS
  <2>. DEFINE T == {k \in Nat : v[n + k] = v[n]}
  <2>0. n \in Nat
    BY <1>1
  <2>1. 0 \in T
    BY <2>0
  <2>2. ASSUME NEW k \in T PROVE k + 1 \in T
    <3>1. n + k \in Nat /\ n + (k + 1) = (n + k) + 1 /\ v[n + k] = v[n] /\ k + 1 \in Nat
      BY <2>0
    <3>2. v[(n + k) + 1] = Follow(g, answers, v[n + k])
      BY <1>4, <3>1
    <3>3. Follow(g, answers, v[n]) = v[n]
      BY DEF Follow
    <3>. QED
      BY <3>1, <3>2, <3>3
  <2>3. T \in SUBSET Nat
    OBVIOUS
  <2>4. T = Nat
    <3>. HIDE DEF T
    <3>. QED
      BY <2>1, <2>2, <2>3, NatSteps
  <2>5. top - n \in Nat /\ n + (top - n) = top
    BY <1>1, <2>0
  <2>6. v[n + (top - n)] = v[n]
    BY <2>4, <2>5
  <2>. QED
    BY <1>6, <2>5, <2>6
<1>7. ASSUME HasKind(g, v[top], "branch")
      PROVE  \E chain \in [1 .. MAX_AUTO_STEPS -> DOMAIN g.steps] : BranchesInARow(g, chain)
  <2>. DEFINE chain == [n \in 1 .. MAX_AUTO_STEPS |-> v[n - 1]]
  <2>1. \A n \in 1 .. MAX_AUTO_STEPS : n - 1 \in 0 .. top
    BY <1>1
  <2>2. \A n \in 1 .. MAX_AUTO_STEPS : HasKind(g, v[n - 1], "branch")
    BY <1>6, <1>7, <2>1
  <2>3. chain \in [1 .. MAX_AUTO_STEPS -> DOMAIN g.steps]
    BY <2>2 DEF HasKind
  <2>4. ASSUME NEW n \in 1 .. MAX_AUTO_STEPS - 1
        PROVE  chain[n + 1] \in Successors(g.steps[chain[n]])
    <3>1. /\ n \in 1 .. MAX_AUTO_STEPS /\ n + 1 \in 1 .. MAX_AUTO_STEPS
          /\ n - 1 \in Nat /\ (n - 1) + 1 = n /\ (n + 1) - 1 = n
      BY <1>1
    <3>2. chain[n] = v[n - 1] /\ chain[n + 1] = v[n]
      BY <3>1
    <3>3. v[n] = Follow(g, answers, v[n - 1])
      BY <1>4, <3>1
    <3>4. HasKind(g, v[n - 1], "branch")
      BY <2>2, <3>1
    <3>. QED
      BY <3>2, <3>3, <3>4, FollowsEdge
  <2>5. BranchesInARow(g, chain)
    BY <2>2, <2>4 DEF BranchesInARow
  <2>. HIDE DEF chain
  <2>. QED
    BY <2>3, <2>5
<1>. HIDE DEF v, r, top
<1>8. /\ r.err \in {"none", "UnknownStep", "TooManySteps"}
      /\ r.err = "UnknownStep" => v[top] \notin DOMAIN g.steps
      /\ r.err = "TooManySteps" => HasKind(g, v[top], "branch")
  BY <1>2
<1>. QED
  BY <1>5, <1>7, <1>8 DEF r


----------------------------------------------------------------------------
(* Conditions.  eval_condition is defined by recursion on the nesting of   *)
(* the condition, so what it computes rests on there being no circle.      *)

\* A node holds or not, and only its children matter.
LEMMA HoldsByChildren ==
  ASSUME NEW node, node.op \in ConditionOps, NEW answers, NEW h, NEW k,
         \A n \in Children(node) : h[n] = k[n]
  PROVE  /\ Holds(node, answers, h) \in BOOLEAN
         /\ Holds(node, answers, h) = Holds(node, answers, k)
<1>1. CASE node.op = "equals"
  BY <1>1 DEF Holds
<1>2. CASE node.op = "not_equals"
  BY <1>2 DEF Holds
<1>3. CASE node.op = "exists"
  BY <1>3 DEF Holds
<1>4. CASE node.op = "in"
  BY <1>4 DEF Holds
<1>5. CASE node.op = "and"
  <2>1. Children(node) = node.conditions
    BY <1>5 DEF Children
  <2>. QED
    BY <1>5, <2>1 DEF Holds
<1>6. CASE node.op = "or"
  <2>1. Children(node) = node.conditions
    BY <1>6 DEF Children
  <2>. QED
    BY <1>6, <2>1 DEF Holds
<1>7. CASE node.op = "not"
  <2>1. Children(node) = {node.condition}
    BY <1>7 DEF Children
  <2>. QED
    BY <1>7, <2>1 DEF Holds
<1>. QED
  BY <1>1, <1>2, <1>3, <1>4, <1>5, <1>6, <1>7 DEF ConditionOps

\* There is a function that says of every node whether it holds: evaluating all
\* nodes over and over, starting anywhere, a node of height n has its value
\* after n + 1 rounds and keeps it.
LEMMA HoldingExists ==
  ASSUME NEW g, IsNested(g), NEW answers
  PROVE  \E h \in [DOMAIN g.conditions -> BOOLEAN] :
           \A c \in DOMAIN g.conditions : h[c] = Holds(g.conditions[c], answers, h)
<1>. DEFINE D == DOMAIN g.conditions
<1>1. PICK height \in [D -> Nat] :
        \A c \in D :
          /\ g.conditions[c].op \in ConditionOps
          /\ \A n \in Children(g.conditions[c]) : n \in D /\ height[n] < height[c]
  <2>1. PICK n : n = Cardinality(D) /\ n \in Nat
    BY FS_CardinalityType DEF IsNested
  <2>2. PICK height \in [D -> 0 .. n] :
          \A c \in D :
            /\ g.conditions[c].op \in ConditionOps
            /\ \A m \in Children(g.conditions[c]) : m \in D /\ height[m] < height[c]
    BY <2>1 DEF IsNested
  <2>3. height \in [D -> Nat]
    BY <2>1, <2>2
  <2>. QED
    BY <2>2, <2>3
<1>2. PICK S : S = [D -> BOOLEAN]
  OBVIOUS
<1>3. PICK F \in [S -> S] :
        \A h \in S : \A c \in D : F[h][c] = Holds(g.conditions[c], answers, h)
  <2>1. \A h \in S : \A c \in D : Holds(g.conditions[c], answers, h) \in BOOLEAN
    BY <1>1, HoldsByChildren
  <2>2. PICK F : F = [h \in S |-> [c \in D |-> Holds(g.conditions[c], answers, h)]]
    OBVIOUS
  <2>3. F \in [S -> S]
    BY <1>2, <2>1, <2>2
  <2>. QED
    BY <2>2, <2>3
<1>4. PICK start \in S : TRUE
  <2>1. [c \in D |-> FALSE] \in S
    BY <1>2
  <2>. QED
    BY <2>1
<1>5. PICK f \in [Nat -> S] : /\ f[0] = start
                              /\ \A n \in Nat \ {0} : f[n] = F[f[n - 1]]
  <2>1. F \in [S -> S] /\ start \in S
    BY <1>3, <1>4
  <2>. QED
    BY <2>1, LoopExists, Z3
<1>6. ASSUME NEW n \in Nat, NEW c \in D
      PROVE  f[n + 1][c] = Holds(g.conditions[c], answers, f[n])
  <2>1. n + 1 \in Nat \ {0} /\ (n + 1) - 1 = n
    OBVIOUS
  <2>2. f[n + 1] = F[f[n]] /\ f[n] \in S
    BY <1>5, <2>1
  <2>. QED
    BY <1>3, <2>2
\* A node of height below n has in round n the value of the next round.
<1>. DEFINE T == {n \in Nat : \A c \in D : height[c] < n => f[n + 1][c] = f[n][c]}
<1>7. 0 \in T
  BY <1>1
<1>8. ASSUME NEW n \in T PROVE n + 1 \in T
  <2>. SUFFICES ASSUME NEW c \in D, height[c] < n + 1
                PROVE  f[(n + 1) + 1][c] = f[n + 1][c]
    OBVIOUS
  <2>1. n \in Nat /\ n + 1 \in Nat
    OBVIOUS
  <2>2. ASSUME NEW x \in Children(g.conditions[c])
        PROVE  f[n + 1][x] = f[n][x]
    <3>1. x \in D /\ height[x] < height[c]
      BY <1>1
    <3>2. height[x] < n
      <4>1. height[x] \in Nat /\ height[c] \in Nat
        BY <1>1, <3>1
      <4>. QED
        BY <2>1, <3>1, <4>1
    <3>. QED
      BY <3>1, <3>2
  <2>3. Holds(g.conditions[c], answers, f[n + 1]) = Holds(g.conditions[c], answers, f[n])
    BY <1>1, <2>2, HoldsByChildren
  <2>4. f[(n + 1) + 1][c] = Holds(g.conditions[c], answers, f[n + 1])
    BY <1>6, <2>1
  <2>5. f[n + 1][c] = Holds(g.conditions[c], answers, f[n])
    BY <1>6, <2>1
  <2>. QED
    BY <2>3, <2>4, <2>5
<1>9. T \in SUBSET Nat
  OBVIOUS
<1>10. \A n \in Nat : \A c \in D : height[c] < n => f[n + 1][c] = f[n][c]
  <2>. HIDE DEF T
  <2>1. T = Nat
    BY <1>7, <1>8, <1>9, NatSteps
  <2>. QED
    BY <2>1 DEF T
<1>. HIDE DEF T
\* So it keeps the value of the round after its height.
<1>11. ASSUME NEW c \in D
       PROVE  \A n \in Nat : height[c] < n => f[n][c] = f[height[c] + 1][c]
  <2>0. height[c] \in Nat
    BY <1>1
  <2>. DEFINE U == {n \in Nat : height[c] < n => f[n][c] = f[height[c] + 1][c]}
  <2>1. 0 \in U
    BY <2>0
  <2>2. ASSUME NEW n \in U PROVE n + 1 \in U
    <3>1. n \in Nat /\ n + 1 \in Nat
      OBVIOUS
    <3>2. CASE height[c] < n
      <4>1. f[n + 1][c] = f[n][c] /\ f[n][c] = f[height[c] + 1][c]
        BY <1>10, <3>1, <3>2
      <4>. QED
        BY <3>1, <4>1
    <3>3. CASE ~(height[c] < n)
      <4>1. height[c] < n + 1 => n + 1 = height[c] + 1
        BY <2>0, <3>1, <3>3
      <4>. QED
        BY <3>1, <4>1
    <3>. QED
      BY <3>2, <3>3
  <2>3. U \in SUBSET Nat
    OBVIOUS
  <2>. HIDE DEF U
  <2>4. U = Nat
    BY <2>1, <2>2, <2>3, NatSteps
  <2>. QED
    BY <2>4 DEF U
<1>12. PICK h : h = [c \in D |-> f[height[c] + 1][c]]
  OBVIOUS
<1>13. ASSUME NEW c \in D PROVE h[c] \in BOOLEAN
  <2>1. height[c] + 1 \in Nat
    BY <1>1
  <2>. QED
    BY <1>2, <1>5, <1>12, <2>1
<1>14. ASSUME NEW c \in D PROVE h[c] = Holds(g.conditions[c], answers, h)
  <2>0. height[c] \in Nat
    BY <1>1
  <2>1. h[c] = Holds(g.conditions[c], answers, f[height[c]])
    BY <1>6, <1>12, <2>0
  <2>2. ASSUME NEW x \in Children(g.conditions[c])
        PROVE  f[height[c]][x] = h[x]
    <3>1. x \in D /\ height[x] < height[c]
      BY <1>1
    <3>. QED
      BY <1>11, <1>12, <2>0, <3>1
  <2>. QED
    BY <1>1, <2>1, <2>2, HoldsByChildren
<1>15. h \in [D -> BOOLEAN]
  BY <1>12, <1>13
<1>. QED
  BY <1>14, <1>15

\* eval_condition is that function.
LEMMA ConditionIs ==
  ASSUME NEW g, IsNested(g), NEW answers
  PROVE  \E h \in [DOMAIN g.conditions -> BOOLEAN] :
           \A c \in DOMAIN g.conditions :
             /\ eval_condition(g, c, answers) = h[c]
             /\ h[c] = Holds(g.conditions[c], answers, h)
<1>. DEFINE D == DOMAIN g.conditions
            IsHolding(v) == v = [c \in D |-> Holds(g.conditions[c], answers, v)]
            v == CHOOSE v : IsHolding(v)
<1>1. PICK h \in [D -> BOOLEAN] :
        \A c \in D : h[c] = Holds(g.conditions[c], answers, h)
  BY HoldingExists
<1>2. IsHolding(h)
  <2>1. h = [c \in D |-> h[c]]
    BY <1>1
  <2>. QED
    BY <1>1, <2>1
<1>3. IsHolding(v)
  <2>. HIDE DEF IsHolding
  <2>. QED
    BY <1>2
<1>4. \A c : eval_condition(g, c, answers) = v[c]
  BY DEF eval_condition
<1>. HIDE DEF v
<1>5. \A c \in D : v[c] = Holds(g.conditions[c], answers, v)
  BY <1>3
<1>6. \A c \in D : Holds(g.conditions[c], answers, v) \in BOOLEAN
  <2>1. \A c \in D : g.conditions[c].op \in ConditionOps
    BY DEF IsNested
  <2>. QED
    BY <2>1, HoldsByChildren
<1>7. v \in [D -> BOOLEAN]
  BY <1>3, <1>6
<1>. QED
  BY <1>4, <1>5, <1>7
=============================================================================
