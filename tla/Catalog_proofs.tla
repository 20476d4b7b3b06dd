--------------------------- MODULE Catalog_proofs ---------------------------
(***************************************************************************)
(* What Catalog promises, proved for every starter catalog, any number of  *)
(* loads and whatever the bounds.                                          *)
(***************************************************************************)
EXTENDS Catalog, TLAPS

----------------------------------------------------------------------------
(* The inductive invariant.                                                *)

WorkPcs == {"publish", "item", "deactivate"}
Pcs == {"idle", "bootstrap_admin", "auto_seed", "settings", "list", "next", "done", "failed",
        "lost"} \cup WorkPcs

Locals ==
  [pc : Pcs, existing : SUBSET Slugs, at : 1 .. (Len(Seeds) + 1), workflow : Nat, item : Nat]

Typed ==
  /\ server \in {"down", "starting", "up"} /\ admin \in BOOLEAN
  /\ settings \in {"absent", "default", "changed"}
  /\ definitions \in Seq(WorkflowDefinition) /\ items \in Seq(ServiceCatalogItem)
  /\ \A i \in DOMAIN items : items[i].workflow \in DOMAIN definitions
  /\ edits \in 0 .. MaxEdits /\ losses \in 0 .. MaxLosses
  /\ task \in [Tasks -> Locals]

\* The server's tasks run while it is up, main() while it starts.
Served ==
  /\ server = "up" => settings # "absent"
  /\ server # "starting" => task[Boot] = Idle
  /\ server # "up" => \A r \in Requests : ~Running(r)
  /\ losses = 0 /\ server # "up" => \A r \in Requests : task[r].pc = "idle"

Shown(d) == definitions[d].published \/ definitions[d].withdrawn

\* A task works on rows of its own, which bear its seed's name and slug.
PlaceOf(t) ==
  LET x == task[t]
  IN /\ x.pc \in WorkPcs =>
          /\ x.at \in DOMAIN Seeds /\ x.workflow \in DOMAIN definitions
          /\ definitions[x.workflow].name = Seeds[x.at].slug
     /\ x.pc = "item" => Shown(x.workflow)
     /\ x.pc = "deactivate" =>
          /\ x.item \in DOMAIN items /\ items[x.item].slug = Seeds[x.at].slug
          /\ items[x.item].seeded /\ ~Seeds[x.at].published

Place == \A t \in Tasks : PlaceOf(t)

\* The seeds that a load has left behind are there: it created them or found
\* them.
LoadedOf(t) ==
  LET x == task[t]
  IN /\ x.pc \in {"next"} \cup WorkPcs =>
          /\ x.existing \subseteq SlugsOf(items)
          /\ \A n \in DOMAIN Seeds : n < x.at => Present(n)
     /\ x.pc = "done" => \A n \in DOMAIN Seeds : Present(n)

Loaded == \A t \in Tasks : LoadedOf(t)

\* A seeded item has a definition of its own name, which is shown.
Offered ==
  \A i \in DOMAIN items : items[i].seeded =>
    definitions[items[i].workflow].name = items[i].slug /\ Shown(items[i].workflow)

\* No two tasks work on the same seed.
Apart ==
  \A t, u \in Tasks :
    task[t].pc \in WorkPcs /\ task[u].pc \in WorkPcs /\ task[t].at = task[u].at => t = u

Taken(n) == NameTaken(Seeds[n].slug)

Calm ==
  /\ losses = 0 /\ AdminNames \cap Slugs = {}
  /\ \A i \in DOMAIN items : items[i].slug # None => items[i].seeded

\* A task has come to seed m and goes on from there.
Leads(t, m) ==
  \/ task[t].pc \in WorkPcs /\ task[t].at = m
  \/ task[t].pc = "next" /\ task[t].at = m + 1

\* The loads take the seeds one after the other.  The one that took the last
\* of them is still at work.
Frontier ==
  Calm => \E m \in 0 .. Len(Seeds) :
            /\ \A n \in DOMAIN Seeds : Taken(n) <=> n <= m
            /\ m = 0 \/ m = Len(Seeds) \/ \E t \in Tasks : Leads(t, m)

\* A load fails because another has taken the seed, and whoever takes a seed
\* completes it.
Settled ==
  Calm =>
    /\ \A r \in Requests : task[r].pc = "failed" => \E n \in DOMAIN Seeds : Taken(n)
    /\ \A t \in Tasks : task[t].pc \in {"publish", "item"} => ~SlugTaken(Seeds[task[t].at].slug)
    /\ \A n \in DOMAIN Seeds : Taken(n) =>
         Complete(n) \/ \E t \in Tasks : task[t].pc \in WorkPcs /\ task[t].at = n

CatalogInv == Typed /\ Served /\ Place /\ Loaded /\ Offered /\ Apart /\ Frontier /\ Settled

----------------------------------------------------------------------------
(* The seeds, the rows and the locals.                                     *)

LEMMA SeedsTyped ==
  /\ Len(Seeds) \in Nat /\ DOMAIN Seeds = 1 .. Len(Seeds)
  /\ \A n \in DOMAIN Seeds :
       Seeds[n].slug \in Slugs /\ Seeds[n].slug # None /\ Seeds[n].published \in BOOLEAN
  /\ \A m, n \in DOMAIN Seeds : Seeds[m].slug = Seeds[n].slug => m = n
<1>1. /\ Len(Seeds) \in Nat /\ DOMAIN Seeds = 1 .. Len(Seeds)
      /\ \A n \in DOMAIN Seeds : Seeds[n] \in [slug : Slugs, published : BOOLEAN]
      /\ None \notin Slugs
  <2> DEFINE S == [slug : Slugs, published : BOOLEAN]
  <2>1. Seeds \in Seq(S) /\ None \notin Slugs
    BY SeedsAssumption
  <2> HIDE DEF S
  <2>2. /\ Len(Seeds) \in Nat /\ DOMAIN Seeds = 1 .. Len(Seeds)
        /\ \A n \in DOMAIN Seeds : Seeds[n] \in S
    BY <2>1
  <2> QED  BY <2>1, <2>2 DEF S
<1>2. \A x \in [slug : Slugs, published : BOOLEAN] : x.slug \in Slugs /\ x.published \in BOOLEAN
  OBVIOUS
<1> QED  BY <1>1, <1>2, SeedsAssumption

LEMMA RowsTyped ==
  ASSUME Typed
  PROVE  /\ DOMAIN definitions = 1 .. Len(definitions) /\ Len(definitions) \in Nat
         /\ \A d \in DOMAIN definitions :
              /\ definitions[d] \in WorkflowDefinition
              /\ definitions[d].published \in BOOLEAN /\ definitions[d].withdrawn \in BOOLEAN
         /\ DOMAIN items = 1 .. Len(items) /\ Len(items) \in Nat
         /\ \A i \in DOMAIN items :
              /\ items[i] \in ServiceCatalogItem /\ items[i].slug \in Slugs \cup {None}
              /\ items[i].workflow \in DOMAIN definitions /\ items[i].active \in BOOLEAN
              /\ items[i].seeded \in BOOLEAN /\ items[i].touched \in BOOLEAN
<1>1. /\ DOMAIN definitions = 1 .. Len(definitions) /\ Len(definitions) \in Nat
      /\ \A d \in DOMAIN definitions : definitions[d] \in WorkflowDefinition
      /\ DOMAIN items = 1 .. Len(items) /\ Len(items) \in Nat
      /\ \A i \in DOMAIN items : items[i] \in ServiceCatalogItem
      /\ \A i \in DOMAIN items : items[i].workflow \in DOMAIN definitions
  BY DEF Typed
<1>2. \A x \in WorkflowDefinition : x.published \in BOOLEAN /\ x.withdrawn \in BOOLEAN
  BY DEF WorkflowDefinition
<1>3. \A x \in ServiceCatalogItem : /\ x.slug \in Slugs \cup {None} /\ x.active \in BOOLEAN
                                    /\ x.seeded \in BOOLEAN /\ x.touched \in BOOLEAN
  BY DEF ServiceCatalogItem
<1> QED  BY <1>1, <1>2, <1>3

LEMMA TasksTyped ==
  ASSUME Typed, NEW t \in Tasks
  PROVE  /\ task[t] \in Locals /\ task[t].pc \in Pcs /\ task[t].existing \subseteq Slugs
         /\ task[t].at \in Nat /\ task[t].at \in 1 .. (Len(Seeds) + 1)
         /\ task[t].workflow \in Nat /\ task[t].item \in Nat
<1>1. task[t] \in Locals
  BY DEF Typed
<1>2. \A x \in Locals : /\ x.pc \in Pcs /\ x.existing \subseteq Slugs /\ x.workflow \in Nat
                        /\ x.at \in 1 .. (Len(Seeds) + 1) /\ x.item \in Nat
  BY DEF Locals
<1> QED  BY <1>1, <1>2, SeedsTyped

LEMMA IdleTyped == Idle \in Locals /\ Idle.pc = "idle"
BY SeedsTyped DEF Idle, Locals, Pcs

\* Only task t moves, and how its locals change.
Moved(t) ==
  task' \in [Tasks -> Locals] /\ \A u \in Tasks \ {t} : task'[u] = task[u]

Moves(t, pc, existing, at, workflow, item) ==
  LET y == task'[t]
  IN /\ Moved(t)
     /\ y.pc = pc /\ y.existing = existing /\ y.at = at /\ y.workflow = workflow /\ y.item = item

LEMMA BecomeMoved ==
  ASSUME Typed, NEW t \in Tasks, NEW y \in Locals, Become(t, y)
  PROVE  Moved(t) /\ task'[t] = y
BY DEF Typed, Become, Moved

LEMMA BecomeMoves ==
  ASSUME Typed, NEW t \in Tasks, NEW y \in Locals, Become(t, y)
  PROVE  Moves(t, y.pc, y.existing, y.at, y.workflow, y.item)
BY BecomeMoved DEF Moves

LEMMA GotoMoves ==
  ASSUME Typed, NEW t \in Tasks, NEW p \in Pcs, Goto(t, p)
  PROVE  Moves(t, p, task[t].existing, task[t].at, task[t].workflow, task[t].item)
<1> DEFINE x == task[t]
           y == [x EXCEPT !.pc = p]
<1>1. x \in Locals
  BY TasksTyped
<1>2. /\ y \in Locals /\ y.pc = p /\ y.existing = x.existing /\ y.at = x.at
      /\ y.workflow = x.workflow /\ y.item = x.item
  <2> HIDE DEF x
  <2> QED  BY <1>1 DEF Locals
<1>3. Become(t, y)
  BY DEF Goto
<1> HIDE DEF y
<1>4. Moves(t, y.pc, y.existing, y.at, y.workflow, y.item)
  BY <1>2, <1>3, BecomeMoves
<1> QED  BY <1>2, <1>4

LEMMA ListMoves ==
  ASSUME Typed, NEW t \in Tasks, run_list(t)
  PROVE  Moves(t, "next", Existing, 1, task[t].workflow, task[t].item)
<1> DEFINE x == task[t]
           e == Existing
           n == 1
           y == [x EXCEPT !.existing = e, !.at = n, !.pc = "next"]
<1>1. x \in Locals /\ e \in SUBSET Slugs /\ n \in 1 .. (Len(Seeds) + 1)
  BY TasksTyped, RowsTyped, SeedsTyped DEF Existing, SlugsOf
<1>2. /\ y \in Locals /\ y.pc = "next" /\ y.existing = e /\ y.at = n
      /\ y.workflow = x.workflow /\ y.item = x.item
  <2> HIDE DEF x, e, n
  <2> QED  BY <1>1 DEF Locals, Pcs
<1>3. Become(t, y)
  BY DEF run_list
<1> HIDE DEF y
<1>4. Moves(t, y.pc, y.existing, y.at, y.workflow, y.item)
  BY <1>2, <1>3, BecomeMoves
<1> QED  BY <1>2, <1>4

LEMMA WorkflowMoves ==
  ASSUME Typed, NEW t \in Tasks, NEW n \in DOMAIN Seeds,
         Become(t, [task[t] EXCEPT !.pc = "publish", !.at = n, !.workflow = Len(definitions) + 1])
  PROVE  Moves(t, "publish", task[t].existing, n, Len(definitions) + 1, task[t].item)
<1> DEFINE x == task[t]
           d == Len(definitions) + 1
           y == [x EXCEPT !.pc = "publish", !.at = n, !.workflow = d]
<1>1. x \in Locals /\ d \in Nat /\ n \in 1 .. (Len(Seeds) + 1)
  BY TasksTyped, RowsTyped, SeedsTyped
<1>2. /\ y \in Locals /\ y.pc = "publish" /\ y.existing = x.existing /\ y.at = n
      /\ y.workflow = d /\ y.item = x.item
  <2> HIDE DEF x, d
  <2> QED  BY <1>1 DEF Locals, Pcs, WorkPcs
<1>3. Become(t, y)
  OBVIOUS
<1> HIDE DEF y
<1>4. Moves(t, y.pc, y.existing, y.at, y.workflow, y.item)
  BY <1>2, <1>3, BecomeMoves
<1> QED  BY <1>2, <1>4

\* The task goes on to the next seed.
LEMMA NextMoves ==
  ASSUME Typed, Place, NEW t \in Tasks, task[t].pc \in WorkPcs, NEW i \in Nat,
         Become(t, [task[t] EXCEPT !.pc = "next", !.at = @ + 1, !.item = i])
  PROVE  Moves(t, "next", task[t].existing, task[t].at + 1, task[t].workflow, i)
<1> DEFINE x == task[t]
           n == x.at + 1
           y == [x EXCEPT !.pc = "next", !.at = n, !.item = i]
<1>1. x \in Locals /\ n \in 1 .. (Len(Seeds) + 1)
  <2>1. x.at \in DOMAIN Seeds
    BY DEF Place, PlaceOf
  <2> QED  BY <2>1, TasksTyped, SeedsTyped
<1>2. /\ y \in Locals /\ y.pc = "next" /\ y.existing = x.existing /\ y.at = n
      /\ y.workflow = x.workflow /\ y.item = i
  <2> HIDE DEF x, n
  <2> QED  BY <1>1 DEF Locals, Pcs
<1>3. Become(t, y)
  OBVIOUS
<1> HIDE DEF y
<1>4. Moves(t, y.pc, y.existing, y.at, y.workflow, y.item)
  BY <1>2, <1>3, BecomeMoves
<1> QED  BY <1>2, <1>4

LEMMA ItemMoves ==
  ASSUME Typed, Place, NEW t \in Tasks, task[t].pc = "item", Become(t, AfterItem(t))
  PROVE  IF Seeds[task[t].at].published
         THEN Moves(t, "next", task[t].existing, task[t].at + 1, task[t].workflow, task[t].item)
         ELSE Moves(t, "deactivate", task[t].existing, task[t].at, task[t].workflow,
                    Len(items) + 1)
<1> DEFINE x == task[t]
           n == x.at + 1
           i == Len(items) + 1
           y == [x EXCEPT !.pc = "next", !.at = n]
           z == [x EXCEPT !.pc = "deactivate", !.item = i]
<1>1. x \in Locals /\ n \in 1 .. (Len(Seeds) + 1) /\ i \in Nat
  <2>1. x.at \in DOMAIN Seeds
    BY DEF Place, PlaceOf, WorkPcs
  <2> QED  BY <2>1, TasksTyped, SeedsTyped, RowsTyped
<1>2. /\ y \in Locals /\ y.pc = "next" /\ y.existing = x.existing /\ y.at = n
      /\ y.workflow = x.workflow /\ y.item = x.item
      /\ z \in Locals /\ z.pc = "deactivate" /\ z.existing = x.existing /\ z.at = x.at
      /\ z.workflow = x.workflow /\ z.item = i
  <2> HIDE DEF x, n, i
  <2> QED  BY <1>1 DEF Locals, Pcs, WorkPcs
<1>3. IF Seeds[x.at].published THEN Become(t, y) ELSE Become(t, z)
  BY DEF AfterItem
<1> HIDE DEF y, z
<1>4. CASE Seeds[x.at].published
  <2>1. Moves(t, y.pc, y.existing, y.at, y.workflow, y.item)
    BY <1>2, <1>3, <1>4, BecomeMoves
  <2> QED  BY <1>2, <1>4, <2>1
<1>5. CASE ~Seeds[x.at].published
  <2>1. Moves(t, z.pc, z.existing, z.at, z.workflow, z.item)
    BY <1>2, <1>3, <1>5, BecomeMoves
  <2> QED  BY <1>2, <1>5, <2>1
<1> QED  BY <1>4, <1>5


----------------------------------------------------------------------------
(* What the steps do to the rows.                                          *)

\* Definitions keep their name and, once shown, stay so.
KeepsDefinitions ==
  /\ definitions' \in Seq(WorkflowDefinition) /\ Len(definitions) <= Len(definitions')
  /\ \A d \in DOMAIN definitions :
       /\ d \in DOMAIN definitions' /\ definitions'[d].name = definitions[d].name
       /\ Shown(d) => Shown(d)'

AddsDefinition(name) ==
  /\ KeepsDefinitions
  /\ DOMAIN definitions' = DOMAIN definitions \cup {Len(definitions) + 1}
  /\ definitions'[Len(definitions) + 1].name = name

ShowsDefinition(d) ==
  /\ KeepsDefinitions /\ DOMAIN definitions' = DOMAIN definitions
  /\ \A e : e = d => Shown(e)'

\* Items keep their slug, their definition and their origin.
KeepsItems ==
  /\ items' \in Seq(ServiceCatalogItem) /\ Len(items) <= Len(items')
  /\ \A i \in DOMAIN items :
       /\ i \in DOMAIN items' /\ items'[i].slug = items[i].slug
       /\ items'[i].workflow = items[i].workflow /\ items'[i].seeded = items[i].seeded

AddsItem(slug, d, seeded) ==
  /\ KeepsItems /\ DOMAIN items' = DOMAIN items \cup {Len(items) + 1}
  /\ \A i \in DOMAIN items : items'[i] = items[i]
  /\ items'[Len(items) + 1] = NewItem(slug, d, seeded)

LEMMA RowChanged ==
  ASSUME NEW S, NEW rs \in Seq(S), NEW i \in DOMAIN rs, NEW y \in S
  PROVE  LET ts == [rs EXCEPT ![i] = y]
         IN /\ ts \in Seq(S) /\ Len(ts) = Len(rs) /\ DOMAIN ts = DOMAIN rs
            /\ \A j \in DOMAIN rs : ts[j] = IF j = i THEN y ELSE rs[j]
OBVIOUS

LEMMA RowAdded ==
  ASSUME NEW S, NEW rs \in Seq(S), NEW y \in S
  PROVE  LET ts == Append(rs, y)
         IN /\ ts \in Seq(S) /\ Len(ts) = Len(rs) + 1 /\ Len(rs) \in Nat
            /\ DOMAIN ts = DOMAIN rs \cup {Len(rs) + 1}
            /\ \A j \in DOMAIN rs : ts[j] = rs[j]
            /\ ts[Len(rs) + 1] = y
<1> DEFINE ts == Append(rs, y)
<1>1. /\ ts \in Seq(S) /\ Len(ts) = Len(rs) + 1 /\ Len(rs) \in Nat
      /\ DOMAIN rs = 1 .. Len(rs) /\ DOMAIN ts = 1 .. (Len(rs) + 1)
      /\ \A j \in DOMAIN rs : ts[j] = rs[j]
      /\ ts[Len(rs) + 1] = y
  OBVIOUS
<1> HIDE DEF ts
<1>2. DOMAIN ts = DOMAIN rs \cup {Len(rs) + 1}
  BY <1>1
<1> QED  BY <1>1, <1>2 DEF ts

LEMMA SameRows ==
  ASSUME Typed
  PROVE  (UNCHANGED definitions => KeepsDefinitions) /\ (UNCHANGED items => KeepsItems)
BY RowsTyped DEF Typed, KeepsDefinitions, KeepsItems, Shown

LEMMA DefinitionAdded ==
  ASSUME Typed, NEW name \in Slugs \cup AdminNames,
         definitions' = Append(definitions, NewDefinition(name))
  PROVE  AddsDefinition(name)
<1> DEFINE y == NewDefinition(name)
<1>1. y \in WorkflowDefinition /\ y.name = name
  BY DEF WorkflowDefinition, NewDefinition
<1> HIDE DEF y
<1>2. /\ definitions' \in Seq(WorkflowDefinition) /\ Len(definitions') = Len(definitions) + 1
      /\ DOMAIN definitions' = DOMAIN definitions \cup {Len(definitions) + 1}
      /\ \A d \in DOMAIN definitions : definitions'[d] = definitions[d]
      /\ definitions'[Len(definitions) + 1] = y /\ Len(definitions) \in Nat
  BY <1>1, RowAdded DEF Typed, y
<1> QED  BY <1>1, <1>2 DEF AddsDefinition, KeepsDefinitions, Shown

LEMMA DefinitionSet ==
  ASSUME Typed, NEW d \in DOMAIN definitions, NEW p \in BOOLEAN, NEW byAdmin \in BOOLEAN,
         p \/ byAdmin, set_published(d, p, byAdmin)
  PROVE  ShowsDefinition(d)
<1> DEFINE x == definitions[d]
           w == (x.withdrawn \/ (byAdmin /\ ~p))
           y == [x EXCEPT !.published = p, !.withdrawn = w]
<1>1. x \in WorkflowDefinition /\ w \in BOOLEAN
  BY RowsTyped
<1>2. y \in WorkflowDefinition /\ y.name = x.name /\ y.published = p /\ y.withdrawn = w
  <2> HIDE DEF x, w
  <2> QED  BY <1>1 DEF WorkflowDefinition
<1>3. y.published \/ y.withdrawn
  BY <1>2
<1>4. definitions' = [definitions EXCEPT ![d] = y]
  BY DEF set_published
<1> HIDE DEF y
<1>5. /\ definitions' \in Seq(WorkflowDefinition) /\ Len(definitions') = Len(definitions)
      /\ DOMAIN definitions' = DOMAIN definitions
      /\ \A e \in DOMAIN definitions : definitions'[e] = IF e = d THEN y ELSE definitions[e]
  BY <1>2, <1>4, RowChanged DEF Typed
<1> QED  BY <1>2, <1>3, <1>5, RowsTyped DEF ShowsDefinition, KeepsDefinitions, Shown

LEMMA ItemAdded ==
  ASSUME Typed, NEW slug \in Slugs \cup {None}, NEW d \in DOMAIN definitions,
         NEW seeded \in BOOLEAN, items' = Append(items, NewItem(slug, d, seeded))
  PROVE  AddsItem(slug, d, seeded)
<1> DEFINE y == NewItem(slug, d, seeded)
<1>1. y \in ServiceCatalogItem
  <2>1. d \in Nat \ {0}
    BY RowsTyped
  <2> QED  BY <2>1 DEF ServiceCatalogItem, NewItem
<1> HIDE DEF y
<1>2. /\ items' \in Seq(ServiceCatalogItem) /\ Len(items') = Len(items) + 1
      /\ DOMAIN items' = DOMAIN items \cup {Len(items) + 1} /\ Len(items) \in Nat
      /\ \A i \in DOMAIN items : items'[i] = items[i]
      /\ items'[Len(items) + 1] = y
  BY <1>1, RowAdded DEF Typed, y
<1> QED  BY <1>2 DEF AddsItem, KeepsItems, y

\* An item is edited, or deactivated by its load.
ChangesItem(i, active, touched) ==
  /\ KeepsItems /\ DOMAIN items' = DOMAIN items
  /\ \A j \in DOMAIN items : j # i => items'[j] = items[j]
  /\ items'[i].active = active /\ items'[i].touched = touched

LEMMA ItemChanged ==
  ASSUME Typed, NEW i \in DOMAIN items, NEW a \in BOOLEAN, NEW b \in BOOLEAN,
         items' = [items EXCEPT ![i] = [items[i] EXCEPT !.active = a, !.touched = b]]
  PROVE  ChangesItem(i, a, b)
<1> DEFINE x == items[i]
           y == [x EXCEPT !.active = a, !.touched = b]
<1>1. x \in ServiceCatalogItem
  BY RowsTyped
<1>2. /\ y \in ServiceCatalogItem /\ y.slug = x.slug /\ y.workflow = x.workflow
      /\ y.seeded = x.seeded /\ y.active = a /\ y.touched = b
  <2> HIDE DEF x
  <2> QED  BY <1>1 DEF ServiceCatalogItem
<1>3. items' = [items EXCEPT ![i] = y]
  OBVIOUS
<1> HIDE DEF y
<1>4. /\ items' \in Seq(ServiceCatalogItem) /\ Len(items') = Len(items)
      /\ DOMAIN items' = DOMAIN items
      /\ \A j \in DOMAIN items : items'[j] = IF j = i THEN y ELSE items[j]
  <2>1. y \in ServiceCatalogItem /\ items \in Seq(ServiceCatalogItem)
    BY <1>2 DEF Typed
  <2> QED  BY <1>3, <2>1, RowChanged
<1>5. /\ items'[i] = y /\ \A j \in DOMAIN items : j # i => items'[j] = items[j]
      /\ Len(items) <= Len(items')
  BY <1>4, RowsTyped
<1>6. KeepsItems
  BY <1>2, <1>4, <1>5 DEF KeepsItems
<1> QED  BY <1>2, <1>4, <1>5, <1>6 DEF ChangesItem

LEMMA ItemDeactivated ==
  ASSUME Typed, NEW t, run_deactivate(t), task[t].item \in DOMAIN items
  PROVE  ChangesItem(task[t].item, FALSE, items[task[t].item].touched)
<1> DEFINE i == task[t].item
           x == items[i]
           y == [x EXCEPT !.active = FALSE]
<1>1. x \in ServiceCatalogItem
  BY RowsTyped
<1>2. /\ y \in ServiceCatalogItem /\ y.slug = x.slug /\ y.workflow = x.workflow
      /\ y.seeded = x.seeded /\ y.active = FALSE /\ y.touched = x.touched
  <2> HIDE DEF x
  <2> QED  BY <1>1 DEF ServiceCatalogItem
<1>3. items' = [items EXCEPT ![i] = y]
  BY DEF run_deactivate
<1> HIDE DEF y, i
<1>4. /\ items' \in Seq(ServiceCatalogItem) /\ Len(items') = Len(items)
      /\ DOMAIN items' = DOMAIN items
      /\ \A j \in DOMAIN items : items'[j] = IF j = i THEN y ELSE items[j]
  <2>1. y \in ServiceCatalogItem /\ items \in Seq(ServiceCatalogItem) /\ i \in DOMAIN items
    BY <1>2 DEF Typed, i
  <2> QED  BY <1>3, <2>1, RowChanged
<1>5. /\ items'[i] = y /\ \A j \in DOMAIN items : j # i => items'[j] = items[j]
      /\ Len(items) <= Len(items')
  BY <1>4, RowsTyped DEF i
<1>6. KeepsItems
  BY <1>2, <1>4, <1>5 DEF KeepsItems
<1> QED  BY <1>2, <1>4, <1>5, <1>6 DEF ChangesItem, i


----------------------------------------------------------------------------
(* The steps, by what they do.                                             *)

StartPcs == {"idle", "bootstrap_admin", "auto_seed", "settings"}

\* main() outside of the seed.
Starts ==
  /\ UNCHANGED <<definitions, items, edits, losses>>
  /\ admin' \in BOOLEAN /\ settings' \in {"absent", "default", "changed"}
  /\ Moved(Boot) /\ task[Boot].pc \in StartPcs
  /\ task'[Boot].pc \in StartPcs \cup {"list"}
  /\ \/ server \in {"down", "starting"} /\ server' = "starting"
     \/ /\ server = "starting" /\ server' = "up"
        /\ task'[Boot] = Idle /\ settings' # "absent"

Lists(t) ==
  /\ UNCHANGED <<server, rows, edits, losses>>
  /\ task[t].pc = "list"
  /\ Moves(t, "next", Existing, 1, task[t].workflow, task[t].item)

Ends(t) ==
  /\ UNCHANGED <<server, rows, edits, losses>>
  /\ task[t].pc = "next" /\ Missing(t, task[t].at) = {}
  /\ Moved(t) /\ task'[t].pc = IF t = Boot THEN "settings" ELSE "done"

\* n is the next seed that task t does not skip.
IsNext(t, n) ==
  /\ task[t].pc = "next" /\ n \in Missing(t, task[t].at)
  /\ \A m \in Missing(t, task[t].at) : n <= m

Creates(t, n) ==
  /\ UNCHANGED <<server, admin, settings, items, edits, losses>>
  /\ IsNext(t, n) /\ ~Taken(n)
  /\ AddsDefinition(Seeds[n].slug)
  /\ Moves(t, "publish", task[t].existing, n, Len(definitions) + 1, task[t].item)

Fails(t) ==
  /\ UNCHANGED <<rows, edits, losses>>
  /\ \/ \E n \in DOMAIN Seeds : IsNext(t, n) /\ Taken(n)
     \/ task[t].pc = "item" /\ SlugTaken(Seeds[task[t].at].slug)
  /\ Moved(t)
  /\ \/ t = Boot /\ task'[t] = Idle /\ server' = "down"
     \/ t # Boot /\ task'[t].pc = "failed" /\ server' = server

Publishes(t) ==
  /\ UNCHANGED <<server, admin, settings, items, edits, losses>>
  /\ task[t].pc = "publish"
  /\ ShowsDefinition(task[t].workflow)
  /\ Moves(t, "item", task[t].existing, task[t].at, task[t].workflow, task[t].item)

Adds(t) ==
  /\ UNCHANGED <<server, admin, settings, definitions, edits, losses>>
  /\ task[t].pc = "item" /\ ~SlugTaken(Seeds[task[t].at].slug)
  /\ AddsItem(Seeds[task[t].at].slug, task[t].workflow, TRUE)
  /\ IF Seeds[task[t].at].published
     THEN Moves(t, "next", task[t].existing, task[t].at + 1, task[t].workflow, task[t].item)
     ELSE Moves(t, "deactivate", task[t].existing, task[t].at, task[t].workflow, Len(items) + 1)

Deactivates(t) ==
  /\ UNCHANGED <<server, admin, settings, definitions, edits, losses>>
  /\ task[t].pc = "deactivate"
  /\ ChangesItem(task[t].item, FALSE, items[task[t].item].touched)
  /\ Moves(t, "next", task[t].existing, task[t].at + 1, task[t].workflow, 0)

Loads(r) ==
  /\ UNCHANGED <<server, rows, edits, losses>>
  /\ server = "up" /\ task[r].pc = "idle"
  /\ Moved(r) /\ task'[r].pc = "list"

Drops(r) ==
  /\ UNCHANGED <<server, rows, edits>>
  /\ losses' = losses + 1 /\ losses' \in 0 .. MaxLosses
  /\ Moved(r) /\ task'[r].pc = "lost"

Kills ==
  /\ UNCHANGED <<rows, edits>>
  /\ server' = "down" /\ losses' = losses + 1 /\ losses' \in 0 .. MaxLosses
  /\ task' \in [Tasks -> Locals] /\ task'[Boot] = Idle
  /\ \A r \in Requests : ~Running(r)' /\ (task'[r] = task[r] \/ task'[r].pc = "lost")

\* What the admins edit: the rows that are new are theirs.
Edits ==
  /\ UNCHANGED <<server, admin, task, losses>>
  /\ server = "up" /\ edits' = edits + 1 /\ edits' \in 0 .. MaxEdits
  /\ settings' \in {settings, "changed"}
  /\ KeepsDefinitions /\ KeepsItems
  /\ \A d \in DOMAIN definitions' \ DOMAIN definitions : definitions'[d].name \in AdminNames
  /\ \A i \in DOMAIN items' \ DOMAIN items :
       ~items'[i].seeded /\ items'[i].workflow \in DOMAIN definitions'
  /\ \A i \in DOMAIN items : items'[i] = items[i] \/ items'[i].touched = TRUE

LEMMA StartSteps ==
  ASSUME Typed, Served, main \/ bootstrap_admin \/ auto_seed_catalog \/ seed_default
  PROVE  Starts
<1>0. /\ Boot \in Tasks /\ Idle \in Locals /\ Idle.pc = "idle"
      /\ task[Boot].pc # "idle" => server = "starting"
  BY IdleTyped DEF Tasks, Served, Typed
<1>1. \A p \in Pcs : Goto(Boot, p) => Moved(Boot) /\ task'[Boot].pc = p
  BY <1>0, GotoMoves DEF Moves
<1>2. Become(Boot, Idle) => Moved(Boot) /\ task'[Boot] = Idle
  BY <1>0, BecomeMoved
<1>3. CASE main
  <2> DEFINE y == [Idle EXCEPT !.pc = "bootstrap_admin"]
  <2>1. y \in Locals /\ y.pc = "bootstrap_admin"
    BY SeedsTyped DEF Idle, Locals, Pcs
  <2>2. Become(Boot, y)
    BY <1>3 DEF main
  <2> HIDE DEF y
  <2>3. Moved(Boot) /\ task'[Boot].pc = "bootstrap_admin"
    BY <1>0, <2>1, <2>2, BecomeMoved
  <2>4. /\ UNCHANGED <<definitions, items, edits, losses, admin, settings>>
        /\ server = "down" /\ server' = "starting"
    BY <1>3 DEF main, rows
  <2>5. task[Boot].pc = "idle"
    BY <1>0, <2>4 DEF Served
  <2> QED  BY <2>3, <2>4, <2>5 DEF Starts, StartPcs, Typed
<1>4. CASE bootstrap_admin
  <2>1. /\ UNCHANGED <<server, settings, definitions, items, edits, losses>>
        /\ admin' \in {admin, admin \/ Configured} /\ Goto(Boot, "auto_seed")
        /\ task[Boot].pc = "bootstrap_admin"
    BY <1>4 DEF bootstrap_admin
  <2>2. admin' \in BOOLEAN
    BY <2>1 DEF Typed
  <2> QED  BY <1>0, <1>1, <2>1, <2>2 DEF Starts, StartPcs, Typed, Pcs
<1>5. CASE auto_seed_catalog
  <2>1. /\ UNCHANGED <<server, admin, settings, definitions, items, edits, losses>>
        /\ Goto(Boot, "list") \/ Goto(Boot, "settings")
        /\ task[Boot].pc = "auto_seed"
    BY <1>5 DEF auto_seed_catalog, rows
  <2> QED  BY <1>0, <1>1, <2>1 DEF Starts, StartPcs, Typed, Pcs
<1>6. CASE seed_default
  <2>1. /\ UNCHANGED <<admin, definitions, items, edits, losses>>
        /\ Become(Boot, Idle) /\ server' = "up" /\ task[Boot].pc = "settings"
        /\ settings' = DefaultSettings
    BY <1>6 DEF seed_default
  <2>2. settings' \in {"default", "changed"}
    BY <2>1 DEF DefaultSettings, Typed
  <2> QED  BY <1>0, <1>2, <2>1, <2>2 DEF Starts, StartPcs, Typed
<1> QED  BY <1>3, <1>4, <1>5, <1>6


LEMMA FailSteps ==
  ASSUME Typed, NEW t \in Tasks, Fail(t), UNCHANGED <<rows, edits, losses>>,
         \/ \E n \in DOMAIN Seeds : IsNext(t, n) /\ Taken(n)
         \/ task[t].pc = "item" /\ SlugTaken(Seeds[task[t].at].slug)
  PROVE  Fails(t)
<1>1. CASE t = Boot
  <2>1. Become(t, Idle) /\ server' = "down"
    BY <1>1 DEF Fail
  <2>2. Moved(t) /\ task'[t] = Idle
    BY <2>1, IdleTyped, BecomeMoved
  <2> QED  BY <1>1, <2>1, <2>2 DEF Fails
<1>2. CASE t # Boot
  <2>1. Goto(t, "failed") /\ server' = server
    BY <1>2 DEF Fail
  <2>2. "failed" \in Pcs
    BY DEF Pcs
  <2>3. Moved(t) /\ task'[t].pc = "failed"
    BY <2>1, <2>2, GotoMoves DEF Moves
  <2> QED  BY <1>2, <2>1, <2>3 DEF Fails
<1> QED  BY <1>1, <1>2

LEMMA RunSteps ==
  ASSUME Typed, Place, NEW t \in Tasks, Run(t)
  PROVE  \/ Lists(t) \/ Ends(t) \/ (\E n \in DOMAIN Seeds : Creates(t, n)) \/ Fails(t)
         \/ Publishes(t) \/ Adds(t) \/ Deactivates(t)
<1> DEFINE x == task[t]
<1>a. \A p \in Pcs : Goto(t, p) => Moves(t, p, x.existing, x.at, x.workflow, x.item)
  BY GotoMoves
<1>b. PlaceOf(t)
  BY DEF Place
<1>1. CASE run_list(t)
  BY <1>1, ListMoves DEF run_list, Lists
<1>2. CASE run_end(t)
  <2>1. \/ t = Boot /\ Goto(t, "settings")
        \/ t # Boot /\ Goto(t, "done")
    BY <1>2 DEF run_end
  <2>2. Moved(t) /\ task'[t].pc = IF t = Boot THEN "settings" ELSE "done"
    BY <1>a, <2>1 DEF Pcs, Moves
  <2> QED  BY <1>2, <2>2 DEF run_end, Ends
<1>3. CASE run_workflow(t)
  <2>1. PICK n \in Missing(t, x.at) :
          /\ \A m \in Missing(t, x.at) : n <= m
          /\ \/ /\ NameTaken(Seeds[n].slug)
                /\ OnConflict(t, n)
                /\ UNCHANGED definitions
             \/ /\ ~NameTaken(Seeds[n].slug)
                /\ definitions' = Append(definitions, NewDefinition(Seeds[n].slug))
                /\ Become(t, [task[t] EXCEPT !.pc = "publish", !.at = n,
                                             !.workflow = Len(definitions) + 1])
                /\ UNCHANGED server
    BY <1>3 DEF run_workflow
  <2>2. x.pc = "next" /\ UNCHANGED <<admin, settings, items, edits, losses>>
    BY <1>3 DEF run_workflow
  <2>3. n \in DOMAIN Seeds /\ Seeds[n].slug \in Slugs
    BY SeedsTyped, TasksTyped DEF Missing
  <2>4. IsNext(t, n)
    BY <2>1, <2>2 DEF IsNext
  <2>5. CASE NameTaken(Seeds[n].slug)
    <3>1. Fail(t) /\ UNCHANGED <<rows, edits, losses>>
      BY <2>1, <2>2, <2>5 DEF OnConflict, rows
    <3> QED  BY <2>3, <2>4, <2>5, <3>1, FailSteps DEF Taken
  <2>6. CASE ~NameTaken(Seeds[n].slug)
    <3>1. AddsDefinition(Seeds[n].slug)
      BY <2>1, <2>3, <2>6, DefinitionAdded
    <3>2. Moves(t, "publish", x.existing, n, Len(definitions) + 1, x.item)
      BY <2>1, <2>3, <2>6, WorkflowMoves
    <3>3. UNCHANGED server
      BY <2>1, <2>6
    <3> QED  BY <2>2, <2>3, <2>4, <2>6, <3>1, <3>2, <3>3 DEF Creates, Taken
  <2> QED  BY <2>5, <2>6
<1>4. CASE run_publish(t)
  <2>1. /\ x.pc = "publish" /\ set_published(x.workflow, TRUE, FALSE) /\ Goto(t, "item")
        /\ UNCHANGED <<server, admin, settings, items, edits, losses>>
    BY <1>4 DEF run_publish
  <2>2. x.workflow \in DOMAIN definitions
    BY <1>b, <2>1 DEF PlaceOf, WorkPcs
  <2>3. ShowsDefinition(x.workflow)
    BY <2>1, <2>2, DefinitionSet
  <2> QED  BY <1>a, <2>1, <2>3 DEF Publishes, Pcs, WorkPcs
<1>5. CASE run_item(t)
  <2>1. /\ x.pc = "item" /\ UNCHANGED <<admin, settings, definitions, edits, losses>>
        /\ \/ /\ SlugTaken(Seeds[x.at].slug)
              /\ Fail(t) /\ UNCHANGED items
           \/ /\ ~SlugTaken(Seeds[x.at].slug)
              /\ items' = Append(items, NewItem(Seeds[x.at].slug, x.workflow, TRUE))
              /\ Become(t, AfterItem(t))
              /\ UNCHANGED server
    BY <1>5 DEF run_item, ItemConflict
  <2>2. CASE SlugTaken(Seeds[x.at].slug)
    <3>1. Fail(t) /\ UNCHANGED <<rows, edits, losses>>
      BY <2>1, <2>2 DEF rows
    <3> QED  BY <2>1, <2>2, <3>1, FailSteps
  <2>3. CASE ~SlugTaken(Seeds[x.at].slug)
    <3>1. x.workflow \in DOMAIN definitions /\ Seeds[x.at].slug \in Slugs
      BY <1>b, <2>1, SeedsTyped DEF PlaceOf, WorkPcs
    <3>2. AddsItem(Seeds[x.at].slug, x.workflow, TRUE)
      BY <2>1, <2>3, <3>1, ItemAdded
    <3> QED  BY <2>1, <2>3, <3>2, ItemMoves DEF Adds
  <2> QED  BY <2>2, <2>3
<1>6. CASE run_deactivate(t)
  <2>1. /\ x.pc = "deactivate" /\ UNCHANGED <<server, admin, settings, definitions, edits, losses>>
        /\ Become(t, [task[t] EXCEPT !.pc = "next", !.at = @ + 1, !.item = 0])
    BY <1>6 DEF run_deactivate
  <2>2. x.item \in DOMAIN items
    BY <1>b, <2>1 DEF PlaceOf
  <2>3. ChangesItem(x.item, FALSE, items[x.item].touched)
    BY <1>6, <2>2, ItemDeactivated
  <2>4. Moves(t, "next", x.existing, x.at + 1, x.workflow, 0)
    BY <2>1, NextMoves DEF WorkPcs
  <2> QED  BY <2>1, <2>3, <2>4 DEF Deactivates
<1> QED  BY <1>1, <1>2, <1>3, <1>4, <1>5, <1>6 DEF Run

LEMMA EditSteps ==
  ASSUME Typed, Administration
  PROVE  Edits
<1>1. Edit
  BY DEF Administration, create_workflow, publish, unpublish, create_by_form, create_by_api,
         create_item, toggle, deactivate, edit, update_item, update_settings
<1>2. /\ UNCHANGED <<server, admin, task, losses>>
      /\ server = "up" /\ edits' = edits + 1 /\ edits' \in 0 .. MaxEdits
  <2>1. /\ UNCHANGED <<server, admin, task, losses>>
        /\ server = "up" /\ edits' = edits + 1 /\ edits < MaxEdits
    BY <1>1 DEF Edit
  <2> QED  BY <2>1, SeedsAssumption DEF Typed
<1>0. /\ \A i \in DOMAIN items : items[i].workflow \in DOMAIN definitions
      /\ UNCHANGED definitions => KeepsDefinitions
      /\ UNCHANGED items => KeepsItems
  BY SameRows DEF Typed
<1>3. ASSUME NEW name \in AdminNames, create_workflow(name)
      PROVE  Edits
  <2>1. UNCHANGED <<settings, items>> /\ AddsDefinition(name)
    BY <1>3, DefinitionAdded DEF create_workflow
  <2> QED  BY <1>0, <1>2, <2>1 DEF Edits, AddsDefinition
<1>4. ASSUME NEW d \in DOMAIN definitions, publish(d) \/ unpublish(d)
      PROVE  Edits
  <2>1. UNCHANGED <<settings, items>> /\ ShowsDefinition(d)
    BY <1>4, DefinitionSet DEF publish, unpublish
  <2> QED  BY <1>0, <1>2, <2>1 DEF Edits, ShowsDefinition
<1>5. ASSUME NEW d \in DOMAIN definitions, NEW slug \in Slugs \cup {None}, create_item(slug, d)
      PROVE  Edits
  <2>1. UNCHANGED <<settings, definitions>> /\ AddsItem(slug, d, FALSE)
    BY <1>5, ItemAdded DEF create_item
  <2>2. \A i \in DOMAIN items' \ DOMAIN items : i = Len(items) + 1
    BY <2>1 DEF AddsItem
  <2>3. NewItem(slug, d, FALSE).workflow = d /\ NewItem(slug, d, FALSE).seeded = FALSE
    BY DEF NewItem
  <2>4. \A i \in DOMAIN items' \ DOMAIN items : ~items'[i].seeded /\ items'[i].workflow = d
    BY <2>1, <2>2, <2>3 DEF AddsItem
  <2> QED  BY <1>0, <1>2, <2>1, <2>4 DEF Edits, AddsItem
<1>6. ASSUME NEW i \in DOMAIN items, NEW a \in BOOLEAN, update_item(i, a)
      PROVE  Edits
  <2>1. UNCHANGED <<settings, definitions>> /\ ChangesItem(i, a, TRUE)
    BY <1>6, ItemChanged DEF update_item
  <2> QED  BY <1>0, <1>2, <2>1 DEF Edits, ChangesItem
<1>7. ASSUME update_settings
      PROVE  Edits
  <2>1. UNCHANGED <<definitions, items>> /\ settings' = "changed"
    BY <1>7 DEF update_settings
  <2> QED  BY <1>0, <1>2, <2>1 DEF Edits
<1>8. ASSUME NEW d \in DOMAIN definitions,
             create_by_form(d) \/ \E slug \in AdminSlugs : create_by_api(slug, d)
      PROVE  Edits
  BY <1>5, <1>8, SeedsAssumption DEF create_by_form, create_by_api
<1>9. ASSUME NEW i \in DOMAIN items,
             toggle(i) \/ deactivate(i) \/ \E active \in BOOLEAN : edit(i, active)
      PROVE  Edits
  BY <1>6, <1>9, RowsTyped DEF toggle, deactivate, edit
<1> QED  BY <1>3, <1>4, <1>7, <1>8, <1>9 DEF Administration

LEMMA LossSteps ==
  ASSUME Typed
  PROVE  /\ Kill => Kills
         /\ \A r \in Requests : Drop(r) => Drops(r)
         /\ \A r \in Requests : load_starter(r) => Loads(r)
<1>0. \A r \in Requests : r \in Tasks /\ r # Boot
  BY SeedsAssumption DEF Tasks
<1>1. \A t \in Tasks : Lost(t) \in Locals /\ Lost(t).pc = "lost"
  <2> SUFFICES ASSUME NEW t \in Tasks PROVE Lost(t) \in Locals /\ Lost(t).pc = "lost"
    OBVIOUS
  <2> DEFINE x == task[t]
  <2>1. x \in Locals /\ Lost(t) = [x EXCEPT !.pc = "lost"]
    BY TasksTyped DEF Lost
  <2> HIDE DEF x
  <2> QED  BY <2>1 DEF Locals, Pcs
<1>2. losses < MaxLosses => losses + 1 \in 0 .. MaxLosses
  BY SeedsAssumption DEF Typed
<1>3. ASSUME Kill
      PROVE  Kills
  <2>1. \A t \in Tasks :
          task'[t] = IF t = Boot THEN Idle ELSE IF Running(t) THEN Lost(t) ELSE task[t]
    BY <1>3 DEF Kill
  <2>2. task' = [t \in Tasks |-> task'[t]]
    BY <1>3 DEF Kill
  <2>3. task' \in [Tasks -> Locals]
    BY <1>1, <2>1, <2>2, IdleTyped, TasksTyped
  <2>4. \A r \in Requests : ~Running(r)' /\ (task'[r] = task[r] \/ task'[r].pc = "lost")
    BY <1>0, <1>1, <2>1 DEF Running
  <2>5. task'[Boot] = Idle
    BY <2>1 DEF Tasks
  <2> QED  BY <1>2, <1>3, <2>3, <2>4, <2>5 DEF Kill, Kills
<1>4. ASSUME NEW r \in Requests, Drop(r)
      PROVE  Drops(r)
  <2>1. Moved(r) /\ task'[r].pc = "lost"
    BY <1>0, <1>1, <1>4, BecomeMoved DEF Drop
  <2> QED  BY <1>2, <1>4, <2>1 DEF Drop, Drops
<1>5. ASSUME NEW r \in Requests, load_starter(r)
      PROVE  Loads(r)
  <2>1. Moved(r) /\ task'[r].pc = "list"
    BY <1>0, <1>5, GotoMoves DEF load_starter, Moves, Pcs
  <2> QED  BY <1>5, <2>1 DEF load_starter, Loads
<1> QED  BY <1>3, <1>4, <1>5

LEMMA Steps ==
  ASSUME Typed, Served, Place, [Next]_vars
  PROVE  \/ Starts \/ Kills \/ Edits \/ UNCHANGED vars
         \/ \E t \in Tasks :
              \/ Lists(t) \/ Ends(t) \/ (\E n \in DOMAIN Seeds : Creates(t, n)) \/ Fails(t)
              \/ Publishes(t) \/ Adds(t) \/ Deactivates(t)
         \/ \E r \in Requests : Loads(r) \/ Drops(r)
<1>1. Boot \in Tasks /\ \A r \in Requests : r \in Tasks
  BY DEF Tasks
<1> QED  BY <1>1, StartSteps, RunSteps, EditSteps, LossSteps DEF Next, Starting


----------------------------------------------------------------------------
(* Every step keeps the invariant.                                         *)

\* A step of a task's own, by the task t.
TaskStep(t) ==
  \/ Lists(t) \/ Ends(t) \/ (\E n \in DOMAIN Seeds : Creates(t, n)) \/ Fails(t)
  \/ Publishes(t) \/ Adds(t) \/ Deactivates(t)

\* Only an edit moves no task.
LEMMA OthersStay ==
  ASSUME Typed, Served, Place, [Next]_vars
  PROVE  /\ task' \in [Tasks -> Locals]
         /\ \A t \in Tasks : TaskStep(t) => Moved(t)
         /\ Starts => Moved(Boot)
         /\ \A r \in Requests : Loads(r) \/ Drops(r) => Moved(r)
<1>1. ASSUME NEW t \in Tasks, TaskStep(t)
      PROVE  Moved(t)
  BY <1>1 DEF TaskStep, Lists, Ends, Creates, Fails, Publishes, Adds, Deactivates, Moves
<1>2. ASSUME NEW r \in Requests, Loads(r) \/ Drops(r)
      PROVE  Moved(r)
  BY <1>2 DEF Loads, Drops
<1>3. Starts => Moved(Boot)
  BY DEF Starts
<1>4. UNCHANGED task => task' \in [Tasks -> Locals]
  BY DEF Typed
<1> QED  BY <1>1, <1>2, <1>3, <1>4, Steps DEF TaskStep, Moved, Kills, Edits, vars

LEMMA RowsStay ==
  ASSUME Typed, Served, Place, [Next]_vars
  PROVE  /\ KeepsDefinitions /\ KeepsItems
         /\ SlugsOf(items) \subseteq SlugsOf(items)'
         /\ \A n \in DOMAIN Seeds : Present(n) => Present(n)'
<1>0. (UNCHANGED definitions => KeepsDefinitions) /\ (UNCHANGED items => KeepsItems)
  BY SameRows
<1>1. KeepsDefinitions /\ KeepsItems
  <2>1. ASSUME NEW t \in Tasks, TaskStep(t)
        PROVE  KeepsDefinitions /\ KeepsItems
    BY <1>0, <2>1 DEF TaskStep, Lists, Ends, Creates, Fails, Publishes, Adds, Deactivates, rows,
                      AddsDefinition, ShowsDefinition, AddsItem, ChangesItem
  <2>2. ASSUME NEW r \in Requests, Loads(r) \/ Drops(r)
        PROVE  KeepsDefinitions /\ KeepsItems
    BY <1>0, <2>2 DEF Loads, Drops, rows
  <2>3. Starts \/ Kills \/ Edits \/ UNCHANGED vars => KeepsDefinitions /\ KeepsItems
    BY <1>0 DEF Starts, Kills, Edits, vars, rows
  <2> QED  BY <2>1, <2>2, <2>3, Steps DEF TaskStep
<1>2. SlugsOf(items) \subseteq SlugsOf(items)'
  BY <1>1 DEF KeepsItems, SlugsOf
<1> QED  BY <1>1, <1>2 DEF Present

LEMMA TypedStep ==
  ASSUME Typed, Served, Place, [Next]_vars
  PROVE  Typed'
<1>0. /\ task' \in [Tasks -> Locals]
      /\ definitions' \in Seq(WorkflowDefinition) /\ items' \in Seq(ServiceCatalogItem)
  BY OthersStay, RowsStay DEF KeepsDefinitions, KeepsItems
<1>1. \A i \in DOMAIN items' : items'[i].workflow \in DOMAIN definitions'
  <2>1. \A i \in DOMAIN items : items'[i].workflow \in DOMAIN definitions'
    BY RowsStay, RowsTyped DEF KeepsDefinitions, KeepsItems
  <2>2. ASSUME NEW i \in DOMAIN items' \ DOMAIN items
        PROVE  items'[i].workflow \in DOMAIN definitions'
    <3>1. ASSUME NEW t \in Tasks, Adds(t)
          PROVE  items'[i].workflow \in DOMAIN definitions'
      <4>1. /\ items'[i] = NewItem(Seeds[task[t].at].slug, task[t].workflow, TRUE)
            /\ UNCHANGED definitions
        BY <2>2, <3>1 DEF Adds, AddsItem
      <4>2. items'[i].workflow = task[t].workflow
        BY <4>1 DEF NewItem
      <4>3. task[t].workflow \in DOMAIN definitions
        BY <3>1 DEF Adds, Place, PlaceOf, WorkPcs
      <4> QED  BY <4>1, <4>2, <4>3
    <3>2. ASSUME NEW t \in Tasks, TaskStep(t), ~Adds(t)
          PROVE  DOMAIN items' = DOMAIN items
      BY <3>2 DEF TaskStep, Lists, Ends, Creates, Fails, Publishes, Deactivates, rows, ChangesItem
    <3>3. Edits => items'[i].workflow \in DOMAIN definitions'
      BY <2>2 DEF Edits
    <3>4. Starts \/ Kills \/ (UNCHANGED vars) \/ (\E r \in Requests : Loads(r) \/ Drops(r))
            => UNCHANGED items
      BY DEF Starts, Kills, vars, rows, Loads, Drops
    <3> QED  BY <2>2, <3>1, <3>2, <3>3, <3>4, Steps DEF TaskStep
  <2> QED  BY <2>1, <2>2
<1>2. /\ server' \in {"down", "starting", "up"} /\ admin' \in BOOLEAN
      /\ settings' \in {"absent", "default", "changed"}
      /\ edits' \in 0 .. MaxEdits /\ losses' \in 0 .. MaxLosses
  <2>0. UNCHANGED <<server, admin, settings, edits, losses>> =>
          /\ server' \in {"down", "starting", "up"} /\ admin' \in BOOLEAN
          /\ settings' \in {"absent", "default", "changed"}
          /\ edits' \in 0 .. MaxEdits /\ losses' \in 0 .. MaxLosses
    BY DEF Typed
  <2>1. ASSUME NEW t \in Tasks, TaskStep(t)
        PROVE  UNCHANGED <<admin, settings, edits, losses>> /\ server' \in {server, "down"}
    BY <2>1 DEF TaskStep, Lists, Ends, Creates, Fails, Publishes, Adds, Deactivates, rows
  <2>2. ASSUME NEW r \in Requests, Loads(r)
        PROVE  UNCHANGED <<server, admin, settings, edits, losses>>
    BY <2>2 DEF Loads, rows
  <2>3. ASSUME NEW r \in Requests, Drops(r)
        PROVE  UNCHANGED <<server, admin, settings, edits>> /\ losses' \in 0 .. MaxLosses
    BY <2>3 DEF Drops, rows
  <2>4. CASE Starts
    BY <2>4 DEF Starts, Typed
  <2>5. CASE Kills
    BY <2>5 DEF Kills, Typed, rows
  <2>6. CASE Edits
    BY <2>6 DEF Edits, Typed
  <2>7. CASE UNCHANGED vars
    BY <2>0, <2>7 DEF vars
  <2> QED  BY <2>1, <2>2, <2>3, <2>4, <2>5, <2>6, <2>7, Steps DEF TaskStep, Typed
<1> QED  BY <1>0, <1>1, <1>2 DEF Typed

LEMMA ServedStep ==
  ASSUME Typed, Served, Place, [Next]_vars
  PROVE  Served'
<1>0. /\ Boot \in Tasks /\ \A r \in Requests : r \in Tasks \ {Boot}
      /\ Idle.pc = "idle" /\ losses \in Nat
  BY SeedsAssumption, IdleTyped DEF Tasks, Typed
<1>1. CASE Starts
  <2>1. \A r \in Requests : task'[r] = task[r]
    BY <1>0, <1>1 DEF Starts, Moved
  <2> QED  BY <1>0, <1>1, <2>1 DEF Starts, Served, Running
<1>2. CASE Kills
  <2>1. losses' # 0
    BY <1>0, <1>2 DEF Kills
  <2> QED  BY <1>2, <2>1 DEF Kills, Served
<1>3. CASE Edits
  BY <1>3 DEF Edits, Served, Running
<1>4. CASE UNCHANGED vars
  BY <1>4 DEF vars, Served, Running
<1>5. ASSUME NEW r \in Requests, Loads(r) \/ Drops(r)
      PROVE  Served'
  <2>1. UNCHANGED <<server, settings>> /\ (Loads(r) => server = "up")
    BY <1>5 DEF Loads, Drops, rows
  <2>2. \A t \in Tasks \ {r} : task'[t] = task[t]
    BY <1>5 DEF Loads, Drops, Moved
  <2>3. Drops(r) => losses' # 0 /\ task'[r].pc = "lost"
    BY <1>0 DEF Drops
  <2> QED  BY <1>0, <1>5, <2>1, <2>2, <2>3 DEF Served, Running
<1>6. ASSUME NEW t \in Tasks, TaskStep(t)
      PROVE  Served'
  <2>1. /\ UNCHANGED <<settings, losses>> /\ Running(t)
        /\ \A u \in Tasks \ {t} : task'[u] = task[u]
    BY <1>6 DEF TaskStep, Lists, Ends, Creates, Fails, Publishes, Adds, Deactivates, rows, Moves,
                Moved, Running, IsNext
  <2>2. CASE t = Boot
    <3>1. server = "starting"
      BY <1>0, <2>1, <2>2 DEF Served, Running
    <3>2. server' = server \/ (server' = "down" /\ task'[Boot] = Idle)
      BY <1>6, <2>2 DEF TaskStep, Lists, Ends, Creates, Fails, Publishes, Adds, Deactivates
    <3> QED  BY <1>0, <2>1, <2>2, <3>1, <3>2 DEF Served, Running
  <2>3. CASE t # Boot
    <3>1. server = "up" /\ t \in Requests
      BY <2>1, <2>3 DEF Served, Tasks
    <3>2. server' = server
      BY <1>6, <2>3 DEF TaskStep, Lists, Ends, Creates, Fails, Publishes, Adds, Deactivates
    <3> QED  BY <1>0, <2>1, <2>3, <3>1, <3>2 DEF Served
  <2> QED  BY <2>2, <2>3
<1> QED  BY <1>1, <1>2, <1>3, <1>4, <1>5, <1>6, Steps DEF TaskStep


\* Which task has moved, if any.
LEMMA Movers ==
  ASSUME Typed, Served, Place, [Next]_vars, NEW u \in Tasks
  PROVE  \/ task'[u] = task[u]
         \/ TaskStep(u)
         \/ /\ task'[u].pc \in StartPcs \cup {"list", "lost"}
            /\ task[u].pc \in StartPcs \/ losses' # 0
<1>0. losses \in Nat
  BY DEF Typed
<1>1. ASSUME NEW t \in Tasks, TaskStep(t)
      PROVE  task'[u] = task[u] \/ TaskStep(u)
  BY <1>1, OthersStay DEF Moved
<1>2. ASSUME NEW r \in Requests, Loads(r) \/ Drops(r)
      PROVE  \/ task'[u] = task[u]
             \/ /\ task'[u].pc \in {"list", "lost"}
                /\ task[u].pc = "idle" \/ losses' # 0
  <2>1. Drops(r) => losses' # 0
    BY <1>0 DEF Drops
  <2> QED  BY <1>2, <2>1 DEF Loads, Drops, Moved
<1>3. CASE Starts
  BY <1>3 DEF Starts, Moved
<1>4. CASE Kills
  <2>1. losses' # 0
    BY <1>0, <1>4 DEF Kills
  <2> QED  BY <1>4, <2>1, IdleTyped DEF Kills, Tasks, StartPcs
<1>5. CASE Edits \/ UNCHANGED vars
  BY <1>5 DEF Edits, vars
<1> QED  BY <1>1, <1>2, <1>3, <1>4, <1>5, Steps DEF TaskStep, StartPcs

LEMMA PlaceStep ==
  ASSUME Typed, Served, Place, [Next]_vars
  PROVE  Place'
<1> SUFFICES ASSUME NEW t \in Tasks PROVE PlaceOf(t)'
  BY DEF Place
<1>0. /\ PlaceOf(t)
      /\ \A d \in DOMAIN definitions :
           /\ d \in DOMAIN definitions' /\ definitions'[d].name = definitions[d].name
           /\ Shown(d) => Shown(d)'
      /\ \A i \in DOMAIN items :
           /\ i \in DOMAIN items' /\ items'[i].slug = items[i].slug
           /\ items'[i].seeded = items[i].seeded
  BY RowsStay DEF Place, KeepsDefinitions, KeepsItems
<1>1. CASE task'[t] = task[t]
  <2>1. \A d : task[t].pc = "item" /\ d = task[t].workflow => Shown(d)'
    BY <1>0 DEF PlaceOf, WorkPcs
  <2>2. task'[t].pc = "item" => Shown(task[t].workflow)'
    BY <1>1, <2>1 DEF Shown
  <2> QED  BY <1>0, <1>1, <2>2 DEF PlaceOf, Shown
<1>2. CASE task'[t].pc \notin WorkPcs
  BY <1>2 DEF PlaceOf, WorkPcs
<1>3. ASSUME NEW n \in DOMAIN Seeds, Creates(t, n)
      PROVE  PlaceOf(t)'
  BY <1>3 DEF Creates, Moves, AddsDefinition, PlaceOf
<1>4. CASE Publishes(t)
  <2>1. /\ task'[t].pc = "item" /\ task'[t].at = task[t].at /\ task'[t].workflow = task[t].workflow
        /\ ShowsDefinition(task[t].workflow) /\ task[t].pc = "publish"
    BY <1>4 DEF Publishes, Moves
  <2>2. Shown(task[t].workflow)'
    BY <2>1 DEF ShowsDefinition, Shown
  <2> QED  BY <1>0, <2>1, <2>2 DEF PlaceOf, WorkPcs, Shown
<1>5. CASE Adds(t)
  <2>1. CASE Seeds[task[t].at].published
    <3>1. task'[t].pc = "next"
      BY <1>5, <2>1 DEF Adds, Moves
    <3> QED  BY <3>1 DEF PlaceOf, WorkPcs
  <2>2. CASE ~Seeds[task[t].at].published
    <3>1. /\ task'[t].pc = "deactivate" /\ task'[t].at = task[t].at
          /\ task'[t].workflow = task[t].workflow /\ task'[t].item = Len(items) + 1
          /\ task[t].pc = "item" /\ Len(items) + 1 \in DOMAIN items'
          /\ items'[Len(items) + 1] = NewItem(Seeds[task[t].at].slug, task[t].workflow, TRUE)
      BY <1>5, <2>2 DEF Adds, Moves, AddsItem
    <3>2. /\ items'[Len(items) + 1].slug = Seeds[task[t].at].slug
          /\ items'[Len(items) + 1].seeded
      BY <3>1 DEF NewItem
    <3> QED  BY <1>0, <2>2, <3>1, <3>2 DEF PlaceOf, WorkPcs
  <2> QED  BY <2>1, <2>2
<1>6. CASE Lists(t) \/ Ends(t) \/ Deactivates(t) \/ Fails(t)
  <2>1. task'[t].pc \notin WorkPcs
    BY <1>6, IdleTyped DEF Lists, Ends, Deactivates, Fails, Moves, WorkPcs
  <2> QED  BY <1>2, <2>1
<1> QED  BY <1>1, <1>2, <1>3, <1>4, <1>5, <1>6, Movers DEF TaskStep, WorkPcs, StartPcs

\* The seeds before the one that a load turns to are there.
LEMMA BehindPresent ==
  ASSUME Typed, Loaded, NEW t \in Tasks, NEW n \in DOMAIN Seeds, IsNext(t, n),
         NEW m \in DOMAIN Seeds, m < n
  PROVE  Present(m)
<1>0. /\ LoadedOf(t) /\ task[t].pc = "next" /\ task[t].at \in Nat
      /\ Len(Seeds) \in Nat /\ DOMAIN Seeds = 1 .. Len(Seeds)
  BY SeedsTyped, TasksTyped DEF Loaded, IsNext
<1>1. CASE m < task[t].at
  BY <1>0, <1>1 DEF LoadedOf
<1>2. CASE Seeds[m].slug \in task[t].existing
  BY <1>0, <1>2 DEF LoadedOf, Present
<1>3. CASE ~(m < task[t].at) /\ Seeds[m].slug \notin task[t].existing
  <2>1. m \in Missing(t, task[t].at)
    BY <1>0, <1>3 DEF Missing
  <2>2. n <= m
    BY <2>1 DEF IsNext
  <2> QED  BY <1>0, <2>2
<1> QED  BY <1>1, <1>2, <1>3

LEMMA LoadedStep ==
  ASSUME Typed, Served, Place, Loaded, [Next]_vars
  PROVE  Loaded'
<1> SUFFICES ASSUME NEW t \in Tasks PROVE LoadedOf(t)'
  BY DEF Loaded
<1>0. /\ LoadedOf(t) /\ SlugsOf(items) \subseteq SlugsOf(items)'
      /\ \A n \in DOMAIN Seeds : Present(n) => Present(n)'
      /\ Len(Seeds) \in Nat /\ DOMAIN Seeds = 1 .. Len(Seeds) /\ task[t].at \in Nat
  BY RowsStay, SeedsTyped, TasksTyped DEF Loaded
<1>1. CASE task'[t] = task[t]
  BY <1>0, <1>1 DEF LoadedOf
<1>2. CASE task'[t].pc \notin {"next", "done"} \cup WorkPcs
  BY <1>2 DEF LoadedOf
<1>3. ASSUME task'[t].pc \in {"next"} \cup WorkPcs, task'[t].existing \subseteq SlugsOf(items),
             \A n \in DOMAIN Seeds : n < task'[t].at => Present(n)'
      PROVE  LoadedOf(t)'
  BY <1>0, <1>3 DEF LoadedOf, WorkPcs
<1>4. CASE Lists(t)
  <2>1. task'[t].pc = "next" /\ task'[t].existing = Existing /\ task'[t].at = 1
    BY <1>4 DEF Lists, Moves
  <2> QED  BY <1>0, <1>3, <2>1 DEF Existing
<1>5. CASE Ends(t)
  <2>1. /\ task[t].pc = "next" /\ Missing(t, task[t].at) = {} /\ task'[t].pc \in {"done", "settings"}
    BY <1>5 DEF Ends
  <2>2. \A n \in DOMAIN Seeds : n < task[t].at \/ Seeds[n].slug \in task[t].existing
    BY <1>0, <2>1 DEF Missing
  <2>3. \A n \in DOMAIN Seeds : Present(n)
    BY <1>0, <2>1, <2>2 DEF LoadedOf, Present
  <2> QED  BY <1>0, <2>1, <2>3 DEF LoadedOf, WorkPcs
<1>6. ASSUME NEW n \in DOMAIN Seeds, Creates(t, n)
      PROVE  LoadedOf(t)'
  <2>1. /\ IsNext(t, n) /\ task'[t].pc = "publish" /\ task'[t].at = n
        /\ task'[t].existing = task[t].existing
    BY <1>6 DEF Creates, Moves
  <2>2. \A m \in DOMAIN Seeds : m < n => Present(m)
    BY <2>1, BehindPresent
  <2>3. task[t].existing \subseteq SlugsOf(items)
    BY <1>0, <2>1 DEF LoadedOf, IsNext
  <2> QED  BY <1>0, <1>3, <2>1, <2>2, <2>3 DEF WorkPcs
<1>7. CASE Publishes(t)
  BY <1>0, <1>3, <1>7 DEF Publishes, Moves, LoadedOf, WorkPcs
<1>8. CASE Adds(t)
  <2>1. /\ task[t].pc = "item" /\ task'[t].existing = task[t].existing
        /\ \/ task'[t].pc = "next" /\ task'[t].at = task[t].at + 1
           \/ task'[t].pc = "deactivate" /\ task'[t].at = task[t].at
        /\ AddsItem(Seeds[task[t].at].slug, task[t].workflow, TRUE)
    BY <1>8 DEF Adds, Moves
  <2>2. \A m : m = task[t].at => Present(m)'
    <3>1. /\ Len(items) + 1 \in DOMAIN items'
          /\ items'[Len(items) + 1] = NewItem(Seeds[task[t].at].slug, task[t].workflow, TRUE)
      BY <2>1 DEF AddsItem
    <3>2. items'[Len(items) + 1].slug = Seeds[task[t].at].slug
      BY <3>1 DEF NewItem
    <3> QED  BY <3>1, <3>2 DEF Present, SlugsOf
  <2>3. \A m \in DOMAIN Seeds : m < task[t].at + 1 => Present(m)'
    <3>1. \A m \in DOMAIN Seeds : m < task[t].at + 1 => m < task[t].at \/ m = task[t].at
      BY <1>0
    <3> QED  BY <1>0, <2>1, <2>2, <3>1 DEF LoadedOf, WorkPcs
  <2> QED  BY <1>0, <1>3, <2>1, <2>3 DEF LoadedOf, WorkPcs
<1>9. CASE Deactivates(t)
  <2>1. /\ task[t].pc = "deactivate" /\ task'[t].existing = task[t].existing
        /\ task'[t].pc = "next" /\ task'[t].at = task[t].at + 1
    BY <1>9 DEF Deactivates, Moves
  <2>2. \A m : m = task[t].at => Present(m)
    BY <2>1 DEF Place, PlaceOf, Present, SlugsOf
  <2>3. \A m \in DOMAIN Seeds : m < task[t].at + 1 => m < task[t].at \/ m = task[t].at
    BY <1>0
  <2> QED  BY <1>0, <1>3, <2>1, <2>2, <2>3 DEF LoadedOf, WorkPcs
<1>10. CASE Fails(t)
  BY <1>2, <1>10, IdleTyped DEF Fails, WorkPcs
<1> QED  BY <1>1, <1>2, <1>4, <1>5, <1>6, <1>7, <1>8, <1>9, <1>10, Movers
     DEF TaskStep, WorkPcs, StartPcs


\* Where items come from.
LEMMA NewItems ==
  ASSUME Typed, Served, Place, [Next]_vars, NEW i \in DOMAIN items' \ DOMAIN items
  PROVE  \/ ~items'[i].seeded
         \/ \E t \in Tasks :
              /\ Adds(t) /\ items'[i].slug = Seeds[task[t].at].slug
              /\ items'[i].workflow = task[t].workflow
<1>1. ASSUME NEW t \in Tasks, Adds(t)
      PROVE  items'[i].slug = Seeds[task[t].at].slug /\ items'[i].workflow = task[t].workflow
  <2>1. items'[i] = NewItem(Seeds[task[t].at].slug, task[t].workflow, TRUE)
    BY <1>1 DEF Adds, AddsItem
  <2> QED  BY <2>1 DEF NewItem
<1>2. ASSUME NEW t \in Tasks, TaskStep(t), ~Adds(t)
      PROVE  DOMAIN items' = DOMAIN items
  BY <1>2 DEF TaskStep, Lists, Ends, Creates, Fails, Publishes, Deactivates, rows, ChangesItem
<1>3. Edits => ~items'[i].seeded
  BY DEF Edits
<1>4. Starts \/ Kills \/ (UNCHANGED vars) \/ (\E r \in Requests : Loads(r) \/ Drops(r))
        => UNCHANGED items
  BY DEF Starts, Kills, vars, rows, Loads, Drops
<1> QED  BY <1>1, <1>2, <1>3, <1>4, Steps DEF TaskStep

\* Only an admin, or the load that has just created it, changes an item.
LEMMA ItemsStay ==
  ASSUME Typed, Served, Place, [Next]_vars, NEW i \in DOMAIN items
  PROVE  \/ items'[i] = items[i]
         \/ Edits /\ items'[i].touched = TRUE
         \/ \E t \in Tasks :
              Deactivates(t) /\ i = task[t].item /\ items'[i].active = FALSE
<1>1. ASSUME NEW t \in Tasks, TaskStep(t), ~Deactivates(t)
      PROVE  items'[i] = items[i]
  BY <1>1 DEF TaskStep, Lists, Ends, Creates, Fails, Publishes, Adds, AddsItem, rows
<1>2. ASSUME NEW t \in Tasks, Deactivates(t)
      PROVE  items'[i] = items[i] \/ (i = task[t].item /\ items'[i].active = FALSE)
  BY <1>2 DEF Deactivates, ChangesItem
<1>3. Edits => items'[i] = items[i] \/ items'[i].touched = TRUE
  BY DEF Edits
<1>4. Starts \/ Kills \/ (UNCHANGED vars) \/ (\E r \in Requests : Loads(r) \/ Drops(r))
        => UNCHANGED items
  BY DEF Starts, Kills, vars, rows, Loads, Drops
<1> QED  BY <1>1, <1>2, <1>3, <1>4, Steps DEF TaskStep

LEMMA OfferedStep ==
  ASSUME Typed, Served, Place, Offered, [Next]_vars
  PROVE  Offered'
<1>0. /\ \A d \in DOMAIN definitions :
           definitions'[d].name = definitions[d].name /\ (Shown(d) => Shown(d)')
      /\ \A i \in DOMAIN items :
           /\ items'[i].slug = items[i].slug /\ items'[i].workflow = items[i].workflow
           /\ items'[i].seeded = items[i].seeded
  BY RowsStay DEF KeepsDefinitions, KeepsItems
<1>1. ASSUME NEW i \in DOMAIN items, items'[i].seeded, NEW d, d = items'[i].workflow
      PROVE  definitions'[d].name = items'[i].slug /\ Shown(d)'
  <2>1. d = items[i].workflow /\ items[i].seeded /\ d \in DOMAIN definitions
    BY <1>0, <1>1, RowsTyped
  <2>2. definitions[d].name = items[i].slug /\ Shown(d)
    BY <2>1 DEF Offered
  <2> QED  BY <1>0, <2>1, <2>2
<1>2. ASSUME NEW i \in DOMAIN items' \ DOMAIN items, items'[i].seeded,
             NEW d, d = items'[i].workflow
      PROVE  definitions'[d].name = items'[i].slug /\ Shown(d)'
  <2>1. PICK t \in Tasks : /\ Adds(t) /\ items'[i].slug = Seeds[task[t].at].slug
                           /\ items'[i].workflow = task[t].workflow
    BY <1>2, NewItems
  <2>2. /\ d = task[t].workflow /\ d \in DOMAIN definitions
        /\ definitions[d].name = Seeds[task[t].at].slug /\ Shown(d)
    BY <1>2, <2>1 DEF Adds, Place, PlaceOf, WorkPcs
  <2> QED  BY <1>0, <2>1, <2>2
<1>3. ASSUME NEW i \in DOMAIN items', items'[i].seeded, NEW d, d = items'[i].workflow
      PROVE  definitions'[d].name = items'[i].slug /\ Shown(d)'
  BY <1>1, <1>2, <1>3
<1> QED  BY <1>3 DEF Offered, Shown

\* How a task comes to work on a seed.
LEMMA WorkComes ==
  ASSUME Typed, Served, Place, [Next]_vars, NEW t \in Tasks, task'[t].pc \in WorkPcs
  PROVE  \/ /\ task[t].pc \in WorkPcs /\ task'[t].at = task[t].at
            /\ task'[t].pc \in {"publish", "item"} => task[t].pc \in {"publish", "item"}
         \/ \E n \in DOMAIN Seeds : Creates(t, n) /\ task'[t].at = n
<1>1. CASE task'[t] = task[t]
  BY <1>1
<1>2. ASSUME NEW n \in DOMAIN Seeds, Creates(t, n)
      PROVE  task'[t].at = n
  BY <1>2 DEF Creates, Moves
<1>3. CASE Publishes(t) \/ Adds(t)
  BY <1>3 DEF Publishes, Adds, Moves, WorkPcs
<1>4. ~Lists(t) /\ ~Ends(t) /\ ~Fails(t) /\ ~Deactivates(t)
  BY IdleTyped DEF Lists, Ends, Fails, Deactivates, Moves, WorkPcs
<1> QED  BY <1>1, <1>2, <1>3, <1>4, Movers DEF TaskStep, StartPcs, WorkPcs

\* Whoever works on a seed has taken its name.
LEMMA WorkTakes ==
  ASSUME Place, NEW t \in Tasks, task[t].pc \in WorkPcs, NEW n, n = task[t].at
  PROVE  Taken(n)
BY DEF Place, PlaceOf, Taken, NameTaken

LEMMA ApartStep ==
  ASSUME Typed, Served, Place, Apart, [Next]_vars
  PROVE  Apart'
<1> SUFFICES ASSUME NEW t \in Tasks, NEW u \in Tasks, t # u,
                    task'[t].pc \in WorkPcs, task'[u].pc \in WorkPcs, task'[t].at = task'[u].at
             PROVE  FALSE
  BY DEF Apart
<1>1. ASSUME NEW v \in Tasks, NEW w \in Tasks, v # w, task'[v].pc \in WorkPcs,
             task'[w].at = task'[v].at, NEW n \in DOMAIN Seeds, Creates(w, n)
      PROVE  FALSE
  <2>1. task'[v] = task[v] /\ task'[w].at = n /\ ~Taken(n)
    BY <1>1 DEF Creates, Moves, Moved
  <2> QED  BY <1>1, <2>1, WorkTakes
<1> QED  BY <1>1, WorkComes DEF Apart


----------------------------------------------------------------------------
(* What a calm catalog keeps.                                              *)

LEMMA CalmBefore ==
  ASSUME Typed, Served, Place, [Next]_vars, Calm'
  PROVE  Calm /\ losses' = 0
<1>1. losses = 0
  <2>1. losses' = losses \/ losses' = losses + 1
    <3>1. ASSUME NEW t \in Tasks, TaskStep(t)
          PROVE  losses' = losses
      BY <3>1 DEF TaskStep, Lists, Ends, Creates, Fails, Publishes, Adds, Deactivates
    <3> QED  BY <3>1, Steps DEF TaskStep, Starts, Kills, Edits, vars, Loads, Drops
  <2> QED  BY <2>1 DEF Calm, Typed
<1>2. \A i \in DOMAIN items : items[i].slug # None => items[i].seeded
  BY RowsStay DEF KeepsItems, Calm
<1> QED  BY <1>1, <1>2 DEF Calm

LEMMA PresentTaken ==
  ASSUME Typed, Offered, Calm, NEW n \in DOMAIN Seeds, Present(n)
  PROVE  Taken(n)
<1>1. PICK i \in DOMAIN items : items[i].slug = Seeds[n].slug
  BY DEF Present, SlugsOf
<1>2. items[i].seeded /\ items[i].workflow \in DOMAIN definitions
  BY <1>1, SeedsTyped, RowsTyped DEF Calm
<1> QED  BY <1>1, <1>2 DEF Offered, Taken, NameTaken

\* A name stays taken, and only the load that creates it takes a seed's name.
LEMMA TakenComes ==
  ASSUME Typed, Served, Place, [Next]_vars, Calm, NEW n \in DOMAIN Seeds
  PROVE  /\ Taken(n) => Taken(n)'
         /\ Taken(n)' => Taken(n) \/ \E t \in Tasks : Creates(t, n)
<1>0. \A d \in DOMAIN definitions :
        d \in DOMAIN definitions' /\ definitions'[d].name = definitions[d].name
  BY RowsStay DEF KeepsDefinitions
<1>1. Taken(n) => Taken(n)'
  BY <1>0 DEF Taken, NameTaken
<1>2. ASSUME NEW d \in DOMAIN definitions' \ DOMAIN definitions, definitions'[d].name = Seeds[n].slug
      PROVE  \E t \in Tasks : Creates(t, n)
  <2>1. ASSUME NEW t \in Tasks, NEW m \in DOMAIN Seeds, Creates(t, m)
        PROVE  m = n
    <3>1. definitions'[d].name = Seeds[m].slug
      BY <1>2, <2>1 DEF Creates, AddsDefinition
    <3> QED  BY <1>2, <3>1, SeedsTyped
  <2>2. ASSUME NEW t \in Tasks, TaskStep(t), \A m \in DOMAIN Seeds : ~Creates(t, m)
        PROVE  DOMAIN definitions' = DOMAIN definitions
    BY <2>2 DEF TaskStep, Lists, Ends, Fails, Publishes, Adds, Deactivates, ShowsDefinition, rows
  <2>3. ~Edits
    BY <1>2, SeedsTyped DEF Edits, Calm
  <2>4. Starts \/ Kills \/ (UNCHANGED vars) \/ (\E r \in Requests : Loads(r) \/ Drops(r))
          => UNCHANGED definitions
    BY DEF Starts, Kills, vars, rows, Loads, Drops
  <2> QED  BY <1>2, <2>1, <2>2, <2>3, <2>4, Steps DEF TaskStep
<1>3. Taken(n)' => Taken(n) \/ \E t \in Tasks : Creates(t, n)
  <2> SUFFICES ASSUME Taken(n)' PROVE Taken(n) \/ \E t \in Tasks : Creates(t, n)
    OBVIOUS
  <2>1. PICK d \in DOMAIN definitions' : definitions'[d].name = Seeds[n].slug
    BY DEF Taken, NameTaken
  <2> QED  BY <1>0, <1>2, <2>1 DEF Taken, NameTaken
<1> QED  BY <1>1, <1>3


LEMMA FrontierStep ==
  ASSUME Typed, Served, Place, Loaded, Offered, Frontier, Settled, [Next]_vars
  PROVE  Frontier'
<1> SUFFICES ASSUME Calm' PROVE Frontier'
  BY DEF Frontier
<1>0. Calm /\ losses' = 0
  BY CalmBefore
<1>s. Len(Seeds) \in Nat /\ DOMAIN Seeds = 1 .. Len(Seeds)
  BY SeedsTyped
<1>1. PICK m \in 0 .. Len(Seeds) :
        /\ \A n \in DOMAIN Seeds : Taken(n) <=> n <= m
        /\ m = 0 \/ m = Len(Seeds) \/ \E t \in Tasks : Leads(t, m)
  BY <1>0 DEF Frontier
<1>m. ~(m + 1 <= m) /\ (m # Len(Seeds) => m + 1 \in DOMAIN Seeds)
  <2>1. \A l \in Nat : \A k \in 0 .. l : ~(k + 1 <= k) /\ (k # l => k + 1 \in 1 .. l)
    OBVIOUS
  <2> QED  BY <1>s, <2>1, Zenon
<1>2. ASSUME NEW t \in Tasks, NEW n \in DOMAIN Seeds, Creates(t, n)
      PROVE  Frontier'
  <2>1. IsNext(t, n) /\ ~Taken(n) /\ task'[t].pc = "publish" /\ task'[t].at = n
    BY <1>2 DEF Creates, Moves
  <2>2. n = m + 1
    <3>1. n > m
      <4>1. ~(n <= m)
        BY <1>1, <2>1
      <4> QED  BY <1>s, <4>1
    <3>2. ASSUME n > m + 1
          PROVE  FALSE
      <4>1. m + 1 \in DOMAIN Seeds /\ m + 1 < n
        BY <1>s, <3>2
      <4>2. Taken(m + 1)
        BY <1>0, <2>1, <4>1, BehindPresent, PresentTaken
      <4>3. m + 1 <= m
        BY <1>1, <4>1, <4>2
      <4> QED  BY <4>3
    <3> QED  BY <1>s, <3>1, <3>2
  <2>3. ASSUME NEW k \in DOMAIN Seeds
        PROVE  Taken(k)' <=> k <= n
    <3>1. ASSUME NEW u \in Tasks, Creates(u, k)
          PROVE  k = n
      <4>1. Seeds[k].slug = Seeds[n].slug
        BY <1>2, <3>1 DEF Creates, AddsDefinition
      <4> QED  BY <4>1, SeedsTyped
    <3>2. Taken(n)'
      BY <1>2 DEF Creates, AddsDefinition, Taken, NameTaken
    <3>3. k <= n <=> k <= m \/ k = n
      BY <1>s, <2>2
    <3>4. k = n => Taken(k)'
      BY <3>2
    <3> QED  BY <1>0, <1>1, <3>1, <3>3, <3>4, TakenComes
  <2>4. Leads(t, n)'
    BY <2>1 DEF Leads, WorkPcs
  <2>5. n \in 0 .. Len(Seeds)
    BY <1>s
  <2> QED  BY <2>3, <2>4, <2>5 DEF Frontier
<1>3. ASSUME \A t \in Tasks, n \in DOMAIN Seeds : ~Creates(t, n)
      PROVE  Frontier'
  <2>1. \A n \in DOMAIN Seeds : Taken(n)' <=> n <= m
    BY <1>0, <1>1, <1>3, TakenComes
  <2>2. ASSUME NEW t \in Tasks, Leads(t, m), m # Len(Seeds)
        PROVE  Leads(t, m)'
    <3>0. /\ task[t].pc \in {"next"} \cup WorkPcs /\ m + 1 \in DOMAIN Seeds /\ ~Taken(m + 1)
      <4>1. m + 1 \in DOMAIN Seeds /\ ~(m + 1 <= m)
        BY <1>m, <2>2
      <4>2. ~Taken(m + 1)
        BY <1>1, <4>1
      <4> QED  BY <2>2, <4>1, <4>2 DEF Leads
    <3>1. CASE task'[t] = task[t]
      BY <2>2, <3>1 DEF Leads
    <3>2. CASE Publishes(t) \/ Adds(t) \/ Deactivates(t)
      BY <2>2, <3>2 DEF Leads, Publishes, Adds, Deactivates, Moves, WorkPcs
    <3>3. ~Ends(t)
      <4> SUFFICES ASSUME Ends(t) PROVE FALSE
        OBVIOUS
      <4>1. task[t].pc = "next" /\ task[t].at = m + 1 /\ Missing(t, m + 1) = {}
        BY <2>2 DEF Ends, Leads, WorkPcs
      <4>2. Seeds[m + 1].slug \in task[t].existing
        BY <1>s, <3>0, <4>1 DEF Missing
      <4>3. Present(m + 1)
        BY <4>1, <4>2 DEF Loaded, LoadedOf, Present
      <4> QED  BY <1>0, <3>0, <4>3, PresentTaken
    <3>4. ~Fails(t)
      <4> SUFFICES ASSUME Fails(t) PROVE FALSE
        OBVIOUS
      <4>1. CASE task[t].pc = "item"
        <5>1. SlugTaken(Seeds[task[t].at].slug)
          BY <4>1 DEF Fails, IsNext
        <5> QED  BY <1>0, <4>1, <5>1 DEF Settled
      <4>2. CASE task[t].pc # "item"
        <5>1. PICK n \in DOMAIN Seeds : IsNext(t, n) /\ Taken(n)
          BY <4>2 DEF Fails
        <5>2. task[t].at = m + 1 /\ n \in Missing(t, m + 1)
          BY <2>2, <5>1 DEF IsNext, Leads, WorkPcs
        <5>3. n >= m + 1
          BY <1>s, <5>2 DEF Missing
        <5>4. n <= m
          BY <1>1, <5>1
        <5> QED  BY <1>s, <5>3, <5>4
      <4> QED  BY <4>1, <4>2
    <3>5. ~Lists(t) /\ task[t].pc \notin StartPcs
      BY <3>0 DEF Lists, WorkPcs, StartPcs
    <3> QED  BY <1>0, <1>3, <3>1, <3>2, <3>3, <3>4, <3>5, Movers DEF TaskStep
  <2> QED  BY <1>1, <2>1, <2>2 DEF Frontier
<1> QED  BY <1>2, <1>3

\* What is complete stays so, unless an admin changes it.
LEMMA CompleteStays ==
  ASSUME Typed, Served, Place, [Next]_vars, NEW n \in DOMAIN Seeds, Complete(n)
  PROVE  Complete(n)'
<1>1. PICK i \in DOMAIN items :
        /\ items[i].slug = Seeds[n].slug
        /\ items[i].touched \/ items[i].active = Seeds[n].published
        /\ Shown(items[i].workflow)
  BY DEF Complete, Shown
<1>2. /\ i \in DOMAIN items' /\ items'[i].slug = Seeds[n].slug
      /\ items'[i].workflow = items[i].workflow /\ items[i].workflow \in DOMAIN definitions
  BY <1>1, RowsStay, RowsTyped DEF KeepsItems
<1>3. \A d : d = items[i].workflow => Shown(d)'
  BY <1>1, <1>2, RowsStay DEF KeepsDefinitions
<1>4. items'[i].touched \/ items'[i].active = Seeds[n].published
  <2>1. ASSUME NEW t \in Tasks, Deactivates(t), i = task[t].item, items'[i].active = FALSE
        PROVE  items'[i].active = Seeds[n].published
    <3>1. /\ task[t].at \in DOMAIN Seeds /\ Seeds[task[t].at].slug = Seeds[n].slug
          /\ ~Seeds[task[t].at].published
      BY <1>1, <2>1 DEF Deactivates, Place, PlaceOf, WorkPcs
    <3>2. Seeds[n].published = FALSE
      BY <3>1, SeedsTyped
    <3> QED  BY <2>1, <3>2
  <2> QED  BY <1>1, <2>1, ItemsStay
<1> QED  BY <1>2, <1>3, <1>4 DEF Complete, Shown

\* A load that is done with a seed leaves it complete.
LEMMA WorkCompletes ==
  ASSUME Typed, Place, Offered, NEW t \in Tasks, NEW n \in DOMAIN Seeds, n = task[t].at,
         (Adds(t) /\ Seeds[n].published) \/ Deactivates(t)
  PROVE  Complete(n)'
<1>1. CASE Adds(t) /\ Seeds[n].published
  <2> DEFINE i == Len(items) + 1
  <2>1. /\ i \in DOMAIN items' /\ items'[i] = NewItem(Seeds[n].slug, task[t].workflow, TRUE)
        /\ UNCHANGED definitions /\ task[t].pc = "item"
    BY <1>1 DEF Adds, AddsItem
  <2> HIDE DEF i
  <2>2. /\ items'[i].slug = Seeds[n].slug /\ items'[i].workflow = task[t].workflow
        /\ items'[i].active = TRUE
    BY <2>1 DEF NewItem
  <2>3. Shown(task[t].workflow)
    BY <2>1 DEF Place, PlaceOf
  <2>4. Seeds[n].published = TRUE
    BY <1>1, SeedsTyped
  <2> QED  BY <2>1, <2>2, <2>3, <2>4 DEF Complete, Shown
<1>2. CASE Deactivates(t)
  <2> DEFINE i == task[t].item
  <2>1. /\ i \in DOMAIN items /\ items[i].slug = Seeds[n].slug /\ items[i].seeded
        /\ ~Seeds[n].published
    BY <1>2 DEF Deactivates, Place, PlaceOf
  <2>2. /\ i \in DOMAIN items' /\ items'[i].slug = items[i].slug
        /\ items'[i].workflow = items[i].workflow /\ items'[i].active = FALSE
        /\ UNCHANGED definitions
    BY <1>2, <2>1 DEF Deactivates, ChangesItem, KeepsItems
  <2>3. Shown(items[i].workflow) /\ Seeds[n].published = FALSE
    BY <2>1, SeedsTyped DEF Offered
  <2> HIDE DEF i
  <2> QED  BY <2>1, <2>2, <2>3 DEF Complete, Shown
<1> QED  BY <1>1, <1>2

LEMMA SettledStep ==
  ASSUME Typed, Served, Place, Loaded, Offered, Apart, Settled, [Next]_vars
  PROVE  Settled'
<1> SUFFICES ASSUME Calm' PROVE Settled'
  BY DEF Settled
<1>0. Calm /\ losses' = 0
  BY CalmBefore
<1>1. /\ \A r \in Requests : task[r].pc = "failed" => \E n \in DOMAIN Seeds : Taken(n)
      /\ \A t \in Tasks : task[t].pc \in {"publish", "item"} => ~SlugTaken(Seeds[task[t].at].slug)
      /\ \A n \in DOMAIN Seeds : Taken(n) =>
           Complete(n) \/ \E t \in Tasks : task[t].pc \in WorkPcs /\ task[t].at = n
  BY <1>0 DEF Settled
<1>f. ASSUME NEW t \in Tasks, Fails(t)
      PROVE  task[t].pc = "next" /\ \E n \in DOMAIN Seeds : Taken(n)
  BY <1>1, <1>f DEF Fails, IsNext
<1>2. ASSUME NEW r \in Requests, task'[r].pc = "failed"
      PROVE  \E n \in DOMAIN Seeds : Taken(n)'
  <2>0. r \in Tasks
    BY DEF Tasks
  <2>1. task[r].pc = "failed" \/ Fails(r)
    <3>1. ~Lists(r) /\ ~Ends(r) /\ ~Publishes(r) /\ ~Adds(r) /\ ~Deactivates(r)
          /\ \A n \in DOMAIN Seeds : ~Creates(r, n)
      BY <1>2 DEF Lists, Ends, Publishes, Adds, Deactivates, Creates, Moves
    <3> QED  BY <1>2, <2>0, <3>1, Movers DEF TaskStep, StartPcs
  <2>2. \E n \in DOMAIN Seeds : Taken(n)
    BY <1>1, <1>f, <2>0, <2>1
  <2> QED  BY <1>0, <2>2, TakenComes
<1>3. ASSUME NEW t \in Tasks, task'[t].pc \in {"publish", "item"},
             NEW s, s = Seeds[task'[t].at].slug
      PROVE  ~SlugTaken(s)'
  <2>1. task'[t].at \in DOMAIN Seeds
    BY <1>3, PlaceStep DEF Place, PlaceOf, WorkPcs
  <2>2. ~SlugTaken(s)
    <3>1. CASE task[t].pc \in {"publish", "item"} /\ task'[t].at = task[t].at
      BY <1>1, <1>3, <3>1
    <3>2. ASSUME NEW n \in DOMAIN Seeds, Creates(t, n), task'[t].at = n
          PROVE  ~SlugTaken(s)
      <4>1. ~Taken(n)
        BY <3>2 DEF Creates
      <4>2. ~Present(n)
        BY <1>0, <4>1, PresentTaken
      <4> QED  BY <1>3, <3>2, <4>2 DEF Present, SlugsOf, SlugTaken
    <3> QED  BY <1>3, <3>1, <3>2, WorkComes DEF WorkPcs
  <2>3. ASSUME NEW i \in DOMAIN items' \ DOMAIN items, items'[i].slug = s
        PROVE  FALSE
    <3>1. items'[i].seeded
      BY <1>3, <2>1, <2>3, SeedsTyped DEF Calm
    <3>2. PICK u \in Tasks : Adds(u) /\ items'[i].slug = Seeds[task[u].at].slug
      BY <2>3, <3>1, NewItems
    <3>3. task[u].pc = "item" /\ task[u].at \in DOMAIN Seeds
      BY <3>2 DEF Adds, Place, PlaceOf, WorkPcs
    <3>4. task[u].at = task'[t].at
      BY <1>3, <2>1, <2>3, <3>2, <3>3, SeedsTyped
    <3>5. u # t
      BY <1>3, <3>2 DEF Adds, Moves
    <3>6. task'[t] = task[t]
      BY <3>2, <3>5 DEF Adds, Moves, Moved
    <3> QED  BY <1>3, <3>3, <3>4, <3>5, <3>6 DEF Apart, WorkPcs
  <2> QED  BY <2>2, <2>3, RowsStay DEF SlugTaken, KeepsItems
<1>4. ASSUME NEW n \in DOMAIN Seeds, Taken(n)'
      PROVE  Complete(n)' \/ \E t \in Tasks : task'[t].pc \in WorkPcs /\ task'[t].at = n
  <2>1. ASSUME NEW t \in Tasks, Creates(t, n)
        PROVE  task'[t].pc \in WorkPcs /\ task'[t].at = n
    BY <2>1 DEF Creates, Moves, WorkPcs
  <2>2. CASE Complete(n)
    BY <2>2, CompleteStays
  <2>3. ASSUME NEW t \in Tasks, task[t].pc \in WorkPcs, task[t].at = n
        PROVE  Complete(n)' \/ (task'[t].pc \in WorkPcs /\ task'[t].at = n)
    <3>1. CASE task'[t] = task[t]
      BY <2>3, <3>1
    <3>2. CASE Publishes(t)
      BY <2>3, <3>2 DEF Publishes, Moves, WorkPcs
    <3>3. CASE Adds(t) /\ ~Seeds[n].published
      BY <2>3, <3>3 DEF Adds, Moves, WorkPcs
    <3>4. CASE (Adds(t) /\ Seeds[n].published) \/ Deactivates(t)
      BY <2>3, <3>4, WorkCompletes
    <3>5. /\ ~Lists(t) /\ ~Ends(t) /\ ~Fails(t) /\ task[t].pc \notin StartPcs
          /\ \A k \in DOMAIN Seeds : ~Creates(t, k)
      BY <1>f, <2>3 DEF Lists, Ends, Creates, IsNext, StartPcs, WorkPcs
    <3> QED  BY <1>0, <3>1, <3>2, <3>3, <3>4, <3>5, Movers DEF TaskStep
  <2> QED  BY <1>0, <1>1, <1>4, <2>1, <2>2, <2>3, TakenComes
<1> QED  BY <1>2, <1>3, <1>4 DEF Settled



----------------------------------------------------------------------------
(* The invariant, and what it says.                                        *)

\* An older release has left one item, without a slug, and its definition.
LEMMA OlderRows ==
  ASSUME NEW name \in AdminNames,
         definitions = <<[NewDefinition(name) EXCEPT !.published = TRUE]>>,
         items = <<NewItem(None, 1, FALSE)>>
  PROVE  /\ definitions \in Seq(WorkflowDefinition) /\ items \in Seq(ServiceCatalogItem)
         /\ DOMAIN definitions = {1} /\ definitions[1].name = name
         /\ DOMAIN items = {1} /\ items[1].workflow = 1 /\ items[1].seeded = FALSE
<1> DEFINE d == [NewDefinition(name) EXCEPT !.published = TRUE]
           i == NewItem(None, 1, FALSE)
<1>1. d \in WorkflowDefinition /\ d.name = name
  BY DEF NewDefinition, WorkflowDefinition
<1>2. i \in ServiceCatalogItem /\ i.workflow = 1 /\ i.seeded = FALSE
  BY DEF NewItem, ServiceCatalogItem
<1> HIDE DEF d, i
<1>3. definitions = <<d>> /\ items = <<i>>
  BY DEF d, i
<1>4. /\ definitions \in Seq(WorkflowDefinition) /\ definitions[1] = d /\ Len(definitions) = 1
      /\ items \in Seq(ServiceCatalogItem) /\ items[1] = i /\ Len(items) = 1
  <2>1. ASSUME NEW S, NEW e \in S
        PROVE  <<e>> \in Seq(S) /\ <<e>>[1] = e /\ Len(<<e>>) = 1
    OBVIOUS
  <2>2. <<d>> \in Seq(WorkflowDefinition) /\ <<d>>[1] = d /\ Len(<<d>>) = 1
    BY <1>1, <2>1
  <2>3. <<i>> \in Seq(ServiceCatalogItem) /\ <<i>>[1] = i /\ Len(<<i>>) = 1
    BY <1>2, <2>1
  <2> QED  BY <1>3, <2>2, <2>3
<1>5. DOMAIN definitions = {1} /\ DOMAIN items = {1}
  BY <1>4
<1> QED  BY <1>1, <1>2, <1>4, <1>5

LEMMA CatalogInit ==
  ASSUME Init
  PROVE  CatalogInv
<1>1. /\ server = "down" /\ edits = 0 /\ losses = 0
      /\ task \in [Tasks -> Locals] /\ \A t \in Tasks : task[t] = Idle
      /\ Boot \in Tasks /\ \A r \in Requests : r \in Tasks
  BY IdleTyped DEF Init, Tasks
<1>2. /\ admin \in BOOLEAN /\ settings \in {"absent", "default", "changed"}
      /\ definitions \in Seq(WorkflowDefinition) /\ items \in Seq(ServiceCatalogItem)
      /\ \A i \in DOMAIN items : items[i].workflow \in DOMAIN definitions /\ ~items[i].seeded
      /\ \A d \in DOMAIN definitions : definitions[d].name \in AdminNames
  <2>1. CASE definitions = <<>> /\ items = <<>> /\ admin \in BOOLEAN
             /\ settings \in {"absent", "default"}
    BY <2>1
  <2>2. ASSUME NEW n \in AdminNames, admin = TRUE, settings = "changed",
               definitions = <<[NewDefinition(n) EXCEPT !.published = TRUE]>>,
               items = <<NewItem(None, 1, FALSE)>>
        PROVE  /\ admin \in BOOLEAN /\ settings \in {"absent", "default", "changed"}
               /\ definitions \in Seq(WorkflowDefinition) /\ items \in Seq(ServiceCatalogItem)
               /\ \A i \in DOMAIN items :
                    items[i].workflow \in DOMAIN definitions /\ ~items[i].seeded
               /\ \A d \in DOMAIN definitions : definitions[d].name \in AdminNames
    <3>1. /\ definitions \in Seq(WorkflowDefinition) /\ items \in Seq(ServiceCatalogItem)
          /\ DOMAIN definitions = {1} /\ definitions[1].name = n
          /\ DOMAIN items = {1} /\ items[1].workflow = 1 /\ items[1].seeded = FALSE
      BY <2>2, OlderRows
    <3> QED  BY <2>2, <3>1
  <2> QED  BY <2>1, <2>2 DEF Init
<1>3. Typed
  BY <1>1, <1>2, SeedsAssumption DEF Typed
<1>4. Served
  BY <1>1, IdleTyped DEF Served, Running
<1>5. Place /\ Loaded /\ Apart
  BY <1>1, IdleTyped DEF Place, PlaceOf, Loaded, LoadedOf, Apart, WorkPcs
<1>6. Offered
  BY <1>2 DEF Offered
<1>7. Calm => \A n \in DOMAIN Seeds : ~Taken(n)
  BY <1>2, SeedsTyped DEF Calm, Taken, NameTaken
<1>8. Frontier
  <2> SUFFICES ASSUME Calm PROVE Frontier
    BY DEF Frontier
  <2>1. 0 \in 0 .. Len(Seeds) /\ \A n \in DOMAIN Seeds : ~(n <= 0)
    BY SeedsTyped
  <2>2. \A n \in DOMAIN Seeds : Taken(n) <=> n <= 0
    BY <1>7, <2>1
  <2> QED  BY <2>1, <2>2 DEF Frontier
<1>9. Settled
  BY <1>1, <1>7, IdleTyped DEF Settled
<1> QED  BY <1>3, <1>4, <1>5, <1>6, <1>8, <1>9 DEF CatalogInv

LEMMA CatalogInvariant == Spec => []CatalogInv
<1>1. Init => CatalogInv
  BY CatalogInit
<1>2. CatalogInv /\ [Next]_vars => CatalogInv'
  BY TypedStep, ServedStep, PlaceStep, LoadedStep, OfferedStep, ApartStep, FrontierStep, SettledStep
     DEF CatalogInv
<1> QED  BY <1>1, <1>2, PTL DEF Spec

\* catalog_seed::run works on rows of its own: the definition it publishes and
\* the item it deactivates are its seed's.
THEOREM CatalogTyped == Spec => []TypeOK
<1>1. CatalogInv => TypeOK
  <2> SUFFICES ASSUME CatalogInv PROVE TypeOK
    OBVIOUS
  <2>1. Typed /\ Served /\ Place
    BY DEF CatalogInv
  <2>2. server = "up" => settings # "absent" /\ task[Boot] = Idle
    BY <2>1 DEF Served
  <2>3. server = "down" => \A t \in Tasks : ~Running(t)
    BY <2>1, IdleTyped DEF Served, Running, Tasks
  <2>4. ASSUME NEW t \in Tasks
        PROVE  /\ task[t].existing \subseteq Slugs /\ task[t].at \in 1 .. Len(Seeds) + 1
               /\ task[t].pc \in {"publish", "item"} =>
                    definitions[task[t].workflow].name = Seeds[task[t].at].slug
               /\ task[t].pc = "deactivate" =>
                    /\ items[task[t].item].slug = Seeds[task[t].at].slug
                    /\ ~Seeds[task[t].at].published
    BY <2>1, TasksTyped DEF Place, PlaceOf, WorkPcs
  <2> QED  BY <2>1, <2>2, <2>3, <2>4 DEF TypeOK, Typed
<1> QED  BY <1>1, CatalogInvariant, PTL

\* Whatever overlaps and gets lost, a load that catalog_seed::run reports as
\* done has left the whole starter catalog behind.
THEOREM DoneIsLoaded == Spec => []DoneMeansLoaded
<1>1. CatalogInv => DoneMeansLoaded
  BY DEF CatalogInv, Loaded, LoadedOf, DoneMeansLoaded, Tasks
<1> QED  BY <1>1, CatalogInvariant, PTL

\* catalog_seed::run publishes a workflow before it offers it: no crash between
\* the two leaves an item that cannot be requested.
THEOREM OffersArePublished == Spec => []PublishedBeforeOffered
<1>1. CatalogInv => PublishedBeforeOffered
  BY DEF CatalogInv, Offered, Shown, PublishedBeforeOffered
<1> QED  BY <1>1, CatalogInvariant, PTL

\* Overlapping loads stop each other on the unique keys, but never all of them:
\* the one that is ahead goes on, and what it leaves is complete.
THEOREM OverlapsConverge == Spec => []LoadsConverge
<1>1. CatalogInv => LoadsConverge
  <2> SUFFICES ASSUME CatalogInv, losses = 0, AdminNames \cap Slugs = {},
                      \A i \in DOMAIN items : items[i].slug # None => items[i].seeded,
                      NEW r \in Requests, task[r].pc \in {"done", "failed"},
                      \A q \in Requests : ~Running(q), NEW n \in DOMAIN Seeds
               PROVE  Complete(n)
    BY DEF LoadsConverge
  <2>0. Typed /\ Served /\ Loaded /\ Offered /\ Frontier /\ Settled /\ Calm /\ r \in Tasks
    BY DEF CatalogInv, Calm, Tasks
  <2>1. task[Boot] = Idle
    BY <2>0 DEF Served
  <2>2. \A t \in Tasks : task[t].pc \notin {"next"} \cup WorkPcs
    BY <2>1, IdleTyped DEF Tasks, Running, WorkPcs
  <2>3. PICK m \in 0 .. Len(Seeds) :
          /\ \A k \in DOMAIN Seeds : Taken(k) <=> k <= m
          /\ m = 0 \/ m = Len(Seeds) \/ \E t \in Tasks : Leads(t, m)
    BY <2>0 DEF Frontier
  <2>4. \E k \in DOMAIN Seeds : Taken(k)
    <3>1. CASE task[r].pc = "failed"
      BY <2>0, <3>1 DEF Settled
    <3>2. CASE task[r].pc = "done"
      BY <2>0, <3>2, PresentTaken DEF Loaded, LoadedOf
    <3> QED  BY <3>1, <3>2
  <2>5. m # 0
    <3>1. \A k \in DOMAIN Seeds : ~(k <= 0)
      BY SeedsTyped
    <3> QED  BY <2>3, <2>4, <3>1
  <2>6. m = Len(Seeds)
    BY <2>2, <2>3, <2>5 DEF Leads
  <2>7. Taken(n)
    <3>1. n <= Len(Seeds)
      BY SeedsTyped
    <3> QED  BY <2>3, <2>6, <3>1
  <2> QED  BY <2>0, <2>2, <2>7 DEF Settled
<1> QED  BY <1>1, CatalogInvariant, PTL

\* Neither the seed nor a restart undoes what an admin has done to an item.
THEOREM EditsStay == Spec => EditsAreKept
<1>1. CatalogInv /\ [Next]_vars =>
        [\A i \in DOMAIN items :
           items[i].touched /\ ~InFlight(i) => items'[i] = items[i] \/ edits' # edits]_vars
  <2> SUFFICES ASSUME CatalogInv, [Next]_vars, NEW i \in DOMAIN items, ~InFlight(i)
               PROVE  items'[i] = items[i] \/ edits' # edits
    OBVIOUS
  <2>1. Typed /\ Served /\ Place /\ edits \in Nat
    BY DEF CatalogInv, Typed
  <2>2. ASSUME NEW t \in Tasks, Deactivates(t), i = task[t].item
        PROVE  FALSE
    BY <2>2 DEF Deactivates, InFlight
  <2>3. Edits => edits' # edits
    BY <2>1 DEF Edits
  <2> QED  BY <2>1, <2>2, <2>3, ItemsStay
<1> QED  BY <1>1, CatalogInvariant, PTL DEF Spec, EditsAreKept
=============================================================================
