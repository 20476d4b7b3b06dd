------------------------------ MODULE Catalog ------------------------------
(***************************************************************************)
(* The service catalog: how a server starts (main.rs), how the starter     *)
(* catalog is seeded (catalog_seed.rs), on the first start and by the      *)
(* admin's "Load starter catalog", and how admins edit catalog items and   *)
(* workflow definitions meanwhile.                                         *)
(*                                                                         *)
(* One server process runs at a time; it may be killed and is started      *)
(* again.  Every action is one SQL statement, or a query and the decision  *)
(* taken on it.  A definition's name and an item's slug are the only texts *)
(* that matter: the definition a seed creates has the seed's name, here    *)
(* its slug.  The version of a definition is always 1.                     *)
(***************************************************************************)
EXTENDS Integers, Sequences, FiniteSets

CONSTANTS
  Seeds,        \* starter_catalog.json: a sequence of [slug, published]
  Requests,     \* the "Load starter catalog" requests
  Boot,         \* the task that runs main()
  None,         \* the null slug
  Configured,   \* whether a bootstrap admin is configured
  AdminNames,   \* names of the workflows that admins create
  AdminSlugs,   \* slugs of the items that admins create
  MaxEdits,     \* bound on the edits of admins
  MaxLosses     \* bound on killed processes and dropped requests

Slugs == {Seeds[n].slug : n \in DOMAIN Seeds}

ASSUME SeedsAssumption ==
  /\ Seeds \in Seq([slug : Slugs, published : BOOLEAN])
  /\ \A m, n \in DOMAIN Seeds : Seeds[m].slug = Seeds[n].slug => m = n
  /\ None \notin Slugs
  /\ Boot \notin Requests
  /\ AdminSlugs \subseteq Slugs \cup {None}
  /\ Configured \in BOOLEAN
  /\ MaxEdits \in Nat /\ MaxLosses \in Nat

VARIABLES
  server,       \* down, starting or up
  admin,        \* whether users holds an admin account, active or not
  settings,     \* the row of org_settings: absent, default or changed
  definitions,  \* workflow_definitions, in the order of creation
  items,        \* service_catalog_items, in the order of creation
  task,         \* the locals of main() and of the load requests
  edits, losses

vars == <<server, admin, settings, definitions, items, task, edits, losses>>
rows == <<admin, settings, definitions, items>>

Tasks == Requests \cup {Boot}

----------------------------------------------------------------------------
(* The tables.  withdrawn, seeded and touched are history: an admin has    *)
(* unpublished the definition, the seed created the item, an admin has     *)
(* created or edited it.                                                   *)

WorkflowDefinition ==
  [name : Slugs \cup AdminNames, published : BOOLEAN, withdrawn : BOOLEAN]
ServiceCatalogItem ==
  [slug : Slugs \cup {None}, workflow : Nat \ {0}, active : BOOLEAN,
   seeded : BOOLEAN, touched : BOOLEAN]

\* The unique keys (name, version) and slug; many rows may have no slug.
NameTaken(name) == \E d \in DOMAIN definitions : definitions[d].name = name
SlugTaken(slug) == slug # None /\ \E i \in DOMAIN items : items[i].slug = slug

NewDefinition(name) == [name |-> name, published |-> FALSE, withdrawn |-> FALSE]
NewItem(slug, d, seeded) ==
  [slug |-> slug, workflow |-> d, active |-> TRUE, seeded |-> seeded, touched |-> ~seeded]

set_published(d, published, byAdmin) ==
  definitions' = [definitions EXCEPT ![d] =
    [definitions[d] EXCEPT !.published = published,
                           !.withdrawn = definitions[d].withdrawn \/ (byAdmin /\ ~published)]]

SlugsOf(rs) == {rs[i].slug : i \in DOMAIN rs}

----------------------------------------------------------------------------
(* Starting the server.                                                    *)

Idle == [pc |-> "idle", existing |-> {}, at |-> 1, workflow |-> 0, item |-> 0]

Become(t, locals) == task' = [task EXCEPT ![t] = locals]
Goto(t, pc) == Become(t, [task[t] EXCEPT !.pc = pc])

\* The database is new, or an older release has been used with it, which left
\* an admin and an item without a slug.
Init ==
  /\ server = "down" /\ edits = 0 /\ losses = 0
  /\ task = [t \in Tasks |-> Idle]
  /\ \/ /\ admin \in BOOLEAN /\ definitions = <<>> /\ items = <<>>
        /\ settings \in {"absent", "default"}
     \/ \E n \in AdminNames :
          /\ admin = TRUE /\ settings = "changed"
          /\ definitions = <<[NewDefinition(n) EXCEPT !.published = TRUE]>>
          /\ items = <<NewItem(None, 1, FALSE)>>

main ==
  /\ server = "down"
  /\ server' = "starting"
  /\ Become(Boot, [Idle EXCEPT !.pc = "bootstrap_admin"])
  /\ UNCHANGED <<rows, edits, losses>>

\* Nothing to do once any admin exists, deactivated ones included, or while the
\* configured email is that of another account, which may be or not.
bootstrap_admin ==
  /\ task[Boot].pc = "bootstrap_admin"
  /\ admin' \in {admin, admin \/ Configured}
  /\ Goto(Boot, "auto_seed")
  /\ UNCHANGED <<server, settings, definitions, items, edits, losses>>

SeedNeeded_always == admin
SeedNeeded == items = <<>> /\ admin

auto_seed_catalog ==
  /\ task[Boot].pc = "auto_seed"
  /\ Goto(Boot, IF SeedNeeded THEN "list" ELSE "settings")
  /\ UNCHANGED <<server, rows, edits, losses>>

DefaultSettings == IF settings = "absent" THEN "default" ELSE settings

\* seed_default (INSERT IGNORE), after which the server listens.
seed_default ==
  /\ task[Boot].pc = "settings"
  /\ settings' = DefaultSettings
  /\ server' = "up"
  /\ Become(Boot, Idle)
  /\ UNCHANGED <<admin, definitions, items, edits, losses>>

----------------------------------------------------------------------------
(* catalog_seed::run, by the task t of main() or of a request.             *)

\* A failed statement ends a request with an error and main() altogether.
Fail(t) ==
  /\ IF t = Boot THEN Become(t, Idle) ELSE Goto(t, "failed")
  /\ server' = IF t = Boot THEN "down" ELSE server

\* The seeds from position n on that were not there when the run listed.
Missing(t, n) ==
  {m \in n .. Len(Seeds) : Seeds[m].slug \notin task[t].existing}

Existing == SlugsOf(items) \ {None}

run_list(t) ==
  /\ task[t].pc = "list"
  /\ Become(t, [task[t] EXCEPT !.existing = Existing, !.at = 1, !.pc = "next"])
  /\ UNCHANGED <<server, rows, edits, losses>>

\* The loop has come to its end: main() goes on, a request answers.
run_end(t) ==
  /\ task[t].pc = "next"
  /\ Missing(t, task[t].at) = {}
  /\ Goto(t, IF t = Boot THEN "settings" ELSE "done")
  /\ UNCHANGED <<server, rows, edits, losses>>

\* The next seed that is not skipped, if its name is free.
OnConflict_skip(t, n) ==
  Become(t, [task[t] EXCEPT !.at = n + 1]) /\ UNCHANGED server
OnConflict(t, n) == Fail(t)

run_workflow(t) ==
  /\ task[t].pc = "next"
  /\ \E n \in Missing(t, task[t].at) :
       /\ \A m \in Missing(t, task[t].at) : n <= m
       /\ \/ /\ NameTaken(Seeds[n].slug)
             /\ OnConflict(t, n)
             /\ UNCHANGED definitions
          \/ /\ ~NameTaken(Seeds[n].slug)
             /\ definitions' = Append(definitions, NewDefinition(Seeds[n].slug))
             /\ Become(t, [task[t] EXCEPT !.pc = "publish", !.at = n,
                                          !.workflow = Len(definitions) + 1])
             /\ UNCHANGED server
  /\ UNCHANGED <<admin, settings, items, edits, losses>>

run_publish_as_draft(t) ==
  /\ task[t].pc = "publish"
  /\ set_published(task[t].workflow, Seeds[task[t].at].published, FALSE)
  /\ Goto(t, "item")
  /\ UNCHANGED <<server, admin, settings, items, edits, losses>>

run_publish(t) ==
  /\ task[t].pc = "publish"
  /\ set_published(task[t].workflow, TRUE, FALSE)
  /\ Goto(t, "item")
  /\ UNCHANGED <<server, admin, settings, items, edits, losses>>

AfterItem_published(t) ==
  [task[t] EXCEPT !.pc = "next", !.at = @ + 1]

AfterItem_previous_row(t) ==
  IF Seeds[task[t].at].published
  THEN [task[t] EXCEPT !.pc = "next", !.at = @ + 1]
  ELSE [task[t] EXCEPT !.pc = "deactivate", !.item = Len(items)]

\* What follows the new item: a draft is deactivated by a further statement.
AfterItem(t) ==
  IF Seeds[task[t].at].published
  THEN [task[t] EXCEPT !.pc = "next", !.at = @ + 1]
  ELSE [task[t] EXCEPT !.pc = "deactivate", !.item = Len(items) + 1]

ItemConflict_upsert(t) ==
  /\ items' = [i \in DOMAIN items |->
                 IF items[i].slug = Seeds[task[t].at].slug
                 THEN NewItem(items[i].slug, task[t].workflow, TRUE) ELSE items[i]]
  /\ Become(t, [task[t] EXCEPT !.pc = "next", !.at = @ + 1])
  /\ UNCHANGED server
ItemConflict(t) == Fail(t) /\ UNCHANGED items

run_item(t) ==
  /\ task[t].pc = "item"
  /\ LET slug == Seeds[task[t].at].slug
     IN \/ SlugTaken(slug) /\ ItemConflict(t)
        \/ /\ ~SlugTaken(slug)
           /\ items' = Append(items, NewItem(slug, task[t].workflow, TRUE))
           /\ Become(t, AfterItem(t))
           /\ UNCHANGED server
  /\ UNCHANGED <<admin, settings, definitions, edits, losses>>

run_deactivate(t) ==
  /\ task[t].pc = "deactivate"
  /\ items' = [items EXCEPT ![task[t].item].active = FALSE]
  /\ Become(t, [task[t] EXCEPT !.pc = "next", !.at = @ + 1, !.item = 0])
  /\ UNCHANGED <<server, admin, settings, definitions, edits, losses>>

Run(t) ==
  \/ run_list(t) \/ run_end(t) \/ run_workflow(t)
  \/ run_publish(t) \/ run_item(t) \/ run_deactivate(t)

\* The admin's request: it runs the same function as the first start does.
load_starter(r) ==
  /\ server = "up" /\ admin
  /\ task[r].pc = "idle"
  /\ Goto(r, "list")
  /\ UNCHANGED <<server, rows, edits, losses>>

----------------------------------------------------------------------------
(* Admins edit; processes and requests are lost.                           *)

Edit ==
  /\ server = "up" /\ admin
  /\ edits < MaxEdits
  /\ edits' = edits + 1
  /\ UNCHANGED <<server, admin, task, losses>>

\* POST /workflow-definitions and the builder's form: a draft.
create_workflow(name) ==
  /\ Edit
  /\ ~NameTaken(name)
  /\ definitions' = Append(definitions, NewDefinition(name))
  /\ UNCHANGED <<settings, items>>

publish(d) == Edit /\ set_published(d, TRUE, TRUE) /\ UNCHANGED <<settings, items>>
unpublish(d) == Edit /\ set_published(d, FALSE, TRUE) /\ UNCHANGED <<settings, items>>

create_item(slug, d) ==
  /\ Edit
  /\ ~SlugTaken(slug)
  /\ items' = Append(items, NewItem(slug, d, FALSE))
  /\ UNCHANGED <<settings, definitions>>

\* The admin's form gives no slug, POST /catalog any; both take any definition
\* of the list, drafts included.
create_by_form(d) == create_item(None, d)
create_by_api(slug, d) == create_item(slug, d)

update_item(i, active) ==
  /\ Edit
  /\ items' = [items EXCEPT ![i] = [@ EXCEPT !.active = active, !.touched = TRUE]]
  /\ UNCHANGED <<settings, definitions>>

\* The form of an item's page (and PATCH /catalog/{id}), the list's switch,
\* and POST /catalog/{id}/deactivate.
edit(i, active) == update_item(i, active)
toggle(i) == update_item(i, ~items[i].active)
deactivate(i) == update_item(i, FALSE)

update_settings ==
  /\ Edit
  /\ settings' = "changed"
  /\ UNCHANGED <<definitions, items>>

Running(t) == task[t].pc \in {"list", "next", "publish", "item", "deactivate"}
Lost(t) == [task[t] EXCEPT !.pc = "lost"]

Kill ==
  /\ server # "down" /\ losses < MaxLosses
  /\ server' = "down" /\ losses' = losses + 1
  /\ task' = [t \in Tasks |-> CASE t = Boot -> Idle
                                [] t # Boot /\ Running(t) -> Lost(t)
                                [] OTHER -> task[t]]
  /\ UNCHANGED <<rows, edits>>

\* The client goes away, which drops the handler, or a statement fails.
Drop(r) ==
  /\ Running(r) /\ losses < MaxLosses
  /\ losses' = losses + 1
  /\ Become(r, Lost(r))
  /\ UNCHANGED <<server, rows, edits>>

Starting == main \/ bootstrap_admin \/ auto_seed_catalog \/ seed_default \/ Run(Boot)

Administration ==
  \/ \E name \in AdminNames : create_workflow(name)
  \/ \E d \in DOMAIN definitions :
       \/ publish(d) \/ unpublish(d) \/ create_by_form(d)
       \/ \E slug \in AdminSlugs : create_by_api(slug, d)
  \/ \E i \in DOMAIN items :
       \/ toggle(i) \/ deactivate(i)
       \/ \E active \in BOOLEAN : edit(i, active)
  \/ update_settings

Next ==
  \/ Starting
  \/ \E r \in Requests : load_starter(r) \/ Run(r) \/ Drop(r)
  \/ Administration
  \/ Kill

\* The process manager starts the server whenever it is down, and what runs
\* goes on running.
Fairness == WF_vars(Starting) /\ \A r \in Requests : WF_vars(Run(r))

Spec == Init /\ [][Next]_vars /\ Fairness

----------------------------------------------------------------------------
(* Properties.                                                             *)

\* Every task is where its loop can be, with the rows it has created: the
\* definition it publishes is its seed's and has that seed's name, the item it
\* deactivates is the draft it has just created.
TypeOK ==
  /\ server \in {"down", "starting", "up"} /\ admin \in BOOLEAN
  /\ settings \in {"absent", "default", "changed"}
  /\ definitions \in Seq(WorkflowDefinition) /\ items \in Seq(ServiceCatalogItem)
  /\ \A i \in DOMAIN items : items[i].workflow \in DOMAIN definitions
  /\ edits \in 0 .. MaxEdits /\ losses \in 0 .. MaxLosses
  /\ server = "up" => settings # "absent" /\ task[Boot] = Idle
  /\ server = "down" => \A t \in Tasks : ~Running(t)
  /\ \A t \in Tasks :
       /\ task[t].existing \subseteq Slugs /\ task[t].at \in 1 .. Len(Seeds) + 1
       /\ task[t].pc \in {"publish", "item"} =>
            definitions[task[t].workflow].name = Seeds[task[t].at].slug
       /\ task[t].pc = "deactivate" =>
            /\ items[task[t].item].slug = Seeds[task[t].at].slug
            /\ ~Seeds[task[t].at].published

Present(n) == Seeds[n].slug \in SlugsOf(items)

\* A load that answers with its summary has left every item of the starter
\* catalog in the table, whatever the other loads, the admins and the losses
\* did meanwhile.
DoneMeansLoaded ==
  \A r \in Requests : task[r].pc = "done" => \A n \in DOMAIN Seeds : Present(n)

\* As seeded, except for what an admin has changed: the item is there, offered
\* unless it is a draft, and its definition is published.
Complete(n) ==
  \E i \in DOMAIN items :
    /\ items[i].slug = Seeds[n].slug
    /\ items[i].touched \/ items[i].active = Seeds[n].published
    /\ definitions[items[i].workflow].published \/ definitions[items[i].workflow].withdrawn

\* Loads that overlap, of which all but one may fail on the unique keys, leave
\* the whole starter catalog behind between them when nothing is lost and no
\* admin has given a starter slug or name to an item or workflow of their own.
LoadsConverge ==
  (/\ losses = 0 /\ AdminNames \cap Slugs = {}
   /\ \A i \in DOMAIN items : items[i].slug # None => items[i].seeded
   /\ \E r \in Requests : task[r].pc \in {"done", "failed"}
   /\ \A r \in Requests : ~Running(r)) => \A n \in DOMAIN Seeds : Complete(n)

\* An item that the seed offers has a published definition from the start,
\* also when its load is lost half way, unless an admin has unpublished it.
PublishedBeforeOffered ==
  \A i \in DOMAIN items :
    items[i].seeded => \/ definitions[items[i].workflow].published
                       \/ definitions[items[i].workflow].withdrawn

InFlight(i) == \E t \in Tasks : task[t].pc = "deactivate" /\ task[t].item = i

\* What admins changed stays, however often the seed runs again and the server
\* restarts: only another edit changes an item that they edited or deactivated,
\* unless its own load has not settled it yet.
EditsAreKept ==
  [][\A i \in DOMAIN items :
       items[i].touched /\ ~InFlight(i) => items'[i] = items[i] \/ edits' # edits]_vars

\* A catalog that has got at least one item never keeps the server from
\* starting, even if the seed was interrupted.
RestartServes == (items # <<>>) ~> (server = "up")

\* catalog_seed.rs calls the seed idempotent by slug and main.rs runs it before
\* it listens: the server always comes up in the end.
AlwaysServes == []<>(server = "up")

=============================================================================
