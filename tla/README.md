# servcat in TLA+

servcat is a self-hosted service catalog: requesters pick a service, answer the
questions of its workflow, approvers decide, and a ticket is filed in an
external system.  This directory models the parts of the server that carry
those requests from start to end, the editor and the catalog that requests are
made from, the sign-in and the sessions of their users, and what admins do to
accounts and logos.  TLC checks the models on small
instances, and TLAPS proves their safety properties for every instance.

## 1. Inventory

| Component | Code (under `src/crates`) | State | Operations | Hard behaviour |
|---|---|---|---|---|
| Workflow engine | `workflow-engine/src/lib.rs`, `model/src/workflow.rs` | none (pure) | `start`, `submit_answer`, `resume_after_approval`, `resume_after_ticket_dispatch`, `auto_advance`, `eval_condition` | malformed graphs, cycles of branches, the bound of 256 steps |
| Orchestrator | `server/src/orchestrator.rs`, `db/.../instances.rs`, `db/.../tickets.rs` | `workflow_instances`, `tickets` | `start_instance`, `submit_answer`, `resume_after_approval`, `apply_outcome`, `dispatch_ticket` | several statements and a network call without a transaction; rows read before an await and written after it |
| Approvals | `approvals/src/service.rs`, `resolution.rs`, `db/.../approvals.rs`, `server/src/routes/approvals.rs`, `server/src/web/pages/approvals.rs` | `pending_approvals` | `create_for_instance`, `decide` | duplicate decisions, decisions racing the timeout, loss between decision and resume |
| Expiry poller | `approvals/src/poller.rs`, `server/src/expiry_handler.rs` | its current batch | `poll_once`, `handle_expired` | the list is stale while it is worked through |
| Connectors | `connectors/src/*`, `server/src/connector_registry.rs` | the external system | `dispatch`, `render` | an error reported for a ticket that was created |
| Notifier | `approvals/src/notifier.rs` | none | `notify_new_approval` | best effort, no result is used |
| Catalog, definitions | `db/.../catalog.rs`, `workflow_definitions.rs`, their routes and pages | `service_catalog_items`, `workflow_definitions` | create a version, publish, edit, deactivate | publishing validates nothing; items point at any version |
| Workflow builder | `server/static/workflow_builder.js`, `server/src/web/pages/admin/workflows.rs` | cards, entry, counter, text area, status box | add, edit, rename, move, delete, load JSON, submit | three copies of one graph; an error half way through a load |
| Seed, bootstrap | `server/src/catalog_seed.rs`, `main.rs` | the same tables, the first administrator | `run`, `bootstrap_admin`, `auto_seed_catalog` | a crash half way, followed by a restart |
| Users, departments | `db/.../users.rs`, `departments.rs`, their routes and pages | `users`, `departments` | create, register, update, deactivate | edits while an approver is being resolved; two admins who edit each other |
| Sessions, resets | `server/src/auth.rs`, `routes/auth.rs`, `web/session.rs` | `sessions`, `password_resets` | login, refresh, revoke, reset | overlapping refreshes of one token |
| SSO | `server/src/sso.rs`, `routes/sso.rs` | login states, handoff codes, cached keys | login, callback, provisioning, handoff | first logins in parallel, callbacks sent again, rotated keys, restarts |
| Settings, uploads | `server/src/uploads.rs`, `routes/settings.rs`, `routes/uploads.rs` | `org_settings`, files | save and delete a logo, switch sign-up | a file and a row that no transaction spans; one step of several failing |
| Audit log | `db/.../audit.rs` | `audit_log` | record, list | none |
| Request pages | `server/src/web/pages/catalog.rs`, `requests.rs` | none of their own | preview the questions, coerce and submit answers, start a request | a loop over a graph that may be cyclic; text turned into JSON |
| Other pages, configuration | `server/src/web`, `config.rs` | none of their own | render, read the environment | none |

The components meet in the orchestrator.  A request handler reads an instance,
asks the engine what comes next, and carries it out: it inserts an approval
(approvals crate), or inserts a ticket and calls a connector, and finally saves
the instance.  An approver's request and the poller both flip an approval with
one conditional `UPDATE` and then call back into the orchestrator.  No handler
opens a transaction and nothing locks an instance, so all of this interleaves;
axum drops a handler when its client disconnects; the tables and the external
system survive a restart, the handlers' locals do not.

What makes each part correct: the engine rests only at steps that need input
and reports the outcome of that step; an approval is decided once and resumes
its instance once, along the branch on record; an instance's status, its step,
its approvals and its tickets agree; nothing is dispatched without the
approvals that the workflow demands; an approval that timed out does not hold
its instance for ever.  The builder stores sound graphs and loses no connection;
a seed that is repeated or interrupted ends with the whole catalog and keeps
what admins changed; a browser that waits for nothing is still signed in; a
person who signs in through Entra ID always gets one and the same account; a row
names a logo that is there; somebody can administer the server; the preview
tells what will be asked, and it and the dispatching of tickets come to an end.

`PROJECT.json` lists every hazard at its line, with the properties that watch it or
why none does, and every component with what is and is not modelled.

## 2. Modules

* `WorkflowEngine` - the engine as operators.  A graph is a record of the entry
  step, a function from step ids to steps and a table of condition nodes;
  references may dangle and branches may form cycles, as in the code.  An engine
  call returns an error or a resting step with its outcome.  `auto_advance` is
  written with the recursive function `Visited`: turn *n* of the loop looks at
  `Visited[n]`, and what the loop returns is read off its last permitted turn.
* `Orchestrator` (extends `WorkflowEngine`) - the state machine.  Variables are
  the tables (`instances`, `approvals`, `tickets`, `users`), the tickets that
  exist in the external system (`external`), one record of locals per handler
  and for the poller (`tasks`, whose `pc` names the statement that comes next),
  the rest of the poller's list (`batch`), a count of failures (`faults`) and a
  history variable (`resumes`).  Each SQL statement and each connector call is
  one action; an engine call belongs to the statement before or after it.
  Failures are `TaskLost` (a statement fails or the client disconnects),
  `DispatchStatementFails` (an error inside `dispatch_ticket`, which the code
  turns into the status `failed`), `PollAborts` and `Restart`.
* `ApprovalLifecycle` - the abstract specification of an approval: opened,
  decided once, resumed at most once after the decision.
* `OrchestratorProperties` - all properties, and the refinement mapping to
  `ApprovalLifecycle`.
* `MCOrchestrator` and the `.cfg` files - workflow graphs of the shapes the
  starter catalog and the graph builder produce, directories of users, symmetry.
* `Engine_proofs` - what the operators of `WorkflowEngine` compute, for the two
  modules that prove something about requests.
* `Orchestrator_proofs` (extends `OrchestratorProperties` and `Engine_proofs`) - the
  theorems about the orchestrator, in the order of section 4.
* `WorkflowBuilder` - the editor's page.  `steps`, `entryStepId` and
  `stepCounter` are the script's variables, `textarea` and `status` what the page
  shows, `saved` what the form stored.  Each action is one event with the
  `renderAll` that ends it: the browser runs a handler to its end.
  `hydrateFromGraph` has the two outcomes of its `throw`.
* `Catalog` - the tables `workflow_definitions` and `service_catalog_items`, the
  settings row, whether there is an admin, and the tasks that write them:
  `main()` (`bootstrap_admin`, `auto_seed_catalog`, `seed_default`) and the
  requests of "Load starter catalog", both running `catalog_seed::run` statement
  by statement.  Admins create, edit, publish and deactivate between any two
  statements; `Kill` ends the process, `Drop` one request.  The unique keys are
  the errors that end a `run`.
* `Sessions` - `users`, `sessions` and `password_resets`, the pair of tokens each
  client holds, and one record of locals per request under way.  Redeeming a
  refresh token is the `SELECT`, the `UPDATE`, the user and the `INSERT` of the
  code, one action each; `Receive` sets the cookies when an answer arrives,
  `Lose` is an answer that never does.
* `RequestPages` (extends `WorkflowEngine`) - one request through the pages or
  the API: the loop of `preview_questions`, the form with `coerce_answer`, the
  loop that `apply_outcome` and `dispatch_ticket` make, and the graphs that
  `build_graph` makes of the five seeded patterns, run by the same engine
  operators as in `Orchestrator`.
* `Sso` - the three maps of `SsoService`, the `users` table, Entra ID's current
  signing key, and one record of locals per callback and per redemption.  A
  callback is cut where the code awaits: the token request, the key request and
  its write to the cache, and each statement of `provision_or_link_user`.  A
  login attempt stands for its state, nonce and verifier.  What outlived its TTL
  is marked and swept by the next use of its map, as in `sweep_expired`.
* `Administration` - logos as a file and as `logo_url` of a row, and the roles and
  activity of users.  A request reads the sender's account in one step and acts
  in later ones, which is where two admins get in each other's way.  A file is
  the number of its upload.
* `MCWorkflowBuilder`, `MCCatalog`, `MCSessions`, `MCRequestPages`, `MCSso`,
  `MCAdministration` - their instances.
* `Builder_proofs`, `Catalog_proofs`, `Sessions_proofs`, `Request_proofs`,
  `Sso_proofs`, `Administration_proofs` - the theorems about them.

Definitions named `X_something` next to a definition `X` are deliberately wrong
variants of it, used to see that the properties can fail.

What the models abstract.  In `Orchestrator` answers are members of a small set
of values, a rendered payload is the answers its templates name, `expires_at` is never, later
or past, a display name is its place in the `ORDER BY`.  Requests that the code
refuses change nothing and have no action; that a request comes from the
requester or the approver is its precondition.  In `WorkflowBuilder` an id is
opaque and of a step's other fields only whether the one that `validate()`
demands is filled in is kept.  In `Catalog` a slug also stands for the name of
the workflow seeded with it, and an item's texts are one flag.  In `Sessions` a
token is the row that holds its hash, a password the number of its changes, and
expiry an event.  In `RequestPages` a JSON value is its type, with integers and
floats apart as in `serde_json`, and its text.

## 3. Runs

Bounds of the orchestrator's runs: one instance, two approvals, two
tickets, two handlers and the poller, at most one failure.  Two handlers are enough for every pair of requests
to overlap, and with the poller three tasks compete for one approval; a second
approval and a second ticket let an instance get one too many; one failure can
hit every statement of every handler.  `MAX_AUTO_STEPS` is 3: the longest run of
steps one engine call visits in these graphs is two.  The runs turn deadlock
checking off because a server whose instances have all ended has nothing to do.

| Run | Checks | Shows |
|---|---|---|
| `Orchestrator_concurrent` | `TypeOK`, `ResumeFollowsRecord`, `ImplementsLifecycle`, `StatusMatchesStep`, `AwaitingHasApproval`, `TicketsAgree`, `TicketSettlesOnce`, `NoTicketWithoutApproval`, `CompletedHasTicket` | what survives free interleaving of two requests and the poller, user edits and one failure anywhere |
| `Orchestrator_expiry` | `TimedWaitEnds` | with free interleaving of two requests and the poller and no failures, a wait that has a timeout ends |
| `Builder_edit` | `SavedIsSound`, `EditsRedirectNothing` | no sequence of events makes the page store an unsound graph, redirect a connection or lose the entry mark |
| `Catalog_all` | `TypeOK`, `DoneMeansLoaded`, `LoadsConverge`, `PublishedBeforeOffered`, `EditsAreKept`, `RestartServes` | overlapping loads, some of which fail, leave the whole starter catalog between them; what kills and dropped requests cannot spoil |
| `Sessions_all` | `TypeOK`, `QuietIsSignedIn`, `ServedWasActive`, `ResetSignsOut`, `ResetLinkWorksOnce` | rotation of a token under overlapping requests and one lost answer; the life of a password reset when requests do not overlap and none is lost |
| `Request_starter` | `ErrorsAreTheGraphs`, `PreviewIsAsked`, `TicketAfterApprovals`, `TypedMatchesCondition`, `PreviewEnds`, `DispatchEnds` | every seeded pattern with none to three questions, a branch on a yes/no question either way, and every graph of up to three steps: which graphs the engine gives up on, and which ones the two loops never leave |
| `Sso_all` | `OneAccountPerPerson`, `OnePersonPerAccount`, `OneSessionPerLogin`, `RefusalIsGenuine` | first sign-ins of two people with one email, in any order and with repeated callbacks and codes, rotating keys, an admin's edit, a dropped request or a restart |
| `Administration_all` | `LogoIsThere`, `OldLogosAreDeleted`, `AnAdminRemains` | four requests of admins, two at a time, with a failure at any step |

Bounds of the others.  Builder: five events on at most three cards, which is a
rename, a deletion or a failed load with a change before it and a save after it;
`MCTexts` has a text for each way a load can go.  Catalog: two seeded items, of
which one is a draft, so that the loop meets both branches and a first and a
last item; two loads besides the start, and two losses, so that the recovery
from a kill can be killed too.  Sessions: two users with a client each, two requests under way, which is what a
race for one token takes, and four requests in all: signing in, both sides of a
race and one more.  The history variable `overlapped` tells the behaviours apart
in which requests followed each other, which the two reset properties are
about.  Pages: `MAX_AUTO_STEPS` is 2 there, so that three steps make a chain of
branches that is one too long as well as one that just fits; `MaxShown` is one
more than the questions a preview without a circle can show, and a preview that
reaches it has gone round a circle; tickets are counted in a circle of
`MaxTickets`, so that an endless dispatch is a loop of states and not a bound.
The graphs of the run are all those of three steps, connected from the first,
of questions, branches, tickets and ends, each leading to any of them or to a
step that is not there, besides the approvals in the seeded and branching ones.
Sso: three attempts are a person's twice and another's once; two callbacks at a
time make every race for an account, a code or the cache; one of an admin's
edit, a dropped handler and a restart; two keys are one rotation.
Administration: two admins, of whom one may be the bootstrap admin yet to be
made, one department besides the organisation, four requests of which two
overlap, so that a slot can be broken and repaired, and one failure.

The history variables `alone`, `mishaps` and `tangled` of the last two record
whether requests overlapped, and `settled` the slots whose last request came to
its end.  Nothing guards on them: they only let a property say what holds of
requests that did not overlap, or that did end.

Some properties are worded with care.  `WaitsForItsApproval`,
`OneTicketPerInstance` and `ProgressIsKept` are proved of serial requests
(section 4), are about behaviours in which nothing
failed yet (`faults = 0`), and say what they ask of a workflow: `AsksOnce`, past a
question its field is not asked for again; `FilesOnce`, past a ticket there is no
other; `Unfailing`, past an approval or a ticket neither the engine nor the
resolution of an approver can fail.  The workflow of `Finding_one_ticket` is of
all three kinds for its requester.  `OneAccountPerPerson` says of every code
that its account bears the person's subject, with one exception: the callback
overlapped with one of somebody whom Entra ID knows by the same email, whose link
came last.  `LogoIsThere` says that a slot is right once a request about it has
come to its end, also one that overlapped with others.  `LoadsConverge` leaves out
admins who give an item or a workflow of their own a starter slug or name: a load
then fails on a unique key for good.

Fairness of the orchestrator: a handler that has started runs to its end (`WF`
on every task's steps) because tokio polls every ready task and the model's handlers wait for
nothing but statements and the connector; time passes; the poller's interval
ticks for ever (`WF` on `Poll`).  Nobody is obliged to make a request or to
decide, and no failure has to happen.  In `Catalog` a process that is down is started again and
a start goes on (`WF` on `Starting`), which is what the process manager of the
deployment does, and a load under way goes on (`WF` on `Run(r)`); kills are
bounded, so they do not go on for ever.  In `RequestPages` the rendering of a
page goes on, and so does a dispatch (`WF` on `dispatch_ticket`): both are loops
of one handler, and answers and decisions are nobody's duty.  `WorkflowBuilder`,
`Sessions`, `Sso` and `Administration` check safety only and assume no fairness.

These runs are expected to fail; each shows a disagreement between the code and
what the repository says about it (quoted in `PROJECT.json`, `findings`):

* `Finding_one_ticket` - two overlapping submissions of one answer create two
  approvals; if both are approved the instance gets two tickets.
* `Finding_restart` - the flip of an approval and the resume of its instance are
  separate; lost in between, the instance waits for ever.
* `Finding_seed_restart` - killed between the first seeded workflow and its item,
  the server fails at every later start: the seed skips by slug, and the
  workflow's name is taken.

* `Finding_reset_link` - two overlapping confirmations of one reset link both find
  it unused, as the `UPDATE` that marks it does not ask again, and both set a
  password.

What the first refutes is proved under `SerialSpec`: an instance lock, which the
engine's comment alludes to and the code does not have, is what it needs.  The
second and the third pass without a failure, and once the catalog has an item;
what the last refutes holds when requests do not overlap
(`ResetLinkWorksOnce`).

Modelling also met the following.  No run is kept for it, and the properties
above are stated so as to leave it out:

* `save_progress` writes by id alone, so a handler that read the row earlier can
  replace a final status; and an approval decided before its instance is saved as
  `awaiting_approval` leaves the instance waiting (`ProgressIsKept` and
  `WaitsForItsApproval` fail under `Spec` and are proved under `SerialSpec`).  When a
  duplicated answer made two approvals, the late save of the second can come
  after both were decided, and then no timeout ends the wait: this is the
  exception in `TimedWaitEnds`.
* If no approver can be resolved the instance stays `in_progress`, where
  `ApproverResolution` says that resolution fails the instance.
* If that happens, or the engine errs, after a ticket was filed, nothing is saved
  either: the instance is still where it was, and the answer given again files
  another ticket.  `OneTicketPerInstance` is about workflows and requesters for
  which this cannot happen (`Unfailed`).
* A number typed in the form becomes a float and a whole number in a condition is
  an integer, which `serde_json` never finds equal, against the comment of
  `coerce_answer`: "an `Equals` condition on a boolean/number field compares
  against a real `JsonValue::Bool`/`Number`" (`requests.rs:190-193`).  Such a
  branch is never taken by what the form submits, and the JSON API takes it.
  `TypedMatchesCondition` is about yes/no questions only.
* Refresh tokens are "single-use" (`auth.rs:156`, `TESTING.md:71`), and yet two
  overlapping refreshes can both redeem one: as with the reset link, the `SELECT`
  and the `UPDATE` are two statements, and the `UPDATE` does not ask again.  Both
  get a pair of tokens.  `QuietIsSignedIn` holds all the same.
* A refresh that has redeemed its token before `revoke_all_sessions` and inserts
  the new session after it stays signed in through a password reset.
  `ResetSignsOut` is about requests that do not overlap.
* An approver who is deactivated after being chosen keeps the approval.
* A circle of questions keeps `preview_questions` in its loop for ever, and a
  circle of tickets `apply_outcome` and `dispatch_ticket` in theirs, creating one
  ticket per turn: `MAX_AUTO_STEPS` bounds a single engine call only, and nothing
  keeps such a graph from being stored.  `PreviewEnds` and `DispatchEnds` show
  that there is no other cause.
* A failed "Load JSON" in the builder has reset the counter of cards while the
  old cards stay, and a step added then gets the uid of one of them.
* An item seeded as a draft is inserted active and deactivated afterwards; a load
  that is lost in between leaves it on offer.
* `start_instance` looks at the item's `is_active` and never at the definition's
  `is_published` (`Catalog` stops at the item on offer).
* Of two pages loaded at once with an expired access token one is redirected to
  the login page, although the browser ends up signed in.
* `link_external_idp_subject` is "only called when the target row's
  `external_idp_subject` is currently `NULL`" (`users.rs`), but that was read in an
  earlier statement: overlapping first sign-ins of two subjects with one email
  both reach the account.  `OnePersonPerAccount` is about callbacks that do not
  overlap.
* Linking matches any account with the email that has no subject, also one with
  a password; the comments there and in `routes/sso.rs` speak of a password-less
  account an admin made, which `create_user` refuses to make without a subject.
* Of two overlapping first sign-ins of one person the second is turned away, by a
  unique key or as a conflict with the person's own account; and a refresh of
  the signing keys may overwrite a newer one, which turns away a callback whose
  key was there.  `RefusalIsGenuine` is about callbacks that run alone.
* Two uploads for one slot both delete the file they read of, and the file of the
  one whose row is overwritten stays for good; so does that of a deleted
  department.  An upload that fails after `delete_logo` leaves a row naming a file
  that is gone, until the next request about that slot.
* Only `deactivate_user` refuses to act on oneself: `update_user` takes the last
  admin's role or activity away, and two admins can deactivate each other at the
  same time.  `bootstrap_admin` does not help, as an inactive admin counts for it,
  and so does an account with its email, whatever its role.

## 4. Proofs

Every theorem holds for every value of the constants that satisfies the named
assumptions of its component's module: any number of users, instances, handlers,
requests and rows, every graph, and whatever the bounds on failures and edits are.

| Module | Theorem | States |
|---|---|---|
| `Orchestrator_proofs` | `TypeCorrect` | `TypeOK` |
| | `ResumedAtMostOnce`, `BranchOnRecord`, `DecisionStays`, `ApprovalRefinement` | `ResumedOnce`, `ResumeFollowsRecord`, `DecisionIsFinal`, `ImplementsLifecycle` |
| | `StatusAgrees`, `AwaitedIsThere`, `TicketsAreReal`, `TicketStays` | `StatusMatchesStep`, `AwaitingHasApproval`, `TicketsAgree`, `TicketSettlesOnce` |
| | `ApprovalComesFirst`, `TicketComesFirst` | `NoTicketWithoutApproval`, `CompletedHasTicket` |
| | `WaitsForOneApproval`, `FilesOneTicket`, `ProgressStays` | `WaitsForItsApproval`, `OneTicketPerInstance`, `ProgressIsKept`, under `SerialSpec` |
| `Request_proofs` | `EngineGivesUpForAReason`, `PreviewTellsWhatIsAsked`, `TicketComesLast`, `TypedTextsCompare` | `ErrorsAreTheGraphs`, `PreviewIsAsked`, `TicketAfterApprovals`, `TypedMatchesCondition` |
| `Builder_proofs` | `StoredGraphsAreSound`, `EditsKeepRoutes` | `SavedIsSound`, `EditsRedirectNothing` |
| `Catalog_proofs` | `CatalogTyped`, `DoneIsLoaded`, `OffersArePublished`, `OverlapsConverge`, `EditsStay` | `TypeOK`, `DoneMeansLoaded`, `PublishedBeforeOffered`, `LoadsConverge`, `EditsAreKept` |
| `Sessions_proofs` | `SessionsTyped`, `StaysSignedIn`, `ServedIsActive`, `ResetEndsSessions`, `LinkWorksOnce` | `TypeOK`, `QuietIsSignedIn`, `ServedWasActive`, `ResetSignsOut`, `ResetLinkWorksOnce` |
| `Sso_proofs` | `PersonHasOneAccount`, `AccountHasOnePerson`, `AttemptSignsInOnce`, `RefusalsAreGenuine` | `OneAccountPerPerson`, `OnePersonPerAccount`, `OneSessionPerLogin`, `RefusalIsGenuine` |
| `Administration_proofs` | `LogosAreThere`, `OldLogosGo`, `AdminStays` | `LogoIsThere`, `OldLogosAreDeleted`, `AnAdminRemains` |

### The engine

`EngineRests` says that a call of the engine returns an error or rests at a step
that is no branch, with the outcome of that step.  What a call computes rests on
two recursive functions, and since an induction rule cannot be instantiated here,
`NatSteps` derives one for sets of numbers from the existence of a least
counterexample.  From it, `TurnsExist` and the lemmas after it show that the
recursion of `Visited` defines a function, and its equations give `AdvanceStays`
(`auto_advance` does not leave a set that is closed under the edges of branches),
`AdvanceRests` (it stays at a step that is no branch) and `AdvanceErrs` (it only
errs if a step is missing or `MAX_AUTO_STEPS` branches follow each other).
`ConditionIs` gives the equations of `eval_condition` for the table of any nested
condition (`IsNested`: finitely many nodes, each above its children, as in every
`Condition` of the code): evaluated over and over, a node of height *n* has its value
after *n* + 1 rounds.

### The orchestrator

The assumptions are those of `WorkflowEngine` and `Orchestrator`: graphs are well
formed records, the poller is not a handler, `None` is none of the ids.  The
`Spec` of the theorems has free interleaving, lost handlers and restarts.

`TypeOK` is not inductive: that a statement writes a row of the right type
depends on the handler's locals.  `TasksOK` says what those are at each `pc` - the
rows they name exist, the step suits the statement (a `WaitForApproval` step for an
approval, a `SubmitTicket` step inside `dispatch_ticket`) and the status suits the
step - and `Rooted` and `Listed` add that approvals, tickets and the poller's batch
name rows that exist.  `Persists` is the step's side of it: no step removes a row
or changes what it belongs to, so the locals of tasks that do not move stay good.

For the approvals, `ResumeInv` treats being about to resume as a right: at most
one task holds it for an approval, only after the row was flipped, with the
decision on record, and only while it has not been used.  Every step of the server
is shown to be one of three kinds (`Quiet`, `Flips`, `Uses`), and each kind keeps
the invariant.  `DecisionIsFinal`, that no step changes a decision on record, and
`ResumedOnce`, that an approval resumes its instance at most once and never while
it is pending, are only proved: `ImplementsLifecycle`, which the run checks,
contains both.

For the instances and tickets the steps are split into those inside `apply_outcome` (`Acts`) and
those aside from it.  `AwaitInv` adds the handler about to save to
`AwaitingHasApproval`: its approval row is already there.  `TicketInv` says that
the row a handler holds between `INSERT` and its last update is pending and held
by nobody else, from which `TicketSettlesOnce` follows although no statement of
`dispatch_ticket` looks at the row's status.

The next part is about the graphs.  `NeedsApproval(g)` says that every way to a
ticket crosses an approved `WaitForApproval`; then there is a set of steps, an
`ApprovalFence`, that holds the entry, holds no ticket, and that is left by an
approval only.  `ApprovalFenceInv` says that an instance without an approved
approval, and every handler at work on it, is within every such fence; a call of
the engine stays there by `AdvanceStays`.
`TicketComesFirst` goes the same way with the tickets marked sent.

The last part is under `SerialSpec`, where the steps of two tasks about one
instance do not overlap.  `SerialInv` says so (`OneTaskPerInstance`) and, as long as
nothing failed, in which phase each instance is (`InPhase`).  An instance nobody
works on is at `Rest`: it waits for exactly the approval that is pending, or has
none.  For one that a task works on, `Stage` says for each `pc` of the task what is
already in the tables and not yet in the row of the instance: the approval flipped
but not resumed, the approval inserted but not saved, the ticket filed.  What lies
behind an instance is carried along as a fact about the graph: no way leads from
its step to a question that is answered (`AsksOnce`) or, once there is a ticket, to
another one (`FilesOnce`).  None of this needs the bounds of the run: it holds for
every number of instances and tasks, and for every graph.

### The request pages

From `QIdsAssumption` (the ids of questions differ from each other and from those
of the other seeded steps) and `OffersAssumption` (an item has a pattern and a list
of questions, or any graph).  `RequestOK` says that the status fits the step
(`StatusFits`), so that every call of the engine is made at a step of the right
kind and can only fail in `auto_advance`; with `AdvanceErrs` this is
`EngineGivesUpForAReason`.  For the preview, `IsLine` describes a sequence of
questions that each lead to the next, beginning at the entry.  Two of them agree as
far as both go (`LinesAgree`), what the page has listed is one (`ShownInv`), and
what was asked is one or begins with a whole one (`AskedInv`).  The seeded graphs
are worked out step by step (`Tails`, `SeededSteps`, `SeededKinds`,
`SeededClosed`): they have every step that they name and no branch, so each call
rests where it is sent.  `SeededInv` then says for each of their steps what a
request that rests there has behind it: how many answers, which approvals and how
many tickets (`Behind`).  `TypedInv` ties what was typed for a field to the answer
on record, from which `TypedTextsCompare` follows with `ConditionIs`, for any
graph: `ConditionsAssumption` says that conditions are nested and that what they
compare is a field, `NoTextAssumption` that `Absent` is none of the two texts of a
yes/no question.

### The builder

The properties look one step back, at most, so the invariant `BuilderOK` is one of
types: cards, connections and the loaded text are what the script expects.  The
work is in the events.  `SavedIsSound` needs that what `validate` accepted of the
cards holds of the graph that is made of them.  `EditsRedirectNothing` needs where
each connection of each card leads after a rename, and where the entry mark is after
any event on a card, in lists of any length.  `LiteralsAssumption` states that some
literals are strings: the provers do not know.

### The catalog

From `SeedsAssumption`: no two seeds have one slug, `main()` is not a request.
`CatalogInv` says, besides the types and who may run when (`Served`): a load works
on rows of its own seed (`Place`), which no other load works on (`Apart`); the
seeds it has passed are there (`Loaded`); a seeded item's definition bears its slug
and is published, or withdrawn by an admin (`Offered`).  `LoadsConverge` takes two
more.  `Frontier`: without losses the loads between them take the seeds in
order, and the load that took the last of them is still at work, or it was the
last seed of all.  So when all have ended and one has taken a seed, all seeds are
taken.  `Settled`: a load only fails because the seed was taken, and a seed that is
taken is complete or some load is at work on it.  `EditsAreKept` is an action
property and follows from `Place`: the one statement of a load that changes an
existing item is the deactivation of its own.

### Sessions

`SessionsInv` says whose each token is (`Tokens`: on its way to one client, or held
by that client and its requests), and states each property for the moments
when requests are under way.  `Signed`: the token a client holds is live, or the
answer to one of its requests will replace it (`Replaces`).  `Seen`: a request that
reads an active user has been sent by one who was active.  `Current` and `Counted`:
the sessions of an older password are about to be swept, and a link that is marked
but whose password is yet to be written makes the count of used links one higher.

### Single sign-on

From `SsoAssumption` and `UserTablesAssumption` (the tables the server starts with
satisfy the unique keys).  `SsoInv`: an attempt is in one place, waiting, in one
callback, or in one code (`Attempts`); a code being redeemed is out of the map, in
one redemption (`Redemptions`); the unique keys (`Keyed`); the account a callback
is about to link goes by its email, and an account that does not bear the subject
of its code was linked later by somebody with that email (`Accounts`); what a
callback that is alone has read of keys and users is still so (`Keys`, `Current`).
The instance of `Sso_all` has one email for two people; the theorems also cover
people of different emails, whose accounts can never meet.

### Administration

From `AdministrationAssumption` and `InitialUsersAssumption` (a table the server
starts with has an active admin; there are finitely many handlers).
`AdministrationInv`: a file has one owner, the slot that names it or the upload
that wrote it, and a request deletes no file but one its own slot has named
(`Owned`); `Served` extends `LogoIsThere` to slots whose request has deleted
nothing yet; a request that is alone knows the row it has read (`Known`); an admin
who edits alone is still an admin, and one who deactivates leaves another
(`Admins`).  `OldLogosAreDeleted` is inductive together with these: each step adds
at most as many unused files as it adds mishaps, which is where the cardinalities
of finite sets come in.

### Only model-checked

* Everything under fairness, which is out of the prover's reach: `TimedWaitEnds`,
  `RestartServes`, `PreviewEnds`, `DispatchEnds`.

## 5. Plan

Every safety property of the passing runs is proved.  What would come next:

1. The condition card of the builder, field by field; the grouping of the
   catalog page.
2. A run and a theorem that take an instance from the definition it was started
   with, published or not, to its end (`start_instance` and `Catalog`).
3. A specification with a lock for each instance, as an alternative to
   `SerialSpec`, should the code get one: `SerialInv` is what it would have to keep.

## 6. Not modelled

Notifications, HTML rendering, the audit log and configuration change no state
that another part reads.  The HTTP dialogues of the connectors are one step with
all their outcomes.  The unused `set_dispatch_status` and
`list_pending_dispatch` have no action.  Of a department the name and the parent
are texts that nothing here depends on; of the settings the name and the time
zone.  In `Sso` the cryptography of tokens, PKCE and nonces is taken to be sound:
a token is valid or not, and its claims fit its attempt or do not.
