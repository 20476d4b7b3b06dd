--------------------------- MODULE Administration ---------------------------
(***************************************************************************)
(* What admins do to the organisation: its logo and those of departments   *)
(* (uploads.rs, routes/settings.rs, routes/departments.rs), its settings,  *)
(* and the roles and accounts of its users (routes/users.rs,               *)
(* web/pages/admin/users.rs), with self-registration (routes/auth.rs) and  *)
(* the bootstrap admin of a restart (main.rs).                             *)
(*                                                                         *)
(* Logos are kept twice, as files below uploads_dir and as logo_url of a   *)
(* row, and no lock or transaction spans the two.  A slot is a row with a  *)
(* logo_url: Org, or a department.  A file is the number of its upload, as *)
(* every upload draws a fresh name; 0 is no logo.                          *)
(***************************************************************************)
EXTENDS Naturals, FiniteSets

CONSTANTS
  Org,            \* the slot of org_settings
  Departments,    \* the ids of departments
  Users,          \* the ids of users
  Bootstrap,      \* the user with bootstrap_admin_email
  Handlers,       \* requests under way at a time
  InitialUsers,   \* the users tables to begin with
  None,
  MaxRequests,    \* bound on the requests
  MaxFaults       \* bound on failures, lost requests and restarts

ASSUME AdministrationAssumption ==
  /\ Org \notin Departments
  /\ Bootstrap \in Users
  /\ IsFiniteSet(Handlers)
  /\ {MaxRequests, MaxFaults} \subseteq Nat

Slots == {Org} \cup Departments

VARIABLES
  users,        \* the users table
  allow_local_signup,
  department,   \* whether each department is not there yet, present or deleted
  logo,         \* logo_url of each slot
  files,        \* the files below uploads_dir
  written,      \* how many uploads have been given a file name
  handler,      \* the locals of each request
  settled,      \* history: the slots whose last request came to its end
  mishaps,      \* history: logo requests that did not, and deleted logos
  tangled,      \* history: updates of users overlapped, or one was of oneself
  requests, faults

vars == <<users, allow_local_signup, department, logo, files, written, handler, settled, mishaps,
          tangled, requests, faults>>
logos == <<allow_local_signup, department, logo, files, written, settled, mishaps>>

Roles == {"admin", "requester"}
User == [role : Roles, is_active : BOOLEAN]
Account(role) == [role |-> role, is_active |-> TRUE]

\* The organisation has an active admin to begin with, as bootstrap_admin sees to.
ASSUME InitialUsersAssumption ==
  /\ None \notin User
  /\ \A table \in InitialUsers :
       /\ table \in [Users -> User \cup {None}]
       /\ \E u \in Users : table[u] # None /\ table[u].is_active /\ table[u].role = "admin"

LogoKinds == {"upload_logo", "remove_logo", "delete_department"}
UserKinds == {"update_user", "deactivate_user"}

\* alone is history: no other request touched the same slot, or the users;
\* whole: nothing went wrong in it so far.
Idle == [pc |-> "idle", kind |-> "none", actor |-> None, target |-> None,
         patch |-> None, previous |-> 0, file |-> 0, alone |-> TRUE, whole |-> TRUE]

Running(h) == handler[h].pc # "idle"
Present == {Org} \cup {d \in Departments : department[d] = "present"}
IsAdmin(u) == users[u] # None /\ users[u].is_active /\ users[u].role = "admin"

Init ==
  /\ users \in InitialUsers /\ allow_local_signup = FALSE
  /\ department = [d \in Departments |-> "none"]
  /\ logo = [s \in Slots |-> 0] /\ files = {} /\ written = 0
  /\ handler = [h \in Handlers |-> Idle]
  /\ settled = {} /\ mishaps = 0 /\ tangled = FALSE
  /\ requests = 0 /\ faults = 0

----------------------------------------------------------------------------
(* Requests.  Each begins with AuthUser and require_role, which read the   *)
(* account of the sender; what it does then it does in later steps.        *)

Interferes(h, kind, target) ==
  /\ Running(h)
  /\ \/ handler[h].kind \in UserKinds /\ kind \in UserKinds
     \/ handler[h].target = target

Send(h, pc, kind, actor, target, patch) ==
  /\ ~Running(h) /\ requests < MaxRequests
  /\ requests' = requests + 1
  /\ handler' = [g \in Handlers |->
       IF g = h THEN [Idle EXCEPT !.pc = pc, !.kind = kind, !.actor = actor, !.target = target,
                                  !.patch = patch,
                                  !.alone = \A f \in Handlers : ~Interferes(f, kind, target)]
       ELSE IF Interferes(g, kind, target) THEN [handler[g] EXCEPT !.alone = FALSE]
       ELSE handler[g]]
  /\ UNCHANGED <<users, logos, tangled, faults>>

Become(h, locals) == handler' = [handler EXCEPT ![h] = locals]
Goto(h, pc) == Become(h, [handler[h] EXCEPT !.pc = pc])

\* The end of a request about a logo.
Undisturbed(h) == handler[h].alone /\ handler[h].whole
Done(h) ==
  /\ Become(h, Idle)
  /\ settled' = settled \cup {handler[h].target}
  /\ mishaps' = IF Undisturbed(h) THEN mishaps ELSE mishaps + 1

----------------------------------------------------------------------------
(* Logos.                                                                  *)

\* A row that is not there, and a logo that save_logo does not accept (its
\* size, its type), end the request before anything is changed.
ReadLogo(h) ==
  /\ handler[h].pc = "read"
  /\ \/ /\ handler[h].target \in Present
        /\ Become(h, [handler[h] EXCEPT !.pc = "delete", !.previous = logo[handler[h].target]])
     \/ /\ handler[h].target \notin Present \/ handler[h].kind = "upload_logo"
        /\ Become(h, Idle)
  /\ UNCHANGED <<users, logos, tangled, requests, faults>>

AfterDelete(h) == IF handler[h].kind = "upload_logo" THEN "write" ELSE "row"

WithoutPrevious_kept(h) == files
WithoutPrevious(h) == files \ {handler[h].previous}

\* delete_logo; it may fail and does not say so.
delete_logo(h) ==
  /\ handler[h].pc = "delete"
  /\ \/ /\ files' = WithoutPrevious(h)
        /\ Goto(h, AfterDelete(h))
        /\ UNCHANGED faults
     \/ /\ faults < MaxFaults /\ faults' = faults + 1
        /\ Become(h, [handler[h] EXCEPT !.pc = AfterDelete(h), !.whole = FALSE])
        /\ UNCHANGED files
  /\ UNCHANGED <<users, allow_local_signup, department, logo, written, settled, mishaps, tangled, requests>>

\* The rest of save_logo: the file with the fresh name.
save_logo(h) ==
  /\ handler[h].pc = "write"
  /\ written' = written + 1
  /\ files' = files \cup {written + 1}
  /\ Become(h, [handler[h] EXCEPT !.pc = "row", !.file = written + 1])
  /\ UNCHANGED <<users, allow_local_signup, department, logo, settled, mishaps, tangled, requests, faults>>

\* An upload's url, and for remove_logo none.
Url_kept_by_removal(h) ==
  IF handler[h].kind = "upload_logo" THEN handler[h].file ELSE logo[handler[h].target]
Url(h) == IF handler[h].kind = "upload_logo" THEN handler[h].file ELSE 0

\* The UPDATE finds no row when the department has been deleted meanwhile.
set_logo_url(h) ==
  /\ handler[h].pc = "row"
  /\ logo' = IF handler[h].target \in Present THEN [logo EXCEPT ![handler[h].target] = Url(h)] ELSE logo
  /\ Done(h)
  /\ UNCHANGED <<users, allow_local_signup, department, files, written, tangled, requests, faults>>

create_department(d) ==
  /\ department[d] = "none"
  /\ \E actor \in Users : IsAdmin(actor)
  /\ department' = [department EXCEPT ![d] = "present"]
  /\ UNCHANGED <<users, allow_local_signup, logo, files, written, handler, settled, mishaps,
                 tangled, requests, faults>>

\* DELETE FROM departments; the file of its logo stays.
delete_department(h) ==
  LET d == handler[h].target
  IN /\ handler[h].pc = "delete_row"
     /\ department' = [department EXCEPT ![d] = IF @ = "present" THEN "deleted" ELSE @]
     /\ mishaps' = IF logo[d] # 0 THEN mishaps + 1 ELSE mishaps
     /\ logo' = [logo EXCEPT ![d] = 0]
     /\ Become(h, Idle)
     /\ UNCHANGED <<users, allow_local_signup, files, written, settled, tangled, requests, faults>>

----------------------------------------------------------------------------
(* Users.                                                                  *)

\* The one statement of org_settings::update; the other columns are texts.
update_settings(allowed) ==
  /\ requests < MaxRequests /\ requests' = requests + 1
  /\ \E actor \in Users : IsAdmin(actor)
  /\ allow_local_signup' = allowed
  /\ UNCHANGED <<users, department, logo, files, written, handler, settled, mishaps, tangled,
                 faults>>

\* register reads the settings, then looks for the email: the account is made
\* in a later step.
register(h) ==
  /\ handler[h].pc = "settings"
  /\ IF allow_local_signup THEN Goto(h, "email") ELSE Become(h, Idle)
  /\ UNCHANGED <<users, logos, tangled, requests, faults>>

get_by_email(h) ==
  /\ handler[h].pc = "email"
  /\ IF users[handler[h].target] = None THEN Goto(h, "edit")
                                        ELSE Become(h, Idle)
  /\ UNCHANGED <<users, logos, tangled, requests, faults>>

\* routes/users.rs refuses to deactivate oneself, not to update oneself.
Deactivatable_by_anyone(actor, u) == TRUE
Deactivatable(actor, u) == u # actor

Edited(u, row) == users' = [users EXCEPT ![u] = row]

\* The one statement of each; revoking the sessions is part of Sessions.  A
\* patch without role or is_active keeps what the row has: the row that it
\* makes is among those that SendUser chooses from.
edit_user(h) ==
  LET u == handler[h].target
  IN /\ handler[h].pc = "edit"
     /\ \/ handler[h].kind = "create_user" /\ users[u] = None /\ Edited(u, handler[h].patch)
        \/ handler[h].kind = "update_user" /\ users[u] # None /\ Edited(u, handler[h].patch)
        \/ /\ handler[h].kind = "deactivate_user" /\ users[u] # None
           /\ Edited(u, [users[u] EXCEPT !.is_active = FALSE])
        \/ (handler[h].kind = "create_user" <=> users[u] # None) /\ UNCHANGED users
     /\ tangled' = (tangled \/ ~handler[h].alone
                      \/ (handler[h].kind = "update_user" /\ u = handler[h].actor))
     /\ Become(h, Idle)
     /\ UNCHANGED <<logos, requests, faults>>

----------------------------------------------------------------------------
(* Failures.                                                               *)

Fault == faults < MaxFaults /\ faults' = faults + 1

\* A statement or a file operation fails, or the sender goes away: the request
\* ends where it is.  A write that fails may leave its file behind.
Fail(h) ==
  /\ Running(h) /\ Fault
  /\ \/ /\ handler[h].pc = "write"
        /\ written' = written + 1 /\ files' = files \cup {written + 1}
     \/ UNCHANGED <<written, files>>
  /\ Become(h, Idle)
  /\ settled' = settled \ {handler[h].target}
  /\ mishaps' = IF handler[h].kind \in LogoKinds THEN mishaps + 1 ELSE mishaps
  /\ UNCHANGED <<users, allow_local_signup, department, logo, tangled, requests>>

\* A restart loses the requests; bootstrap_admin makes its account unless the
\* account or any admin's is in the table, active or not.
bootstrap_admin ==
  IF users[Bootstrap] = None /\ \A u \in Users : users[u] # None => users[u].role # "admin"
  THEN [users EXCEPT ![Bootstrap] = Account("admin")] ELSE users

Lost == {h \in Handlers : Running(h) /\ handler[h].kind \in LogoKinds}

Restart ==
  /\ Fault
  /\ users' = bootstrap_admin
  /\ handler' = [h \in Handlers |-> Idle]
  /\ settled' = settled \ {handler[h].target : h \in Lost}
  /\ mishaps' = mishaps + Cardinality(Lost)
  /\ UNCHANGED <<allow_local_signup, department, logo, files, written, tangled, requests>>

\* Which admin has sent a request matters later only to an update.
SendLogo(h, slot) ==
  \/ Send(h, "read", "upload_logo", None, slot, None)
  \/ Send(h, "read", "remove_logo", None, slot, None)
  \/ slot # Org /\ Send(h, "delete_row", "delete_department", None, slot, None)

SendUser(h, actor, u) ==
  \/ \E role \in Roles : Send(h, "edit", "create_user", None, u, Account(role))
  \/ \E row \in User : Send(h, "edit", "update_user", actor, u, row)
  \/ Deactivatable(actor, u) /\ Send(h, "edit", "deactivate_user", None, u, None)

Next ==
  \/ \E h \in Handlers, actor \in Users :
       /\ IsAdmin(actor)
       /\ \/ \E slot \in Slots : SendLogo(h, slot)
          \/ \E u \in Users : SendUser(h, actor, u)
  \/ \E h \in Handlers :
       \/ ReadLogo(h) \/ delete_logo(h) \/ save_logo(h) \/ set_logo_url(h)
       \/ delete_department(h) \/ edit_user(h) \/ Fail(h)
  \/ \E h \in Handlers, u \in Users :
       Send(h, "settings", "create_user", None, u, Account("requester"))
  \/ \E h \in Handlers : register(h) \/ get_by_email(h)
  \/ \E allowed \in BOOLEAN : update_settings(allowed)
  \/ \E d \in Departments : create_department(d)
  \/ Restart

Spec == Init /\ [][Next]_vars

----------------------------------------------------------------------------
(* Properties.                                                             *)

Quiet(slot) == \A h \in Handlers : Running(h) => handler[h].target # slot

\* Whatever went wrong before, and whatever overlaps with it, an upload or a
\* removal that comes to its end puts a slot right: its row then names a file
\* that can be served, or none, until the next request about it breaks off
\* between delete_logo and set_logo_url.
LogoIsThere ==
  \A s \in settled : Quiet(s) /\ s \in Present => logo[s] \in files \cup {0}

InUse == {logo[s] : s \in Slots} \cup {handler[h].file : h \in Handlers}

\* "Old ones shouldn't accumulate on disk across replacements" (uploads.rs):
\* replacing a logo leaves nothing behind.  There are no more unused files than
\* there were requests that overlapped another on the same slot, failed or
\* deleted a department with its logo.
OldLogosAreDeleted == Cardinality(files \ InUse) <= mishaps

\* "You cannot deactivate your own account": the organisation is never left
\* without an active admin, also across restarts, unless admins update or
\* deactivate users at the same time or take their own role away.
AnAdminRemains == ~tangled => \E u \in Users : IsAdmin(u)
=============================================================================
