------------------------------ MODULE Sessions ------------------------------
(***************************************************************************)
(* Signing in and staying signed in: auth.rs, routes/auth.rs,              *)
(* web/session.rs, web/pages/auth.rs and the parts of routes/users.rs and  *)
(* web/pages/admin/users.rs that end sessions.                             *)
(*                                                                         *)
(* A client is a browser, with its two cookies, or an API client with the  *)
(* same pair of tokens.  It may have several requests under way; their     *)
(* statements interleave and their answers arrive in any order, or never.  *)
(* A refresh token is the row of sessions that holds its hash; an access   *)
(* token is only ever valid or not.  A password is the number of times it  *)
(* has been changed.                                                       *)
(***************************************************************************)
EXTENDS Integers, Sequences, FiniteSets

CONSTANTS
  Users,
  Clients,
  Owner,        \* the user that each client signs in as
  Requests,     \* how many requests are under way at a time
  Kinds,        \* the kinds of requests that clients send
  MaxRequests,  \* bound on the requests sent
  MaxSweeps,    \* bound on reset links, edits of users and expired sessions
  MaxLosses     \* bound on lost answers

ClientKinds == {"page", "api", "refresh", "login", "logout"}

ASSUME SessionsAssumption ==
  /\ Owner \in [Clients -> Users]
  /\ Kinds \subseteq ClientKinds

VARIABLES
  active,       \* users.is_active
  password,     \* users.password_hash
  sessions,     \* the rows of sessions
  resets,       \* the rows of password_resets
  client,       \* what each client holds: access, TRUE if valid; token, or 0
  request,      \* the locals of each handler
  swept,        \* history: the users whose sessions something may have ended
  overlapped,   \* history: a request was sent while another was under way
  sent, sweeps, losses

vars == <<active, password, sessions, resets, client, request, swept,
          overlapped, sent, sweeps, losses>>
bounds == <<overlapped, sent, sweeps, losses>>

----------------------------------------------------------------------------
(* Rows.  password is history: the password that a session goes back to.   *)

Session == [user : Users, password : Nat, revoked : BOOLEAN, expired : BOOLEAN]
Reset == [user : Users, used : BOOLEAN, expired : BOOLEAN]

NewReset(u) == [user |-> u, used |-> FALSE, expired |-> FALSE]
NewSession(u, p) == [user |-> u, password |-> p, revoked |-> FALSE, expired |-> FALSE]

\* The WHERE clause of redeem_refresh_token; 0 is a missing token.
Live(s) ==
  s \in DOMAIN sessions /\ ~sessions[s].revoked /\ ~sessions[s].expired
Usable(k) == ~resets[k].used /\ ~resets[k].expired

Revoked_of_user(s) ==
  [r \in DOMAIN sessions |->
     IF sessions[r].user = sessions[s].user THEN [sessions[r] EXCEPT !.revoked = TRUE]
                                            ELSE sessions[r]]
\* UPDATE sessions SET revoked_at, for one row and for all of a user's.
Revoked(s) == [sessions EXCEPT ![s].revoked = TRUE]

SweptRows_of_no_one(u) == sessions
SweptRows(u) ==
  [r \in DOMAIN sessions |->
     IF sessions[r].user = u THEN [sessions[r] EXCEPT !.revoked = TRUE] ELSE sessions[r]]

\* A handler that is not running.
None == [pc |-> "idle", kind |-> "none", client |-> 0, access |-> FALSE, token |-> 0,
         user |-> 0, password |-> 0, reset |-> 0, new |-> 0, outcome |-> "none",
         seen |-> FALSE]

Init ==
  /\ active = [u \in Users |-> TRUE] /\ password = [u \in Users |-> 0]
  /\ sessions = <<>> /\ resets = <<>>
  /\ client = [c \in Clients |-> [access |-> FALSE, token |-> 0]]
  /\ request = [q \in Requests |-> None]
  /\ swept = {} /\ overlapped = FALSE /\ sent = 0 /\ sweeps = 0 /\ losses = 0

----------------------------------------------------------------------------
(* Handlers.  seen is history: the user has been active at some time of    *)
(* the request.                                                            *)

Idle(q) == request[q].pc = "idle"
At(q, pc) == request[q].pc = pc

Become(q, locals) == request' = [request EXCEPT ![q] = locals]

Send(q, r) ==
  /\ Idle(q) /\ sent < MaxRequests
  /\ Become(q, r)
  /\ overlapped' = (overlapped \/ \E p \in Requests : ~Idle(p))
  /\ sent' = sent + 1
  /\ UNCHANGED <<active, password, sessions, resets, client, losses>>

Goto(q, pc) == Become(q, [request[q] EXCEPT !.pc = pc])
Answer(q, outcome) ==
  Become(q, [request[q] EXCEPT !.pc = "answer", !.outcome = outcome])

\* A client sends a request with the tokens that it holds.
FirstStep(kind) ==
  CASE kind \in {"page", "api"} -> "access"
    [] kind \in {"refresh", "logout"} -> "select"
    [] kind = "login" -> "authenticate"

SendRequest(q, c, kind) ==
  /\ Send(q, [None EXCEPT !.pc = FirstStep(kind), !.kind = kind, !.client = c,
                          !.access = client[c].access, !.token = client[c].token,
                          !.user = Owner[c], !.seen = active[Owner[c]]])
  /\ UNCHANGED <<swept, sweeps>>

\* valid_user_for_access_token: the account is looked up each time.
ValidAccess(q) == request[q].access /\ active[request[q].user]

\* The extractor of the API's handlers.
AuthUser(q) ==
  /\ At(q, "access") /\ request[q].kind = "api"
  /\ Answer(q, IF ValidAccess(q) THEN "served" ELSE "login")
  /\ UNCHANGED <<active, password, sessions, resets, client, swept, bounds>>

\* The middleware of the pages falls back on the refresh token.
require_session(q) ==
  /\ At(q, "access") /\ request[q].kind = "page"
  /\ IF ValidAccess(q) THEN Answer(q, "served") ELSE Goto(q, "select")
  /\ UNCHANGED <<active, password, sessions, resets, client, swept, bounds>>

\* redeem_refresh_token, first statement.
RedeemSelect(q) ==
  /\ At(q, "select")
  /\ \/ /\ Live(request[q].token)
        /\ Become(q, [request[q] EXCEPT !.pc = "revoke",
                                        !.user = sessions[request[q].token].user,
                                        !.password = sessions[request[q].token].password])
     \/ /\ ~Live(request[q].token)
        /\ Answer(q, IF request[q].kind = "logout" THEN "cleared" ELSE "login")
  /\ UNCHANGED <<active, password, sessions, resets, client, swept, bounds>>

\* logout is done then, refresh and the pages go on.
AfterRedeem(q) ==
  IF request[q].kind = "logout" THEN Answer(q, "cleared") ELSE Goto(q, "user")

\* Its second statement revokes the row whatever it has become.
RedeemRevoke(q) ==
  /\ At(q, "revoke")
  /\ sessions' = Revoked(request[q].token)
  /\ AfterRedeem(q)
  /\ UNCHANGED <<active, password, resets, client, swept, bounds>>

AfterGetUser_unfiltered(q) == Goto(q, "issue")
AfterGetUser(q) ==
  IF active[request[q].user] THEN Goto(q, "issue") ELSE Answer(q, "login")

GetUser(q) ==
  /\ At(q, "user")
  /\ AfterGetUser(q)
  /\ UNCHANGED <<active, password, sessions, resets, client, swept, bounds>>

\* authenticate_local: with the right password or a wrong one.
Authenticate(q) ==
  /\ At(q, "authenticate")
  /\ \/ /\ active[request[q].user]
        /\ Become(q, [request[q] EXCEPT !.pc = "issue",
                                        !.password = password[request[q].user]])
     \/ Answer(q, "login")
  /\ UNCHANGED <<active, password, sessions, resets, client, swept, bounds>>

CreateSession_previous_row(q) ==
  /\ At(q, "issue")
  /\ sessions' = Append(sessions, NewSession(request[q].user, request[q].password))
  /\ Become(q, [request[q] EXCEPT !.pc = "answer", !.outcome = "served", !.new = Len(sessions)])
  /\ UNCHANGED <<active, password, resets, client, swept, bounds>>

\* issue_token_pair: the access token costs nothing, the session is a row.
CreateSession(q) ==
  /\ At(q, "issue")
  /\ sessions' = Append(sessions, NewSession(request[q].user, request[q].password))
  /\ Become(q, [request[q] EXCEPT !.pc = "answer", !.outcome = "served", !.new = Len(sessions) + 1])
  /\ UNCHANGED <<active, password, resets, client, swept, bounds>>

\* What the client holds after the answer: set_session_cookies, or
\* clear_session_cookies, or what it held before.
Held(q) ==
  CASE request[q].new # 0 -> [access |-> TRUE, token |-> request[q].new]
    [] request[q].outcome = "cleared" -> [access |-> FALSE, token |-> 0]
    [] OTHER -> client[request[q].client]

Receive(q) ==
  /\ At(q, "answer")
  /\ client' = IF request[q].kind \in ClientKinds
               THEN [client EXCEPT ![request[q].client] = Held(q)] ELSE client
  /\ Become(q, None)
  /\ UNCHANGED <<active, password, sessions, resets, swept, bounds>>

\* The answer, or the rest of the handler with it, is lost.
Lose(q) ==
  /\ ~Idle(q) /\ losses < MaxLosses
  /\ losses' = losses + 1
  /\ Become(q, None)
  /\ UNCHANGED <<active, password, sessions, resets, client, swept, overlapped, sent, sweeps>>

----------------------------------------------------------------------------
(* Password resets, users that are deactivated, time.                      *)

Sweep(u) ==
  /\ sweeps < MaxSweeps
  /\ sweeps' = sweeps + 1
  /\ swept' = swept \cup {u}

\* send_password_reset_email; the link gets to its reader.
RequestReset(u) ==
  /\ Sweep(u)
  /\ active[u]
  /\ resets' = Append(resets, NewReset(u))
  /\ UNCHANGED <<active, password, sessions, client, request, overlapped, sent, losses>>

\* confirm_password_reset and submit_reset_password, with the link k.
SendReset(q, k) ==
  /\ Send(q, [None EXCEPT !.pc = "redeem", !.kind = "reset", !.reset = k])
  /\ UNCHANGED <<swept, sweeps>>

RedeemReset(q) ==
  /\ At(q, "redeem")
  /\ IF Usable(request[q].reset)
     THEN Become(q, [request[q] EXCEPT !.pc = "mark", !.user = resets[request[q].reset].user])
     ELSE Answer(q, "invalid")
  /\ UNCHANGED <<active, password, sessions, resets, client, swept, bounds>>

Marked_unused(k) == resets
Marked(k) == [resets EXCEPT ![k].used = TRUE]

MarkUsed(q) ==
  /\ At(q, "mark")
  /\ resets' = Marked(request[q].reset)
  /\ Goto(q, "password")
  /\ UNCHANGED <<active, password, sessions, client, swept, bounds>>

SetPassword(q) ==
  /\ At(q, "password")
  /\ password' = [password EXCEPT ![request[q].user] = @ + 1]
  /\ Goto(q, "sweep")
  /\ UNCHANGED <<active, sessions, resets, client, swept, bounds>>

\* deactivate_user, by an admin: the account first, then its sessions.
SendDeactivate(q, u) ==
  /\ Send(q, [None EXCEPT !.pc = "deactivate", !.kind = "deactivate", !.user = u])
  /\ Sweep(u)

Deactivate(q) ==
  /\ At(q, "deactivate")
  /\ active' = [active EXCEPT ![request[q].user] = FALSE]
  /\ Goto(q, "sweep")
  /\ UNCHANGED <<password, sessions, resets, client, swept, bounds>>

RevokeAll(q) ==
  /\ At(q, "sweep")
  /\ sessions' = SweptRows(request[q].user)
  /\ Answer(q, "done")
  /\ UNCHANGED <<active, password, resets, client, swept, bounds>>

\* The admin's form sets is_active in one statement and revokes nothing.
UpdateUser(u, a) ==
  /\ Sweep(u)
  /\ active' = [active EXCEPT ![u] = a]
  /\ request' = [q \in Requests |->
                   [request[q] EXCEPT !.seen = @ \/ (request[q].user = u /\ a)]]
  /\ UNCHANGED <<password, sessions, resets, client, overlapped, sent, losses>>

AccessExpires(c) ==
  /\ client[c].access
  /\ client' = [client EXCEPT ![c].access = FALSE]
  /\ UNCHANGED <<active, password, sessions, resets, request, swept, bounds>>

SessionExpires(s) ==
  /\ Sweep(sessions[s].user)
  /\ sessions' = [sessions EXCEPT ![s].expired = TRUE]
  /\ UNCHANGED <<active, password, resets, client, request, overlapped, sent, losses>>

ResetExpires(k) ==
  /\ ~resets[k].expired
  /\ resets' = [resets EXCEPT ![k].expired = TRUE]
  /\ UNCHANGED <<active, password, sessions, client, request, swept, bounds>>

Handler(q) ==
  \/ AuthUser(q) \/ require_session(q) \/ RedeemSelect(q) \/ RedeemRevoke(q) \/ GetUser(q)
  \/ Authenticate(q) \/ CreateSession(q) \/ Receive(q)
  \/ RedeemReset(q) \/ MarkUsed(q) \/ SetPassword(q)
  \/ Deactivate(q) \/ RevokeAll(q)

Next ==
  \/ \E q \in Requests, c \in Clients, kind \in Kinds : SendRequest(q, c, kind)
  \/ \E q \in Requests, k \in DOMAIN resets : SendReset(q, k)
  \/ \E q \in Requests, u \in Users : SendDeactivate(q, u)
  \/ \E q \in Requests : Handler(q) \/ Lose(q)
  \/ \E u \in Users : RequestReset(u) \/ \E a \in BOOLEAN : UpdateUser(u, a)
  \/ \E c \in Clients : AccessExpires(c)
  \/ \E s \in DOMAIN sessions : SessionExpires(s)
  \/ \E k \in DOMAIN resets : ResetExpires(k)

Spec == Init /\ [][Next]_vars

----------------------------------------------------------------------------
(* Properties.                                                             *)

Quiet(c) == \A q \in Requests : request[q].client # c
Undisturbed == ~overlapped /\ losses = 0 /\ \A q \in Requests : Idle(q)

\* Rows and locals are well formed: a handler only revokes a session, and only
\* answers with a session, of its own client's user.
TypeOK ==
  /\ active \in [Users -> BOOLEAN] /\ password \in [Users -> Nat]
  /\ sessions \in Seq(Session) /\ resets \in Seq(Reset) /\ swept \subseteq Users
  /\ \A c \in Clients :
       client[c].token # 0 => sessions[client[c].token].user = Owner[c]
  /\ \A q \in Requests :
       /\ request[q].pc \in {"revoke", "user"} =>
            sessions[request[q].token].user = request[q].user
       /\ request[q].new # 0 => sessions[request[q].new].user = Owner[request[q].client]
       /\ request[q].pc = "sweep" => request[q].user \in Users

\* However many pages a browser loads at once and in whatever order their
\* answers arrive, it ends up with a refresh token that still works: rotating
\* the token never signs anyone out who waits for the answers.
QuietIsSignedIn ==
  \A c \in Clients :
    (Quiet(c) /\ losses = 0 /\ Owner[c] \notin swept /\ client[c].token # 0)
      => Live(client[c].token)

\* A deactivated account stops working at once: a request that was sent after
\* the account was deactivated is not served as its user, not even while the
\* account's sessions are still being revoked.
ServedWasActive ==
  \A q \in Requests : request[q].outcome = "served" => request[q].seen

\* A reset signs out everyone who signed in with the old password: when
\* requests do not overlap and none is lost, a live session goes back to the
\* current password.
ResetSignsOut ==
  Undisturbed =>
    \A s \in DOMAIN sessions :
      Live(s) => sessions[s].password = password[sessions[s].user]

UsedLinks(u) == {k \in DOMAIN resets : resets[k].user = u /\ resets[k].used}

\* A reset link sets a password once: when requests do not overlap and none is
\* lost, there were as many changes of a password as links were used.
ResetLinkWorksOnce ==
  Undisturbed => \A u \in Users : password[u] = Cardinality(UsedLinks(u))

\* A reset link is single-use (redeem_password_reset_token), whatever else is
\* under way: a password is never changed more often than links were used.
ResetLinkIsSingleUse ==
  \A u \in Users : password[u] <= Cardinality(UsedLinks(u))
=============================================================================
