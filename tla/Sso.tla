-------------------------------- MODULE Sso --------------------------------
(***************************************************************************)
(* Single sign-on: sso.rs, routes/sso.rs and sso_complete of               *)
(* web/pages/auth.rs.                                                      *)
(*                                                                         *)
(* A login attempt stands for the random state, nonce and PKCE verifier    *)
(* that begin_login draws for it.  The maps of SsoService live in memory,  *)
(* each behind a lock of its own; a callback gives the locks back while it *)
(* waits for Entra ID or for the database, so callbacks interleave there.  *)
(* Entra ID itself is external: it knows the people by their subject,      *)
(* signs with one key at a time and may fail to answer.  A row of users is *)
(* its index.                                                              *)
(***************************************************************************)
EXTENDS Naturals, Sequences

CONSTANTS
  Logins,         \* the login attempts
  Subjects,       \* the people Entra ID knows
  Emails,
  EmailOf,        \* the email it asserts for each of them
  UserTables,     \* the users tables to begin with
  Handlers,       \* callbacks under way at a time
  Redeemers,      \* redemptions under way at a time
  None,
  MaxCallbacks,   \* bound on callbacks
  MaxKeys,        \* bound on the signing keys
  MaxEvents       \* bound on edits of users, dropped handlers and restarts

ASSUME SsoAssumption ==
  /\ EmailOf \in [Subjects -> Emails]
  /\ None \notin Subjects
  /\ {MaxCallbacks, MaxKeys, MaxEvents} \subseteq Nat

User == [email : Emails, subject : Subjects \cup {None}, is_active : BOOLEAN]

\* The tables hold the unique keys that the database enforces.
ASSUME UserTablesAssumption ==
  \A table \in UserTables :
    /\ table \in Seq(User)
    /\ \A u, v \in DOMAIN table :
         u # v => /\ table[u].email # table[v].email
                  /\ table[u].subject # None => table[u].subject # table[v].subject

VARIABLES
  users,          \* the users table
  pending_logins, \* the attempts in the map of that name
  late,           \* those among them that have outlived PENDING_LOGIN_TTL
  handoff_codes,  \* every code issued, with what has become of it
  jwks_cache,     \* the keys of the last refresh and whether they still count
  signing,        \* external: the key that Entra ID publishes and signs with
  person,         \* external: who signs in with each attempt
  handler,        \* the locals of each callback
  redeemer,       \* the locals of each redemption
  calls, events

vars == <<users, pending_logins, late, handoff_codes, jwks_cache, signing,
          person, handler, redeemer, calls, events>>

----------------------------------------------------------------------------
\* A callback that is not running.  alone is history: nothing else ran that
\* changes the caches or the users table.
Idle == [pc |-> "idle", login |-> None, kid |-> 0, keys |-> {},
         user_id |-> 0, reason |-> "none", alone |-> TRUE]
NotRedeeming == [pc |-> "idle", code |-> 0]

NewUser(email, subject) == [email |-> email, subject |-> subject, is_active |-> TRUE]

\* The unique keys of the users table, for row u with this email and subject.
UniqueKeys_of_nothing(u, email, subject) == TRUE
UniqueKeys(u, email, subject) ==
  \A v \in DOMAIN users \ {u} :
    /\ users[v].email # email
    /\ subject # None => users[v].subject # subject

Init ==
  /\ users \in UserTables
  /\ pending_logins = {} /\ late = {} /\ handoff_codes = <<>>
  /\ jwks_cache = [keys |-> {}, fresh |-> FALSE]
  /\ signing = 1
  /\ person = [l \in Logins |-> None]
  /\ handler = [h \in Handlers |-> Idle]
  /\ redeemer = [r \in Redeemers |-> NotRedeeming]
  /\ calls = 0 /\ events = 0

----------------------------------------------------------------------------
(* A login attempt.  Every use of a map first sweeps what has outlived it. *)

\* GET /auth/sso/login; the browser is sent to Entra ID, where s signs in.
begin_login(l, s) ==
  /\ person[l] = None
  /\ person' = [person EXCEPT ![l] = s]
  /\ pending_logins' = (pending_logins \ late) \cup {l}
  /\ late' = {}
  /\ UNCHANGED <<users, handoff_codes, jwks_cache, signing, handler, redeemer,
                 calls, events>>

Become(h, locals) == handler' = [handler EXCEPT ![h] = locals]
Goto(h, pc) == Become(h, [handler[h] EXCEPT !.pc = pc])
Refuse(h, reason) ==
  Become(h, [handler[h] EXCEPT !.pc = "refused", !.reason = reason])

\* The handlers after h has started: neither it nor those that run are alone.
Started(h, locals) ==
  [g \in Handlers |->
     IF g = h THEN [locals EXCEPT !.alone = \A f \in Handlers : handler[f].pc = "idle"]
     ELSE IF handler[g].pc = "idle" THEN handler[g]
     ELSE [handler[g] EXCEPT !.alone = FALSE]]

Kept_pending(l) == pending_logins \ late
Kept(l) == (pending_logins \ late) \ {l}

\* GET /auth/sso/callback, which a browser may send again: complete_login up
\* to its request to Entra ID.
callback(h, l) ==
  /\ handler[h].pc = "idle" /\ person[l] # None /\ calls < MaxCallbacks
  /\ calls' = calls + 1
  /\ pending_logins' = Kept(l)
  /\ late' = {}
  /\ handler' = Started(h, IF l \in pending_logins \ late
                           THEN [Idle EXCEPT !.pc = "exchange", !.login = l]
                           ELSE [Idle EXCEPT !.pc = "refused", !.login = l, !.reason = "state"])
  /\ UNCHANGED <<users, handoff_codes, jwks_cache, signing, person, redeemer, events>>

\* The token endpoint answers with a token signed by the current key, or fails.
exchange(h) ==
  /\ handler[h].pc = "exchange"
  /\ \/ Become(h, [handler[h] EXCEPT !.pc = "key", !.kid = signing])
     \/ Refuse(h, "idp")
  /\ UNCHANGED <<users, pending_logins, late, handoff_codes, jwks_cache, signing,
                 person, redeemer, calls, events>>

cached_jwk(kid) == jwks_cache.fresh /\ kid \in jwks_cache.keys

\* The key is there: the token's claims are sound (this attempt's nonce, an
\* email) and the account is looked up, or they are not.
Verified(h) ==
  \/ Become(h, [handler[h] EXCEPT !.pc = "subject", !.kid = 0, !.keys = {}])
  \/ Refuse(h, "claims")

OnMiss_give_up(h) == IF jwks_cache.fresh THEN Refuse(h, "key") ELSE Goto(h, "fetch")
OnMiss(h) == Goto(h, "fetch")

signing_key(h) ==
  /\ handler[h].pc = "key"
  /\ IF cached_jwk(handler[h].kid) THEN Verified(h) ELSE OnMiss(h)
  /\ UNCHANGED <<users, pending_logins, late, handoff_codes, jwks_cache, signing,
                 person, redeemer, calls, events>>

\* refresh_jwks: the answer of the discovery endpoint, then the write.
refresh_jwks_fetch(h) ==
  /\ handler[h].pc = "fetch"
  /\ \/ Become(h, [handler[h] EXCEPT !.pc = "store", !.keys = {signing}])
     \/ Refuse(h, "idp")
  /\ UNCHANGED <<users, pending_logins, late, handoff_codes, jwks_cache, signing,
                 person, redeemer, calls, events>>

refresh_jwks_store(h) ==
  /\ handler[h].pc = "store"
  /\ jwks_cache' = [keys |-> handler[h].keys, fresh |-> TRUE]
  /\ Goto(h, "again")
  /\ UNCHANGED <<users, pending_logins, late, handoff_codes, signing, person,
                 redeemer, calls, events>>

signing_key_again(h) ==
  /\ handler[h].pc = "again"
  /\ IF cached_jwk(handler[h].kid) THEN Verified(h) ELSE Refuse(h, "key")
  /\ UNCHANGED <<users, pending_logins, late, handoff_codes, jwks_cache, signing,
                 person, redeemer, calls, events>>

----------------------------------------------------------------------------
(* provision_or_link_user, and the end of the callback.                    *)

SubjectOf(h) == person[handler[h].login]
EmailFor(h) == EmailOf[SubjectOf(h)]

Swept == [c \in DOMAIN handoff_codes |->
            IF handoff_codes[c].state = "late" THEN [handoff_codes[c] EXCEPT !.state = "gone"]
                                               ELSE handoff_codes[c]]

NewCode(h, u) ==
  [login |-> handler[h].login, subject |-> SubjectOf(h), user_id |-> u,
   state |-> "live", signed |-> 0, alone |-> handler[h].alone]

\* The account was read as row u: issue_handoff_code, unless it is inactive.
Admit(h, u) ==
  \/ /\ users[u].is_active
     /\ handoff_codes' = Append(Swept, NewCode(h, u))
     /\ Become(h, Idle)
  \/ /\ ~users[u].is_active
     /\ Become(h, [handler[h] EXCEPT !.pc = "refused", !.reason = "inactive",
                                        !.user_id = u])
     /\ UNCHANGED handoff_codes

get_by_external_idp_subject(h) ==
  /\ handler[h].pc = "subject"
  /\ \/ \E u \in DOMAIN users : users[u].subject = SubjectOf(h) /\ Admit(h, u)
     \/ /\ \A u \in DOMAIN users : users[u].subject # SubjectOf(h)
        /\ Goto(h, "email")
        /\ UNCHANGED handoff_codes
  /\ UNCHANGED <<users, pending_logins, late, jwks_cache, signing, person,
                 redeemer, calls, events>>

\* An account with the email is linked, unless it is linked already.
Matched_whatever_subject(h, u) ==
  Become(h, [handler[h] EXCEPT !.pc = "link", !.user_id = u])
Matched(h, u) ==
  IF users[u].subject # None THEN Refuse(h, "conflict")
  ELSE Become(h, [handler[h] EXCEPT !.pc = "link", !.user_id = u])

get_by_email(h) ==
  /\ handler[h].pc = "email"
  /\ \/ \E u \in DOMAIN users : users[u].email = EmailFor(h) /\ Matched(h, u)
     \/ /\ \A u \in DOMAIN users : users[u].email # EmailFor(h)
        /\ Goto(h, "create")
  /\ UNCHANGED <<users, pending_logins, late, handoff_codes, jwks_cache, signing,
                 person, redeemer, calls, events>>

\* UPDATE users SET external_idp_subject, whatever the row has become.
link_external_idp_subject(h) ==
  LET u == handler[h].user_id
  IN /\ handler[h].pc = "link"
     /\ \/ /\ UniqueKeys(u, users[u].email, SubjectOf(h))
           /\ users' = [users EXCEPT ![u].subject = SubjectOf(h)]
           /\ Goto(h, "read")
        \/ /\ ~UniqueKeys(u, users[u].email, SubjectOf(h))
           /\ Refuse(h, "exists")
           /\ UNCHANGED users
     /\ UNCHANGED <<pending_logins, late, handoff_codes, jwks_cache, signing,
                    person, redeemer, calls, events>>

create(h) ==
  /\ handler[h].pc = "create"
  /\ \/ /\ UniqueKeys(0, EmailFor(h), SubjectOf(h))
        /\ users' = Append(users, NewUser(EmailFor(h), SubjectOf(h)))
        /\ Become(h, [handler[h] EXCEPT !.pc = "read", !.user_id = Len(users) + 1])
     \/ /\ ~UniqueKeys(0, EmailFor(h), SubjectOf(h))
        /\ Refuse(h, "exists")
        /\ UNCHANGED users
  /\ UNCHANGED <<pending_logins, late, handoff_codes, jwks_cache, signing, person,
                 redeemer, calls, events>>

\* The get_by_id at the end of either; no row of users is ever deleted.
get_by_id(h) ==
  /\ handler[h].pc = "read"
  /\ Admit(h, handler[h].user_id)
  /\ UNCHANGED <<users, pending_logins, late, jwks_cache, signing, person,
                 redeemer, calls, events>>

\* The error reaches the browser.
Answer(h) ==
  /\ handler[h].pc = "refused"
  /\ Become(h, Idle)
  /\ UNCHANGED <<users, pending_logins, late, handoff_codes, jwks_cache, signing,
                 person, redeemer, calls, events>>

----------------------------------------------------------------------------
(* POST /auth/sso/token and /login/sso-complete.                           *)

Redeemed(c) == [Swept EXCEPT ![c].state = "gone"]

redeem_handoff_code(r, c) ==
  /\ redeemer[r].pc = "idle"
  /\ handoff_codes' = Redeemed(c)
  /\ redeemer' = IF handoff_codes[c].state = "live"
                 THEN [redeemer EXCEPT ![r] = [pc |-> "user", code |-> c]] ELSE redeemer
  /\ UNCHANGED <<users, pending_logins, late, jwks_cache, signing, person, handler,
                 calls, events>>

token_user(r) ==
  /\ redeemer[r].pc = "user"
  /\ redeemer' = [redeemer EXCEPT ![r] =
                    IF users[handoff_codes[redeemer[r].code].user_id].is_active
                    THEN [@ EXCEPT !.pc = "issue"] ELSE NotRedeeming]
  /\ UNCHANGED <<users, pending_logins, late, handoff_codes, jwks_cache, signing,
                 person, handler, calls, events>>

\* issue_token_pair: the session row is inserted.
token_issue(r) ==
  /\ redeemer[r].pc = "issue"
  /\ handoff_codes' = [handoff_codes EXCEPT ![redeemer[r].code].signed = @ + 1]
  /\ redeemer' = [redeemer EXCEPT ![r] = NotRedeeming]
  /\ UNCHANGED <<users, pending_logins, late, jwks_cache, signing, person, handler,
                 calls, events>>

----------------------------------------------------------------------------
(* Time, admins, Entra ID and failures.                                    *)

PendingExpires(l) ==
  /\ l \in pending_logins \ late
  /\ late' = late \cup {l}
  /\ UNCHANGED <<users, pending_logins, handoff_codes, jwks_cache, signing, person,
                 handler, redeemer, calls, events>>

CodeExpires(c) ==
  /\ handoff_codes[c].state = "live"
  /\ handoff_codes' = [handoff_codes EXCEPT ![c].state = "late"]
  /\ UNCHANGED <<users, pending_logins, late, jwks_cache, signing, person, handler,
                 redeemer, calls, events>>

\* JWKS_CACHE_TTL does not pass between a refresh and the look-up after it.
CacheExpires ==
  /\ jwks_cache.fresh
  /\ \A h \in Handlers : handler[h].pc # "again"
  /\ jwks_cache' = [jwks_cache EXCEPT !.fresh = FALSE]
  /\ UNCHANGED <<users, pending_logins, late, handoff_codes, signing, person,
                 handler, redeemer, calls, events>>

RotateKey ==
  /\ signing < MaxKeys
  /\ signing' = signing + 1
  /\ UNCHANGED <<users, pending_logins, late, handoff_codes, jwks_cache, person,
                 handler, redeemer, calls, events>>

Disturbed ==
  [h \in Handlers |-> IF handler[h].pc = "idle" THEN handler[h]
                      ELSE [handler[h] EXCEPT !.alone = FALSE]]

Event == events < MaxEvents /\ events' = events + 1

Edit ==
  /\ Event
  /\ handler' = Disturbed
  /\ UNCHANGED <<pending_logins, late, handoff_codes, jwks_cache, signing, person,
                 redeemer, calls>>

\* An account of a person who has not signed in yet, made by an admin or by
\* self-registration (no subject), or by an admin ahead of the first sign-in.
create_user(email, subject) ==
  /\ Edit
  /\ UniqueKeys(0, email, subject)
  /\ users' = Append(users, NewUser(email, subject))

update_user(u, is_active) ==
  /\ Edit
  /\ users[u].is_active # is_active
  /\ users' = [users EXCEPT ![u].is_active = is_active]

\* The browser goes away and the handler is dropped where it waits.
Drop(h) ==
  /\ Event
  /\ handler[h].pc \notin {"idle", "refused"}
  /\ Become(h, Idle)
  /\ UNCHANGED <<users, pending_logins, late, handoff_codes, jwks_cache, signing,
                 person, redeemer, calls>>

DropRedemption(r) ==
  /\ Event
  /\ redeemer[r].pc # "idle"
  /\ redeemer' = [redeemer EXCEPT ![r] = NotRedeeming]
  /\ UNCHANGED <<users, pending_logins, late, handoff_codes, jwks_cache, signing,
                 person, handler, calls>>

\* A new process has a new SsoService (SsoService::new).
Restart ==
  /\ Event
  /\ pending_logins' = {} /\ late' = {}
  /\ handoff_codes' = [c \in DOMAIN handoff_codes |-> [handoff_codes[c] EXCEPT !.state = "gone"]]
  /\ jwks_cache' = [keys |-> {}, fresh |-> FALSE]
  /\ handler' = [h \in Handlers |-> Idle]
  /\ redeemer' = [r \in Redeemers |-> NotRedeeming]
  /\ UNCHANGED <<users, signing, person, calls>>

Callback(h) ==
  \/ exchange(h) \/ signing_key(h) \/ refresh_jwks_fetch(h) \/ refresh_jwks_store(h)
  \/ signing_key_again(h) \/ get_by_external_idp_subject(h) \/ get_by_email(h)
  \/ link_external_idp_subject(h) \/ create(h) \/ get_by_id(h) \/ Answer(h)

Next ==
  \/ \E l \in Logins, s \in Subjects : begin_login(l, s)
  \/ \E h \in Handlers, l \in Logins : callback(h, l)
  \/ \E h \in Handlers : Callback(h) \/ Drop(h)
  \/ \E r \in Redeemers :
       \/ \E c \in DOMAIN handoff_codes : redeem_handoff_code(r, c)
       \/ token_user(r)
       \/ token_issue(r)
       \/ DropRedemption(r)
  \/ \E l \in Logins : PendingExpires(l)
  \/ \E c \in DOMAIN handoff_codes : CodeExpires(c)
  \/ CacheExpires \/ RotateKey \/ Restart
  \/ \E email \in Emails, subject \in Subjects \cup {None} : create_user(email, subject)
  \/ \E u \in DOMAIN users, is_active \in BOOLEAN : update_user(u, is_active)

Spec == Init /\ [][Next]_vars

----------------------------------------------------------------------------
(* Properties.                                                             *)

\* However the first sign-ins of a person interleave with each other, with
\* those of others and with the admins, all of that person's sign-ins reach
\* one account, which bears the person's subject (provision_or_link_user).
\* The one way to lose it: the callback overlapped with that of somebody whom
\* Entra ID knows by the same email, whose link_external_idp_subject came last.
TakenOver(c) ==
  LET code == handoff_codes[c]
      row == users[code.user_id]
  IN /\ ~code.alone
     /\ row.subject \notin {None, code.subject}
     /\ EmailOf[row.subject] = row.email /\ EmailOf[code.subject] = row.email

OneAccountPerPerson ==
  \A c, d \in DOMAIN handoff_codes :
    /\ TakenOver(c) \/ users[handoff_codes[c].user_id].subject = handoff_codes[c].subject
    /\ handoff_codes[c].subject = handoff_codes[d].subject =>
         \/ handoff_codes[c].user_id = handoff_codes[d].user_id
         \/ TakenOver(c) \/ TakenOver(d)

\* Two people whom Entra ID knows by the same email never get into the same
\* account, as long as their callbacks do not overlap ("already linked to a
\* different subject").
OnePersonPerAccount ==
  \A c, d \in DOMAIN handoff_codes :
    /\ handoff_codes[c].user_id = handoff_codes[d].user_id
    /\ handoff_codes[c].alone
    /\ handoff_codes[d].alone
    => handoff_codes[c].subject = handoff_codes[d].subject

\* One login attempt opens at most one session, however often its callback and
\* its handoff code are sent and across restarts (both are single use).
OneSessionPerLogin ==
  /\ \A c, d \in DOMAIN handoff_codes :
       handoff_codes[c].login = handoff_codes[d].login => c = d
  /\ \A c \in DOMAIN handoff_codes : handoff_codes[c].signed <= 1

\* A callback that nothing else interferes with is only turned away for a
\* reason: the key that signed its token is no longer published ("give up if
\* it's genuinely not there"), the email belongs to another subject's account,
\* or the account is inactive.
RefusalIsGenuine ==
  \A h \in Handlers :
    LET r == handler[h].reason
    IN handler[h].pc = "refused" /\ handler[h].alone =>
         /\ r = "key" => handler[h].kid # signing
         /\ r = "conflict" =>
              \E u \in DOMAIN users :
                /\ users[u].email = EmailFor(h)
                /\ users[u].subject \notin {None, SubjectOf(h)}
         /\ r = "inactive" => ~users[handler[h].user_id].is_active
         /\ r # "exists"
=============================================================================
