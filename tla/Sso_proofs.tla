----------------------------- MODULE Sso_proofs -----------------------------
(***************************************************************************)
(* What Sso promises of single sign-on, proved for any number of attempts, *)
(* people, emails, callbacks and redemptions, and whatever the bounds.     *)
(***************************************************************************)
EXTENDS Sso, TLAPS

----------------------------------------------------------------------------
(* The inductive invariant.                                                *)

Waits == {"exchange", "key", "fetch", "store", "again", "subject", "email",
          "link", "create", "read"}

Locals ==
  [pc : Waits \cup {"idle", "refused"}, login : Logins \cup {None}, kid : Nat,
   keys : SUBSET Nat, user_id : Nat, alone : BOOLEAN,
   reason : {"none", "state", "idp", "claims", "key", "inactive", "conflict", "exists"}]

Code ==
  [login : Logins, subject : Subjects, user_id : Nat,
   state : {"live", "late", "gone"}, signed : Nat, alone : BOOLEAN]

Typed ==
  /\ users \in Seq(User)
  /\ pending_logins \subseteq Logins
  /\ handoff_codes \in Seq(Code)
  /\ jwks_cache \in [keys : SUBSET Nat, fresh : BOOLEAN]
  /\ signing \in Nat
  /\ person \in [Logins -> Subjects \cup {None}]
  /\ handler \in [Handlers -> Locals]
  /\ redeemer \in [Redeemers -> [pc : {"idle", "user", "issue"}, code : Nat]]

\* A login attempt is in one place: it waits in pending_logins, a callback
\* holds it, or one code was issued for it.
Attempts ==
  /\ \A l \in pending_logins : person[l] # None
  /\ \A h \in Handlers :
       handler[h].pc # "idle" => handler[h].login \in Logins /\ SubjectOf(h) \in Subjects
  /\ \A h \in Handlers : handler[h].pc \in Waits =>
       /\ handler[h].login \notin pending_logins
       /\ \A g \in Handlers \ {h} :
            handler[g].pc \in Waits => handler[g].login # handler[h].login
       /\ \A c \in DOMAIN handoff_codes : handoff_codes[c].login # handler[h].login
  /\ \A c \in DOMAIN handoff_codes :
       /\ person[handoff_codes[c].login] = handoff_codes[c].subject
       /\ handoff_codes[c].login \notin pending_logins
       /\ \A d \in DOMAIN handoff_codes \ {c} :
            handoff_codes[d].login # handoff_codes[c].login

\* A code whose session is being issued is out of the map, in one redemption.
Redemptions ==
  /\ \A r \in Redeemers : redeemer[r].pc # "idle" =>
       /\ redeemer[r].code \in DOMAIN handoff_codes
       /\ handoff_codes[redeemer[r].code].state = "gone"
       /\ handoff_codes[redeemer[r].code].signed = 0
       /\ \A q \in Redeemers \ {r} :
            redeemer[q].pc # "idle" => redeemer[q].code # redeemer[r].code
  /\ \A c \in DOMAIN handoff_codes :
       /\ handoff_codes[c].signed <= 1
       /\ handoff_codes[c].state # "gone" => handoff_codes[c].signed = 0

\* The unique keys of the users table.
Keyed ==
  \A u, v \in DOMAIN users :
    u # v => /\ users[u].email # users[v].email
             /\ users[u].subject # None => users[u].subject # users[v].subject

\* A callback whose alone is still set has every other one idle.
Alone ==
  \A h, g \in Handlers :
    h # g /\ handler[h].pc # "idle" /\ handler[h].alone => handler[g].pc = "idle"

\* Row u is linked to somebody by way of the email.
LinkedByEmail(u) == users[u].subject # None /\ EmailOf[users[u].subject] = users[u].email

\* The account of callback h: the row it is about to link goes by the email,
\* and the row it has linked is still its own unless another callback that
\* overlapped linked it later.
AccountOfCallback(h) ==
  LET u == handler[h].user_id
  IN /\ handler[h].pc = "link" =>
          /\ u \in DOMAIN users
          /\ users[u].email = EmailFor(h)
          /\ users[u].subject = None \/ LinkedByEmail(u)
     /\ handler[h].pc = "read" =>
          /\ u \in DOMAIN users
          /\ users[u].subject # SubjectOf(h) =>
               ~handler[h].alone /\ LinkedByEmail(u) /\ users[u].email = EmailFor(h)

\* The same of code c; nobody is about to link the account of a callback that
\* was alone.
AccountOfCode(c) ==
  LET u == handoff_codes[c].user_id
  IN /\ u \in DOMAIN users
     /\ users[u].subject # handoff_codes[c].subject =>
          /\ ~handoff_codes[c].alone
          /\ LinkedByEmail(u)
          /\ users[u].email = EmailOf[handoff_codes[c].subject]
     /\ \A h \in Handlers :
          handler[h].pc = "link" /\ handler[h].user_id = u => ~handoff_codes[c].alone

Accounts ==
  /\ \A h \in Handlers : AccountOfCallback(h)
  /\ \A c \in DOMAIN handoff_codes : AccountOfCode(c)

\* The keys a callback has seen are in order.
Keys ==
  \A h \in Handlers :
    /\ handler[h].kid <= signing
    /\ handler[h].pc \in {"store", "again"} =>
         \E n \in handler[h].keys : handler[h].keys = {n} /\ handler[h].kid <= n /\ n <= signing
    /\ handler[h].pc = "again" /\ handler[h].alone =>
         jwks_cache.fresh /\ jwks_cache.keys = handler[h].keys

\* What a callback that is alone has read is still so, and its refusal is
\* genuine.
CurrentFor(h) == handler[h].alone =>
  /\ handler[h].pc \in {"email", "link", "create"} =>
       \A u \in DOMAIN users : users[u].subject # SubjectOf(h)
  /\ handler[h].pc = "create" => \A u \in DOMAIN users : users[u].email # EmailFor(h)
  /\ handler[h].pc = "refused" =>
       LET r == handler[h].reason
       IN /\ r = "key" => handler[h].kid < signing
          /\ r = "conflict" =>
               \E u \in DOMAIN users :
                 /\ users[u].email = EmailFor(h)
                 /\ users[u].subject \notin {None, SubjectOf(h)}
          /\ r = "inactive" =>
               handler[h].user_id \in DOMAIN users /\ ~users[handler[h].user_id].is_active
          /\ r # "exists"

Current == \A h \in Handlers : CurrentFor(h)

SsoInv ==
  Typed /\ Attempts /\ Redemptions /\ Keyed /\ Alone /\ Accounts /\ Keys /\ Current

----------------------------------------------------------------------------
(* What the steps do to the locals of the callbacks.                       *)

LEMMA IdleTyped ==
  /\ Idle \in Locals /\ Idle.pc = "idle" /\ Idle.kid = 0
  /\ NotRedeeming \in [pc : {"idle", "user", "issue"}, code : Nat]
  /\ NotRedeeming.pc = "idle"
BY DEF Idle, NotRedeeming, Locals

\* Callback h goes on from where it waits: its attempt and alone stay.
Moves(h) ==
  /\ handler' \in [Handlers -> Locals]
  /\ \A g \in Handlers \ {h} : handler'[g] = handler[g]
  /\ handler[h].pc \in Waits /\ handler'[h].pc \in Waits \cup {"refused"}
  /\ handler'[h].login = handler[h].login /\ handler'[h].alone = handler[h].alone

\* Callback h has come to its end.
Ends(h) ==
  /\ handler' \in [Handlers -> Locals]
  /\ \A g \in Handlers \ {h} : handler'[g] = handler[g]
  /\ handler'[h] = Idle

\* Every callback stays where it is; some are no longer alone.
Stays ==
  /\ handler' \in [Handlers -> Locals]
  /\ \A h \in Handlers :
       /\ handler'[h].pc = handler[h].pc /\ handler'[h].login = handler[h].login
       /\ handler'[h].kid = handler[h].kid /\ handler'[h].keys = handler[h].keys
       /\ handler'[h].user_id = handler[h].user_id
       /\ handler'[h].reason = handler[h].reason
       /\ handler'[h].alone => handler[h].alone

LEMMA BecomeSets ==
  ASSUME handler \in [Handlers -> Locals], NEW h \in Handlers, NEW y \in Locals,
         Become(h, y)
  PROVE  /\ handler' \in [Handlers -> Locals]
         /\ \A g \in Handlers \ {h} : handler'[g] = handler[g]
         /\ handler'[h] = y
BY DEF Become

\* The locals of callback h after a step.
Has(h, pc, kid, keys, user_id, reason) ==
  /\ handler'[h].pc = pc /\ handler'[h].kid = kid /\ handler'[h].keys = keys
  /\ handler'[h].user_id = user_id /\ handler'[h].reason = reason

LEMMA BecomeMoves ==
  ASSUME handler \in [Handlers -> Locals], NEW h \in Handlers, handler[h].pc \in Waits,
         NEW y \in Locals, Become(h, y), y.pc \in Waits \cup {"refused"},
         y.login = handler[h].login, y.alone = handler[h].alone
  PROVE  Moves(h) /\ Has(h, y.pc, y.kid, y.keys, y.user_id, y.reason)
BY BecomeSets DEF Moves, Has

LEMMA GotoMoves ==
  ASSUME handler \in [Handlers -> Locals], NEW h \in Handlers, handler[h].pc \in Waits,
         NEW p \in Waits, Goto(h, p)
  PROVE  /\ Moves(h)
         /\ Has(h, p, handler[h].kid, handler[h].keys, handler[h].user_id, handler[h].reason)
<1> DEFINE y == [handler[h] EXCEPT !.pc = p]
<1>1. handler[h] \in Locals
  OBVIOUS
<1>2. /\ y \in Locals /\ y.pc = p /\ y.login = handler[h].login /\ y.alone = handler[h].alone
      /\ y.kid = handler[h].kid /\ y.keys = handler[h].keys
      /\ y.user_id = handler[h].user_id /\ y.reason = handler[h].reason
  BY <1>1 DEF Locals
<1>3. Become(h, y)
  BY DEF Goto
<1> HIDE DEF y
<1>4. Moves(h) /\ Has(h, y.pc, y.kid, y.keys, y.user_id, y.reason)
  BY <1>2, <1>3, BecomeMoves
<1> QED  BY <1>2, <1>4

LEMMA RefuseMoves ==
  ASSUME handler \in [Handlers -> Locals], NEW h \in Handlers, handler[h].pc \in Waits,
         NEW r \in {"idp", "claims", "key", "conflict", "exists"}, Refuse(h, r)
  PROVE  /\ Moves(h)
         /\ Has(h, "refused", handler[h].kid, handler[h].keys, handler[h].user_id, r)
<1> DEFINE y == [handler[h] EXCEPT !.pc = "refused", !.reason = r]
<1>1. handler[h] \in Locals
  OBVIOUS
<1>2. /\ y \in Locals /\ y.pc = "refused" /\ y.login = handler[h].login
      /\ y.alone = handler[h].alone /\ y.kid = handler[h].kid /\ y.keys = handler[h].keys
      /\ y.user_id = handler[h].user_id /\ y.reason = r
  BY <1>1 DEF Locals
<1>3. Become(h, y)
  BY DEF Refuse
<1> HIDE DEF y
<1>4. Moves(h) /\ Has(h, y.pc, y.kid, y.keys, y.user_id, y.reason)
  BY <1>2, <1>3, BecomeMoves
<1> QED  BY <1>2, <1>4


LEMMA exchangeMoves ==
  ASSUME handler \in [Handlers -> Locals], signing \in Nat, NEW h \in Handlers, exchange(h)
  PROVE  LET x == handler[h]
         IN /\ Moves(h)
            /\ \/ Has(h, "key", signing, x.keys, x.user_id, x.reason)
               \/ Has(h, "refused", x.kid, x.keys, x.user_id, "idp")
<1> DEFINE y == [handler[h] EXCEPT !.pc = "key", !.kid = signing]
<1>1. handler[h] \in Locals /\ handler[h].pc \in Waits
  BY DEF exchange, Waits
<1>2. /\ y \in Locals /\ y.pc = "key" /\ y.login = handler[h].login
      /\ y.alone = handler[h].alone /\ y.kid = signing /\ y.keys = handler[h].keys
      /\ y.user_id = handler[h].user_id /\ y.reason = handler[h].reason
  BY <1>1 DEF Locals, Waits
<1>3. Become(h, y) \/ Refuse(h, "idp")
  BY DEF exchange
<1> HIDE DEF y
<1>4. CASE Become(h, y)
  <2>1. Moves(h) /\ Has(h, y.pc, y.kid, y.keys, y.user_id, y.reason)
    BY <1>1, <1>2, <1>4, BecomeMoves DEF Waits
  <2> QED  BY <2>1, <1>2
<1>5. CASE Refuse(h, "idp")
  BY <1>1, <1>5, RefuseMoves
<1> QED  BY <1>3, <1>4, <1>5

LEMMA VerifiedMoves ==
  ASSUME handler \in [Handlers -> Locals], NEW h \in Handlers, handler[h].pc \in Waits,
         Verified(h)
  PROVE  LET x == handler[h]
         IN /\ Moves(h)
            /\ \/ Has(h, "subject", 0, {}, x.user_id, x.reason)
               \/ Has(h, "refused", x.kid, x.keys, x.user_id, "claims")
<1> DEFINE y == [handler[h] EXCEPT !.pc = "subject", !.kid = 0, !.keys = {}]
<1>1. handler[h] \in Locals
  OBVIOUS
<1>2. /\ y \in Locals /\ y.pc = "subject" /\ y.login = handler[h].login
      /\ y.alone = handler[h].alone /\ y.kid = 0 /\ y.keys = {}
      /\ y.user_id = handler[h].user_id /\ y.reason = handler[h].reason
  BY <1>1 DEF Locals, Waits
<1>3. Become(h, y) \/ Refuse(h, "claims")
  BY DEF Verified
<1> HIDE DEF y
<1>4. CASE Become(h, y)
  <2>1. Moves(h) /\ Has(h, y.pc, y.kid, y.keys, y.user_id, y.reason)
    BY <1>1, <1>2, <1>4, BecomeMoves DEF Waits
  <2> QED  BY <2>1, <1>2
<1>5. CASE Refuse(h, "claims")
  BY <1>5, RefuseMoves
<1> QED  BY <1>3, <1>4, <1>5

LEMMA refresh_jwks_fetchMoves ==
  ASSUME handler \in [Handlers -> Locals], signing \in Nat, NEW h \in Handlers,
         refresh_jwks_fetch(h)
  PROVE  LET x == handler[h]
         IN /\ Moves(h)
            /\ \/ Has(h, "store", x.kid, {signing}, x.user_id, x.reason)
               \/ Has(h, "refused", x.kid, x.keys, x.user_id, "idp")
<1> DEFINE y == [handler[h] EXCEPT !.pc = "store", !.keys = {signing}]
<1>1. handler[h] \in Locals /\ handler[h].pc \in Waits
  BY DEF refresh_jwks_fetch, Waits
<1>2. /\ y \in Locals /\ y.pc = "store" /\ y.login = handler[h].login
      /\ y.alone = handler[h].alone /\ y.kid = handler[h].kid /\ y.keys = {signing}
      /\ y.user_id = handler[h].user_id /\ y.reason = handler[h].reason
  BY <1>1 DEF Locals, Waits
<1>3. Become(h, y) \/ Refuse(h, "idp")
  BY DEF refresh_jwks_fetch
<1> HIDE DEF y
<1>4. CASE Become(h, y)
  <2>1. Moves(h) /\ Has(h, y.pc, y.kid, y.keys, y.user_id, y.reason)
    BY <1>1, <1>2, <1>4, BecomeMoves DEF Waits
  <2> QED  BY <2>1, <1>2
<1>5. CASE Refuse(h, "idp")
  BY <1>1, <1>5, RefuseMoves
<1> QED  BY <1>3, <1>4, <1>5

\* Callback h finds row u, which it links or reads next.
LEMMA RowMoves ==
  ASSUME handler \in [Handlers -> Locals], NEW h \in Handlers, handler[h].pc \in Waits,
         NEW p \in {"link", "read"}, NEW u \in Nat,
         Become(h, [handler[h] EXCEPT !.pc = p, !.user_id = u])
  PROVE  /\ Moves(h)
         /\ Has(h, p, handler[h].kid, handler[h].keys, u, handler[h].reason)
<1> DEFINE y == [handler[h] EXCEPT !.pc = p, !.user_id = u]
<1>1. handler[h] \in Locals
  OBVIOUS
<1>2. /\ y \in Locals /\ y.pc = p /\ y.login = handler[h].login
      /\ y.alone = handler[h].alone /\ y.kid = handler[h].kid /\ y.keys = handler[h].keys
      /\ y.user_id = u /\ y.reason = handler[h].reason
  BY <1>1 DEF Locals, Waits
<1>3. Become(h, y)
  OBVIOUS
<1> HIDE DEF y
<1>4. Moves(h) /\ Has(h, y.pc, y.kid, y.keys, y.user_id, y.reason)
  BY <1>1, <1>2, <1>3, BecomeMoves DEF Waits
<1> QED  BY <1>2, <1>4

\* The code of a successful callback, or the refusal of an inactive account.
LEMMA AdmitMoves ==
  ASSUME handler \in [Handlers -> Locals], NEW h \in Handlers, handler[h].pc \in Waits,
         NEW u \in Nat, Admit(h, u)
  PROVE  \/ /\ Ends(h)
            /\ handoff_codes' = Append(Swept, NewCode(h, u))
         \/ /\ Moves(h) /\ ~users[u].is_active /\ UNCHANGED handoff_codes
            /\ Has(h, "refused", handler[h].kid, handler[h].keys, u, "inactive")
<1> DEFINE y == [handler[h] EXCEPT !.pc = "refused", !.reason = "inactive", !.user_id = u]
<1>1. handler[h] \in Locals
  OBVIOUS
<1>2. /\ y \in Locals /\ y.pc = "refused" /\ y.login = handler[h].login
      /\ y.alone = handler[h].alone /\ y.kid = handler[h].kid /\ y.keys = handler[h].keys
      /\ y.user_id = u /\ y.reason = "inactive"
  BY <1>1 DEF Locals, Waits
<1>3. \/ Become(h, Idle) /\ handoff_codes' = Append(Swept, NewCode(h, u))
      \/ Become(h, y) /\ ~users[u].is_active /\ UNCHANGED handoff_codes
  BY DEF Admit
<1> HIDE DEF y
<1>4. CASE Become(h, y) /\ ~users[u].is_active /\ UNCHANGED handoff_codes
  <2>1. Moves(h) /\ Has(h, y.pc, y.kid, y.keys, y.user_id, y.reason)
    BY <1>1, <1>2, <1>4, BecomeMoves DEF Waits
  <2> QED  BY <2>1, <1>2, <1>4
<1>5. CASE Become(h, Idle) /\ handoff_codes' = Append(Swept, NewCode(h, u))
  BY <1>5, BecomeSets, IdleTyped DEF Ends
<1> QED  BY <1>3, <1>4, <1>5

LEMMA DisturbedStays ==
  ASSUME handler \in [Handlers -> Locals], handler' = Disturbed
  PROVE  /\ Stays
         /\ \A h \in Handlers : handler[h].pc # "idle" => ~handler'[h].alone
<1> SUFFICES ASSUME NEW h \in Handlers
             PROVE  /\ handler'[h] \in Locals
                    /\ handler'[h].pc = handler[h].pc /\ handler'[h].login = handler[h].login
                    /\ handler'[h].kid = handler[h].kid /\ handler'[h].keys = handler[h].keys
                    /\ handler'[h].user_id = handler[h].user_id
                    /\ handler'[h].reason = handler[h].reason
                    /\ handler'[h].alone => handler[h].alone
                    /\ handler[h].pc # "idle" => ~handler'[h].alone
  BY DEF Stays, Disturbed
<1>1. handler[h] \in Locals
  OBVIOUS
<1>2. handler'[h] = IF handler[h].pc = "idle" THEN handler[h]
                    ELSE [handler[h] EXCEPT !.alone = FALSE]
  BY DEF Disturbed
<1> QED  BY <1>1, <1>2 DEF Locals

\* Every callback but h, which starts, is idle or no longer alone.
LEMMA callbackStarts ==
  ASSUME handler \in [Handlers -> Locals], NEW h \in Handlers, NEW l \in Logins,
         callback(h, l)
  PROVE  /\ handler' \in [Handlers -> Locals]
         /\ handler[h].pc = "idle"
         /\ handler'[h].login = l /\ handler'[h].kid = 0
         /\ handler'[h].alone => \A g \in Handlers : handler[g].pc = "idle"
         /\ \/ l \in pending_logins \ late /\ handler'[h].pc = "exchange"
            \/ handler'[h].pc = "refused" /\ handler'[h].reason = "state"
         /\ \A g \in Handlers \ {h} :
              /\ handler'[g].pc = handler[g].pc /\ handler'[g].login = handler[g].login
              /\ handler'[g].kid = handler[g].kid /\ handler'[g].keys = handler[g].keys
              /\ handler'[g].user_id = handler[g].user_id
              /\ handler'[g].reason = handler[g].reason
              /\ handler'[g].alone => handler[g].alone
              /\ handler[g].pc # "idle" => ~handler'[g].alone
<1> DEFINE y == IF l \in pending_logins \ late
                THEN [Idle EXCEPT !.pc = "exchange", !.login = l]
                ELSE [Idle EXCEPT !.pc = "refused", !.login = l, !.reason = "state"]
           b == \A f \in Handlers : handler[f].pc = "idle"
           z == [y EXCEPT !.alone = b]
<1>1. /\ y \in Locals /\ y.login = l /\ y.kid = 0
      /\ \/ l \in pending_logins \ late /\ y.pc = "exchange"
         \/ y.pc = "refused" /\ y.reason = "state"
  BY DEF Idle, Locals, Waits
<1>2. handler' = Started(h, y) /\ handler[h].pc = "idle"
  BY DEF callback
<1> HIDE DEF y
<1>3. /\ z \in Locals /\ z.login = l /\ z.kid = 0 /\ z.alone = b
      /\ \/ l \in pending_logins \ late /\ z.pc = "exchange"
         \/ z.pc = "refused" /\ z.reason = "state"
  <2>1. b \in BOOLEAN
    OBVIOUS
  <2> HIDE DEF b
  <2> QED  BY <1>1, <2>1 DEF Locals
<1>4. handler'[h] = z
  BY <1>2 DEF Started
<1>5. ASSUME NEW g \in Handlers \ {h}
      PROVE  /\ handler'[g] \in Locals
             /\ handler'[g].pc = handler[g].pc /\ handler'[g].login = handler[g].login
             /\ handler'[g].kid = handler[g].kid /\ handler'[g].keys = handler[g].keys
             /\ handler'[g].user_id = handler[g].user_id
             /\ handler'[g].reason = handler[g].reason
             /\ handler'[g].alone => handler[g].alone
             /\ handler[g].pc # "idle" => ~handler'[g].alone
  <2>1. handler'[g] = IF handler[g].pc = "idle" THEN handler[g]
                      ELSE [handler[g] EXCEPT !.alone = FALSE]
    BY <1>2 DEF Started
  <2> QED  BY <2>1 DEF Locals
<1>6. handler' \in [Handlers -> Locals]
  <2>1. \A g \in Handlers : handler'[g] \in Locals
    BY <1>3, <1>4, <1>5
  <2> QED  BY <1>2, <2>1 DEF Started
<1> HIDE DEF z
<1> QED  BY <1>2, <1>3, <1>4, <1>5, <1>6


----------------------------------------------------------------------------
(* What the steps do to the codes.                                         *)

\* Code c of the table rows is as it was; a code that is gone stays gone.
SameCode(rows, c) ==
  /\ rows[c].login = handoff_codes[c].login
  /\ rows[c].subject = handoff_codes[c].subject
  /\ rows[c].user_id = handoff_codes[c].user_id
  /\ rows[c].alone = handoff_codes[c].alone
  /\ rows[c].state # "gone" => handoff_codes[c].state # "gone"

CodesStay ==
  /\ handoff_codes' \in Seq(Code)
  /\ Len(handoff_codes') = Len(handoff_codes)
  /\ \A c \in DOMAIN handoff_codes : SameCode(handoff_codes', c)

SameSigned(rows) ==
  \A c \in DOMAIN handoff_codes : rows[c].signed = handoff_codes[c].signed

LEMMA CodeEdits ==
  ASSUME NEW x \in Code, NEW s \in {"live", "late", "gone"}
  PROVE  LET y == [x EXCEPT !.state = s]
         IN /\ y \in Code /\ y.state = s /\ y.login = x.login /\ y.subject = x.subject
            /\ y.user_id = x.user_id /\ y.alone = x.alone /\ y.signed = x.signed
BY DEF Code

LEMMA SweptCodes ==
  ASSUME handoff_codes \in Seq(Code)
  PROVE  /\ Swept \in Seq(Code) /\ Len(Swept) = Len(handoff_codes)
         /\ \A c \in DOMAIN handoff_codes : SameCode(Swept, c)
         /\ SameSigned(Swept)
<1>1. ASSUME NEW c \in DOMAIN handoff_codes
      PROVE  /\ Swept[c] \in Code /\ SameCode(Swept, c)
             /\ Swept[c].signed = handoff_codes[c].signed
  <2>1. Swept[c] = IF handoff_codes[c].state = "late"
                   THEN [handoff_codes[c] EXCEPT !.state = "gone"] ELSE handoff_codes[c]
    BY DEF Swept
  <2>2. handoff_codes[c] \in Code
    OBVIOUS
  <2>3. CASE handoff_codes[c].state = "late"
    <3> DEFINE y == [handoff_codes[c] EXCEPT !.state = "gone"]
    <3>1. /\ y \in Code /\ y.state = "gone" /\ y.login = handoff_codes[c].login
          /\ y.subject = handoff_codes[c].subject /\ y.user_id = handoff_codes[c].user_id
          /\ y.alone = handoff_codes[c].alone /\ y.signed = handoff_codes[c].signed
      BY <2>2, CodeEdits
    <3>2. Swept[c] = y
      BY <2>1, <2>3
    <3> HIDE DEF y
    <3> QED  BY <3>1, <3>2 DEF SameCode
  <2>4. CASE handoff_codes[c].state # "late"
    BY <2>1, <2>2, <2>4 DEF SameCode
  <2> QED  BY <2>3, <2>4
<1>2. DOMAIN handoff_codes = 1..Len(handoff_codes)
  OBVIOUS
<1>3. Swept \in [1..Len(handoff_codes) -> Code]
  <2>1. Swept = [c \in 1..Len(handoff_codes) |-> Swept[c]]
    BY <1>2 DEF Swept
  <2> QED  BY <1>1, <1>2, <2>1
<1> QED  BY <1>1, <1>2, <1>3 DEF SameSigned

LEMMA RedeemedCodes ==
  ASSUME handoff_codes \in Seq(Code), NEW c \in DOMAIN handoff_codes,
         handoff_codes' = Redeemed(c)
  PROVE  /\ CodesStay /\ SameSigned(handoff_codes')
         /\ handoff_codes'[c].state = "gone"
<1> DEFINE y == [Swept[c] EXCEPT !.state = "gone"]
<1>1. /\ Swept \in Seq(Code) /\ Len(Swept) = Len(handoff_codes)
      /\ \A d \in DOMAIN handoff_codes : SameCode(Swept, d)
      /\ SameSigned(Swept)
  BY SweptCodes
<1>2. /\ y \in Code /\ y.state = "gone" /\ y.login = Swept[c].login
      /\ y.subject = Swept[c].subject /\ y.user_id = Swept[c].user_id
      /\ y.alone = Swept[c].alone /\ y.signed = Swept[c].signed
  <2>1. Swept[c] \in Code
    BY <1>1
  <2> QED  BY <2>1, CodeEdits
<1>3. handoff_codes' = [Swept EXCEPT ![c] = y]
  <2>1. c \in DOMAIN Swept
    BY <1>1
  <2> QED  BY <2>1 DEF Redeemed
<1> HIDE DEF y
<1>4. /\ handoff_codes' \in Seq(Code) /\ Len(handoff_codes') = Len(handoff_codes)
      /\ handoff_codes'[c] = y
      /\ \A d \in DOMAIN handoff_codes : d # c => handoff_codes'[d] = Swept[d]
  BY <1>1, <1>2, <1>3
<1> QED  BY <1>1, <1>2, <1>4 DEF CodesStay, SameCode, SameSigned

LEMMA token_issueCodes ==
  ASSUME handoff_codes \in Seq(Code), NEW c \in DOMAIN handoff_codes,
         handoff_codes' = [handoff_codes EXCEPT ![c].signed = @ + 1]
  PROVE  /\ CodesStay
         /\ handoff_codes'[c].signed = handoff_codes[c].signed + 1
         /\ handoff_codes'[c].state = handoff_codes[c].state
         /\ \A d \in DOMAIN handoff_codes \ {c} : handoff_codes'[d] = handoff_codes[d]
<1> DEFINE n == handoff_codes[c].signed + 1
           y == [handoff_codes[c] EXCEPT !.signed = n]
<1>1. handoff_codes[c] \in Code /\ n \in Nat
  <2>1. handoff_codes[c] \in Code
    OBVIOUS
  <2> QED  BY <2>1 DEF Code
<1>2. /\ y \in Code /\ y.state = handoff_codes[c].state /\ y.login = handoff_codes[c].login
      /\ y.subject = handoff_codes[c].subject /\ y.user_id = handoff_codes[c].user_id
      /\ y.alone = handoff_codes[c].alone /\ y.signed = n
  <2> HIDE DEF n
  <2> QED  BY <1>1 DEF Code
<1>3. handoff_codes' = [handoff_codes EXCEPT ![c] = y]
  OBVIOUS
<1> HIDE DEF y
<1>4. /\ handoff_codes' \in Seq(Code) /\ Len(handoff_codes') = Len(handoff_codes)
      /\ handoff_codes'[c] = y
      /\ \A d \in DOMAIN handoff_codes \ {c} : handoff_codes'[d] = handoff_codes[d]
  BY <1>2, <1>3
<1> QED  BY <1>2, <1>4 DEF CodesStay, SameCode

LEMMA CodeExpiresCodes ==
  ASSUME handoff_codes \in Seq(Code), NEW c \in DOMAIN handoff_codes, CodeExpires(c)
  PROVE  CodesStay /\ SameSigned(handoff_codes')
<1> DEFINE y == [handoff_codes[c] EXCEPT !.state = "late"]
<1>1. handoff_codes[c] \in Code /\ handoff_codes[c].state = "live"
  BY DEF CodeExpires
<1>2. /\ y \in Code /\ y.state = "late" /\ y.login = handoff_codes[c].login
      /\ y.subject = handoff_codes[c].subject /\ y.user_id = handoff_codes[c].user_id
      /\ y.alone = handoff_codes[c].alone /\ y.signed = handoff_codes[c].signed
  BY <1>1, CodeEdits
<1>3. handoff_codes' = [handoff_codes EXCEPT ![c] = y]
  BY DEF CodeExpires
<1> HIDE DEF y
<1>4. /\ handoff_codes' \in Seq(Code) /\ Len(handoff_codes') = Len(handoff_codes)
      /\ handoff_codes'[c] = y
      /\ \A d \in DOMAIN handoff_codes : d # c => handoff_codes'[d] = handoff_codes[d]
  BY <1>2, <1>3
<1> QED  BY <1>1, <1>2, <1>4 DEF CodesStay, SameCode, SameSigned

LEMMA RestartCodes ==
  ASSUME handoff_codes \in Seq(Code), Restart
  PROVE  CodesStay /\ SameSigned(handoff_codes')
<1>1. ASSUME NEW c \in DOMAIN handoff_codes
      PROVE  /\ handoff_codes'[c] \in Code /\ SameCode(handoff_codes', c)
             /\ handoff_codes'[c].signed = handoff_codes[c].signed
  <2>1. handoff_codes'[c] = [handoff_codes[c] EXCEPT !.state = "gone"]
    BY DEF Restart
  <2> DEFINE y == [handoff_codes[c] EXCEPT !.state = "gone"]
  <2>2. /\ y \in Code /\ y.state = "gone" /\ y.login = handoff_codes[c].login
        /\ y.subject = handoff_codes[c].subject /\ y.user_id = handoff_codes[c].user_id
        /\ y.alone = handoff_codes[c].alone /\ y.signed = handoff_codes[c].signed
    <3>1. handoff_codes[c] \in Code
      OBVIOUS
    <3> QED  BY <3>1, CodeEdits
  <2>3. handoff_codes'[c] = y
    BY <2>1
  <2> HIDE DEF y
  <2> QED  BY <2>2, <2>3 DEF SameCode
<1>2. DOMAIN handoff_codes = 1..Len(handoff_codes)
  OBVIOUS
<1>3. handoff_codes' \in [1..Len(handoff_codes) -> Code]
  <2>1. handoff_codes' = [c \in 1..Len(handoff_codes) |-> handoff_codes'[c]]
    BY <1>2 DEF Restart
  <2> QED  BY <1>1, <1>2, <2>1
<1> QED  BY <1>1, <1>2, <1>3 DEF CodesStay, SameSigned

\* One code is added, for callback h and row u.
Issues(h, u) ==
  /\ handoff_codes' \in Seq(Code)
  /\ Len(handoff_codes') = Len(handoff_codes) + 1
  /\ \A c \in DOMAIN handoff_codes : SameCode(handoff_codes', c)
  /\ SameSigned(handoff_codes')
  /\ handoff_codes'[Len(handoff_codes) + 1] = NewCode(h, u)

LEMMA AdmitIssues ==
  ASSUME handoff_codes \in Seq(Code), NEW h, NEW u, NewCode(h, u) \in Code,
         handoff_codes' = Append(Swept, NewCode(h, u))
  PROVE  Issues(h, u)
<1>1. /\ Swept \in Seq(Code) /\ Len(Swept) = Len(handoff_codes)
      /\ \A d \in DOMAIN handoff_codes : SameCode(Swept, d)
      /\ SameSigned(Swept)
  BY SweptCodes
<1>2. /\ handoff_codes' \in Seq(Code) /\ Len(handoff_codes') = Len(handoff_codes) + 1
      /\ \A d \in DOMAIN handoff_codes : handoff_codes'[d] = Swept[d]
      /\ handoff_codes'[Len(handoff_codes) + 1] = NewCode(h, u)
  BY <1>1
<1> QED  BY <1>1, <1>2 DEF Issues, SameCode, SameSigned


----------------------------------------------------------------------------
(* What the steps do to the users table.                                   *)

\* The row that an admin or a first sign-in adds.
Adds(email, subject) ==
  /\ users' \in Seq(User)
  /\ Len(users') = Len(users) + 1
  /\ \A u \in DOMAIN users : users'[u] = users[u]
  /\ users'[Len(users) + 1].email = email
  /\ users'[Len(users) + 1].subject = subject

\* Row u is linked to a person.
Links(u, subject) ==
  /\ users' \in Seq(User)
  /\ Len(users') = Len(users)
  /\ \A v \in DOMAIN users \ {u} : users'[v] = users[v]
  /\ users'[u].email = users[u].email
  /\ users'[u].is_active = users[u].is_active
  /\ users'[u].subject = subject

\* Whose the rows are does not change.
RowsStay ==
  /\ users' \in Seq(User)
  /\ Len(users') = Len(users)
  /\ \A u \in DOMAIN users : users'[u].email = users[u].email /\ users'[u].subject = users[u].subject

LEMMA RowAdded ==
  ASSUME users \in Seq(User), NEW email \in Emails, NEW subject \in Subjects \cup {None},
         users' = Append(users, NewUser(email, subject))
  PROVE  Adds(email, subject)
<1>1. NewUser(email, subject) \in User
  BY DEF NewUser, User
<1> QED  BY <1>1 DEF Adds, NewUser

LEMMA RowLinked ==
  ASSUME users \in Seq(User), NEW u \in DOMAIN users, NEW subject \in Subjects,
         users' = [users EXCEPT ![u].subject = subject]
  PROVE  Links(u, subject)
<1> DEFINE row == [users[u] EXCEPT !.subject = subject]
<1>1. users[u] \in User
  OBVIOUS
<1>2. /\ row \in User /\ row.email = users[u].email /\ row.subject = subject
      /\ row.is_active = users[u].is_active
  BY <1>1 DEF User
<1>3. users' = [users EXCEPT ![u] = row]
  OBVIOUS
<1> HIDE DEF row
<1> QED  BY <1>2, <1>3 DEF Links

LEMMA RowEdited ==
  ASSUME users \in Seq(User), NEW u \in DOMAIN users, NEW is_active \in BOOLEAN,
         users' = [users EXCEPT ![u].is_active = is_active]
  PROVE  RowsStay
<1> DEFINE row == [users[u] EXCEPT !.is_active = is_active]
<1>1. users[u] \in User
  OBVIOUS
<1>2. row \in User /\ row.email = users[u].email /\ row.subject = users[u].subject
  BY <1>1 DEF User
<1>3. users' = [users EXCEPT ![u] = row]
  OBVIOUS
<1> HIDE DEF row
<1> QED  BY <1>2, <1>3 DEF RowsStay

----------------------------------------------------------------------------
(* The steps, by what they do.                                             *)

\* Callback h goes on and leaves the codes and the users alone.
Goes(h) ==
  /\ Moves(h)
  /\ UNCHANGED <<users, pending_logins, handoff_codes, signing, person, redeemer>>

Looks(h) == Goes(h) /\ UNCHANGED jwks_cache

\* The outcomes of the look-ups of callback h before it touches the users.
Verifies(h) ==
  LET x == handler[h]
  IN \/ /\ Looks(h) /\ x.pc = "exchange"
        /\ \/ Has(h, "key", signing, x.keys, x.user_id, x.reason)
           \/ Has(h, "refused", x.kid, x.keys, x.user_id, "idp")
     \/ /\ Looks(h) /\ x.pc \in {"key", "again"}
        /\ \/ Has(h, "subject", 0, {}, x.user_id, x.reason)
           \/ Has(h, "refused", x.kid, x.keys, x.user_id, "claims")
     \/ Looks(h) /\ x.pc = "key" /\ Has(h, "fetch", x.kid, x.keys, x.user_id, x.reason)
     \/ /\ Looks(h) /\ x.pc = "fetch"
        /\ \/ Has(h, "store", x.kid, {signing}, x.user_id, x.reason)
           \/ Has(h, "refused", x.kid, x.keys, x.user_id, "idp")
     \/ /\ Goes(h) /\ x.pc = "store" /\ Has(h, "again", x.kid, x.keys, x.user_id, x.reason)
        /\ jwks_cache' = [keys |-> x.keys, fresh |-> TRUE]
     \/ /\ Looks(h) /\ x.pc = "again" /\ ~cached_jwk(x.kid)
        /\ Has(h, "refused", x.kid, x.keys, x.user_id, "key")

LEMMA VerifySteps ==
  ASSUME Typed, NEW h \in Handlers,
         \/ exchange(h) \/ signing_key(h) \/ refresh_jwks_fetch(h)
         \/ refresh_jwks_store(h) \/ signing_key_again(h)
  PROVE  Verifies(h)
<1> USE DEF Typed
<1>1. CASE exchange(h)
  BY <1>1, exchangeMoves DEF Verifies, Goes, Looks, exchange
<1>2. CASE signing_key(h)
  <2>1. handler[h].pc \in Waits /\ handler[h].pc = "key" /\ "fetch" \in Waits
    BY <1>2 DEF signing_key, Waits
  <2>2. CASE Verified(h)
    BY <1>2, <2>1, <2>2, VerifiedMoves DEF Verifies, Goes, Looks, signing_key
  <2>3. CASE Goto(h, "fetch")
    BY <1>2, <2>1, <2>3, GotoMoves DEF Verifies, Goes, Looks, signing_key
  <2> QED  BY <1>2, <2>2, <2>3 DEF signing_key, OnMiss
<1>3. CASE refresh_jwks_fetch(h)
  BY <1>3, refresh_jwks_fetchMoves DEF Verifies, Goes, Looks, refresh_jwks_fetch
<1>4. CASE refresh_jwks_store(h)
  <2>1. handler[h].pc \in Waits /\ "again" \in Waits
    BY <1>4 DEF refresh_jwks_store, Waits
  <2> QED  BY <1>4, <2>1, GotoMoves DEF Verifies, Goes, refresh_jwks_store
<1>5. CASE signing_key_again(h)
  <2>1. handler[h].pc \in Waits /\ handler[h].pc = "again"
    BY <1>5 DEF signing_key_again, Waits
  <2>2. CASE Verified(h)
    BY <1>5, <2>1, <2>2, VerifiedMoves DEF Verifies, Goes, Looks, signing_key_again
  <2>3. CASE Refuse(h, "key") /\ ~cached_jwk(handler[h].kid)
    BY <1>5, <2>1, <2>3, RefuseMoves DEF Verifies, Goes, Looks, signing_key_again
  <2> QED  BY <1>5, <2>2, <2>3 DEF signing_key_again
<1> QED  BY <1>1, <1>2, <1>3, <1>4, <1>5

\* The outcomes of provision_or_link_user and of the end of callback h.
Provisions(h) ==
  LET x == handler[h]
  IN \/ /\ Looks(h) /\ x.pc = "subject"
        /\ Has(h, "email", x.kid, x.keys, x.user_id, x.reason)
        /\ \A u \in DOMAIN users : users[u].subject # SubjectOf(h)
     \/ /\ Looks(h) /\ x.pc = "email" /\ Has(h, "refused", x.kid, x.keys, x.user_id, "conflict")
        /\ \E u \in DOMAIN users : users[u].email = EmailFor(h) /\ users[u].subject # None
     \/ /\ Looks(h) /\ x.pc = "email"
        /\ \E u \in DOMAIN users :
             /\ users[u].email = EmailFor(h) /\ users[u].subject = None
             /\ Has(h, "link", x.kid, x.keys, u, x.reason)
     \/ /\ Looks(h) /\ x.pc = "email" /\ Has(h, "create", x.kid, x.keys, x.user_id, x.reason)
        /\ \A u \in DOMAIN users : users[u].email # EmailFor(h)
     \/ /\ Looks(h) /\ Has(h, "refused", x.kid, x.keys, x.user_id, "exists")
        /\ \/ x.pc = "link" /\ ~UniqueKeys(x.user_id, users[x.user_id].email, SubjectOf(h))
           \/ x.pc = "create" /\ ~UniqueKeys(0, EmailFor(h), SubjectOf(h))
     \/ \E u \in DOMAIN users :
          /\ Looks(h) /\ ~users[u].is_active
          /\ Has(h, "refused", x.kid, x.keys, u, "inactive")

\* Callback h writes the users table.
Writes(h) ==
  LET x == handler[h]
  IN /\ Moves(h)
     /\ UNCHANGED <<pending_logins, handoff_codes, jwks_cache, signing, person, redeemer>>
     /\ \/ /\ x.pc = "link" /\ Has(h, "read", x.kid, x.keys, x.user_id, x.reason)
           /\ UniqueKeys(x.user_id, users[x.user_id].email, SubjectOf(h))
           /\ Links(x.user_id, SubjectOf(h))
        \/ /\ x.pc = "create" /\ Has(h, "read", x.kid, x.keys, Len(users) + 1, x.reason)
           /\ UniqueKeys(0, EmailFor(h), SubjectOf(h))
           /\ Adds(EmailFor(h), SubjectOf(h))

\* Callback h succeeds with the account in row u.
Succeeds(h, u) ==
  /\ Ends(h) /\ Issues(h, u)
  /\ \/ handler[h].pc = "subject" /\ users[u].subject = SubjectOf(h)
     \/ handler[h].pc = "read" /\ u = handler[h].user_id
  /\ UNCHANGED <<users, pending_logins, jwks_cache, signing, person, redeemer>>

LEMMA AdmitSteps ==
  ASSUME Typed, Attempts, NEW h \in Handlers, NEW u \in DOMAIN users, Admit(h, u),
         \/ handler[h].pc = "subject" /\ users[u].subject = SubjectOf(h)
         \/ handler[h].pc = "read" /\ u = handler[h].user_id,
         UNCHANGED <<users, pending_logins, jwks_cache, signing, person, redeemer>>
  PROVE  Provisions(h) \/ Succeeds(h, u)
<1>1. handler[h].pc \in Waits /\ handler[h].pc # "idle" /\ u \in Nat
  BY DEF Waits, Typed
<1>2. \/ Ends(h) /\ handoff_codes' = Append(Swept, NewCode(h, u))
      \/ /\ Moves(h) /\ ~users[u].is_active /\ UNCHANGED handoff_codes
         /\ Has(h, "refused", handler[h].kid, handler[h].keys, u, "inactive")
  BY <1>1, AdmitMoves DEF Typed
<1>3. CASE Ends(h) /\ handoff_codes' = Append(Swept, NewCode(h, u))
  <2>1. handler[h].alone \in BOOLEAN
    BY DEF Typed, Locals
  <2>2. NewCode(h, u) \in Code
    BY <1>1, <2>1 DEF Attempts, NewCode, Code
  <2> QED  BY <1>3, <2>2, AdmitIssues DEF Typed, Succeeds
<1>4. CASE /\ Moves(h) /\ ~users[u].is_active /\ UNCHANGED handoff_codes
           /\ Has(h, "refused", handler[h].kid, handler[h].keys, u, "inactive")
  BY <1>4 DEF Provisions, Looks, Goes
<1> QED  BY <1>2, <1>3, <1>4

LEMMA ProvisionSteps ==
  ASSUME Typed, Attempts, Accounts, NEW h \in Handlers,
         \/ get_by_external_idp_subject(h) \/ get_by_email(h)
         \/ link_external_idp_subject(h) \/ create(h) \/ get_by_id(h)
  PROVE  Provisions(h) \/ Writes(h) \/ \E u \in DOMAIN users : Succeeds(h, u)
<1>1. CASE get_by_external_idp_subject(h)
  <2>1. CASE \E u \in DOMAIN users : users[u].subject = SubjectOf(h) /\ Admit(h, u)
    BY <1>1, <2>1, AdmitSteps DEF get_by_external_idp_subject
  <2>2. CASE /\ \A u \in DOMAIN users : users[u].subject # SubjectOf(h)
             /\ Goto(h, "email")
             /\ UNCHANGED handoff_codes
    <3>1. handler[h].pc \in Waits /\ "email" \in Waits
      BY <1>1 DEF get_by_external_idp_subject, Waits
    <3>2. /\ Moves(h)
          /\ Has(h, "email", handler[h].kid, handler[h].keys, handler[h].user_id, handler[h].reason)
      BY <2>2, <3>1, GotoMoves DEF Typed
    <3> QED  BY <1>1, <2>2, <3>2 DEF get_by_external_idp_subject, Provisions, Looks, Goes
  <2> QED  BY <1>1, <2>1, <2>2 DEF get_by_external_idp_subject
<1>2. CASE get_by_email(h)
  <2>1. handler[h].pc \in Waits /\ handler[h].pc = "email" /\ "create" \in Waits
    BY <1>2 DEF get_by_email, Waits
  <2>2. CASE /\ \A u \in DOMAIN users : users[u].email # EmailFor(h)
             /\ Goto(h, "create")
    <3>1. /\ Moves(h)
          /\ Has(h, "create", handler[h].kid, handler[h].keys, handler[h].user_id, handler[h].reason)
      BY <2>1, <2>2, GotoMoves DEF Typed
    <3> QED  BY <1>2, <2>1, <2>2, <3>1 DEF get_by_email, Provisions, Looks, Goes
  <2>3. ASSUME NEW u \in DOMAIN users, users[u].email = EmailFor(h), Matched(h, u)
        PROVE  Provisions(h)
    <3>1. CASE users[u].subject # None /\ Refuse(h, "conflict")
      <4>1. /\ Moves(h)
            /\ Has(h, "refused", handler[h].kid, handler[h].keys, handler[h].user_id, "conflict")
        BY <2>1, <3>1, RefuseMoves DEF Typed
      <4> QED  BY <1>2, <2>1, <2>3, <3>1, <4>1 DEF get_by_email, Provisions, Looks, Goes
    <3>2. CASE /\ users[u].subject = None
               /\ Become(h, [handler[h] EXCEPT !.pc = "link", !.user_id = u])
      <4>1. u \in Nat
        BY DEF Typed
      <4>2. Moves(h) /\ Has(h, "link", handler[h].kid, handler[h].keys, u, handler[h].reason)
        BY <2>1, <3>2, <4>1, RowMoves DEF Typed
      <4> QED  BY <1>2, <2>1, <2>3, <3>2, <4>2 DEF get_by_email, Provisions, Looks, Goes
    <3> QED  BY <2>3, <3>1, <3>2 DEF Matched
  <2> QED  BY <1>2, <2>2, <2>3 DEF get_by_email
<1>3. CASE link_external_idp_subject(h)
  <2> DEFINE v == handler[h].user_id
  <2>1. /\ handler[h].pc \in Waits /\ handler[h].pc = "link" /\ "read" \in Waits
        /\ v \in DOMAIN users /\ SubjectOf(h) \in Subjects
    BY <1>3 DEF link_external_idp_subject, Waits, Accounts, AccountOfCallback, Attempts
  <2>2. CASE /\ UniqueKeys(v, users[v].email, SubjectOf(h))
             /\ users' = [users EXCEPT ![v].subject = SubjectOf(h)]
             /\ Goto(h, "read")
    <3>1. Moves(h) /\ Has(h, "read", handler[h].kid, handler[h].keys, v, handler[h].reason)
      BY <2>1, <2>2, GotoMoves DEF Typed
    <3>2. Links(v, SubjectOf(h))
      BY <2>1, <2>2, RowLinked DEF Typed
    <3> QED  BY <1>3, <2>1, <2>2, <3>1, <3>2 DEF link_external_idp_subject, Writes
  <2>3. CASE /\ ~UniqueKeys(v, users[v].email, SubjectOf(h))
             /\ Refuse(h, "exists")
             /\ UNCHANGED users
    <3>1. Moves(h) /\ Has(h, "refused", handler[h].kid, handler[h].keys, v, "exists")
      BY <2>1, <2>3, RefuseMoves DEF Typed
    <3> QED  BY <1>3, <2>1, <2>3, <3>1 DEF link_external_idp_subject, Provisions, Looks, Goes
  <2> QED  BY <1>3, <2>2, <2>3 DEF link_external_idp_subject
<1>4. CASE create(h)
  <2>1. /\ handler[h].pc \in Waits /\ handler[h].pc = "create"
        /\ SubjectOf(h) \in Subjects /\ EmailFor(h) \in Emails
    BY <1>4, SsoAssumption DEF create, Waits, Attempts, EmailFor
  <2>2. CASE /\ UniqueKeys(0, EmailFor(h), SubjectOf(h))
             /\ users' = Append(users, NewUser(EmailFor(h), SubjectOf(h)))
             /\ Become(h, [handler[h] EXCEPT !.pc = "read", !.user_id = Len(users) + 1])
    <3>1. Len(users) + 1 \in Nat
      BY DEF Typed
    <3>2. Moves(h) /\ Has(h, "read", handler[h].kid, handler[h].keys, Len(users) + 1, handler[h].reason)
      BY <2>1, <2>2, <3>1, RowMoves DEF Typed
    <3>3. Adds(EmailFor(h), SubjectOf(h))
      BY <2>1, <2>2, RowAdded DEF Typed
    <3> QED  BY <1>4, <2>1, <2>2, <3>2, <3>3 DEF create, Writes
  <2>3. CASE /\ ~UniqueKeys(0, EmailFor(h), SubjectOf(h))
             /\ Refuse(h, "exists")
             /\ UNCHANGED users
    <3>1. Moves(h) /\ Has(h, "refused", handler[h].kid, handler[h].keys, handler[h].user_id, "exists")
      BY <2>1, <2>3, RefuseMoves DEF Typed
    <3> QED  BY <1>4, <2>1, <2>3, <3>1 DEF create, Provisions, Looks, Goes
  <2> QED  BY <1>4, <2>2, <2>3 DEF create
<1>5. CASE get_by_id(h)
  <2>1. handler[h].user_id \in DOMAIN users
    BY <1>5 DEF get_by_id, Accounts, AccountOfCallback
  <2> QED  BY <1>5, <2>1, AdmitSteps DEF get_by_id
<1> QED  BY <1>1, <1>2, <1>3, <1>4, <1>5


\* The answer of a refused callback, or the end of one that is dropped.
Quits(h) ==
  /\ Ends(h)
  /\ UNCHANGED <<users, pending_logins, handoff_codes, jwks_cache, signing, person, redeemer>>

\* A step of a redemption, of time or of Entra ID.
Redemption == [pc : {"idle", "user", "issue"}, code : Nat]

Passes ==
  /\ UNCHANGED <<users, pending_logins, person, handler>>
  /\ CodesStay
  /\ redeemer' \in [Redeemers -> Redemption]
  /\ signing' \in Nat /\ signing <= signing'
  /\ jwks_cache' \in [keys : SUBSET Nat, fresh : BOOLEAN]
  /\ UNCHANGED jwks_cache \/ \A h \in Handlers : handler[h].pc # "again"

\* An admin, or somebody who registers, changes the users table.
Amends ==
  /\ Stays
  /\ \A h \in Handlers : handler[h].pc # "idle" => ~handler'[h].alone
  /\ UNCHANGED <<pending_logins, handoff_codes, jwks_cache, signing, person, redeemer>>
  /\ \/ RowsStay
     \/ \E email \in Emails, subject \in Subjects \cup {None} :
          UniqueKeys(0, email, subject) /\ Adds(email, subject)

LEMMA SameCodesStay ==
  ASSUME handoff_codes \in Seq(Code), UNCHANGED handoff_codes
  PROVE  CodesStay /\ SameSigned(handoff_codes')
BY DEF CodesStay, SameCode, SameSigned

LEMMA redeemPasses ==
  ASSUME Typed, NEW r \in Redeemers, NEW c \in DOMAIN handoff_codes, redeem_handoff_code(r, c)
  PROVE  Passes
<1>1. [pc |-> "user", code |-> c] \in Redemption
  BY DEF Typed, Redemption
<1>2. redeemer' \in [Redeemers -> Redemption]
  BY <1>1 DEF redeem_handoff_code, Typed, Redemption
<1>3. CodesStay
  BY RedeemedCodes DEF Typed, redeem_handoff_code
<1> QED  BY <1>2, <1>3 DEF redeem_handoff_code, Passes, Typed

LEMMA token_userPasses ==
  ASSUME Typed, NEW r \in Redeemers, token_user(r)
  PROVE  /\ Passes
         /\ \A q \in Redeemers \ {r} : redeemer'[q] = redeemer[q]
         /\ redeemer'[r].pc = "idle" \/ redeemer'[r].code = redeemer[r].code
<1> DEFINE y == [redeemer[r] EXCEPT !.pc = "issue"]
           z == IF users[handoff_codes[redeemer[r].code].user_id].is_active
                THEN y ELSE NotRedeeming
<1>1. redeemer \in [Redeemers -> Redemption]
  BY DEF Typed, Redemption
<1>2. y \in Redemption /\ y.code = redeemer[r].code
  BY <1>1 DEF Redemption
<1>3. redeemer' = [redeemer EXCEPT ![r] = z]
  BY DEF token_user
<1> HIDE DEF y
<1>4. z \in Redemption /\ (z.pc = "idle" \/ z.code = redeemer[r].code)
  BY <1>2, IdleTyped DEF Redemption
<1> HIDE DEF z
<1>5. /\ redeemer' \in [Redeemers -> Redemption] /\ redeemer'[r] = z
      /\ \A q \in Redeemers \ {r} : redeemer'[q] = redeemer[q]
  BY <1>1, <1>3, <1>4
<1>6. CodesStay
  BY SameCodesStay DEF token_user, Typed
<1> QED  BY <1>4, <1>5, <1>6 DEF token_user, Passes, Typed

LEMMA token_issuePasses ==
  ASSUME Typed, Redemptions, NEW r \in Redeemers, token_issue(r)
  PROVE  Passes
<1>1. redeemer' \in [Redeemers -> Redemption]
  BY IdleTyped DEF token_issue, Typed, Redemption
<1>2. redeemer[r].code \in DOMAIN handoff_codes
  BY DEF token_issue, Redemptions
<1>3. CodesStay
  BY <1>2, token_issueCodes DEF token_issue, Typed
<1> QED  BY <1>1, <1>3 DEF token_issue, Passes, Typed

LEMMA OtherPasses ==
  ASSUME Typed,
         \/ UNCHANGED vars
         \/ \E r \in Redeemers : DropRedemption(r)
         \/ \E l \in Logins : PendingExpires(l)
         \/ \E c \in DOMAIN handoff_codes : CodeExpires(c)
         \/ CacheExpires \/ RotateKey
  PROVE  Passes
<1>1. redeemer \in [Redeemers -> Redemption]
  BY DEF Typed, Redemption
<1>2. CASE UNCHANGED vars
  BY <1>1, <1>2, SameCodesStay DEF vars, Passes, Typed
<1>3. ASSUME NEW r \in Redeemers, DropRedemption(r)
      PROVE  Passes
  <2>1. redeemer' \in [Redeemers -> Redemption]
    BY <1>1, <1>3, IdleTyped DEF DropRedemption, Redemption
  <2> QED  BY <1>3, <2>1, SameCodesStay DEF DropRedemption, Passes, Typed
<1>4. ASSUME NEW l \in Logins, PendingExpires(l)
      PROVE  Passes
  BY <1>1, <1>4, SameCodesStay DEF PendingExpires, Passes, Typed
<1>5. ASSUME NEW c \in DOMAIN handoff_codes, CodeExpires(c)
      PROVE  Passes
  <2>1. CodesStay
    BY <1>5, CodeExpiresCodes DEF Typed
  <2> QED  BY <1>1, <1>5, <2>1 DEF CodeExpires, Passes, Typed
<1>6. CASE CacheExpires
  <2>1. jwks_cache' \in [keys : SUBSET Nat, fresh : BOOLEAN]
    BY <1>6 DEF CacheExpires, Typed
  <2>2. CodesStay
    BY <1>6, SameCodesStay DEF CacheExpires, Typed
  <2> QED  BY <1>1, <1>6, <2>1, <2>2 DEF CacheExpires, Passes, Typed
<1>7. CASE RotateKey
  BY <1>1, <1>7, SameCodesStay DEF RotateKey, Passes, Typed
<1> QED  BY <1>2, <1>3, <1>4, <1>5, <1>6, <1>7

LEMMA Amendments ==
  ASSUME Typed,
         \/ \E email \in Emails, subject \in Subjects \cup {None} : create_user(email, subject)
         \/ \E u \in DOMAIN users, is_active \in BOOLEAN : update_user(u, is_active)
  PROVE  Amends
<1>1. ASSUME NEW email \in Emails, NEW subject \in Subjects \cup {None},
             create_user(email, subject)
      PROVE  Amends
  <2>1. Adds(email, subject) /\ UniqueKeys(0, email, subject)
    BY <1>1, RowAdded DEF create_user, Typed
  <2> QED  BY <1>1, <2>1, DisturbedStays DEF create_user, Edit, Amends, Typed
<1>2. ASSUME NEW u \in DOMAIN users, NEW is_active \in BOOLEAN, update_user(u, is_active)
      PROVE  Amends
  <2>1. RowsStay
    BY <1>2, RowEdited DEF update_user, Typed
  <2> QED  BY <1>2, <2>1, DisturbedStays DEF update_user, Edit, Amends, Typed
<1> QED  BY <1>1, <1>2

LEMMA Quitting ==
  ASSUME Typed, NEW h \in Handlers, Answer(h) \/ Drop(h)
  PROVE  Quits(h)
BY BecomeSets, IdleTyped DEF Answer, Drop, Quits, Ends, Typed

LEMMA Kinds ==
  ASSUME Typed, Attempts, Redemptions, Accounts, [Next]_vars
  PROVE  \/ \E l \in Logins, s \in Subjects : begin_login(l, s)
         \/ \E h \in Handlers, l \in Logins : callback(h, l)
         \/ \E h \in Handlers :
              \/ Verifies(h) \/ Provisions(h) \/ Writes(h) \/ Quits(h)
              \/ \E u \in DOMAIN users : Succeeds(h, u)
         \/ Passes \/ Amends \/ Restart
<1>1. CASE UNCHANGED vars \/ CacheExpires \/ RotateKey
  BY <1>1, OtherPasses
<1>2. ASSUME NEW h \in Handlers, Callback(h) \/ Drop(h)
      PROVE  \/ Verifies(h) \/ Provisions(h) \/ Writes(h) \/ Quits(h)
             \/ \E u \in DOMAIN users : Succeeds(h, u)
  <2>1. CASE \/ exchange(h) \/ signing_key(h) \/ refresh_jwks_fetch(h)
             \/ refresh_jwks_store(h) \/ signing_key_again(h)
    BY <2>1, VerifySteps
  <2>2. CASE \/ get_by_external_idp_subject(h) \/ get_by_email(h)
             \/ link_external_idp_subject(h) \/ create(h) \/ get_by_id(h)
    BY <2>2, ProvisionSteps
  <2>3. CASE Answer(h) \/ Drop(h)
    BY <2>3, Quitting
  <2> QED  BY <1>2, <2>1, <2>2, <2>3 DEF Callback
<1>3. ASSUME NEW r \in Redeemers,
             \/ \E c \in DOMAIN handoff_codes : redeem_handoff_code(r, c)
             \/ token_user(r) \/ token_issue(r) \/ DropRedemption(r)
      PROVE  Passes
  BY <1>3, redeemPasses, token_userPasses, token_issuePasses, OtherPasses
<1>4. CASE \/ \E email \in Emails, subject \in Subjects \cup {None} : create_user(email, subject)
           \/ \E u \in DOMAIN users, is_active \in BOOLEAN : update_user(u, is_active)
  BY <1>4, Amendments
<1>5. CASE \/ \E l \in Logins : PendingExpires(l)
           \/ \E c \in DOMAIN handoff_codes : CodeExpires(c)
  BY <1>5, OtherPasses
<1> QED  BY <1>1, <1>2, <1>3, <1>4, <1>5 DEF Next


----------------------------------------------------------------------------
(* The invariant is kept.                                                  *)

LEMMA TypedStep ==
  ASSUME Typed, Attempts, Redemptions, Accounts, [Next]_vars
  PROVE  Typed'
<1>0. redeemer \in [Redeemers -> Redemption]
  BY DEF Typed, Redemption
<1>1. ASSUME NEW l \in Logins, NEW s \in Subjects, begin_login(l, s)
      PROVE  Typed'
  BY <1>1 DEF begin_login, Typed
<1>2. ASSUME NEW h \in Handlers, NEW l \in Logins, callback(h, l)
      PROVE  Typed'
  <2>1. handler' \in [Handlers -> Locals]
    BY <1>2, callbackStarts DEF Typed
  <2> QED  BY <1>2, <2>1 DEF callback, Kept, Typed
<1>3. ASSUME NEW h \in Handlers, Verifies(h)
      PROVE  Typed'
  <2>1. CASE Looks(h)
    BY <2>1 DEF Looks, Goes, Moves, Typed
  <2>2. CASE Goes(h) /\ jwks_cache' = [keys |-> handler[h].keys, fresh |-> TRUE]
    <3>1. handler[h].keys \in SUBSET Nat
      BY <1>3 DEF Typed, Locals
    <3> QED  BY <2>2, <3>1 DEF Goes, Moves, Typed
  <2> QED  BY <1>3, <2>1, <2>2 DEF Verifies
<1>4. ASSUME NEW h \in Handlers, Provisions(h) \/ Writes(h) \/ Quits(h)
      PROVE  Typed'
  <2>1. CASE Looks(h)
    BY <2>1 DEF Looks, Goes, Moves, Typed
  <2>2. CASE Writes(h)
    BY <2>2 DEF Writes, Moves, Links, Adds, Typed
  <2>3. CASE Quits(h)
    BY <2>3 DEF Quits, Ends, Typed
  <2> QED  BY <1>4, <2>1, <2>2, <2>3 DEF Provisions
<1>5. ASSUME NEW h \in Handlers, NEW u \in DOMAIN users, Succeeds(h, u)
      PROVE  Typed'
  BY <1>5 DEF Succeeds, Ends, Issues, Typed
<1>6. CASE Passes
  BY <1>6 DEF Passes, CodesStay, Typed, Redemption
<1>7. CASE Amends
  <2>1. users' \in Seq(User) /\ handler' \in [Handlers -> Locals]
    BY <1>7 DEF Amends, Stays, RowsStay, Adds
  <2> QED  BY <1>7, <2>1 DEF Amends, Typed
<1>8. CASE Restart
  <2>1. handoff_codes' \in Seq(Code)
    BY <1>8, RestartCodes DEF Typed, CodesStay
  <2> QED  BY <1>8, <2>1, IdleTyped DEF Restart, Typed
<1> QED  BY <1>1, <1>2, <1>3, <1>4, <1>5, <1>6, <1>7, <1>8, Kinds

LEMMA AttemptsStep ==
  ASSUME Typed, Attempts, Redemptions, Accounts, [Next]_vars
  PROVE  Attempts'
<1>0. "idle" \notin Waits /\ "refused" \notin Waits /\ "exchange" \in Waits
  BY DEF Waits
<1>1. ASSUME NEW l \in Logins, NEW s \in Subjects, begin_login(l, s)
      PROVE  Attempts'
  <2>1. /\ person'[l] = s /\ s # None /\ \A k \in Logins \ {l} : person'[k] = person[k]
        /\ pending_logins' \subseteq pending_logins \cup {l} /\ pending_logins \subseteq Logins
        /\ UNCHANGED <<handler, handoff_codes>>
    BY <1>1, SsoAssumption DEF begin_login, Typed
  <2>2. ASSUME NEW c \in DOMAIN handoff_codes
        PROVE  handoff_codes[c].login \in Logins \ {l}
    <3>1. handoff_codes[c] \in Code
      BY DEF Typed
    <3>2. handoff_codes[c].login \in Logins /\ handoff_codes[c].subject # None
      BY <3>1, SsoAssumption DEF Code
    <3> QED  BY <1>1, <3>2 DEF begin_login, Attempts
  <2>3. ASSUME NEW h \in Handlers, handler[h].pc # "idle"
        PROVE  handler[h].login \in Logins \ {l}
    BY <1>1, <2>3, SsoAssumption DEF begin_login, Attempts, SubjectOf
  <2>4. ASSUME NEW h \in Handlers, handler[h].pc \in Waits
        PROVE  handler[h].login \notin pending_logins' /\ handler[h].login \in Logins
    BY <1>0, <2>1, <2>3, <2>4 DEF Attempts
  <2> QED  BY <1>0, <2>1, <2>2, <2>3, <2>4 DEF Attempts, SubjectOf
<1>2. ASSUME NEW h \in Handlers, NEW l \in Logins, callback(h, l)
      PROVE  Attempts'
  <2>1. /\ pending_logins' = pending_logins \ (late \cup {l})
        /\ person' = person /\ handoff_codes' = handoff_codes
        /\ person[l] \in Subjects
    BY <1>2 DEF callback, Kept, Typed
  <2>2. /\ handler'[h].login = l
        /\ \/ l \in pending_logins \ late /\ handler'[h].pc = "exchange"
           \/ handler'[h].pc = "refused"
        /\ \A g \in Handlers \ {h} :
              handler'[g].pc = handler[g].pc /\ handler'[g].login = handler[g].login
    BY <1>2, callbackStarts DEF Typed
  <2> QED  BY <1>0, <2>1, <2>2 DEF Attempts, SubjectOf
<1>3. ASSUME NEW h \in Handlers, Moves(h), UNCHANGED <<pending_logins, handoff_codes, person>>
      PROVE  Attempts'
  BY <1>0, <1>3 DEF Moves, Attempts, SubjectOf
<1>4. ASSUME NEW h \in Handlers, Quits(h)
      PROVE  Attempts'
  BY <1>0, <1>4, IdleTyped DEF Quits, Ends, Attempts, SubjectOf
<1>5. ASSUME NEW h \in Handlers, NEW u \in DOMAIN users, Succeeds(h, u)
      PROVE  Attempts'
  <2> DEFINE n == Len(handoff_codes) + 1
  <2>1. /\ DOMAIN handoff_codes' = DOMAIN handoff_codes \cup {n} /\ n \notin DOMAIN handoff_codes
        /\ handoff_codes'[n].login = handler[h].login
        /\ handoff_codes'[n].subject = SubjectOf(h)
        /\ \A c \in DOMAIN handoff_codes :
             /\ handoff_codes'[c].login = handoff_codes[c].login
             /\ handoff_codes'[c].subject = handoff_codes[c].subject
    BY <1>5 DEF Succeeds, Issues, SameCode, NewCode, Typed
  <2>2. /\ handler[h].pc \in Waits
        /\ handler'[h].pc = "idle"
        /\ \A g \in Handlers \ {h} : handler'[g] = handler[g]
        /\ pending_logins' = pending_logins /\ person' = person
    BY <1>5, IdleTyped DEF Succeeds, Ends, Waits
  <2> HIDE DEF n
  <2> QED  BY <1>0, <2>1, <2>2 DEF Attempts, SubjectOf
<1>6. CASE Passes
  <2>1. /\ DOMAIN handoff_codes' = DOMAIN handoff_codes
        /\ \A c \in DOMAIN handoff_codes :
             /\ handoff_codes'[c].login = handoff_codes[c].login
             /\ handoff_codes'[c].subject = handoff_codes[c].subject
    BY <1>6 DEF Passes, CodesStay, SameCode, Typed
  <2> QED  BY <1>6, <2>1 DEF Passes, Attempts, SubjectOf
<1>7. CASE Amends
  BY <1>7 DEF Amends, Stays, Attempts, SubjectOf
<1>8. CASE Restart
  <2>1. /\ DOMAIN handoff_codes' = DOMAIN handoff_codes
        /\ \A c \in DOMAIN handoff_codes :
             /\ handoff_codes'[c].login = handoff_codes[c].login
             /\ handoff_codes'[c].subject = handoff_codes[c].subject
    BY <1>8, RestartCodes DEF CodesStay, SameCode, Typed
  <2> QED  BY <1>0, <1>8, <2>1, IdleTyped DEF Restart, Attempts, SubjectOf
<1> QED
  <2>1. ASSUME NEW h \in Handlers, Verifies(h) \/ Provisions(h) \/ Writes(h)
        PROVE  Attempts'
    BY <2>1, <1>3 DEF Verifies, Provisions, Writes, Looks, Goes
  <2> QED  BY <1>1, <1>2, <2>1, <1>4, <1>5, <1>6, <1>7, <1>8, Kinds

LEMMA AloneStep ==
  ASSUME Typed, Attempts, Redemptions, Accounts, Alone, [Next]_vars
  PROVE  Alone'
<1>0. "idle" \notin Waits
  BY DEF Waits
<1>1. CASE UNCHANGED handler
  BY <1>1 DEF Alone
<1>2. ASSUME NEW h \in Handlers, NEW l \in Logins, callback(h, l)
      PROVE  Alone'
  BY <1>2, callbackStarts DEF Alone, Typed
<1>3. ASSUME NEW h \in Handlers, Moves(h)
      PROVE  Alone'
  BY <1>0, <1>3 DEF Moves, Alone
<1>4. ASSUME NEW h \in Handlers, Ends(h)
      PROVE  Alone'
  BY <1>4, IdleTyped DEF Ends, Alone
<1>5. CASE Amends
  BY <1>5 DEF Amends, Stays, Alone
<1>6. CASE Restart
  BY <1>6, IdleTyped DEF Restart, Alone
<1> QED
  <2>1. ASSUME NEW h \in Handlers, Verifies(h) \/ Provisions(h) \/ Writes(h)
        PROVE  Moves(h)
    BY <2>1 DEF Verifies, Provisions, Writes, Looks, Goes
  <2>2. ASSUME NEW h \in Handlers, Quits(h) \/ \E u \in DOMAIN users : Succeeds(h, u)
        PROVE  Ends(h)
    BY <2>2 DEF Quits, Succeeds
  <2> QED  BY <1>1, <1>2, <1>3, <1>4, <1>5, <1>6, <2>1, <2>2, Kinds DEF begin_login, Passes

LEMMA KeyedStep ==
  ASSUME Typed, Attempts, Redemptions, Accounts, Keyed, [Next]_vars
  PROVE  Keyed'
<1>1. CASE UNCHANGED users
  BY <1>1 DEF Keyed
<1>2. ASSUME NEW email \in Emails, NEW subject \in Subjects \cup {None},
             UniqueKeys(0, email, subject), Adds(email, subject)
      PROVE  Keyed'
  <2> DEFINE n == Len(users) + 1
  <2>1. /\ DOMAIN users' = DOMAIN users \cup {n}
        /\ n \notin DOMAIN users /\ 0 \notin DOMAIN users
        /\ \A u \in DOMAIN users : users'[u] = users[u]
        /\ users'[n].email = email /\ users'[n].subject = subject
    BY <1>2 DEF Adds, Typed
  <2> HIDE DEF n
  <2> QED  BY <1>2, <2>1 DEF Keyed, UniqueKeys
<1>3. ASSUME NEW h \in Handlers, handler[h].pc = "link", NEW u, u = handler[h].user_id,
             UniqueKeys(u, users[u].email, SubjectOf(h)), Links(u, SubjectOf(h))
      PROVE  Keyed'
  <2>1. u \in DOMAIN users /\ SubjectOf(h) # None
    BY <1>3, SsoAssumption DEF Accounts, AccountOfCallback, Attempts
  <2>2. /\ DOMAIN users' = DOMAIN users
        /\ \A v \in DOMAIN users \ {u} : users'[v] = users[v]
        /\ users'[u].email = users[u].email /\ users'[u].subject = SubjectOf(h)
    BY <1>3 DEF Links, Typed
  <2> QED  BY <1>3, <2>1, <2>2 DEF Keyed, UniqueKeys
<1>4. CASE RowsStay
  <2>1. DOMAIN users' = DOMAIN users
    BY <1>4 DEF RowsStay, Typed
  <2> QED  BY <1>4, <2>1 DEF RowsStay, Keyed
<1> QED
  <2>1. ASSUME NEW h \in Handlers, Writes(h)
        PROVE  Keyed'
    <3>1. handler[h].pc = "create" => SubjectOf(h) \in Subjects /\ EmailFor(h) \in Emails
      BY SsoAssumption DEF Attempts, EmailFor
    <3> QED  BY <2>1, <3>1, <1>2, <1>3 DEF Writes
  <2>2. ASSUME NEW h \in Handlers,
               \/ Verifies(h) \/ Provisions(h) \/ Quits(h)
               \/ \E u \in DOMAIN users : Succeeds(h, u)
        PROVE  UNCHANGED users
    BY <2>2 DEF Verifies, Provisions, Quits, Succeeds, Looks, Goes
  <2> QED  BY <1>1, <1>2, <1>4, <2>1, <2>2, Kinds
           DEF begin_login, callback, Passes, Amends, Restart


LEMMA RedemptionsStep ==
  ASSUME Typed, Attempts, Redemptions, Accounts, [Next]_vars
  PROVE  Redemptions'
<1>0. redeemer \in [Redeemers -> Redemption]
  BY DEF Typed, Redemption
<1>1. ASSUME NEW r \in Redeemers, NEW c \in DOMAIN handoff_codes, redeem_handoff_code(r, c)
      PROVE  Redemptions'
  <2>1. /\ DOMAIN handoff_codes' = DOMAIN handoff_codes
        /\ \A d \in DOMAIN handoff_codes :
             /\ handoff_codes'[d].signed = handoff_codes[d].signed
             /\ handoff_codes'[d].state # "gone" => handoff_codes[d].state # "gone"
        /\ handoff_codes'[c].state = "gone"
    BY <1>1, RedeemedCodes DEF redeem_handoff_code, CodesStay, SameCode, SameSigned, Typed
  <2>2. CASE handoff_codes[c].state = "live"
    <3>1. /\ redeemer'[r].pc = "user" /\ redeemer'[r].code = c
          /\ \A q \in Redeemers \ {r} : redeemer'[q] = redeemer[q]
      BY <1>0, <1>1, <2>2 DEF redeem_handoff_code
    <3> QED  BY <2>1, <2>2, <3>1 DEF Redemptions
  <2>3. CASE handoff_codes[c].state # "live"
    BY <1>1, <2>1, <2>3 DEF redeem_handoff_code, Redemptions
  <2> QED  BY <2>2, <2>3
<1>2. ASSUME NEW r \in Redeemers, token_user(r)
      PROVE  Redemptions'
  <2>1. /\ \A q \in Redeemers \ {r} : redeemer'[q] = redeemer[q]
        /\ redeemer'[r].pc = "idle" \/ redeemer'[r].code = redeemer[r].code
        /\ redeemer[r].pc # "idle" /\ UNCHANGED handoff_codes
    BY <1>2, token_userPasses DEF token_user
  <2> QED  BY <2>1 DEF Redemptions
<1>3. ASSUME NEW r \in Redeemers, token_issue(r)
      PROVE  Redemptions'
  <2> DEFINE c == redeemer[r].code
  <2>1. /\ c \in DOMAIN handoff_codes /\ handoff_codes[c].signed = 0
        /\ handoff_codes[c].state = "gone" /\ redeemer[r].pc # "idle"
    BY <1>3 DEF token_issue, Redemptions
  <2>2. /\ DOMAIN handoff_codes' = DOMAIN handoff_codes
        /\ handoff_codes'[c].signed = 1 /\ handoff_codes'[c].state = "gone"
        /\ \A d \in DOMAIN handoff_codes \ {c} : handoff_codes'[d] = handoff_codes[d]
    <3>1. handoff_codes \in Seq(Code)
      BY DEF Typed
    <3>2. handoff_codes' = [handoff_codes EXCEPT ![c].signed = @ + 1]
      BY <1>3 DEF token_issue
    <3> HIDE DEF c
    <3>3. /\ CodesStay
          /\ handoff_codes'[c].signed = handoff_codes[c].signed + 1
          /\ handoff_codes'[c].state = handoff_codes[c].state
          /\ \A d \in DOMAIN handoff_codes \ {c} : handoff_codes'[d] = handoff_codes[d]
      BY <2>1, <3>1, <3>2, token_issueCodes
    <3> QED  BY <2>1, <3>1, <3>3 DEF CodesStay
  <2>3. redeemer'[r].pc = "idle" /\ \A q \in Redeemers \ {r} : redeemer'[q] = redeemer[q]
    BY <1>0, <1>3, IdleTyped DEF token_issue
  <2>4. \A q \in Redeemers \ {r} : redeemer[q].pc # "idle" => redeemer[q].code # c
    BY <2>1 DEF Redemptions
  <2> HIDE DEF c
  <2> QED  BY <2>1, <2>2, <2>3, <2>4 DEF Redemptions
<1>4. ASSUME CodesStay, SameSigned(handoff_codes'),
             \A r \in Redeemers : redeemer'[r] = redeemer[r] \/ redeemer'[r].pc = "idle"
      PROVE  Redemptions'
  <2>1. /\ DOMAIN handoff_codes' = DOMAIN handoff_codes
        /\ \A d \in DOMAIN handoff_codes :
             /\ handoff_codes'[d].signed = handoff_codes[d].signed
             /\ handoff_codes'[d].state # "gone" => handoff_codes[d].state # "gone"
    BY <1>4 DEF CodesStay, SameCode, SameSigned, Typed
  <2> QED  BY <1>4, <2>1 DEF Redemptions
<1>5. ASSUME UNCHANGED <<handoff_codes, redeemer>>
      PROVE  Redemptions'
  BY <1>5 DEF Redemptions
<1>6. ASSUME NEW h \in Handlers, NEW u \in DOMAIN users, Succeeds(h, u)
      PROVE  Redemptions'
  <2> DEFINE n == Len(handoff_codes) + 1
  <2>1. /\ DOMAIN handoff_codes' = DOMAIN handoff_codes \cup {n} /\ n \notin DOMAIN handoff_codes
        /\ handoff_codes'[n].signed = 0
        /\ \A d \in DOMAIN handoff_codes :
             /\ handoff_codes'[d].signed = handoff_codes[d].signed
             /\ handoff_codes'[d].state # "gone" => handoff_codes[d].state # "gone"
    BY <1>6 DEF Succeeds, Issues, SameCode, SameSigned, NewCode, Typed
  <2>2. redeemer' = redeemer
    BY <1>6 DEF Succeeds
  <2> HIDE DEF n
  <2> QED  BY <2>1, <2>2 DEF Redemptions
<1> QED
  <2>1. ASSUME NEW h \in Handlers, Callback(h) \/ Drop(h)
        PROVE  Redemptions'
    <3>1. CASE Verifies(h) \/ Provisions(h) \/ Writes(h) \/ Quits(h)
      BY <3>1, <1>5 DEF Verifies, Provisions, Writes, Quits, Looks, Goes
    <3> QED  BY <2>1, <3>1, <1>6, VerifySteps, ProvisionSteps, Quitting DEF Callback
  <2>2. ASSUME NEW r \in Redeemers, DropRedemption(r)
        PROVE  Redemptions'
    <3>1. CodesStay /\ SameSigned(handoff_codes')
      BY <2>2, SameCodesStay DEF DropRedemption, Typed
    <3>2. \A q \in Redeemers : redeemer'[q] = redeemer[q] \/ redeemer'[q].pc = "idle"
      BY <1>0, <2>2, IdleTyped DEF DropRedemption
    <3> QED  BY <1>4, <3>1, <3>2
  <2>3. ASSUME NEW c \in DOMAIN handoff_codes, CodeExpires(c)
        PROVE  Redemptions'
    <3>1. CodesStay /\ SameSigned(handoff_codes')
      BY <2>3, CodeExpiresCodes DEF Typed
    <3> QED  BY <1>4, <2>3, <3>1 DEF CodeExpires
  <2>4. CASE Restart
    <3>1. CodesStay /\ SameSigned(handoff_codes')
      BY <2>4, RestartCodes DEF Typed
    <3>2. \A q \in Redeemers : redeemer'[q].pc = "idle"
      BY <2>4, IdleTyped DEF Restart
    <3> QED  BY <1>4, <3>1, <3>2
  <2>5. CASE \/ UNCHANGED vars \/ CacheExpires \/ RotateKey
             \/ \E l \in Logins, s \in Subjects : begin_login(l, s)
             \/ \E h \in Handlers, l \in Logins : callback(h, l)
             \/ \E l \in Logins : PendingExpires(l)
             \/ \E email \in Emails, subject \in Subjects \cup {None} : create_user(email, subject)
             \/ \E u \in DOMAIN users, is_active \in BOOLEAN : update_user(u, is_active)
    BY <1>5, <2>5 DEF vars, CacheExpires, RotateKey, begin_login, callback, PendingExpires,
                      create_user, update_user, Edit
  <2> QED  BY <1>1, <1>2, <1>3, <2>1, <2>2, <2>3, <2>4, <2>5 DEF Next

\* What a step leaves of the person behind a callback.
LEMMA SubjectStays ==
  ASSUME Typed, Attempts, NEW h \in Handlers, handler[h].pc # "idle",
         handler'[h].login = handler[h].login,
         \/ UNCHANGED person
         \/ \E l \in Logins, s \in Subjects : begin_login(l, s)
  PROVE  SubjectOf(h)' = SubjectOf(h) /\ EmailFor(h)' = EmailFor(h)
<1>1. CASE UNCHANGED person
  BY <1>1 DEF SubjectOf, EmailFor
<1>2. ASSUME NEW l \in Logins, NEW s \in Subjects, begin_login(l, s)
      PROVE  SubjectOf(h)' = SubjectOf(h)
  BY <1>2, SsoAssumption DEF begin_login, SubjectOf, Attempts, Typed
<1>3. CASE \E l \in Logins, s \in Subjects : begin_login(l, s)
  BY <1>2, <1>3 DEF EmailFor
<1> QED  BY <1>1, <1>3

LEMMA KeysStep ==
  ASSUME Typed, Attempts, Redemptions, Accounts, Alone, Keys, [Next]_vars
  PROVE  Keys'
<1>0. /\ \A h \in Handlers : handler[h].kid \in Nat /\ handler[h].keys \subseteq Nat
      /\ signing \in Nat /\ "idle" \notin Waits
  BY DEF Typed, Locals, Waits
<1>1. ASSUME NEW l \in Logins, NEW s \in Subjects, begin_login(l, s)
      PROVE  Keys'
  BY <1>1 DEF begin_login, Keys
<1>2. ASSUME NEW h \in Handlers, NEW l \in Logins, callback(h, l)
      PROVE  Keys'
  <2>1. /\ handler'[h].kid = 0 /\ handler'[h].pc \in {"exchange", "refused"}
        /\ \A g \in Handlers \ {h} :
              /\ handler'[g].pc = handler[g].pc /\ handler'[g].kid = handler[g].kid
              /\ handler'[g].keys = handler[g].keys
              /\ handler'[g].alone => handler[g].alone
    BY <1>2, callbackStarts DEF Typed
  <2>2. UNCHANGED <<jwks_cache, signing>>
    BY <1>2 DEF callback
  <2> QED  BY <1>0, <2>1, <2>2 DEF Keys
<1>3. ASSUME NEW h \in Handlers, Looks(h), handler'[h].pc \notin {"store", "again"},
             handler'[h].kid \in {0, handler[h].kid, signing}
      PROVE  Keys'
  BY <1>0, <1>3 DEF Looks, Goes, Moves, Keys
<1>4. ASSUME NEW h \in Handlers, Verifies(h)
      PROVE  Keys'
  <2>1. CASE /\ Looks(h) /\ handler[h].pc = "fetch"
             /\ Has(h, "store", handler[h].kid, {signing}, handler[h].user_id, handler[h].reason)
    BY <1>0, <2>1 DEF Looks, Goes, Moves, Has, Keys
  <2>2. CASE /\ Goes(h) /\ handler[h].pc = "store"
             /\ Has(h, "again", handler[h].kid, handler[h].keys, handler[h].user_id, handler[h].reason)
             /\ jwks_cache' = [keys |-> handler[h].keys, fresh |-> TRUE]
    <3>1. /\ jwks_cache'.fresh /\ jwks_cache'.keys = handler[h].keys
          /\ handler'[h].pc = "again" /\ handler'[h].kid = handler[h].kid
          /\ handler'[h].keys = handler[h].keys /\ signing' = signing
          /\ \A g \in Handlers \ {h} : handler'[g] = handler[g]
      BY <2>2 DEF Goes, Moves, Has
    <3>2. \A g \in Handlers \ {h} : ~(handler[g].pc = "again" /\ handler[g].alone)
      BY <2>2 DEF Alone
    <3>3. \E n \in handler[h].keys : handler[h].keys = {n} /\ handler[h].kid <= n /\ n <= signing
      BY <2>2 DEF Keys
    <3>4. ASSUME NEW g \in Handlers \ {h}
          PROVE  /\ handler'[g].kid <= signing'
                 /\ handler'[g].pc \in {"store", "again"} =>
                      \E n \in handler'[g].keys :
                        handler'[g].keys = {n} /\ handler'[g].kid <= n /\ n <= signing'
                 /\ ~(handler'[g].pc = "again" /\ handler'[g].alone)
      BY <3>1, <3>2 DEF Keys
    <3>5. handler'[h].kid <= signing'
      BY <3>1 DEF Keys
    <3> QED  BY <3>1, <3>3, <3>4, <3>5 DEF Keys
  <2>3. CASE /\ Looks(h) /\ handler'[h].pc \notin {"store", "again"}
             /\ handler'[h].kid \in {0, handler[h].kid, signing}
    BY <2>3, <1>3
  <2> QED  BY <1>4, <2>1, <2>2, <2>3 DEF Verifies, Has
<1>5. ASSUME NEW h \in Handlers, Provisions(h)
      PROVE  Keys'
  BY <1>3, <1>5 DEF Provisions, Has
<1>6. ASSUME NEW h \in Handlers, Writes(h)
      PROVE  Keys'
  <2>1. /\ handler'[h].pc = "read" /\ handler'[h].kid = handler[h].kid
        /\ \A g \in Handlers \ {h} : handler'[g] = handler[g]
        /\ UNCHANGED <<jwks_cache, signing>>
    BY <1>6 DEF Writes, Moves, Has
  <2> QED  BY <1>0, <2>1 DEF Keys
<1>7. ASSUME NEW h \in Handlers, Ends(h), UNCHANGED <<jwks_cache, signing>>
      PROVE  Keys'
  BY <1>0, <1>7, IdleTyped DEF Ends, Keys
<1>8. CASE Passes
  <2>1. /\ handler' = handler /\ signing' \in Nat /\ signing <= signing'
        /\ jwks_cache' = jwks_cache \/ \A h \in Handlers : handler[h].pc # "again"
    BY <1>8 DEF Passes
  <2>2. ASSUME NEW h \in Handlers
        PROVE  /\ handler[h].kid <= signing'
               /\ handler[h].pc \in {"store", "again"} =>
                    \E n \in handler[h].keys :
                      handler[h].keys = {n} /\ handler[h].kid <= n /\ n <= signing'
    BY <1>0, <2>1 DEF Keys
  <2> QED  BY <2>1, <2>2 DEF Keys
<1>9. CASE Amends
  BY <1>9 DEF Amends, Stays, Keys
<1>10. CASE Restart
  BY <1>0, <1>10, IdleTyped DEF Restart, Keys
<1> QED
  <2>1. ASSUME NEW h \in Handlers, Quits(h) \/ \E u \in DOMAIN users : Succeeds(h, u)
        PROVE  Ends(h) /\ UNCHANGED <<jwks_cache, signing>>
    BY <2>1 DEF Quits, Succeeds
  <2> QED  BY <1>1, <1>2, <1>4, <1>5, <1>6, <1>7, <1>8, <1>9, <1>10, <2>1, Kinds


\* No row changes hands.
RowsKept ==
  /\ DOMAIN users \subseteq DOMAIN users'
  /\ \A u \in DOMAIN users : users'[u].email = users[u].email /\ users'[u].subject = users[u].subject

LEMMA CallbackKept ==
  ASSUME Typed, Attempts, Accounts, NEW h \in Handlers, RowsKept,
         handler[h].pc # "idle", handler'[h].pc = handler[h].pc,
         handler'[h].login = handler[h].login, handler'[h].user_id = handler[h].user_id,
         handler'[h].alone => handler[h].alone,
         UNCHANGED person \/ \E l \in Logins, s \in Subjects : begin_login(l, s)
  PROVE  AccountOfCallback(h)'
<1>1. SubjectOf(h)' = SubjectOf(h) /\ EmailFor(h)' = EmailFor(h)
  BY SubjectStays
<1>2. AccountOfCallback(h)
  BY DEF Accounts
<1> QED  BY <1>1, <1>2 DEF RowsKept, AccountOfCallback, LinkedByEmail

\* Every callback that is about to link was so before, or has just found a row
\* without a subject.
FewLinks ==
  \A h \in Handlers : handler'[h].pc = "link" =>
    \/ handler[h].pc = "link" /\ handler'[h].user_id = handler[h].user_id
    \/ users[handler'[h].user_id].subject = None

LEMMA CodeKept ==
  ASSUME Typed, Accounts, NEW c \in DOMAIN handoff_codes, RowsKept, FewLinks,
         SameCode(handoff_codes', c)
  PROVE  AccountOfCode(c)'
<1> DEFINE v == handoff_codes[c].user_id
<1>1. AccountOfCode(c)
  BY DEF Accounts
<1>2. handoff_codes[c].subject # None
  <2>1. handoff_codes[c] \in Code
    BY DEF Typed
  <2> QED  BY <2>1, SsoAssumption DEF Code
<1>3. v \in DOMAIN users /\ users[v].subject # None
  BY <1>1, <1>2 DEF AccountOfCode, LinkedByEmail
<1>4. ASSUME NEW h \in Handlers, handler'[h].pc = "link", handler'[h].user_id = v
      PROVE  ~handoff_codes[c].alone
  BY <1>1, <1>3, <1>4 DEF AccountOfCode, FewLinks
<1> QED  BY <1>1, <1>3, <1>4 DEF AccountOfCode, RowsKept, SameCode, LinkedByEmail

LEMMA AccountsLinked ==
  ASSUME Typed, Attempts, Alone, Accounts, NEW h \in Handlers, Writes(h),
         handler[h].pc = "link"
  PROVE  Accounts'
<1>0. PICK v : v = handler[h].user_id
  OBVIOUS
<1>1. /\ v \in DOMAIN users /\ users[v].email = EmailFor(h)
      /\ users[v].subject = None \/ LinkedByEmail(v)
      /\ SubjectOf(h) \in Subjects /\ SubjectOf(h) # None
  BY <1>0, SsoAssumption DEF Accounts, AccountOfCallback, Attempts
<1>2. /\ DOMAIN users' = DOMAIN users
      /\ \A u \in DOMAIN users \ {v} : users'[u] = users[u]
      /\ users'[v].email = users[v].email /\ users'[v].subject = SubjectOf(h)
  BY <1>0 DEF Writes, Links, Typed
<1>3. /\ handler'[h].pc = "read" /\ handler'[h].user_id = v
      /\ handler'[h].login = handler[h].login
      /\ \A g \in Handlers \ {h} : handler'[g] = handler[g]
      /\ UNCHANGED <<person, handoff_codes>>
  BY <1>0 DEF Writes, Moves, Has
<1>4. LinkedByEmail(v)'
  BY <1>1, <1>2 DEF LinkedByEmail, EmailFor
<1>5. ASSUME NEW g \in Handlers \ {h}
      PROVE  AccountOfCallback(g)'
  <2>1. SubjectOf(g)' = SubjectOf(g) /\ EmailFor(g)' = EmailFor(g)
    BY <1>3 DEF SubjectOf, EmailFor
  <2>2. AccountOfCallback(g)
    BY DEF Accounts
  <2>3. handler[g].pc # "idle" => ~handler[g].alone /\ SubjectOf(g) # None
    BY SsoAssumption DEF Alone, Attempts
  <2>4. CASE handler[g].user_id # v
    BY <1>2, <1>3, <2>1, <2>2, <2>4 DEF AccountOfCallback, LinkedByEmail
  <2>5. CASE handler[g].user_id = v
    <3>1. handler[g].pc = "read" => users[v].email = EmailFor(g)
      BY <1>1, <2>2, <2>3, <2>5 DEF AccountOfCallback, LinkedByEmail, EmailFor
    <3> QED  BY <1>1, <1>2, <1>3, <1>4, <2>1, <2>2, <2>3, <2>5, <3>1 DEF AccountOfCallback
  <2> QED  BY <2>4, <2>5
<1>6. AccountOfCallback(h)'
  BY <1>1, <1>2, <1>3 DEF AccountOfCallback, SubjectOf
<1>7. ASSUME NEW c \in DOMAIN handoff_codes
      PROVE  AccountOfCode(c)'
  <2>1. AccountOfCode(c)
    BY DEF Accounts
  <2>2. handoff_codes[c].subject # None
    <3>1. handoff_codes[c] \in Code
      BY DEF Typed
    <3> QED  BY <3>1, SsoAssumption DEF Code
  <2>3. CASE handoff_codes[c].user_id # v
    BY <1>2, <1>3, <2>1, <2>3 DEF AccountOfCode, LinkedByEmail
  <2>4. CASE handoff_codes[c].user_id = v
    <3>1. ~handoff_codes[c].alone
      BY <1>0, <2>1, <2>4 DEF AccountOfCode
    <3>2. users[v].email = EmailOf[handoff_codes[c].subject]
      BY <1>1, <2>1, <2>2, <2>4 DEF AccountOfCode, LinkedByEmail
    <3> QED  BY <1>1, <1>2, <1>3, <1>4, <2>4, <3>1, <3>2 DEF AccountOfCode
  <2> QED  BY <2>3, <2>4
<1> QED  BY <1>3, <1>5, <1>6, <1>7 DEF Accounts

LEMMA AccountsIssued ==
  ASSUME Typed, Attempts, Alone, Accounts, NEW h \in Handlers, NEW u \in DOMAIN users,
         Succeeds(h, u)
  PROVE  Accounts'
<1>0. PICK n : n = Len(handoff_codes) + 1
  OBVIOUS
<1>1. /\ DOMAIN handoff_codes' = DOMAIN handoff_codes \cup {n}
      /\ \A c \in DOMAIN handoff_codes : SameCode(handoff_codes', c)
      /\ handoff_codes'[n] = NewCode(h, u)
  BY <1>0 DEF Succeeds, Issues, Typed
<1>2. /\ handoff_codes'[n].subject = SubjectOf(h) /\ handoff_codes'[n].user_id = u
      /\ handoff_codes'[n].alone = handler[h].alone
  BY <1>1 DEF NewCode
<1>3. /\ users' = users /\ person' = person
      /\ handler'[h].pc = "idle" /\ \A g \in Handlers \ {h} : handler'[g] = handler[g]
  BY IdleTyped DEF Succeeds, Ends
<1>4. RowsKept /\ FewLinks
  BY <1>3 DEF RowsKept, FewLinks
<1>5. \A g \in Handlers : AccountOfCallback(g)'
  <2>1. AccountOfCallback(h)'
    BY <1>3 DEF AccountOfCallback
  <2>2. ASSUME NEW g \in Handlers \ {h}
        PROVE  AccountOfCallback(g)'
    <3>1. AccountOfCallback(g)
      BY DEF Accounts
    <3> QED  BY <1>3, <3>1 DEF AccountOfCallback, SubjectOf, EmailFor, LinkedByEmail
  <2> QED  BY <2>1, <2>2
<1>6. \A c \in DOMAIN handoff_codes : AccountOfCode(c)'
  BY <1>1, <1>4, CodeKept
<1>7. AccountOfCode(n)'
  <2>1. handler[h].pc # "idle" /\ AccountOfCallback(h)
    BY DEF Succeeds, Accounts
  <2>2. users[u].subject # SubjectOf(h) =>
          ~handler[h].alone /\ LinkedByEmail(u) /\ users[u].email = EmailFor(h)
    BY <2>1 DEF Succeeds, AccountOfCallback
  <2>3. \A g \in Handlers : handler'[g].pc = "link" => ~handler[h].alone
    BY <1>3, <2>1 DEF Alone
  <2> QED  BY <1>2, <1>3, <2>2, <2>3 DEF AccountOfCode, LinkedByEmail, EmailFor
<1> QED  BY <1>1, <1>5, <1>6, <1>7 DEF Accounts

LEMMA AccountsStep ==
  ASSUME Typed, Attempts, Redemptions, Alone, Accounts, [Next]_vars
  PROVE  Accounts'
<1>0. "idle" \notin Waits
  BY DEF Waits
<1>1. ASSUME RowsKept, FewLinks, CodesStay,
             \A h \in Handlers : AccountOfCallback(h)'
      PROVE  Accounts'
  <2>1. DOMAIN handoff_codes' = DOMAIN handoff_codes
    BY <1>1 DEF CodesStay, Typed
  <2> QED  BY <1>1, <2>1, CodeKept DEF CodesStay, Accounts
<1>2. ASSUME NEW l \in Logins, NEW s \in Subjects, begin_login(l, s)
      PROVE  Accounts'
  <2>1. RowsKept /\ FewLinks /\ UNCHANGED <<handler, handoff_codes, users>>
    BY <1>2 DEF begin_login, RowsKept, FewLinks
  <2>2. ASSUME NEW h \in Handlers
        PROVE  AccountOfCallback(h)'
    <3>1. CASE handler[h].pc = "idle"
      BY <2>1, <3>1 DEF AccountOfCallback
    <3>2. CASE handler[h].pc # "idle"
      BY <1>2, <2>1, <3>2, CallbackKept
    <3> QED  BY <3>1, <3>2
  <2> QED  BY <1>1, <2>1, <2>2, SameCodesStay DEF Typed
<1>3. ASSUME NEW h \in Handlers, NEW l \in Logins, callback(h, l)
      PROVE  Accounts'
  <2>1. UNCHANGED <<users, handoff_codes, person>>
    BY <1>3 DEF callback
  <2>2. /\ handler'[h].pc \in {"exchange", "refused"}
        /\ \A g \in Handlers \ {h} :
              /\ handler'[g].pc = handler[g].pc /\ handler'[g].login = handler[g].login
              /\ handler'[g].user_id = handler[g].user_id
              /\ handler'[g].alone => handler[g].alone
    BY <1>3, callbackStarts DEF Typed
  <2>3. RowsKept /\ FewLinks
    BY <2>1, <2>2 DEF RowsKept, FewLinks
  <2>4. ASSUME NEW g \in Handlers
        PROVE  AccountOfCallback(g)'
    <3>1. CASE g = h \/ handler[g].pc = "idle"
      BY <2>2, <3>1 DEF AccountOfCallback
    <3>2. CASE g # h /\ handler[g].pc # "idle"
      BY <2>1, <2>2, <2>3, <3>2, CallbackKept
    <3> QED  BY <3>1, <3>2
  <2> QED  BY <1>1, <2>1, <2>3, <2>4, SameCodesStay DEF Typed
<1>4. ASSUME NEW h \in Handlers, Moves(h), RowsKept, FewLinks,
             UNCHANGED <<handoff_codes, person>>, AccountOfCallback(h)'
      PROVE  Accounts'
  <2>1. ASSUME NEW g \in Handlers \ {h}
        PROVE  AccountOfCallback(g)'
    <3>1. handler'[g] = handler[g]
      BY <1>4 DEF Moves
    <3>2. CASE handler[g].pc = "idle"
      BY <3>1, <3>2 DEF AccountOfCallback
    <3>3. CASE handler[g].pc # "idle"
      BY <1>4, <3>1, <3>3, CallbackKept
    <3> QED  BY <3>2, <3>3
  <2> QED  BY <1>1, <1>4, <2>1, SameCodesStay DEF Typed
<1>5. ASSUME NEW h \in Handlers, Verifies(h)
      PROVE  Accounts'
  <2>1. Moves(h) /\ UNCHANGED <<users, handoff_codes, person>>
    BY <1>5 DEF Verifies, Looks, Goes
  <2>2. handler'[h].pc \notin {"link", "read"}
    BY <1>5 DEF Verifies, Has
  <2>3. RowsKept /\ FewLinks
    BY <2>1, <2>2 DEF RowsKept, FewLinks, Moves
  <2> QED  BY <1>4, <2>1, <2>2, <2>3 DEF AccountOfCallback
<1>6. ASSUME NEW h \in Handlers, Provisions(h)
      PROVE  Accounts'
  <2>1. Moves(h) /\ UNCHANGED <<users, handoff_codes, person>>
    BY <1>6 DEF Provisions, Looks, Goes
  <2>2. /\ handler'[h].pc # "read"
        /\ handler'[h].pc = "link" =>
             /\ handler'[h].user_id \in DOMAIN users
             /\ users[handler'[h].user_id].email = EmailFor(h)
             /\ users[handler'[h].user_id].subject = None
    BY <1>6 DEF Provisions, Has
  <2>3. RowsKept /\ FewLinks
    BY <2>1, <2>2 DEF RowsKept, FewLinks, Moves
  <2>4. AccountOfCallback(h)'
    BY <2>1, <2>2 DEF AccountOfCallback, Moves, EmailFor, SubjectOf
  <2> QED  BY <1>4, <2>1, <2>3, <2>4
<1>7. ASSUME NEW h \in Handlers, Writes(h)
      PROVE  Accounts'
  <2>1. CASE handler[h].pc = "link"
    BY <1>7, <2>1, AccountsLinked
  <2>2. CASE handler[h].pc = "create"
    <3>1. /\ Moves(h) /\ UNCHANGED <<handoff_codes, person>>
          /\ handler'[h].pc = "read" /\ handler'[h].user_id = Len(users) + 1
          /\ Adds(EmailFor(h), SubjectOf(h))
      BY <1>7, <2>2 DEF Writes, Has
    <3>2. RowsKept /\ FewLinks
      BY <3>1 DEF RowsKept, FewLinks, Moves, Adds, Typed
    <3>3. /\ Len(users) + 1 \in DOMAIN users'
          /\ users'[Len(users) + 1].subject = SubjectOf(h)
      BY <3>1 DEF Adds, Typed
    <3>4. AccountOfCallback(h)'
      BY <3>1, <3>3 DEF AccountOfCallback, Moves, SubjectOf
    <3> QED  BY <1>4, <3>1, <3>2, <3>4
  <2> QED  BY <1>7, <2>1, <2>2 DEF Writes
<1>8. ASSUME NEW h \in Handlers, Quits(h)
      PROVE  Accounts'
  <2>1. /\ UNCHANGED <<users, handoff_codes, person>>
        /\ handler'[h].pc = "idle" /\ \A g \in Handlers \ {h} : handler'[g] = handler[g]
    BY <1>8, IdleTyped DEF Quits, Ends
  <2>2. RowsKept /\ FewLinks
    BY <2>1 DEF RowsKept, FewLinks
  <2>3. ASSUME NEW g \in Handlers
        PROVE  AccountOfCallback(g)'
    <3>1. CASE g = h \/ handler[g].pc = "idle"
      BY <2>1, <3>1 DEF AccountOfCallback
    <3>2. CASE g # h /\ handler[g].pc # "idle"
      BY <2>1, <2>2, <3>2, CallbackKept
    <3> QED  BY <3>1, <3>2
  <2> QED  BY <1>1, <2>1, <2>2, <2>3, SameCodesStay DEF Typed
<1>9. ASSUME Stays, RowsKept, CodesStay, UNCHANGED person
      PROVE  Accounts'
  <2>1. FewLinks
    BY <1>9 DEF Stays, FewLinks
  <2>2. ASSUME NEW h \in Handlers
        PROVE  AccountOfCallback(h)'
    <3>1. CASE handler[h].pc = "idle"
      BY <1>9, <3>1 DEF Stays, AccountOfCallback
    <3>2. CASE handler[h].pc # "idle"
      BY <1>9, <3>2, CallbackKept DEF Stays
    <3> QED  BY <3>1, <3>2
  <2> QED  BY <1>1, <1>9, <2>1, <2>2
<1>10. CASE Passes
  <2>1. Stays /\ RowsKept
    BY <1>10 DEF Passes, Stays, RowsKept, Typed
  <2> QED  BY <1>9, <1>10, <2>1 DEF Passes
<1>11. CASE Amends
  <2>1. RowsKept
    BY <1>11 DEF Amends, RowsStay, Adds, RowsKept, Typed
  <2> QED  BY <1>9, <1>11, <2>1, SameCodesStay DEF Amends, Typed
<1>12. CASE Restart
  <2>1. RowsKept /\ FewLinks /\ \A h \in Handlers : AccountOfCallback(h)'
    BY <1>12, IdleTyped DEF Restart, RowsKept, FewLinks, AccountOfCallback
  <2> QED  BY <1>1, <1>12, <2>1, RestartCodes DEF Typed
<1> QED
  BY <1>2, <1>3, <1>5, <1>6, <1>7, <1>8, <1>10, <1>11, <1>12, AccountsIssued, Kinds


LEMMA CurrentKept ==
  ASSUME Typed, Attempts, NEW h \in Handlers, CurrentFor(h), UNCHANGED users,
         handler'[h].pc = handler[h].pc, handler'[h].login = handler[h].login,
         handler'[h].kid = handler[h].kid, handler'[h].user_id = handler[h].user_id,
         handler'[h].reason = handler[h].reason, handler'[h].alone => handler[h].alone,
         signing' \in Nat, signing <= signing',
         UNCHANGED person \/ \E l \in Logins, s \in Subjects : begin_login(l, s)
  PROVE  CurrentFor(h)'
<1>1. CASE handler[h].pc = "idle"
  BY <1>1 DEF CurrentFor
<1>2. CASE handler[h].pc # "idle"
  <2>1. SubjectOf(h)' = SubjectOf(h) /\ EmailFor(h)' = EmailFor(h)
    BY <1>2, SubjectStays
  <2>2. handler[h].kid < signing => handler[h].kid < signing'
    BY DEF Typed, Locals
  <2> QED  BY <2>1, <2>2 DEF CurrentFor
<1> QED  BY <1>1, <1>2

LEMMA CurrentStep ==
  ASSUME Typed, Attempts, Redemptions, Keyed, Alone, Accounts, Keys, Current, [Next]_vars
  PROVE  Current'
<1>0. "idle" \notin Waits /\ signing \in Nat /\ signing <= signing
      /\ \A h \in Handlers : CurrentFor(h)
  BY DEF Waits, Typed, Current
<1>1. ASSUME NEW l \in Logins, NEW s \in Subjects, begin_login(l, s)
      PROVE  Current'
  <2>1. UNCHANGED <<users, handler, signing>>
    BY <1>1 DEF begin_login
  <2>2. ASSUME NEW h \in Handlers PROVE CurrentFor(h)'
    BY <1>0, <1>1, <2>1, CurrentKept
  <2> QED  BY <2>2 DEF Current
<1>2. ASSUME NEW h \in Handlers, NEW l \in Logins, callback(h, l)
      PROVE  Current'
  <2>1. UNCHANGED <<users, person, signing>>
    BY <1>2 DEF callback
  <2>2. /\ \/ handler'[h].pc = "exchange"
           \/ handler'[h].pc = "refused" /\ handler'[h].reason = "state"
        /\ \A g \in Handlers \ {h} :
              /\ handler'[g].pc = handler[g].pc /\ handler'[g].login = handler[g].login
              /\ handler'[g].kid = handler[g].kid
              /\ handler'[g].user_id = handler[g].user_id
              /\ handler'[g].reason = handler[g].reason
              /\ handler'[g].alone => handler[g].alone
    BY <1>2, callbackStarts DEF Typed
  <2>3. CurrentFor(h)'
    BY <2>2 DEF CurrentFor
  <2>4. ASSUME NEW g \in Handlers \ {h} PROVE CurrentFor(g)'
    BY <1>0, <2>1, <2>2, CurrentKept
  <2> QED  BY <2>3, <2>4 DEF Current
<1>3. ASSUME NEW h \in Handlers, Looks(h), CurrentFor(h)'
      PROVE  Current'
  <2>1. /\ UNCHANGED <<users, person, signing>>
        /\ \A g \in Handlers \ {h} : handler'[g] = handler[g]
    BY <1>3 DEF Looks, Goes, Moves
  <2>2. ASSUME NEW g \in Handlers \ {h} PROVE CurrentFor(g)'
    BY <1>0, <2>1, CurrentKept
  <2> QED  BY <1>3, <2>2 DEF Current
<1>4. ASSUME NEW h \in Handlers, Verifies(h)
      PROVE  Current'
  <2>1. CASE /\ Looks(h) /\ handler[h].pc = "again" /\ ~cached_jwk(handler[h].kid)
             /\ Has(h, "refused", handler[h].kid, handler[h].keys, handler[h].user_id, "key")
    <3>1. handler[h].alone => handler[h].kid < signing
      <4> SUFFICES ASSUME handler[h].alone PROVE handler[h].kid < signing
        OBVIOUS
      <4>1. PICK n \in handler[h].keys :
              handler[h].keys = {n} /\ handler[h].kid <= n /\ n <= signing
        BY <2>1 DEF Keys
      <4>2. handler[h].kid \notin handler[h].keys
        BY <2>1 DEF Keys, cached_jwk
      <4>3. handler[h].kid \in Nat /\ n \in Nat
        BY <4>1 DEF Typed, Locals
      <4> QED  BY <1>0, <4>1, <4>2, <4>3
    <3>2. CurrentFor(h)'
      BY <2>1, <3>1 DEF CurrentFor, Has, Looks, Goes, Moves
    <3> QED  BY <1>3, <2>1, <3>2
  <2>2. CASE /\ handler'[h].pc \notin {"email", "link", "create"}
             /\ handler'[h].pc = "refused" => handler'[h].reason \in {"idp", "claims"}
    <3>1. CurrentFor(h)'
      BY <2>2 DEF CurrentFor
    <3>2. /\ UNCHANGED <<users, person, signing>>
          /\ \A g \in Handlers \ {h} : handler'[g] = handler[g]
      BY <1>4 DEF Verifies, Looks, Goes, Moves
    <3>3. ASSUME NEW g \in Handlers \ {h} PROVE CurrentFor(g)'
      BY <1>0, <3>2, CurrentKept
    <3> QED  BY <3>1, <3>3 DEF Current
  <2> QED  BY <1>4, <2>1, <2>2 DEF Verifies, Has
<1>5. ASSUME NEW h \in Handlers, Provisions(h)
      PROVE  Current'
  <2>1. /\ Looks(h) /\ UNCHANGED users
        /\ handler'[h].alone = handler[h].alone
        /\ SubjectOf(h)' = SubjectOf(h) /\ EmailFor(h)' = EmailFor(h)
    BY <1>5 DEF Provisions, Looks, Goes, Moves, SubjectOf, EmailFor
  <2>2. CurrentFor(h)
    BY <1>0
  <2>3. ASSUME handler'[h].pc = "email"
        PROVE  CurrentFor(h)'
    BY <1>5, <2>1, <2>3 DEF Provisions, Has, CurrentFor
  <2>4. ASSUME handler'[h].pc \in {"link", "create"}
        PROVE  CurrentFor(h)'
    BY <1>5, <2>1, <2>2, <2>4 DEF Provisions, Has, CurrentFor
  <2>5. ASSUME handler'[h].pc = "refused" /\ handler'[h].reason = "conflict"
        PROVE  CurrentFor(h)'
    BY <1>5, <2>1, <2>2, <2>5 DEF Provisions, Has, CurrentFor
  <2>6. ASSUME handler'[h].pc = "refused" /\ handler'[h].reason = "inactive"
        PROVE  CurrentFor(h)'
    BY <1>5, <2>1, <2>6 DEF Provisions, Has, CurrentFor
  <2>7. ASSUME handler'[h].pc = "refused" /\ handler'[h].reason = "exists"
        PROVE  CurrentFor(h)'
    <3>1. CASE /\ handler[h].pc = "link"
               /\ ~UniqueKeys(handler[h].user_id, users[handler[h].user_id].email, SubjectOf(h))
      <4>1. handler[h].user_id \in DOMAIN users
        BY <3>1 DEF Accounts, AccountOfCallback
      <4>2. handler[h].alone => UniqueKeys(handler[h].user_id, users[handler[h].user_id].email, SubjectOf(h))
        BY <2>2, <3>1, <4>1 DEF CurrentFor, UniqueKeys, Keyed
      <4> QED  BY <2>1, <3>1, <4>2 DEF CurrentFor
    <3>2. CASE handler[h].pc = "create" /\ ~UniqueKeys(0, EmailFor(h), SubjectOf(h))
      <4>1. handler[h].alone => UniqueKeys(0, EmailFor(h), SubjectOf(h))
        BY <2>2, <3>2 DEF CurrentFor, UniqueKeys
      <4> QED  BY <2>1, <3>2, <4>1 DEF CurrentFor
    <3> QED  BY <1>5, <2>7, <3>1, <3>2 DEF Provisions, Has
  <2>8. CurrentFor(h)'
    BY <1>5, <2>3, <2>4, <2>5, <2>6, <2>7 DEF Provisions, Has
  <2> QED  BY <1>3, <2>1, <2>8
<1>6. ASSUME NEW h \in Handlers, Writes(h)
      PROVE  Current'
  <2>1. /\ handler'[h].pc = "read" /\ \A g \in Handlers \ {h} : handler'[g] = handler[g]
        /\ handler[h].pc # "idle"
    BY <1>6 DEF Writes, Moves, Has
  <2>2. ASSUME NEW g \in Handlers \ {h} PROVE handler[g].pc = "idle" \/ ~handler[g].alone
    BY <2>1 DEF Alone
  <2> QED  BY <2>1, <2>2 DEF Current, CurrentFor
<1>7. ASSUME NEW h \in Handlers, Ends(h), UNCHANGED <<users, person, signing>>
      PROVE  Current'
  <2>1. CurrentFor(h)'
    BY <1>7, IdleTyped DEF Ends, CurrentFor
  <2>2. ASSUME NEW g \in Handlers \ {h} PROVE CurrentFor(g)'
    <3>1. handler'[g] = handler[g]
      BY <1>7 DEF Ends
    <3> QED  BY <1>0, <1>7, <3>1, CurrentKept
  <2> QED  BY <2>1, <2>2 DEF Current
<1>8. CASE Passes
  <2>1. /\ UNCHANGED <<users, person, handler>> /\ signing' \in Nat /\ signing <= signing'
    BY <1>8 DEF Passes
  <2>2. ASSUME NEW h \in Handlers PROVE CurrentFor(h)'
    BY <1>0, <2>1, CurrentKept
  <2> QED  BY <2>2 DEF Current
<1>9. CASE Amends
  <2>1. \A h \in Handlers : handler'[h].pc = "idle" \/ ~handler'[h].alone
    BY <1>9 DEF Amends, Stays
  <2> QED  BY <2>1 DEF Current, CurrentFor
<1>10. CASE Restart
  BY <1>10, IdleTyped DEF Restart, Current, CurrentFor
<1> QED
  <2>1. ASSUME NEW h \in Handlers, Quits(h) \/ \E u \in DOMAIN users : Succeeds(h, u)
        PROVE  Ends(h) /\ UNCHANGED <<users, person, signing>>
    BY <2>1 DEF Quits, Succeeds
  <2> QED  BY <1>1, <1>2, <1>4, <1>5, <1>6, <1>7, <1>8, <1>9, <1>10, <2>1, Kinds

----------------------------------------------------------------------------
(* The theorems.                                                           *)

LEMMA SsoInvHolds == Init => SsoInv
<1> SUFFICES ASSUME Init PROVE SsoInv
  OBVIOUS
<1>1. Typed
  BY UserTablesAssumption, IdleTyped DEF Init, Typed
<1>2. Keyed
  BY UserTablesAssumption DEF Init, Keyed
<1>3. /\ handoff_codes = <<>> /\ DOMAIN handoff_codes = {} /\ pending_logins = {}
      /\ \A h \in Handlers : handler[h].pc = "idle" /\ handler[h].kid = 0
      /\ \A r \in Redeemers : redeemer[r].pc = "idle"
      /\ signing = 1
  BY IdleTyped DEF Init
<1>4. Attempts /\ Redemptions /\ Alone /\ Accounts /\ Keys /\ Current
  BY <1>3 DEF Attempts, Redemptions, Alone, Accounts, AccountOfCallback, Keys, Current,
              CurrentFor, Waits
<1> QED  BY <1>1, <1>2, <1>4 DEF SsoInv

LEMMA SsoInvStep == SsoInv /\ [Next]_vars => SsoInv'
BY TypedStep, AttemptsStep, RedemptionsStep, KeyedStep, AloneStep, AccountsStep, KeysStep,
   CurrentStep
   DEF SsoInv

LEMMA SsoInvariant == Spec => []SsoInv
BY SsoInvHolds, SsoInvStep, PTL DEF Spec

\* However many people, emails, callbacks and edits there are: a sign-in leads
\* to the account that bears its person's subject, the same one every time,
\* unless a callback that overlapped, of somebody whom Entra ID knows by the
\* same email, took the account over (provision_or_link_user).
THEOREM PersonHasOneAccount == Spec => []OneAccountPerPerson
<1>1. SsoInv => OneAccountPerPerson
  <2> SUFFICES ASSUME SsoInv, NEW c \in DOMAIN handoff_codes, NEW d \in DOMAIN handoff_codes
               PROVE  /\ TakenOver(c) \/ users[handoff_codes[c].user_id].subject = handoff_codes[c].subject
                      /\ handoff_codes[c].subject = handoff_codes[d].subject =>
                           \/ handoff_codes[c].user_id = handoff_codes[d].user_id
                           \/ TakenOver(c) \/ TakenOver(d)
    BY DEF OneAccountPerPerson
  <2>1. ASSUME NEW e \in DOMAIN handoff_codes
        PROVE  /\ handoff_codes[e].user_id \in DOMAIN users
               /\ TakenOver(e) \/ users[handoff_codes[e].user_id].subject = handoff_codes[e].subject
               /\ handoff_codes[e].subject # None
    <3>1. handoff_codes[e].subject # None
      <4>1. handoff_codes[e] \in Code
        BY DEF SsoInv, Typed
      <4> QED  BY <4>1, SsoAssumption DEF Code
    <3>2. AccountOfCode(e)
      BY DEF SsoInv, Accounts
    <3> QED  BY <3>1, <3>2 DEF AccountOfCode, LinkedByEmail, TakenOver
  <2> QED  BY <2>1 DEF SsoInv, Keyed
<1> QED  BY <1>1, SsoInvariant, PTL

\* Two people never get into one account when neither callback overlapped with
\* another ("already linked to a different subject").
THEOREM AccountHasOnePerson == Spec => []OnePersonPerAccount
<1>1. SsoInv => OnePersonPerAccount
  BY DEF SsoInv, Accounts, AccountOfCode, OnePersonPerAccount
<1> QED  BY <1>1, SsoInvariant, PTL

\* A login attempt opens at most one session, however often callbacks and codes
\* are sent and across any number of restarts: complete_login and
\* redeem_handoff_code take what they use out of their map.
THEOREM AttemptSignsInOnce == Spec => []OneSessionPerLogin
<1>1. SsoInv => OneSessionPerLogin
  BY DEF SsoInv, Attempts, Redemptions, OneSessionPerLogin
<1> QED  BY <1>1, SsoInvariant, PTL

\* A callback that nothing interferes with is turned away only for a reason
\* that holds: the key is no longer published, the email is another person's,
\* or the account is inactive.
THEOREM RefusalsAreGenuine == Spec => []RefusalIsGenuine
<1>1. SsoInv => RefusalIsGenuine
  <2> SUFFICES ASSUME SsoInv, NEW h \in Handlers, handler[h].pc = "refused", handler[h].alone
               PROVE  LET r == handler[h].reason
                      IN /\ r = "key" => handler[h].kid # signing
                         /\ r = "conflict" =>
                              \E u \in DOMAIN users :
                                /\ users[u].email = EmailFor(h)
                                /\ users[u].subject \notin {None, SubjectOf(h)}
                         /\ r = "inactive" => ~users[handler[h].user_id].is_active
                         /\ r # "exists"
    BY DEF RefusalIsGenuine
  <2>1. CurrentFor(h)
    BY DEF SsoInv, Current
  <2>2. handler[h].kid < signing => handler[h].kid # signing
    BY DEF SsoInv, Typed, Locals
  <2> QED  BY <2>1, <2>2 DEF CurrentFor
<1> QED  BY <1>1, SsoInvariant, PTL
=============================================================================
