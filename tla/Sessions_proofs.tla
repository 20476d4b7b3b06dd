--------------------------- MODULE Sessions_proofs ---------------------------
(***************************************************************************)
(* What Sessions promises, proved for any number of users, clients and     *)
(* requests, and whatever the bounds.                                      *)
(***************************************************************************)
EXTENDS Sessions, FiniteSetTheorems, TLAPS

----------------------------------------------------------------------------
(* The inductive invariant.                                                *)

ClientPcs == {"access", "select", "authenticate", "revoke", "user", "issue"}
SweepPcs == {"mark", "password", "deactivate", "sweep"}
Outcomes == {"none", "served", "login", "cleared", "invalid", "done"}

Locals ==
  [pc : ClientPcs \cup SweepPcs \cup {"idle", "redeem", "answer"},
   kind : ClientKinds \cup {"none", "reset", "deactivate"},
   client : Clients \cup {0}, access : BOOLEAN, token : Nat, user : Users \cup {0},
   password : Nat, reset : Nat, new : Nat, outcome : Outcomes, seen : BOOLEAN]

Holding == [access : BOOLEAN, token : Nat]

Typed ==
  /\ active \in [Users -> BOOLEAN] /\ password \in [Users -> Nat]
  /\ sessions \in Seq(Session) /\ resets \in Seq(Reset) /\ swept \subseteq Users
  /\ client \in [Clients -> Holding]
  /\ request \in [Requests -> Locals]
  /\ overlapped \in BOOLEAN /\ losses \in Nat

\* What the locals hold at each place of a handler.  Whoever a reset or a
\* deactivation is about has been swept.
ShapeOf(q) ==
  LET x == request[q]
  IN /\ x.pc = "idle" => x.kind = "none"
     /\ x.pc # "answer" => x.new = 0 /\ x.outcome = "none"
     /\ x.new # 0 => x.outcome = "served"
     /\ x.pc \in ClientPcs => x.kind \in ClientKinds
     /\ x.pc \in SweepPcs \cup {"redeem"} => x.kind \notin ClientKinds
     /\ x.kind \in ClientKinds => x.client \in Clients /\ x.user = Owner[x.client]
     /\ x.kind \notin ClientKinds => x.token = 0 /\ x.new = 0 /\ x.outcome # "served"
     /\ x.pc \in {"revoke", "user"} => x.token # 0
     /\ x.pc \in {"redeem", "mark"} => x.reset \in DOMAIN resets
     /\ x.pc = "mark" => x.user = resets[x.reset].user
     /\ x.pc \in SweepPcs => x.user \in swept

Shape ==
  /\ \A q \in Requests : ShapeOf(q)
  /\ \A k \in DOMAIN resets : resets[k].user \in swept

\* A refresh token is one client's: it is on its way to that client, or the
\* client and its requests hold it.
ClientTokens(c) ==
  /\ client[c].token <= Len(sessions)
  /\ client[c].token # 0 =>
       /\ sessions[client[c].token].user = Owner[c]
       /\ \A d \in Clients : client[d].token = client[c].token => d = c
       /\ \A q \in Requests : request[q].token = client[c].token => request[q].client = c

RequestTokens(q) ==
  LET x == request[q]
  IN /\ x.token <= Len(sessions) /\ x.new <= Len(sessions)
     /\ x.token # 0 => sessions[x.token].user = Owner[x.client]
     /\ x.new # 0 =>
          /\ sessions[x.new].user = Owner[x.client]
          /\ \A c \in Clients : client[c].token # x.new
          /\ \A p \in Requests :
               request[p].token # x.new /\ (p # q => request[p].new # x.new)

Tokens ==
  /\ \A c \in Clients : ClientTokens(c)
  /\ \A q \in Requests : RequestTokens(q)

\* Who is served has been active since the request was sent.
SeenOf(q) ==
  /\ request[q].outcome = "served" \/ request[q].pc = "issue" => request[q].seen
  /\ request[q].kind \in ClientKinds /\ active[request[q].user] => request[q].seen

Seen == \A q \in Requests : SeenOf(q)

\* The answer to request q will give client c another token, or none.
Replaces(q, c) ==
  LET x == request[q]
  IN /\ x.client = c /\ x.kind \in ClientKinds
     /\ \/ x.pc \in {"user", "issue"}
        \/ x.pc = "answer" /\ (x.new # 0 \/ x.outcome = "cleared")

\* QuietIsSignedIn while requests are under way.
Signed ==
  /\ \A u \in Users \ swept : active[u]
  /\ losses = 0 => \A q \in Requests :
       request[q].new # 0 /\ Owner[request[q].client] \notin swept => Live(request[q].new)
  /\ losses = 0 => \A c \in Clients :
       client[c].token # 0 /\ Owner[c] \notin swept =>
         Live(client[c].token) \/ \E q \in Requests : Replaces(q, c)

Single == ~overlapped => \A p, q \in Requests : ~Idle(p) /\ ~Idle(q) => p = q

Calm == ~overlapped /\ losses = 0

\* ResetSignsOut while a request is under way.
Current ==
  Calm =>
    /\ \A q \in Requests : request[q].pc \in {"revoke", "user", "issue"} =>
         request[q].password = password[request[q].user]
    /\ \A s \in DOMAIN sessions : Live(s) =>
         \/ sessions[s].password = password[sessions[s].user]
         \/ \E q \in Requests : At(q, "sweep") /\ request[q].user = sessions[s].user

Pending(u) == \E q \in Requests : At(q, "password") /\ request[q].user = u

\* ResetLinkWorksOnce while a request is under way.
Counted ==
  Calm =>
    /\ \A q \in Requests : At(q, "mark") => ~resets[request[q].reset].used
    /\ \A u \in Users :
         Cardinality(UsedLinks(u)) = IF Pending(u) THEN password[u] + 1 ELSE password[u]

SessionsInv == Typed /\ Shape /\ Tokens /\ Seen /\ Signed /\ Single /\ Current /\ Counted



----------------------------------------------------------------------------
(* What the steps do to the locals of the requests.                        *)

LEMMA RowsTyped ==
  ASSUME Typed
  PROVE  /\ DOMAIN sessions = 1 .. Len(sessions) /\ Len(sessions) \in Nat
         /\ \A s \in DOMAIN sessions :
              /\ sessions[s] \in Session
              /\ sessions[s].user \in Users /\ sessions[s].password \in Nat
              /\ sessions[s].revoked \in BOOLEAN /\ sessions[s].expired \in BOOLEAN
         /\ DOMAIN resets = 1 .. Len(resets) /\ Len(resets) \in Nat
         /\ \A k \in DOMAIN resets :
              /\ resets[k] \in Reset /\ resets[k].user \in Users
              /\ resets[k].used \in BOOLEAN /\ resets[k].expired \in BOOLEAN
<1>1. /\ DOMAIN sessions = 1 .. Len(sessions) /\ Len(sessions) \in Nat
      /\ \A s \in DOMAIN sessions : sessions[s] \in Session
      /\ DOMAIN resets = 1 .. Len(resets) /\ Len(resets) \in Nat
      /\ \A k \in DOMAIN resets : resets[k] \in Reset
  BY DEF Typed
<1>2. \A x \in Session : /\ x.user \in Users /\ x.password \in Nat
                         /\ x.revoked \in BOOLEAN /\ x.expired \in BOOLEAN
  BY DEF Session
<1>3. \A x \in Reset : x.user \in Users /\ x.used \in BOOLEAN /\ x.expired \in BOOLEAN
  BY DEF Reset
<1> QED  BY <1>1, <1>2, <1>3

LEMMA NoneTyped ==
  /\ None \in Locals /\ None.pc = "idle" /\ None.kind = "none" /\ None.token = 0
  /\ None.new = 0 /\ None.outcome = "none"
BY DEF None, Locals, Outcomes

Ends(q) ==
  /\ request' \in [Requests -> Locals]
  /\ \A p \in Requests \ {q} : request'[p] = request[p]
  /\ request'[q] = None

\* Request q moves to pc; the rest of its locals stay.
Moves(q, pc, user, pass, new, outcome) ==
  LET x == request[q]
      y == request'[q]
  IN /\ request' \in [Requests -> Locals]
     /\ \A p \in Requests \ {q} : request'[p] = request[p]
     /\ y.pc = pc /\ y.user = user /\ y.password = pass /\ y.new = new /\ y.outcome = outcome
     /\ y.kind = x.kind /\ y.client = x.client /\ y.token = x.token
     /\ y.reset = x.reset /\ y.seen = x.seen

LEMMA BecomeSets ==
  ASSUME request \in [Requests -> Locals], NEW q \in Requests, NEW y \in Locals,
         Become(q, y)
  PROVE  /\ request' \in [Requests -> Locals]
         /\ \A p \in Requests \ {q} : request'[p] = request[p]
         /\ request'[q] = y
BY DEF Become

LEMMA BecomeEnds ==
  ASSUME request \in [Requests -> Locals], NEW q \in Requests, Become(q, None)
  PROVE  Ends(q)
BY BecomeSets, NoneTyped DEF Ends

LEMMA BecomeMoves ==
  ASSUME request \in [Requests -> Locals], NEW q \in Requests, NEW y \in Locals, Become(q, y),
         y.kind = request[q].kind, y.client = request[q].client,
         y.token = request[q].token, y.reset = request[q].reset, y.seen = request[q].seen
  PROVE  Moves(q, y.pc, y.user, y.password, y.new, y.outcome)
BY BecomeSets DEF Moves

LEMMA GotoMoves ==
  ASSUME request \in [Requests -> Locals], NEW q \in Requests,
         NEW p \in ClientPcs \cup SweepPcs, Goto(q, p)
  PROVE  Moves(q, p, request[q].user, request[q].password, request[q].new, request[q].outcome)
<1> DEFINE x == request[q]
           y == [x EXCEPT !.pc = p]
<1>1. x \in Locals
  OBVIOUS
<1>2. /\ y \in Locals /\ y.pc = p /\ y.user = x.user /\ y.password = x.password
      /\ y.new = x.new /\ y.outcome = x.outcome
      /\ y.kind = x.kind /\ y.client = x.client /\ y.token = x.token
      /\ y.reset = x.reset /\ y.seen = x.seen
  <2> HIDE DEF x
  <2> QED  BY <1>1 DEF Locals
<1>3. Become(q, y)
  BY DEF Goto
<1> HIDE DEF y
<1>4. Moves(q, y.pc, y.user, y.password, y.new, y.outcome)
  BY <1>2, <1>3, BecomeMoves
<1> QED  BY <1>2, <1>4

LEMMA AnswerMoves ==
  ASSUME request \in [Requests -> Locals], NEW q \in Requests, NEW o \in Outcomes, Answer(q, o)
  PROVE  Moves(q, "answer", request[q].user, request[q].password, request[q].new, o)
<1> DEFINE x == request[q]
           y == [x EXCEPT !.pc = "answer", !.outcome = o]
<1>1. x \in Locals
  OBVIOUS
<1>2. /\ y \in Locals /\ y.pc = "answer" /\ y.user = x.user /\ y.password = x.password
      /\ y.new = x.new /\ y.outcome = o
      /\ y.kind = x.kind /\ y.client = x.client /\ y.token = x.token
      /\ y.reset = x.reset /\ y.seen = x.seen
  <2> HIDE DEF x
  <2> QED  BY <1>1 DEF Locals
<1>3. Become(q, y)
  BY DEF Answer
<1> HIDE DEF y
<1>4. Moves(q, y.pc, y.user, y.password, y.new, y.outcome)
  BY <1>2, <1>3, BecomeMoves
<1> QED  BY <1>2, <1>4

LEMMA RedeemSelectMoves ==
  ASSUME Typed, NEW q \in Requests, RedeemSelect(q), Live(request[q].token)
  PROVE  Moves(q, "revoke", sessions[request[q].token].user,
               sessions[request[q].token].password, request[q].new, request[q].outcome)
<1> DEFINE x == request[q]
           u == sessions[x.token].user
           w == sessions[x.token].password
           y == [x EXCEPT !.pc = "revoke", !.user = u, !.password = w]
<1>1. x \in Locals /\ u \in Users /\ w \in Nat
  BY RowsTyped DEF Typed, Live
<1>2. /\ y \in Locals /\ y.pc = "revoke" /\ y.user = u /\ y.password = w
      /\ y.new = x.new /\ y.outcome = x.outcome
      /\ y.kind = x.kind /\ y.client = x.client /\ y.token = x.token
      /\ y.reset = x.reset /\ y.seen = x.seen
  <2> HIDE DEF x, u, w
  <2> QED  BY <1>1 DEF Locals, ClientPcs
<1>3. Become(q, y)
  BY DEF RedeemSelect
<1> HIDE DEF y
<1>4. Moves(q, y.pc, y.user, y.password, y.new, y.outcome)
  BY <1>2, <1>3, BecomeMoves DEF Typed
<1> QED  BY <1>2, <1>4

LEMMA AuthenticateMoves ==
  ASSUME Typed, Shape, NEW q \in Requests, Authenticate(q)
  PROVE  \/ /\ active[request[q].user]
            /\ Moves(q, "issue", request[q].user, password[request[q].user], request[q].new,
                     request[q].outcome)
         \/ Answer(q, "login")
<1> DEFINE x == request[q]
           w == password[x.user]
           y == [x EXCEPT !.pc = "issue", !.password = w]
<1>1. x \in Locals /\ w \in Nat
  BY SessionsAssumption DEF Typed, Authenticate, At, Shape, ShapeOf, ClientPcs
<1>2. /\ y \in Locals /\ y.pc = "issue" /\ y.user = x.user /\ y.password = w
      /\ y.new = x.new /\ y.outcome = x.outcome
      /\ y.kind = x.kind /\ y.client = x.client /\ y.token = x.token
      /\ y.reset = x.reset /\ y.seen = x.seen
  <2> HIDE DEF x, w
  <2> QED  BY <1>1 DEF Locals, ClientPcs
<1>3. (active[x.user] /\ Become(q, y)) \/ Answer(q, "login")
  BY DEF Authenticate
<1> HIDE DEF y
<1>4. ASSUME Become(q, y)
      PROVE  Moves(q, y.pc, y.user, y.password, y.new, y.outcome)
  BY <1>2, <1>4, BecomeMoves DEF Typed
<1> QED  BY <1>2, <1>3, <1>4

LEMMA CreateSessionMoves ==
  ASSUME Typed, NEW q \in Requests, CreateSession(q)
  PROVE  Moves(q, "answer", request[q].user, request[q].password, Len(sessions) + 1, "served")
<1> DEFINE x == request[q]
           n == Len(sessions) + 1
           y == [x EXCEPT !.pc = "answer", !.outcome = "served", !.new = n]
<1>1. x \in Locals /\ n \in Nat
  BY DEF Typed
<1>2. /\ y \in Locals /\ y.pc = "answer" /\ y.user = x.user /\ y.password = x.password
      /\ y.new = n /\ y.outcome = "served"
      /\ y.kind = x.kind /\ y.client = x.client /\ y.token = x.token
      /\ y.reset = x.reset /\ y.seen = x.seen
  <2> HIDE DEF x, n
  <2> QED  BY <1>1 DEF Locals, Outcomes
<1>3. Become(q, y)
  BY DEF CreateSession
<1> HIDE DEF y
<1>4. Moves(q, y.pc, y.user, y.password, y.new, y.outcome)
  BY <1>2, <1>3, BecomeMoves DEF Typed
<1> QED  BY <1>2, <1>4

LEMMA RedeemResetMoves ==
  ASSUME Typed, Shape, NEW q \in Requests, RedeemReset(q)
  PROVE  \/ /\ Usable(request[q].reset)
            /\ Moves(q, "mark", resets[request[q].reset].user, request[q].password,
                     request[q].new, request[q].outcome)
         \/ Answer(q, "invalid")
<1> DEFINE x == request[q]
           u == resets[x.reset].user
           y == [x EXCEPT !.pc = "mark", !.user = u]
<1>1. x \in Locals /\ u \in Users
  <2>1. x.reset \in DOMAIN resets
    BY DEF RedeemReset, At, Shape, ShapeOf
  <2> QED  BY <2>1, RowsTyped DEF Typed
<1>2. /\ y \in Locals /\ y.pc = "mark" /\ y.user = u /\ y.password = x.password
      /\ y.new = x.new /\ y.outcome = x.outcome
      /\ y.kind = x.kind /\ y.client = x.client /\ y.token = x.token
      /\ y.reset = x.reset /\ y.seen = x.seen
  <2> HIDE DEF x, u
  <2> QED  BY <1>1 DEF Locals, SweepPcs
<1>3. (Usable(x.reset) /\ Become(q, y)) \/ Answer(q, "invalid")
  BY DEF RedeemReset
<1> HIDE DEF y
<1>4. ASSUME Become(q, y)
      PROVE  Moves(q, y.pc, y.user, y.password, y.new, y.outcome)
  BY <1>2, <1>4, BecomeMoves DEF Typed
<1> QED  BY <1>2, <1>3, <1>4



----------------------------------------------------------------------------
(* What the steps do to the rows.                                          *)

\* The rows of sessions keep their user and their password.
KeepsRows ==
  /\ sessions' \in Seq(Session) /\ Len(sessions) <= Len(sessions')
  /\ \A r \in DOMAIN sessions :
       /\ r \in DOMAIN sessions'
       /\ sessions'[r].user = sessions[r].user /\ sessions'[r].password = sessions[r].password
       /\ Live(r)' => Live(r)

RevokesRow(s) ==
  /\ KeepsRows /\ Len(sessions') = Len(sessions)
  /\ \A r \in DOMAIN sessions : r # s => sessions'[r] = sessions[r]

RevokesUser(u) ==
  /\ KeepsRows /\ Len(sessions') = Len(sessions)
  /\ \A r \in DOMAIN sessions :
       IF sessions[r].user = u THEN ~Live(r)' ELSE sessions'[r] = sessions[r]

AddsRow(u, w) ==
  /\ KeepsRows /\ Len(sessions') = Len(sessions) + 1
  /\ \A r \in DOMAIN sessions : sessions'[r] = sessions[r]
  /\ sessions'[Len(sessions) + 1] = NewSession(u, w)

LEMMA SameRows ==
  ASSUME Typed, UNCHANGED sessions
  PROVE  KeepsRows /\ \A r : Live(r)' = Live(r)
BY RowsTyped DEF KeepsRows, Live, Typed

LEMMA RowChanged ==
  ASSUME NEW S, NEW rs \in Seq(S), NEW i \in DOMAIN rs, NEW y \in S
  PROVE  LET ts == [rs EXCEPT ![i] = y]
         IN /\ ts \in Seq(S) /\ Len(ts) = Len(rs) /\ DOMAIN ts = DOMAIN rs
            /\ \A j \in DOMAIN rs : ts[j] = IF j = i THEN y ELSE rs[j]
OBVIOUS

LEMMA RowRevoked ==
  ASSUME Typed, NEW s \in DOMAIN sessions, sessions' = Revoked(s)
  PROVE  RevokesRow(s) /\ ~Live(s)'
<1> DEFINE y == [sessions[s] EXCEPT !.revoked = TRUE]
<1>1. /\ y \in Session /\ y.user = sessions[s].user /\ y.password = sessions[s].password
      /\ y.revoked = TRUE
  BY RowsTyped DEF Session
<1>2. sessions' = [sessions EXCEPT ![s] = y]
  BY DEF Revoked
<1> HIDE DEF y
<1>3. /\ sessions' \in Seq(Session) /\ Len(sessions') = Len(sessions)
      /\ DOMAIN sessions' = DOMAIN sessions
      /\ \A r \in DOMAIN sessions : sessions'[r] = IF r = s THEN y ELSE sessions[r]
  BY <1>1, <1>2, RowChanged DEF Typed
<1> QED  BY <1>1, <1>3, RowsTyped DEF RevokesRow, KeepsRows, Live

LEMMA RowExpired ==
  ASSUME Typed, NEW s \in DOMAIN sessions, SessionExpires(s)
  PROVE  RevokesRow(s)
<1> DEFINE y == [sessions[s] EXCEPT !.expired = TRUE]
<1>1. /\ y \in Session /\ y.user = sessions[s].user /\ y.password = sessions[s].password
      /\ y.expired = TRUE
  BY RowsTyped DEF Session
<1>2. sessions' = [sessions EXCEPT ![s] = y]
  BY DEF SessionExpires
<1> HIDE DEF y
<1>3. /\ sessions' \in Seq(Session) /\ Len(sessions') = Len(sessions)
      /\ DOMAIN sessions' = DOMAIN sessions
      /\ \A r \in DOMAIN sessions : sessions'[r] = IF r = s THEN y ELSE sessions[r]
  BY <1>1, <1>2, RowChanged DEF Typed
<1> QED  BY <1>1, <1>3, RowsTyped DEF RevokesRow, KeepsRows, Live

LEMMA UserRevoked ==
  ASSUME Typed, NEW u, sessions' = SweptRows(u)
  PROVE  RevokesUser(u)
<1>1. ASSUME NEW r \in DOMAIN sessions
      PROVE  LET y == [sessions[r] EXCEPT !.revoked = TRUE]
             IN /\ y \in Session /\ y.user = sessions[r].user
                /\ y.password = sessions[r].password /\ y.revoked = TRUE
  BY <1>1, RowsTyped DEF Session
<1>2. \A r \in DOMAIN sessions :
        sessions'[r] = IF sessions[r].user = u THEN [sessions[r] EXCEPT !.revoked = TRUE]
                       ELSE sessions[r]
  BY DEF SweptRows
<1>3. DOMAIN sessions' = 1 .. Len(sessions) /\ sessions' = [r \in 1 .. Len(sessions) |-> sessions'[r]]
  BY RowsTyped DEF SweptRows
<1>4. \A r \in 1 .. Len(sessions) : sessions'[r] \in Session
  BY <1>1, <1>2, RowsTyped
<1>5. sessions' \in Seq(Session) /\ Len(sessions') = Len(sessions)
  BY <1>3, <1>4, RowsTyped
<1>6. \A r \in DOMAIN sessions :
        /\ sessions'[r].user = sessions[r].user /\ sessions'[r].password = sessions[r].password
        /\ IF sessions[r].user = u THEN sessions'[r].revoked ELSE sessions'[r] = sessions[r]
  BY <1>1, <1>2
<1>7. KeepsRows
  <2>1. \A r \in DOMAIN sessions : Live(r)' => Live(r)
    BY <1>6 DEF Live
  <2> QED  BY <1>3, <1>5, <1>6, <2>1, RowsTyped DEF KeepsRows
<1> QED  BY <1>5, <1>6, <1>7 DEF RevokesUser, Live

LEMMA RowAdded ==
  ASSUME Typed, NEW u \in Users, NEW w \in Nat,
         sessions' = Append(sessions, NewSession(u, w))
  PROVE  AddsRow(u, w) /\ \A n : n = Len(sessions) + 1 => Live(n)'
<1> DEFINE y == NewSession(u, w)
<1>1. y \in Session /\ ~y.revoked /\ ~y.expired
  BY DEF Session, NewSession
<1> HIDE DEF y
<1>2. /\ sessions' \in Seq(Session) /\ Len(sessions') = Len(sessions) + 1
      /\ DOMAIN sessions' = 1 .. (Len(sessions) + 1)
      /\ \A r \in DOMAIN sessions : sessions'[r] = sessions[r]
      /\ sessions'[Len(sessions) + 1] = y
  BY <1>1, RowsTyped DEF Typed, y
<1>3. Len(sessions) + 1 \in DOMAIN sessions' /\ DOMAIN sessions \subseteq DOMAIN sessions'
  BY <1>2, RowsTyped
<1>4. KeepsRows
  <2>1. \A r \in DOMAIN sessions : Live(r)' => Live(r)
    BY <1>2 DEF Live
  <2> QED  BY <1>2, <1>3, <2>1, RowsTyped DEF KeepsRows
<1>5. AddsRow(u, w)
  BY <1>2, <1>4 DEF AddsRow, y
<1>6. \A n : n = Len(sessions) + 1 => Live(n)'
  BY <1>1, <1>2, <1>3 DEF Live
<1> QED  BY <1>5, <1>6

\* Links are added, used and expire; their user stays.
KeepsLinks ==
  /\ resets' \in Seq(Reset) /\ Len(resets) <= Len(resets')
  /\ \A k \in DOMAIN resets : k \in DOMAIN resets' /\ resets'[k].user = resets[k].user

LEMMA LinkMarked ==
  ASSUME Typed, NEW k \in DOMAIN resets, resets' = Marked(k)
  PROVE  /\ KeepsLinks /\ DOMAIN resets' = DOMAIN resets
         /\ \A j \in DOMAIN resets : resets'[j].used <=> resets[j].used \/ j = k
<1> DEFINE y == [resets[k] EXCEPT !.used = TRUE]
<1>1. y \in Reset /\ y.user = resets[k].user /\ y.used = TRUE
  BY RowsTyped DEF Reset
<1>2. resets' = [resets EXCEPT ![k] = y]
  BY DEF Marked
<1> HIDE DEF y
<1>3. /\ resets' \in Seq(Reset) /\ Len(resets') = Len(resets) /\ DOMAIN resets' = DOMAIN resets
      /\ \A j \in DOMAIN resets : resets'[j] = IF j = k THEN y ELSE resets[j]
  BY <1>1, <1>2, RowChanged DEF Typed
<1> QED  BY <1>1, <1>3, RowsTyped DEF KeepsLinks

LEMMA LinkExpired ==
  ASSUME Typed, NEW k \in DOMAIN resets, ResetExpires(k)
  PROVE  /\ KeepsLinks /\ DOMAIN resets' = DOMAIN resets
         /\ \A j \in DOMAIN resets : resets'[j].used = resets[j].used
<1> DEFINE y == [resets[k] EXCEPT !.expired = TRUE]
<1>1. y \in Reset /\ y.user = resets[k].user /\ y.used = resets[k].used
  BY RowsTyped DEF Reset
<1>2. resets' = [resets EXCEPT ![k] = y]
  BY DEF ResetExpires
<1> HIDE DEF y
<1>3. /\ resets' \in Seq(Reset) /\ Len(resets') = Len(resets) /\ DOMAIN resets' = DOMAIN resets
      /\ \A j \in DOMAIN resets : resets'[j] = IF j = k THEN y ELSE resets[j]
  BY <1>1, <1>2, RowChanged DEF Typed
<1> QED  BY <1>1, <1>3, RowsTyped DEF KeepsLinks

LEMMA LinkAdded ==
  ASSUME Typed, NEW u \in Users, resets' = Append(resets, NewReset(u))
  PROVE  /\ KeepsLinks /\ DOMAIN resets' = DOMAIN resets \cup {Len(resets) + 1}
         /\ \A j \in DOMAIN resets : resets'[j].used = resets[j].used
         /\ resets'[Len(resets) + 1].user = u /\ ~resets'[Len(resets) + 1].used
<1> DEFINE y == NewReset(u)
<1>1. y \in Reset /\ y.user = u /\ ~y.used
  BY DEF Reset, NewReset
<1> HIDE DEF y
<1>2. /\ resets' \in Seq(Reset) /\ Len(resets') = Len(resets) + 1
      /\ DOMAIN resets' = 1 .. (Len(resets) + 1)
      /\ \A j \in DOMAIN resets : resets'[j] = resets[j]
      /\ resets'[Len(resets) + 1] = y
  BY <1>1, RowsTyped DEF Typed, y
<1>3. 1 .. (Len(resets) + 1) = DOMAIN resets \cup {Len(resets) + 1}
  BY RowsTyped
<1> QED  BY <1>1, <1>2, <1>3, RowsTyped DEF KeepsLinks



----------------------------------------------------------------------------
(* The steps, by what they do.                                             *)

rows == <<active, password, sessions, resets>>
rest == <<client, swept, overlapped, losses>>

\* Request q goes to pc with this outcome, and keeps its other locals.
Keeps(q, pc, outcome) ==
  Moves(q, pc, request[q].user, request[q].password, request[q].new, outcome)

Passes(q) ==
  /\ UNCHANGED <<rows, rest>>
  /\ \/ request[q].pc = "access" /\ Keeps(q, "select", request[q].outcome)
     \/ /\ request[q].pc = "user" /\ active[request[q].user]
        /\ Keeps(q, "issue", request[q].outcome)

Answers(q) ==
  /\ UNCHANGED <<rows, rest>>
  /\ \E o \in {"served", "login", "cleared", "invalid"} :
       /\ Keeps(q, "answer", o)
       /\ \/ request[q].pc \in {"access", "select", "authenticate", "redeem"}
          \/ request[q].pc = "user" /\ ~active[request[q].user]
       /\ o = "served" => request[q].pc = "access" /\ active[request[q].user]

Selects(q) ==
  /\ UNCHANGED <<rows, rest>>
  /\ request[q].pc = "select" /\ Live(request[q].token)
  /\ Moves(q, "revoke", sessions[request[q].token].user, sessions[request[q].token].password,
           request[q].new, request[q].outcome)

Authenticates(q) ==
  /\ UNCHANGED <<rows, rest>>
  /\ request[q].pc = "authenticate" /\ active[request[q].user]
  /\ Moves(q, "issue", request[q].user, password[request[q].user], request[q].new,
           request[q].outcome)

Redeems(q) ==
  /\ UNCHANGED <<rows, rest>>
  /\ request[q].pc = "redeem" /\ Usable(request[q].reset)
  /\ Moves(q, "mark", resets[request[q].reset].user, request[q].password, request[q].new,
           request[q].outcome)

Revokes(q) ==
  /\ UNCHANGED <<active, password, resets, rest>>
  /\ request[q].pc = "revoke"
  /\ RevokesRow(request[q].token) /\ \A s : s = request[q].token => ~Live(s)'
  /\ Keeps(q, "user", request[q].outcome) \/ Keeps(q, "answer", "cleared")

Issues(q) ==
  /\ UNCHANGED <<active, password, resets, rest>>
  /\ request[q].pc = "issue"
  /\ AddsRow(request[q].user, request[q].password)
  /\ \A n : n = Len(sessions) + 1 => Live(n)'
  /\ Moves(q, "answer", request[q].user, request[q].password, Len(sessions) + 1, "served")

\* What client c holds once it has the answer to request q.
TokenAfter(q, c) ==
  IF request[q].kind \in ClientKinds /\ c = request[q].client
  THEN IF request[q].new # 0 THEN request[q].new
       ELSE IF request[q].outcome = "cleared" THEN 0 ELSE client[c].token
  ELSE client[c].token

Receives(q) ==
  /\ UNCHANGED <<rows, swept, overlapped, losses>>
  /\ request[q].pc = "answer" /\ Ends(q)
  /\ client' \in [Clients -> Holding]
  /\ \A c \in Clients : client'[c].token = TokenAfter(q, c)

Loses(q) ==
  /\ UNCHANGED <<rows, client, swept, overlapped>>
  /\ losses' = losses + 1 /\ Ends(q)

Marks(q) == MarkUsed(q) /\ Keeps(q, "password", request[q].outcome)
Sets(q) == SetPassword(q) /\ Keeps(q, "sweep", request[q].outcome)
Deactivates(q) == Deactivate(q) /\ Keeps(q, "sweep", request[q].outcome)

Sweeps(q) ==
  /\ UNCHANGED <<active, password, resets, rest>>
  /\ request[q].pc = "sweep"
  /\ RevokesUser(request[q].user)
  /\ Keeps(q, "answer", "done")

LEMMA HandlerSteps ==
  ASSUME Typed, Shape, Tokens, NEW q \in Requests, Handler(q)
  PROVE  \/ Passes(q) \/ Answers(q) \/ Selects(q) \/ Authenticates(q) \/ Redeems(q)
         \/ Revokes(q) \/ Issues(q) \/ Receives(q) \/ Marks(q) \/ Sets(q) \/ Deactivates(q)
         \/ Sweeps(q)
<1> DEFINE x == request[q]
<1>0. request \in [Requests -> Locals] /\ ShapeOf(q)
  BY DEF Typed, Shape
<1>a. \A o \in Outcomes : Answer(q, o) => Keeps(q, "answer", o)
  BY <1>0, AnswerMoves DEF Keeps
<1>b. \A p \in ClientPcs \cup SweepPcs : Goto(q, p) => Keeps(q, p, x.outcome)
  BY <1>0, GotoMoves DEF Keeps
<1>1. CASE AuthUser(q) \/ require_session(q)
  BY <1>a, <1>b, <1>1
     DEF AuthUser, require_session, ValidAccess, At, Passes, Answers, rows, rest, bounds,
         Outcomes, ClientPcs
<1>2. CASE RedeemSelect(q)
  <2>1. \/ Live(x.token)
        \/ Answer(q, "cleared") \/ Answer(q, "login")
    BY <1>2 DEF RedeemSelect
  <2>2. x.pc = "select" /\ UNCHANGED <<rows, rest>>
    BY <1>2 DEF RedeemSelect, At, rows, rest, bounds
  <2>3. CASE Live(x.token)
    BY <1>2, <2>2, <2>3, RedeemSelectMoves DEF Selects
  <2>4. CASE Answer(q, "cleared") \/ Answer(q, "login")
    BY <1>a, <2>2, <2>4 DEF Answers, Outcomes
  <2> QED  BY <2>1, <2>3, <2>4
<1>3. CASE RedeemRevoke(q)
  <2>1. /\ x.pc = "revoke" /\ UNCHANGED <<active, password, resets, rest>>
        /\ sessions' = Revoked(x.token)
        /\ Answer(q, "cleared") \/ Goto(q, "user")
    BY <1>3 DEF RedeemRevoke, AfterRedeem, At, rest, bounds
  <2>2. x.token \in DOMAIN sessions
    <3>1. x.token # 0 /\ x.token \in Nat /\ x.token <= Len(sessions)
      BY <1>0, <2>1 DEF ShapeOf, Tokens, RequestTokens, Locals
    <3> QED  BY <3>1, RowsTyped
  <2>3. RevokesRow(x.token) /\ \A s : s = x.token => ~Live(s)'
    BY <2>1, <2>2, RowRevoked
  <2> QED  BY <1>a, <1>b, <2>1, <2>3 DEF Revokes, Outcomes, ClientPcs
<1>4. CASE GetUser(q)
  BY <1>a, <1>b, <1>4
     DEF GetUser, AfterGetUser, At, Passes, Answers, rows, rest, bounds, Outcomes, ClientPcs
<1>5. CASE Authenticate(q)
  <2>1. x.pc = "authenticate" /\ UNCHANGED <<rows, rest>>
    BY <1>5 DEF Authenticate, At, rows, rest, bounds
  <2> QED  BY <1>a, <1>5, <2>1, AuthenticateMoves DEF Authenticates, Answers, Outcomes
<1>6. CASE CreateSession(q)
  <2>1. /\ x.pc = "issue" /\ UNCHANGED <<active, password, resets, rest>>
        /\ sessions' = Append(sessions, NewSession(x.user, x.password))
    BY <1>6 DEF CreateSession, At, rest, bounds
  <2>2. x.user \in Users /\ x.password \in Nat
    BY <1>0, <2>1, SessionsAssumption DEF ShapeOf, ClientPcs, Locals
  <2>3. /\ AddsRow(x.user, x.password)
        /\ \A n : n = Len(sessions) + 1 => Live(n)'
    BY <2>1, <2>2, RowAdded
  <2> QED  BY <1>6, <2>1, <2>3, CreateSessionMoves DEF Issues
<1>7. CASE Receive(q)
  <2>1. /\ x.pc = "answer" /\ UNCHANGED <<rows, swept, overlapped, losses>> /\ Become(q, None)
        /\ client' = IF x.kind \in ClientKinds THEN [client EXCEPT ![x.client] = Held(q)]
                     ELSE client
    BY <1>7 DEF Receive, At, rows, bounds
  <2>2. x.kind \in ClientKinds =>
          /\ x.client \in Clients /\ Held(q) \in Holding
          /\ Held(q).token = TokenAfter(q, x.client)
    <3> SUFFICES ASSUME x.kind \in ClientKinds
                 PROVE  /\ x.client \in Clients /\ Held(q) \in Holding
                        /\ Held(q).token = TokenAfter(q, x.client)
      OBVIOUS
    <3>1. x.client \in Clients /\ x.new \in Nat /\ client[x.client] \in Holding
      BY <1>0 DEF ShapeOf, Locals, Typed
    <3>2. \/ x.new # 0 /\ Held(q) = [access |-> TRUE, token |-> x.new]
          \/ /\ x.new = 0 /\ x.outcome = "cleared"
             /\ Held(q) = [access |-> FALSE, token |-> 0]
          \/ x.new = 0 /\ x.outcome # "cleared" /\ Held(q) = client[x.client]
      <4>1. x.new # 0 => x.outcome # "cleared"
        BY <1>0 DEF ShapeOf
      <4> QED  BY <4>1 DEF Held
    <3>3. Held(q) \in Holding
      <4>1. \A b \in BOOLEAN, n \in Nat : [access |-> b, token |-> n] \in Holding
        BY DEF Holding
      <4> QED  BY <3>1, <3>2, <4>1
    <3>4. Held(q).token = TokenAfter(q, x.client)
      <4>1. \/ x.new # 0 /\ Held(q).token = x.new
            \/ x.new = 0 /\ x.outcome = "cleared" /\ Held(q).token = 0
            \/ x.new = 0 /\ x.outcome # "cleared" /\ Held(q).token = client[x.client].token
        BY <3>2
      <4> QED  BY <4>1 DEF TokenAfter
    <3> QED  BY <3>1, <3>3, <3>4
  <2>3. /\ client' \in [Clients -> Holding]
        /\ \A c \in Clients : client'[c].token = TokenAfter(q, c)
    <3>1. CASE x.kind \in ClientKinds
      <4>1. \A c \in Clients : client'[c] = IF c = x.client THEN Held(q) ELSE client[c]
        BY <2>1, <2>2, <3>1 DEF Typed
      <4>2. client' \in [Clients -> Holding]
        BY <2>1, <2>2, <3>1 DEF Typed
      <4> QED  BY <2>2, <3>1, <4>1, <4>2 DEF TokenAfter
    <3>2. CASE x.kind \notin ClientKinds
      BY <2>1, <3>2 DEF Typed, TokenAfter
    <3> QED  BY <3>1, <3>2
  <2> QED  BY <1>0, <2>1, <2>3, BecomeEnds DEF Receives
<1>8. CASE RedeemReset(q)
  <2>1. x.pc = "redeem" /\ UNCHANGED <<rows, rest>>
    BY <1>8 DEF RedeemReset, At, rows, rest, bounds
  <2> QED  BY <1>a, <1>8, <2>1, RedeemResetMoves DEF Redeems, Answers, Outcomes
<1>9. CASE MarkUsed(q) \/ SetPassword(q) \/ Deactivate(q)
  BY <1>b, <1>9 DEF MarkUsed, SetPassword, Deactivate, Marks, Sets, Deactivates, SweepPcs
<1>10. CASE RevokeAll(q)
  <2>1. /\ x.pc = "sweep" /\ UNCHANGED <<active, password, resets, rest>>
        /\ sessions' = SweptRows(x.user) /\ Answer(q, "done")
    BY <1>10 DEF RevokeAll, At, rest, bounds
  <2>2. RevokesUser(x.user)
    BY <2>1, UserRevoked
  <2> QED  BY <1>a, <2>1, <2>2 DEF Sweeps, Outcomes
<1> QED
  BY <1>1, <1>2, <1>3, <1>4, <1>5, <1>6, <1>7, <1>8, <1>9, <1>10 DEF Handler


\* A new request, of a client, with a reset link, or to deactivate a user.
Sends(q) ==
  LET y == request'[q]
  IN /\ UNCHANGED <<rows, client, losses>>
     /\ Idle(q)
     /\ overlapped' = (overlapped \/ \E p \in Requests : ~Idle(p))
     /\ request' \in [Requests -> Locals]
     /\ \A p \in Requests \ {q} : request'[p] = request[p]
     /\ y.new = 0 /\ y.outcome = "none"
     /\ \/ /\ swept' = swept
           /\ y.kind \in ClientKinds /\ y.pc \in {"access", "select", "authenticate"}
           /\ y.client \in Clients /\ y.token = client[y.client].token
           /\ y.user = Owner[y.client] /\ y.seen = active[y.user]
        \/ /\ swept' = swept
           /\ y.kind = "reset" /\ y.pc = "redeem" /\ y.token = 0 /\ y.reset \in DOMAIN resets
        \/ /\ y.kind = "deactivate" /\ y.pc = "deactivate" /\ y.token = 0
           /\ y.user \in Users /\ swept' = swept \cup {y.user}

LEMMA SendSteps ==
  ASSUME Typed, NEW q \in Requests,
         \/ \E c \in Clients, kind \in Kinds : SendRequest(q, c, kind)
         \/ \E k \in DOMAIN resets : SendReset(q, k)
         \/ \E u \in Users : SendDeactivate(q, u)
  PROVE  Sends(q)
<1>0. request \in [Requests -> Locals] /\ None \in Locals
  BY NoneTyped DEF Typed
<1>1. ASSUME NEW y \in Locals, Send(q, y)
      PROVE  /\ UNCHANGED <<rows, client, losses>> /\ Idle(q)
             /\ overlapped' = (overlapped \/ \E p \in Requests : ~Idle(p))
             /\ request' \in [Requests -> Locals]
             /\ \A p \in Requests \ {q} : request'[p] = request[p]
             /\ request'[q] = y
  BY <1>0, <1>1, BecomeSets DEF Send, rows
<1>2. ASSUME NEW c \in Clients, NEW kind \in Kinds, SendRequest(q, c, kind)
      PROVE  Sends(q)
  <2> DEFINE p == FirstStep(kind)
             a == client[c].access
             t == client[c].token
             u == Owner[c]
             b == active[u]
             y == [None EXCEPT !.pc = p, !.kind = kind, !.client = c, !.access = a, !.token = t,
                               !.user = u, !.seen = b]
  <2>1. /\ p \in {"access", "select", "authenticate"} /\ kind \in ClientKinds
        /\ u \in Users /\ a \in BOOLEAN /\ t \in Nat /\ b \in BOOLEAN
    <3>1. kind \in ClientKinds /\ u \in Users
      BY SessionsAssumption
    <3>2. p \in {"access", "select", "authenticate"}
      BY <3>1 DEF ClientKinds, FirstStep
    <3>3. client[c] \in Holding
      BY DEF Typed
    <3>4. a \in BOOLEAN /\ t \in Nat
      BY <3>3 DEF Holding
    <3> QED  BY <3>1, <3>2, <3>4 DEF Typed
  <2>2. Send(q, y) /\ swept' = swept
    BY <1>2 DEF SendRequest
  <2>3. /\ y \in Locals /\ y.new = 0 /\ y.outcome = "none" /\ y.kind = kind /\ y.pc = p
        /\ y.client = c /\ y.token = t /\ y.user = u /\ y.seen = b
    <3> HIDE DEF p, a, t, u, b
    <3> QED  BY <2>1 DEF None, Locals, ClientPcs, Outcomes
  <2> HIDE DEF y, p
  <2> QED  BY <1>1, <2>1, <2>2, <2>3 DEF Sends
<1>3. ASSUME NEW k \in DOMAIN resets, SendReset(q, k)
      PROVE  Sends(q)
  <2> DEFINE y == [None EXCEPT !.pc = "redeem", !.kind = "reset", !.reset = k]
  <2>1. k \in Nat
    BY RowsTyped
  <2>2. Send(q, y) /\ swept' = swept
    BY <1>3 DEF SendReset
  <2>3. /\ y \in Locals /\ y.new = 0 /\ y.outcome = "none" /\ y.kind = "reset"
        /\ y.pc = "redeem" /\ y.token = 0 /\ y.reset = k
    BY <2>1 DEF None, Locals, Outcomes
  <2> HIDE DEF y
  <2> QED  BY <1>1, <2>2, <2>3 DEF Sends
<1>4. ASSUME NEW u \in Users, SendDeactivate(q, u)
      PROVE  Sends(q)
  <2> DEFINE y == [None EXCEPT !.pc = "deactivate", !.kind = "deactivate", !.user = u]
  <2>1. Send(q, y) /\ swept' = swept \cup {u}
    BY <1>4 DEF SendDeactivate, Sweep
  <2>2. /\ y \in Locals /\ y.new = 0 /\ y.outcome = "none" /\ y.kind = "deactivate"
        /\ y.pc = "deactivate" /\ y.token = 0 /\ y.user = u
    BY DEF None, Locals, Outcomes, SweepPcs
  <2> HIDE DEF y
  <2> QED  BY <1>1, <2>1, <2>2 DEF Sends
<1> QED  BY <1>2, <1>3, <1>4

\* The admin's form: those who have a request under way are seen.
Updates(u, a) ==
  /\ UNCHANGED <<password, sessions, resets, client, overlapped, losses>>
  /\ active' = [active EXCEPT ![u] = a] /\ swept' = swept \cup {u}
  /\ request' \in [Requests -> Locals]
  /\ \A q \in Requests :
       LET x == request[q]
           y == request'[q]
       IN /\ y.seen = (x.seen \/ (x.user = u /\ a))
          /\ y.pc = x.pc /\ y.kind = x.kind /\ y.client = x.client /\ y.token = x.token
          /\ y.user = x.user /\ y.password = x.password /\ y.reset = x.reset /\ y.new = x.new
          /\ y.outcome = x.outcome

LEMMA UpdateSteps ==
  ASSUME Typed, NEW u \in Users, NEW a \in BOOLEAN, UpdateUser(u, a)
  PROVE  Updates(u, a)
<1>1. ASSUME NEW q \in Requests
      PROVE  LET x == request[q]
                 y == request'[q]
             IN /\ y \in Locals
                /\ y.seen = (x.seen \/ (x.user = u /\ a))
                /\ y.pc = x.pc /\ y.kind = x.kind /\ y.client = x.client /\ y.token = x.token
                /\ y.user = x.user /\ y.password = x.password /\ y.reset = x.reset
                /\ y.new = x.new /\ y.outcome = x.outcome
  <2> DEFINE x == request[q]
             b == (x.seen \/ (x.user = u /\ a))
             y == [x EXCEPT !.seen = b]
  <2>1. x \in Locals /\ request'[q] = y /\ b \in BOOLEAN
    BY DEF UpdateUser, Typed
  <2>2. /\ y \in Locals /\ y.seen = b
        /\ y.pc = x.pc /\ y.kind = x.kind /\ y.client = x.client /\ y.token = x.token
        /\ y.user = x.user /\ y.password = x.password /\ y.reset = x.reset
        /\ y.new = x.new /\ y.outcome = x.outcome
    <3> HIDE DEF x, b
    <3> QED  BY <2>1 DEF Locals
  <2> QED  BY <2>1, <2>2
<1>2. request' = [q \in Requests |-> request'[q]]
  BY DEF UpdateUser
<1>3. \A q \in Requests : request'[q] \in Locals
  BY <1>1
<1>4. request' \in [Requests -> Locals]
  BY <1>2, <1>3
<1> QED  BY <1>1, <1>4 DEF UpdateUser, Updates, Sweep

\* What happens outside of the requests.
Outside ==
  \/ UNCHANGED vars
  \/ \E u \in Users : RequestReset(u)
  \/ \E c \in Clients : AccessExpires(c)
  \/ \E s \in DOMAIN sessions : SessionExpires(s)
  \/ \E k \in DOMAIN resets : ResetExpires(k)

LEMMA Steps ==
  ASSUME Typed, Shape, Tokens, [Next]_vars
  PROVE  \/ \E q \in Requests :
              \/ Passes(q) \/ Answers(q) \/ Selects(q) \/ Authenticates(q) \/ Redeems(q)
              \/ Revokes(q) \/ Issues(q) \/ Receives(q) \/ Loses(q) \/ Marks(q) \/ Sets(q)
              \/ Deactivates(q) \/ Sweeps(q) \/ Sends(q)
         \/ \E u \in Users, a \in BOOLEAN : Updates(u, a)
         \/ Outside
<1>1. ASSUME NEW q \in Requests, Lose(q)
      PROVE  Loses(q)
  BY <1>1, BecomeEnds DEF Lose, Loses, Typed, rows
<1> QED  BY <1>1, HandlerSteps, SendSteps, UpdateSteps DEF Next, Outside


LEMMA OutsideMoves ==
  ASSUME Typed, Outside
  PROVE  /\ UNCHANGED <<active, password, request, overlapped, losses>>
         /\ swept \subseteq swept' /\ swept' \subseteq Users
         /\ client' \in [Clients -> Holding]
         /\ \A c \in Clients : client'[c].token = client[c].token
         /\ KeepsRows /\ Len(sessions') = Len(sessions)
         /\ \A s \in DOMAIN sessions : sessions[s].user \notin swept' => sessions'[s] = sessions[s]
         /\ KeepsLinks
         /\ \A k \in DOMAIN resets : resets'[k].used = resets[k].used
         /\ \A k \in DOMAIN resets' \ DOMAIN resets : resets'[k].user \in swept' /\ ~resets'[k].used
<1>0. /\ UNCHANGED resets => KeepsLinks /\ DOMAIN resets' = DOMAIN resets
      /\ UNCHANGED client => client' \in [Clients -> Holding]
  BY RowsTyped DEF Typed, KeepsLinks
<1>1. CASE UNCHANGED vars
  BY <1>0, <1>1, SameRows DEF vars, Typed
<1>2. ASSUME NEW u \in Users, RequestReset(u)
      PROVE  /\ UNCHANGED <<active, password, request, overlapped, losses, client, sessions>>
             /\ swept' = swept \cup {u} /\ resets' = Append(resets, NewReset(u))
  BY <1>2 DEF RequestReset, Sweep
<1>3. CASE \E u \in Users : RequestReset(u)
  <2>1. PICK u \in Users : RequestReset(u)
    BY <1>3
  <2>2. /\ UNCHANGED <<active, password, request, overlapped, losses, client, sessions>>
        /\ swept' = swept \cup {u} /\ resets' = Append(resets, NewReset(u))
    BY <1>2, <2>1
  <2>3. swept \subseteq swept' /\ swept' \subseteq Users /\ u \in swept'
    BY <2>2 DEF Typed
  <2>4. /\ KeepsLinks /\ DOMAIN resets' = DOMAIN resets \cup {Len(resets) + 1}
        /\ \A j \in DOMAIN resets : resets'[j].used = resets[j].used
        /\ resets'[Len(resets) + 1].user = u /\ ~resets'[Len(resets) + 1].used
    BY <2>2, LinkAdded
  <2> QED  BY <1>0, <2>2, <2>3, <2>4, SameRows
<1>4. CASE \E c \in Clients : AccessExpires(c)
  <2>1. PICK c \in Clients : AccessExpires(c)
    BY <1>4
  <2>2. /\ UNCHANGED <<active, password, request, overlapped, losses, resets, sessions, swept>>
        /\ client' = [client EXCEPT ![c].access = FALSE]
    BY <2>1 DEF AccessExpires, bounds
  <2>3. client' \in [Clients -> Holding] /\ \A d \in Clients : client'[d].token = client[d].token
    <3> DEFINE y == [client[c] EXCEPT !.access = FALSE]
    <3>1. client[c] \in Holding
      BY DEF Typed
    <3>2. y \in Holding /\ y.token = client[c].token
      BY <3>1 DEF Holding
    <3>3. client' = [client EXCEPT ![c] = y]
      BY <2>2
    <3> HIDE DEF y
    <3> QED  BY <3>2, <3>3 DEF Typed
  <2> QED  BY <1>0, <2>2, <2>3, SameRows DEF Typed
<1>5. CASE \E s \in DOMAIN sessions : SessionExpires(s)
  <2>1. PICK s \in DOMAIN sessions : SessionExpires(s)
    BY <1>5
  <2>2. /\ UNCHANGED <<active, password, request, overlapped, losses, resets, client>>
        /\ swept' = swept \cup {sessions[s].user}
    BY <2>1 DEF SessionExpires, Sweep
  <2>3. swept \subseteq swept' /\ swept' \subseteq Users
    BY <2>2, RowsTyped DEF Typed
  <2>4. RevokesRow(s)
    BY <2>1, RowExpired
  <2> QED  BY <1>0, <2>2, <2>3, <2>4 DEF RevokesRow
<1>6. CASE \E k \in DOMAIN resets : ResetExpires(k)
  <2>1. PICK k \in DOMAIN resets : ResetExpires(k)
    BY <1>6
  <2>2. UNCHANGED <<active, password, request, overlapped, losses, swept, client, sessions>>
    BY <2>1 DEF ResetExpires, bounds
  <2>3. /\ KeepsLinks /\ DOMAIN resets' = DOMAIN resets
        /\ \A j \in DOMAIN resets : resets'[j].used = resets[j].used
    BY <2>1, LinkExpired
  <2> QED  BY <1>0, <2>2, <2>3, SameRows DEF Typed
<1> QED  BY <1>1, <1>3, <1>4, <1>5, <1>6 DEF Outside

\* Every step keeps the rows, and adds to swept.
LEMMA RowsStay ==
  ASSUME Typed, Shape, Tokens, [Next]_vars
  PROVE  KeepsRows /\ KeepsLinks /\ swept \subseteq swept' /\ swept' \subseteq Users
<1>0. /\ UNCHANGED resets => KeepsLinks
      /\ UNCHANGED sessions => KeepsRows
      /\ swept \subseteq Users
  BY RowsTyped, SameRows DEF Typed, KeepsLinks
<1>1. ASSUME NEW q \in Requests,
             \/ Passes(q) \/ Answers(q) \/ Selects(q) \/ Authenticates(q) \/ Redeems(q)
             \/ Receives(q) \/ Loses(q)
      PROVE  KeepsRows /\ KeepsLinks /\ swept \subseteq swept' /\ swept' \subseteq Users
  BY <1>0, <1>1 DEF Passes, Answers, Selects, Authenticates, Redeems, Receives, Loses, rows, rest
<1>2. ASSUME NEW q \in Requests, Revokes(q) \/ Issues(q) \/ Sweeps(q)
      PROVE  KeepsRows /\ KeepsLinks /\ swept \subseteq swept' /\ swept' \subseteq Users
  BY <1>0, <1>2 DEF Revokes, Issues, Sweeps, RevokesRow, RevokesUser, AddsRow, rest
<1>3. ASSUME NEW q \in Requests, Marks(q)
      PROVE  KeepsRows /\ KeepsLinks /\ swept \subseteq swept' /\ swept' \subseteq Users
  <2>1. request[q].reset \in DOMAIN resets
    BY <1>3 DEF Marks, MarkUsed, At, Shape, ShapeOf
  <2>2. resets' = Marked(request[q].reset) /\ UNCHANGED <<sessions, swept>>
    BY <1>3 DEF Marks, MarkUsed
  <2>3. KeepsLinks
    BY <2>1, <2>2, LinkMarked
  <2> QED  BY <1>0, <2>2, <2>3
<1>4. ASSUME NEW q \in Requests, Sets(q) \/ Deactivates(q)
      PROVE  KeepsRows /\ KeepsLinks /\ swept \subseteq swept' /\ swept' \subseteq Users
  BY <1>0, <1>4 DEF Sets, Deactivates, SetPassword, Deactivate
<1>5. ASSUME NEW q \in Requests, Sends(q)
      PROVE  KeepsRows /\ KeepsLinks /\ swept \subseteq swept' /\ swept' \subseteq Users
  BY <1>0, <1>5 DEF Sends, rows
<1>6. ASSUME NEW u \in Users, NEW a \in BOOLEAN, Updates(u, a)
      PROVE  KeepsRows /\ KeepsLinks /\ swept \subseteq swept' /\ swept' \subseteq Users
  BY <1>0, <1>6 DEF Updates
<1> QED  BY <1>1, <1>2, <1>3, <1>4, <1>5, <1>6, OutsideMoves, Steps

\* The requests that do not take a step stay.
LEMMA OthersStay ==
  ASSUME NEW q \in Requests,
         \/ Passes(q) \/ Answers(q) \/ Selects(q) \/ Authenticates(q) \/ Redeems(q)
         \/ Revokes(q) \/ Issues(q) \/ Receives(q) \/ Loses(q) \/ Marks(q) \/ Sets(q)
         \/ Deactivates(q) \/ Sweeps(q) \/ Sends(q)
  PROVE  /\ request' \in [Requests -> Locals]
         /\ \A p \in Requests \ {q} : request'[p] = request[p]
BY DEF Passes, Answers, Selects, Authenticates, Redeems, Revokes, Issues, Receives, Loses, Marks,
       Sets, Deactivates, Sweeps, Sends, Keeps, Moves, Ends

LEMMA TypedStep ==
  ASSUME Typed, Shape, Tokens, [Next]_vars
  PROVE  Typed'
<1>0. /\ sessions' \in Seq(Session) /\ resets' \in Seq(Reset) /\ swept' \subseteq Users
  BY RowsStay DEF KeepsRows, KeepsLinks
<1>1. ASSUME NEW q \in Requests,
             \/ Passes(q) \/ Answers(q) \/ Selects(q) \/ Authenticates(q) \/ Redeems(q)
             \/ Revokes(q) \/ Issues(q) \/ Sweeps(q) \/ Receives(q) \/ Loses(q)
      PROVE  Typed'
  <2>1. request' \in [Requests -> Locals]
    BY <1>1, OthersStay
  <2>2. UNCHANGED <<active, password, overlapped>> /\ losses' \in Nat
        /\ client' \in [Clients -> Holding]
    BY <1>1 DEF Passes, Answers, Selects, Authenticates, Redeems, Revokes, Issues, Sweeps, Receives,
                Loses, rows, rest, Typed
  <2> QED  BY <1>0, <2>1, <2>2 DEF Typed
<1>2. ASSUME NEW q \in Requests, Marks(q) \/ Sets(q) \/ Deactivates(q)
      PROVE  Typed'
  <2>1. request' \in [Requests -> Locals]
    BY <1>2, OthersStay
  <2>2. request[q].user \in Users
    BY <1>2 DEF Marks, Sets, Deactivates, MarkUsed, SetPassword, Deactivate, At, Shape, ShapeOf,
                SweepPcs, Typed
  <2>3. active' \in [Users -> BOOLEAN] /\ password' \in [Users -> Nat]
    <3>1. UNCHANGED active \/ active' = [active EXCEPT ![request[q].user] = FALSE]
      BY <1>2 DEF Marks, Sets, Deactivates, MarkUsed, SetPassword, Deactivate
    <3>2. \/ UNCHANGED password
          \/ password' = [password EXCEPT ![request[q].user] = @ + 1]
      BY <1>2 DEF Marks, Sets, Deactivates, MarkUsed, SetPassword, Deactivate
    <3>3. active' \in [Users -> BOOLEAN]
      BY <3>1 DEF Typed
    <3>4. password' \in [Users -> Nat]
      BY <2>2, <3>2 DEF Typed
    <3> QED  BY <3>3, <3>4
  <2>4. UNCHANGED <<client, overlapped, losses>>
    BY <1>2 DEF Marks, Sets, Deactivates, MarkUsed, SetPassword, Deactivate, bounds
  <2> QED  BY <1>0, <2>1, <2>3, <2>4 DEF Typed
<1>3. ASSUME NEW q \in Requests, Sends(q)
      PROVE  Typed'
  <2>1. overlapped' \in BOOLEAN /\ request' \in [Requests -> Locals]
        /\ UNCHANGED <<rows, client, losses>>
    BY <1>3 DEF Sends
  <2> QED  BY <1>0, <2>1 DEF Typed, rows
<1>4. ASSUME NEW u \in Users, NEW a \in BOOLEAN, Updates(u, a)
      PROVE  Typed'
  BY <1>0, <1>4 DEF Updates, Typed
<1>5. CASE Outside
  BY <1>0, <1>5, OutsideMoves DEF Typed
<1> QED  BY <1>1, <1>2, <1>3, <1>4, <1>5, Steps


LEMMA ShapeStays ==
  ASSUME KeepsLinks, swept \subseteq swept', NEW p \in Requests, ShapeOf(p),
         LET x == request[p]
             y == request'[p]
         IN /\ y.pc = x.pc /\ y.kind = x.kind /\ y.client = x.client /\ y.token = x.token
            /\ y.user = x.user /\ y.reset = x.reset /\ y.new = x.new /\ y.outcome = x.outcome
  PROVE  ShapeOf(p)'
BY DEF ShapeOf, KeepsLinks

LEMMA ShapeStep ==
  ASSUME Typed, Shape, Tokens, [Next]_vars
  PROVE  Shape'
<1>0. /\ KeepsLinks /\ swept \subseteq swept'
      /\ \A p \in Requests : ShapeOf(p)
      /\ \A k \in DOMAIN resets : resets[k].user \in swept
  BY RowsStay DEF Shape
<1>1. \A p \in Requests : request'[p] = request[p] => ShapeOf(p)'
  BY <1>0, ShapeStays
<1>2. \A k \in DOMAIN resets' : resets'[k].user \in swept'
  <2>1. ASSUME NEW q \in Requests, Marks(q)
        PROVE  DOMAIN resets' = DOMAIN resets
    <3>1. request[q].reset \in DOMAIN resets /\ resets' = Marked(request[q].reset)
      BY <2>1 DEF Marks, MarkUsed, At, Shape, ShapeOf
    <3> QED  BY <3>1, LinkMarked
  <2>2. ASSUME NEW q \in Requests,
               \/ Passes(q) \/ Answers(q) \/ Selects(q) \/ Authenticates(q) \/ Redeems(q)
               \/ Revokes(q) \/ Issues(q) \/ Receives(q) \/ Loses(q) \/ Sets(q)
               \/ Deactivates(q) \/ Sweeps(q) \/ Sends(q)
        PROVE  UNCHANGED resets
    BY <2>2 DEF Passes, Answers, Selects, Authenticates, Redeems, Revokes, Issues, Receives, Loses,
                Sets, Deactivates, Sweeps, Sends, SetPassword, Deactivate, rows
  <2>3. ASSUME NEW u \in Users, NEW a \in BOOLEAN, Updates(u, a)
        PROVE  UNCHANGED resets
    BY <2>3 DEF Updates
  <2>4. \/ DOMAIN resets' = DOMAIN resets
        \/ \A k \in DOMAIN resets' \ DOMAIN resets : resets'[k].user \in swept'
    BY <2>1, <2>2, <2>3, OutsideMoves, Steps
  <2> QED  BY <1>0, <2>4 DEF KeepsLinks
<1>3. ASSUME NEW q \in Requests, Passes(q) \/ Answers(q) \/ Authenticates(q)
      PROVE  ShapeOf(q)'
  BY <1>0, <1>3
     DEF Passes, Answers, Authenticates, Keeps, Moves, ShapeOf, ClientPcs, SweepPcs, rows, rest
<1>4. ASSUME NEW q \in Requests, Selects(q)
      PROVE  ShapeOf(q)'
  <2>1. request[q].token # 0 /\ sessions[request[q].token].user = Owner[request[q].client]
    BY <1>4, RowsTyped DEF Selects, Live, Tokens, RequestTokens
  <2> QED  BY <1>0, <1>4, <2>1 DEF Selects, Moves, ShapeOf, ClientPcs, SweepPcs
<1>5. ASSUME NEW q \in Requests, Redeems(q)
      PROVE  ShapeOf(q)'
  BY <1>0, <1>5 DEF Redeems, Moves, ShapeOf, ClientPcs, SweepPcs, rows, rest
<1>6. ASSUME NEW q \in Requests, Revokes(q) \/ Sweeps(q)
      PROVE  ShapeOf(q)'
  BY <1>0, <1>6 DEF Revokes, Sweeps, Keeps, Moves, ShapeOf, ClientPcs, SweepPcs, rest
<1>7. ASSUME NEW q \in Requests, Issues(q)
      PROVE  ShapeOf(q)'
  BY <1>0, <1>7 DEF Issues, Moves, ShapeOf, ClientPcs, SweepPcs, rest
<1>8. ASSUME NEW q \in Requests, Receives(q) \/ Loses(q)
      PROVE  ShapeOf(q)'
  BY <1>8, NoneTyped DEF Receives, Loses, Ends, ShapeOf, ClientPcs, SweepPcs, ClientKinds
<1>9. ASSUME NEW q \in Requests, Marks(q) \/ Sets(q) \/ Deactivates(q)
      PROVE  ShapeOf(q)'
  BY <1>0, <1>9 DEF Marks, Sets, Deactivates, MarkUsed, SetPassword, Deactivate, At, Keeps, Moves,
                    ShapeOf, ClientPcs, SweepPcs
<1>10. ASSUME NEW q \in Requests, Sends(q)
       PROVE  ShapeOf(q)'
  BY <1>0, <1>10 DEF Sends, ShapeOf, ClientPcs, SweepPcs, ClientKinds, rows, KeepsLinks
<1>11. ASSUME NEW u \in Users, NEW a \in BOOLEAN, Updates(u, a)
       PROVE  \A q \in Requests : ShapeOf(q)'
  <2> SUFFICES ASSUME NEW q \in Requests PROVE ShapeOf(q)'
    OBVIOUS
  <2> QED  BY <1>0, <1>11, ShapeStays DEF Updates
<1>12. CASE Outside
  BY <1>1, <1>2, <1>12, OutsideMoves DEF Shape
<1> QED
  <2>1. ASSUME NEW q \in Requests, ShapeOf(q)',
               \A p \in Requests \ {q} : request'[p] = request[p]
        PROVE  Shape'
    BY <1>1, <1>2, <2>1 DEF Shape
  <2> QED  BY <1>2, <1>3, <1>4, <1>5, <1>6, <1>7, <1>8, <1>9, <1>10, <1>11, <1>12, <2>1, OthersStay,
              Steps DEF Shape


LEMMA TokensTyped ==
  ASSUME Typed, Tokens
  PROVE  /\ \A c \in Clients : /\ client[c].token \in Nat
                               /\ client[c].token # 0 => client[c].token \in DOMAIN sessions
         /\ \A q \in Requests :
              /\ request[q].token \in Nat /\ request[q].new \in Nat
              /\ request[q].token # 0 => request[q].token \in DOMAIN sessions
              /\ request[q].new # 0 => request[q].new \in DOMAIN sessions
<1>1. ASSUME NEW c \in Clients
      PROVE  /\ client[c].token \in Nat
             /\ client[c].token # 0 => client[c].token \in DOMAIN sessions
  <2>1. client[c] \in Holding
    BY DEF Typed
  <2>2. client[c].token \in Nat /\ client[c].token <= Len(sessions)
    BY <2>1 DEF Holding, Tokens, ClientTokens
  <2> QED  BY <2>2, RowsTyped
<1>2. ASSUME NEW q \in Requests
      PROVE  /\ request[q].token \in Nat /\ request[q].new \in Nat
             /\ request[q].token # 0 => request[q].token \in DOMAIN sessions
             /\ request[q].new # 0 => request[q].new \in DOMAIN sessions
  <2>1. request[q] \in Locals
    BY DEF Typed
  <2>2. /\ request[q].token \in Nat /\ request[q].token <= Len(sessions)
        /\ request[q].new \in Nat /\ request[q].new <= Len(sessions)
    BY <2>1 DEF Locals, Tokens, RequestTokens
  <2> QED  BY <2>2, RowsTyped
<1> QED  BY <1>1, <1>2

LEMMA TokensStay ==
  ASSUME Typed, Tokens, KeepsRows,
         \A c \in Clients : client'[c].token = client[c].token,
         \A q \in Requests :
           /\ request'[q].token \in {0, request[q].token}
           /\ request'[q].new \in {0, request[q].new}
           /\ request'[q].token # 0 \/ request'[q].new # 0 =>
                request'[q].client = request[q].client
  PROVE  Tokens'
<1>0. /\ \A c \in Clients : ClientTokens(c)
      /\ \A q \in Requests : RequestTokens(q)
  BY DEF Tokens
<1>1. /\ Len(sessions) \in Nat /\ Len(sessions') \in Nat /\ Len(sessions) <= Len(sessions')
      /\ \A s \in DOMAIN sessions : sessions'[s].user = sessions[s].user
  BY RowsTyped DEF KeepsRows
<1>2. ASSUME NEW c \in Clients
      PROVE  ClientTokens(c)'
  <2>1. client'[c].token <= Len(sessions')
    BY <1>0, <1>1, TokensTyped DEF ClientTokens
  <2>2. client'[c].token # 0 => sessions'[client'[c].token].user = Owner[c]
    BY <1>0, <1>1, TokensTyped DEF ClientTokens
  <2> QED  BY <1>0, <2>1, <2>2 DEF ClientTokens
<1>3. ASSUME NEW q \in Requests
      PROVE  RequestTokens(q)'
  <2>1. request'[q].token <= Len(sessions') /\ request'[q].new <= Len(sessions')
    BY <1>0, <1>1, TokensTyped DEF RequestTokens
  <2>2. /\ request'[q].token # 0 => sessions'[request'[q].token].user = Owner[request'[q].client]
        /\ request'[q].new # 0 => sessions'[request'[q].new].user = Owner[request'[q].client]
    <3>1. ASSUME request'[q].token # 0
          PROVE  sessions'[request'[q].token].user = Owner[request'[q].client]
      <4>1. /\ request'[q].token = request[q].token /\ request'[q].client = request[q].client
            /\ request[q].token \in DOMAIN sessions
        BY <3>1, TokensTyped
      <4> QED  BY <1>0, <1>1, <3>1, <4>1 DEF RequestTokens
    <3>2. ASSUME request'[q].new # 0
          PROVE  sessions'[request'[q].new].user = Owner[request'[q].client]
      <4>1. /\ request'[q].new = request[q].new /\ request'[q].client = request[q].client
            /\ request[q].new \in DOMAIN sessions
        BY <3>2, TokensTyped
      <4> QED  BY <1>0, <1>1, <3>2, <4>1 DEF RequestTokens
    <3> QED  BY <3>1, <3>2
  <2>3. ASSUME request'[q].new # 0
        PROVE  /\ \A c \in Clients : client'[c].token # request'[q].new
               /\ \A p \in Requests :
                    /\ request'[p].token # request'[q].new
                    /\ p # q => request'[p].new # request'[q].new
    <3>1. request'[q].new = request[q].new
      BY <2>3
    <3>2. /\ \A c \in Clients : client[c].token # request[q].new
          /\ \A p \in Requests :
               request[p].token # request[q].new /\ (p # q => request[p].new # request[q].new)
      BY <1>0, <2>3, <3>1 DEF RequestTokens
    <3> QED  BY <2>3, <3>1, <3>2
  <2> QED  BY <2>1, <2>2, <2>3 DEF RequestTokens
<1> QED  BY <1>2, <1>3 DEF Tokens

LEMMA TokensStep ==
  ASSUME Typed, Shape, Tokens, [Next]_vars
  PROVE  Tokens'
<1>0. /\ \A c \in Clients : ClientTokens(c)
      /\ \A q \in Requests : RequestTokens(q)
      /\ KeepsRows /\ Len(sessions) \in Nat
  BY RowsStay, RowsTyped DEF Tokens
<1>a. ASSUME \A c \in Clients : ClientTokens(c)', \A q \in Requests : RequestTokens(q)'
      PROVE  Tokens'
  BY <1>a DEF Tokens
<1>1. ASSUME NEW q \in Requests,
             \/ Passes(q) \/ Answers(q) \/ Selects(q) \/ Authenticates(q) \/ Redeems(q)
             \/ Revokes(q) \/ Loses(q) \/ Marks(q) \/ Sets(q) \/ Deactivates(q) \/ Sweeps(q)
      PROVE  Tokens'
  <2>1. UNCHANGED client
    BY <1>1 DEF Passes, Answers, Selects, Authenticates, Redeems, Revokes, Loses, Marks, Sets,
                Deactivates, Sweeps, MarkUsed, SetPassword, Deactivate, rest
  <2>2. \/ Ends(q)
        \/ \E pc, user, pass, outcome : Moves(q, pc, user, pass, request[q].new, outcome)
    BY <1>1 DEF Passes, Answers, Selects, Authenticates, Redeems, Revokes, Loses, Marks, Sets,
                Deactivates, Sweeps, Keeps
  <2>3. \A p \in Requests :
          /\ request'[p].token \in {0, request[p].token}
          /\ request'[p].new \in {0, request[p].new}
          /\ request'[p].token # 0 \/ request'[p].new # 0 =>
               request'[p].client = request[p].client
    BY <2>2, NoneTyped DEF Ends, Moves
  <2> QED  BY <1>0, <2>1, <2>3, TokensStay
<1>2. ASSUME NEW u \in Users, NEW a \in BOOLEAN, Updates(u, a)
      PROVE  Tokens'
  BY <1>0, <1>2, TokensStay DEF Updates
<1>3. CASE Outside
  BY <1>0, <1>3, TokensStay, OutsideMoves
<1>4. ASSUME NEW q \in Requests, Issues(q)
      PROVE  Tokens'
  <2> DEFINE n == Len(sessions) + 1
  <2>1. /\ UNCHANGED client
        /\ \A p \in Requests \ {q} : request'[p] = request[p]
        /\ request'[q].token = request[q].token /\ request'[q].client = request[q].client
        /\ request'[q].new = n
        /\ Len(sessions') = n
        /\ \A s \in DOMAIN sessions : sessions'[s] = sessions[s]
        /\ sessions'[n].user = Owner[request[q].client]
    <3>1. request[q].user = Owner[request[q].client]
      BY <1>4 DEF Issues, Shape, ShapeOf, ClientPcs
    <3>2. \A w : NewSession(request[q].user, w).user = request[q].user
      BY DEF NewSession
    <3> QED  BY <1>4, <3>1, <3>2 DEF Issues, AddsRow, Moves, rest
  <2>2. /\ n \in Nat /\ n # 0
        /\ \A c \in Clients : client[c].token # n /\ client[c].token <= n
        /\ \A p \in Requests : /\ request[p].token # n /\ request[p].token <= n
                               /\ request[p].new # n /\ request[p].new <= n
    BY <1>0, TokensTyped DEF ClientTokens, RequestTokens
  <2> HIDE DEF n
  <2>3. ASSUME NEW c \in Clients
        PROVE  ClientTokens(c)'
    <3>1. client[c].token # 0 => client[c].token \in DOMAIN sessions
      BY TokensTyped
    <3> QED  BY <1>0, <2>1, <2>2, <3>1 DEF ClientTokens
  <2>4. ASSUME NEW p \in Requests \ {q}
        PROVE  RequestTokens(p)'
    <3>1. /\ request[p].token # 0 => request[p].token \in DOMAIN sessions
          /\ request[p].new # 0 => request[p].new \in DOMAIN sessions
      BY TokensTyped
    <3>2. request'[p] = request[p]
      BY <2>1
    <3>3. ASSUME request[p].new # 0, NEW o \in Requests
          PROVE  request'[o].token # request[p].new /\ (o # p => request'[o].new # request[p].new)
      BY <1>0, <2>1, <2>2, <3>3 DEF RequestTokens
    <3> QED  BY <1>0, <2>1, <2>2, <3>1, <3>2, <3>3 DEF RequestTokens
  <2>5. RequestTokens(q)'
    <3>1. request[q].token # 0 => request[q].token \in DOMAIN sessions
      BY TokensTyped
    <3> QED  BY <1>0, <2>1, <2>2, <3>1 DEF RequestTokens
  <2> QED  BY <1>a, <2>3, <2>4, <2>5
<1>5. ASSUME NEW q \in Requests, Receives(q)
      PROVE  Tokens'
  <2>1. /\ UNCHANGED sessions
        /\ \A p \in Requests \ {q} : request'[p] = request[p]
        /\ request'[q].token = 0 /\ request'[q].new = 0
        /\ \A c \in Clients : client'[c].token = TokenAfter(q, c)
    BY <1>5, NoneTyped DEF Receives, Ends, rows
  <2>2. ASSUME NEW c \in Clients
        PROVE  \/ client'[c].token = client[c].token
               \/ client'[c].token = 0
               \/ request[q].new # 0 /\ c = request[q].client /\ client'[c].token = request[q].new
    BY <2>1 DEF TokenAfter
  <2>3. ASSUME NEW c \in Clients
        PROVE  ClientTokens(c)'
    <3>1. CASE client'[c].token = 0
      BY <1>0, <2>1, <3>1 DEF ClientTokens
    <3>2. CASE client'[c].token # 0 /\ client'[c].token = client[c].token
      <4>1. ASSUME NEW d \in Clients, client'[d].token = client'[c].token
            PROVE  d = c
        BY <1>0, <2>2, <3>2, <4>1 DEF ClientTokens, RequestTokens
      <4> QED  BY <1>0, <2>1, <3>2, <4>1 DEF ClientTokens
    <3>3. CASE request[q].new # 0 /\ c = request[q].client /\ client'[c].token = request[q].new
      <4>1. ASSUME NEW d \in Clients, client'[d].token = client'[c].token
            PROVE  d = c
        BY <1>0, <2>2, <3>3, <4>1 DEF RequestTokens
      <4> QED  BY <1>0, <2>1, <3>3, <4>1 DEF ClientTokens, RequestTokens
    <3> QED  BY <2>2, <3>1, <3>2, <3>3
  <2>4. ASSUME NEW p \in Requests
        PROVE  RequestTokens(p)'
    <3>1. CASE p = q
      BY <1>0, <2>1, <3>1 DEF RequestTokens
    <3>2. CASE p # q
      <4>1. request'[p] = request[p]
        BY <2>1, <3>2
      <4>2. ASSUME request[p].new # 0, NEW c \in Clients
            PROVE  client'[c].token # request[p].new
        BY <1>0, <2>2, <3>2, <4>2 DEF RequestTokens
      <4>3. ASSUME request[p].new # 0, NEW o \in Requests
            PROVE  request'[o].token # request[p].new /\ (o # p => request'[o].new # request[p].new)
        BY <1>0, <2>1, <4>3 DEF RequestTokens
      <4> QED  BY <1>0, <2>1, <4>1, <4>2, <4>3 DEF RequestTokens
    <3> QED  BY <3>1, <3>2
  <2> QED  BY <1>a, <2>3, <2>4
<1>6. ASSUME NEW q \in Requests, Sends(q)
      PROVE  Tokens'
  <2>1. /\ UNCHANGED <<sessions, client>>
        /\ \A p \in Requests \ {q} : request'[p] = request[p]
        /\ request'[q].new = 0
        /\ request'[q].token # 0 =>
             /\ request'[q].client \in Clients
             /\ request'[q].token = client[request'[q].client].token
        /\ \/ request'[q].token = 0
           \/ request'[q].client \in Clients /\ request'[q].token = client[request'[q].client].token
    BY <1>6 DEF Sends, rows
  <2>2. ASSUME NEW c \in Clients
        PROVE  ClientTokens(c)'
    BY <1>0, <2>1 DEF ClientTokens
  <2>3. ASSUME NEW p \in Requests
        PROVE  RequestTokens(p)'
    <3>1. CASE p = q
      BY <1>0, <2>1, <3>1 DEF ClientTokens, RequestTokens
    <3>2. CASE p # q
      <4>1. request'[p] = request[p]
        BY <2>1, <3>2
      <4>2. ASSUME request[p].new # 0, NEW o \in Requests
            PROVE  request'[o].token # request[p].new /\ (o # p => request'[o].new # request[p].new)
        BY <1>0, <2>1, <4>2 DEF RequestTokens
      <4> QED  BY <1>0, <2>1, <4>1, <4>2 DEF RequestTokens
    <3> QED  BY <3>1, <3>2
  <2> QED  BY <1>a, <2>2, <2>3
<1> QED  BY <1>1, <1>2, <1>3, <1>4, <1>5, <1>6, Steps


LEMMA SeenStep ==
  ASSUME Typed, Shape, Tokens, Seen, [Next]_vars
  PROVE  Seen'
<1>0. /\ \A p \in Requests : SeenOf(p) /\ ShapeOf(p)
      /\ \A p \in Requests : request[p].kind \in ClientKinds => request[p].user \in Users
  BY SessionsAssumption DEF Seen, Shape, ShapeOf
<1>1. ASSUME NEW q \in Requests, SeenOf(q)', \A u \in Users : active'[u] => active[u],
             \A p \in Requests \ {q} : request'[p] = request[p]
      PROVE  Seen'
  BY <1>0, <1>1 DEF Seen, SeenOf
<1>2. ASSUME NEW q \in Requests,
             \/ Passes(q) \/ Answers(q) \/ Authenticates(q) \/ Redeems(q)
             \/ Revokes(q) \/ Issues(q) \/ Marks(q) \/ Sets(q) \/ Sweeps(q)
      PROVE  Seen'
  <2>1. SeenOf(q) /\ ShapeOf(q)
    BY <1>0
  <2>2. UNCHANGED active
    BY <1>2 DEF Passes, Answers, Authenticates, Redeems, Revokes, Issues, Marks, Sets, Sweeps,
                MarkUsed, SetPassword, rows
  <2>3. CASE Redeems(q) \/ Marks(q) \/ Sets(q) \/ Sweeps(q)
    <3>1. /\ request'[q].kind \notin ClientKinds /\ request'[q].outcome # "served"
          /\ request'[q].pc # "issue"
      BY <2>1, <2>3 DEF Redeems, Marks, Sets, Sweeps, MarkUsed, SetPassword, At, Keeps, Moves,
                        ShapeOf, SweepPcs
    <3>2. SeenOf(q)'
      BY <3>1 DEF SeenOf
    <3> QED  BY <1>1, <1>2, <2>2, <3>2, OthersStay
  <2>4. CASE Passes(q) \/ Answers(q) \/ Authenticates(q) \/ Revokes(q) \/ Issues(q)
    <3>1. /\ request'[q].user = request[q].user /\ request'[q].kind = request[q].kind
          /\ request'[q].seen = request[q].seen
      BY <2>4 DEF Passes, Answers, Authenticates, Revokes, Issues, Keeps, Moves
    <3>2. ASSUME request'[q].outcome = "served" \/ request'[q].pc = "issue"
          PROVE  request[q].seen
      <4>1. \/ request[q].pc = "issue"
            \/ /\ request[q].pc \in {"access", "user", "authenticate"}
               /\ active[request[q].user]
        BY <2>1, <2>4, <3>2
           DEF Passes, Answers, Authenticates, Revokes, Issues, Keeps, Moves, ShapeOf
      <4> QED  BY <2>1, <4>1 DEF SeenOf, ShapeOf, ClientPcs
    <3>3. SeenOf(q)'
      BY <2>1, <2>2, <3>1, <3>2 DEF SeenOf
    <3> QED  BY <1>1, <1>2, <2>2, <3>3, OthersStay
  <2> QED  BY <1>2, <2>3, <2>4
<1>3. ASSUME NEW q \in Requests, Selects(q)
      PROVE  Seen'
  <2>1. SeenOf(q) /\ ShapeOf(q) /\ UNCHANGED active
    BY <1>0, <1>3 DEF Selects, rows
  <2>2. sessions[request[q].token].user = request[q].user
    BY <1>3, <2>1, RowsTyped DEF Selects, Live, Tokens, RequestTokens, ShapeOf, ClientPcs
  <2>3. SeenOf(q)'
    BY <1>3, <2>1, <2>2 DEF Selects, Moves, SeenOf
  <2> QED  BY <1>1, <1>3, <2>1, <2>3, OthersStay
<1>4. ASSUME NEW q \in Requests, Receives(q) \/ Loses(q)
      PROVE  Seen'
  <2>1. UNCHANGED active /\ SeenOf(q)'
    BY <1>4, NoneTyped DEF Receives, Loses, Ends, SeenOf, ClientKinds, rows
  <2> QED  BY <1>1, <1>4, <2>1, OthersStay
<1>5. ASSUME NEW q \in Requests, Deactivates(q)
      PROVE  Seen'
  <2>1. \A u \in Users : active'[u] => active[u]
    BY <1>5 DEF Deactivates, Deactivate, Typed
  <2>2. /\ request'[q].kind \notin ClientKinds /\ request'[q].outcome # "served"
        /\ request'[q].pc # "issue"
    BY <1>0, <1>5 DEF Deactivates, Deactivate, At, Keeps, Moves, ShapeOf, SweepPcs
  <2>3. SeenOf(q)'
    BY <2>2 DEF SeenOf
  <2> QED  BY <1>1, <1>5, <2>1, <2>3, OthersStay
<1>6. ASSUME NEW q \in Requests, Sends(q)
      PROVE  Seen'
  <2>1. UNCHANGED active /\ SeenOf(q)'
    BY <1>6 DEF Sends, SeenOf, ClientKinds, rows
  <2> QED  BY <1>1, <1>6, <2>1, OthersStay
<1>7. ASSUME NEW u \in Users, NEW a \in BOOLEAN, Updates(u, a)
      PROVE  Seen'
  <2> SUFFICES ASSUME NEW q \in Requests PROVE SeenOf(q)'
    BY DEF Seen
  <2>1. /\ SeenOf(q)
        /\ request'[q].seen = (request[q].seen \/ (request[q].user = u /\ a))
        /\ request'[q].pc = request[q].pc /\ request'[q].kind = request[q].kind
        /\ request'[q].user = request[q].user /\ request'[q].outcome = request[q].outcome
    BY <1>0, <1>7 DEF Updates
  <2>2. ASSUME request[q].kind \in ClientKinds, active'[request[q].user]
        PROVE  active[request[q].user] \/ (request[q].user = u /\ a)
    BY <1>0, <1>7, <2>2 DEF Updates, Typed
  <2> QED  BY <2>1, <2>2 DEF SeenOf
<1>8. CASE Outside
  BY <1>0, <1>8, OutsideMoves DEF Seen, SeenOf
<1> QED  BY <1>2, <1>3, <1>4, <1>5, <1>6, <1>7, <1>8, Steps

LEMMA SingleStep ==
  ASSUME Typed, Shape, Tokens, Single, [Next]_vars
  PROVE  Single'
<1>1. ASSUME NEW q \in Requests, ~Idle(q), UNCHANGED overlapped,
             \A p \in Requests \ {q} : request'[p] = request[p]
      PROVE  Single'
  BY <1>1 DEF Single, Idle
<1>2. ASSUME NEW q \in Requests,
             \/ Passes(q) \/ Answers(q) \/ Selects(q) \/ Authenticates(q) \/ Redeems(q)
             \/ Revokes(q) \/ Issues(q) \/ Receives(q) \/ Marks(q) \/ Sets(q)
             \/ Deactivates(q) \/ Sweeps(q)
      PROVE  Single'
  <2>1. ~Idle(q) /\ UNCHANGED overlapped
    BY <1>2 DEF Passes, Answers, Selects, Authenticates, Redeems, Revokes, Issues, Receives, Marks,
                Sets, Deactivates, Sweeps, MarkUsed, SetPassword, Deactivate, At, Idle, rest, bounds
  <2> QED  BY <1>1, <1>2, <2>1, OthersStay
<1>3. ASSUME NEW q \in Requests, Loses(q)
      PROVE  Single'
  BY <1>3, NoneTyped DEF Loses, Ends, Single, Idle
<1>4. ASSUME NEW q \in Requests, Sends(q)
      PROVE  Single'
  BY <1>4 DEF Sends, Single, Idle
<1>5. ASSUME NEW u \in Users, NEW a \in BOOLEAN, Updates(u, a)
      PROVE  Single'
  BY <1>5 DEF Updates, Single, Idle
<1>6. CASE Outside
  BY <1>6, OutsideMoves DEF Single, Idle
<1> QED  BY <1>2, <1>3, <1>4, <1>5, <1>6, Steps


\* A live session stays live, unless its user is swept or a request redeems it.
LEMMA LiveStays ==
  ASSUME Typed, Shape, Tokens, [Next]_vars, NEW s \in DOMAIN sessions, Live(s),
         sessions[s].user \notin swept',
         \A q \in Requests : Revokes(q) => request[q].token # s
  PROVE  Live(s)'
<1>0. s \in DOMAIN sessions' /\ swept \subseteq swept'
  BY RowsStay DEF KeepsRows
<1>1. sessions'[s] = sessions[s]
  <2>1. ASSUME NEW q \in Requests,
               \/ Passes(q) \/ Answers(q) \/ Selects(q) \/ Authenticates(q) \/ Redeems(q)
               \/ Receives(q) \/ Loses(q) \/ Marks(q) \/ Sets(q) \/ Deactivates(q) \/ Sends(q)
        PROVE  UNCHANGED sessions
    BY <2>1 DEF Passes, Answers, Selects, Authenticates, Redeems, Receives, Loses, Marks, Sets,
                Deactivates, Sends, MarkUsed, SetPassword, Deactivate, rows
  <2>2. ASSUME NEW q \in Requests, Revokes(q)
        PROVE  sessions'[s] = sessions[s]
    BY <2>2 DEF Revokes, RevokesRow
  <2>3. ASSUME NEW q \in Requests, Issues(q)
        PROVE  sessions'[s] = sessions[s]
    BY <2>3 DEF Issues, AddsRow
  <2>4. ASSUME NEW q \in Requests, Sweeps(q)
        PROVE  sessions'[s] = sessions[s]
    <3>1. request[q].user \in swept
      BY <2>4 DEF Sweeps, Shape, ShapeOf, SweepPcs
    <3> QED  BY <1>0, <2>4, <3>1 DEF Sweeps, RevokesUser
  <2>5. ASSUME NEW u \in Users, NEW a \in BOOLEAN, Updates(u, a)
        PROVE  UNCHANGED sessions
    BY <2>5 DEF Updates
  <2> QED  BY <2>1, <2>2, <2>3, <2>4, <2>5, OutsideMoves, Steps
<1> QED  BY <1>0, <1>1 DEF Live

\* A request that replaces the token of c does so until it is answered or lost.
LEMMA ReplacesStays ==
  ASSUME Typed, Shape, Tokens, Signed, [Next]_vars, NEW p \in Requests, NEW c \in Clients,
         Replaces(p, c), Owner[c] \notin swept, ~Receives(p), ~Loses(p)
  PROVE  Replaces(p, c)'
<1>0. /\ ShapeOf(p) /\ request[p].kind \in ClientKinds /\ request[p].client = c
      /\ request[p].pc \in {"user", "issue", "answer"}
      /\ active[request[p].user]
  BY SessionsAssumption DEF Shape, Replaces, ShapeOf, Signed
<1>1. CASE request'[p] = request[p]
  BY <1>1 DEF Replaces
<1>2. CASE Passes(p) \/ Issues(p)
  BY <1>0, <1>2, RowsTyped DEF Passes, Issues, Keeps, Moves, Replaces
<1>3. ASSUME NEW u \in Users, NEW a \in BOOLEAN, Updates(u, a)
      PROVE  Replaces(p, c)'
  BY <1>3 DEF Updates, Replaces
<1>4. ~Answers(p) /\ ~Selects(p) /\ ~Authenticates(p) /\ ~Redeems(p)
  BY <1>0 DEF Answers, Selects, Authenticates, Redeems
<1>5. ~Revokes(p) /\ ~Marks(p) /\ ~Sets(p) /\ ~Deactivates(p) /\ ~Sweeps(p) /\ ~Sends(p)
  BY <1>0 DEF Revokes, Marks, Sets, Deactivates, Sweeps, Sends, MarkUsed, SetPassword, Deactivate,
              At, Idle
<1> QED  BY <1>1, <1>2, <1>3, <1>4, <1>5, OthersStay, OutsideMoves, Steps

\* Where a request's new token comes from.
LEMMA NewComesFrom ==
  ASSUME Typed, Shape, Tokens, [Next]_vars, NEW q \in Requests, request'[q].new # 0
  PROVE  \/ /\ request[q].new = request'[q].new /\ request[q].client = request'[q].client
         \/ Issues(q)
<1>1. ASSUME NEW u \in Users, NEW a \in BOOLEAN, Updates(u, a)
      PROVE  request[q].new = request'[q].new /\ request[q].client = request'[q].client
  BY <1>1 DEF Updates
<1>2. ASSUME \/ Passes(q) \/ Answers(q) \/ Selects(q) \/ Authenticates(q) \/ Redeems(q)
             \/ Revokes(q) \/ Marks(q) \/ Sets(q) \/ Deactivates(q) \/ Sweeps(q)
      PROVE  request[q].new = request'[q].new /\ request[q].client = request'[q].client
  BY <1>2 DEF Passes, Answers, Selects, Authenticates, Redeems, Revokes, Marks, Sets, Deactivates,
              Sweeps, Keeps, Moves
<1>3. ~Receives(q) /\ ~Loses(q) /\ ~Sends(q)
  BY NoneTyped DEF Receives, Loses, Ends, Sends
<1> QED  BY <1>1, <1>2, <1>3, OthersStay, OutsideMoves, Steps

LEMMA LossesGrow ==
  ASSUME Typed, Shape, Tokens, [Next]_vars, losses' = 0
  PROVE  losses = 0 /\ \A q \in Requests : ~Loses(q)
<1>1. ASSUME NEW q \in Requests
      PROVE  ~Loses(q)
  BY DEF Loses, Typed
<1>2. ASSUME NEW q \in Requests,
             \/ Passes(q) \/ Answers(q) \/ Selects(q) \/ Authenticates(q) \/ Redeems(q)
             \/ Revokes(q) \/ Issues(q) \/ Receives(q) \/ Marks(q) \/ Sets(q)
             \/ Deactivates(q) \/ Sweeps(q) \/ Sends(q)
      PROVE  UNCHANGED losses
  BY <1>2 DEF Passes, Answers, Selects, Authenticates, Redeems, Revokes, Issues, Receives, Marks,
              Sets, Deactivates, Sweeps, Sends, MarkUsed, SetPassword, Deactivate, rest, bounds
<1>3. ASSUME NEW u \in Users, NEW a \in BOOLEAN, Updates(u, a)
      PROVE  UNCHANGED losses
  BY <1>3 DEF Updates
<1> QED  BY <1>1, <1>2, <1>3, OutsideMoves, Steps

LEMMA SignedStep ==
  ASSUME Typed, Shape, Tokens, Signed, [Next]_vars
  PROVE  Signed'
<1>0. swept \subseteq swept' /\ KeepsRows
  BY RowsStay
<1>1. \A u \in Users \ swept' : active'[u]
  <2>1. ASSUME NEW q \in Requests, Deactivates(q)
        PROVE  \A u \in Users \ swept' : active'[u]
    <3>1. request[q].user \in swept /\ active' = [active EXCEPT ![request[q].user] = FALSE]
      BY <2>1 DEF Deactivates, Deactivate, At, Shape, ShapeOf, SweepPcs
    <3> QED  BY <1>0, <3>1 DEF Signed, Typed
  <2>2. ASSUME NEW v \in Users, NEW a \in BOOLEAN, Updates(v, a)
        PROVE  \A u \in Users \ swept' : active'[u]
    BY <2>2 DEF Updates, Signed, Typed
  <2>3. ASSUME NEW q \in Requests,
               \/ Passes(q) \/ Answers(q) \/ Selects(q) \/ Authenticates(q) \/ Redeems(q)
               \/ Revokes(q) \/ Issues(q) \/ Receives(q) \/ Loses(q) \/ Marks(q) \/ Sets(q)
               \/ Sweeps(q) \/ Sends(q)
        PROVE  UNCHANGED active
    BY <2>3 DEF Passes, Answers, Selects, Authenticates, Redeems, Revokes, Issues, Receives, Loses,
                Marks, Sets, Sweeps, Sends, MarkUsed, SetPassword, rows
  <2>4. UNCHANGED active => \A u \in Users \ swept' : active'[u]
    BY <1>0 DEF Signed
  <2> QED  BY <2>1, <2>2, <2>3, <2>4, OutsideMoves, Steps
<1>2. ASSUME losses' = 0, NEW q \in Requests, request'[q].new # 0,
             Owner[request'[q].client] \notin swept', NEW n, n = request'[q].new
      PROVE  Live(n)'
  <2>1. CASE Issues(q)
    BY <1>2, <2>1 DEF Issues, Moves
  <2>2. CASE request[q].new = request'[q].new /\ request[q].client = request'[q].client
    <3>1. losses = 0 /\ n \in DOMAIN sessions
      BY <1>2, <2>2, LossesGrow, TokensTyped
    <3>2. /\ Live(n) /\ sessions[n].user \notin swept'
          /\ \A p \in Requests : request[p].token # n
      BY <1>0, <1>2, <2>2, <3>1 DEF Signed, Tokens, RequestTokens
    <3> QED  BY <3>1, <3>2, LiveStays
  <2> QED  BY <1>2, <2>1, <2>2, NewComesFrom
<1>3. ASSUME losses' = 0, NEW c \in Clients, client'[c].token # 0, Owner[c] \notin swept',
             NEW n, n = client'[c].token
      PROVE  Live(n)' \/ \E q \in Requests : Replaces(q, c)'
  <2>0. losses = 0 /\ (\A q \in Requests : ~Loses(q)) /\ Owner[c] \notin swept
    BY <1>0, <1>3, LossesGrow
  <2>1. ASSUME NEW q \in Requests, Receives(q), client'[c].token # client[c].token
        PROVE  Live(n)'
    <3>1. UNCHANGED sessions /\ client'[c].token = TokenAfter(q, c)
      BY <2>1 DEF Receives, rows
    <3>2. /\ request[q].kind \in ClientKinds /\ c = request[q].client
          /\ request[q].new # 0 /\ n = request[q].new
      BY <1>3, <2>1, <3>1 DEF TokenAfter
    <3>3. Live(n)
      BY <2>0, <3>2 DEF Signed
    <3> QED  BY <3>1, <3>3, SameRows
  <2>2. ASSUME client'[c].token = client[c].token
        PROVE  Live(n)' \/ \E q \in Requests : Replaces(q, c)'
    <3>1. n \in DOMAIN sessions /\ sessions[n].user \notin swept'
      BY <1>3, <2>2, TokensTyped DEF Tokens, ClientTokens
    <3>2. CASE Live(n)
      <4>1. ASSUME NEW q \in Requests, Revokes(q), request[q].token = n
            PROVE  Replaces(q, c)'
        <5>1. request[q].client = c /\ request[q].kind \in ClientKinds
          BY <1>3, <2>2, <4>1 DEF Tokens, ClientTokens, Revokes, Shape, ShapeOf, ClientPcs
        <5> QED  BY <4>1, <5>1 DEF Revokes, Keeps, Moves, Replaces
      <4> QED  BY <3>1, <3>2, <4>1, LiveStays
    <3>3. ASSUME NEW p \in Requests, Replaces(p, c)
          PROVE  Replaces(p, c)'
      <4>1. ~Receives(p)
        <5>1. ASSUME Receives(p)
              PROVE  FALSE
          <6>1. client'[c].token = TokenAfter(p, c) /\ request[p].pc = "answer"
            BY <5>1 DEF Receives
          <6>2. client'[c].token \in {request[p].new, 0} /\ (request[p].new = 0 => client'[c].token = 0)
            BY <3>3, <6>1 DEF Replaces, TokenAfter
          <6>3. request[p].new # 0 /\ client[c].token = request[p].new
            BY <1>3, <2>2, <6>2
          <6> QED  BY <6>3 DEF Tokens, RequestTokens
        <5> QED  BY <5>1
      <4> QED  BY <2>0, <3>3, <4>1, ReplacesStays
    <3>4. Live(n) \/ \E p \in Requests : Replaces(p, c)
      BY <1>3, <2>0, <2>2 DEF Signed
    <3> QED  BY <3>2, <3>3, <3>4
  <2>3. \/ \E q \in Requests : Receives(q)
        \/ client'[c].token = client[c].token
    <3>1. ASSUME NEW q \in Requests,
                 \/ Passes(q) \/ Answers(q) \/ Selects(q) \/ Authenticates(q) \/ Redeems(q)
                 \/ Revokes(q) \/ Issues(q) \/ Loses(q) \/ Marks(q) \/ Sets(q)
                 \/ Deactivates(q) \/ Sweeps(q) \/ Sends(q)
          PROVE  UNCHANGED client
      BY <3>1 DEF Passes, Answers, Selects, Authenticates, Redeems, Revokes, Issues, Loses, Marks,
                  Sets, Deactivates, Sweeps, Sends, MarkUsed, SetPassword, Deactivate, rest
    <3>2. ASSUME NEW u \in Users, NEW a \in BOOLEAN, Updates(u, a)
          PROVE  UNCHANGED client
      BY <3>2 DEF Updates
    <3> QED  BY <3>1, <3>2, OutsideMoves, Steps
  <2> QED  BY <2>1, <2>2, <2>3
<1> QED  BY <1>1, <1>2, <1>3 DEF Signed


\* Before a calm state, too, at most one request is under way.
LEMMA CalmBefore ==
  ASSUME Typed, Shape, Tokens, Single, [Next]_vars, Calm'
  PROVE  /\ Calm /\ \A q \in Requests : ~Loses(q)
         /\ \A p, q \in Requests : ~Idle(p) /\ ~Idle(q) => p = q
<1>1. losses = 0 /\ \A q \in Requests : ~Loses(q)
  BY LossesGrow DEF Calm
<1>2. ~overlapped
  <2>1. ASSUME NEW q \in Requests,
               \/ Passes(q) \/ Answers(q) \/ Selects(q) \/ Authenticates(q) \/ Redeems(q)
               \/ Revokes(q) \/ Issues(q) \/ Receives(q) \/ Loses(q) \/ Marks(q) \/ Sets(q)
               \/ Deactivates(q) \/ Sweeps(q)
        PROVE  UNCHANGED overlapped
    BY <2>1 DEF Passes, Answers, Selects, Authenticates, Redeems, Revokes, Issues, Receives, Loses,
                Marks, Sets, Deactivates, Sweeps, MarkUsed, SetPassword, Deactivate, rest, bounds
  <2>2. ASSUME NEW q \in Requests, Sends(q)
        PROVE  ~overlapped
    BY <2>2 DEF Sends, Calm
  <2>3. ASSUME NEW u \in Users, NEW a \in BOOLEAN, Updates(u, a)
        PROVE  UNCHANGED overlapped
    BY <2>3 DEF Updates
  <2> QED  BY <2>1, <2>2, <2>3, OutsideMoves, Steps DEF Calm
<1> QED  BY <1>1, <1>2 DEF Calm, Single

\* Only SetPassword changes a password.
LEMMA PasswordStays ==
  ASSUME Typed, Shape, Tokens, [Next]_vars, \A q \in Requests : ~Sets(q)
  PROVE  UNCHANGED password
<1>1. ASSUME NEW q \in Requests,
             \/ Passes(q) \/ Answers(q) \/ Selects(q) \/ Authenticates(q) \/ Redeems(q)
             \/ Revokes(q) \/ Issues(q) \/ Receives(q) \/ Loses(q) \/ Marks(q)
             \/ Deactivates(q) \/ Sweeps(q) \/ Sends(q)
      PROVE  UNCHANGED password
  BY <1>1 DEF Passes, Answers, Selects, Authenticates, Redeems, Revokes, Issues, Receives, Loses,
              Marks, Deactivates, Sweeps, Sends, MarkUsed, Deactivate, rows
<1>2. ASSUME NEW u \in Users, NEW a \in BOOLEAN, Updates(u, a)
      PROVE  UNCHANGED password
  BY <1>2 DEF Updates
<1> QED  BY <1>1, <1>2, OutsideMoves, Steps

LEMMA CurrentStep ==
  ASSUME Typed, Shape, Tokens, Single, Current, [Next]_vars
  PROVE  Current'
<1> SUFFICES ASSUME Calm' PROVE Current'
  BY DEF Current
<1>0. /\ Calm /\ \A q \in Requests : ~Loses(q)
      /\ \A p, q \in Requests : ~Idle(p) /\ ~Idle(q) => p = q
  BY CalmBefore
<1>1. /\ \A q \in Requests : request[q].pc \in {"revoke", "user", "issue"} =>
           request[q].password = password[request[q].user]
      /\ \A s \in DOMAIN sessions : Live(s) =>
           \/ sessions[s].password = password[sessions[s].user]
           \/ \E q \in Requests : At(q, "sweep") /\ request[q].user = sessions[s].user
  BY <1>0 DEF Current
<1>2. ASSUME NEW q \in Requests, request'[q].pc \in {"revoke", "user", "issue"}
      PROVE  request'[q].password = password'[request'[q].user]
  <2>1. CASE \E p \in Requests : Sets(p)
    <3>1. PICK p \in Requests : Sets(p)
      BY <2>1
    <3>2. request'[p].pc = "sweep" /\ ~Idle(p) /\ \A o \in Requests \ {p} : request'[o] = request[o]
      BY <3>1 DEF Sets, SetPassword, At, Keeps, Moves, Idle
    <3> QED  BY <1>0, <1>2, <3>2 DEF Idle
  <2>2. CASE \A p \in Requests : ~Sets(p)
    <3>1. UNCHANGED password
      BY <2>2, PasswordStays
    <3>2. CASE /\ request'[q].password = request[q].password /\ request'[q].user = request[q].user
               /\ request[q].pc \in {"revoke", "user", "issue"}
      BY <1>1, <3>1, <3>2
    <3>3. CASE Selects(q)
      <4>1. ~\E p \in Requests : At(p, "sweep")
        BY <1>0, <3>3 DEF Selects, At, Idle
      <4>2. sessions[request[q].token].password = password[sessions[request[q].token].user]
        BY <1>1, <3>3, <4>1 DEF Selects, Live
      <4> QED  BY <3>1, <3>3, <4>2 DEF Selects, Moves
    <3>4. CASE Authenticates(q)
      BY <3>1, <3>4 DEF Authenticates, Moves
    <3>5. ASSUME Passes(q) \/ Revokes(q)
          PROVE  /\ request'[q].password = request[q].password
                 /\ request'[q].user = request[q].user
                 /\ request[q].pc \in {"revoke", "user", "issue"}
      BY <1>2, <3>5 DEF Passes, Revokes, Keeps, Moves
    <3>6. /\ ~Answers(q) /\ ~Redeems(q) /\ ~Issues(q) /\ ~Marks(q) /\ ~Sets(q)
          /\ ~Deactivates(q) /\ ~Sweeps(q) /\ ~Sends(q) /\ ~Receives(q)
      BY <1>2, NoneTyped DEF Answers, Redeems, Issues, Marks, Sets, Deactivates, Sweeps, Sends,
                             Receives, Ends, Keeps, Moves
    <3>7. ASSUME NEW u \in Users, NEW a \in BOOLEAN, Updates(u, a)
          PROVE  /\ request'[q].password = request[q].password
                 /\ request'[q].user = request[q].user
                 /\ request[q].pc \in {"revoke", "user", "issue"}
      BY <1>2, <3>7 DEF Updates
    <3>8. CASE request'[q] = request[q]
      BY <1>2, <3>2, <3>8
    <3> QED  BY <1>0, <3>2, <3>3, <3>4, <3>5, <3>6, <3>7, <3>8, OthersStay, OutsideMoves, Steps
  <2> QED  BY <2>1, <2>2
<1>3. ASSUME NEW s \in DOMAIN sessions, Live(s)'
      PROVE  \/ sessions'[s].password = password'[sessions'[s].user]
             \/ \E q \in Requests : request'[q].pc = "sweep" /\ request'[q].user = sessions'[s].user
  <2>1. /\ Live(s) /\ sessions'[s].user = sessions[s].user
        /\ sessions'[s].password = sessions[s].password /\ sessions[s].user \in Users
    BY <1>3, RowsStay, RowsTyped DEF KeepsRows
  <2>2. CASE sessions[s].password = password[sessions[s].user]
    <3>1. CASE \E p \in Requests : Sets(p)
      <4>1. PICK p \in Requests : Sets(p)
        BY <3>1
      <4>2. /\ password' = [password EXCEPT ![request[p].user] = @ + 1]
            /\ request'[p].pc = "sweep" /\ request'[p].user = request[p].user
        BY <4>1 DEF Sets, SetPassword, Keeps, Moves
      <4> QED  BY <2>1, <2>2, <4>2 DEF Typed
    <3>2. CASE \A p \in Requests : ~Sets(p)
      BY <2>1, <2>2, <3>2, PasswordStays
    <3> QED  BY <3>1, <3>2
  <2>3. ASSUME NEW q \in Requests, At(q, "sweep"), request[q].user = sessions[s].user
        PROVE  request'[q].pc = "sweep" /\ request'[q].user = sessions'[s].user
    <3>1. ~Sweeps(q)
      BY <1>3, <2>3 DEF Sweeps, RevokesUser
    <3>2. /\ ~Passes(q) /\ ~Answers(q) /\ ~Selects(q) /\ ~Authenticates(q) /\ ~Redeems(q)
          /\ ~Revokes(q) /\ ~Issues(q) /\ ~Receives(q)
          /\ ~Marks(q) /\ ~Sets(q) /\ ~Deactivates(q) /\ ~Sends(q)
      BY <2>3 DEF At, Passes, Answers, Selects, Authenticates, Redeems, Revokes, Issues, Receives,
                  Marks, Sets, Deactivates, Sends, MarkUsed, SetPassword, Deactivate, Idle
    <3>3. request'[q].pc = request[q].pc /\ request'[q].user = request[q].user
      BY <1>0, <3>1, <3>2, OthersStay, OutsideMoves, Steps DEF Updates
    <3> QED  BY <2>1, <2>3, <3>3 DEF At
  <2> QED  BY <1>1, <2>1, <2>2, <2>3
<1>4. ASSUME NEW s \in DOMAIN sessions' \ DOMAIN sessions
      PROVE  sessions'[s].password = password'[sessions'[s].user]
  <2>1. CASE \E q \in Requests : Issues(q)
    <3>1. PICK q \in Requests : Issues(q)
      BY <2>1
    <3>2. /\ s = Len(sessions) + 1 /\ UNCHANGED password
          /\ sessions'[s] = NewSession(request[q].user, request[q].password)
          /\ request[q].password = password[request[q].user]
      <4>1. /\ Len(sessions') = Len(sessions) + 1 /\ sessions' \in Seq(Session)
            /\ sessions'[Len(sessions) + 1] = NewSession(request[q].user, request[q].password)
        BY <3>1 DEF Issues, AddsRow, KeepsRows
      <4>2. s = Len(sessions) + 1
        BY <1>4, <4>1, RowsTyped
      <4> QED  BY <1>1, <3>1, <4>1, <4>2 DEF Issues
    <3>3. \A u, w : NewSession(u, w).user = u /\ NewSession(u, w).password = w
      BY DEF NewSession
    <3> QED  BY <3>2, <3>3
  <2>2. CASE \A q \in Requests : ~Issues(q)
    <3>1. ASSUME NEW q \in Requests,
                 \/ Passes(q) \/ Answers(q) \/ Selects(q) \/ Authenticates(q) \/ Redeems(q)
                 \/ Revokes(q) \/ Receives(q) \/ Loses(q) \/ Marks(q) \/ Sets(q)
                 \/ Deactivates(q) \/ Sweeps(q) \/ Sends(q)
          PROVE  Len(sessions') = Len(sessions)
      BY <3>1 DEF Passes, Answers, Selects, Authenticates, Redeems, Revokes, Receives, Loses, Marks,
                  Sets, Deactivates, Sweeps, Sends, MarkUsed, SetPassword, Deactivate, rows,
                  RevokesRow, RevokesUser
    <3>2. ASSUME NEW u \in Users, NEW a \in BOOLEAN, Updates(u, a)
          PROVE  Len(sessions') = Len(sessions)
      BY <3>2 DEF Updates
    <3>3. Len(sessions') = Len(sessions)
      BY <2>2, <3>1, <3>2, OutsideMoves, Steps
    <3>4. DOMAIN sessions' = DOMAIN sessions
      BY <3>3, RowsStay, RowsTyped DEF KeepsRows
    <3> QED  BY <1>4, <3>4
  <2> QED  BY <2>1, <2>2
<1> QED  BY <1>2, <1>3, <1>4 DEF Current, At


\* Only MarkUsed uses a link.
LEMMA LinksStay ==
  ASSUME Typed, Shape, Tokens, [Next]_vars, \A q \in Requests : ~Marks(q)
  PROVE  /\ \A k \in DOMAIN resets : k \in DOMAIN resets' /\ (resets'[k].used <=> resets[k].used)
         /\ \A u : UsedLinks(u)' = UsedLinks(u)
<1>1. ASSUME NEW q \in Requests,
             \/ Passes(q) \/ Answers(q) \/ Selects(q) \/ Authenticates(q) \/ Redeems(q)
             \/ Revokes(q) \/ Issues(q) \/ Receives(q) \/ Loses(q) \/ Sets(q)
             \/ Deactivates(q) \/ Sweeps(q) \/ Sends(q)
      PROVE  UNCHANGED resets
  BY <1>1 DEF Passes, Answers, Selects, Authenticates, Redeems, Revokes, Issues, Receives, Loses,
              Sets, Deactivates, Sweeps, Sends, SetPassword, Deactivate, rows
<1>2. ASSUME NEW u \in Users, NEW a \in BOOLEAN, Updates(u, a)
      PROVE  UNCHANGED resets
  BY <1>2 DEF Updates
<1>3. CASE UNCHANGED resets
  BY <1>3 DEF UsedLinks
<1>4. CASE Outside
  <2>1. /\ \A k \in DOMAIN resets :
             k \in DOMAIN resets' /\ resets'[k].user = resets[k].user
                                  /\ (resets'[k].used <=> resets[k].used)
        /\ \A k \in DOMAIN resets' \ DOMAIN resets : ~resets'[k].used
    BY <1>4, OutsideMoves DEF KeepsLinks
  <2> QED  BY <2>1 DEF UsedLinks
<1> QED  BY <1>1, <1>2, <1>3, <1>4, Steps

\* Who is about to set a password has just used the link, and sets it next.
LEMMA PendingStays ==
  ASSUME Typed, Shape, Tokens, [Next]_vars,
         \A q \in Requests : ~Marks(q) /\ ~Sets(q) /\ ~Loses(q)
  PROVE  \A u : Pending(u)' <=> Pending(u)
<1>1. ASSUME NEW q \in Requests
      PROVE  /\ request'[q].pc = "password" <=> request[q].pc = "password"
             /\ request[q].pc = "password" => request'[q].user = request[q].user
  <2>1. CASE \/ Passes(q) \/ Answers(q) \/ Selects(q) \/ Authenticates(q) \/ Redeems(q)
             \/ Revokes(q) \/ Issues(q) \/ Deactivates(q) \/ Sweeps(q)
    BY <2>1 DEF Passes, Answers, Selects, Authenticates, Redeems, Revokes, Issues, Deactivates,
                Deactivate, At, Sweeps, Keeps, Moves
  <2>2. CASE Receives(q)
    BY <2>2, NoneTyped DEF Receives, Ends
  <2>3. CASE Sends(q)
    BY <2>3 DEF Sends, Idle
  <2>4. ASSUME NEW u \in Users, NEW a \in BOOLEAN, Updates(u, a)
        PROVE  request'[q].pc = request[q].pc /\ request'[q].user = request[q].user
    BY <2>4 DEF Updates
  <2>5. CASE request'[q].pc = request[q].pc /\ request'[q].user = request[q].user
    BY <2>5
  <2> QED  BY <2>1, <2>2, <2>3, <2>4, <2>5, OthersStay, OutsideMoves, Steps
<1> QED  BY <1>1 DEF Pending, At

LEMMA UsedByFinite ==
  ASSUME Typed, NEW u
  PROVE  IsFiniteSet(UsedLinks(u)) /\ Cardinality(UsedLinks(u)) \in Nat
<1>1. IsFiniteSet(1 .. Len(resets)) /\ UsedLinks(u) \in SUBSET (1 .. Len(resets))
  BY RowsTyped, FS_Interval DEF UsedLinks
<1> QED  BY <1>1, FS_Subset, FS_CardinalityType

LEMMA CountedStep ==
  ASSUME Typed, Shape, Tokens, Single, Counted, [Next]_vars
  PROVE  Counted'
<1> SUFFICES ASSUME Calm' PROVE Counted'
  BY DEF Counted
<1>0. /\ Calm /\ \A q \in Requests : ~Loses(q)
      /\ \A p, q \in Requests : ~Idle(p) /\ ~Idle(q) => p = q
  BY CalmBefore
<1>1. /\ \A q \in Requests : At(q, "mark") => ~resets[request[q].reset].used
      /\ \A u \in Users :
           Cardinality(UsedLinks(u)) = IF Pending(u) THEN password[u] + 1 ELSE password[u]
  BY <1>0 DEF Counted
<1>2. ASSUME NEW q \in Requests, request'[q].pc = "mark"
      PROVE  ~resets'[request'[q].reset].used
  <2>1. CASE Redeems(q)
    BY <2>1 DEF Redeems, Usable, Moves, rows
  <2>2. CASE request'[q].pc = request[q].pc /\ request'[q].reset = request[q].reset
    <3>1. /\ At(q, "mark") /\ request[q].reset \in DOMAIN resets /\ ~resets[request[q].reset].used
      BY <1>1, <1>2, <2>2 DEF At, Shape, ShapeOf
    <3>2. ASSUME NEW p \in Requests, Marks(p)
          PROVE  FALSE
      <4>1. p = q
        BY <1>0, <3>1, <3>2 DEF Marks, MarkUsed, At, Idle
      <4> QED  BY <1>2, <3>2, <4>1 DEF Marks, Keeps, Moves
    <3> QED  BY <2>2, <3>1, <3>2, LinksStay
  <2>3. /\ ~Passes(q) /\ ~Answers(q) /\ ~Selects(q) /\ ~Authenticates(q) /\ ~Revokes(q)
        /\ ~Issues(q) /\ ~Receives(q) /\ ~Marks(q) /\ ~Sets(q) /\ ~Deactivates(q)
        /\ ~Sweeps(q) /\ ~Sends(q)
    BY <1>2, NoneTyped DEF Passes, Answers, Selects, Authenticates, Revokes, Issues, Receives, Ends,
                           Marks, Sets, Deactivates, Sweeps, Sends, Keeps, Moves
  <2>4. ASSUME NEW u \in Users, NEW a \in BOOLEAN, Updates(u, a)
        PROVE  request'[q].pc = request[q].pc /\ request'[q].reset = request[q].reset
    BY <2>4 DEF Updates
  <2> QED  BY <1>0, <2>1, <2>2, <2>3, <2>4, OthersStay, OutsideMoves, Steps
<1>3. ASSUME NEW u \in Users
      PROVE  Cardinality(UsedLinks(u)') = IF Pending(u)' THEN password'[u] + 1 ELSE password'[u]
  <2>0. /\ Cardinality(UsedLinks(u)) = IF Pending(u) THEN password[u] + 1 ELSE password[u]
        /\ IsFiniteSet(UsedLinks(u)) /\ password[u] \in Nat
    BY <1>1, UsedByFinite DEF Typed
  <2>1. CASE \E q \in Requests : Marks(q)
    <3>1. PICK q \in Requests : Marks(q)
      BY <2>1
    <3> DEFINE k == request[q].reset
    <3>2. /\ request[q].pc = "mark" /\ resets' = Marked(k) /\ UNCHANGED password
          /\ request'[q].pc = "password" /\ request'[q].user = request[q].user
          /\ \A p \in Requests \ {q} : request'[p] = request[p]
      BY <3>1 DEF Marks, MarkUsed, At, Keeps, Moves
    <3>3. k \in DOMAIN resets /\ request[q].user = resets[k].user /\ ~resets[k].used
      BY <1>1, <3>2 DEF At, Shape, ShapeOf
    <3>4. \A p \in Requests \ {q} : request[p].pc = "idle"
      BY <1>0, <3>2 DEF Idle
    <3>5. ~Pending(u) /\ (Pending(u)' <=> u = request[q].user)
      BY <3>2, <3>4 DEF Pending, At
    <3>6. /\ DOMAIN resets' = DOMAIN resets
          /\ \A j \in DOMAIN resets : /\ resets'[j].used <=> resets[j].used \/ j = k
                                      /\ resets'[j].user = resets[j].user
      BY <3>2, <3>3, LinkMarked DEF KeepsLinks
    <3>7. CASE u = request[q].user
      <4>1. UsedLinks(u)' = UsedLinks(u) \cup {k} /\ k \notin UsedLinks(u)
        BY <3>3, <3>6, <3>7 DEF UsedLinks
      <4>2. Cardinality(UsedLinks(u) \cup {k}) = Cardinality(UsedLinks(u)) + 1
        BY <2>0, <4>1, FS_AddElement
      <4> QED  BY <2>0, <3>2, <3>5, <3>7, <4>1, <4>2
    <3>8. CASE u # request[q].user
      <4>1. UsedLinks(u)' = UsedLinks(u)
        BY <3>3, <3>6, <3>8 DEF UsedLinks
      <4> QED  BY <2>0, <3>2, <3>5, <3>8, <4>1
    <3> QED  BY <3>7, <3>8
  <2>2. CASE \E q \in Requests : Sets(q)
    <3>1. PICK q \in Requests : Sets(q)
      BY <2>2
    <3>2. /\ request[q].pc = "password" /\ UNCHANGED resets
          /\ password' = [password EXCEPT ![request[q].user] = @ + 1]
          /\ request'[q].pc = "sweep" /\ \A p \in Requests \ {q} : request'[p] = request[p]
      BY <3>1 DEF Sets, SetPassword, At, Keeps, Moves
    <3>3. \A p \in Requests \ {q} : request[p].pc = "idle"
      BY <1>0, <3>2 DEF Idle
    <3>4. (Pending(u) <=> u = request[q].user) /\ ~Pending(u)'
      BY <3>2, <3>3 DEF Pending, At
    <3>5. password'[u] = IF u = request[q].user THEN password[u] + 1 ELSE password[u]
      BY <3>2 DEF Typed
    <3>6. UsedLinks(u)' = UsedLinks(u)
      BY <3>2 DEF UsedLinks
    <3> QED  BY <2>0, <3>4, <3>5, <3>6
  <2>3. CASE \A q \in Requests : ~Marks(q) /\ ~Sets(q)
    BY <1>0, <2>0, <2>3, LinksStay, PendingStays, PasswordStays
  <2> QED  BY <2>1, <2>2, <2>3
<1> QED  BY <1>2, <1>3 DEF Counted, At


----------------------------------------------------------------------------
(* The invariant, and what it says.                                        *)

LEMMA SessionsInit ==
  ASSUME Init
  PROVE  SessionsInv
<1>0. /\ \A q \in Requests : request[q] = None
      /\ \A c \in Clients : client[c].token = 0
      /\ sessions = <<>> /\ resets = <<>> /\ swept = {} /\ losses = 0 /\ overlapped = FALSE
      /\ \A u \in Users : active[u] = TRUE /\ password[u] = 0
      /\ Len(sessions) = 0 /\ DOMAIN sessions = {} /\ DOMAIN resets = {}
  BY DEF Init
<1>1. Typed
  <2>1. client \in [Clients -> Holding]
    BY DEF Init, Holding
  <2>2. active \in [Users -> BOOLEAN] /\ password \in [Users -> Nat]
    BY DEF Init
  <2>3. request \in [Requests -> Locals]
    BY NoneTyped DEF Init
  <2>4. sessions \in Seq(Session) /\ resets \in Seq(Reset)
    BY <1>0
  <2> QED  BY <1>0, <2>1, <2>2, <2>3, <2>4 DEF Typed
<1>2. Shape
  BY <1>0, NoneTyped DEF Shape, ShapeOf, ClientPcs, SweepPcs, ClientKinds
<1>3. Tokens
  BY <1>0, NoneTyped DEF Tokens, ClientTokens, RequestTokens
<1>4. Seen
  BY <1>0, NoneTyped DEF Seen, SeenOf, ClientKinds
<1>5. Signed
  BY <1>0, NoneTyped, SessionsAssumption DEF Signed
<1>6. Single
  BY <1>0, NoneTyped DEF Single, Idle
<1>7. Current
  BY <1>0, NoneTyped DEF Current, At
<1>8. Counted
  <2>1. \A u \in Users : UsedLinks(u) = {} /\ ~Pending(u)
    BY <1>0, NoneTyped DEF UsedLinks, Pending, At
  <2> QED  BY <1>0, <2>1, NoneTyped, FS_EmptySet DEF Counted, At
<1> QED  BY <1>1, <1>2, <1>3, <1>4, <1>5, <1>6, <1>7, <1>8 DEF SessionsInv

LEMMA SessionsInvariant == Spec => []SessionsInv
<1>1. Init => SessionsInv
  BY SessionsInit
<1>2. SessionsInv /\ [Next]_vars => SessionsInv'
  BY TypedStep, ShapeStep, TokensStep, SeenStep, SignedStep, SingleStep, CurrentStep, CountedStep
     DEF SessionsInv
<1> QED  BY <1>1, <1>2, PTL DEF Spec

\* Rows and locals are well formed: a handler of redeem_refresh_token,
\* revoke_all_sessions or issue_token_pair works on a session of its own
\* client's user.
THEOREM SessionsTyped == Spec => []TypeOK
<1>1. SessionsInv => TypeOK
  <2> SUFFICES ASSUME SessionsInv PROVE TypeOK
    OBVIOUS
  <2>1. Typed /\ Shape /\ Tokens
    BY DEF SessionsInv
  <2>2. ASSUME NEW c \in Clients, client[c].token # 0
        PROVE  sessions[client[c].token].user = Owner[c]
    BY <2>1, <2>2 DEF Tokens, ClientTokens
  <2>3. ASSUME NEW q \in Requests
        PROVE  /\ request[q].pc \in {"revoke", "user"} =>
                    sessions[request[q].token].user = request[q].user
               /\ request[q].new # 0 =>
                    sessions[request[q].new].user = Owner[request[q].client]
               /\ request[q].pc = "sweep" => request[q].user \in Users
    <3>1. ShapeOf(q) /\ RequestTokens(q) /\ swept \subseteq Users
      BY <2>1 DEF Shape, Tokens, Typed
    <3>2. request[q].pc \in {"revoke", "user"} =>
            /\ request[q].token # 0 /\ request[q].user = Owner[request[q].client]
      BY <3>1 DEF ShapeOf, ClientPcs
    <3>3. request[q].pc = "sweep" => request[q].user \in swept
      BY <3>1 DEF ShapeOf, SweepPcs
    <3> QED  BY <3>1, <3>2, <3>3 DEF RequestTokens
  <2> QED  BY <2>1, <2>2, <2>3 DEF TypeOK, Typed
<1> QED  BY <1>1, SessionsInvariant, PTL

\* However the answers of a browser's requests overlap, once they have arrived
\* it holds a refresh token that redeem_refresh_token accepts.
THEOREM StaysSignedIn == Spec => []QuietIsSignedIn
<1>1. SessionsInv => QuietIsSignedIn
  BY DEF SessionsInv, Signed, QuietIsSignedIn, Quiet, Replaces
<1> QED  BY <1>1, SessionsInvariant, PTL

\* AuthUser, require_session and the token pairs only serve a user whose
\* account was active at some time of the request.
THEOREM ServedIsActive == Spec => []ServedWasActive
<1>1. SessionsInv => ServedWasActive
  BY DEF SessionsInv, Seen, SeenOf, ServedWasActive
<1> QED  BY <1>1, SessionsInvariant, PTL

\* When requests do not overlap and none is lost, confirm_password_reset leaves
\* no live session that goes back to an older password.
THEOREM ResetEndsSessions == Spec => []ResetSignsOut
<1>1. SessionsInv => ResetSignsOut
  BY DEF SessionsInv, Current, Calm, ResetSignsOut, Undisturbed, Idle, At
<1> QED  BY <1>1, SessionsInvariant, PTL

\* When requests do not overlap and none is lost, redeem_reset_token lets each
\* link set a password once.
THEOREM LinkWorksOnce == Spec => []ResetLinkWorksOnce
<1>1. SessionsInv => ResetLinkWorksOnce
  <2> SUFFICES ASSUME SessionsInv, Undisturbed, NEW u \in Users
               PROVE  password[u] = Cardinality(UsedLinks(u))
    BY DEF ResetLinkWorksOnce, UsedLinks
  <2>1. Calm /\ ~Pending(u)
    BY DEF Undisturbed, Calm, Pending, Idle, At
  <2> QED  BY <2>1 DEF SessionsInv, Counted
<1> QED  BY <1>1, SessionsInvariant, PTL
=============================================================================
