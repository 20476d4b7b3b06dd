------------------------ MODULE Administration_proofs -----------------------
(***************************************************************************)
(* What Administration promises of logos and admins, proved for any number *)
(* of departments, users and requests, and whatever the bounds.            *)
(***************************************************************************)
EXTENDS Administration, FiniteSetTheorems, TLAPS

----------------------------------------------------------------------------
(* The inductive invariant.                                                *)

Replacing == {"delete", "write", "row"}
LogoPcs == Replacing \cup {"read", "delete_row"}
UserPcs == {"settings", "email", "edit"}

Locals ==
  [pc : LogoPcs \cup UserPcs \cup {"idle"},
   kind : LogoKinds \cup UserKinds \cup {"none", "create_user"},
   actor : Users \cup {None}, target : Slots \cup Users \cup {None},
   patch : User \cup {None}, previous : Nat, file : Nat,
   alone : BOOLEAN, whole : BOOLEAN]

Typed ==
  /\ users \in [Users -> User \cup {None}]
  /\ department \in [Departments -> {"none", "present", "deleted"}]
  /\ logo \in [Slots -> Nat]
  /\ written \in Nat /\ mishaps \in Nat
  /\ files \subseteq 1..written
  /\ handler \in [Handlers -> Locals]
  /\ tangled \in BOOLEAN

\* What the locals hold at each place of a request.
ShapeOf(h) ==
  LET x == handler[h]
  IN /\ x.pc = "idle" => x = Idle
     /\ x.pc \in Replacing \cup {"read"} =>
          x.target \in Slots /\ x.kind \in {"upload_logo", "remove_logo"}
     /\ x.pc = "delete_row" => x.target \in Departments /\ x.kind = "delete_department"
     /\ x.pc \in UserPcs =>
          /\ x.target \in Users /\ x.kind \in UserKinds \cup {"create_user"}
          /\ x.kind # "deactivate_user" => x.patch \in User
     /\ x.pc = "write" => x.kind = "upload_logo"
     /\ x.pc # "row" \/ x.kind # "upload_logo" => x.file = 0
     /\ x.pc \notin Replacing => x.previous = 0

Shape == \A h \in Handlers : ShapeOf(h)

\* A file has one owner: the slot that names it, or the upload that wrote it.
\* A request deletes no file but what its own slot has named.
Owned ==
  /\ \A s \in Slots : logo[s] <= written /\ (s \notin Present => logo[s] = 0)
  /\ \A s, t \in Slots : logo[s] = logo[t] /\ logo[s] # 0 => s = t
  /\ \A h \in Handlers :
       LET x == handler[h]
       IN /\ x.file <= written /\ x.previous <= written
          /\ x.previous # 0 => \A s \in Slots : logo[s] = x.previous => s = x.target
          /\ x.file # 0 =>
               /\ x.file \in files
               /\ \A s \in Slots : logo[s] # x.file
               /\ \A g \in Handlers :
                    handler[g].previous # x.file /\ (g # h => handler[g].file # x.file)

\* LogoIsThere, also while a request about the slot has deleted nothing yet.
Served ==
  \A s \in settled \cap Present :
    (\A h \in Handlers : handler[h].pc \in {"write", "row"} => handler[h].target # s)
      => logo[s] \in files \cup {0}

\* A request whose alone is still set is the only one of its kind.
Alone ==
  \A h, g \in Handlers :
    /\ h # g /\ Running(h) /\ Running(g) /\ handler[h].alone
    => /\ handler[h].target # handler[g].target
       /\ ~(handler[h].kind \in UserKinds /\ handler[g].kind \in UserKinds)

\* An admin who is alone has what it has read.
KnownLogo(h) ==
  handler[h].alone /\ handler[h].pc \in Replacing =>
    /\ handler[h].target \in Present
    /\ handler[h].previous = logo[handler[h].target]
    /\ handler[h].whole /\ handler[h].pc # "delete" => handler[h].previous \notin files

KnownAdmin(h) ==
  handler[h].alone /\ Running(h) =>
    /\ handler[h].kind = "update_user" =>
         handler[h].actor \in Users /\ IsAdmin(handler[h].actor)
    /\ handler[h].kind = "deactivate_user" =>
         \E a \in Users \ {handler[h].target} : IsAdmin(a)

Admins ==
  ~tangled => (\E u \in Users : IsAdmin(u)) /\ \A h \in Handlers : KnownAdmin(h)

Known == \A h \in Handlers : KnownLogo(h)

AdministrationInv ==
  /\ Typed /\ Shape /\ Owned /\ Served /\ Alone /\ Known /\ Admins
  /\ OldLogosAreDeleted


----------------------------------------------------------------------------
(* What the steps do to the locals of the requests.                        *)

LEMMA IdleTyped ==
  /\ Idle \in Locals /\ Idle.pc = "idle" /\ Idle.file = 0 /\ Idle.previous = 0
BY DEF Idle, Locals

\* Request h moves to pc; the rest of its locals stay, but for these two.
Moves(h, pc, previous, file) ==
  LET x == handler[h]
      y == handler'[h]
  IN /\ handler' \in [Handlers -> Locals]
     /\ \A g \in Handlers \ {h} : handler'[g] = handler[g]
     /\ y.pc = pc /\ y.previous = previous /\ y.file = file
     /\ y.kind = x.kind /\ y.actor = x.actor /\ y.target = x.target
     /\ y.patch = x.patch /\ y.alone = x.alone

Ends(h) ==
  /\ handler' \in [Handlers -> Locals]
  /\ \A g \in Handlers \ {h} : handler'[g] = handler[g]
  /\ handler'[h] = Idle

\* Request h starts; those that it interferes with are no longer alone.
Starts(h, pc, kind, actor, target, patch) ==
  /\ handler' \in [Handlers -> Locals]
  /\ ~Running(h)
  /\ handler'[h].pc = pc /\ handler'[h].kind = kind /\ handler'[h].actor = actor
  /\ handler'[h].target = target /\ handler'[h].patch = patch
  /\ handler'[h].previous = 0 /\ handler'[h].file = 0
  /\ handler'[h].alone => \A f \in Handlers : ~Interferes(f, kind, target)
  /\ \A g \in Handlers \ {h} :
       /\ handler'[g].pc = handler[g].pc /\ handler'[g].kind = handler[g].kind
       /\ handler'[g].actor = handler[g].actor /\ handler'[g].target = handler[g].target
       /\ handler'[g].patch = handler[g].patch /\ handler'[g].whole = handler[g].whole
       /\ handler'[g].previous = handler[g].previous /\ handler'[g].file = handler[g].file
       /\ handler'[g].alone => handler[g].alone /\ ~Interferes(g, kind, target)
       /\ ~Running(g) => handler'[g] = handler[g]

LEMMA BecomeSets ==
  ASSUME handler \in [Handlers -> Locals], NEW h \in Handlers, NEW y \in Locals,
         Become(h, y)
  PROVE  /\ handler' \in [Handlers -> Locals]
         /\ \A g \in Handlers \ {h} : handler'[g] = handler[g]
         /\ handler'[h] = y
BY DEF Become

LEMMA BecomeEnds ==
  ASSUME handler \in [Handlers -> Locals], NEW h \in Handlers, Become(h, Idle)
  PROVE  Ends(h)
BY BecomeSets, IdleTyped DEF Ends

LEMMA BecomeMoves ==
  ASSUME handler \in [Handlers -> Locals], NEW h \in Handlers, NEW y \in Locals,
         Become(h, y),
         y.kind = handler[h].kind, y.actor = handler[h].actor,
         y.target = handler[h].target, y.patch = handler[h].patch,
         y.alone = handler[h].alone
  PROVE  Moves(h, y.pc, y.previous, y.file) /\ handler'[h].whole = y.whole
BY BecomeSets DEF Moves

LEMMA GotoMoves ==
  ASSUME handler \in [Handlers -> Locals], NEW h \in Handlers,
         NEW p \in LogoPcs \cup UserPcs, Goto(h, p)
  PROVE  /\ Moves(h, p, handler[h].previous, handler[h].file)
         /\ handler'[h].whole = handler[h].whole
<1> DEFINE x == handler[h]
           y == [x EXCEPT !.pc = p]
<1>1. x \in Locals
  OBVIOUS
<1>2. /\ y \in Locals /\ y.pc = p /\ y.previous = x.previous /\ y.file = x.file
      /\ y.kind = x.kind /\ y.actor = x.actor /\ y.target = x.target
      /\ y.patch = x.patch /\ y.alone = x.alone /\ y.whole = x.whole
  <2> HIDE DEF x
  <2> QED  BY <1>1 DEF Locals
<1>3. Become(h, y)
  BY DEF Goto
<1> HIDE DEF y
<1>4. Moves(h, y.pc, y.previous, y.file) /\ handler'[h].whole = y.whole
  BY <1>2, <1>3, BecomeMoves
<1> QED  BY <1>2, <1>4

LEMMA ReadLogoMoves ==
  ASSUME Typed, Shape, NEW h \in Handlers, ReadLogo(h)
  PROVE  \/ /\ Moves(h, "delete", logo[handler[h].target], handler[h].file)
            /\ handler[h].target \in Present
         \/ Ends(h)
<1> DEFINE x == handler[h]
           n == logo[x.target]
           y == [x EXCEPT !.pc = "delete", !.previous = n]
<1>1. x \in Locals /\ n \in Nat
  BY DEF Typed, Shape, ShapeOf, ReadLogo
<1>2. /\ y \in Locals /\ y.pc = "delete" /\ y.previous = n /\ y.file = x.file
      /\ y.kind = x.kind /\ y.actor = x.actor /\ y.target = x.target
      /\ y.patch = x.patch /\ y.alone = x.alone
  <2> HIDE DEF x, n
  <2> QED  BY <1>1 DEF Locals, LogoPcs, Replacing
<1>3. \/ Become(h, y) /\ x.target \in Present
      \/ Become(h, Idle)
  BY DEF ReadLogo
<1> HIDE DEF y
<1>4. ASSUME Become(h, y) PROVE Moves(h, y.pc, y.previous, y.file)
  BY <1>2, <1>4, BecomeMoves DEF Typed
<1> QED  BY <1>2, <1>3, <1>4, BecomeEnds DEF Typed

LEMMA delete_logoMoves ==
  ASSUME Typed, NEW h \in Handlers, delete_logo(h)
  PROVE  /\ Moves(h, AfterDelete(h), handler[h].previous, handler[h].file)
         /\ \/ files' = files \ {handler[h].previous}
            \/ files' = files /\ ~handler'[h].whole
<1> DEFINE x == handler[h]
           p == AfterDelete(h)
           y == [x EXCEPT !.pc = p, !.whole = FALSE]
<1>1. x \in Locals /\ p \in LogoPcs
  BY DEF Typed, AfterDelete, LogoPcs, Replacing
<1>2. /\ y \in Locals /\ y.pc = p /\ y.previous = x.previous /\ y.file = x.file
      /\ y.kind = x.kind /\ y.actor = x.actor /\ y.target = x.target
      /\ y.patch = x.patch /\ y.alone = x.alone /\ y.whole = FALSE
  <2> HIDE DEF x, p
  <2> QED  BY <1>1 DEF Locals
<1>3. \/ files' = files \ {x.previous} /\ Goto(h, p)
      \/ files' = files /\ Become(h, y)
  BY DEF delete_logo, WithoutPrevious
<1> HIDE DEF y
<1>4. ASSUME Become(h, y)
      PROVE  Moves(h, p, x.previous, x.file) /\ handler'[h].whole = FALSE
  <2>1. Moves(h, y.pc, y.previous, y.file) /\ handler'[h].whole = y.whole
    BY <1>2, <1>4, BecomeMoves DEF Typed
  <2> QED  BY <1>2, <2>1
<1>5. ASSUME Goto(h, p)
      PROVE  Moves(h, p, x.previous, x.file)
  BY <1>1, <1>5, GotoMoves DEF Typed
<1> QED  BY <1>3, <1>4, <1>5

LEMMA save_logoMoves ==
  ASSUME Typed, NEW h \in Handlers, save_logo(h)
  PROVE  /\ Moves(h, "row", handler[h].previous, written + 1)
         /\ handler'[h].whole = handler[h].whole
<1> DEFINE x == handler[h]
           n == written + 1
           y == [x EXCEPT !.pc = "row", !.file = n]
<1>1. x \in Locals /\ n \in Nat
  BY DEF Typed
<1>2. /\ y \in Locals /\ y.pc = "row" /\ y.previous = x.previous /\ y.file = n
      /\ y.kind = x.kind /\ y.actor = x.actor /\ y.target = x.target
      /\ y.patch = x.patch /\ y.alone = x.alone /\ y.whole = x.whole
  <2> HIDE DEF x, n
  <2> QED  BY <1>1 DEF Locals, LogoPcs, Replacing
<1>3. Become(h, y)
  BY DEF save_logo
<1> HIDE DEF y
<1>4. Moves(h, y.pc, y.previous, y.file) /\ handler'[h].whole = y.whole
  BY <1>2, <1>3, BecomeMoves DEF Typed
<1> QED  BY <1>2, <1>4

LEMMA SendStarts ==
  ASSUME handler \in [Handlers -> Locals], NEW h \in Handlers,
         NEW pc \in LogoPcs \cup UserPcs,
         NEW kind \in LogoKinds \cup UserKinds \cup {"create_user"},
         NEW actor \in Users \cup {None}, NEW target \in Slots \cup Users,
         NEW patch \in User \cup {None}, Send(h, pc, kind, actor, target, patch)
  PROVE  /\ Starts(h, pc, kind, actor, target, patch)
         /\ UNCHANGED <<users, logos, tangled>>
<1> DEFINE b == \A f \in Handlers : ~Interferes(f, kind, target)
           y == [Idle EXCEPT !.pc = pc, !.kind = kind, !.actor = actor, !.target = target,
                             !.patch = patch, !.alone = b]
<1>0. b \in BOOLEAN
  OBVIOUS
<1>1. /\ y \in Locals /\ y.pc = pc /\ y.kind = kind /\ y.actor = actor /\ y.target = target
      /\ y.patch = patch /\ y.previous = 0 /\ y.file = 0 /\ y.alone = b
  <2> HIDE DEF b
  <2> QED  BY <1>0 DEF Locals, Idle
<1>2. /\ handler'[h] = y /\ ~Running(h) /\ UNCHANGED <<users, logos, tangled>>
      /\ DOMAIN handler' = Handlers
  BY DEF Send
<1>3. ASSUME NEW g \in Handlers \ {h}
      PROVE  /\ handler'[g] \in Locals
             /\ handler'[g].pc = handler[g].pc /\ handler'[g].kind = handler[g].kind
             /\ handler'[g].actor = handler[g].actor /\ handler'[g].target = handler[g].target
             /\ handler'[g].patch = handler[g].patch /\ handler'[g].whole = handler[g].whole
             /\ handler'[g].previous = handler[g].previous /\ handler'[g].file = handler[g].file
             /\ handler'[g].alone => handler[g].alone /\ ~Interferes(g, kind, target)
             /\ ~Running(g) => handler'[g] = handler[g]
  <2>1. handler'[g] = IF Interferes(g, kind, target) THEN [handler[g] EXCEPT !.alone = FALSE]
                      ELSE handler[g]
    BY DEF Send
  <2>2. handler[g] \in Locals
    OBVIOUS
  <2>3. ~Running(g) => ~Interferes(g, kind, target)
    BY DEF Interferes
  <2> QED  BY <2>1, <2>2, <2>3 DEF Locals
<1>4. handler' \in [Handlers -> Locals]
  <2>1. handler' = [g \in Handlers |-> handler'[g]]
    BY DEF Send
  <2>2. \A g \in Handlers : handler'[g] \in Locals
    BY <1>1, <1>2, <1>3
  <2> QED  BY <2>1, <2>2
<1> HIDE DEF y
<1> QED  BY <1>1, <1>2, <1>3, <1>4 DEF Starts


----------------------------------------------------------------------------
(* The steps, by what they do.                                             *)

world == <<users, department, logo, files, written, settled, mishaps, tangled>>

Begins(h) ==
  /\ UNCHANGED world
  /\ \/ \E slot \in Slots, kind \in {"upload_logo", "remove_logo"} :
          Starts(h, "read", kind, None, slot, None)
     \/ \E d \in Departments : Starts(h, "delete_row", "delete_department", None, d, None)
     \/ \E u \in Users, pc \in UserPcs, row \in User : Starts(h, pc, "create_user", None, u, row)
     \/ \E u, actor \in Users, row \in User :
          IsAdmin(actor) /\ Starts(h, "edit", "update_user", actor, u, row)
     \/ \E u, actor \in Users :
          IsAdmin(actor) /\ u # actor /\ Starts(h, "edit", "deactivate_user", None, u, None)

\* A request goes on, or ends, and has changed nothing.
Turns(h) ==
  /\ UNCHANGED world
  /\ handler[h].pc \in UserPcs
  /\ \E p \in UserPcs : Moves(h, p, handler[h].previous, handler[h].file)

Quits(h) ==
  /\ UNCHANGED world
  /\ handler[h].pc \in UserPcs \cup {"read"}
  /\ Ends(h)

Reads(h) ==
  /\ UNCHANGED world
  /\ handler[h].pc = "read" /\ handler[h].target \in Present
  /\ Moves(h, "delete", logo[handler[h].target], handler[h].file)

Deletes(h) ==
  /\ handler[h].pc = "delete"
  /\ \E p \in {"write", "row"} :
       /\ Moves(h, p, handler[h].previous, handler[h].file)
       /\ p = "write" => handler[h].kind = "upload_logo"
  /\ \/ files' = files \ {handler[h].previous}
     \/ files' = files /\ ~handler'[h].whole
  /\ UNCHANGED <<users, department, logo, written, settled, mishaps, tangled>>

Saves(h) ==
  /\ handler[h].pc = "write"
  /\ Moves(h, "row", handler[h].previous, written + 1)
  /\ handler'[h].whole = handler[h].whole
  /\ written' = written + 1 /\ files' = files \cup {written + 1}
  /\ UNCHANGED <<users, department, logo, settled, mishaps, tangled>>

Sets(h) ==
  LET t == handler[h].target
  IN /\ handler[h].pc = "row" /\ Ends(h)
     /\ \/ /\ t \in Present /\ logo' = [logo EXCEPT ![t] = Url(h)]
        \/ t \notin Present /\ UNCHANGED logo
     /\ settled' = settled \cup {t}
     /\ mishaps' = IF Undisturbed(h) THEN mishaps ELSE mishaps + 1
     /\ UNCHANGED <<users, department, files, written, tangled>>

Drops(h) == delete_department(h) /\ Ends(h)
Edits(h) == edit_user(h) /\ Ends(h)
Fails(h) == Fail(h) /\ Ends(h)

LEMMA BeginSteps ==
  ASSUME Typed, NEW h \in Handlers, NEW actor \in Users, IsAdmin(actor),
         \/ \E slot \in Slots : SendLogo(h, slot)
         \/ \E u \in Users : SendUser(h, actor, u)
  PROVE  Begins(h)
<1>0. /\ "read" \in LogoPcs /\ "delete_row" \in LogoPcs /\ "edit" \in UserPcs
      /\ {"upload_logo", "remove_logo", "delete_department"} \subseteq LogoKinds
      /\ {"update_user", "deactivate_user"} \subseteq UserKinds
      /\ handler \in [Handlers -> Locals]
      /\ \A role \in Roles : Account(role) \in User
  BY DEF LogoPcs, UserPcs, LogoKinds, UserKinds, Typed, Account, User
<1>1. ASSUME NEW slot \in Slots, SendLogo(h, slot)
      PROVE  Begins(h)
  <2>1. ASSUME NEW kind \in {"upload_logo", "remove_logo"},
               Send(h, "read", kind, None, slot, None)
        PROVE  Begins(h)
    <3>1. Starts(h, "read", kind, None, slot, None) /\ UNCHANGED <<users, logos, tangled>>
      BY <1>0, <2>1, SendStarts
    <3> QED  BY <3>1 DEF Begins, world, logos
  <2>2. ASSUME slot # Org, Send(h, "delete_row", "delete_department", None, slot, None)
        PROVE  Begins(h)
    <3>1. /\ Starts(h, "delete_row", "delete_department", None, slot, None)
          /\ UNCHANGED <<users, logos, tangled>> /\ slot \in Departments
      BY <1>0, <2>2, SendStarts DEF Slots
    <3> QED  BY <3>1 DEF Begins, world, logos
  <2> QED  BY <1>1, <2>1, <2>2 DEF SendLogo
<1>2. ASSUME NEW u \in Users, SendUser(h, actor, u)
      PROVE  Begins(h)
  <2>1. ASSUME NEW role \in Roles, Send(h, "edit", "create_user", None, u, Account(role))
        PROVE  Begins(h)
    <3>1. /\ Starts(h, "edit", "create_user", None, u, Account(role))
          /\ UNCHANGED <<users, logos, tangled>>
      BY <1>0, <2>1, SendStarts
    <3> QED  BY <1>0, <3>1 DEF Begins, world, logos
  <2>2. ASSUME NEW row \in User, Send(h, "edit", "update_user", actor, u, row)
        PROVE  Begins(h)
    <3>1. /\ Starts(h, "edit", "update_user", actor, u, row)
          /\ UNCHANGED <<users, logos, tangled>>
      BY <1>0, <2>2, SendStarts
    <3> QED  BY <3>1 DEF Begins, world, logos
  <2>3. ASSUME u # actor, Send(h, "edit", "deactivate_user", None, u, None)
        PROVE  Begins(h)
    <3>1. /\ Starts(h, "edit", "deactivate_user", None, u, None)
          /\ UNCHANGED <<users, logos, tangled>>
      BY <1>0, <2>3, SendStarts
    <3> QED  BY <2>3, <3>1 DEF Begins, world, logos
  <2> QED  BY <1>2, <2>1, <2>2, <2>3 DEF SendUser, Deactivatable
<1> QED  BY <1>1, <1>2

LEMMA RegisterSteps ==
  ASSUME Typed, NEW h \in Handlers
  PROVE  /\ (\E u \in Users : Send(h, "settings", "create_user", None, u, Account("requester")))
              => Begins(h)
         /\ register(h) \/ get_by_email(h) => Turns(h) \/ Quits(h)
<1>0. /\ "settings" \in UserPcs /\ "email" \in UserPcs /\ "edit" \in UserPcs
      /\ Account("requester") \in User /\ handler \in [Handlers -> Locals]
  BY DEF UserPcs, Account, User, Roles, Typed
<1>1. ASSUME NEW u \in Users, Send(h, "settings", "create_user", None, u, Account("requester"))
      PROVE  Begins(h)
  <2>1. /\ Starts(h, "settings", "create_user", None, u, Account("requester"))
        /\ UNCHANGED <<users, logos, tangled>>
    BY <1>0, <1>1, SendStarts
  <2> QED  BY <1>0, <2>1 DEF Begins, world, logos
<1>2. ASSUME register(h) \/ get_by_email(h)
      PROVE  Turns(h) \/ Quits(h)
  <2>1. /\ UNCHANGED world /\ handler[h].pc \in UserPcs
        /\ Goto(h, "email") \/ Goto(h, "edit") \/ Become(h, Idle)
    BY <1>2 DEF register, get_by_email, world, logos, UserPcs
  <2>2. CASE Goto(h, "email") \/ Goto(h, "edit")
    BY <1>0, <2>1, <2>2, GotoMoves DEF Turns
  <2>3. CASE Become(h, Idle)
    BY <1>0, <2>1, <2>3, BecomeEnds DEF Quits
  <2> QED  BY <2>1, <2>2, <2>3
<1> QED  BY <1>1, <1>2

LEMMA LogoSteps ==
  ASSUME Typed, Shape, NEW h \in Handlers
  PROVE  /\ ReadLogo(h) => Reads(h) \/ Quits(h)
         /\ delete_logo(h) => Deletes(h)
         /\ save_logo(h) => Saves(h)
         /\ set_logo_url(h) => Sets(h)
         /\ delete_department(h) => Drops(h)
         /\ edit_user(h) => Edits(h)
         /\ Fail(h) => Fails(h)
<1>1. ReadLogo(h) => Reads(h) \/ Quits(h)
  BY ReadLogoMoves DEF ReadLogo, Reads, Quits, world, logos
<1>2. delete_logo(h) => Deletes(h)
  <2> SUFFICES ASSUME delete_logo(h) PROVE Deletes(h)
    OBVIOUS
  <2>1. /\ Moves(h, AfterDelete(h), handler[h].previous, handler[h].file)
        /\ \/ files' = files \ {handler[h].previous}
           \/ files' = files /\ ~handler'[h].whole
    BY delete_logoMoves
  <2>2. /\ AfterDelete(h) \in {"write", "row"}
        /\ AfterDelete(h) = "write" => handler[h].kind = "upload_logo"
    BY DEF AfterDelete
  <2> QED  BY <2>1, <2>2 DEF delete_logo, Deletes
<1>3. save_logo(h) => Saves(h)
  BY save_logoMoves DEF save_logo, Saves
<1>4. set_logo_url(h) => Sets(h)
  BY BecomeEnds DEF set_logo_url, Done, Sets, Typed
<1>5. delete_department(h) => Drops(h)
  BY BecomeEnds DEF delete_department, Drops, Typed
<1>6. edit_user(h) => Edits(h)
  BY BecomeEnds DEF edit_user, Edits, Typed
<1>7. Fail(h) => Fails(h)
  BY BecomeEnds DEF Fail, Fails, Typed
<1> QED  BY <1>1, <1>2, <1>3, <1>4, <1>5, <1>6, <1>7

LEMMA Steps ==
  ASSUME Typed, Shape, [Next]_vars
  PROVE  \/ UNCHANGED <<world, handler>>
         \/ \E h \in Handlers :
              \/ Begins(h) \/ Turns(h) \/ Quits(h) \/ Reads(h) \/ Deletes(h) \/ Saves(h)
              \/ Sets(h) \/ Drops(h) \/ Edits(h) \/ Fails(h)
         \/ \E d \in Departments : create_department(d)
         \/ Restart
<1>1. CASE UNCHANGED vars \/ \E allowed \in BOOLEAN : update_settings(allowed)
  BY <1>1 DEF vars, update_settings, world
<1>2. ASSUME NEW h \in Handlers, NEW actor \in Users, IsAdmin(actor),
             \/ \E slot \in Slots : SendLogo(h, slot)
             \/ \E u \in Users : SendUser(h, actor, u)
      PROVE  Begins(h)
  BY <1>2, BeginSteps
<1> QED  BY <1>1, <1>2, RegisterSteps, LogoSteps DEF Next


----------------------------------------------------------------------------
(* The invariant is kept.                                                  *)

\* The handlers of every kind of step but a start.
LEMMA HandlersMove ==
  ASSUME NEW h \in Handlers,
         \/ Turns(h) \/ Quits(h) \/ Reads(h) \/ Deletes(h) \/ Saves(h)
         \/ Sets(h) \/ Drops(h) \/ Edits(h) \/ Fails(h)
  PROVE  /\ handler' \in [Handlers -> Locals]
         /\ \A g \in Handlers \ {h} : handler'[g] = handler[g]
BY DEF Turns, Quits, Reads, Deletes, Saves, Sets, Drops, Edits, Fails, Moves, Ends

LEMMA TypedStep ==
  ASSUME Typed, Shape, [Next]_vars
  PROVE  Typed'
<1>1. CASE UNCHANGED <<world, handler>>
  BY <1>1 DEF world, Typed
<1>2. ASSUME NEW h \in Handlers, Begins(h)
      PROVE  Typed'
  <2>1. handler' \in [Handlers -> Locals]
    BY <1>2 DEF Begins, Starts
  <2> QED  BY <1>2, <2>1 DEF Begins, world, Typed
<1>3. ASSUME NEW h \in Handlers, Turns(h) \/ Quits(h) \/ Reads(h)
      PROVE  Typed'
  BY <1>3, HandlersMove DEF Turns, Quits, Reads, world, Typed
<1>4. ASSUME NEW h \in Handlers, Deletes(h)
      PROVE  Typed'
  BY <1>4, HandlersMove DEF Deletes, Typed
<1>5. ASSUME NEW h \in Handlers, Saves(h)
      PROVE  Typed'
  BY <1>5, HandlersMove DEF Saves, Typed
<1>6. ASSUME NEW h \in Handlers, Sets(h)
      PROVE  Typed'
  <2>1. Url(h) \in Nat
    BY DEF Url, Typed, Locals
  <2>2. logo' \in [Slots -> Nat] /\ mishaps' \in Nat
    BY <1>6, <2>1 DEF Sets, Typed
  <2> QED  BY <1>6, <2>2, HandlersMove DEF Sets, Typed
<1>7. ASSUME NEW h \in Handlers, Drops(h)
      PROVE  Typed'
  <2>1. department' \in [Departments -> {"none", "present", "deleted"}]
    BY <1>7 DEF Drops, delete_department, Typed
  <2>2. logo' \in [Slots -> Nat]
    BY <1>7 DEF Drops, delete_department, Typed
  <2>3. mishaps' \in Nat
    BY <1>7 DEF Drops, delete_department, Typed
  <2> QED  BY <1>7, <2>1, <2>2, <2>3, HandlersMove DEF Drops, delete_department, Typed
<1>8. ASSUME NEW h \in Handlers, Edits(h)
      PROVE  Typed'
  <2> DEFINE u == handler[h].target
             off == [users[u] EXCEPT !.is_active = FALSE]
  <2>1. u \in Users /\ (handler[h].kind # "deactivate_user" => handler[h].patch \in User)
    BY <1>8 DEF Edits, edit_user, Shape, ShapeOf, UserPcs
  <2>2. users[u] # None => off \in User
    <3> SUFFICES ASSUME users[u] # None PROVE off \in User
      OBVIOUS
    <3>1. users[u] \in User
      BY <2>1 DEF Typed
    <3> QED  BY <3>1 DEF User
  <2>3. handler[h].kind \in {"create_user", "update_user", "deactivate_user"}
    BY <1>8 DEF Edits, edit_user, Shape, ShapeOf, UserPcs, UserKinds
  <2>5. users' \in [Users -> User \cup {None}]
    <3>1. CASE handler[h].kind = "deactivate_user"
      <4>1. \/ users' = users
            \/ users[u] # None /\ users' = [users EXCEPT ![u] = off]
        BY <1>8, <3>1 DEF Edits, edit_user, Edited
      <4> HIDE DEF off
      <4> QED  BY <2>1, <2>2, <4>1 DEF Typed
    <3>2. CASE handler[h].kind # "deactivate_user"
      <4>1. users' = users \/ users' = [users EXCEPT ![u] = handler[h].patch]
        BY <1>8, <2>3, <3>2 DEF Edits, edit_user, Edited
      <4> QED  BY <2>1, <3>2, <4>1 DEF Typed
    <3> QED  BY <3>1, <3>2
  <2>6. tangled' \in BOOLEAN
    BY <1>8 DEF Edits, edit_user
  <2> QED  BY <1>8, <2>5, <2>6, HandlersMove DEF Edits, edit_user, logos, Typed
<1>9. ASSUME NEW h \in Handlers, Fails(h)
      PROVE  Typed'
  <2>1. files' \subseteq 1..written' /\ written' \in Nat
    <3>1. \/ written' = written + 1 /\ files' = files \cup {written + 1}
          \/ written' = written /\ files' = files
      BY <1>9 DEF Fails, Fail
    <3>2. CASE written' = written + 1 /\ files' = files \cup {written + 1}
      BY <3>2 DEF Typed
    <3>3. CASE written' = written /\ files' = files
      BY <3>3 DEF Typed
    <3> QED  BY <3>1, <3>2, <3>3
  <2>2. mishaps' \in Nat
    BY <1>9 DEF Fails, Fail, Typed
  <2> QED  BY <1>9, <2>1, <2>2, HandlersMove DEF Fails, Fail, Typed
<1>10. ASSUME NEW d \in Departments, create_department(d)
       PROVE  Typed'
  BY <1>10 DEF create_department, Typed
<1>11. CASE Restart
  <2>1. Cardinality(Lost) \in Nat
    <3>1. IsFiniteSet(Lost)
      BY AdministrationAssumption, FS_Subset DEF Lost
    <3> QED  BY <3>1, FS_CardinalityType
  <2>2. users' \in [Users -> User \cup {None}]
    <3>1. Account("admin") \in User
      BY DEF Account, User, Roles
    <3> QED  BY <1>11, <3>1, AdministrationAssumption DEF Restart, bootstrap_admin, Typed
  <2> QED  BY <1>11, <2>1, <2>2, IdleTyped DEF Restart, Typed
<1> QED
  BY <1>1, <1>2, <1>3, <1>4, <1>5, <1>6, <1>7, <1>8, <1>9, <1>10, <1>11, Steps

LEMMA ShapeStep ==
  ASSUME Typed, Shape, [Next]_vars
  PROVE  Shape'
<1>0. /\ \A h \in Handlers : ShapeOf(h)
      /\ \A g \in Handlers : handler'[g] = handler[g] => ShapeOf(g)'
  BY DEF Shape, ShapeOf
<1>1. ASSUME NEW h \in Handlers, Begins(h)
      PROVE  Shape'
  <2>1. ASSUME NEW g \in Handlers \ {h}
        PROVE  ShapeOf(g)'
    <3>1. CASE ~Running(g)
      BY <1>0, <1>1, <3>1 DEF Begins, Starts
    <3>2. CASE Running(g)
      <4>1. /\ handler'[g].pc = handler[g].pc /\ handler'[g].kind = handler[g].kind
            /\ handler'[g].target = handler[g].target /\ handler'[g].patch = handler[g].patch
            /\ handler'[g].previous = handler[g].previous /\ handler'[g].file = handler[g].file
        BY <1>1 DEF Begins, Starts
      <4> QED  BY <1>0, <3>2, <4>1 DEF ShapeOf, Running
    <3> QED  BY <3>1, <3>2
  <2>2. ShapeOf(h)'
    BY <1>1, AdministrationAssumption
       DEF Begins, Starts, ShapeOf, UserPcs, Replacing, UserKinds, Slots
  <2> QED  BY <2>1, <2>2 DEF Shape
<1>2. ASSUME NEW h \in Handlers, Ends(h)
      PROVE  Shape'
  <2>1. ShapeOf(h)'
    BY <1>2, IdleTyped DEF Ends, ShapeOf, Replacing, UserPcs
  <2> QED  BY <1>0, <1>2, <2>1 DEF Ends, Shape
<1>3. ASSUME NEW h \in Handlers, Turns(h) \/ Reads(h) \/ Deletes(h) \/ Saves(h)
      PROVE  Shape'
  <2>1. ShapeOf(h)
    BY <1>0
  <2>2. ShapeOf(h)'
    BY <1>3, <2>1 DEF Turns, Reads, Deletes, Saves, Moves, ShapeOf, Replacing, UserPcs
  <2> QED  BY <1>0, <1>3, <2>2, HandlersMove DEF Shape
<1>4. CASE UNCHANGED handler
  BY <1>0, <1>4 DEF Shape
<1>5. CASE Restart
  BY <1>5, IdleTyped DEF Restart, Shape, ShapeOf, Replacing, UserPcs
<1> QED
  <2>1. ASSUME NEW h \in Handlers, Quits(h) \/ Sets(h) \/ Drops(h) \/ Edits(h) \/ Fails(h)
        PROVE  Ends(h)
    BY <2>1 DEF Quits, Sets, Drops, Edits, Fails
  <2> QED  BY <1>1, <1>2, <1>3, <1>4, <1>5, <2>1, Steps DEF create_department

LEMMA AloneStep ==
  ASSUME Typed, Shape, Alone, [Next]_vars
  PROVE  Alone'
<1>1. ASSUME NEW h \in Handlers, NEW pc, NEW kind, NEW actor, NEW target, NEW patch,
             Starts(h, pc, kind, actor, target, patch)
      PROVE  Alone'
  <2> SUFFICES ASSUME NEW f \in Handlers, NEW g \in Handlers, f # g,
                      handler'[f].pc # "idle", handler'[g].pc # "idle", handler'[f].alone
               PROVE  /\ handler'[f].target # handler'[g].target
                      /\ ~(handler'[f].kind \in UserKinds /\ handler'[g].kind \in UserKinds)
    BY DEF Alone, Running
  <2>1. CASE f = h
    <3>1. /\ handler'[h].target = target /\ handler'[h].kind = kind
          /\ ~Interferes(g, kind, target)
          /\ handler'[g].pc = handler[g].pc /\ handler'[g].kind = handler[g].kind
          /\ handler'[g].target = handler[g].target
      BY <1>1, <2>1 DEF Starts
    <3> QED  BY <2>1, <3>1 DEF Interferes, Running
  <2>2. CASE g = h
    <3>1. /\ handler'[h].target = target /\ handler'[h].kind = kind
          /\ ~Interferes(f, kind, target)
          /\ handler'[f].pc = handler[f].pc /\ handler'[f].kind = handler[f].kind
          /\ handler'[f].target = handler[f].target
      BY <1>1, <2>2 DEF Starts
    <3> QED  BY <2>2, <3>1 DEF Interferes, Running
  <2>3. CASE f # h /\ g # h
    <3>1. /\ handler'[f].pc = handler[f].pc /\ handler'[f].kind = handler[f].kind
          /\ handler'[f].target = handler[f].target /\ handler[f].alone
          /\ handler'[g].pc = handler[g].pc /\ handler'[g].kind = handler[g].kind
          /\ handler'[g].target = handler[g].target
      BY <1>1, <2>3 DEF Starts
    <3> QED  BY <3>1 DEF Alone, Running
  <2> QED  BY <2>1, <2>2, <2>3
<1>2. ASSUME NEW h \in Handlers, Begins(h)
      PROVE  Alone'
  BY <1>1, <1>2 DEF Begins
<1>3. ASSUME NEW h \in Handlers, NEW p, NEW previous, NEW file, Moves(h, p, previous, file),
             handler[h].pc # "idle"
      PROVE  Alone'
  BY <1>3 DEF Moves, Alone, Running
<1>4. ASSUME NEW h \in Handlers, Ends(h)
      PROVE  Alone'
  BY <1>4, IdleTyped DEF Ends, Alone, Running
<1>5. CASE UNCHANGED handler
  BY <1>5 DEF Alone, Running
<1>6. CASE Restart
  BY <1>6, IdleTyped DEF Restart, Alone, Running
<1> QED
  <2>1. ASSUME NEW h \in Handlers, Quits(h) \/ Sets(h) \/ Drops(h) \/ Edits(h) \/ Fails(h)
        PROVE  Ends(h)
    BY <2>1 DEF Quits, Sets, Drops, Edits, Fails
  <2>2. ASSUME NEW h \in Handlers, Turns(h) \/ Reads(h) \/ Deletes(h) \/ Saves(h)
        PROVE  Alone'
    BY <1>3, <2>2 DEF Turns, Reads, Deletes, Saves, UserPcs
  <2> QED  BY <1>2, <1>4, <1>5, <1>6, <2>1, <2>2, Steps DEF create_department


\* A step that names no new file and forgets none leaves the owners as they were.
LEMMA OwnersStay ==
  ASSUME Typed, Owned, written' \in Nat, written <= written', logo' = logo, files \subseteq files',
         \A s \in Present : s \in Present',
         \A g \in Handlers :
           /\ handler'[g].file \in {0, handler[g].file}
           /\ handler'[g].previous \in {0, handler[g].previous}
           /\ handler'[g].previous # 0 => handler'[g].target = handler[g].target
  PROVE  Owned'
<1>0. /\ \A s \in Slots : logo[s] \in Nat
      /\ \A g \in Handlers : handler[g].file \in Nat /\ handler[g].previous \in Nat
      /\ written \in Nat
  BY DEF Typed, Locals
<1>1. \A s \in Slots : logo'[s] <= written' /\ (s \notin Present' => logo'[s] = 0)
  BY <1>0 DEF Owned
<1>2. \A s, t \in Slots : logo'[s] = logo'[t] /\ logo'[s] # 0 => s = t
  BY DEF Owned
<1>3. ASSUME NEW h \in Handlers
      PROVE  /\ handler'[h].file <= written' /\ handler'[h].previous <= written'
             /\ handler'[h].previous # 0 =>
                  \A s \in Slots : logo'[s] = handler'[h].previous => s = handler'[h].target
             /\ handler'[h].file # 0 =>
                  /\ handler'[h].file \in files'
                  /\ \A s \in Slots : logo'[s] # handler'[h].file
                  /\ \A g \in Handlers :
                       /\ handler'[g].previous # handler'[h].file
                       /\ g # h => handler'[g].file # handler'[h].file
  <2>1. handler'[h].file <= written' /\ handler'[h].previous <= written'
    BY <1>0 DEF Owned
  <2>2. handler'[h].previous # 0 =>
          \A s \in Slots : logo'[s] = handler'[h].previous => s = handler'[h].target
    BY DEF Owned
  <2>3. ASSUME handler'[h].file # 0
        PROVE  /\ handler'[h].file \in files'
               /\ \A s \in Slots : logo'[s] # handler'[h].file
               /\ \A g \in Handlers :
                    /\ handler'[g].previous # handler'[h].file
                    /\ g # h => handler'[g].file # handler'[h].file
    <3>1. handler'[h].file = handler[h].file /\ handler[h].file # 0
      BY <2>3
    <3> QED  BY <2>3, <3>1 DEF Owned
  <2> QED  BY <2>1, <2>2, <2>3
<1> QED  BY <1>1, <1>2, <1>3 DEF Owned

\* A slot is given the file of the request that ends, or none.
LEMMA OwnerSucceeds ==
  ASSUME Typed, Owned, NEW h \in Handlers, NEW t \in Slots, NEW n \in {0, handler[h].file},
         logo' = [logo EXCEPT ![t] = n], t \notin Present' => n = 0,
         Present' = Present \/ Present' = Present \ {t},
         Ends(h), files' = files, written' = written
  PROVE  Owned'
<1>0. /\ \A s \in Slots : logo[s] \in Nat
      /\ \A g \in Handlers : handler[g].file \in Nat /\ handler[g].previous \in Nat
      /\ written \in Nat /\ n \in Nat /\ n <= written
      /\ \A s \in Slots : logo'[s] = IF s = t THEN n ELSE logo[s]
      /\ \A g \in Handlers \ {h} : handler'[g] = handler[g]
      /\ handler'[h].file = 0 /\ handler'[h].previous = 0
  BY IdleTyped DEF Typed, Locals, Owned, Ends
<1>1. \A s \in Slots : logo'[s] <= written' /\ (s \notin Present' => logo'[s] = 0)
  BY <1>0 DEF Owned
<1>2. \A r, s \in Slots : logo'[r] = logo'[s] /\ logo'[r] # 0 => r = s
  BY <1>0 DEF Owned
<1>3. ASSUME NEW f \in Handlers
      PROVE  /\ handler'[f].file <= written' /\ handler'[f].previous <= written'
             /\ handler'[f].previous # 0 =>
                  \A s \in Slots : logo'[s] = handler'[f].previous => s = handler'[f].target
             /\ handler'[f].file # 0 =>
                  /\ handler'[f].file \in files'
                  /\ \A s \in Slots : logo'[s] # handler'[f].file
                  /\ \A g \in Handlers :
                       /\ handler'[g].previous # handler'[f].file
                       /\ g # f => handler'[g].file # handler'[f].file
  <2>1. CASE f = h
    BY <1>0, <2>1
  <2>2. CASE f # h
    <3>1. handler'[f].file <= written' /\ handler'[f].previous <= written'
      BY <1>0, <2>2 DEF Owned
    <3>2. handler[f].previous # 0 /\ n # 0 => n # handler[f].previous
      BY <1>0 DEF Owned
    <3>3. handler[f].file # 0 => n # handler[f].file
      BY <1>0, <2>2 DEF Owned
    <3>4. handler'[f].previous # 0 =>
            \A s \in Slots : logo'[s] = handler'[f].previous => s = handler'[f].target
      BY <1>0, <2>2, <3>2 DEF Owned
    <3>5. handler'[f].file # 0 =>
            /\ handler'[f].file \in files'
            /\ \A s \in Slots : logo'[s] # handler'[f].file
            /\ \A g \in Handlers :
                 /\ handler'[g].previous # handler'[f].file
                 /\ g # f => handler'[g].file # handler'[f].file
      BY <1>0, <2>2, <3>3 DEF Owned
    <3> QED  BY <3>1, <3>4, <3>5
  <2> QED  BY <2>1, <2>2
<1> QED  BY <1>1, <1>2, <1>3 DEF Owned


LEMMA OwnedStep ==
  ASSUME Typed, Shape, Owned, [Next]_vars
  PROVE  Owned'
<1>0. /\ \A s \in Slots : logo[s] \in Nat /\ logo[s] <= written
      /\ \A g \in Handlers : handler[g].file \in Nat /\ handler[g].previous \in Nat
      /\ \A g \in Handlers : handler[g].file <= written /\ handler[g].previous <= written
      /\ written \in Nat /\ files \subseteq 1..written
  BY DEF Typed, Locals, Owned
<1>1. CASE UNCHANGED <<world, handler>>
  BY <1>1 DEF world, Owned, Present
<1>2. ASSUME NEW h \in Handlers, Begins(h)
      PROVE  Owned'
  <2>1. \A g \in Handlers :
          /\ handler'[g].file \in {0, handler[g].file}
          /\ handler'[g].previous \in {0, handler[g].previous}
          /\ handler'[g].previous # 0 => handler'[g].target = handler[g].target
    BY <1>2 DEF Begins, Starts
  <2>2. UNCHANGED <<department, logo, files, written>>
    BY <1>2 DEF Begins, world
  <2> QED  BY <1>0, <2>1, <2>2, OwnersStay DEF Present
<1>3. ASSUME NEW h \in Handlers, Turns(h) \/ Quits(h) \/ Edits(h) \/ Fails(h)
      PROVE  Owned'
  <2>1. \A g \in Handlers :
          /\ handler'[g].file \in {0, handler[g].file}
          /\ handler'[g].previous \in {0, handler[g].previous}
          /\ handler'[g].previous # 0 => handler'[g].target = handler[g].target
    <3>1. Ends(h) \/ \E p \in UserPcs : Moves(h, p, handler[h].previous, handler[h].file)
      BY <1>3 DEF Turns, Quits, Edits, Fails
    <3> QED  BY <3>1, IdleTyped DEF Ends, Moves
  <2>2. UNCHANGED <<department, logo>>
    BY <1>3 DEF Turns, Quits, Edits, Fails, edit_user, Fail, world, logos
  <2>3. written' \in {written, written + 1} /\ files \subseteq files'
    BY <1>3 DEF Turns, Quits, Edits, Fails, edit_user, Fail, world, logos
  <2>4. written' \in Nat /\ written <= written'
    BY <1>0, <2>3
  <2> QED  BY <2>1, <2>2, <2>3, <2>4, OwnersStay DEF Present
<1>4. ASSUME NEW h \in Handlers, Reads(h)
      PROVE  Owned'
  <2> DEFINE t == handler[h].target
  <2>1. /\ t \in Slots /\ handler[h].file = 0
        /\ handler'[h].file = 0 /\ handler'[h].previous = logo[t] /\ handler'[h].target = t
        /\ \A g \in Handlers \ {h} : handler'[g] = handler[g]
        /\ UNCHANGED <<department, logo, files, written>>
    BY <1>4 DEF Reads, Moves, Shape, ShapeOf, world
  <2>2. ASSUME NEW f \in Handlers, handler'[f].file # 0
        PROVE  /\ handler'[f].file \in files'
               /\ \A s \in Slots : logo'[s] # handler'[f].file
               /\ \A g \in Handlers :
                    /\ handler'[g].previous # handler'[f].file
                    /\ g # f => handler'[g].file # handler'[f].file
    BY <2>1, <2>2 DEF Owned
  <2> QED  BY <1>0, <2>1, <2>2 DEF Owned, Present
<1>5. ASSUME NEW h \in Handlers, Deletes(h)
      PROVE  Owned'
  <2>1. /\ \A g \in Handlers :
             /\ handler'[g].file = handler[g].file /\ handler'[g].previous = handler[g].previous
             /\ handler'[g].target = handler[g].target
        /\ UNCHANGED <<department, logo, written>>
        /\ files \ {handler[h].previous} \subseteq files'
    BY <1>5 DEF Deletes, Moves
  <2>2. \A f \in Handlers : handler[f].file # 0 => handler[f].file \in files'
    BY <2>1 DEF Owned
  <2> QED  BY <2>1, <2>2 DEF Owned, Present
<1>6. ASSUME NEW h \in Handlers, Saves(h)
      PROVE  Owned'
  <2>1. /\ handler'[h].file = written + 1 /\ handler'[h].previous = handler[h].previous
        /\ handler'[h].target = handler[h].target
        /\ \A g \in Handlers \ {h} : handler'[g] = handler[g]
        /\ written' = written + 1 /\ files' = files \cup {written + 1}
        /\ UNCHANGED <<department, logo>>
    BY <1>6 DEF Saves, Moves
  <2>2. ASSUME NEW f \in Handlers, handler'[f].file # 0
        PROVE  /\ handler'[f].file \in files'
               /\ \A s \in Slots : logo'[s] # handler'[f].file
               /\ \A g \in Handlers :
                    /\ handler'[g].previous # handler'[f].file
                    /\ g # f => handler'[g].file # handler'[f].file
    <3>1. CASE f = h
      BY <1>0, <2>1, <3>1
    <3>2. CASE f # h
      <4>1. handler'[f].file = handler[f].file /\ handler[f].file # written + 1
        BY <1>0, <2>1, <3>2
      <4> QED  BY <2>1, <2>2, <3>2, <4>1 DEF Owned
    <3> QED  BY <3>1, <3>2
  <2>3. \A s \in Slots : logo'[s] <= written' /\ (s \notin Present' => logo'[s] = 0)
    BY <1>0, <2>1 DEF Owned, Present
  <2>4. ASSUME NEW f \in Handlers
        PROVE  /\ handler'[f].file <= written' /\ handler'[f].previous <= written'
               /\ handler'[f].previous # 0 =>
                    \A s \in Slots : logo'[s] = handler'[f].previous => s = handler'[f].target
    <3>1. handler'[f].previous = handler[f].previous /\ handler'[f].target = handler[f].target
      BY <2>1
    <3>2. handler'[f].file \in {handler[f].file, written + 1}
      BY <2>1
    <3>3. handler'[f].file <= written' /\ handler'[f].previous <= written'
      BY <1>0, <2>1, <3>1, <3>2
    <3> QED  BY <2>1, <3>1, <3>3 DEF Owned
  <2> QED  BY <2>1, <2>2, <2>3, <2>4 DEF Owned
<1>7. ASSUME NEW h \in Handlers, Sets(h)
      PROVE  Owned'
  <2> DEFINE t == handler[h].target
  <2>1. /\ t \in Slots /\ Ends(h) /\ UNCHANGED <<department, files, written>>
        /\ Present' = Present /\ Url(h) \in {0, handler[h].file}
    BY <1>7 DEF Sets, Shape, ShapeOf, Replacing, Present, Url
  <2>2. CASE t \in Present /\ logo' = [logo EXCEPT ![t] = Url(h)]
    BY <2>1, <2>2, OwnerSucceeds
  <2>3. CASE UNCHANGED logo
    <3>1. \A g \in Handlers :
            /\ handler'[g].file \in {0, handler[g].file}
            /\ handler'[g].previous \in {0, handler[g].previous}
            /\ handler'[g].previous # 0 => handler'[g].target = handler[g].target
      BY <2>1, IdleTyped DEF Ends
    <3> QED  BY <1>0, <2>1, <2>3, <3>1, OwnersStay
  <2> QED  BY <1>7, <2>2, <2>3 DEF Sets
<1>8. ASSUME NEW h \in Handlers, Drops(h)
      PROVE  Owned'
  <2> DEFINE d == handler[h].target
  <2>1. /\ d \in Departments /\ d \in Slots /\ d # Org /\ Ends(h)
        /\ logo' = [logo EXCEPT ![d] = 0] /\ UNCHANGED <<files, written>>
        /\ department' = [department EXCEPT ![d] = IF @ = "present" THEN "deleted" ELSE @]
    BY <1>8, AdministrationAssumption DEF Drops, delete_department, Shape, ShapeOf, Slots
  <2>2. Present' = Present \ {d}
    <3>1. \A e \in Departments : department'[e] = "present" <=> department[e] = "present" /\ e # d
      BY <2>1 DEF Typed
    <3> QED  BY <2>1, <3>1 DEF Present
  <2> QED  BY <2>1, <2>2, OwnerSucceeds
<1>9. ASSUME NEW d \in Departments, create_department(d)
      PROVE  Owned'
  <2>1. \A s \in Present : s \in Present'
    BY <1>9 DEF create_department, Present, Typed
  <2> QED  BY <1>0, <1>9, <2>1, OwnersStay DEF create_department
<1>10. CASE Restart
  BY <1>0, <1>10, OwnersStay, IdleTyped DEF Restart, Present
<1> QED
  BY <1>1, <1>2, <1>3, <1>4, <1>5, <1>6, <1>7, <1>8, <1>9, <1>10, Steps


\* Where a delete_logo has not begun the row still names its file.
LEMMA ServedStep ==
  ASSUME Typed, Shape, Owned, Served, [Next]_vars
  PROVE  Served'
<1> DEFINE Free(s) == \A h \in Handlers : handler[h].pc \in {"write", "row"} => handler[h].target # s
<1>0. /\ \A s \in settled \cap Present : Free(s) => logo[s] \in files \cup {0}
      /\ 0 \notin files
  BY DEF Served, Typed
<1> SUFFICES ASSUME NEW s \in settled', s \in Present',
                    \A h \in Handlers :
                      handler'[h].pc \in {"write", "row"} => handler'[h].target # s
             PROVE  logo'[s] \in files' \cup {0}
  BY DEF Served
<1>1. CASE UNCHANGED <<world, handler>>
  BY <1>0, <1>1 DEF world, Present
<1>2. ASSUME NEW h \in Handlers, Begins(h)
      PROVE  logo'[s] \in files' \cup {0}
  <2>1. \A g \in Handlers \ {h} :
          handler'[g].pc = handler[g].pc /\ handler'[g].target = handler[g].target
    BY <1>2 DEF Begins, Starts
  <2>2. handler[h].pc = "idle"
    BY <1>2 DEF Begins, Starts, Running
  <2>3. Free(s)
    BY <2>1, <2>2
  <2> QED  BY <1>0, <1>2, <2>3 DEF Begins, world, Present
<1>3. ASSUME NEW h \in Handlers, Turns(h) \/ Quits(h) \/ Reads(h) \/ Edits(h)
      PROVE  logo'[s] \in files' \cup {0}
  <2>1. handler[h].pc \notin {"write", "row"} /\ UNCHANGED <<logo, files, settled, department>>
    BY <1>3 DEF Turns, Quits, Reads, Edits, edit_user, world, logos, UserPcs
  <2>2. Free(s)
    BY <1>3, <2>1, HandlersMove
  <2> QED  BY <1>0, <2>1, <2>2 DEF Present
<1>4. ASSUME NEW h \in Handlers, Deletes(h)
      PROVE  logo'[s] \in files' \cup {0}
  <2>1. /\ handler[h].pc = "delete" /\ handler'[h].pc \in {"write", "row"}
        /\ handler'[h].target = handler[h].target
        /\ files \ {handler[h].previous} \subseteq files'
        /\ UNCHANGED <<logo, settled, department>>
    BY <1>4 DEF Deletes, Moves
  <2>2. Free(s) /\ s # handler[h].target
    BY <1>4, <2>1, HandlersMove
  <2>3. logo[s] \in files \cup {0} /\ s \in Slots
    BY <1>0, <2>1, <2>2 DEF Present, Slots
  <2>4. logo[s] # 0 => logo[s] # handler[h].previous
    BY <2>2, <2>3 DEF Owned
  <2> QED  BY <2>1, <2>3, <2>4
<1>5. ASSUME NEW h \in Handlers, Saves(h)
      PROVE  logo'[s] \in files' \cup {0}
  <2>1. /\ handler[h].pc = "write" /\ handler'[h].pc = "row"
        /\ handler'[h].target = handler[h].target
        /\ files \subseteq files' /\ UNCHANGED <<logo, settled, department>>
    BY <1>5 DEF Saves, Moves
  <2>2. Free(s)
    BY <1>5, <2>1, HandlersMove
  <2> QED  BY <1>0, <2>1, <2>2 DEF Present
<1>6. ASSUME NEW h \in Handlers, Sets(h)
      PROVE  logo'[s] \in files' \cup {0}
  <2> DEFINE t == handler[h].target
  <2>1. /\ settled' = settled \cup {t} /\ UNCHANGED <<department, files>> /\ Present' = Present
        /\ \A g \in Handlers \ {h} : handler'[g] = handler[g]
        /\ s \in Slots
    BY <1>6, HandlersMove DEF Sets, Present, Slots
  <2>2. CASE s = t
    <3>1. logo'[s] = Url(h)
      BY <1>6, <2>1, <2>2 DEF Sets, Typed
    <3>2. Url(h) # 0 => Url(h) \in files
      BY DEF Url, Owned
    <3> QED  BY <2>1, <3>1, <3>2
  <2>3. CASE s # t
    <3>1. logo'[s] = logo[s]
      BY <1>6, <2>1, <2>3 DEF Sets, Typed
    <3>2. Free(s)
      BY <2>1, <2>3
    <3> QED  BY <1>0, <2>1, <2>3, <3>1, <3>2
  <2> QED  BY <2>2, <2>3
<1>7. ASSUME NEW h \in Handlers, Drops(h)
      PROVE  logo'[s] \in files' \cup {0}
  <2> DEFINE d == handler[h].target
  <2>1. /\ handler[h].pc = "delete_row" /\ UNCHANGED <<files, settled>>
        /\ logo' = [logo EXCEPT ![d] = 0] /\ d \in Slots
        /\ department' = [department EXCEPT ![d] = IF @ = "present" THEN "deleted" ELSE @]
    BY <1>7 DEF Drops, delete_department, Shape, ShapeOf, Slots
  <2>2. CASE s = d
    BY <2>1, <2>2 DEF Typed
  <2>3. CASE s # d
    <3>1. logo'[s] = logo[s] /\ s \in Present
      BY <2>1, <2>3 DEF Present, Slots, Typed
    <3>2. Free(s)
      BY <1>7, <2>1, HandlersMove
    <3> QED  BY <1>0, <2>1, <3>1, <3>2
  <2> QED  BY <2>2, <2>3
<1>8. ASSUME NEW h \in Handlers, Fails(h)
      PROVE  logo'[s] \in files' \cup {0}
  <2>1. /\ settled' = settled \ {handler[h].target} /\ files \subseteq files'
        /\ UNCHANGED <<logo, department>>
    BY <1>8 DEF Fails, Fail
  <2>2. Free(s)
    BY <1>8, <2>1, HandlersMove
  <2> QED  BY <1>0, <2>1, <2>2 DEF Present
<1>9. ASSUME NEW d \in Departments, create_department(d)
      PROVE  logo'[s] \in files' \cup {0}
  <2>1. UNCHANGED <<logo, files, settled, handler>> /\ s \in Slots
    BY <1>9 DEF create_department, Present, Slots
  <2>2. CASE s \in Present
    <3>1. Free(s)
      BY <2>1
    <3> QED  BY <1>0, <2>1, <2>2, <3>1
  <2>3. CASE s \notin Present
    BY <2>1, <2>3 DEF Owned
  <2> QED  BY <2>2, <2>3
<1>10. CASE Restart
  <2>1. /\ settled' = settled \ {handler[h].target : h \in Lost}
        /\ UNCHANGED <<logo, files, department>>
    BY <1>10 DEF Restart
  <2>2. ASSUME NEW h \in Handlers, handler[h].pc \in {"write", "row"}
        PROVE  h \in Lost
    BY <2>2 DEF Lost, Running, Shape, ShapeOf, Replacing, LogoKinds
  <2>3. Free(s)
    BY <2>1, <2>2
  <2> QED  BY <1>0, <2>1, <2>3 DEF Present
<1> QED
  BY <1>1, <1>2, <1>3, <1>4, <1>5, <1>6, <1>7, <1>8, <1>9, <1>10, Steps

LEMMA KnownStep ==
  ASSUME Typed, Shape, Owned, Alone, Known, [Next]_vars
  PROVE  Known'
<1>0. /\ \A g \in Handlers : KnownLogo(g)
      /\ \A g \in Handlers : handler[g].previous \in Nat /\ handler[g].previous <= written
      /\ written \in Nat
  BY DEF Known, Owned, Typed, Locals
<1>1. CASE UNCHANGED <<world, handler>>
  BY <1>1 DEF world, Known, KnownLogo, Present
<1>2. ASSUME NEW h \in Handlers, Begins(h)
      PROVE  Known'
  <2>1. /\ handler'[h].pc \notin Replacing
        /\ \A g \in Handlers \ {h} :
             /\ handler'[g].pc = handler[g].pc /\ handler'[g].target = handler[g].target
             /\ handler'[g].previous = handler[g].previous /\ handler'[g].whole = handler[g].whole
             /\ handler'[g].alone => handler[g].alone
        /\ UNCHANGED <<logo, files, department>>
    BY <1>2 DEF Begins, Starts, Replacing, UserPcs, world
  <2> QED  BY <1>0, <2>1 DEF Known, KnownLogo, Present
<1>3. ASSUME NEW h \in Handlers, handler'[h].pc \notin Replacing,
             \A g \in Handlers \ {h} : handler'[g] = handler[g],
             UNCHANGED <<logo, department>>,
             files' \subseteq files \cup {written + 1}
      PROVE  Known'
  <2>1. ASSUME NEW g \in Handlers \ {h}, handler[g].previous \notin files
        PROVE  handler[g].previous \notin files'
    <3>1. handler[g].previous # written + 1
      BY <1>0
    <3> QED  BY <1>3, <2>1, <3>1
  <2> QED  BY <1>0, <1>3, <2>1 DEF Known, KnownLogo, Present
<1>4. ASSUME NEW h \in Handlers, Turns(h) \/ Quits(h) \/ Edits(h) \/ Fails(h)
      PROVE  Known'
  <2>1. handler'[h].pc \notin Replacing
    BY <1>4, IdleTyped DEF Turns, Quits, Edits, Fails, Moves, Ends, Replacing, UserPcs
  <2>2. UNCHANGED <<logo, department>> /\ files' \subseteq files \cup {written + 1}
    BY <1>4 DEF Turns, Quits, Edits, Fails, edit_user, Fail, world, logos
  <2> QED  BY <1>3, <1>4, <2>1, <2>2, HandlersMove
<1>5. ASSUME NEW h \in Handlers, Reads(h)
      PROVE  Known'
  BY <1>0, <1>5 DEF Reads, Moves, world, Known, KnownLogo, Present
<1>6. ASSUME NEW h \in Handlers, Deletes(h)
      PROVE  Known'
  <2>1. /\ handler[h].pc = "delete" /\ handler'[h].previous = handler[h].previous
        /\ handler'[h].target = handler[h].target /\ handler'[h].alone = handler[h].alone
        /\ UNCHANGED <<logo, department>> /\ files' \subseteq files
        /\ handler'[h].whole => handler[h].previous \notin files'
    BY <1>6 DEF Deletes, Moves
  <2> QED  BY <1>0, <1>6, <2>1, HandlersMove DEF Known, KnownLogo, Present, Replacing
<1>7. ASSUME NEW h \in Handlers, Saves(h)
      PROVE  Known'
  <2>1. /\ handler[h].pc = "write" /\ handler'[h].previous = handler[h].previous
        /\ handler'[h].target = handler[h].target /\ handler'[h].alone = handler[h].alone
        /\ handler'[h].whole = handler[h].whole
        /\ UNCHANGED <<logo, department>> /\ files' = files \cup {written + 1}
    BY <1>7 DEF Saves, Moves
  <2>2. \A g \in Handlers : handler[g].previous \notin files => handler[g].previous \notin files'
    BY <1>0, <2>1
  <2> QED  BY <1>0, <1>7, <2>1, <2>2, HandlersMove DEF Known, KnownLogo, Present, Replacing
<1>8. ASSUME NEW h \in Handlers, Sets(h) \/ Drops(h)
      PROVE  Known'
  <2> DEFINE t == handler[h].target
  <2>1. /\ handler'[h].pc = "idle" /\ files' = files /\ Running(h) /\ t \in Slots
    BY <1>8, IdleTyped
       DEF Sets, Drops, delete_department, Ends, Running, Shape, ShapeOf, Replacing, Slots
  <2>2. \A s \in Slots \ {t} : logo'[s] = logo[s] /\ (s \in Present => s \in Present')
    BY <1>8, <2>1 DEF Sets, Drops, delete_department, Present, Typed
  <2>3. ASSUME NEW g \in Handlers \ {h}
        PROVE  KnownLogo(g)'
    <3>1. handler'[g] = handler[g]
      BY <1>8, HandlersMove
    <3>2. handler[g].alone /\ handler[g].pc \in Replacing =>
            handler[g].target \in Slots \ {t}
      BY <2>1, <2>3 DEF Alone, Running, Replacing, Shape, ShapeOf
    <3> QED  BY <1>0, <2>1, <2>2, <3>1, <3>2 DEF KnownLogo
  <2>4. KnownLogo(h)'
    BY <2>1 DEF KnownLogo, Replacing
  <2> QED  BY <2>3, <2>4 DEF Known
<1>9. ASSUME NEW d \in Departments, create_department(d)
      PROVE  Known'
  <2>1. \A s \in Present : s \in Present'
    BY <1>9 DEF create_department, Present, Typed
  <2> QED  BY <1>0, <1>9, <2>1 DEF create_department, Known, KnownLogo
<1>10. CASE Restart
  BY <1>10, IdleTyped DEF Restart, Known, KnownLogo, Replacing
<1> QED
  BY <1>1, <1>2, <1>4, <1>5, <1>6, <1>7, <1>8, <1>9, <1>10, Steps


\* Nobody who is an admin stops being one.
KeepsAdmins == \A u \in Users : IsAdmin(u) => IsAdmin(u)'

LEMMA AdminsStay ==
  ASSUME Admins, KeepsAdmins, tangled' = tangled,
         \A g \in Handlers :
           handler'[g].alone /\ handler'[g].pc # "idle" =>
             /\ handler[g].alone /\ Running(g) /\ handler'[g].kind = handler[g].kind
             /\ handler'[g].actor = handler[g].actor /\ handler'[g].target = handler[g].target
  PROVE  Admins'
BY DEF Admins, KeepsAdmins, KnownAdmin, Running

LEMMA AdminsStep ==
  ASSUME Typed, Shape, Alone, Admins, [Next]_vars
  PROVE  Admins'
<1>0. UNCHANGED users => KeepsAdmins
  BY DEF KeepsAdmins, IsAdmin
<1>1. CASE UNCHANGED <<world, handler>>
  BY <1>0, <1>1, AdminsStay DEF world, Running
<1>2. ASSUME NEW h \in Handlers, Begins(h)
      PROVE  Admins'
  <2> SUFFICES ASSUME ~tangled PROVE (\E u \in Users : IsAdmin(u))' /\ \A g \in Handlers : KnownAdmin(g)'
    BY <1>2 DEF Admins, Begins, world
  <2>1. /\ \A u \in Users : IsAdmin(u)' <=> IsAdmin(u)
        /\ \E u \in Users : IsAdmin(u)
    BY <1>2 DEF Begins, world, IsAdmin, Admins
  <2>2. ASSUME NEW g \in Handlers \ {h}
        PROVE  KnownAdmin(g)'
    <3>1. /\ handler'[g].pc = handler[g].pc /\ handler'[g].kind = handler[g].kind
          /\ handler'[g].actor = handler[g].actor /\ handler'[g].target = handler[g].target
          /\ handler'[g].alone => handler[g].alone
      BY <1>2 DEF Begins, Starts
    <3> QED  BY <2>1, <3>1 DEF Admins, KnownAdmin, Running
  <2>3. KnownAdmin(h)'
    <3>1. \/ handler'[h].kind \notin {"update_user", "deactivate_user"}
          \/ /\ handler'[h].kind = "update_user"
             /\ handler'[h].actor \in Users /\ IsAdmin(handler'[h].actor)
          \/ /\ handler'[h].kind = "deactivate_user"
             /\ \E a \in Users : IsAdmin(a) /\ handler'[h].target # a
      BY <1>2 DEF Begins, Starts
    <3> QED  BY <2>1, <3>1 DEF KnownAdmin
  <2> QED  BY <2>1, <2>2, <2>3
<1>3. ASSUME NEW h \in Handlers, UNCHANGED <<users, tangled>>,
             \/ Turns(h) \/ Quits(h) \/ Reads(h) \/ Deletes(h) \/ Saves(h)
             \/ Sets(h) \/ Drops(h) \/ Fails(h)
      PROVE  Admins'
  <2>1. \/ Ends(h)
        \/ handler[h].pc # "idle" /\ \E p, previous, file : Moves(h, p, previous, file)
    BY <1>3 DEF Turns, Quits, Reads, Deletes, Saves, Sets, Drops, Fails, UserPcs
  <2>2. \A g \in Handlers :
          handler'[g].alone /\ handler'[g].pc # "idle" =>
            /\ handler[g].alone /\ Running(g) /\ handler'[g].kind = handler[g].kind
            /\ handler'[g].actor = handler[g].actor /\ handler'[g].target = handler[g].target
    BY <2>1, IdleTyped DEF Ends, Moves, Running
  <2> QED  BY <1>0, <1>3, <2>2, AdminsStay
<1>4. ASSUME NEW h \in Handlers, Edits(h)
      PROVE  Admins'
  <2> DEFINE u == handler[h].target
             off == [users[u] EXCEPT !.is_active = FALSE]
  <2> SUFFICES ASSUME ~tangled' PROVE (\E a \in Users : IsAdmin(a))' /\ \A g \in Handlers : KnownAdmin(g)'
    BY DEF Admins
  <2>1. /\ ~tangled /\ handler[h].alone /\ handler[h].pc = "edit"
        /\ handler[h].kind = "update_user" => u # handler[h].actor
        /\ handler'[h].pc = "idle"
        /\ \A g \in Handlers \ {h} : handler'[g] = handler[g]
        /\ \E a \in Users : IsAdmin(a)
        /\ \A g \in Handlers : KnownAdmin(g)
    BY <1>4, IdleTyped DEF Edits, edit_user, Ends, Admins
  <2>2. /\ u \in Users /\ handler[h].kind \in {"create_user", "update_user", "deactivate_user"}
        /\ users \in [Users -> User \cup {None}]
    BY <2>1 DEF Shape, ShapeOf, UserPcs, UserKinds, Typed
  <2>3. KnownAdmin(h)'
    BY <2>1 DEF KnownAdmin, Running
  <2>4. \/ users' = users
        \/ users[u] = None /\ users' = [users EXCEPT ![u] = handler[h].patch]
        \/ handler[h].kind = "update_user" /\ users' = [users EXCEPT ![u] = handler[h].patch]
        \/ handler[h].kind = "deactivate_user" /\ users' = [users EXCEPT ![u] = off]
    BY <1>4 DEF Edits, edit_user, Edited
  <2> HIDE DEF off
  <2>5. CASE users' = users \/ (users[u] = None /\ users' = [users EXCEPT ![u] = handler[h].patch])
    <3>1. \A a \in Users : IsAdmin(a) => IsAdmin(a)'
      BY <2>2, <2>5 DEF IsAdmin
    <3>2. ASSUME NEW g \in Handlers \ {h}
          PROVE  KnownAdmin(g)'
      BY <2>1, <3>1 DEF KnownAdmin, Running
    <3> QED  BY <2>1, <2>3, <3>1, <3>2
  <2>6. CASE /\ handler[h].kind \in {"update_user", "deactivate_user"}
             /\ \E row : users' = [users EXCEPT ![u] = row]
    <3>1. \A a \in Users \ {u} : IsAdmin(a) => IsAdmin(a)'
      BY <2>2, <2>6 DEF IsAdmin
    <3>2. \E a \in Users \ {u} : IsAdmin(a)
      <4>1. KnownAdmin(h)
        BY <2>1
      <4> QED  BY <2>1, <2>6, <4>1 DEF KnownAdmin, Running
    <3>3. ASSUME NEW g \in Handlers \ {h}
          PROVE  KnownAdmin(g)'
      <4>1. handler[g].alone /\ Running(g) => handler[g].kind \notin UserKinds
        BY <2>1, <2>6 DEF Alone, Running, UserKinds
      <4> QED  BY <2>1, <4>1 DEF KnownAdmin, Running, UserKinds
    <3> QED  BY <2>3, <3>1, <3>2, <3>3
  <2> QED  BY <2>4, <2>5, <2>6
<1>5. ASSUME NEW d \in Departments, create_department(d)
      PROVE  Admins'
  BY <1>0, <1>5, AdminsStay DEF create_department, Running
<1>6. CASE Restart
  <2>1. KeepsAdmins
    BY <1>6, AdministrationAssumption DEF Restart, bootstrap_admin, KeepsAdmins, IsAdmin, Typed
  <2>2. tangled' = tangled /\ \A g \in Handlers : handler'[g].pc = "idle"
    BY <1>6, IdleTyped DEF Restart
  <2> QED  BY <2>1, <2>2, AdminsStay
<1> QED
  <2>1. ASSUME NEW h \in Handlers,
               \/ Turns(h) \/ Quits(h) \/ Reads(h) \/ Deletes(h) \/ Saves(h)
               \/ Sets(h) \/ Drops(h) \/ Fails(h)
        PROVE  UNCHANGED <<users, tangled>>
    BY <2>1 DEF Turns, Quits, Reads, Deletes, Saves, Sets, Drops, Fails, delete_department, Fail,
                world
  <2> QED  BY <1>1, <1>2, <1>3, <1>4, <1>5, <1>6, <2>1, Steps


Orphans == files \ InUse

\* No more files are orphaned than there are mishaps.
LEMMA OrphansBound ==
  ASSUME Typed, OldLogosAreDeleted, NEW X, IsFiniteSet(X), Orphans' \subseteq Orphans \cup X,
         mishaps' \in Nat, mishaps + Cardinality(X) <= mishaps'
  PROVE  OldLogosAreDeleted'
<1>1. IsFiniteSet(Orphans)
  <2>1. IsFiniteSet(1..written)
    BY FS_Interval DEF Typed
  <2> QED  BY <2>1, FS_Subset DEF Typed, Orphans
<1>2. /\ IsFiniteSet(Orphans \cup X) /\ IsFiniteSet(Orphans \cap X)
      /\ Cardinality(Orphans \cup X) = Cardinality(Orphans) + Cardinality(X)
                                       - Cardinality(Orphans \cap X)
  BY <1>1, FS_Union, FS_Subset
<1>3. Cardinality(Orphans') <= Cardinality(Orphans \cup X) /\ IsFiniteSet(Orphans')
  BY <1>2, FS_Subset
<1>4. /\ Cardinality(Orphans') \in Nat /\ Cardinality(Orphans \cup X) \in Nat
      /\ Cardinality(Orphans) \in Nat /\ Cardinality(Orphans \cap X) \in Nat
      /\ Cardinality(X) \in Nat
  BY <1>1, <1>2, <1>3, FS_CardinalityType
<1>5. Cardinality(Orphans) <= mishaps /\ mishaps \in Nat
  BY DEF Orphans, OldLogosAreDeleted, Typed
<1>6. Cardinality(Orphans') <= mishaps'
  BY <1>2, <1>3, <1>4, <1>5
<1> QED  BY <1>6 DEF Orphans, OldLogosAreDeleted

LEMMA NoMoreOrphans ==
  ASSUME Typed, OldLogosAreDeleted, Orphans' \subseteq Orphans, mishaps' \in Nat,
         mishaps <= mishaps'
  PROVE  OldLogosAreDeleted'
<1>1. IsFiniteSet({}) /\ Cardinality({}) = 0
  BY FS_EmptySet
<1> QED  BY <1>1, OrphansBound DEF Typed

\* One request may leave one file behind.
LEMMA OneMoreOrphan ==
  ASSUME Typed, OldLogosAreDeleted, NEW f, Orphans' \subseteq Orphans \cup {f},
         mishaps' = mishaps + 1
  PROVE  OldLogosAreDeleted'
<1>1. IsFiniteSet({f}) /\ Cardinality({f}) = 1
  BY FS_Singleton
<1> QED  BY <1>1, OrphansBound DEF Typed

LEMMA CountStep ==
  ASSUME Typed, Shape, Owned, Known, OldLogosAreDeleted, [Next]_vars
  PROVE  OldLogosAreDeleted'
<1>0. /\ mishaps \in Nat /\ written \in Nat /\ 0 \notin files
      /\ files \subseteq 1..written
  BY DEF Typed
<1>1. ASSUME files' \subseteq files, UNCHANGED <<logo, mishaps>>,
             \A g \in Handlers : handler'[g].file = handler[g].file
      PROVE  OldLogosAreDeleted'
  <2>1. Orphans' \subseteq Orphans
    BY <1>1 DEF Orphans, InUse
  <2> QED  BY <1>0, <1>1, <2>1, NoMoreOrphans
<1>2. ASSUME NEW h \in Handlers, Begins(h)
      PROVE  OldLogosAreDeleted'
  <2>1. handler[h].file = 0
    BY <1>2 DEF Begins, Starts, Running, Shape, ShapeOf
  <2>2. \A g \in Handlers : handler'[g].file = handler[g].file
    BY <1>2, <2>1 DEF Begins, Starts
  <2> QED  BY <1>1, <1>2, <2>2 DEF Begins, world
<1>3. ASSUME NEW h \in Handlers, Turns(h) \/ Quits(h) \/ Reads(h) \/ Edits(h) \/ Deletes(h)
      PROVE  OldLogosAreDeleted'
  <2>1. handler[h].file = 0 /\ files' \subseteq files /\ UNCHANGED <<logo, mishaps>>
    BY <1>3 DEF Turns, Quits, Reads, Edits, Deletes, edit_user, world, logos, UserPcs, Shape, ShapeOf
  <2>2. handler'[h].file = 0
    BY <1>3, <2>1, IdleTyped DEF Turns, Quits, Reads, Edits, Deletes, Moves, Ends
  <2> QED  BY <1>1, <1>3, <2>1, <2>2, HandlersMove
<1>4. ASSUME NEW h \in Handlers, Saves(h)
      PROVE  OldLogosAreDeleted'
  <2>1. /\ handler[h].file = 0 /\ handler'[h].file = written + 1
        /\ \A g \in Handlers \ {h} : handler'[g] = handler[g]
        /\ files' = files \cup {written + 1} /\ UNCHANGED <<logo, mishaps>>
    BY <1>4, HandlersMove DEF Saves, Moves, Shape, ShapeOf
  <2>2. Orphans' \subseteq Orphans
    BY <1>0, <2>1 DEF Orphans, InUse
  <2> QED  BY <1>0, <2>1, <2>2, NoMoreOrphans
<1>5. ASSUME NEW h \in Handlers, Sets(h)
      PROVE  OldLogosAreDeleted'
  <2> DEFINE t == handler[h].target
  <2>1. /\ t \in Slots /\ handler[h].pc = "row" /\ files' = files
        /\ \A g \in Handlers \ {h} : handler'[g] = handler[g]
        /\ handler'[h].file = 0
        /\ handler[h].kind # "upload_logo" => handler[h].file = 0
        /\ \/ t \in Present /\ logo' = [logo EXCEPT ![t] = Url(h)]
           \/ t \notin Present /\ UNCHANGED logo
        /\ mishaps' = IF Undisturbed(h) THEN mishaps ELSE mishaps + 1
    BY <1>5, HandlersMove, IdleTyped DEF Sets, Ends, Shape, ShapeOf, Replacing
  <2>2. Url(h) = handler[h].file
    BY <2>1 DEF Url
  <2>3. CASE t \in Present /\ logo' = [logo EXCEPT ![t] = Url(h)]
    <3>1. logo'[t] = handler[h].file /\ \A s \in Slots \ {t} : logo'[s] = logo[s]
      BY <2>1, <2>2, <2>3 DEF Typed
    <3>2. Orphans' \subseteq Orphans \cup {logo[t]}
      BY <2>1, <3>1 DEF Orphans, InUse
    <3>3. CASE Undisturbed(h)
      <4>1. logo[t] \notin files
        BY <2>1, <3>3 DEF Known, KnownLogo, Undisturbed, Replacing
      <4>2. Orphans' \subseteq Orphans
        BY <2>1, <3>2, <4>1 DEF Orphans
      <4> QED  BY <1>0, <2>1, <3>3, <4>2, NoMoreOrphans
    <3>4. CASE ~Undisturbed(h)
      BY <2>1, <3>2, <3>4, OneMoreOrphan
    <3> QED  BY <3>3, <3>4
  <2>4. CASE t \notin Present /\ UNCHANGED logo
    <3>1. ~Undisturbed(h)
      BY <2>1, <2>4 DEF Known, KnownLogo, Undisturbed, Replacing
    <3>2. Orphans' \subseteq Orphans \cup {handler[h].file}
      BY <2>1, <2>4 DEF Orphans, InUse
    <3> QED  BY <2>1, <3>1, <3>2, OneMoreOrphan
  <2> QED  BY <2>1, <2>3, <2>4
<1>6. ASSUME NEW h \in Handlers, Drops(h)
      PROVE  OldLogosAreDeleted'
  <2> DEFINE d == handler[h].target
  <2>1. /\ d \in Slots /\ files' = files /\ handler[h].file = 0 /\ handler'[h].file = 0
        /\ \A g \in Handlers \ {h} : handler'[g] = handler[g]
        /\ logo' = [logo EXCEPT ![d] = 0]
        /\ mishaps' = IF logo[d] # 0 THEN mishaps + 1 ELSE mishaps
    BY <1>6, HandlersMove, IdleTyped
       DEF Drops, delete_department, Ends, Shape, ShapeOf, Slots
  <2>2. \A s \in Slots \ {d} : logo'[s] = logo[s]
    BY <2>1 DEF Typed
  <2>3. Orphans' \subseteq Orphans \cup {logo[d]}
    BY <2>1, <2>2 DEF Orphans, InUse
  <2>4. CASE logo[d] = 0
    <3>1. Orphans' \subseteq Orphans
      BY <1>0, <2>1, <2>3, <2>4 DEF Orphans
    <3> QED  BY <1>0, <2>1, <2>4, <3>1, NoMoreOrphans
  <2>5. CASE logo[d] # 0
    BY <2>1, <2>3, <2>5, OneMoreOrphan
  <2> QED  BY <2>4, <2>5
<1>7. ASSUME NEW h \in Handlers, Fails(h)
      PROVE  OldLogosAreDeleted'
  <2>1. /\ \A g \in Handlers \ {h} : handler'[g] = handler[g]
        /\ handler'[h].file = 0 /\ UNCHANGED logo
        /\ mishaps' = IF handler[h].kind \in LogoKinds THEN mishaps + 1 ELSE mishaps
        /\ \/ handler[h].pc = "write" /\ files' = files \cup {written + 1}
           \/ files' = files
    BY <1>7, HandlersMove, IdleTyped DEF Fails, Fail, Ends
  <2>2. CASE handler[h].pc = "write" /\ files' = files \cup {written + 1}
    <3>1. handler[h].file = 0 /\ handler[h].kind \in LogoKinds
      BY <2>2 DEF Shape, ShapeOf, LogoKinds
    <3>2. Orphans' \subseteq Orphans \cup {written + 1}
      BY <1>0, <2>1, <2>2, <3>1 DEF Orphans, InUse
    <3> QED  BY <2>1, <3>1, <3>2, OneMoreOrphan
  <2>3. CASE files' = files
    <3>1. Orphans' \subseteq Orphans \cup {handler[h].file}
      BY <2>1, <2>3 DEF Orphans, InUse
    <3>2. CASE handler[h].kind \in LogoKinds
      BY <2>1, <3>1, <3>2, OneMoreOrphan
    <3>3. CASE handler[h].kind \notin LogoKinds
      <4>1. handler[h].file = 0
        BY <3>3 DEF Shape, ShapeOf, LogoKinds
      <4>2. Orphans' \subseteq Orphans
        BY <1>0, <2>3, <3>1, <4>1 DEF Orphans
      <4> QED  BY <1>0, <2>1, <3>3, <4>2, NoMoreOrphans
    <3> QED  BY <3>2, <3>3
  <2> QED  BY <2>1, <2>2, <2>3
<1>8. CASE Restart
  <2> DEFINE X == {handler[h].file : h \in Lost}
             carried == [h \in Lost |-> handler[h].file]
  <2>1. IsFiniteSet(Lost)
    BY AdministrationAssumption, FS_Subset DEF Lost
  <2>2. IsFiniteSet(X) /\ Cardinality(X) <= Cardinality(Lost)
    <3>1. carried \in Surjection(Lost, X)
      BY DEF Surjection
    <3> HIDE DEF X, carried
    <3> QED  BY <2>1, <3>1, FS_Surjection
  <2>3. Cardinality(X) \in Nat /\ Cardinality(Lost) \in Nat
    BY <2>1, <2>2, FS_CardinalityType
  <2>4. /\ UNCHANGED <<logo, files>> /\ mishaps' = mishaps + Cardinality(Lost)
    BY <1>8 DEF Restart
  <2>5. \A h \in Handlers : handler[h].file # 0 => h \in Lost
    BY DEF Shape, ShapeOf, Lost, Running, LogoKinds
  <2>6. Orphans' \subseteq Orphans \cup X
    BY <1>0, <2>4, <2>5 DEF Orphans, InUse
  <2> HIDE DEF X
  <2> QED  BY <1>0, <2>2, <2>3, <2>4, <2>6, OrphansBound
<1> QED
  <2>1. ASSUME UNCHANGED <<world, handler>> \/ \E d \in Departments : create_department(d)
        PROVE  UNCHANGED <<logo, mishaps, files, handler>>
    BY <2>1 DEF world, create_department
  <2> QED  BY <1>1, <1>2, <1>3, <1>4, <1>5, <1>6, <1>7, <1>8, <2>1, Steps


----------------------------------------------------------------------------
(* The theorems.                                                           *)

LEMMA AdministrationInit == Init => AdministrationInv
<1> SUFFICES ASSUME Init PROVE AdministrationInv
  OBVIOUS
<1>0. /\ \A h \in Handlers : handler[h] = Idle
      /\ \A h \in Handlers : handler[h].pc = "idle" /\ handler[h].file = 0 /\ handler[h].previous = 0
  BY IdleTyped DEF Init
<1>1. Typed
  BY InitialUsersAssumption, IdleTyped DEF Init, Typed
<1>2. Shape
  BY <1>0 DEF Shape, ShapeOf, Replacing, UserPcs
<1>3. Owned
  BY <1>0 DEF Owned, Init
<1>4. Served /\ Alone /\ Known
  BY <1>0 DEF Served, Alone, Known, KnownLogo, Running, Replacing, Init
<1>5. Admins
  BY <1>0, InitialUsersAssumption DEF Admins, KnownAdmin, IsAdmin, Running, Init
<1>6. OldLogosAreDeleted
  <2>1. files \ InUse = {} /\ mishaps = 0
    BY DEF Init
  <2> QED  BY <2>1, FS_EmptySet DEF OldLogosAreDeleted
<1> QED  BY <1>1, <1>2, <1>3, <1>4, <1>5, <1>6 DEF AdministrationInv

\* The parts of AdministrationInv hold at all times: files have one owner, and
\* a request that is alone knows the logo, or the admin, that it found.
LEMMA AdministrationInvariant == Spec => []AdministrationInv
<1>1. AdministrationInv /\ [Next]_vars => AdministrationInv'
  BY TypedStep, ShapeStep, OwnedStep, ServedStep, AloneStep, KnownStep, AdminsStep, CountStep
     DEF AdministrationInv
<1> QED  BY AdministrationInit, <1>1, PTL DEF Spec

\* Whatever requests about a logo overlap, and whatever failed before, a slot
\* whose last request came to its end is served a file or has no logo
\* (uploads.rs save_logo and delete_logo, set_logo_url of each row).
THEOREM LogosAreThere == Spec => []LogoIsThere
<1>1. AdministrationInv => LogoIsThere
  BY DEF AdministrationInv, Served, LogoIsThere, Quiet, Running
<1> QED  BY <1>1, AdministrationInvariant, PTL

\* Replacing a logo leaves no file behind: each unused file is due to a request
\* of its own that overlapped, failed or deleted a department.
THEOREM OldLogosGo == Spec => []OldLogosAreDeleted
<1>1. AdministrationInv => OldLogosAreDeleted
  BY DEF AdministrationInv
<1> QED  BY <1>1, AdministrationInvariant, PTL

\* That nobody deactivates themselves keeps an active admin (routes/users.rs),
\* as long as admins do not edit users at the same time or demote themselves.
THEOREM AdminStays == Spec => []AnAdminRemains
<1>1. AdministrationInv => AnAdminRemains
  BY DEF AdministrationInv, Admins, AnAdminRemains
<1> QED  BY <1>1, AdministrationInvariant, PTL
=============================================================================
