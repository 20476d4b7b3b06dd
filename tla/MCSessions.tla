----------------------------- MODULE MCSessions -----------------------------
(* Two users for the run of Sessions, each with a client of their own.     *)
EXTENDS Sessions, TLC

CONSTANTS ann, bob, laptop, phone

MCOwner == laptop :> ann @@ phone :> bob

\* Handlers are interchangeable, and so are the two users, each together with
\* the client that is theirs.
Alike ==
  Permutations(Requests)
    \cup {ann :> bob @@ bob :> ann @@ laptop :> phone @@ phone :> laptop}
=============================================================================
