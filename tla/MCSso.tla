------------------------------- MODULE MCSso --------------------------------
(* Two people share an email, an address that was given to somebody else.  *)
(* The table is empty, or holds an account that an admin made for it.      *)
EXTENDS Sso, TLC

CONSTANTS ann, bea

MCEmailOf == [s \in Subjects |-> "shared"]
MCUserTables == {<<>>, <<NewUser("shared", None)>>}

\* ann and bea are alike, and so are attempts and tasks.
Alike ==
  Permutations(Logins) \cup Permutations(Handlers) \cup Permutations(Redeemers)
    \cup {ann :> bea @@ bea :> ann}
=============================================================================
