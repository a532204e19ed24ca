----------------------------- MODULE MCAccounts -----------------------------
(* Small instances of Accounts for TLC.  The specification tells no set's  *)
(* members apart.                                                          *)
EXTENDS Accounts, TLC

Symmetry == Permutations(Names) \cup Permutations(UserIds) \cup Permutations(Invites)
              \cup Permutations(Creds) \cup Permutations(Ceremonies) \cup Permutations(Tokens)
              \cup Permutations(Reqs)
=============================================================================
