------------------------------ MODULE MCNotes ------------------------------
(* Small instances of Notes for TLC.  A body is named by its length.       *)
EXTENDS Notes, TLC

Lengths == [b \in Bodies |-> b]

Symmetry == Permutations(Users) \cup Permutations(Reqs)
=============================================================================
