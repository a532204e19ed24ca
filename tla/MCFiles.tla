------------------------------ MODULE MCFiles ------------------------------
(* Small instances of Files for TLC: two image types, of which the server  *)
(* rotates one, and a document type.                                       *)
EXTENDS Files, TLC

Symmetry == Permutations(Reqs) \cup Permutations(Pictures)
=============================================================================
