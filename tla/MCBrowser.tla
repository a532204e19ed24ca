----------------------------- MODULE MCBrowser ------------------------------
(* A small instance of Browser for TLC: a note's page with two notes to    *)
(* make, a list of a note and a file, and a viewer over an image of two    *)
(* points, a PDF and a text.                                               *)
EXTENDS Browser, TLC, Integers

CONSTANTS image, pdf, text, left, right

KindOf ==
    [f \in Documents |-> CASE f = image -> "image" [] f = text -> "markdown" [] OTHER -> "pdf"]

Picture == [w |-> 2, h |-> 1, at |-> [p \in (0..1) \X (0..0) |-> IF p[1] = 0 THEN left ELSE right]]

Everything == Notes \cup ListedNotes \cup ListedFiles \cup Documents

Only(S, row) == [i \in Everything |-> IF i \in S THEN row ELSE Null]

StartRows ==
    [note   |-> {Only({}, Null)},
     list   |-> {Only(ListedNotes \cup ListedFiles, [folder |-> Unfiled])},
     viewer |-> {Only(Documents, [mime |-> m, picture |-> Picture]) : m \in {"png", "webp"}}]

Symmetry == Permutations(Notes) \cup Permutations(Calls)
=============================================================================
