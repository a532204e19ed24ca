------------------------------- MODULE MCStore ------------------------------
(* A small instance of Store for TLC.  Lists of one word: blank, plain, in *)
(* upper case, plain beside too long, and two spellings that clash.        *)
EXTENDS Store

CONSTANTS w

Name(word, upper, form) == [word |-> word, upper |-> upper, form |-> form]

Plain == Name(w, FALSE, "plain")
Upper == Name(w, TRUE, "plain")
Long  == Name(w, FALSE, "long")
Blank == Name("", FALSE, "plain")

SentLists == {{Blank}, {Plain}, {Upper}, {Plain, Long}, {Plain, Upper}}
=============================================================================
