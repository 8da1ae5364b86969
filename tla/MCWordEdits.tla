---------------------------- MODULE MCWordEdits ----------------------------
(* Instance of WordEdits for TLC: words of up to three characters, with two *)
(* attributes, so that every style can differ from both its neighbours'.    *)
EXTENDS WordEdits, TLC

Letters == Permutations(Char)
=============================================================================
