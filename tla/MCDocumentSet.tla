---------------------------- MODULE MCDocumentSet ----------------------------
(* Instance of DocumentSet for TLC: a name, its variant "-1" and "main"     *)
(* besides, three documents in a set and one object outside it.             *)
EXTENDS DocumentSet, TLC

CONSTANTS note, note1

SuffixedDef == [n \in Name |-> IF n = note THEN note1 ELSE NoName]

Objects == Permutations(Doc)
=============================================================================
