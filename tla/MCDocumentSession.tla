------------------------- MODULE MCDocumentSession -------------------------
(* Instance of DocumentSession for TLC: a blank text and two others, so     *)
(* that memory, disk and undo can all differ; two file names, so that a     *)
(* document and its autosave, or its template, can differ.                  *)
EXTENDS DocumentSession, TLC

Paths == Permutations(Path)
=============================================================================
