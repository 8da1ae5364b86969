---------------------------- MODULE MCUndoHistory ----------------------------
(* Instance of UndoHistory for TLC. *)
EXTENDS UndoHistory, TLC

(* Paragraph objects are compared only for identity. *)
ParagraphSymmetry == Permutations(Paragraph)
=============================================================================
