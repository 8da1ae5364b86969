----------------------------- MODULE MCSaveFile -----------------------------
(* Instance of SaveFile for TLC: three versions, so that the one on disk,   *)
(* the one being saved and an older one left in .new can all differ.        *)
EXTENDS SaveFile
=============================================================================
