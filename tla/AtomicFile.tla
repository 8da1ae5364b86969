----------------------------- MODULE AtomicFile -----------------------------
(***************************************************************************)
(* What a save does to the disk, as one step: the outcomes a caller of     *)
(* SaveToStream has to reckon with, DocumentSession among them.            *)
(***************************************************************************)
CONSTANTS
  Version,  \* what can be saved
  Nothing   \* no file

VARIABLES
  file,   \* the file under its name
  aside,  \* the file a save leaves beside it
  told,   \* what the last save reported as a success had written
  silent  \* did the last save fail to write, and not notice?

vars == <<file, aside, told, silent>>

Complete(v) == [of |-> v, whole |-> TRUE]
CutShort(v) == [of |-> v, whole |-> FALSE]

Init == file = Nothing /\ aside = Nothing /\ told = Nothing /\ silent = FALSE

Succeeds(v) ==
  /\ file' = Complete(v) /\ aside' = Nothing /\ told' = Complete(v)
  /\ silent' = FALSE

(* It fails, or the program stops, before the new version is complete.     *)
FailsEarly(v) ==
  /\ aside' = CutShort(v) /\ silent' = FALSE
  /\ UNCHANGED <<file, told>>

(* The new version is complete but has not got the name, which the old one *)
(* may have lost.                                                          *)
FailsLate(v) ==
  /\ file' \in {file, Nothing} /\ aside' = Complete(v) /\ silent' = FALSE
  /\ UNCHANGED told

(* Part of the new version is taken for all of it; the name may be lost all *)
(* the same.                                                               *)
GoesWrong(v) ==
  /\ silent' = TRUE
  /\ \/ file' = CutShort(v) /\ aside' = Nothing /\ told' = CutShort(v)
     \/ file' \in {file, Nothing} /\ aside' = CutShort(v) /\ UNCHANGED told

Next ==
  \E v \in Version : Succeeds(v) \/ FailsEarly(v) \/ FailsLate(v) \/ GoesWrong(v)

Spec == Init /\ [][Next]_vars
=============================================================================
