---------------------------- MODULE SavingProofs ----------------------------
(***************************************************************************)
(* Theorems about SaveFile, for every set of versions, and about           *)
(* DocumentSession, for any texts and any file names.                      *)
(***************************************************************************)
EXTENDS SaveFile, DocumentSession, TLAPS

-----------------------------------------------------------------------------
(* SaveToStream.                                                            *)

(* The file a save is about to rename: whole exactly if its write was. *)
Outcome == [of |-> saving, whole |-> written]

(* How far the save in progress has come: filename.new holds part of the    *)
(* version until the close, and filename is touched only after it.          *)
Progress ==
  /\ call # "idle" => saving \in Version
  /\ call \in {"write", "close"} => temp = Part(saving)
  /\ call \in {"remove", "rename"} => temp = Outcome
  /\ call \in {"write", "close", "remove"} => file = start.file
  /\ call = "rename" => file \in {start.file, NoFile}

SavingInv == FilesOK /\ Progress /\ AckedOrMissing

LEMMA FilesAreTyped ==
  ASSUME NEW v \in Version
  PROVE  Part(v) \in File /\ Whole(v) \in File /\ \A b \in BOOLEAN : [of |-> v, whole |-> b] \in File
  BY DEF Part, Whole, File

LEMMA SaveInvariance == SaveSpec => []SavingInv
<1>1. SaveInit => SavingInv
  <2> SUFFICES ASSUME SaveInit PROVE SavingInv
    OBVIOUS
  <2>1. FilesOK
    BY DEF SaveInit, FilesOK, OnDisk, Files
  <2>2. Progress /\ AckedOrMissing
    BY DEF SaveInit, Progress, AckedOrMissing
  <2> QED
    BY <2>1, <2>2 DEF SavingInv
<1>2. SavingInv /\ [SaveNext]_savevars => SavingInv'
  <2> SUFFICES ASSUME SavingInv, [SaveNext]_savevars PROVE SavingInv'
    OBVIOUS
  <2> USE DEF SavingInv, FilesOK, Progress, AckedOrMissing, OnDisk, Files, Return
  <2>1. CASE Open
    BY <2>1, FilesAreTyped DEF Open
  <2>2. CASE SerialiseFails
    BY <2>2 DEF SerialiseFails
  <2>3. CASE Write
    BY <2>3 DEF Write
  <2>4. CASE CloseSucceeds
    BY <2>4, FilesAreTyped DEF CloseSucceeds, Outcome, Whole, Part
  <2>5. CASE CloseFails
    BY <2>5 DEF CloseFails
  <2>6. CASE Remove
    BY <2>6 DEF Remove, Outcome
  <2>7. CASE Rename
    BY <2>7, FilesAreTyped DEF Rename, Outcome, Whole, Part
  <2>8. CASE RenameFails
    BY <2>8 DEF RenameFails
  <2>9. CASE Stop
    BY <2>9 DEF Stop
  <2>10. CASE UNCHANGED savevars
    BY <2>10 DEF savevars, Outcome
  <2> QED
    BY <2>1, <2>2, <2>3, <2>4, <2>5, <2>6, <2>7, <2>8, <2>9, <2>10 DEF SaveNext
<1> QED
  BY <1>1, <1>2, PTL DEF SaveSpec

(* The files, the point the save has reached and the history variables stay *)
(* well typed.                                                              *)
THEOREM FilesCorrect == SaveSpec => []FilesOK
<1>1. SavingInv => FilesOK
  BY DEF SavingInv
<1> QED
  BY <1>1, SaveInvariance, PTL

(* Under its name there is what the last save that reported success had     *)
(* written, or nothing.                                                     *)
THEOREM NameHoldsAcked == SaveSpec => []AckedOrMissing
<1>1. SavingInv => AckedOrMissing
  BY DEF SavingInv
<1> QED
  BY <1>1, SaveInvariance, PTL

(* The last whole version is lost only by a new save begun while it is not  *)
(* under its name, or by a failed write that the close did not report: by   *)
(* no other failure, and by no stop.                                        *)
THEOREM NoLossInSave == SaveSpec => LossExplained
<1>1. SavingInv /\ [SaveNext]_savevars
        => [Recoverable /\ ~Recoverable' =>
              \/ call = "idle" /\ ~IsWhole(file)
              \/ call \in {"remove", "rename"} /\ ~written]_savevars
  <2> SUFFICES ASSUME SavingInv, SaveNext, Recoverable, ~Recoverable'
               PROVE  \/ call = "idle" /\ ~IsWhole(file)
                      \/ call \in {"remove", "rename"} /\ ~written
    BY DEF savevars
  <2> USE DEF Recoverable
  <2>1. CASE Open
    BY <2>1 DEF Open, IsWhole
  <2>2. CASE Remove \/ Rename
    <3>1. temp = Outcome /\ saving \in Version /\ written \in BOOLEAN
      BY <2>2 DEF SavingInv, FilesOK, Progress, Remove, Rename
    <3>2. temp \in File /\ temp.whole = written
      BY <3>1, FilesAreTyped DEF Outcome
    <3>3. file' = temp \/ temp' = temp
      BY <2>2 DEF Remove, Rename
    <3>4. ~written
      BY <3>2, <3>3 DEF IsWhole
    <3> QED
      BY <2>2, <3>4 DEF Remove, Rename
  <2>3. CASE CloseSucceeds
    <3>1. temp = Part(saving) /\ file' = file
      BY <2>3 DEF SavingInv, Progress, CloseSucceeds
    <3>2. ~IsWhole(temp)
      BY <3>1 DEF IsWhole, Part
    <3> QED
      BY <3>1, <3>2 DEF IsWhole
  <2>4. CASE SerialiseFails \/ Write \/ CloseFails \/ RenameFails \/ Stop
    BY <2>4 DEF SerialiseFails, Write, CloseFails, RenameFails, Stop, IsWhole
  <2> QED
    BY <2>1, <2>2, <2>3, <2>4 DEF SaveNext
<1> QED
  BY <1>1, SaveInvariance, PTL DEF SaveSpec, LossExplained

(* A call that does not end the save does not show outside. *)
LEMMA StepInside ==
  ASSUME SavingInv, UNCHANGED <<start, acked, silent>>, call # "idle", call' # "idle"
  PROVE  UNCHANGED AF!vars
  BY DEF AF!vars, Settled

(* Seen from its caller a save is one step, with the outcomes of            *)
(* AtomicFile: success, two ways of failing, and a failed write not noticed.*)
THEOREM Refinement == SaveSpec => ImplementsAtomicFile
<1>1. SaveInit => AF!Init
  BY DEF SaveInit, AF!Init, Settled
<1>2. SavingInv /\ [SaveNext]_savevars => [AF!Next]_(AF!vars)
  <2> SUFFICES ASSUME SavingInv, [SaveNext]_savevars PROVE [AF!Next]_(AF!vars)
    OBVIOUS
  <2>1. CASE Open
    BY <2>1 DEF Open, Files, AF!vars, Settled
  <2>2. CASE Write \/ CloseSucceeds \/ Remove
    <3>1. UNCHANGED <<start, acked, silent>> /\ call # "idle" /\ call' # "idle"
      BY <2>2 DEF Write, CloseSucceeds, Remove
    <3> QED
      BY <3>1, StepInside
  <2>3. CASE SerialiseFails \/ CloseFails \/ (Stop /\ call \in {"write", "close"})
    <3>1. /\ call \in {"write", "close"} /\ call' = "idle"
          /\ UNCHANGED <<file, temp, acked>> /\ silent' = FALSE
      BY <2>3 DEF SerialiseFails, CloseFails, Stop, Return
    <3>2. saving \in Version /\ temp = Part(saving) /\ file = start.file
      BY <3>1 DEF SavingInv, Progress
    <3>3. AF!FailsEarly(saving)
      BY <3>1, <3>2 DEF AF!FailsEarly, AF!CutShort, Part, Settled
    <3> QED
      BY <3>2, <3>3 DEF AF!Next
  <2>4. CASE RenameFails \/ (Stop /\ call \in {"remove", "rename"})
    <3>1. /\ call \in {"remove", "rename"} /\ call' = "idle"
          /\ UNCHANGED <<file, temp, acked>> /\ silent' = ~written
      BY <2>4 DEF RenameFails, Stop, Return
    <3>2. /\ saving \in Version /\ temp = Outcome /\ written \in BOOLEAN
          /\ file \in {start.file, NoFile}
      BY <3>1 DEF SavingInv, Progress, FilesOK
    <3>3. CASE written
      <4>1. AF!FailsLate(saving)
        BY <3>1, <3>2, <3>3 DEF AF!FailsLate, AF!Complete, Outcome, Settled
      <4> QED
        BY <3>2, <4>1 DEF AF!Next
    <3>4. CASE ~written
      <4>1. AF!GoesWrong(saving)
        BY <3>1, <3>2, <3>4 DEF AF!GoesWrong, AF!CutShort, Outcome, Settled
      <4> QED
        BY <3>2, <4>1 DEF AF!Next
    <3> QED
      BY <3>3, <3>4
  <2>5. CASE Rename
    <3>1. /\ call = "rename" /\ call' = "idle" /\ file' = temp /\ temp' = NoFile
          /\ acked' = (IF written THEN Whole(saving) ELSE Part(saving))
          /\ silent' = ~written
      BY <2>5 DEF Rename, Return
    <3>2. saving \in Version /\ temp = Outcome /\ written \in BOOLEAN
      BY <3>1 DEF SavingInv, Progress, FilesOK
    <3>3. CASE written
      <4>1. AF!Succeeds(saving)
        BY <3>1, <3>2, <3>3 DEF AF!Succeeds, AF!Complete, Whole, Outcome, Settled
      <4> QED
        BY <3>2, <4>1 DEF AF!Next
    <3>4. CASE ~written
      <4>1. AF!GoesWrong(saving)
        BY <3>1, <3>2, <3>4 DEF AF!GoesWrong, AF!CutShort, Part, Outcome, Settled
      <4> QED
        BY <3>2, <4>1 DEF AF!Next
    <3> QED
      BY <3>3, <3>4
  <2>6. CASE UNCHANGED savevars
    BY <2>6 DEF savevars, AF!vars, Settled
  <2> QED
    BY <2>1, <2>2, <2>3, <2>4, <2>5, <2>6 DEF SaveNext, Stop, SavingInv, FilesOK
<1> QED
  BY <1>1, <1>2, SaveInvariance, PTL DEF SaveSpec, ImplementsAtomicFile, AF!Spec

-----------------------------------------------------------------------------
(* The session.                                                             *)

(* Event.Changed is still to come, or the text of the last touch is counted. *)
CountPending ==
  /\ justchanged => touched = set.text
  /\ justchanged \/ counted = touched
  /\ pc = "wait" => ~justchanged
  /\ pc = "off" => counted = touched

(* Between two sessions nothing is unsaved. *)
SessionInv ==
  /\ TypeOK
  /\ pc = "off" => set = Pristine
  /\ UnsavedIsExplained
  /\ CountPending

USE BlankAssumption, SpecialAssumption

LEMMA PristineIsSet == Pristine \in Set
  BY DEF Pristine, Set

(* A reset leaves an empty document set, which needs no explanation. *)
LEMMA ResetIsExplained ==
  ASSUME TypeOK, ResetDocumentSet, UNCHANGED disk, pc' \in {"off", "top"}
  PROVE  SessionInv'
  BY PristineIsSet DEF ResetDocumentSet, Clean, SessionInv, TypeOK, UnsavedIsExplained,
     Unsaved, CountPending

(* A set that was just loaded is on the disk. *)
LEMMA LoadIsExplained ==
  ASSUME TypeOK, NEW p \in Path, Loadable(p), LoadFrom(p), UNCHANGED disk, pc' = "top",
         name' \in Path \cup {None}
  PROVE  SessionInv'
<1>1. set' \in Set /\ set'.text \in Text
  BY DEF LoadFrom, Loadable, Set
<1>2. ~Unsaved'
  BY DEF LoadFrom, Unsaved
<1> QED
  BY <1>1, <1>2 DEF LoadFrom, SessionInv, TypeOK, UnsavedIsExplained, CountPending

(* A save leaves the set on the disk, or what went wrong as explanation. *)
LEMMA SaveIsExplained ==
  ASSUME SessionInv, NEW p \in Path, CleanAndSave(p), pc = "wait", pc' = "top",
         name' \in Path \cup {None}
  PROVE  SessionInv'
<1> USE DEF CleanAndSave, Clean, SessionInv, TypeOK
<1>1. disk' \in [Path -> Set \cup {Absent, Foreign}]
  BY DEF SaveSucceeds, SaveFails, SavesPart
<1>2. UnsavedIsExplained'
  BY DEF SaveSucceeds, UnsavedIsExplained, Unsaved
<1>3. CountPending'
  BY DEF CountPending
<1> QED
  BY <1>1, <1>2, <1>3

(* A touched set is marked and its count is on the way. *)
LEMMA TouchIsExplained ==
  ASSUME SessionInv, Touch, set' \in Set, before' \in Text \cup {None}, pc' = "top",
         UNCHANGED <<disk, name, counted>>
  PROVE  SessionInv'
<1>1. set'.text \in Text
  BY DEF Set
<1> QED
  BY <1>1 DEF Touch, SessionInv, TypeOK, UnsavedIsExplained, CountPending

LEMMA InitInv == Init => SessionInv
  BY PristineIsSet DEF Init, SessionInv, TypeOK, UnsavedIsExplained, Unsaved, CountPending

LEMMA StepInv == SessionInv /\ [Next]_vars => SessionInv'
<1> SUFFICES ASSUME SessionInv, [Next]_vars PROVE SessionInv'
  OBVIOUS
<1> USE DEF Command
<1>t. TypeOK /\ set \in Set /\ set.text \in Text
  BY DEF SessionInv, TypeOK, Set
<1>1. CASE StartEmpty
  BY <1>1, <1>t, ResetIsExplained DEF StartEmpty, Reset
<1>2. CASE TerminateProgram
  BY <1>2, <1>t, ResetIsExplained DEF TerminateProgram, Off
<1>3. CASE Killed
  BY <1>3, <1>t, ResetIsExplained DEF Killed, Off
<1>4. CASE FireChanged
  BY <1>4, <1>t DEF FireChanged, SessionInv, TypeOK, UnsavedIsExplained, Unsaved, CountPending
<1>5. CASE Autosave
  <2>1. changed /\ disk' \in [Path -> Set \cup {Absent, Foreign}]
    BY <1>5, <1>t DEF Autosave, SaveSucceeds, SaveFails, SavesPart, TypeOK
  <2> QED
    BY <1>5, <2>1, <1>t DEF Autosave, session, SessionInv, TypeOK, UnsavedIsExplained, CountPending
<1>6. CASE AutosaveWithoutName
  BY <1>6, <1>t DEF AutosaveWithoutName, session, SessionInv, TypeOK, UnsavedIsExplained,
     Unsaved, CountPending
<1>7. CASE Edit
  <2>1. set' \in Set /\ before' \in Text \cup {None}
    BY <1>7, <1>t DEF Edit, TypeOK, Set
  <2> QED
    BY <1>7, <2>1, TouchIsExplained DEF Edit
<1>8. CASE UndoOrRedo
  <2>1. set' \in Set /\ before' \in Text \cup {None}
    BY <1>8, <1>t DEF UndoOrRedo, TypeOK, Set
  <2> QED
    BY <1>8, <2>1, <1>t DEF UndoOrRedo, SessionInv, TypeOK, UnsavedIsExplained, CountPending
<1>9. CASE ConfigureAutosave
  <2>1. set' \in Set /\ before' \in Text \cup {None}
    BY <1>9, <1>t DEF ConfigureAutosave, TypeOK, Set
  <2> QED
    BY <1>9, <2>1, TouchIsExplained DEF ConfigureAutosave
<1>10. CASE CreateBlankDocumentSet
  BY <1>10, <1>t, ResetIsExplained DEF CreateBlankDocumentSet, Reset
<1>11. ASSUME NEW p \in Path, StartWith(p) PROVE SessionInv'
  <2>1. CASE Loadable(p) /\ LoadFrom(p)
    BY <1>11, <2>1, <1>t, LoadIsExplained DEF StartWith
  <2>2. CASE ~(Loadable(p) /\ LoadFrom(p))
    BY <1>11, <2>2, <1>t, PristineIsSet DEF StartWith, Clean, SessionInv, TypeOK,
       UnsavedIsExplained, Unsaved, CountPending
  <2> QED
    BY <2>1, <2>2
<1>12. ASSUME NEW p \in Path, StartConverted(p) PROVE SessionInv'
  <2>1. set' \in Set /\ set'.text \in Text
    <3>1. PICK t \in Text : set' = [text |-> t, autosave |-> FALSE]
      BY <1>12 DEF StartConverted
    <3> QED
      BY <3>1 DEF Set
  <2>2. disk' \in [Path -> Set \cup {Absent, Foreign}]
    <3>1. disk \in [Path -> Set \cup {Absent, Foreign}]
      BY <1>t DEF TypeOK
    <3>2. disk' = [disk EXCEPT ![p] = set'] \/ disk' = [disk EXCEPT ![p] = Foreign]
      BY <1>12 DEF StartConverted
    <3> QED
      BY <2>1, <3>1, <3>2
  <2>3. TypeOK'
    BY <1>12, <2>1, <2>2, <1>t DEF StartConverted, TypeOK
  <2>4. Unsaved' => excuse' # "none"
    BY <1>12, <1>t DEF StartConverted, Unsaved, TypeOK
  <2>5. CountPending'
    BY <1>12 DEF StartConverted, CountPending
  <2>6. pc' = "top"
    BY <1>12 DEF StartConverted
  <2> QED
    BY <2>3, <2>4, <2>5, <2>6 DEF SessionInv, UnsavedIsExplained
<1>13. ASSUME NEW p \in Path, SaveCurrentDocumentAs(p) PROVE SessionInv'
  BY <1>13, SaveIsExplained DEF SaveCurrentDocumentAs
<1>14. ASSUME NEW p \in Path, SaveCurrentDocumentAsTemplate(p) PROVE SessionInv'
  BY <1>14, SaveIsExplained DEF SaveCurrentDocumentAsTemplate
<1>15. ASSUME NEW p \in Path, LoadDocumentSet(p) PROVE SessionInv'
  BY <1>15, <1>t, LoadIsExplained DEF LoadDocumentSet
<1>16. ASSUME NEW p \in Path, CreateDocumentSetFromTemplate(p) PROVE SessionInv'
  BY <1>16, <1>t, LoadIsExplained DEF CreateDocumentSetFromTemplate
<1>17. ASSUME NEW p \in Path, CreateFromTemplateFails(p) PROVE SessionInv'
  BY <1>17, <1>t DEF CreateFromTemplateFails, ghosts, SessionInv, TypeOK, UnsavedIsExplained,
     Unsaved, CountPending
<1>18. CASE UNCHANGED vars
  BY <1>18, <1>t DEF vars, SessionInv, TypeOK, UnsavedIsExplained, Unsaved, CountPending
<1> QED
  BY <1>1, <1>2, <1>3, <1>4, <1>5, <1>6, <1>7, <1>8, <1>9, <1>10, <1>11, <1>12, <1>13,
     <1>14, <1>15, <1>16, <1>17, <1>18 DEF Next, SaveCurrentDocument

LEMMA SessionInvariance == Spec => []SessionInv
  BY InitInv, StepInv, PTL DEF Spec

(* Type correctness of the session. *)
THEOREM SessionCorrect == Spec => []TypeOK
<1>1. SessionInv => TypeOK
  BY DEF SessionInv
<1> QED
  BY <1>1, SessionInvariance, PTL

(* A save that failed or was cut short, and undo or redo, are the only ways *)
(* to hold work that is on no file without being asked before it is thrown  *)
(* away.                                                                    *)
THEOREM UnsavedExplained == Spec => []UnsavedIsExplained
<1>1. SessionInv => UnsavedIsExplained
  BY DEF SessionInv
<1> QED
  BY <1>1, SessionInvariance, PTL

(* No order of commands, saves and loads loses the announcement of a touch. *)
THEOREM TouchesCounted == Spec => []EveryTouchCounted
<1>1. SessionInv => EveryTouchCounted
  BY DEF SessionInv, CountPending, EveryTouchCounted
<1> QED
  BY <1>1, SessionInvariance, PTL
=============================================================================
