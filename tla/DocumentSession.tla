-------------------------- MODULE DocumentSession --------------------------
(***************************************************************************)
(* The document set in memory, the files on the disk and the flags between *)
(* them: what decides whether the user is asked before work is thrown      *)
(* away.  Commands are those of src/lua/fileio.lua, navigate.lua, main.lua *)
(* and the autosave and template add-ons; each runs to its end, between    *)
(* two visits of the event loop of main.lua.                               *)
(*                                                                         *)
(* A file is written by SaveFile, of which only the outcomes AtomicFile    *)
(* lists remain: under its name there is the new version, the old one,     *)
(* nothing, or part of the new version that was reported as saved.  One    *)
(* level of undo is kept.  Answers to questions are free, so a question    *)
(* only matters where it is not asked.                                     *)
(***************************************************************************)
CONSTANTS
  Text,     \* what the documents of a set can contain
  Blank,    \* the text of a new document set
  Path,     \* file names
  None,     \* nil
  Absent,   \* no file
  Foreign   \* a file this version of the program cannot load

ASSUME BlankAssumption == Blank \in Text

(* A document set: its text, and whether autosave is enabled in it. *)
Set == [text : Text, autosave : BOOLEAN]

Pristine == [text |-> Blank, autosave |-> FALSE]

ASSUME SpecialAssumption ==
  /\ None \notin Text /\ None \notin Path
  /\ Absent \notin Set /\ Foreign \notin Set

VARIABLES
  disk,         \* the files
  pc,           \* "off", or where the event loop is: its "top" or the "wait" for a key
  set,          \* DocumentSet
  before,       \* the text undo, or after it redo, brings back
  name,         \* DocumentSet.name
  changed,      \* DocumentSet.changed
  justchanged,  \* DocumentSet.justchanged
  counted,      \* the text the word count and the numbering were computed for
  \* History variables, read by no action:
  touched,      \* the text as the last touch, load or reset left it
  excuse        \* what happened to the set since it was last saved or touched

vars == <<disk, pc, set, before, name, changed, justchanged, counted, touched, excuse>>

ghosts == <<touched, excuse>>
session == <<set, before, name, changed, justchanged, counted, touched, excuse>>

TypeOK ==
  /\ disk \in [Path -> Set \cup {Absent, Foreign}]
  /\ pc \in {"off", "top", "wait"}
  /\ set \in Set
  /\ before \in Text \cup {None}
  /\ name \in Path \cup {None}
  /\ changed \in BOOLEAN
  /\ justchanged \in BOOLEAN
  /\ counted \in Text
  /\ touched \in Text
  /\ excuse \in {"none", "save failed", "cut short", "undone"}

Loadable(p) == disk[p] \in Set

-----------------------------------------------------------------------------
(* Pieces of the commands.                                                 *)

(* A command was run: back to the top of the event loop. *)
Command == pc = "wait" /\ pc' = "top"

(* DocumentSet:touch *)
Touch ==
  /\ changed' = TRUE
  /\ justchanged' = TRUE
  /\ touched' = set'.text
  /\ excuse' = "none"

(* DocumentSet:clean *)
Clean == changed' = FALSE /\ justchanged' = FALSE

(* SaveDocumentSetRaw, see SaveFile.  A save fails with the old file in      *)
(* place, or with none: it has gone but the new one could not take its name. *)
SaveSucceeds(p) == disk' = [disk EXCEPT ![p] = set]
SaveFails(p) == disk' \in {disk, [disk EXCEPT ![p] = Absent]}

(* The write failed and the close did not say so: the save is reported as a *)
(* success.  What it left loads as another set, or not at all.              *)
SavesPart(p) == \E s \in (Set \cup {Foreign}) \ {set} : disk' = [disk EXCEPT ![p] = s]

(* The flags are cleared before the outcome is known. *)
CleanAndSave(p) ==
  /\ Clean
  /\ \/ SaveSucceeds(p) /\ excuse' = "none"
     \/ SaveFails(p) /\ excuse' = "save failed"
     \/ SavesPart(p) /\ excuse' = "cut short"
  /\ UNCHANGED <<set, before, counted, touched>>

(* ResetDocumentSet: adding the document touches the set, counts its words  *)
(* and the set is then cleaned.                                             *)
ResetDocumentSet ==
  /\ set' = Pristine
  /\ before' = None
  /\ name' = None
  /\ counted' = Blank
  /\ Clean
  /\ touched' = Blank
  /\ excuse' = "none"

LoadCleans(p) ==  \* fault: the whole set is cleaned, the announcement is lost
  /\ set' = disk[p]
  /\ before' = None
  /\ Clean
  /\ touched' = set'.text
  /\ excuse' = "none"
  /\ UNCHANGED counted

(* loaddocument and the rest of LoadDocumentSet: the set is touched, then   *)
(* only its changed flag is cleared.                                        *)
LoadFrom(p) ==
  /\ set' = disk[p]
  /\ before' = None
  /\ changed' = FALSE
  /\ justchanged' = TRUE
  /\ touched' = set'.text
  /\ excuse' = "none"
  /\ UNCHANGED counted

-----------------------------------------------------------------------------
(* Starting and ending the program.                                        *)

Reset == ResetDocumentSet /\ UNCHANGED disk

StartEmpty == pc = "off" /\ pc' = "top" /\ Reset

(* A file named on the command line.  If it cannot be loaded, the empty     *)
(* document set gets its name.                                              *)
StartWith(p) ==
  /\ pc = "off"
  /\ pc' = "top"
  /\ name' = p
  /\ UNCHANGED disk
  /\ \/ Loadable(p) /\ LoadFrom(p)
     \/ /\ ~Loadable(p)
        /\ set' = Pristine
        /\ before' = None
        /\ counted' = Blank
        /\ Clean
        /\ touched' = Blank
        /\ excuse' = "none"

(* A file in another format is imported, saved as a new temporary document  *)
(* set and loaded from there, without its name.  A failed conversion ends   *)
(* the program; where the save left a file that does not load, the imported *)
(* set stays, which was counted when it was selected and cleaned by the     *)
(* save.                                                                    *)
StartConverted(p) ==
  /\ pc = "off"
  /\ disk[p] = Absent
  /\ pc' = "top"
  /\ \E t \in Text : set' = [text |-> t, autosave |-> FALSE]
  /\ before' = None
  /\ name' = None
  /\ changed' = FALSE
  /\ touched' = set'.text
  /\ \/ /\ disk' = [disk EXCEPT ![p] = set']
        /\ justchanged' = TRUE
        /\ excuse' = "none"
        /\ UNCHANGED counted
     \/ /\ disk' = [disk EXCEPT ![p] = Foreign]
        /\ justchanged' = FALSE
        /\ excuse' = "cut short"
        /\ counted' = set'.text

Off ==
  /\ pc' = "off"
  /\ ResetDocumentSet

(* TerminateProgram: the user is asked only if the changed flag is set. *)
TerminateProgram == pc = "wait" /\ Off /\ UNCHANGED disk

(* The program ends from outside. *)
Killed == pc # "off" /\ Off /\ UNCHANGED disk

-----------------------------------------------------------------------------
(* The event loop.                                                         *)

(* Event.Changed, on which the words are counted and numbered. *)
FireChanged ==
  /\ pc = "top"
  /\ pc' = "wait"
  /\ counted' = IF justchanged THEN set.text ELSE counted
  /\ justchanged' = FALSE
  /\ UNCHANGED <<disk, set, before, name, changed, touched, excuse>>

(* Event.Idle, once the autosave period is over.  The name is needed to     *)
(* build that of the autosave; without one the loop fails and is restarted. *)
Autosave ==
  /\ pc = "wait"
  /\ set.autosave /\ changed /\ name # None
  /\ \E p \in Path : SaveSucceeds(p) \/ SaveFails(p) \/ SavesPart(p)
  /\ UNCHANGED <<pc, session>>

AutosaveWithoutName ==
  /\ Command
  /\ set.autosave /\ changed /\ name = None
  /\ UNCHANGED <<disk, session>>

-----------------------------------------------------------------------------
(* Commands.                                                               *)

EditForgetsTouch ==  \* fault: a command changes the text and does not touch the set
  /\ Command
  /\ \E t \in Text \ {set.text} : set' = [set EXCEPT !.text = t]
  /\ before' \in {set.text, before}
  /\ UNCHANGED <<disk, name, counted, changed, justchanged, touched, excuse>>

(* Any command that changes the text, with Cmd.Checkpoint or without.       *)
Edit ==
  /\ Command
  /\ \E t \in Text \ {set.text} : set' = [set EXCEPT !.text = t]
  /\ before' \in {set.text, before}
  /\ Touch
  /\ UNCHANGED <<disk, name, counted>>

(* Undo and redo: the set is not touched. *)
UndoOrRedo ==
  /\ Command
  /\ before # None
  /\ set' = [set EXCEPT !.text = before]
  /\ before' = set.text
  /\ excuse' = "undone"
  /\ UNCHANGED <<disk, name, changed, justchanged, counted, touched>>

ConfigureAutosave ==
  /\ Command
  /\ name # None
  /\ \E b \in BOOLEAN : set' = [set EXCEPT !.autosave = b]
  /\ Touch
  /\ UNCHANGED <<disk, before, name, counted>>

SaveCurrentDocumentAs(p) ==
  /\ Command
  /\ name' = p
  /\ CleanAndSave(p)

(* The file browser asks for a name if there is none. *)
SaveCurrentDocument(p) ==
  /\ name \in {p, None}
  /\ SaveCurrentDocumentAs(p)

SaveCurrentDocumentAsTemplate(p) ==
  /\ Command
  /\ name' = None
  /\ CleanAndSave(p)

(* A load that fails changes nothing. *)
LoadDocumentSet(p) ==
  /\ Command
  /\ Loadable(p)
  /\ LoadFrom(p)
  /\ name' = p
  /\ UNCHANGED disk

CreateDocumentSetFromTemplate(p) ==
  /\ Command
  /\ Loadable(p)
  /\ LoadFrom(p)
  /\ name' = None
  /\ UNCHANGED disk

(* The load failed, or the user refused when asked a second time: the name  *)
(* is taken from the set that stays.                                        *)
CreateFromTemplateFails(p) ==
  /\ Command
  /\ ~Loadable(p) \/ changed
  /\ name' = None
  /\ UNCHANGED <<disk, set, before, changed, justchanged, counted, ghosts>>

CreateBlankDocumentSet == Command /\ Reset

-----------------------------------------------------------------------------
Init ==
  /\ disk \in [Path -> {Pristine, Absent, Foreign}]
  /\ pc = "off"
  /\ set = Pristine
  /\ before = None
  /\ name = None
  /\ changed = FALSE
  /\ justchanged = FALSE
  /\ counted = Blank
  /\ touched = Blank
  /\ excuse = "none"

Next ==
  \/ StartEmpty \/ TerminateProgram \/ Killed
  \/ FireChanged \/ Autosave \/ AutosaveWithoutName
  \/ Edit \/ UndoOrRedo \/ ConfigureAutosave \/ CreateBlankDocumentSet
  \/ \E p \in Path :
       \/ StartWith(p) \/ StartConverted(p)
       \/ SaveCurrentDocument(p) \/ SaveCurrentDocumentAs(p)
       \/ SaveCurrentDocumentAsTemplate(p)
       \/ LoadDocumentSet(p)
       \/ CreateDocumentSetFromTemplate(p) \/ CreateFromTemplateFails(p)

Spec == Init /\ [][Next]_vars

-----------------------------------------------------------------------------
(* Properties.                                                             *)

Unsaved == set # Pristine /\ \A p \in Path : disk[p] # set

(* The user is asked before a set is thrown away exactly if its changed     *)
(* flag is set.  A set that no file holds has the flag, unless its last     *)
(* save failed or wrote only part of it, or undo or redo brought its text   *)
(* back.                                                                    *)
UnsavedIsExplained == Unsaved => changed \/ excuse # "none"

(* When the program waits for a key, the word count and the numbering are   *)
(* those of the text that the last touch, load or reset left.               *)
EveryTouchCounted == pc = "wait" => counted = touched

(* ConfirmDocumentErasure (navigate.lua): "If the current document set has  *)
(* unsaved modifications, asks the user for permission to erase them."      *)
AskedAfterFailedSave == Unsaved /\ excuse = "save failed" => changed
AskedAfterUndo == Unsaved /\ excuse = "undone" => changed

(* main.lua: a document given on the command line that "doesn't exist"      *)
(* primes the document name, so that saving the file is easy.               *)
OnlyMissingFilesPrime ==
  [][pc = "off" /\ pc' = "top" /\ name' # None
       => disk[name'] \in {Absent, set'}]_vars

(* autosave.lua: "You cannot use autosave until you have manually saved     *)
(* your document at least once".                                            *)
AutosaveHasName == set.autosave => name # None

(* redraw.lua: "Does assorted fast updates in the current document on       *)
(* changes": the word count shown is that of the text shown.                *)
CountIsCurrent == pc = "wait" => counted = set.text
=============================================================================
