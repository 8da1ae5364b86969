------------------------------ MODULE SaveFile ------------------------------
(***************************************************************************)
(* SaveToStream (src/lua/fileio.lua): every document set and the global    *)
(* settings are written to filename.new, which then takes the place of     *)
(* filename.  One step per call into the operating system; each call can   *)
(* fail, and the program can stop between any two.  A stop of the whole    *)
(* machine, which may reorder what reaches the disk, is not modelled.      *)
(***************************************************************************)
CONSTANTS
  Version,  \* the versions of the object that can be saved
  NoFile    \* no file

(* What a file holds: a version, or only a part of it. *)
File == [of : Version, whole : BOOLEAN]
Whole(v) == [of |-> v, whole |-> TRUE]
Part(v) == [of |-> v, whole |-> FALSE]

ASSUME FileAssumption == NoFile \notin File

OnDisk == File \cup {NoFile}

VARIABLES
  file,     \* filename
  temp,     \* filename.new
  call,     \* the next call of SaveToStream
  saving,   \* the version SaveToStream was called with
  written,  \* the result of fp:write
  \* History variables, read by no action:
  acked,    \* what the last save reported as a success had written
  start,    \* the two files as the save in progress found them
  silent    \* did the last save to end fail to write, and its close not say so?

savevars == <<file, temp, call, saving, written, acked, start, silent>>

Files(f, t) == [file |-> f, temp |-> t]

FilesOK ==
  /\ file \in OnDisk
  /\ temp \in OnDisk
  /\ call \in {"idle", "write", "close", "remove", "rename"}
  /\ saving \in Version \cup {NoFile}
  /\ written \in BOOLEAN
  /\ acked \in OnDisk
  /\ start \in [file : OnDisk, temp : OnDisk]
  /\ silent \in BOOLEAN

SaveInit ==
  /\ file = NoFile
  /\ temp = NoFile
  /\ call = "idle"
  /\ saving = NoFile
  /\ written = FALSE
  /\ acked = NoFile
  /\ start = Files(NoFile, NoFile)
  /\ silent = FALSE

-----------------------------------------------------------------------------
(* SaveToStream.                                                           *)

Return ==
  /\ call' = "idle" /\ saving' = NoFile /\ written' = FALSE
  /\ start' = Files(NoFile, NoFile)
  /\ silent' = (call \in {"remove", "rename"} /\ ~written)

OpenInPlace ==  \* fault: the file itself is opened for writing
  /\ call = "idle"
  /\ \E v \in Version : saving' = v /\ file' = Part(v)
  /\ start' = Files(file, temp)
  /\ call' = "write"
  /\ UNCHANGED <<temp, written, acked, silent>>

(* io.open(filename..".new", "wb") creates or truncates it; a failed open   *)
(* returns and changes nothing.                                             *)
Open ==
  /\ call = "idle"
  /\ \E v \in Version : saving' = v /\ temp' = Part(v)
  /\ start' = Files(file, temp)
  /\ call' = "write"
  /\ UNCHANGED <<file, written, acked, silent>>

(* writetostream raises an error for a value it cannot serialise; the main  *)
(* loop catches it and the temporary file stays as it is.                   *)
SerialiseFails ==
  /\ call = "write"
  /\ Return
  /\ UNCHANGED <<file, temp, acked>>

Write ==
  /\ call = "write"
  /\ written' \in BOOLEAN
  /\ call' = "close"
  /\ UNCHANGED <<file, temp, saving, acked, start, silent>>

(* The result of the write is overwritten by that of the close.  The C      *)
(* library reports only what fails in the close itself, the write of what   *)
(* was left in the buffer: it can succeed when an earlier write has failed. *)
CloseSucceeds ==
  /\ call = "close"
  /\ temp' = IF written THEN Whole(saving) ELSE Part(saving)
  /\ call' = "remove"
  /\ UNCHANGED <<file, saving, written, acked, start, silent>>

CloseFailureIgnored ==  \* fault: a failed close is taken for success
  /\ call = "close"
  /\ call' = "remove"
  /\ UNCHANGED <<file, temp, saving, written, acked, start, silent>>

CloseFails ==
  /\ call = "close"
  /\ Return
  /\ UNCHANGED <<file, temp, acked>>

(* os.remove(filename): its result is not looked at. *)
Remove ==
  /\ call = "remove"
  /\ file' \in {NoFile, file}
  /\ call' = "rename"
  /\ UNCHANGED <<temp, saving, written, acked, start, silent>>

Rename ==
  /\ call = "rename"
  /\ file' = temp
  /\ temp' = NoFile
  /\ acked' = IF written THEN Whole(saving) ELSE Part(saving)
  /\ Return

RenameFailsTidy ==  \* fault: the temporary file is deleted when the rename fails
  /\ call = "rename"
  /\ temp' = NoFile
  /\ Return
  /\ UNCHANGED <<file, acked>>

RenameFails ==
  /\ call = "rename"
  /\ Return
  /\ UNCHANGED <<file, temp, acked>>

(* The program ends, between two calls or in the middle of a save. *)
Stop ==
  /\ call # "idle"
  /\ Return
  /\ UNCHANGED <<file, temp, acked>>

SaveNext ==
  \/ Open \/ SerialiseFails \/ Write
  \/ CloseSucceeds \/ CloseFails
  \/ Remove \/ Rename \/ RenameFails
  \/ Stop

SaveSpec == SaveInit /\ [][SaveNext]_savevars

-----------------------------------------------------------------------------
(* Properties.                                                             *)

(* SaveToStream removes and replaces the file only when "we know the new    *)
(* file has been written correctly" (fileio.lua:156).                       *)
NewFileIsWhole == call \in {"remove", "rename"} => temp = Whole(saving)

(* Whatever fails, and wherever the program stops, the user finds under the *)
(* name what the last save reported as a success had written, or no file:   *)
(* never a version whose save was reported as failed or never ended, and    *)
(* part of one only where that very save could not write all of it.         *)
AckedOrMissing == file \in {acked, NoFile}

(* A version can be got back from the disk, under its name or as .new.      *)
IsWhole(f) == f \in File /\ f.whole
Recoverable == IsWhole(file) \/ IsWhole(temp)

(* The last whole version is lost in two ways only: a new save starts while *)
(* it is not under its name, or a write fails and the close does not say so.*)
(* No other failure, and no stop between any two calls, loses it.           *)
LossExplained ==
  [][Recoverable /\ ~Recoverable' =>
       \/ call = "idle" /\ ~IsWhole(file)
       \/ call \in {"remove", "rename"} /\ ~written]_savevars

(* Seen from its caller a save is one step of AtomicFile: nothing of the    *)
(* calls in between shows in the files it leaves, however it ends.          *)
Settled(now, before) == IF call = "idle" THEN now ELSE before

AF == INSTANCE AtomicFile WITH
        Nothing <- NoFile,
        file    <- Settled(file, start.file),
        aside   <- Settled(temp, start.temp),
        told    <- acked

ImplementsAtomicFile == AF!Spec
=============================================================================
