----------------------------- MODULE UndoHistory -----------------------------
(***************************************************************************)
(* The undo buffer of one document (src/lua/addons/undo.lua).              *)
(*                                                                         *)
(* A snapshot holds the paragraph objects of the document, by identity,    *)
(* and the cursor.  Paragraph objects are immutable and every editing      *)
(* command builds new ones, so identity is what shallowequals compares and *)
(* sharing them between snapshots is safe.  The word and offset of the     *)
(* cursor lie inside an immutable paragraph and are left out.              *)
(***************************************************************************)
EXTENDS Integers, Sequences

CONSTANTS
  Paragraph,   \* identities of paragraph objects
  STACKSIZE,   \* the slot of the undo stack that is always cleared (500)
  MaxParas     \* bound: paragraphs in a document

ASSUME StackSizeAssumption == STACKSIZE \in Nat /\ STACKSIZE >= 2
ASSUME MaxParasAssumption == MaxParas \in Nat /\ MaxParas >= 1

VARIABLES
  doc,         \* the current document: its paragraphs and cp
  undostack,   \* snapshots, most recent first
  redostack    \* snapshots, most recently undone first

vars == <<doc, undostack, redostack>>

-----------------------------------------------------------------------------
(* Types.                                                                  *)

Snapshot == [paras : Seq(Paragraph), cp : Nat]

CursorInside(s) == s.cp \in 1 .. Len(s.paras)

TypeOK ==
  /\ doc \in Snapshot
  /\ undostack \in Seq(Snapshot)
  /\ redostack \in Seq(Snapshot)

-----------------------------------------------------------------------------
(* The document as the editing commands change it.                         *)

InUse == {doc.paras[i] : i \in DOMAIN doc.paras}
           \cup UNION {{s.paras[i] : i \in DOMAIN s.paras} :
                 s \in {undostack[i] : i \in DOMAIN undostack}
                         \cup {redostack[i] : i \in DOMAIN redostack}}

(* CreateParagraph: a new paragraph object for each of the places. *)
NewObjects(places) ==
  {new \in [places -> Paragraph \ InUse] :
     \A i, j \in places : i # j => new[i] # new[j]}

(* What an edit leaves: one new paragraph, or the two halves of a split. *)
Fresh == NewObjects(1 .. 1) \cup NewObjects(1 .. 2)

(* An edit replaces the paragraphs first..last, the cursor's among them, by *)
(* new objects and leaves the cursor in the last of these.                  *)
Replaced(first, last, new) ==
  [paras |-> SubSeq(doc.paras, 1, first - 1) \o new
               \o SubSeq(doc.paras, last + 1, Len(doc.paras)),
   cp    |-> first + Len(new) - 1]

Edited ==
  {s \in {Replaced(first, last, new) :
            first \in 1 .. doc.cp, last \in doc.cp .. Len(doc.paras), new \in Fresh} :
     Len(s.paras) <= MaxParas}

-----------------------------------------------------------------------------
(* undo.lua                                                                *)

SameParagraphs(s, t) == s.paras = t.paras

SaveFirstParagraph ==  \* fault: an incomplete copy
  [paras |-> SubSeq(doc.paras, 1, 1), cp |-> 1]

SaveDocument == [paras |-> doc.paras, cp |-> doc.cp]

LoadDocument(copy) == doc' = [paras |-> copy.paras, cp |-> copy.cp]

CappedOneLate(stack) ==  \* fault: the slot after STACKSIZE is cleared
  IF Len(stack) <= STACKSIZE THEN stack ELSE SubSeq(stack, 1, STACKSIZE)

(* undostack[STACKSIZE] = nil *)
Capped(stack) ==
  IF Len(stack) < STACKSIZE THEN stack ELSE SubSeq(stack, 1, STACKSIZE - 1)

CheckpointAlways ==  \* fault: an unchanged document is pushed again
  /\ undostack' = Capped(<<SaveDocument>> \o undostack)
  /\ redostack' = <<>>

CheckpointKeepsRedo ==  \* fault: the redo stack is not forgotten
  /\ undostack' = Capped(<<SaveDocument>> \o undostack)
  /\ redostack' = redostack

Checkpoint ==
  IF undostack # <<>> /\ SameParagraphs(doc, Head(undostack))
    THEN UNCHANGED <<undostack, redostack>>
    ELSE /\ undostack' = Capped(<<SaveDocument>> \o undostack)
         /\ redostack' = <<>>

(* A key bound to {Checkpoint, command}: the command may change nothing. *)
CheckpointedCommand ==
  /\ Checkpoint
  /\ doc' \in {doc} \cup Edited

(* Commands bound without Checkpoint: the paragraph style menu and movement. *)
(* The style goes to every paragraph of the selection, one end of which is   *)
(* the cursor, or to the cursor's alone.                                     *)
Restyled(first, last, new) ==
  [doc EXCEPT !.paras = [i \in DOMAIN doc.paras |->
                           IF i \in first .. last THEN new[i] ELSE doc.paras[i]]]

ChangeParagraphStyle ==
  /\ \E first \in 1 .. doc.cp, last \in doc.cp .. Len(doc.paras) :
       /\ doc.cp \in {first, last}
       /\ \E new \in NewObjects(first .. last) : doc' = Restyled(first, last, new)
  /\ UNCHANGED <<undostack, redostack>>

MoveCursor ==
  /\ \E n \in 1 .. Len(doc.paras) : doc' = [doc EXCEPT !.cp = n]
  /\ UNCHANGED <<undostack, redostack>>

(* movechange *)
Undo ==
  /\ undostack # <<>>
  /\ undostack' = Tail(undostack)
  /\ redostack' = <<SaveDocument>> \o redostack
  /\ LoadDocument(Head(undostack))

Redo ==
  /\ redostack # <<>>
  /\ redostack' = Tail(redostack)
  /\ undostack' = <<SaveDocument>> \o undostack
  /\ LoadDocument(Head(redostack))

(* A document that was created or loaded has no stacks: they are not saved. *)
NewDocument(d) == d \in {[paras |-> <<p>>, cp |-> 1] : p \in Paragraph}

ReplaceDocument ==
  /\ NewDocument(doc')
  /\ undostack' = <<>>
  /\ redostack' = <<>>

Init == NewDocument(doc) /\ undostack = <<>> /\ redostack = <<>>

Next ==
  \/ CheckpointedCommand
  \/ ChangeParagraphStyle
  \/ MoveCursor
  \/ Undo
  \/ Redo
  \/ ReplaceDocument

Spec == Init /\ [][Next]_vars

-----------------------------------------------------------------------------
(* Properties.                                                             *)

(* The two stacks together hold at most STACKSIZE-1 snapshots: Undo and     *)
(* Redo insert without a limit of their own, so the limit Checkpoint puts   *)
(* on one stack must bound both.                                            *)
StackBound == Len(undostack) + Len(redostack) < STACKSIZE

(* The document always has a paragraph under the cursor, and so has every   *)
(* snapshot undo or redo can bring back.                                    *)
CursorInDocument ==
  /\ CursorInside(doc)
  /\ \A i \in DOMAIN undostack : CursorInside(undostack[i])
  /\ \A i \in DOMAIN redostack : CursorInside(redostack[i])

(* Neighbouring states of the history hold different paragraphs, except     *)
(* perhaps the last two: comparing the document with the top of the stack   *)
(* is enough to keep commands that did nothing from filling the history.    *)
Differ(s, t) == ~SameParagraphs(s, t)

NeighboursDiffer ==
  /\ \A i \in 1 .. Len(undostack) - 1 : Differ(undostack[i], undostack[i + 1])
  /\ undostack # <<>> /\ redostack # <<>> => Differ(doc, undostack[1])
  /\ Len(redostack) >= 2 => Differ(doc, redostack[1])
  /\ \A i \in 1 .. Len(redostack) - 2 : Differ(redostack[i], redostack[i + 1])

(* Checkpoint keeps the redo stack when the document equals the top of the  *)
(* undo stack.  A checkpointed command never leaves anything to redo all    *)
(* the same, so redo can never bring back a state from an abandoned branch. *)
NoRedoAfterEdit == [][CheckpointedCommand => redostack' = <<>>]_vars

(* Whatever the mixture of commands, undo and redo walk along one history:  *)
(* the stacks implement Timeline.                                           *)
PastLen == Len(undostack)

HistoryOf(past, present, future) ==
  [i \in 1 .. (Len(past) + 1 + Len(future)) |->
     IF i <= Len(past) THEN past[Len(past) + 1 - i]
     ELSE IF i = Len(past) + 1 THEN present
     ELSE future[i - Len(past) - 1]]

History == HistoryOf(undostack, doc, redostack)

TL == INSTANCE Timeline WITH
        State <- Snapshot, Limit <- STACKSIZE,
        history <- History, pos <- PastLen + 1

(* A linear history implemented by two stacks (undo.lua). *)
ImplementsTimeline == TL!Spec
=============================================================================
