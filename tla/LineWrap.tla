------------------------------ MODULE LineWrap ------------------------------
(***************************************************************************)
(* How a paragraph is broken into lines: wrap and wrapBoth of              *)
(* src/src/lua/document.lua, the second of which also spreads the words of *)
(* a line over its width.  A paragraph is wrapped anew at every call; one  *)
(* step puts one word, or moves words by one column.                       *)
(*                                                                         *)
(* A word is its width and whether a full stop ends it.  Words do not break,*)
(* so one that is wider than the line sticks out; if it is the first of    *)
(* the paragraph, an empty line comes before it.                           *)
(***************************************************************************)
EXTENDS Integers, Sequences

CONSTANTS
  Paragraphs,  \* [style : Style, words : Seq(Word)]
  Widths,      \* widths of the text
  FullStops    \* WantFullStopSpaces()

Word == [len : Nat, stop : BOOLEAN]
(* The indents of the first line and of the others; whether it is justified. *)
Style == [first : Nat, rest : Nat, both : BOOLEAN]

ASSUME WrapAssumption ==
  /\ Paragraphs \subseteq [style : Style, words : Seq(Word) \ {<<>>}]
  /\ \A p \in Paragraphs : p.style.both => p.style.rest = 0
  /\ Widths \subseteq Nat
  /\ FullStops \in BOOLEAN

VARIABLES
  width,   \* Document.wrapwidth, which stays the same here
  para,    \* the paragraph last wrapped
  pc,      \* "idle", "wrap" or "justify"
  wn,      \* the next word
  lines,   \* the lines so far, [wn, words]: the first word, and all of them
  line,    \* the line begun
  w,       \* how much of it is used
  room,    \* the width of the lines from here on
  xs,      \* where each word is in its line
  linesw,  \* how much of each line is used
  at       \* the line to justify, ln, and the word to put a space after, n

loop == <<para, pc, wn, lines, line, w, room, xs, linesw, at>>

Count == Len(para.words)
WordWidth(i) ==
  para.words[i].len + 1 + (IF FullStops /\ para.words[i].stop THEN 1 ELSE 0)
Indent(ln) == IF ln = 1 THEN para.style.first ELSE para.style.rest

-----------------------------------------------------------------------------
(* The calls and the loops.                                                 *)

Call(p) ==
  /\ pc = "idle"
  /\ para' = p
  /\ pc' = "wrap"
  /\ wn' = 1
  /\ lines' = <<>>
  /\ line' = [wn |-> 1, words |-> <<>>]
  /\ w' = 0
  /\ room' = width - p.style.first
  /\ xs' = <<>>
  /\ linesw' = <<>>
  /\ at' = [ln |-> 1, n |-> 1]

PutInLine ==
  /\ line' = [line EXCEPT !.words = Append(@, wn)]
  /\ w' = w + WordWidth(wn)
  /\ xs' = Append(xs, w)
  /\ UNCHANGED <<lines, linesw, room>>

(* Fault: the new line takes over the first word of the old one. *)
PutInNextLineAsBefore ==
  /\ lines' = Append(lines, line)
  /\ linesw' = Append(linesw, w)
  /\ room' = IF lines = <<>> THEN room + Indent(1) - Indent(2) ELSE room
  /\ line' = [line EXCEPT !.words = <<wn>>]
  /\ w' = WordWidth(wn)
  /\ xs' = Append(xs, 0)

(* Fault: the indent of the first line is taken off all of them. *)
PutInNextLineAsFirst ==
  /\ lines' = Append(lines, line)
  /\ linesw' = Append(linesw, w)
  /\ room' = IF lines = <<>> THEN room - Indent(2) ELSE room
  /\ line' = [wn |-> wn, words |-> <<wn>>]
  /\ w' = WordWidth(wn)
  /\ xs' = Append(xs, 0)

PutInNextLine ==
  /\ lines' = Append(lines, line)
  /\ linesw' = Append(linesw, w)
  /\ room' = IF lines = <<>> THEN room + Indent(1) - Indent(2) ELSE room
  /\ line' = [wn |-> wn, words |-> <<wn>>]
  /\ w' = WordWidth(wn)
  /\ xs' = Append(xs, 0)

(* Fault: the width is looked at before the word is added. *)
FitsSoFar == w < room

Fits == w + WordWidth(wn) < room

PutWord ==
  /\ pc = "wrap"
  /\ wn <= Count
  /\ IF Fits THEN PutInLine ELSE PutInNextLine
  /\ wn' = wn + 1
  /\ UNCHANGED <<width, para, pc, at>>

EndWrap ==
  /\ pc = "wrap"
  /\ wn > Count
  /\ lines' = Append(lines, line)
  /\ linesw' = Append(linesw, w)
  /\ w' = linesw'[1]
  /\ pc' = IF para.style.both THEN "justify" ELSE "idle"
  /\ UNCHANGED <<width, para, wn, line, room, xs, at>>

(* All lines but the last, to their full width.                             *)
Slack == w < room - (IF at.ln = 1 THEN para.style.first ELSE 0)
SpaceAfter == IF at.n > Len(lines[at.ln].words) THEN 1 ELSE at.n

(* Fault: only the spaces that move a word are counted. *)
AddSpaceBetween ==
  /\ pc = "justify"
  /\ at.ln < Len(lines)
  /\ Slack
  /\ LET moved == {lines[at.ln].words[j] : j \in SpaceAfter + 1 .. Len(lines[at.ln].words)}
     IN  /\ xs' = [i \in DOMAIN xs |-> IF i \in moved THEN xs[i] + 1 ELSE xs[i]]
         /\ w' = IF moved = {} THEN w ELSE w + 1
  /\ at' = [at EXCEPT !.n = SpaceAfter + 1]
  /\ UNCHANGED <<width, para, pc, wn, lines, line, room, linesw>>

(* The words of the line after the n-th go one column to the right.         *)
AddSpace ==
  /\ pc = "justify"
  /\ at.ln < Len(lines)
  /\ Slack
  /\ xs' = [i \in DOMAIN xs |->
              IF \E j \in DOMAIN lines[at.ln].words :
                   j > SpaceAfter /\ lines[at.ln].words[j] = i
              THEN xs[i] + 1 ELSE xs[i]]
  /\ w' = w + 1
  /\ at' = [at EXCEPT !.n = SpaceAfter + 1]
  /\ UNCHANGED <<width, para, pc, wn, lines, line, room, linesw>>

NextLine ==
  /\ pc = "justify"
  /\ at.ln < Len(lines)
  /\ ~Slack
  /\ at' = [ln |-> at.ln + 1, n |-> 1]
  /\ w' = linesw[at.ln + 1]
  /\ UNCHANGED <<width, para, pc, wn, lines, line, room, xs, linesw>>

EndJustify ==
  /\ pc = "justify"
  /\ at.ln = Len(lines)
  /\ pc' = "idle"
  /\ UNCHANGED <<width, para, wn, lines, line, w, room, xs, linesw, at>>

Step == PutWord \/ EndWrap \/ AddSpace \/ NextLine \/ EndJustify

-----------------------------------------------------------------------------
WrapInit ==
  /\ width \in Widths
  /\ para \in Paragraphs
  /\ pc = "idle"
  /\ wn = 1
  /\ lines = <<>>
  /\ line = [wn |-> 1, words |-> <<>>]
  /\ w = 0
  /\ room = 0
  /\ xs = <<>>
  /\ linesw = <<>>
  /\ at = [ln |-> 1, n |-> 1]

WrapNext ==
  \/ \E p \in Paragraphs : Call(p) /\ UNCHANGED width
  \/ Step

WrapSpec == WrapInit /\ [][WrapNext]_<<width, loop>>
-----------------------------------------------------------------------------
(* Properties.                                                              *)

Wrapped == pc = "idle" /\ lines # <<>>

(* The first word behind a line. *)
Behind(l) == l.wn + Len(l.words)
RunOfWords(l) == \A i \in DOMAIN l.words : l.words[i] = l.wn + i - 1

(* Every word is in exactly one line, the lines in the order of the words,  *)
(* each without a gap and with the number of its first word, and only the   *)
(* first line can be empty: what getLineOfWord and getWordOfLine rely on.   *)
LinesPartition ==
  Wrapped =>
    /\ lines[1].wn = 1
    /\ \A k \in DOMAIN lines :
         /\ RunOfWords(lines[k])
         /\ k > 1 => lines[k].words # <<>>
         /\ Behind(lines[k]) = IF k < Len(lines) THEN lines[k + 1].wn ELSE Count + 1

(* The words of a line come one after the other, and, unless there is only  *)
(* one, all of them fit, also when spaces have been put between them.       *)
LineFits(l, k) ==
  /\ \A i \in l.wn .. Behind(l) - 2 : xs[i] + WordWidth(i) <= xs[i + 1]
  /\ Len(l.words) > 1 => xs[Behind(l) - 1] + WordWidth(Behind(l) - 1) <= width - Indent(k)
LinesFit == Wrapped => \A k \in DOMAIN lines : LineFits(lines[k], k)

(* A new line is begun only where the next word does not fit any more.      *)
LinesFull ==
  Wrapped => \A k \in 1 .. Len(lines) - 1 :
    linesw[k] + WordWidth(lines[k + 1].wn) >= width - Indent(k)
=============================================================================
