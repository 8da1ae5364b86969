---------------------------- MODULE DocumentEdit ----------------------------
(***************************************************************************)
(* Editing one document (src/lua/navigate.lua, with the paragraphs of      *)
(* document.lua and the words of word.c).                                  *)
(*                                                                         *)
(* A command is an operator from a document to a document; the actions are *)
(* what the keys and the menus bind (main.lua, menu.lua), from the state   *)
(* when the key arrives to the state when the next one is waited for.      *)
(*                                                                         *)
(* Left out: paragraph styles, and where lines are wrapped; a command that *)
(* moves by lines or pages may go to any place such a command can reach.   *)
(* The style hint may be any style: it is what the user last set or the    *)
(* style at the cursor.                                                    *)
(*                                                                         *)
(* An edit can leave the cursor, or a sticky mark, behind the end of a     *)
(* word.  Such a state can be reached here, but the model stops there:     *)
(* word.c then reads what follows the word in memory.                      *)
(***************************************************************************)
EXTENDS StyledWord

CONSTANTS
  SP, NL,   \* between words and between paragraphs, in the flat text
  MaxText,  \* bound: symbols in the text
  MaxClip   \* bound: symbols in the clipboard

ASSUME BoundsAssumption == MaxText \in Nat /\ MaxClip \in Nat

VARIABLES
  doc,  \* the current document: paras, cp, cw, co, mark (<<>> or <<p, w, o>>), sticky
  clip  \* the paragraphs of the clipboard; <<>> if there is none

vars == <<doc, clip>>

NoMark == <<>>
Marked(d) == d.mark # NoMark

Paragraph(d) == d.paras[d.cp]
CurrentWord(d) == Paragraph(d)[d.cw]

At(d, p, w, o) == [d EXCEPT !.cp = p, !.cw = w, !.co = o]

(* paragraph:sub(start, count) and paragraph:sub(start) *)
Sub(paragraph, start, count) ==
  SubSeq(paragraph, start, start + (IF count < Len(paragraph) - start + 1
                                    THEN count ELSE Len(paragraph) - start + 1) - 1)
SubFrom(paragraph, start) == SubSeq(paragraph, start, Len(paragraph))

(* The words that take the place of `gone` words from the cursor's on. *)
PutWords(d, gone, words) ==
  [d EXCEPT !.paras[d.cp] = Sub(@, 1, d.cw - 1) \o words \o SubFrom(@, d.cw + gone)]

-----------------------------------------------------------------------------
(* Moving.                                                                  *)

GotoBeginningOfWord(d) == [d EXCEPT !.co = 1]
GotoEndOfWord(d) == [d EXCEPT !.co = Len(CurrentWord(d)) + 1]
GotoBeginningOfParagraph(d) == At(d, d.cp, 1, 1)
GotoEndOfParagraph(d) == GotoEndOfWord([d EXCEPT !.cw = Len(Paragraph(d))])
GotoBeginningOfDocument(d) == At(d, 1, 1, 1)
GotoEndOfDocument(d) == GotoEndOfParagraph([d EXCEPT !.cp = Len(d.paras)])

KeepsWordNumber(d) ==  \* fault: the cursor keeps its word number
  IF d.cp = 1 THEN d ELSE At(d, d.cp - 1, d.cw, 1)

GotoPreviousParagraphW(d) == IF d.cp = 1 THEN d ELSE At(d, d.cp - 1, 1, 1)
GotoNextParagraphW(d) == IF d.cp = Len(d.paras) THEN d ELSE At(d, d.cp + 1, 1, 1)

(* In the first word of a paragraph, to the paragraph before.               *)
GotoPreviousWordW(d) ==
  IF d.cw > 1
    THEN IF PrevCharInWord(CurrentWord(d), d.co) # 0
           THEN GotoBeginningOfWord(d) ELSE At(d, d.cp, d.cw - 1, 1)
  ELSE IF d.cp > 1 THEN GotoEndOfParagraph(GotoPreviousParagraphW(d)) ELSE d

GotoNextWordW(d) ==
  IF d.cw < Len(Paragraph(d)) THEN At(d, d.cp, d.cw + 1, 1)
  ELSE IF d.cp < Len(d.paras) THEN GotoNextParagraphW(d) ELSE GotoEndOfWord(d)

AtStart(d) == d.cp = 1 /\ d.cw = 1 /\ PrevCharInWord(CurrentWord(d), d.co) = 0
AtEnd(d) == d.cp = Len(d.paras) /\ d.cw = Len(Paragraph(d))

GotoPreviousCharW(d) ==
  LET co == PrevCharInWord(CurrentWord(d), d.co)
  IN  IF co # 0 THEN [d EXCEPT !.co = co]
      ELSE IF AtStart(d) THEN d ELSE GotoEndOfWord(GotoPreviousWordW(d))

GotoNextCharW(d) ==
  LET co == NextCharInWord(CurrentWord(d), d.co)
  IN  IF co # 0 THEN [d EXCEPT !.co = co] ELSE GotoNextWordW(d)

(* GetOffsetFromWidth: at either end, after a character, or before one that  *)
(* is too wide for what is left of the width.                               *)
Stops(word) ==
  {o \in 1 .. Len(word) + 1 : \/ o \in {1, Len(word) + 1}
                              \/ ~IsCode(word[o - 1])
                              \/ ~IsCode(word[o])}

(* GotoXPosition, in any line. *)
GotoXPosition(d) ==
  UNION {UNION {{At(d, p, w, o) : o \in Stops(d.paras[p][w])}
                : w \in DOMAIN d.paras[p]} : p \in DOMAIN d.paras}

-----------------------------------------------------------------------------
(* The mark.                                                                *)

(* rewind_past_style_bytes *)
RewindPastStyleBytes(word, o) ==
  LET p == PrevCharInWord(word, o) IN IF p = 0 THEN 1 ELSE NextCharInWord(word, p)

MarkHere(d, sticky) ==
  [d EXCEPT !.mark = <<d.cp, d.cw, RewindPastStyleBytes(CurrentWord(d), d.co)>>,
            !.sticky = sticky]

SetMark(d) == IF Marked(d) THEN d ELSE MarkHere(d, FALSE)
UnsetMark(d) == [d EXCEPT !.mark = NoMark]
ToggleMark(d) ==
  IF Marked(d) THEN [d EXCEPT !.mark = NoMark, !.sticky = FALSE] ELSE MarkHere(d, TRUE)

MoveWhileSelected(d) == IF Marked(d) /\ ~d.sticky THEN UnsetMark(d) ELSE d

SelectWord(d) == GotoEndOfWord(SetMark(GotoBeginningOfWord(UnsetMark(d))))

Cursor(d) == <<d.cp, d.cw, d.co>>

After(a, b) ==
  \/ a[1] > b[1]
  \/ a[1] = b[1] /\ a[2] > b[2]
  \/ a[1] = b[1] /\ a[2] = b[2] /\ a[3] > b[3]

(* getMarks *)
Start(d) == IF After(d.mark, Cursor(d)) THEN Cursor(d) ELSE d.mark
End(d) == IF After(d.mark, Cursor(d)) THEN d.mark ELSE Cursor(d)

PlaceIn(paras, m) ==
  /\ m[1] \in DOMAIN paras
  /\ m[2] \in DOMAIN paras[m[1]]
  /\ m[3] \in 1 .. Len(paras[m[1]][m[2]]) + 1

MarkInDocument(d) == Marked(d) => PlaceIn(d.paras, d.mark)
CursorInDocument(d) == PlaceIn(d.paras, Cursor(d))

-----------------------------------------------------------------------------
(* Inserting and splitting.  hint is GetCurrentStyleHint().                 *)

InsertBeforeCursorCode(d, c, hint) ==  \* fault: the cursor stays before what is typed
  PutWords(d, 1, <<InsertIntoWord(CurrentWord(d), c, d.co, hint).word>>)

(* The result of insertintoword in place of `gone` words, and the cursor.    *)
PutInserted(d, gone, r) == [PutWords(d, gone, <<r.word>>) EXCEPT !.co = r.stop]

InsertStringIntoWord(d, c, hint) ==
  PutInserted(d, 1, InsertIntoWord(CurrentWord(d), c, d.co, hint))

(* The cursor goes between the style code and the one that takes it back.   *)
SplitCurrentWord(d, hint) ==
  LET word  == CurrentWord(d)
      prime == IF Marked(d) THEN <<>> ELSE StylePrime(hint)
      left  == DeleteFromWord(word, d.co, Len(word) + 1)
      right == prime \o DeleteFromWord(word, 1, d.co)
  IN  At(PutWords(d, 1, <<left, right>>), d.cp, d.cw + 1, IF Marked(d) THEN 1 ELSE 2)

(* The paragraphs in place of `gone` paragraphs from the cursor's on.       *)
PutParagraphs(d, gone, paras) ==
  [d EXCEPT !.paras = SubSeq(@, 1, d.cp - 1) \o paras \o SubSeq(@, d.cp + gone, Len(@))]

SplitBeforeWord(d) ==
  At(PutParagraphs(d, 1, <<Sub(Paragraph(d), 1, d.cw - 1), SubFrom(Paragraph(d), d.cw)>>),
     d.cp + 1, 1, 1)

SplitCurrentParagraph(d, hint) ==
  SplitBeforeWord(IF d.co = 1 /\ d.cw > 1 THEN d ELSE SplitCurrentWord(d, hint))

-----------------------------------------------------------------------------
(* Joining and deleting.                                                    *)

JoinWithNextParagraph(d) ==
  PutParagraphs(d, 2, <<Paragraph(d) \o d.paras[d.cp + 1]>>)

JoinTwoWords(d) ==
  PutInserted(d, 2, InsertIntoWord(Paragraph(d)[d.cw + 1], CurrentWord(d), 1, Plain))

JoinWithNextWord(d) ==
  IF AtEnd(d) THEN d
  ELSE JoinTwoWords(IF d.cw = Len(Paragraph(d)) THEN JoinWithNextParagraph(d) ELSE d)

DeleteNextChar(d) ==
  LET next == NextCharInWord(CurrentWord(d), d.co)
  IN  IF next = 0 THEN JoinWithNextWord(d)
      ELSE PutWords(d, 1, <<DeleteFromWord(CurrentWord(d), d.co, next)>>)

DeletePreviousChar(d) == IF AtStart(d) THEN d ELSE DeleteNextChar(GotoPreviousCharW(d))

DeleteWordLeftOfCursor(d) ==
  [PutWords(d, 1, <<DeleteFromWord(CurrentWord(d), 1, d.co)>>) EXCEPT !.co = 1]

DeleteWord(d) ==
  IF d.co = 1 /\ d.cw = 1 THEN DeletePreviousChar(d)
  ELSE LET joined(t) == IF t.cw # 1 THEN DeletePreviousChar(t) ELSE t
       IN  joined(DeleteWordLeftOfCursor(GotoEndOfWord(
             IF d.co = 1 THEN DeletePreviousChar(d) ELSE d)))

SplitAt(d, m) == SplitCurrentParagraph(At(d, m[1], m[2], m[3]), Plain)

SplitOff(d) == SplitAt(SplitAt(d, End(d)), Start(d))

Rejoined(d) == JoinWithNextWord(GotoEndOfWord(GotoPreviousWordW(d)))

DeleteJoinsWords(d) ==  \* fault: the space before the selection is not kept
  UnsetMark(Rejoined(PutParagraphs(SplitOff(d), End(d)[1] - Start(d)[1] + 1, <<>>)))

(* Cmd.Delete: the selection is split off, as whole paragraphs, from its    *)
(* end and then from its beginning; these are deleted and the rest joined.  *)
Delete(d) ==
  LET a == Start(d)
      respaced(s) == IF a[3] = 1 /\ a[2] > 1 THEN SplitCurrentWord(s, Plain) ELSE s
  IN  UnsetMark(respaced(Rejoined(PutParagraphs(SplitOff(d), End(d)[1] - a[1] + 1, <<>>))))

DeleteSelectionOr(d, otherwise) == IF Marked(d) THEN Delete(d) ELSE otherwise

TypeKeepsSelection(d) == d  \* fault: the selection survives typing

TypeWhileSelected(d) == IF Marked(d) /\ ~d.sticky THEN Delete(d) ELSE d

-----------------------------------------------------------------------------
(* The clipboard.                                                           *)

(* Cmd.Copy: the paragraphs of the selection, without the words and then    *)
(* without the characters at either end that are not selected.              *)
Copied(d) ==
  LET a == Start(d)
      b == End(d)
      n == b[1] - a[1] + 1
      lastword == IF n = 1 THEN b[2] - a[2] + 1 ELSE b[2]
      from(p, w) == [p EXCEPT ![1] = SubFrom(@, w)]
      upto(p, w, o) == [p EXCEPT ![n] =
                          Sub(@, 1, w - 1) \o <<DeleteFromWord(@[w], o, Len(@[w]) + 1)>>]
      fromchar(p, o) == [p EXCEPT ![1] = <<DeleteFromWord(@[1], 1, o)>> \o SubFrom(@, 2)]
  IN  fromchar(upto(from(SubSeq(d.paras, a[1], b[1]), a[2]), lastword, b[3]), a[3])

(* Cmd.Paste without a mark: the current word is split and the first        *)
(* paragraph of the buffer goes between its halves, joined to the left one; *)
(* the others go before the right half.                                     *)
PutIn(d, buffer, hint) ==
  LET withFirst(s) == [PutWords(s, 0, buffer[1]) EXCEPT !.cw = d.cw]
      pastFirst(s) == [JoinWithNextWord(withFirst(s)) EXCEPT !.cw = d.cw + Len(buffer[1])]
      withRest(s) == At(PutParagraphs(s, 0, Tail(buffer)), s.cp + Len(buffer) - 1, 1, 1)
      first == pastFirst(SplitCurrentWord(d, hint))
  IN  IF Len(buffer) = 1 THEN first ELSE withRest(SplitCurrentParagraph(first, hint))

PasteLeavesGap(d, buffer, hint) ==  \* fault: the last word is not joined
  GotoPreviousCharW(GotoBeginningOfWord(PutIn(d, buffer, hint)))

(* Then the right half is joined to what was pasted last. *)
Pasted(d, buffer, hint) ==
  JoinWithNextWord(GotoPreviousCharW(GotoBeginningOfWord(PutIn(d, buffer, hint))))

Paste(d, buffer, hint) == Pasted(IF Marked(d) THEN Delete(d) ELSE d, buffer, hint)

(* style_tab, applied to the selection.                                     *)
ApplyStyleToSelection(d, sor, sand) ==
  LET a == Start(d)
      b == End(d)
      from(p, w) == IF p = a[1] /\ w = a[2] THEN a[3] ELSE 1
      to(p, w) == IF p = b[1] /\ w = b[2] THEN b[3] ELSE Len(d.paras[p][w]) + 1
      in(p, w) == ~After(<<a[1], a[2], 1>>, <<p, w, 1>>) /\ ~After(<<p, w, 1>>, <<b[1], b[2], 1>>)
      styled(p, w) == ApplyStyleToWord(d.paras[p][w], sor, sand, from(p, w), to(p, w), d.co)
  IN  UnsetMark([d EXCEPT
        !.paras = [p \in DOMAIN @ |-> [w \in DOMAIN @[p] |->
                     IF in(p, w) THEN styled(p, w).word ELSE @[p][w]]],
        !.co = styled(d.cp, d.cw).cursor])

-----------------------------------------------------------------------------
(* The flat text and places in it.                                          *)

(* What T gives for the elements of s, with sep in between. *)
JoinedBy(T(_), s, sep) ==
  LET upto[i \in DOMAIN s] == IF i = 1 THEN T(s[1]) ELSE upto[i - 1] \o <<sep>> \o T(s[i])
  IN  upto[Len(s)]

Joined(seqs, sep) == JoinedBy(LAMBDA s : s, seqs, sep)
FlatParagraph(p) == JoinedBy(GetWordText, p, SP)
Flat(paras) == JoinedBy(FlatParagraph, paras, NL)

(* How many symbols lie before a place of the document. *)
FlatPlace(paras, m) ==
  LET word == paras[m[1]][m[2]]
  IN  Len(Flat(SubSeq(paras, 1, m[1] - 1)
               \o <<Sub(paras[m[1]], 1, m[2] - 1) \o <<Sub(word, 1, m[3] - 1)>>>>))

Text == Flat(doc.paras)
Selected(d) == SubSeq(Flat(d.paras), FlatPlace(d.paras, Start(d)) + 1, FlatPlace(d.paras, End(d)))

-----------------------------------------------------------------------------
(* What keys and menu entries do.                                           *)

SomethingSelected == CursorInDocument(doc) /\ Marked(doc) /\ MarkInDocument(doc)

Room(n) == Len(Text) + n <= MaxText

MoveTargets(d) ==
  {GotoPreviousCharW(d), GotoNextCharW(d), GotoPreviousWordW(d), GotoNextWordW(d),
   GotoPreviousParagraphW(d), GotoNextParagraphW(d), GotoBeginningOfDocument(d),
   GotoEndOfDocument(d)} \cup GotoXPosition(d)

Move ==
  /\ CursorInDocument(doc)
  /\ doc' \in MoveTargets(MoveWhileSelected(doc))
  /\ clip' = clip

Select ==
  /\ CursorInDocument(doc)
  /\ doc' \in MoveTargets(SetMark(doc))
  /\ clip' = clip

SelectTheWord ==
  /\ CursorInDocument(doc)
  /\ doc' = SelectWord(doc)
  /\ clip' = clip

Toggle ==
  /\ CursorInDocument(doc)
  /\ doc' = ToggleMark(doc)
  /\ clip' = clip

TypeChar ==
  /\ CursorInDocument(doc) /\ Room(1)
  /\ \E c \in Char, hint \in Style :
       doc' = InsertStringIntoWord(TypeWhileSelected(doc), <<c>>, hint)
  /\ clip' = clip

TypeSpace ==
  /\ CursorInDocument(doc) /\ Room(1)
  /\ \E hint \in Style : doc' = SplitCurrentWord(TypeWhileSelected(doc), hint)
  /\ clip' = clip

TypeReturn ==
  /\ CursorInDocument(doc) /\ Room(1)
  /\ \E hint \in Style : doc' = SplitCurrentParagraph(TypeWhileSelected(doc), hint)
  /\ clip' = clip

Backspace ==
  /\ CursorInDocument(doc) /\ MarkInDocument(doc)
  /\ doc' = DeleteSelectionOr(doc, DeletePreviousChar(doc))
  /\ clip' = clip

DeleteKey ==
  /\ CursorInDocument(doc) /\ MarkInDocument(doc)
  /\ doc' = DeleteSelectionOr(doc, DeleteNextChar(doc))
  /\ clip' = clip

DeleteWordKey ==
  /\ CursorInDocument(doc)
  /\ doc' = DeleteWord(TypeWhileSelected(doc))
  /\ clip' = clip

SetStyle ==
  /\ SomethingSelected
  /\ \/ \E a \in Attribute : doc' = ApplyStyleToSelection(doc, {a}, Attribute)
     \/ doc' = ApplyStyleToSelection(doc, Plain, Plain)
  /\ clip' = clip

CopyKey ==
  /\ SomethingSelected /\ Len(Selected(doc)) <= MaxClip
  /\ clip' = Copied(doc)
  /\ doc' = UnsetMark(doc)

CutKey ==
  /\ SomethingSelected /\ Len(Selected(doc)) <= MaxClip
  /\ clip' = Copied(doc)
  /\ doc' = Delete(doc)

PasteKey ==
  /\ CursorInDocument(doc) /\ MarkInDocument(doc)
  /\ clip # <<>> /\ Room(Len(Flat(clip)))
  /\ \E hint \in Style : doc' = Paste(doc, clip, hint)
  /\ clip' = clip

Init ==
  /\ doc = [paras |-> <<<< <<>> >>>>, cp |-> 1, cw |-> 1, co |-> 1,
            mark |-> NoMark, sticky |-> FALSE]
  /\ clip = <<>>

Next ==
  \/ Move \/ Select \/ SelectTheWord \/ Toggle
  \/ TypeChar \/ TypeSpace \/ TypeReturn
  \/ Backspace \/ DeleteKey \/ DeleteWordKey
  \/ SetStyle \/ CopyKey \/ CutKey \/ PasteKey

Spec == Init /\ [][Next]_vars

-----------------------------------------------------------------------------
(* Properties.                                                              *)

(* The cursor is at a word, and no paragraph or document is ever empty: the *)
(* commands index Document[cp][cw] without a check.                         *)
CursorWordExists ==
  /\ doc.cp \in DOMAIN doc.paras
  /\ doc.cw \in DOMAIN Paragraph(doc)
  /\ \A p \in DOMAIN doc.paras : doc.paras[p] # <<>>

(* A mark that typing would delete from, or moving forget, is in the text.  *)
LooseMarkInDocument == ~doc.sticky => MarkInDocument(doc)

(* No style code without effect. *)
Canonical(w) ==
  \A i \in DOMAIN w :
    IsCode(w[i]) => i < Len(w) /\ ~IsCode(w[i + 1]) /\ StyleAt(w, i) # w[i]

(* The word that offsets of both ends of the selection refer to.            *)
SafeSelection(d) ==
  /\ Marked(d) /\ MarkInDocument(d) /\ CursorInDocument(d)
  /\ SubSeq(Start(d), 1, 2) = SubSeq(End(d), 1, 2) => Canonical(CurrentWord(d))

Erased(d) ==
  LET t == Flat(d.paras)
  IN  SubSeq(t, 1, FlatPlace(d.paras, Start(d)))
      \o SubSeq(t, FlatPlace(d.paras, End(d)) + 1, Len(t))

(* Deleting takes away the selection and nothing else, words and paragraphs *)
(* are separated as before, and the cursor is where the selection was.      *)
DeleteIsExact ==
  SafeSelection(doc) =>
    LET d == Delete(doc)
    IN  /\ Flat(d.paras) = Erased(doc)
        /\ CursorInDocument(d)
        /\ FlatPlace(d.paras, Cursor(d)) = FlatPlace(doc.paras, Start(doc))

(* What is cut and pasted at once is where it was, if it is one paragraph   *)
(* or the cursor is at the beginning of a word.                             *)
CutAndPaste ==
  SafeSelection(doc) =>
    \A hint \in Style :
      LET d == Delete(doc)
          p == Pasted(d, Copied(doc), hint)
      IN  (Len(Copied(doc)) = 1 \/ d.co = 1) => Flat(p.paras) = Text

(* The commands do what is said of a flat text: they replace one stretch of  *)
(* it, and what is typed is where the cursor was, or the selection.         *)
Buffer == INSTANCE TextBuffer WITH
  text <- Text,
  cur  <- FlatPlace(doc.paras, Cursor(doc)),
  sel  <- Marked(doc),
  clip <- IF clip = <<>> THEN <<>> ELSE Flat(clip)

ImplementsTextBuffer == Buffer!Spec

(* Not so: the same of every selection, "This should delete the selection   *)
(* only."  Splitting at the end rewrites the word without the codes that    *)
(* SplitCurrentWord left in it, and the offset of the start is then wrong.  *)
DeleteRemovesSelection ==
  Marked(doc) /\ MarkInDocument(doc) /\ CursorInDocument(doc) =>
    Flat(Delete(doc).paras) = Erased(doc)

(* Not so: the clipboard holds what was selected.  Copy, too, uses an       *)
(* offset into a word that it has rewritten.                                *)
CopyTakesSelection ==
  Marked(doc) /\ MarkInDocument(doc) /\ CursorInDocument(doc) =>
    Flat(Copied(doc)) = Selected(doc)

(* Not so: "Clipboard copied to cursor position."  With several paragraphs, *)
(* the offset left by joining the first words splits the word after them.   *)
PasteAtCursor ==
  clip # <<>> /\ ~Marked(doc) /\ CursorInDocument(doc) =>
    LET i == FlatPlace(doc.paras, Cursor(doc))
    IN  Flat(Pasted(doc, clip, Plain).paras) =
          SubSeq(Text, 1, i) \o Flat(clip) \o SubSeq(Text, i + 1, Len(Text))

(* Not so: every command leaves the cursor where the next one can use it.   *)
(* DeleteNextChar keeps the offset when codes before it disappear.          *)
CursorStaysInWord == CursorInDocument(doc)

(* Not so: "The selected text is between the mark and the cursor."  Edits   *)
(* before a sticky mark do not move it, or take its word away.              *)
StickyMarkInDocument == MarkInDocument(doc)
=============================================================================
