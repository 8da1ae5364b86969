--------------------------- MODULE LineMovesProofs --------------------------
(* Proofs about LineWrap and LineMoves, for all documents and widths.       *)
EXTENDS LineMoves, SequenceTheorems, WellFoundedInduction, TLAPS

Pos == Nat \ {0}
LineRecord == [wn : Pos, words : Seq(Pos)]

TypeInv ==
  /\ width \in Nat
  /\ para \in Paragraphs
  /\ pc \in {"idle", "wrap", "justify"}
  /\ wn \in Pos
  /\ lines \in Seq(LineRecord)
  /\ line \in LineRecord
  /\ w \in Nat
  /\ room \in Int
  /\ xs \in Seq(Nat)
  /\ linesw \in Seq(Nat)
  /\ at \in [ln : Pos, n : Pos]

(* The lines with the one begun, and how much of each is used.              *)
All == IF pc = "wrap" THEN Append(lines, line) ELSE lines
Used == IF pc = "wrap" THEN Append(linesw, w) ELSE linesw

LastOf(l) == Behind(l) - 1

(* What holds of each line and of its neighbours.                           *)
Counted ==
  /\ Len(Used) = Len(All)
  /\ Len(xs) = wn - 1
  /\ wn <= Count + 1
  /\ pc # "wrap" => wn = Count + 1
  /\ pc = "justify" => para.style.both
  /\ pc = "wrap" => room = width - Indent(Len(lines) + 1)
  /\ pc = "justify" /\ Len(lines) > 1 => room = width - Indent(2)
  /\ at.ln <= Len(All)
  /\ pc = "wrap" => at = [ln |-> 1, n |-> 1]
Chained ==
  /\ All[1].wn = 1
  /\ \A k \in DOMAIN All :
       /\ RunOfWords(All[k])
       /\ k > 1 => All[k].words # <<>>
       /\ Behind(All[k]) = IF k < Len(All) THEN All[k + 1].wn ELSE wn
       /\ Behind(All[k]) <= wn
       /\ \A j \in 1 .. k - 1 : Behind(All[j]) <= All[k].wn
Spaced ==
  \A k \in DOMAIN All : \A i \in All[k].wn .. Behind(All[k]) - 2 :
    xs[i] + WordWidth(i) <= xs[i + 1]
Full ==
  \A k \in 1 .. Len(All) - 1 : Used[k] + WordWidth(All[k + 1].wn) >= width - Indent(k)

(* Where the last word of a line ends: at what is used of it until the line *)
(* is justified, and not outside of the text then.                          *)
Ends(k) == xs[LastOf(All[k])] + WordWidth(LastOf(All[k]))
Measured ==
  \A k \in DOMAIN All : All[k].words # <<>> =>
    /\ pc = "wrap" \/ (pc = "justify" /\ k > at.ln) => Ends(k) = Used[k]
    /\ pc = "justify" /\ k = at.ln => Ends(k) <= w
    /\ pc = "justify" /\ k = at.ln /\ Len(All[k].words) > 1 => w <= width - Indent(k)
    /\ Len(All[k].words) > 1 => Ends(k) <= width - Indent(k)
Empty ==
  pc = "wrap" /\ line.words = <<>> => lines = <<>> /\ w = 0

Begun == All # <<>> => Counted /\ Chained /\ Spaced /\ Full /\ Measured /\ Empty
Idle == pc # "idle" => All # <<>>
IInv == TypeInv /\ Begun /\ Idle

-----------------------------------------------------------------------------
LEMMA ParagraphType ==
  ASSUME TypeInv
  PROVE  /\ para.words \in Seq(Word)
         /\ Count \in Nat /\ Count >= 1
         /\ \A i \in 1 .. Count : WordWidth(i) \in Nat
         /\ \A k : Indent(k) \in Nat
         /\ \A k : k > 1 => Indent(k) = Indent(2)
         /\ para.style \in Style
         /\ para.style.both => Indent(2) = 0
<1>1. /\ para \in [style : Style, words : Seq(Word) \ {<<>>}]
      /\ para.style.both => para.style.rest = 0
  BY WrapAssumption DEF TypeInv
<1>2. para.words \in Seq(Word) /\ para.words # <<>>
  BY <1>1
<1>3. Count \in Nat /\ Count >= 1
  BY <1>2, EmptySeq, LenProperties DEF Count
<1>4. ASSUME NEW i \in 1 .. Count PROVE WordWidth(i) \in Nat
  <2>1. para.words[i] \in Word
    BY <1>2, <1>3, ElementOfSeq DEF Count
  <2> QED
    BY <2>1 DEF WordWidth, Word
<1>5. para.style \in Style
  BY <1>1
<1> QED
  BY <1>1, <1>2, <1>3, <1>4, <1>5 DEF Indent, Style

(* Appending to a sequence, element by element.                             *)
LEMMA Appended ==
  ASSUME NEW S, NEW s \in Seq(S), NEW e \in S
  PROVE  /\ Append(s, e) \in Seq(S)
         /\ Len(s) \in Nat
         /\ Len(Append(s, e)) = Len(s) + 1
         /\ DOMAIN Append(s, e) = 1 .. Len(s) + 1
         /\ \A i \in 1 .. Len(s) : Append(s, e)[i] = s[i]
         /\ Append(s, e)[Len(s) + 1] = e
BY AppendProperties, LenProperties

LEMMA AllType ==
  ASSUME TypeInv
  PROVE  /\ All \in Seq(LineRecord) /\ Len(All) \in Nat /\ DOMAIN All = 1 .. Len(All)
         /\ Used \in Seq(Nat)
<1>1. lines \in Seq(LineRecord) /\ line \in LineRecord /\ linesw \in Seq(Nat) /\ w \in Nat
  BY DEF TypeInv
<1>2. Append(lines, line) \in Seq(LineRecord) /\ Append(linesw, w) \in Seq(Nat)
  BY <1>1, AppendProperties
<1>3. All \in Seq(LineRecord) /\ Used \in Seq(Nat)
  BY <1>1, <1>2 DEF All, Used
<1> QED
  BY <1>3, LenProperties

LEMMA LineType ==
  ASSUME NEW l \in LineRecord
  PROVE  /\ l.wn \in Pos /\ l.words \in Seq(Pos) /\ Len(l.words) \in Nat
         /\ DOMAIN l.words = 1 .. Len(l.words)
         /\ (l.words = <<>>) = (Len(l.words) = 0)
         /\ Behind(l) \in Pos /\ Behind(l) = l.wn + Len(l.words)
<1>1. l.wn \in Pos /\ l.words \in Seq(Pos)
  BY DEF LineRecord
<1>2. /\ Len(l.words) \in Nat
      /\ DOMAIN l.words = 1 .. Len(l.words)
      /\ (l.words = <<>>) = (Len(l.words) = 0)
  BY <1>1, LenProperties, EmptySeq
<1> QED
  BY <1>1, <1>2 DEF Behind, Pos

-----------------------------------------------------------------------------
(* Types.                                                                   *)

LEMMA TypeInit == WrapInit => TypeInv
<1> SUFFICES ASSUME WrapInit PROVE TypeInv
  OBVIOUS
<1>1. width \in Nat
  BY WrapAssumption DEF WrapInit
<1>2. [wn |-> 1, words |-> <<>>] \in LineRecord /\ [ln |-> 1, n |-> 1] \in [ln : Pos, n : Pos]
  BY DEF LineRecord, Pos
<1>3. <<>> \in Seq(LineRecord) /\ <<>> \in Seq(Nat)
  BY EmptySeq
<1> QED
  BY <1>1, <1>2, <1>3 DEF WrapInit, TypeInv, Pos

LEMMA CallType ==
  ASSUME TypeInv, NEW p \in Paragraphs, Call(p), UNCHANGED width PROVE TypeInv'
<1>1. p.style.first \in Nat
  BY WrapAssumption DEF Style
<1>2. [wn |-> 1, words |-> <<>>] \in LineRecord /\ [ln |-> 1, n |-> 1] \in [ln : Pos, n : Pos]
  BY DEF LineRecord, Pos
<1>3. <<>> \in Seq(LineRecord) /\ <<>> \in Seq(Nat)
  BY EmptySeq
<1> QED
  BY <1>1, <1>2, <1>3 DEF Call, TypeInv, Pos

LEMMA PutWordType ==
  ASSUME TypeInv, PutWord PROVE TypeInv'
<1>1. /\ wn \in Pos /\ line \in LineRecord /\ w \in Nat /\ xs \in Seq(Nat)
      /\ lines \in Seq(LineRecord) /\ linesw \in Seq(Nat) /\ room \in Int
  BY DEF TypeInv
<1>2. WordWidth(wn) \in Nat /\ Indent(1) \in Nat /\ Indent(2) \in Nat
  <2>1. wn \in 1 .. Count
    BY <1>1, ParagraphType DEF PutWord, Pos
  <2> QED
    BY <2>1, ParagraphType
<1>3. line' \in LineRecord /\ lines' \in Seq(LineRecord)
  <2>1. CASE PutInLine
    <3>1. Append(line.words, wn) \in Seq(Pos)
      BY <1>1, LineType, AppendProperties
    <3>2. line = [wn |-> line.wn, words |-> line.words]
      BY <1>1 DEF LineRecord
    <3>3. line' = [wn |-> line.wn, words |-> Append(line.words, wn)]
      BY <2>1, <3>2 DEF PutInLine
    <3> QED
      BY <1>1, <2>1, <3>1, <3>3, LineType DEF PutInLine, LineRecord
  <2>2. CASE PutInNextLine
    <3>1. <<wn>> \in Seq(Pos)
      BY <1>1 DEF Pos
    <3>2. Append(lines, line) \in Seq(LineRecord)
      BY <1>1, AppendProperties
    <3> QED
      BY <1>1, <2>2, <3>1, <3>2 DEF PutInNextLine, LineRecord
  <2> QED
    BY <2>1, <2>2 DEF PutWord
<1>4. w' \in Nat /\ room' \in Int
  <2>1. CASE PutInLine
    BY <1>1, <1>2, <2>1 DEF PutInLine
  <2>2. CASE PutInNextLine
    <3>1. w' = WordWidth(wn)
      BY <2>2 DEF PutInNextLine
    <3>2. room' = room + Indent(1) - Indent(2) \/ room' = room
      BY <2>2 DEF PutInNextLine
    <3> QED
      BY <1>1, <1>2, <3>1, <3>2
  <2> QED
    BY <2>1, <2>2 DEF PutWord
<1>5. xs' \in Seq(Nat) /\ linesw' \in Seq(Nat)
  <2>1. Append(xs, w) \in Seq(Nat) /\ Append(xs, 0) \in Seq(Nat) /\ Append(linesw, w) \in Seq(Nat)
    BY <1>1, AppendProperties
  <2> QED
    BY <1>1, <2>1 DEF PutWord, PutInLine, PutInNextLine
<1>6. wn' \in Pos /\ UNCHANGED <<width, para, pc, at>>
  BY <1>1 DEF PutWord, Pos
<1> QED
  BY <1>3, <1>4, <1>5, <1>6 DEF TypeInv

LEMMA EndWrapType ==
  ASSUME TypeInv, EndWrap PROVE TypeInv'
<1>1. lines \in Seq(LineRecord) /\ line \in LineRecord /\ linesw \in Seq(Nat) /\ w \in Nat
  BY DEF TypeInv
<1>2. Append(lines, line) \in Seq(LineRecord) /\ Append(linesw, w) \in Seq(Nat)
  BY <1>1, AppendProperties
<1>3. Append(linesw, w)[1] \in Nat
  <2>1. Len(linesw) \in Nat /\ Len(Append(linesw, w)) = Len(linesw) + 1
    BY <1>1, Appended
  <2> QED
    BY <1>2, <2>1, ElementOfSeq
<1> QED
  BY <1>2, <1>3 DEF EndWrap, TypeInv

LEMMA AddSpaceType ==
  ASSUME TypeInv, AddSpace PROVE TypeInv'
<1>1. xs' \in Seq(Nat)
  <2>1. xs \in Seq(Nat) /\ DOMAIN xs = 1 .. Len(xs) /\ Len(xs) \in Nat
    BY LenProperties DEF TypeInv
  <2>2. \A i \in 1 .. Len(xs) : xs[i] \in Nat
    BY <2>1, ElementOfSeq
  <2> DEFINE f == [i \in 1 .. Len(xs) |->
                    IF \E j \in DOMAIN lines[at.ln].words :
                         j > SpaceAfter /\ lines[at.ln].words[j] = i
                    THEN xs[i] + 1 ELSE xs[i]]
  <2>3. xs' = f
    BY <2>1 DEF AddSpace
  <2>4. \A i \in 1 .. Len(xs) : f[i] \in Nat
    BY <2>2
  <2> HIDE DEF f
  <2>5. DOMAIN f = 1 .. Len(xs) /\ f = [i \in 1 .. Len(xs) |-> f[i]]
    BY DEF f
  <2>6. f \in [1 .. Len(xs) -> Nat]
    BY <2>4, <2>5
  <2> QED
    BY <2>1, <2>3, <2>6, SeqDef
<1>2. at' = [ln |-> at.ln, n |-> SpaceAfter + 1] /\ SpaceAfter \in Nat
  BY DEF AddSpace, TypeInv, SpaceAfter, Pos
<1>3. at' \in [ln : Pos, n : Pos]
  BY <1>2 DEF TypeInv, Pos
<1>4. w' \in Nat /\ UNCHANGED <<width, para, pc, wn, lines, line, room, linesw>>
  BY DEF AddSpace, TypeInv
<1> QED
  BY <1>1, <1>3, <1>4 DEF TypeInv

LEMMA NextLineType ==
  ASSUME TypeInv, NextLine, Len(linesw) = Len(lines) PROVE TypeInv'
<1>1. linesw \in Seq(Nat) /\ at.ln \in Pos /\ at.ln < Len(lines) /\ Len(linesw) \in Nat
  BY LenProperties DEF TypeInv, NextLine
<1>2. linesw[at.ln + 1] \in Nat
  BY <1>1, ElementOfSeq DEF Pos
<1> QED
  BY <1>1, <1>2 DEF NextLine, TypeInv, Pos

-----------------------------------------------------------------------------
(* The lines, the one begun included, after each step.                      *)

LEMMA SameWidths ==
  ASSUME para' = para
  PROVE  Count' = Count /\ (\A i : WordWidth(i)' = WordWidth(i)) /\ (\A k : Indent(k)' = Indent(k))
BY DEF Count, WordWidth, Indent

LEMMA AllWhileWrapping ==
  ASSUME TypeInv, pc = "wrap"
  PROVE  /\ Len(lines) \in Nat /\ Len(All) = Len(lines) + 1
         /\ \A k \in 1 .. Len(lines) : All[k] = lines[k]
         /\ All[Len(All)] = line
<1>1. lines \in Seq(LineRecord) /\ line \in LineRecord
  BY DEF TypeInv
<1> QED
  BY <1>1, Appended DEF All

LEMMA AllAfterPutInLine ==
  ASSUME IInv, PutWord, PutInLine
  PROVE  /\ All' \in Seq(LineRecord) /\ Len(All') = Len(All) /\ Len(Used') = Len(Used)
         /\ \A k \in 1 .. Len(All) - 1 : All'[k] = All[k] /\ Used'[k] = Used[k]
         /\ All'[Len(All)] = line' /\ All[Len(All)] = line
         /\ Used'[Len(All)] = w' /\ Used[Len(All)] = w
         /\ RunOfWords(line')
         /\ line'.wn = line.wn /\ Len(line'.words) = Len(line.words) + 1
<1>1. /\ lines \in Seq(LineRecord) /\ line \in LineRecord /\ linesw \in Seq(Nat) /\ w \in Nat
      /\ pc = "wrap" /\ pc' = "wrap" /\ lines' = lines /\ linesw' = linesw
      /\ wn \in Pos
  BY DEF IInv, TypeInv, PutWord, PutInLine
<1>2. TypeInv'
  BY PutWordType DEF IInv
<1>3. line' \in LineRecord /\ w' \in Nat
  BY <1>2 DEF TypeInv
<1>4. All' = Append(lines, line') /\ All = Append(lines, line)
  BY <1>1 DEF All
<1>5. Used' = Append(linesw, w') /\ Used = Append(linesw, w)
  BY <1>1 DEF Used
<1>6. /\ All' \in Seq(LineRecord)
      /\ Len(All) = Len(lines) + 1 /\ Len(All') = Len(lines) + 1 /\ Len(lines) \in Nat
      /\ \A k \in 1 .. Len(lines) : All'[k] = All[k]
      /\ All'[Len(lines) + 1] = line' /\ All[Len(lines) + 1] = line
  BY <1>1, <1>3, <1>4, Appended
<1>7. /\ Len(Used) = Len(linesw) + 1 /\ Len(Used') = Len(linesw) + 1 /\ Len(linesw) \in Nat
      /\ \A k \in 1 .. Len(linesw) : Used'[k] = Used[k]
      /\ Used'[Len(linesw) + 1] = w' /\ Used[Len(linesw) + 1] = w
  BY <1>1, <1>3, <1>5, Appended
<1>8. Begun /\ All # <<>>
  BY <1>1 DEF IInv, Idle
<1>9. Len(Used) = Len(All)
  BY <1>8 DEF Begun, Counted
<1>10. /\ line'.wn = line.wn /\ line'.words = Append(line.words, wn)
  BY <1>1 DEF PutInLine, LineRecord
<1>11. /\ Len(line'.words) = Len(line.words) + 1
       /\ \A i \in 1 .. Len(line.words) : line'.words[i] = line.words[i]
       /\ line'.words[Len(line.words) + 1] = wn
       /\ Len(line.words) \in Nat
  BY <1>1, <1>10, LineType, Appended
<1>12. RunOfWords(line) /\ Behind(line) = wn
  BY <1>6, <1>8, AllType DEF Begun, Chained, IInv
<1>13. RunOfWords(line')
  <2>1. DOMAIN line'.words = 1 .. Len(line.words) + 1
    BY <1>3, <1>11, LineType
  <2>2. line.wn + Len(line.words) = wn /\ line.wn \in Nat
    BY <1>1, <1>12, LineType DEF Pos
  <2>3. \A i \in 1 .. Len(line.words) : line.words[i] = line.wn + i - 1
    BY <1>1, <1>12, LineType DEF RunOfWords
  <2> QED
    BY <1>10, <1>11, <2>1, <2>2, <2>3 DEF RunOfWords
<1> QED
  BY <1>6, <1>7, <1>9, <1>10, <1>11, <1>13

LEMMA AllAfterPutInNextLine ==
  ASSUME IInv, PutWord, PutInNextLine
  PROVE  /\ All' \in Seq(LineRecord) /\ Len(All') = Len(All) + 1 /\ Len(Used') = Len(Used) + 1
         /\ \A k \in 1 .. Len(All) : All'[k] = All[k] /\ Used'[k] = Used[k]
         /\ All'[Len(All) + 1] = line' /\ All[Len(All)] = line
         /\ Used'[Len(All) + 1] = w' /\ Used[Len(All)] = w
         /\ RunOfWords(line')
         /\ line'.wn = wn /\ Len(line'.words) = 1
<1>1. /\ lines \in Seq(LineRecord) /\ line \in LineRecord /\ linesw \in Seq(Nat) /\ w \in Nat
      /\ pc = "wrap" /\ pc' = "wrap"
      /\ wn \in Pos
  BY DEF IInv, TypeInv, PutWord
<1>2. TypeInv'
  BY PutWordType DEF IInv
<1>3. line' \in LineRecord /\ w' \in Nat
  BY <1>2 DEF TypeInv
<1>4. All' = Append(All, line') /\ All = Append(lines, line)
  BY <1>1 DEF All, PutInNextLine
<1>5. Used' = Append(Used, w') /\ Used = Append(linesw, w)
  BY <1>1 DEF Used, PutInNextLine
<1>6. All \in Seq(LineRecord) /\ Used \in Seq(Nat)
  BY AllType DEF IInv
<1>7. /\ All' \in Seq(LineRecord) /\ Len(All') = Len(All) + 1 /\ Len(All) \in Nat
      /\ \A k \in 1 .. Len(All) : All'[k] = All[k]
      /\ All'[Len(All) + 1] = line'
  BY <1>3, <1>4, <1>6, Appended
<1>8. All[Len(All)] = line
  BY <1>1, <1>4, Appended
<1>9. /\ Len(Used') = Len(Used) + 1 /\ Len(Used) \in Nat
      /\ \A k \in 1 .. Len(Used) : Used'[k] = Used[k]
      /\ Used'[Len(Used) + 1] = w'
  BY <1>3, <1>5, <1>6, Appended
<1>10. Used[Len(Used)] = w
  BY <1>1, <1>5, Appended
<1>11. Len(Used) = Len(All)
  BY <1>1 DEF IInv, Idle, Begun, Counted
<1>12. line'.wn = wn /\ line'.words = <<wn>>
  BY DEF PutInNextLine
<1>13. RunOfWords(line') /\ Len(line'.words) = 1
  BY <1>1, <1>12 DEF RunOfWords, Pos
<1> QED
  BY <1>7, <1>8, <1>9, <1>10, <1>11, <1>12, <1>13

-----------------------------------------------------------------------------
(* Putting a word into the line.                                            *)

LEMMA PutInLineKeeps ==
  ASSUME IInv, PutWord, PutInLine, Fits PROVE Begun'
<1> DEFINE n == Len(All)
<1>1. Begun /\ TypeInv /\ TypeInv'
  BY PutWordType DEF IInv, Idle, PutWord
<1>2. /\ pc = "wrap" /\ pc' = "wrap" /\ wn \in Pos /\ wn <= Count /\ wn' = wn + 1
      /\ para' = para /\ width' = width /\ at' = at /\ room' = room
      /\ lines' = lines /\ w' = w + WordWidth(wn) /\ xs' = Append(xs, w)
      /\ w \in Nat /\ width \in Nat
  BY <1>1 DEF PutWord, PutInLine, TypeInv
<1>3. /\ n \in Nat /\ n = Len(lines) + 1 /\ Len(lines) \in Nat
      /\ DOMAIN All = 1 .. n /\ DOMAIN All' = 1 .. n /\ Len(All') = n
      /\ \A k \in 1 .. n : All[k] \in LineRecord /\ All'[k] \in LineRecord
  <2>1. All \in Seq(LineRecord) /\ All' \in Seq(LineRecord)
    BY <1>1, AllType, AllAfterPutInLine
  <2>2. Len(All') = n /\ n = Len(lines) + 1 /\ Len(lines) \in Nat /\ n \in Nat
    BY <1>1, <1>2, AllAfterPutInLine, AllWhileWrapping
  <2> QED
    BY <2>1, <2>2, LenProperties, ElementOfSeq
<1>4. /\ \A k \in 1 .. n - 1 : All'[k] = All[k] /\ Used'[k] = Used[k]
      /\ Len(Used') = Len(Used)
      /\ All'[n] = line' /\ All[n] = line /\ Used'[n] = w' /\ Used[n] = w
      /\ RunOfWords(line') /\ line'.wn = line.wn
      /\ Len(line'.words) = Len(line.words) + 1
  BY AllAfterPutInLine
<1>5. /\ Len(xs) = wn - 1 /\ Len(xs') = wn
      /\ \A i \in 1 .. wn - 1 : xs'[i] = xs[i] /\ xs[i] \in Nat
      /\ xs'[wn] = w
  <2>1. Len(xs) = wn - 1 /\ xs \in Seq(Nat)
    BY <1>1, <1>2 DEF Begun, Counted, Idle, IInv, TypeInv
  <2>2. \A i \in 1 .. wn - 1 : xs[i] \in Nat
    BY <2>1, ElementOfSeq
  <2> QED
    BY <1>2, <2>1, <2>2, Appended DEF Pos
<1>6. /\ Behind(line) = wn /\ Behind(line') = wn + 1 /\ line.wn \in Pos
      /\ Len(line.words) \in Nat /\ wn = line.wn + Len(line.words)
  <2>1. Behind(line) = wn
    BY <1>1, <1>2, <1>3, <1>4 DEF Begun, Chained, Idle, IInv
  <2>2. line \in LineRecord /\ line' \in LineRecord
    BY <1>1 DEF TypeInv
  <2>3. line.wn \in Pos /\ Len(line.words) \in Nat
    BY <2>2, LineType
  <2> QED
    BY <1>2, <1>4, <2>1, <2>3 DEF Behind, Pos
<1>7. /\ \A i \in 1 .. Count : WordWidth(i) \in Nat /\ WordWidth(i)' = WordWidth(i)
      /\ \A k : Indent(k)' = Indent(k) /\ Indent(k) \in Nat
      /\ Count' = Count /\ Count \in Nat
  BY <1>1, <1>2, ParagraphType, SameWidths
<1> HIDE DEF n
<1>8. All # <<>> /\ n >= 1
  BY <1>2, <1>3 DEF IInv, Idle
<1>9. Counted /\ Chained /\ Spaced /\ Full /\ Measured /\ Empty
  BY <1>1, <1>8 DEF Begun
<1>10. Counted'
  BY <1>2, <1>3, <1>4, <1>5, <1>7, <1>9 DEF Counted, n, Pos
<1>11. Chained'
  <2>1. All'[1].wn = 1
    BY <1>3, <1>4, <1>8, <1>9 DEF Chained
  <2>2. ASSUME NEW k \in 1 .. n
        PROVE  /\ RunOfWords(All'[k])
               /\ k > 1 => All'[k].words # <<>>
               /\ Behind(All'[k]) = IF k < n THEN All'[k + 1].wn ELSE wn'
               /\ Behind(All'[k]) <= wn'
               /\ \A j \in 1 .. k - 1 : Behind(All'[j]) <= All'[k].wn
    <3>0. /\ RunOfWords(All[k])
          /\ k > 1 => All[k].words # <<>>
          /\ Behind(All[k]) = IF k < n THEN All[k + 1].wn ELSE wn
          /\ Behind(All[k]) <= wn
          /\ \A j \in 1 .. k - 1 : Behind(All[j]) <= All[k].wn
      BY <1>3, <1>9 DEF Chained, n
    <3>1. CASE k < n
      <4>1. k + 1 \in 1 .. n /\ k \in 1 .. n - 1 /\ All'[k] = All[k]
        BY <1>3, <1>4, <3>1
      <4>2. All'[k + 1].wn = All[k + 1].wn
        BY <1>3, <1>4, <4>1
      <4>3. Behind(All[k]) \in Nat
        BY <1>3, LineType DEF Pos
      <4>4. \A j \in 1 .. k - 1 : All'[j] = All[j]
        BY <1>3, <1>4, <3>1
      <4> QED
        BY <1>2, <3>0, <3>1, <4>1, <4>2, <4>3, <4>4 DEF Pos
    <3>2. CASE k = n
      <4>1. line'.words # <<>>
        BY <1>3, <1>4, <1>6, <1>8, LineType
      <4>2. \A j \in 1 .. k - 1 : All'[j] = All[j]
        BY <1>3, <1>4, <3>2
      <4>3. All'[k] = line' /\ All[k].wn = line'.wn
        BY <1>4, <3>2
      <4> QED
        BY <1>2, <1>4, <1>6, <3>0, <3>2, <4>1, <4>2, <4>3 DEF Pos
    <3> QED
      BY <1>3, <3>1, <3>2
  <2> QED
    BY <1>3, <2>1, <2>2 DEF Chained
<1>12. Spaced'
  <2> SUFFICES ASSUME NEW k \in 1 .. n, NEW i \in All'[k].wn .. Behind(All'[k]) - 2
               PROVE  xs'[i] + WordWidth(i)' <= xs'[i + 1]
    BY <1>3 DEF Spaced
  <2>4. All[k] \in LineRecord /\ All'[k].wn = All[k].wn
    <3>1. CASE k = n
      BY <1>3, <1>4, <3>1
    <3>2. CASE k # n
      BY <1>3, <1>4, <3>2
    <3> QED
      BY <3>1, <3>2
  <2>5. Behind(All[k]) <= wn
    BY <1>3, <1>4, <1>9 DEF Chained
  <2>1. All[k].wn \in Pos /\ All'[k].wn = All[k].wn /\ Behind(All[k]) \in Pos /\ Behind(All[k]) <= wn
    BY <2>4, <2>5, LineType
  <2>2. CASE i \in All[k].wn .. Behind(All[k]) - 2
    <3>1. i \in 1 .. wn - 1 /\ i + 1 \in 1 .. wn - 1
      <4>1. wn \in Nat /\ All[k].wn \in Nat /\ All[k].wn >= 1 /\ Behind(All[k]) \in Nat
            /\ Behind(All[k]) <= wn
        BY <1>2, <2>1 DEF Pos
      <4> QED
        BY <2>2, <4>1
    <3>2. xs[i] + WordWidth(i) <= xs[i + 1]
      BY <1>3, <1>9, <2>2 DEF Spaced
    <3> QED
      BY <1>2, <1>5, <1>7, <3>1, <3>2 DEF Pos
  <2>3. CASE i \notin All[k].wn .. Behind(All[k]) - 2
    <3>1. k = n
      BY <1>3, <1>4, <2>1, <2>3
    <3>2. All[k] = line /\ All'[k] = line'
      BY <1>4, <3>1
    <3>3. i = wn - 1 /\ Len(line.words) >= 1 /\ i \in 1 .. wn - 1
      <4>1. wn \in Nat /\ line.wn \in Nat /\ line.wn >= 1 /\ Len(line.words) \in Nat
            /\ wn = line.wn + Len(line.words)
        BY <1>2, <1>6 DEF Pos
      <4>2. i \in line.wn .. (wn + 1) - 2 /\ i \notin line.wn .. wn - 2
        BY <1>4, <1>6, <2>3, <3>2
      <4> QED
        BY <4>1, <4>2
    <3>4. xs[wn - 1] + WordWidth(wn - 1) = w
      <4>1. All[n].words # <<>> /\ LastOf(All[n]) = wn - 1
        BY <1>3, <1>4, <1>6, <1>8, <3>3, LineType DEF LastOf
      <4>2. Ends(n) = Used[n]
        BY <1>2, <1>3, <1>8, <1>9, <4>1 DEF Measured
      <4> QED
        BY <1>4, <4>1, <4>2 DEF Ends
    <3> QED
      BY <1>2, <1>5, <1>7, <3>3, <3>4 DEF Pos
  <2> QED
    BY <2>2, <2>3
<1>13. Full'
  <2> SUFFICES ASSUME NEW k \in 1 .. n - 1
               PROVE  Used'[k] + WordWidth(All'[k + 1].wn) >= width - Indent(k)
    BY <1>2, <1>3 DEF Full, WordWidth, Indent
  <2>0. k \in 1 .. n /\ k + 1 \in 1 .. n /\ k < n
    BY <1>3
  <2>1. All'[k + 1].wn = All[k + 1].wn /\ Used'[k] = Used[k]
    BY <1>3, <1>4, <2>0
  <2>2. All[k + 1].wn \in 1 .. Count
    <3>0. All[k + 1].wn \in Pos
      BY <1>3, <2>0, LineType
    <3>1. All[k + 1].wn \in Pos /\ Behind(All[k]) = All[k + 1].wn
      BY <1>3, <1>9, <2>0, <3>0 DEF Chained, n
    <3>2. Behind(All[k]) <= wn
      BY <1>3, <1>9 DEF Chained
    <3> QED
      BY <1>2, <1>7, <3>1, <3>2 DEF Pos
  <2>3. Used[k] + WordWidth(All[k + 1].wn) >= width - Indent(k)
    BY <1>9 DEF Full, n
  <2> QED
    BY <1>2, <1>7, <2>1, <2>2, <2>3
<1>14. Measured'
  <2> SUFFICES ASSUME NEW k \in 1 .. n, All'[k].words # <<>>
               PROVE  /\ Ends(k)' = Used'[k]
                      /\ Len(All'[k].words) > 1 => Ends(k)' <= width - Indent(k)
    BY <1>2, <1>3 DEF Measured, Indent
  <2>1. Behind(All'[k]) \in Pos /\ Behind(All'[k]) <= wn' /\ Len(All'[k].words) \in Nat
        /\ Behind(All'[k]) = All'[k].wn + Len(All'[k].words) /\ All'[k].wn \in Pos
        /\ Len(All'[k].words) # 0
    BY <1>3, <1>11, LineType DEF Chained
  <2>2. Ends(k)' = xs'[LastOf(All'[k])] + WordWidth(LastOf(All'[k]))
    BY <1>2 DEF Ends, WordWidth
  <2>3. CASE k < n
    <3>1. All'[k] = All[k] /\ Used'[k] = Used[k]
      BY <1>3, <1>4, <2>3
    <3>2. LastOf(All[k]) \in 1 .. wn - 1
      <4>1. Behind(All[k]) <= wn
        BY <1>3, <1>9 DEF Chained
      <4>2. wn \in Nat
        BY <1>2 DEF Pos
      <4>3. Behind(All[k]) \in Nat /\ Behind(All[k]) >= 2
        BY <2>1, <3>1 DEF Pos
      <4> QED
        BY <4>1, <4>2, <4>3 DEF LastOf
    <3>3. Ends(k)' = Ends(k)
      BY <1>2, <1>5, <1>7, <2>2, <3>1, <3>2 DEF Ends, Pos
    <3> QED
      BY <1>2, <1>3, <1>7, <1>9, <3>1, <3>3 DEF Measured
  <2>4. CASE k = n
    <3>1. LastOf(All'[k]) = wn
      BY <1>2, <1>4, <1>6, <2>4 DEF LastOf, Pos
    <3>2. Ends(k)' = w'
      BY <1>2, <1>5, <1>7, <2>2, <3>1 DEF Pos
    <3>3. w' <= width - Indent(k)
      BY <1>2, <1>3, <1>7, <1>9, <2>4 DEF Fits, Counted, Pos
    <3> QED
      BY <1>2, <1>4, <1>7, <2>4, <3>2, <3>3
  <2> QED
    BY <1>3, <2>3, <2>4
<1>15. Empty'
  <2>1. line' \in LineRecord
    BY <1>1 DEF TypeInv
  <2> QED
    BY <1>4, <1>6, <2>1, LineType DEF Empty
<1> QED
  BY <1>10, <1>11, <1>12, <1>13, <1>14, <1>15 DEF Begun

-----------------------------------------------------------------------------
(* Putting a word into a new line.                                          *)

LEMMA PutInNextLineKeeps ==
  ASSUME IInv, PutWord, PutInNextLine, ~Fits PROVE Begun'
<1> DEFINE n == Len(All)
<1>1. Begun /\ TypeInv /\ TypeInv'
  BY PutWordType DEF IInv, Idle, PutWord
<1>2. /\ pc = "wrap" /\ pc' = "wrap" /\ wn \in Pos /\ wn <= Count /\ wn' = wn + 1
      /\ para' = para /\ width' = width /\ at' = at
      /\ w' = WordWidth(wn) /\ xs' = Append(xs, 0)
      /\ w \in Nat /\ width \in Nat /\ room \in Int
  BY <1>1 DEF PutWord, PutInNextLine, TypeInv
<1>3. /\ n \in Nat /\ n = Len(lines) + 1 /\ Len(lines) \in Nat
      /\ DOMAIN All = 1 .. n /\ DOMAIN All' = 1 .. n + 1 /\ Len(All') = n + 1
      /\ \A k \in 1 .. n : All[k] \in LineRecord
      /\ \A k \in 1 .. n + 1 : All'[k] \in LineRecord
  <2>1. All \in Seq(LineRecord) /\ All' \in Seq(LineRecord)
    BY <1>1, AllType, AllAfterPutInNextLine
  <2>2. Len(All') = n + 1 /\ n = Len(lines) + 1 /\ Len(lines) \in Nat /\ n \in Nat
    BY <1>1, <1>2, AllAfterPutInNextLine, AllWhileWrapping
  <2> QED
    BY <2>1, <2>2, LenProperties, ElementOfSeq
<1>4. /\ \A k \in 1 .. n : All'[k] = All[k] /\ Used'[k] = Used[k]
      /\ Len(Used') = Len(Used) + 1
      /\ All'[n + 1] = line' /\ Used'[n + 1] = w' /\ Used[n] = w
      /\ RunOfWords(line') /\ line'.wn = wn
      /\ Len(line'.words) = 1
  BY AllAfterPutInNextLine
<1>5. /\ Len(xs) = wn - 1 /\ Len(xs') = wn
      /\ \A i \in 1 .. wn - 1 : xs'[i] = xs[i] /\ xs[i] \in Nat
      /\ xs'[wn] = 0
  <2>1. Len(xs) = wn - 1 /\ xs \in Seq(Nat)
    BY <1>1, <1>2 DEF Begun, Counted, Idle, IInv, TypeInv
  <2>2. \A i \in 1 .. wn - 1 : xs[i] \in Nat
    BY <2>1, ElementOfSeq
  <2> QED
    BY <1>2, <2>1, <2>2, Appended DEF Pos
<1>6. Behind(line') = wn + 1 /\ line'.words # <<>>
  <2>1. line' \in LineRecord
    BY <1>1 DEF TypeInv
  <2>2. line'.words # <<>>
    <3>1. Len(line'.words) = 1
      BY <1>4
    <3>2. line'.words = <<>> => Len(line'.words) = 0
      OBVIOUS
    <3> QED
      BY <3>1, <3>2
  <2>3. wn \in Nat
    BY <1>2 DEF Pos
  <2> QED
    BY <1>4, <2>2, <2>3 DEF Behind
<1>7. /\ \A i \in 1 .. Count : WordWidth(i) \in Nat
      /\ \A k : Indent(k) \in Nat
      /\ \A k : k > 1 => Indent(k) = Indent(2)
      /\ Count' = Count /\ Count \in Nat
  BY <1>1, <1>2, ParagraphType, SameWidths
<1> HIDE DEF n
<1>8. All # <<>> /\ n >= 1
  BY <1>2, <1>3 DEF IInv, Idle
<1>9. Counted /\ Chained /\ Spaced /\ Full /\ Measured /\ Empty
  BY <1>1, <1>8 DEF Begun
<1>10. Counted'
  <2>1. room' = width - Indent(2)
    <3>1. room = width - Indent(n)
      BY <1>2, <1>3, <1>9 DEF Counted
    <3>2. CASE lines = <<>>
      <4>1. n = 1
        BY <1>3, <3>2
      <4> QED
        BY <1>2, <1>7, <3>1, <3>2, <4>1 DEF PutInNextLine
    <3>3. CASE lines # <<>>
      <4>1. Len(lines) # 0
        BY <1>1, <3>3, EmptySeq DEF TypeInv
      <4>2. Indent(n) = Indent(2)
        BY <1>3, <1>7, <4>1
      <4> QED
        BY <3>1, <3>3, <4>2 DEF PutInNextLine
    <3> QED
      BY <3>2, <3>3
  <2>2. lines' = All
    BY <1>2 DEF PutInNextLine, All
  <2>3. Len(lines') + 1 # 1
    BY <1>3, <1>8, <2>2 DEF n
  <2>4. Len(Used') = Len(All') /\ at.ln <= Len(All')
    <3>1. Len(Used') = Len(All')
      BY <1>3, <1>4, <1>9 DEF Counted, n
    <3>2. at.ln = 1
      BY <1>2, <1>9 DEF Counted
    <3> QED
      BY <1>3, <1>8, <3>1, <3>2
  <2>5. Len(xs') = wn' - 1 /\ wn' <= Count' + 1
    BY <1>2, <1>5, <1>7 DEF Pos
  <2>6. room' = width' - Indent(Len(lines) + 1)'
    BY <1>2, <2>1, <2>3 DEF Indent
  <2> QED
    BY <1>2, <1>9, <2>4, <2>5, <2>6 DEF Counted
<1>11. Chained'
  <2>1. All'[1].wn = 1
    BY <1>3, <1>4, <1>8, <1>9 DEF Chained
  <2>2. ASSUME NEW k \in 1 .. n + 1
        PROVE  /\ RunOfWords(All'[k])
               /\ k > 1 => All'[k].words # <<>>
               /\ Behind(All'[k]) = IF k < n + 1 THEN All'[k + 1].wn ELSE wn'
               /\ Behind(All'[k]) <= wn'
               /\ \A j \in 1 .. k - 1 : Behind(All'[j]) <= All'[k].wn
    <3>1. CASE k \in 1 .. n
      <4>1. /\ RunOfWords(All[k])
            /\ k > 1 => All[k].words # <<>>
            /\ Behind(All[k]) = IF k < n THEN All[k + 1].wn ELSE wn
            /\ Behind(All[k]) <= wn
            /\ \A j \in 1 .. k - 1 : Behind(All[j]) <= All[k].wn
        BY <1>3, <1>9, <3>1 DEF Chained, n
      <4>2. All'[k] = All[k] /\ \A j \in 1 .. k - 1 : All'[j] = All[j]
        BY <1>3, <1>4, <3>1
      <4>3. All'[k + 1].wn = IF k < n THEN All[k + 1].wn ELSE wn
        BY <1>3, <1>4, <3>1
      <4>4. Behind(All[k]) \in Nat
        BY <1>3, <3>1, LineType DEF Pos
      <4> QED
        BY <1>2, <1>3, <3>1, <4>1, <4>2, <4>3, <4>4 DEF Pos
    <3>2. CASE k = n + 1
      <4>1. \A j \in 1 .. n : Behind(All'[j]) <= wn
        BY <1>3, <1>4, <1>9 DEF Chained
      <4> QED
        BY <1>2, <1>3, <1>4, <1>6, <3>2, <4>1 DEF Pos
    <3> QED
      BY <1>3, <3>1, <3>2
  <2> QED
    BY <1>3, <2>1, <2>2 DEF Chained
<1>12. Spaced'
  <2> SUFFICES ASSUME NEW k \in 1 .. n + 1, NEW i \in All'[k].wn .. Behind(All'[k]) - 2
               PROVE  xs'[i] + WordWidth(i) <= xs'[i + 1]
    BY <1>2, <1>3 DEF Spaced, WordWidth
  <2>1. k \in 1 .. n
    BY <1>2, <1>3, <1>4, <1>6 DEF Pos
  <2>2. All'[k] = All[k] /\ All[k].wn \in Pos /\ Behind(All[k]) \in Pos /\ Behind(All[k]) <= wn
    BY <1>3, <1>4, <1>9, <2>1, LineType DEF Chained
  <2>3. i \in 1 .. wn - 1 /\ i + 1 \in 1 .. wn - 1
    BY <1>2, <2>2 DEF Pos
  <2>4. xs[i] + WordWidth(i) <= xs[i + 1]
    BY <1>3, <1>9, <2>1, <2>2 DEF Spaced
  <2> QED
    BY <1>5, <2>3, <2>4
<1>13. Full'
  <2> SUFFICES ASSUME NEW k \in 1 .. n
               PROVE  Used'[k] + WordWidth(All'[k + 1].wn) >= width - Indent(k)
    BY <1>2, <1>3 DEF Full, WordWidth, Indent
  <2>1. CASE k < n
    <3>1. All'[k + 1] = All[k + 1] /\ Used'[k] = Used[k]
      BY <1>3, <1>4, <2>1
    <3> QED
      BY <1>3, <1>9, <2>1, <3>1 DEF Full, n
  <2>2. CASE k = n
    <3>1. Used'[k] = w /\ All'[k + 1].wn = wn
      BY <1>4, <2>2
    <3>2. w + WordWidth(wn) >= room
      <4>1. WordWidth(wn) \in Nat
        BY <1>2, <1>7 DEF Pos
      <4> QED
        BY <1>2, <4>1 DEF Fits
    <3>3. room = width - Indent(n)
      BY <1>2, <1>3, <1>9 DEF Counted
    <3> QED
      BY <2>2, <3>1, <3>2, <3>3
  <2> QED
    BY <1>3, <2>1, <2>2
<1>14. Measured'
  <2> SUFFICES ASSUME NEW k \in 1 .. n + 1, All'[k].words # <<>>
               PROVE  /\ Ends(k)' = Used'[k]
                      /\ Len(All'[k].words) > 1 => Ends(k)' <= width - Indent(k)
    BY <1>2, <1>3 DEF Measured, Indent
  <2>1. Ends(k)' = xs'[LastOf(All'[k])] + WordWidth(LastOf(All'[k]))
    BY <1>2 DEF Ends, WordWidth
  <2>2. CASE k \in 1 .. n
    <3>1. All'[k] = All[k] /\ Used'[k] = Used[k]
      BY <1>4, <2>2
    <3>2. LastOf(All[k]) \in 1 .. wn - 1
      <4>1. Behind(All[k]) <= wn
        BY <1>3, <1>9, <2>2 DEF Chained
      <4>2. /\ Behind(All[k]) = All[k].wn + Len(All[k].words) /\ All[k].wn \in Pos
            /\ Len(All[k].words) \in Nat /\ Len(All[k].words) # 0
        BY <1>3, <2>2, <3>1, LineType
      <4>3. wn \in Nat
        BY <1>2 DEF Pos
      <4>4. Behind(All[k]) \in Nat /\ Behind(All[k]) >= 2
        BY <4>2 DEF Pos
      <4>5. LastOf(All[k]) = Behind(All[k]) - 1
        BY DEF LastOf
      <4> QED
        BY <4>1, <4>3, <4>4, <4>5
    <3>3. Ends(k)' = Ends(k)
      BY <1>5, <2>1, <3>1, <3>2 DEF Ends
    <3> QED
      BY <1>2, <1>3, <1>9, <2>2, <3>1, <3>3 DEF Measured
  <2>3. CASE k = n + 1
    <3>1. LastOf(All'[k]) = wn
      <4>1. Behind(All'[k]) = wn + 1 /\ wn \in Nat
        BY <1>2, <1>4, <1>6, <2>3 DEF Pos
      <4> QED
        BY <4>1 DEF LastOf
    <3>2. WordWidth(wn) \in Nat
      BY <1>2, <1>7 DEF Pos
    <3>3. Ends(k)' = w'
      BY <1>2, <1>5, <2>1, <3>1, <3>2
    <3>4. Len(All'[k].words) = 1 /\ Used'[k] = w'
      BY <1>4, <2>3
    <3> QED
      BY <3>3, <3>4
  <2> QED
    BY <1>3, <2>2, <2>3
<1>15. Empty'
  BY <1>6 DEF Empty
<1> QED
  BY <1>10, <1>11, <1>12, <1>13, <1>14, <1>15 DEF Begun

-----------------------------------------------------------------------------
(* The other steps of the loops.                                            *)

LEMMA CallKeeps ==
  ASSUME TypeInv, NEW p \in Paragraphs, Call(p), UNCHANGED width PROVE Begun'
<1>1. /\ para' = p /\ pc' = "wrap" /\ wn' = 1 /\ lines' = <<>> /\ w' = 0 /\ width' = width
      /\ line' = [wn |-> 1, words |-> <<>>] /\ room' = width - p.style.first
      /\ xs' = <<>> /\ linesw' = <<>> /\ at' = [ln |-> 1, n |-> 1]
  BY DEF Call
<1>2. All' = <<line'>> /\ Used' = <<0>>
  BY <1>1 DEF All, Used
<1>3. Len(All') = 1 /\ DOMAIN All' = {1} /\ All'[1] = line' /\ Len(Used') = 1
  BY <1>2
<1>4. Len(line'.words) = 0 /\ line'.words = <<>> /\ line'.wn = 1
  BY <1>1
<1>5. Behind(line') = 1 /\ RunOfWords(line')
  BY <1>4 DEF Behind, RunOfWords
<1>6. Len(p.words) \in Nat
  BY WrapAssumption, LenProperties
<1>7. Counted'
  BY <1>1, <1>3, <1>6 DEF Counted, Count, Indent
<1>8. Chained' /\ Spaced'
  BY <1>1, <1>3, <1>4, <1>5 DEF Chained, Spaced
<1>9. Full' /\ Measured' /\ Empty'
  BY <1>1, <1>3, <1>4 DEF Full, Measured, Empty
<1> QED
  BY <1>7, <1>8, <1>9 DEF Begun

LEMMA EndWrapKeeps ==
  ASSUME IInv, EndWrap PROVE Begun'
<1>1. /\ pc = "wrap" /\ pc' \in {"justify", "idle"} /\ (pc' = "justify" => para.style.both)
      /\ wn > Count /\ All' = All /\ Used' = Used /\ w' = linesw'[1]
      /\ UNCHANGED <<width, para, wn, line, room, xs, at>>
      /\ lines' = All /\ linesw' = Used
  BY DEF EndWrap, All, Used
<1>2. Begun /\ All # <<>> /\ TypeInv
  BY <1>1 DEF IInv, Idle
<1>3. Counted /\ Chained /\ Spaced /\ Full /\ Measured /\ Empty
  BY <1>2 DEF Begun
<1>4. Count \in Nat /\ wn = Count + 1 /\ at = [ln |-> 1, n |-> 1]
  BY <1>1, <1>2, <1>3, ParagraphType DEF Counted, TypeInv, Pos
<1>5. /\ Len(lines) \in Nat /\ Len(All) = Len(lines) + 1
      /\ DOMAIN All = 1 .. Len(All) /\ DOMAIN Used = 1 .. Len(All)
  BY <1>1, <1>2, <1>3, AllWhileWrapping, AllType, LenProperties DEF Counted
<1>6. Counted'
  <2>1. Len(lines') > 1 => room = width - para.style.rest
    <3>1. room = width - Indent(Len(lines) + 1)
      BY <1>1, <1>3 DEF Counted
    <3> QED
      BY <1>1, <1>5, <3>1 DEF Indent
  <2>2. /\ Len(Used') = Len(All') /\ Len(xs') = wn' - 1 /\ wn' <= Count' + 1
        /\ wn' = Count' + 1 /\ at'.ln <= Len(All')
    BY <1>1, <1>3, <1>4, <1>5, SameWidths DEF Counted
  <2> QED
    BY <1>1, <2>1, <2>2 DEF Counted, Indent
<1>7. Chained'
  BY <1>1, <1>3 DEF Chained
<1>8. Spaced'
  BY <1>1, <1>3 DEF Spaced, WordWidth
<1>9. Full'
  BY <1>1, <1>3 DEF Full, WordWidth, Indent
<1>10. Measured'
  <2> SUFFICES ASSUME NEW k \in DOMAIN All, All[k].words # <<>>
               PROVE  /\ Ends(k)' = Used[k]
                      /\ pc' = "justify" /\ k = 1 => Ends(k)' <= w'
                      /\ pc' = "justify" /\ k = 1 /\ Len(All[k].words) > 1 => w' <= width - Indent(k)
                      /\ Len(All[k].words) > 1 => Ends(k)' <= width - Indent(k)
    BY <1>1, <1>4 DEF Measured, Indent
  <2>1. Ends(k)' = Ends(k)
    BY <1>1 DEF Ends, WordWidth
  <2>2. Ends(k) = Used[k] /\ (Len(All[k].words) > 1 => Ends(k) <= width - Indent(k))
    BY <1>1, <1>3 DEF Measured
  <2>3. w' = Used[1]
    BY <1>1
  <2>4. Used[k] \in Nat
    BY <1>2, <1>3, <1>5, AllType, ElementOfSeq DEF Counted
  <2> QED
    BY <2>1, <2>2, <2>3, <2>4
<1>11. Empty'
  BY <1>1 DEF Empty
<1> QED
  BY <1>6, <1>7, <1>8, <1>9, <1>10, <1>11 DEF Begun

LEMMA NextLineKeeps ==
  ASSUME IInv, NextLine PROVE Begun' /\ TypeInv'
<1>1. /\ pc = "justify" /\ pc' = "justify" /\ All' = All /\ Used' = Used /\ All = lines
      /\ at' = [ln |-> at.ln + 1, n |-> 1] /\ at.ln < Len(lines) /\ w' = Used[at.ln + 1]
      /\ UNCHANGED <<width, para, wn, lines, line, room, xs, linesw>>
  BY DEF NextLine, All, Used
<1>2. Begun /\ All # <<>> /\ TypeInv
  BY <1>1 DEF IInv, Idle
<1>3. Counted /\ Chained /\ Spaced /\ Full /\ Measured
  BY <1>2 DEF Begun
<1>4. Len(All) \in Nat /\ DOMAIN All = 1 .. Len(All) /\ at.ln \in Pos /\ Len(Used) = Len(All)
  BY <1>2, <1>3, AllType DEF TypeInv, Counted
<1>5. TypeInv'
  <2>1. Len(linesw) = Len(lines)
    BY <1>1, <1>4 DEF Used
  <2> QED
    BY <1>2, <2>1, NextLineType
<1>6. Counted'
  BY <1>1, <1>3, <1>4 DEF Counted, Count, Indent, Pos
<1>7. Chained'
  BY <1>1, <1>3 DEF Chained
<1>8. Spaced'
  BY <1>1, <1>3 DEF Spaced, WordWidth
<1>9. Full'
  BY <1>1, <1>3 DEF Full, WordWidth, Indent
<1>10. Measured'
  <2> SUFFICES ASSUME NEW k \in DOMAIN All, All[k].words # <<>>
               PROVE  /\ k > at.ln + 1 => Ends(k)' = Used[k]
                      /\ k = at.ln + 1 => Ends(k)' <= w'
                      /\ k = at.ln + 1 /\ Len(All[k].words) > 1 => w' <= width - Indent(k)
                      /\ Len(All[k].words) > 1 => Ends(k)' <= width - Indent(k)
    BY <1>1 DEF Measured, Indent
  <2>1. Ends(k)' = Ends(k)
    BY <1>1 DEF Ends, WordWidth
  <2>2. /\ k > at.ln => Ends(k) = Used[k]
        /\ Len(All[k].words) > 1 => Ends(k) <= width - Indent(k)
    BY <1>1, <1>3 DEF Measured
  <2>3. Used[k] \in Nat
    BY <1>2, <1>4, AllType, ElementOfSeq
  <2> QED
    BY <1>1, <1>4, <2>1, <2>2, <2>3 DEF Pos
<1>11. Empty'
  BY <1>1 DEF Empty
<1> QED
  BY <1>5, <1>6, <1>7, <1>8, <1>9, <1>10, <1>11 DEF Begun

LEMMA EndJustifyKeeps ==
  ASSUME IInv, EndJustify PROVE Begun' /\ TypeInv'
<1>1. /\ pc = "justify" /\ pc' = "idle" /\ All' = All /\ Used' = Used
      /\ UNCHANGED <<width, para, wn, lines, line, w, room, xs, linesw, at>>
  BY DEF EndJustify, All, Used
<1>2. Begun /\ All # <<>> /\ TypeInv
  BY <1>1 DEF IInv, Idle
<1>3. Counted /\ Chained /\ Spaced /\ Full /\ Measured
  BY <1>2 DEF Begun
<1>4. TypeInv'
  BY <1>1, <1>2 DEF TypeInv
<1>5. Counted'
  BY <1>1, <1>3 DEF Counted, Count, Indent
<1>6. Chained'
  BY <1>1, <1>3 DEF Chained
<1>7. Spaced'
  BY <1>1, <1>3 DEF Spaced, WordWidth
<1>8. Full'
  BY <1>1, <1>3 DEF Full, WordWidth, Indent
<1>9. Measured'
  <2> SUFFICES ASSUME NEW k \in DOMAIN All, All[k].words # <<>>, Len(All[k].words) > 1
               PROVE  Ends(k)' <= width - Indent(k)
    BY <1>1 DEF Measured, Indent
  <2>1. Ends(k)' = Ends(k)
    BY <1>1 DEF Ends, WordWidth
  <2> QED
    BY <1>3, <2>1 DEF Measured
<1>10. Empty'
  BY <1>1 DEF Empty
<1> QED
  BY <1>4, <1>5, <1>6, <1>7, <1>8, <1>9, <1>10 DEF Begun

(* The words that AddSpace moves are at the end of their line, and no other *)
(* line has any of them.                                                    *)
LEMMA AddSpaceKeeps ==
  ASSUME IInv, AddSpace PROVE Begun'
<1> DEFINE a == at.ln
           Moved(i) == \E j \in DOMAIN All[a].words : j > SpaceAfter /\ All[a].words[j] = i
<1>1. /\ pc = "justify" /\ pc' = "justify" /\ All' = All /\ Used' = Used /\ All = lines
      /\ at'.ln = a /\ a < Len(All) /\ w' = w + 1 /\ Slack
      /\ xs' = [i \in DOMAIN xs |-> IF Moved(i) THEN xs[i] + 1 ELSE xs[i]]
      /\ UNCHANGED <<width, para, wn, lines, line, room, linesw>>
  BY DEF AddSpace, All, Used, IInv, TypeInv
<1>2. Begun /\ All # <<>> /\ TypeInv /\ TypeInv'
  BY <1>1, AddSpaceType DEF IInv, Idle
<1>3. Counted /\ Chained /\ Spaced /\ Full /\ Measured
  BY <1>2 DEF Begun
<1>4. /\ Len(All) \in Nat /\ DOMAIN All = 1 .. Len(All) /\ a \in 1 .. Len(All) /\ w \in Nat
      /\ \A k \in 1 .. Len(All) : All[k] \in LineRecord
  <2>1. All \in Seq(LineRecord) /\ Len(All) \in Nat /\ DOMAIN All = 1 .. Len(All)
    BY <1>2, AllType
  <2>2. at.ln \in Pos /\ w \in Nat
    BY <1>2 DEF TypeInv
  <2> QED
    BY <1>1, <2>1, <2>2, ElementOfSeq DEF Pos
<1>5. /\ DOMAIN xs = 1 .. wn - 1 /\ wn \in Pos
      /\ \A i \in 1 .. wn - 1 : xs[i] \in Nat
  <2>1. xs \in Seq(Nat) /\ Len(xs) = wn - 1 /\ wn \in Pos
    BY <1>2, <1>3 DEF TypeInv, Counted
  <2> QED
    BY <2>1, LenProperties, ElementOfSeq
<1>6. SpaceAfter \in Nat
  BY <1>2 DEF TypeInv, SpaceAfter, Pos
<1>7. /\ All[a].wn \in Pos /\ Len(All[a].words) \in Nat
      /\ DOMAIN All[a].words = 1 .. Len(All[a].words)
      /\ Behind(All[a]) = All[a].wn + Len(All[a].words)
  BY <1>4, LineType
<1>8. \A j \in 1 .. Len(All[a].words) : All[a].words[j] = All[a].wn + j - 1
  BY <1>3, <1>4, <1>7 DEF Chained, RunOfWords
<1> HIDE DEF a
<1>9. ASSUME NEW i \in Nat, Moved(i) PROVE i \in All[a].wn .. Behind(All[a]) - 1
  BY <1>7, <1>8, <1>9 DEF Pos
<1>10. ASSUME NEW i \in Nat, Moved(i), i + 1 < Behind(All[a]) PROVE Moved(i + 1)
  <2>1. PICK j \in 1 .. Len(All[a].words) : j > SpaceAfter /\ All[a].words[j] = i
    BY <1>7, <1>10
  <2>4. i = All[a].wn + j - 1
    BY <1>8, <2>1
  <2>2. j + 1 \in 1 .. Len(All[a].words)
    <3>1. i + 1 < All[a].wn + Len(All[a].words)
      BY <1>7, <1>10
    <3> QED
      BY <1>7, <2>4, <3>1 DEF Pos
  <2>3. All[a].words[j + 1] = i + 1
    <3>1. All[a].words[j + 1] = All[a].wn + (j + 1) - 1
      BY <1>8, <2>2
    <3> QED
      BY <1>7, <2>4, <3>1 DEF Pos
  <2> QED
    BY <1>6, <1>7, <2>1, <2>2, <2>3
<1>11. \A i \in 1 .. wn - 1 : /\ xs'[i] = IF Moved(i) THEN xs[i] + 1 ELSE xs[i]
                              /\ xs'[i] \in xs[i] .. xs[i] + 1
  BY <1>1, <1>5
<1> HIDE DEF Moved
(* The words of the lines.                                                  *)
<1>12. ASSUME NEW k \in 1 .. Len(All)
       PROVE  /\ All[k].wn \in Pos /\ Behind(All[k]) \in Pos /\ Behind(All[k]) <= wn
              /\ Behind(All[k]) = All[k].wn + Len(All[k].words) /\ Len(All[k].words) \in Nat
              /\ All[k].words # <<>> => Len(All[k].words) # 0
              /\ k < a => Behind(All[k]) <= All[a].wn
              /\ k > a => Behind(All[a]) <= All[k].wn
  <2>1. /\ All[k].wn \in Pos /\ Behind(All[k]) \in Pos
        /\ Behind(All[k]) = All[k].wn + Len(All[k].words) /\ Len(All[k].words) \in Nat
        /\ All[k].words # <<>> => Len(All[k].words) # 0
    BY <1>4, LineType
  <2>2. Behind(All[k]) <= wn
    BY <1>3, <1>4 DEF Chained
  <2>3. k < a => Behind(All[k]) <= All[a].wn
    <3>1. \A j \in 1 .. a - 1 : Behind(All[j]) <= All[a].wn
      BY <1>3, <1>4 DEF Chained
    <3> QED
      BY <1>4, <3>1
  <2>4. k > a => Behind(All[a]) <= All[k].wn
    <3>1. \A j \in 1 .. k - 1 : Behind(All[j]) <= All[k].wn
      BY <1>3, <1>4 DEF Chained
    <3> QED
      BY <1>4, <3>1
  <2> QED
    BY <2>1, <2>2, <2>3, <2>4
<1>13. ASSUME NEW k \in 1 .. Len(All), k # a, NEW i \in All[k].wn .. Behind(All[k]) - 1
       PROVE  i \in 1 .. wn - 1 /\ xs'[i] = xs[i]
  <2>1. i \in 1 .. wn - 1 /\ i \in Nat /\ i \in Int
    BY <1>5, <1>12 DEF Pos
  <2>2. i \notin All[a].wn .. Behind(All[a]) - 1
    BY <1>4, <1>12, <1>13, <2>1 DEF Pos
  <2>3. ~Moved(i)
    BY <1>9, <2>1, <2>2
  <2> QED
    BY <1>11, <2>1, <2>3
<1>14. Counted'
  BY <1>1, <1>2, <1>3, <1>5 DEF Counted, Count, Indent, a
<1>15. Chained'
  BY <1>1, <1>3 DEF Chained
<1>16. Spaced'
  <2> SUFFICES ASSUME NEW k \in 1 .. Len(All), NEW i \in All[k].wn .. Behind(All[k]) - 2
               PROVE  xs'[i] + WordWidth(i) <= xs'[i + 1]
    <3>1. DOMAIN All' = 1 .. Len(All)
      BY <1>1, <1>4
    <3> QED
      BY <1>1, <3>1 DEF Spaced, WordWidth
  <2>1. /\ i \in 1 .. wn - 1 /\ i + 1 \in 1 .. wn - 1 /\ i \in Nat /\ i + 1 < Behind(All[k])
        /\ i \in All[k].wn .. Behind(All[k]) - 1 /\ i + 1 \in All[k].wn .. Behind(All[k]) - 1
    <3>1. /\ All[k].wn \in Nat /\ All[k].wn >= 1 /\ Behind(All[k]) \in Nat
          /\ Behind(All[k]) <= wn
      BY <1>12 DEF Pos
    <3>2. wn \in Nat /\ i \in Int /\ All[k].wn <= i /\ i <= Behind(All[k]) - 2
      BY <1>5, <3>1 DEF Pos
    <3> QED
      BY <3>1, <3>2
  <2>2. xs[i] + WordWidth(i) <= xs[i + 1]
    BY <1>3, <1>4 DEF Spaced
  <2>3. WordWidth(i) \in Nat
    <3>1. wn = Count + 1 /\ Count \in Nat
      BY <1>1, <1>2, <1>3, ParagraphType DEF Counted
    <3> QED
      BY <1>2, <2>1, <3>1, ParagraphType
  <2>4. CASE k # a
    BY <1>13, <2>1, <2>2, <2>4
  <2>5. CASE k = a
    <3>1. Moved(i) => Moved(i + 1)
      BY <1>10, <2>1, <2>5
    <3>2. xs[i] \in Nat /\ xs[i + 1] \in Nat
      BY <1>5, <2>1
    <3>3. CASE Moved(i)
      <4>1. xs'[i] = xs[i] + 1 /\ xs'[i + 1] = xs[i + 1] + 1
        BY <1>11, <2>1, <3>1, <3>3
      <4> QED
        BY <2>2, <2>3, <3>2, <4>1
    <3>4. CASE ~Moved(i)
      <4>1. xs'[i] = xs[i] /\ xs'[i + 1] \in xs[i + 1] .. xs[i + 1] + 1
        BY <1>11, <2>1, <3>4
      <4> QED
        BY <2>2, <2>3, <3>2, <4>1
    <3> QED
      BY <3>3, <3>4
  <2> QED
    BY <2>4, <2>5
<1>17. Full'
  BY <1>1, <1>3 DEF Full, WordWidth, Indent
<1>18. Measured'
  <2> SUFFICES ASSUME NEW k \in 1 .. Len(All), All[k].words # <<>>
               PROVE  /\ k > a => Ends(k)' = Used[k]
                      /\ k = a => Ends(k)' <= w'
                      /\ k = a /\ Len(All[k].words) > 1 => w' <= width - Indent(k)
                      /\ Len(All[k].words) > 1 => Ends(k)' <= width - Indent(k)
    BY <1>1, <1>4 DEF Measured, Indent
  <2>1. Ends(k)' = xs'[LastOf(All[k])] + WordWidth(LastOf(All[k]))
    BY <1>1 DEF Ends, WordWidth
  <2>2. LastOf(All[k]) \in 1 .. wn - 1 /\ LastOf(All[k]) \in All[k].wn .. Behind(All[k]) - 1
    <3>1. /\ Behind(All[k]) <= wn /\ Behind(All[k]) = All[k].wn + Len(All[k].words)
          /\ All[k].wn \in Nat /\ All[k].wn >= 1 /\ Len(All[k].words) \in Nat
          /\ Len(All[k].words) # 0
      BY <1>12 DEF Pos
    <3>2. wn \in Nat
      BY <1>5 DEF Pos
    <3>3. Behind(All[k]) \in Nat /\ Behind(All[k]) > All[k].wn
      BY <3>1
    <3>4. LastOf(All[k]) = Behind(All[k]) - 1
      BY DEF LastOf
    <3> QED
      BY <3>1, <3>2, <3>3, <3>4
  <2>3. CASE k # a
    <3>1. Ends(k)' = Ends(k)
      BY <1>13, <2>1, <2>2, <2>3 DEF Ends
    <3> QED
      BY <1>1, <1>3, <1>4, <2>3, <3>1 DEF Measured, a
  <2>4. CASE k = a
    <3>1. WordWidth(LastOf(All[k])) \in Nat
      <4>1. wn = Count + 1 /\ Count \in Nat
        BY <1>1, <1>2, <1>3, ParagraphType DEF Counted
      <4> QED
        BY <1>2, <2>2, <4>1, ParagraphType
    <3>2. Ends(k)' <= Ends(k) + 1 /\ Ends(k) \in Nat /\ Ends(k)' \in Nat
      BY <1>5, <1>11, <2>1, <2>2, <3>1 DEF Ends
    <3>3. Ends(k) <= w
      BY <1>1, <1>3, <1>4, <2>4 DEF Measured, a
    <3>4. Len(All[k].words) > 1 => w' <= width - Indent(k)
      <4>1. /\ \A l : Indent(l) \in Nat
            /\ \A l : l > 1 => Indent(l) = Indent(2)
            /\ Indent(2) = 0
        BY <1>1, <1>2, <1>3, ParagraphType DEF Counted
      <4>2. room = width - Indent(2) /\ width \in Nat
        BY <1>1, <1>2, <1>3, <1>4 DEF Counted, TypeInv
      <4>3. w < room - (IF a = 1 THEN Indent(1) ELSE 0)
        BY <1>1 DEF Slack, Indent, a
      <4>4. w < width - Indent(k)
        BY <1>4, <2>4, <4>1, <4>2, <4>3
      <4> QED
        BY <1>1, <1>4, <4>1, <4>2, <4>4
    <3> QED
      <4>1. \A l : Indent(l) \in Nat
        BY <1>2, ParagraphType
      <4>2. Ends(k)' <= w'
        BY <1>1, <1>4, <3>2, <3>3
      <4>3. width \in Nat
        BY <1>2 DEF TypeInv
      <4> QED
        BY <1>1, <1>4, <2>4, <3>2, <3>4, <4>1, <4>2, <4>3
  <2> QED
    BY <2>3, <2>4
<1>19. Empty'
  BY <1>1 DEF Empty
<1> QED
  BY <1>14, <1>15, <1>16, <1>17, <1>18, <1>19 DEF Begun

-----------------------------------------------------------------------------
(* The invariant and what it says of a wrapped paragraph.                   *)

LEMMA StepInductive ==
  ASSUME IInv, [WrapNext]_<<width, loop>> PROVE IInv'
<1>1. CASE \E p \in Paragraphs : Call(p) /\ UNCHANGED width
  <2>1. PICK p \in Paragraphs : Call(p) /\ UNCHANGED width
    BY <1>1
  <2>2. TypeInv' /\ Begun'
    BY <2>1, CallType, CallKeeps DEF IInv
  <2>3. Idle'
    <3>1. All' = <<line'>>
      BY <2>1 DEF Call, All
    <3> QED
      BY <3>1 DEF Idle
  <2> QED
    BY <2>2, <2>3 DEF IInv
<1>2. CASE PutWord
  <2>1. TypeInv' /\ Begun'
    BY <1>2, PutWordType, PutInLineKeeps, PutInNextLineKeeps DEF IInv, PutWord
  <2>2. Idle'
    <3>1. Len(All') >= 1
      <4>1. Len(All) \in Nat /\ Len(All) >= 1
        BY <1>2, AllWhileWrapping DEF IInv, PutWord
      <4> QED
        BY <1>2, <4>1, AllAfterPutInLine, AllAfterPutInNextLine DEF PutWord
    <3> QED
      BY <3>1 DEF Idle
  <2> QED
    BY <2>1, <2>2 DEF IInv
<1>3. CASE EndWrap
  <2>1. All' = All /\ pc = "wrap"
    BY <1>3 DEF EndWrap, All
  <2> QED
    BY <1>3, <2>1, EndWrapType, EndWrapKeeps DEF IInv, Idle
<1>4. CASE AddSpace
  <2>1. All' = All /\ pc = "justify"
    BY <1>4 DEF AddSpace, All
  <2> QED
    BY <1>4, <2>1, AddSpaceType, AddSpaceKeeps DEF IInv, Idle
<1>5. CASE NextLine
  <2>1. All' = All /\ pc = "justify"
    BY <1>5 DEF NextLine, All
  <2> QED
    BY <1>5, <2>1, NextLineKeeps DEF IInv, Idle
<1>6. CASE EndJustify
  <2>1. All' = All /\ pc = "justify"
    BY <1>6 DEF EndJustify, All
  <2> QED
    BY <1>6, <2>1, EndJustifyKeeps DEF IInv, Idle
<1>7. CASE UNCHANGED <<width, loop>>
  <2>1. UNCHANGED <<width, para, pc, wn, lines, line, w, room, xs, linesw, at>>
    BY <1>7 DEF loop
  <2>2. TypeInv'
    BY <2>1 DEF IInv, TypeInv
  <2>3. All' = All /\ Used' = Used
    BY <2>1 DEF All, Used
  <2>4. Idle'
    BY <2>1, <2>3 DEF IInv, Idle
  <2>5. Begun'
    BY <2>1, <2>3 DEF IInv, Begun, Counted, Chained, Spaced, Full, Measured, Empty,
                      Ends, WordWidth, Indent, Count
  <2> QED
    BY <2>2, <2>4, <2>5 DEF IInv
<1> QED
  BY <1>1, <1>2, <1>3, <1>4, <1>5, <1>6, <1>7 DEF WrapNext, Step

LEMMA Inductive == WrapSpec => []IInv
<1>1. WrapInit => IInv
  <2> SUFFICES ASSUME WrapInit PROVE IInv
    OBVIOUS
  <2>1. pc = "idle" /\ All = <<>>
    BY DEF WrapInit, All
  <2> QED
    BY <2>1, TypeInit DEF IInv, Begun, Idle
<1>2. IInv /\ [WrapNext]_<<width, loop>> => IInv'
  BY StepInductive
<1> QED
  BY <1>1, <1>2, PTL DEF WrapSpec

LEMMA WrappedLines ==
  ASSUME IInv, Wrapped
  PROVE  /\ All = lines /\ Used = linesw /\ wn = Count + 1
         /\ Chained /\ Spaced /\ Full /\ Measured
         /\ Len(lines) \in Nat /\ DOMAIN lines = 1 .. Len(lines)
<1>1. All = lines /\ Used = linesw /\ All # <<>> /\ pc = "idle"
  BY DEF Wrapped, All, Used
<1> QED
  BY <1>1, AllType DEF IInv, Begun, Counted

(* Every word is in one line, and the lines are in order: what the cursor,  *)
(* the screen and the exporters take for granted of a paragraph's lines.    *)
THEOREM WordsInLines == WrapSpec => []LinesPartition
<1>1. IInv => LinesPartition
  <2> SUFFICES ASSUME IInv, Wrapped PROVE LinesPartition
    BY DEF LinesPartition
  <2> QED
    BY WrappedLines DEF LinesPartition, Chained
<1> QED
  BY <1>1, Inductive, PTL

(* Words neither overlap nor stick out of the text, unless one is too wide. *)
THEOREM WordsFit == WrapSpec => []LinesFit
<1>1. IInv => LinesFit
  <2> SUFFICES ASSUME IInv, Wrapped, NEW k \in DOMAIN lines PROVE LineFits(lines[k], k)
    BY DEF LinesFit
  <2>1. Spaced /\ Measured /\ All = lines
    BY WrappedLines
  <2>2. lines[k] \in LineRecord
    BY WrappedLines, ElementOfSeq DEF IInv, TypeInv
  <2>3. Len(lines[k].words) > 1 => lines[k].words # <<>>
    BY <2>2, LineType
  <2> QED
    BY <2>1, <2>3 DEF LineFits, Spaced, Measured, Ends, LastOf
<1> QED
  BY <1>1, Inductive, PTL

(* No line is ended before it has to be. *)
THEOREM NoLineTooShort == WrapSpec => []LinesFull
<1>1. IInv => LinesFull
  <2> SUFFICES ASSUME IInv, Wrapped PROVE LinesFull
    BY DEF LinesFull
  <2> QED
    BY WrappedLines DEF LinesFull, Full
<1> QED
  BY <1>1, Inductive, PTL

-----------------------------------------------------------------------------
(* Induction and recursion up to a number.                                  *)

LEMMA NatMin ==
  ASSUME NEW T, T \subseteq Nat, T # {}
  PROVE  \E x \in T : \A y \in T : x <= y
<1>1. PICK x \in T : \A y \in T : ~ (<<y, x>> \in OpToRel(<, Nat))
  BY NatLessThanWellFounded, WFMin, Zenon
<1>2. \A y \in T : ~(y < x)
  BY <1>1, Zenon DEF OpToRel
<1> QED BY <1>2, SMT

LEMMA Induction ==
  ASSUME NEW n \in Nat, NEW T, 0 \in T,
         \A i \in 0 .. n - 1 : i \in T => i + 1 \in T
  PROVE  \A i \in 0 .. n : i \in T
<1> SUFFICES ASSUME NEW j \in 0 .. n, j \notin T PROVE FALSE
  OBVIOUS
<1> DEFINE Bad == {i \in 0 .. n : i \notin T}
<1>0. Bad \subseteq Nat /\ Bad # {}
  OBVIOUS
<1>1. PICK x \in Bad : \A y \in Bad : x <= y
  <2> HIDE DEF Bad
  <2> QED BY <1>0, NatMin
<1>2. x \in 1 .. n
  BY <1>1
<1>3. x - 1 \in T
  BY <1>1, <1>2
<1> QED BY <1>1, <1>2, <1>3

(* What is defined by a step from each number to the next is a function.    *)
Solution(a, b, c, G) ==
  CHOOSE f : f = [i \in a .. b |-> IF i = a THEN c ELSE G[<<i, f[i - 1]>>]]

IsRun(f, a, b, S, c, G) ==
  /\ f \in [a .. b -> S]
  /\ f[a] = c
  /\ \A i \in a + 1 .. b : f[i] = G[<<i, f[i - 1]>>]

LEMMA Recursion ==
  ASSUME NEW a \in Nat, NEW b \in Nat, a <= b, NEW S, NEW c \in S,
         NEW G \in [(a + 1 .. b) \X S -> S]
  PROVE  IsRun(Solution(a, b, c, G), a, b, S, c, G)
<1> DEFINE Upto(k, f) == f[a] = c /\ \A i \in a + 1 .. a + k : f[i] = G[<<i, f[i - 1]>>]
           T == {k \in 0 .. b - a : \E f \in [a .. a + k -> S] : Upto(k, f)}
<1>1. 0 \in T
  <2> DEFINE f == [i \in a .. a |-> c]
  <2>1. f \in [a .. a + 0 -> S]
    OBVIOUS
  <2>2. Upto(0, f)
    OBVIOUS
  <2>3. 0 \in 0 .. b - a
    OBVIOUS
  <2> QED BY <2>1, <2>2, <2>3, Zenon
<1>2. ASSUME NEW k \in 0 .. (b - a) - 1, k \in T PROVE k + 1 \in T
  <2>1. PICK f \in [a .. a + k -> S] : Upto(k, f)
    BY <1>2
  <2> DEFINE n == a + (k + 1)
             x == G[<<n, f[a + k]>>]
             g == [i \in a .. n |-> IF i = n THEN x ELSE f[i]]
  <2>2. <<n, f[a + k]>> \in (a + 1 .. b) \X S
    BY <2>1
  <2>3. x \in S
    BY <2>2
  <2>4. g \in [a .. n -> S]
    <3> HIDE DEF x
    <3> QED BY <2>1, <2>3
  <2>5. g[a] = c
    BY <2>1
  <2>6. ASSUME NEW i \in a + 1 .. n PROVE g[i] = G[<<i, g[i - 1]>>]
    <3>1. CASE i = n
      <4>1. g[i] = x
        BY <3>1
      <4>2. g[i - 1] = f[a + k]
        BY <3>1
      <4> QED BY <3>1, <4>1, <4>2
    <3>2. CASE i # n
      <4>1. i \in a + 1 .. a + k /\ g[i] = f[i] /\ g[i - 1] = f[i - 1]
        BY <3>2
      <4> QED BY <2>1, <4>1
    <3> QED BY <3>1, <3>2
  <2>7. Upto(k + 1, g)
    <3> HIDE DEF g
    <3> QED BY <2>5, <2>6
  <2>8. k + 1 \in 0 .. b - a
    OBVIOUS
  <2> HIDE DEF g, Upto
  <2> QED BY <2>4, <2>7, <2>8
<1>3. b - a \in T
  <2>1. b - a \in Nat /\ b - a \in 0 .. b - a
    OBVIOUS
  <2> HIDE DEF T
  <2> QED BY <1>1, <1>2, <2>1, Induction
<1>4. PICK f \in [a .. b -> S] : Upto(b - a, f)
  <2>1. a + (b - a) = b
    OBVIOUS
  <2> QED BY <1>3, <2>1
<1> DEFINE Eq(u) == u = [i \in a .. b |-> IF i = a THEN c ELSE G[<<i, u[i - 1]>>]]
<1>5. Eq(f)
  <2>1. ASSUME NEW i \in a .. b PROVE f[i] = IF i = a THEN c ELSE G[<<i, f[i - 1]>>]
    BY <1>4
  <2>2. f = [i \in a .. b |-> f[i]]
    OBVIOUS
  <2> QED BY <2>1, <2>2
<1> DEFINE u == Solution(a, b, c, G)
<1>6. Eq(u)
  <2> HIDE DEF Eq
  <2>1. u = CHOOSE v : Eq(v)
    BY Zenon DEF Solution, Eq
  <2> QED BY <1>5, <2>1
<1> HIDE DEF u
<1>7. u[a] = c
  BY <1>6
<1>8. \A i \in a + 1 .. b : u[i] = G[<<i, u[i - 1]>>]
  BY <1>6
<1>9. u \in [a .. b -> S]
  <2> DEFINE V == {k \in 0 .. b - a : u[a + k] \in S}
  <2>1. 0 \in V
    BY <1>7
  <2>2. ASSUME NEW k \in 0 .. (b - a) - 1, k \in V PROVE k + 1 \in V
    <3>1. a + (k + 1) \in a + 1 .. b /\ a + (k + 1) - 1 = a + k
      OBVIOUS
    <3>2. <<a + (k + 1), u[a + k]>> \in (a + 1 .. b) \X S
      BY <2>2, <3>1
    <3>3. u[a + (k + 1)] = G[<<a + (k + 1), u[a + k]>>]
      BY <1>8, <3>1
    <3> QED BY <3>2, <3>3
  <2>3. \A k \in 0 .. b - a : k \in V
    <3>1. b - a \in Nat
      OBVIOUS
    <3> HIDE DEF V
    <3> QED BY <2>1, <2>2, <3>1, Induction
  <2>4. \A i \in a .. b : u[i] \in S
    <3> SUFFICES ASSUME NEW i \in a .. b PROVE u[i] \in S
      OBVIOUS
    <3>1. i - a \in 0 .. b - a /\ a + (i - a) = i
      OBVIOUS
    <3> QED BY <2>3, <3>1
  <2> QED BY <1>6, <2>4
<1> QED BY <1>7, <1>8, <1>9 DEF u, IsRun

-----------------------------------------------------------------------------
(* Where a word goes follows from the word before it.                       *)

Spot == [ln : Pos, x : Nat]
FirstSpot == [ln |-> IF WordWidth(1) < width - Indent(1) THEN 1 ELSE 2, x |-> 0]
Following(i, q) ==
  IF q.x + WordWidth(i - 1) + WordWidth(i) < width - Indent(q.ln)
  THEN [ln |-> q.ln, x |-> q.x + WordWidth(i - 1)] ELSE [ln |-> q.ln + 1, x |-> 0]

Filling(f) ==
  /\ f \in [1 .. Count -> Spot]
  /\ f[1] = FirstSpot
  /\ \A i \in 2 .. Count : f[i] = Following(i, f[i - 1])
Spots == CHOOSE f : Filling(f)

LEMMA SpotsFill ==
  ASSUME TypeInv PROVE Filling(Spots)
<1>1. /\ Count \in Nat /\ Count >= 1 /\ width \in Nat
      /\ \A i \in 1 .. Count : WordWidth(i) \in Nat
      /\ \A k : Indent(k) \in Nat
  BY ParagraphType DEF TypeInv
<1> DEFINE G == [p \in (1 + 1 .. Count) \X Spot |-> Following(p[1], p[2])]
<1>2. FirstSpot \in Spot
  BY DEF FirstSpot, Spot, Pos
<1>3. ASSUME NEW i \in 2 .. Count, NEW q \in Spot PROVE Following(i, q) \in Spot
  <2>1. WordWidth(i - 1) \in Nat /\ q.ln \in Pos /\ q.x \in Nat
    BY <1>1 DEF Spot
  <2>2. q.x + WordWidth(i - 1) \in Nat /\ q.ln + 1 \in Pos
    BY <2>1 DEF Pos
  <2> QED
    BY <2>1, <2>2 DEF Following, Spot
<1>4. G \in [(1 + 1 .. Count) \X Spot -> Spot]
  BY <1>3
<1> DEFINE f == Solution(1, Count, FirstSpot, G)
<1>5. IsRun(f, 1, Count, Spot, FirstSpot, G)
  <2> HIDE DEF G
  <2> QED
    BY <1>1, <1>2, <1>4, Recursion
<1> HIDE DEF f
<1>6. ASSUME NEW i \in 2 .. Count PROVE f[i] = Following(i, f[i - 1])
  <2>1. <<i, f[i - 1]>> \in (1 + 1 .. Count) \X Spot
    BY <1>1, <1>5 DEF IsRun
  <2>2. f[i] = G[<<i, f[i - 1]>>]
    <3> HIDE DEF G
    <3> QED
      BY <1>5 DEF IsRun
  <2> QED
    BY <2>1, <2>2
<1>7. Filling(f)
  BY <1>5, <1>6 DEF Filling, IsRun
<1> QED
  BY <1>7 DEF Spots

(* The lines have the words where they are to go, and begin at the margin.  *)
Filled ==
  /\ \A k \in DOMAIN All : \A i \in All[k].wn .. LastOf(All[k]) : Spots[i].ln = k
  /\ pc = "wrap" => \A i \in 1 .. wn - 1 : Spots[i].x = xs[i]
Flush ==
  \A k \in DOMAIN All : All[k].words # <<>> => xs[All[k].wn] = 0
FInv == Filled /\ Flush

LEMMA LineBounds ==
  ASSUME IInv, NEW k \in DOMAIN All
  PROVE  /\ Len(All) \in Nat /\ k \in 1 .. Len(All) /\ DOMAIN All = 1 .. Len(All)
         /\ All[k].wn \in Nat /\ All[k].wn >= 1 /\ Len(All[k].words) \in Nat
         /\ DOMAIN All[k].words = 1 .. Len(All[k].words)
         /\ (All[k].words = <<>>) = (Len(All[k].words) = 0)
         /\ Behind(All[k]) = All[k].wn + Len(All[k].words)
         /\ LastOf(All[k]) = All[k].wn + Len(All[k].words) - 1
         /\ Behind(All[k]) <= wn /\ wn \in Nat
         /\ wn <= Count + 1 /\ Count \in Nat
         /\ \A j \in 1 .. Len(All[k].words) : All[k].words[j] = All[k].wn + j - 1
         /\ Behind(All[k]) = IF k < Len(All) THEN All[k + 1].wn ELSE wn
         /\ \A j \in 1 .. k - 1 : Behind(All[j]) <= All[k].wn
         /\ k > 1 => All[k].words # <<>>
         /\ All[1].wn = 1
<1>1. TypeInv /\ All \in Seq(LineRecord) /\ Len(All) \in Nat /\ DOMAIN All = 1 .. Len(All)
  BY AllType DEF IInv
<1>2. All # <<>>
  BY <1>1, EmptySeq
<1>3. Counted /\ Chained
  BY <1>2 DEF IInv, Begun
<1>4. All[k] \in LineRecord
  BY <1>1, ElementOfSeq
<1>5. /\ All[k].wn \in Nat /\ All[k].wn >= 1 /\ Len(All[k].words) \in Nat
      /\ DOMAIN All[k].words = 1 .. Len(All[k].words)
      /\ (All[k].words = <<>>) = (Len(All[k].words) = 0)
      /\ Behind(All[k]) = All[k].wn + Len(All[k].words)
  BY <1>4, LineType DEF Pos
<1>6. LastOf(All[k]) = All[k].wn + Len(All[k].words) - 1
  BY <1>5 DEF LastOf
<1>7. wn \in Nat /\ Count \in Nat /\ wn <= Count + 1
  BY <1>1, <1>3, ParagraphType DEF TypeInv, Counted, Pos
<1> QED
  BY <1>1, <1>3, <1>5, <1>6, <1>7 DEF Chained, RunOfWords

(* The word that comes next. *)
LEMMA NextSpot ==
  ASSUME IInv, FInv, pc = "wrap", wn <= Count
  PROVE  Spots[wn] = IF Fits THEN [ln |-> Len(All), x |-> w]
                     ELSE [ln |-> Len(All) + 1, x |-> 0]
<1> DEFINE n == Len(All)
<1>1. TypeInv /\ Filling(Spots) /\ lines \in Seq(LineRecord) /\ w \in Nat /\ width \in Nat
  BY SpotsFill DEF IInv, TypeInv
<1>2. n = Len(lines) + 1 /\ Len(lines) \in Nat /\ All[n] = line
  BY <1>1, AllWhileWrapping
<1>3. n \in DOMAIN All /\ All # <<>>
  <2>1. DOMAIN All = 1 .. n
    BY <1>1, AllType
  <2> QED
    BY <1>2, <2>1 DEF Idle, IInv
<1>4. Counted /\ Measured /\ Empty
  BY <1>3 DEF IInv, Begun
<1>5. room = width - Indent(n)
  BY <1>2, <1>4 DEF Counted
<1>6. /\ wn \in Nat /\ wn >= 1 /\ wn \in 1 .. Count
      /\ \A i \in 1 .. Count : WordWidth(i) \in Nat
      /\ Indent(n) \in Nat
  BY <1>1, ParagraphType DEF TypeInv, Pos
<1> HIDE DEF n
<1>7. CASE line.words = <<>>
  <2>1. lines = <<>> /\ w = 0
    BY <1>4, <1>7 DEF Empty
  <2>2. n = 1
    BY <1>1, <1>2, <2>1, EmptySeq
  <2>3. wn = 1
    <3>1. Len(line.words) = 0
      BY <1>2, <1>3, <1>7, LineBounds
    <3> QED
      BY <1>2, <1>3, <2>2, <3>1, LineBounds DEF n
  <2>4. Spots[1] = FirstSpot
    BY <1>1 DEF Filling
  <2>5. w + WordWidth(wn) < room <=> WordWidth(1) < width - Indent(1)
    BY <1>5, <1>6, <2>1, <2>2, <2>3
  <2> QED
    BY <2>1, <2>2, <2>3, <2>4, <2>5 DEF FirstSpot, Fits, n
<1>8. CASE line.words # <<>>
  <2>1. LastOf(line) = wn - 1 /\ wn - 1 \in 1 .. wn - 1 /\ wn - 1 \in line.wn .. LastOf(line)
    <3>1. /\ Len(line.words) \in Nat /\ Len(line.words) # 0 /\ line.wn \in Nat /\ line.wn >= 1
          /\ Behind(line) = wn /\ LastOf(line) = line.wn + Len(line.words) - 1
          /\ Behind(line) = line.wn + Len(line.words)
      BY <1>2, <1>3, <1>8, LineBounds DEF n
    <3> QED
      BY <1>6, <3>1
  <2>2. w = xs[wn - 1] + WordWidth(wn - 1)
    <3>1. Ends(n) = Used[n]
      BY <1>2, <1>3, <1>4, <1>8 DEF Measured
    <3>2. Used[n] = w
      <4>1. Used = Append(linesw, w) /\ Len(Used) = n /\ linesw \in Seq(Nat)
        BY <1>1, <1>4 DEF Used, Counted, TypeInv, n
      <4> QED
        BY <1>1, <4>1, Appended
    <3> QED
      BY <1>2, <2>1, <3>1, <3>2 DEF Ends
  <2>3. Spots[wn - 1].ln = n /\ Spots[wn - 1].x = xs[wn - 1]
    BY <1>2, <1>3, <2>1 DEF FInv, Filled
  <2>4. wn \in 2 .. Count
    BY <1>6, <2>1
  <2>5. Spots[wn] = Following(wn, Spots[wn - 1])
    BY <1>1, <2>4 DEF Filling
  <2> QED
    BY <1>5, <2>2, <2>3, <2>5 DEF Following, Fits, n
<1> QED
  BY <1>7, <1>8

LEMMA PutWordFills ==
  ASSUME IInv, FInv, PutWord, IInv' PROVE FInv'
<1> DEFINE n == Len(All)
<1>1. /\ pc = "wrap" /\ pc' = "wrap" /\ wn <= Count /\ wn' = wn + 1
      /\ UNCHANGED <<width, para>> /\ TypeInv /\ TypeInv'
      /\ xs \in Seq(Nat) /\ w \in Nat
  BY DEF PutWord, IInv, TypeInv
<1>2. Spots' = Spots
  BY <1>1 DEF Spots, Filling, FirstSpot, Following, Count, WordWidth, Indent
<1>3. /\ n \in DOMAIN All /\ All[n] = line /\ n \in Nat /\ DOMAIN All = 1 .. n
      /\ DOMAIN All' = 1 .. Len(All') /\ Len(xs) = wn - 1
  <2>1. DOMAIN All = 1 .. n /\ n \in Nat /\ DOMAIN All' = 1 .. Len(All')
    BY <1>1, AllType
  <2>2. n >= 1 /\ All[n] = line
    BY <1>1, AllWhileWrapping
  <2>3. Counted
    BY <1>1 DEF IInv, Idle, Begun
  <2> QED
    BY <2>1, <2>2, <2>3 DEF Counted
<1>4. Filled /\ Flush
  BY DEF FInv
<1>5. wn \in Nat /\ wn >= 1
  BY <1>1 DEF TypeInv, Pos
<1>6. CASE Fits
  <2>1. PutInLine
    BY <1>6 DEF PutWord
  <2>2. /\ Len(All') = n
        /\ \A k \in 1 .. n - 1 : All'[k] = All[k]
        /\ All'[n] = line' /\ line'.wn = line.wn /\ Len(line'.words) = Len(line.words) + 1
    BY <2>1, AllAfterPutInLine
  <2>3. xs' = Append(xs, w)
    BY <2>1 DEF PutInLine
  <2>4. Spots[wn].ln = n /\ Spots[wn].x = w
    BY <1>1, <1>6, NextSpot
  <2>5. (\A i \in 1 .. wn - 1 : xs'[i] = xs[i]) /\ xs'[wn] = w
    BY <1>1, <1>3, <1>5, <2>3, Appended
  <2> HIDE DEF n
  <2>6. ASSUME NEW k \in 1 .. n, NEW i \in All'[k].wn .. LastOf(All'[k])
        PROVE  Spots[i].ln = k
    <3>1. CASE k < n
      BY <1>3, <1>4, <2>2, <3>1 DEF Filled
    <3>2. CASE k = n
      <4>1. /\ line.wn \in Nat /\ LastOf(line) = line.wn + Len(line.words) - 1
            /\ Behind(line) = wn /\ Behind(line) = line.wn + Len(line.words)
            /\ Len(line.words) \in Nat
        <5>1. n \in DOMAIN All /\ All[n] = line
          BY <1>3
        <5> QED
          BY <1>3, <5>1, LineBounds
      <4>2. LastOf(line') = LastOf(line) + 1 /\ LastOf(line) = wn - 1
        <5>1. line'.wn = line.wn /\ Len(line'.words) = Len(line.words) + 1
          BY <2>2
        <5> QED
          BY <4>1, <5>1 DEF LastOf, Behind
      <4>3. i = wn \/ i \in line.wn .. LastOf(line)
        BY <2>2, <3>2, <4>1, <4>2
      <4> QED
        BY <1>3, <1>4, <2>4, <3>2, <4>3 DEF Filled
    <3> QED
      BY <1>3, <3>1, <3>2
  <2>7. \A i \in 1 .. wn : Spots[i].x = xs'[i]
    <3>1. \A i \in 1 .. wn - 1 : Spots[i].x = xs[i]
      BY <1>1, <1>4 DEF Filled
    <3> QED
      BY <1>5, <2>4, <2>5, <3>1
  <2>8. ASSUME NEW k \in 1 .. n, All'[k].words # <<>> PROVE xs'[All'[k].wn] = 0
    <3>1. /\ All[k].wn \in Nat /\ All[k].wn >= 1 /\ Len(All[k].words) \in Nat
          /\ All[k].wn + Len(All[k].words) <= wn
          /\ (All[k].words = <<>>) = (Len(All[k].words) = 0)
      BY <1>3, LineBounds
    <3>2. CASE All[k].words # <<>>
      <4>1. All'[k].wn = All[k].wn /\ xs[All[k].wn] = 0
        BY <1>3, <1>4, <2>2, <3>2 DEF Flush
      <4>2. All[k].wn \in 1 .. wn - 1
        BY <1>5, <3>1, <3>2
      <4> QED
        BY <2>5, <4>1, <4>2
    <3>3. CASE All[k].words = <<>>
      <4>1. k = n
        BY <1>3, <2>2, <2>8, <3>3
      <4>2. Empty /\ line.words = <<>>
        BY <1>1, <1>3, <3>3, <4>1 DEF IInv, Idle, Begun
      <4>3. w = 0 /\ wn = line.wn
        <5>1. Behind(line) = wn /\ Behind(line) = line.wn + Len(line.words) /\ line.wn \in Nat
          BY <1>3, LineBounds DEF n
        <5>2. Len(line.words) = 0
          BY <1>3, <3>1, <3>3, <4>1
        <5> QED
          BY <1>1, <4>2, <5>1, <5>2 DEF Empty
      <4> QED
        BY <2>2, <2>5, <4>1, <4>3
    <3> QED
      BY <3>2, <3>3
  <2> QED
    BY <1>1, <1>2, <1>3, <1>5, <2>2, <2>6, <2>7, <2>8 DEF FInv, Filled, Flush
<1>7. CASE ~Fits
  <2>1. PutInNextLine
    BY <1>7 DEF PutWord
  <2>2. /\ Len(All') = n + 1
        /\ \A k \in 1 .. n : All'[k] = All[k]
        /\ All'[n + 1] = line' /\ line'.wn = wn /\ line'.words = <<wn>>
    BY <2>1, AllAfterPutInNextLine DEF PutInNextLine
  <2>3. xs' = Append(xs, 0)
    BY <2>1 DEF PutInNextLine
  <2>4. Spots[wn].ln = n + 1 /\ Spots[wn].x = 0
    BY <1>1, <1>7, NextSpot
  <2>5. (\A i \in 1 .. wn - 1 : xs'[i] = xs[i]) /\ xs'[wn] = 0
    BY <1>1, <1>3, <1>5, <2>3, Appended
  <2> HIDE DEF n
  <2>6. ASSUME NEW k \in 1 .. n + 1, NEW i \in All'[k].wn .. LastOf(All'[k])
        PROVE  Spots[i].ln = k
    <3>1. CASE k <= n
      BY <1>3, <1>4, <2>2, <3>1 DEF Filled
    <3>2. CASE k = n + 1
      <4>1. LastOf(line') = wn
        BY <1>5, <2>2 DEF LastOf, Behind
      <4> QED
        BY <1>5, <2>2, <2>4, <3>2, <4>1
    <3> QED
      BY <1>3, <3>1, <3>2
  <2>7. \A i \in 1 .. wn : Spots[i].x = xs'[i]
    <3>1. \A i \in 1 .. wn - 1 : Spots[i].x = xs[i]
      BY <1>1, <1>4 DEF Filled
    <3> QED
      BY <1>5, <2>4, <2>5, <3>1
  <2>8. ASSUME NEW k \in 1 .. n + 1, All'[k].words # <<>> PROVE xs'[All'[k].wn] = 0
    <3>1. CASE k <= n
      <4>1. k \in 1 .. n /\ All'[k] = All[k]
        BY <1>3, <2>2, <3>1
      <4>2. /\ All[k].wn \in Nat /\ All[k].wn >= 1 /\ Len(All[k].words) \in Nat
            /\ All[k].wn + Len(All[k].words) <= wn
            /\ (All[k].words = <<>>) = (Len(All[k].words) = 0)
        BY <1>3, <4>1, LineBounds
      <4>3. xs[All[k].wn] = 0
        BY <1>3, <1>4, <2>8, <4>1 DEF Flush
      <4>4. All[k].wn \in 1 .. wn - 1
        BY <1>5, <2>8, <4>1, <4>2
      <4> QED
        BY <2>5, <4>1, <4>3, <4>4
    <3>2. CASE k = n + 1
      BY <2>2, <2>5, <3>2
    <3> QED
      BY <1>3, <3>1, <3>2
  <2> QED
    BY <1>1, <1>2, <1>3, <1>5, <2>2, <2>6, <2>7, <2>8 DEF FInv, Filled, Flush
<1> QED
  BY <1>6, <1>7

LEMMA CallFills ==
  ASSUME NEW p, Call(p), TypeInv' PROVE FInv'
<1>1. All' = <<line'>> /\ line' = [wn |-> 1, words |-> <<>>] /\ wn' = 1
  BY DEF Call, All
<1>2. DOMAIN All' = {1} /\ All'[1].wn = 1 /\ All'[1].words = <<>>
  BY <1>1
<1>3. LastOf(All'[1]) = 0
  BY <1>2 DEF LastOf, Behind
<1>4. Filled'
  BY <1>1, <1>2, <1>3 DEF Filled, LastOf
<1>5. Flush'
  BY <1>2 DEF Flush
<1> QED
  BY <1>4, <1>5 DEF FInv

(* Justifying leaves the words in their lines, and the first where it is.   *)
LEMMA OtherStepsFill ==
  ASSUME IInv, FInv, EndWrap \/ AddSpace \/ NextLine \/ EndJustify PROVE FInv'
<1>1. All' = All /\ pc' # "wrap" /\ UNCHANGED <<width, para, wn>>
  BY DEF EndWrap, AddSpace, NextLine, EndJustify, All
<1>2. Spots' = Spots
  BY <1>1 DEF Spots, Filling, FirstSpot, Following, Count, WordWidth, Indent
<1>3. Filled'
  BY <1>1, <1>2 DEF FInv, Filled, LastOf, Behind
<1>4. CASE ~AddSpace
  <2>1. xs' = xs
    BY <1>4 DEF EndWrap, NextLine, EndJustify
  <2> QED
    BY <1>1, <1>3, <2>1 DEF FInv, Flush
<1>5. CASE AddSpace
  <2> DEFINE a == at.ln
  <2>1. /\ pc = "justify" /\ All = lines /\ a < Len(All)
        /\ xs' = [i \in DOMAIN xs |->
                    IF \E j \in DOMAIN All[a].words : j > SpaceAfter /\ All[a].words[j] = i
                    THEN xs[i] + 1 ELSE xs[i]]
    BY <1>5 DEF AddSpace, All
  <2>2. TypeInv /\ at.ln \in Nat /\ at.ln >= 1 /\ SpaceAfter \in Nat /\ SpaceAfter >= 1
    BY DEF IInv, TypeInv, SpaceAfter, Pos
  <2>3. a \in DOMAIN All
    BY <2>1, <2>2, AllType
  <2> HIDE DEF a
  <2>4. ASSUME NEW k \in DOMAIN All, All[k].words # <<>> PROVE xs'[All[k].wn] = 0
    <3>1. xs[All[k].wn] = 0
      BY <2>4 DEF FInv, Flush
    <3>2. All[k].wn \in DOMAIN xs
      <4>1. Counted /\ xs \in Seq(Nat)
        <5>1. All # <<>>
          BY <2>1 DEF IInv, Idle
        <5> QED
          BY <5>1 DEF IInv, Begun, TypeInv
      <4>2. DOMAIN xs = 1 .. wn - 1
        BY <4>1, LenProperties DEF Counted
      <4> QED
        BY <2>4, <4>2, LineBounds
    <3>3. ASSUME NEW j \in DOMAIN All[a].words, j > SpaceAfter, All[a].words[j] = All[k].wn
          PROVE  FALSE
      <4>1. /\ j \in 1 .. Len(All[a].words) /\ Len(All[a].words) \in Nat
            /\ All[a].wn + j - 1 = All[k].wn /\ All[a].wn \in Nat
            /\ Behind(All[a]) = All[a].wn + Len(All[a].words)
            /\ a \in 1 .. Len(All)
            /\ \A i \in 1 .. a - 1 : Behind(All[i]) <= All[a].wn
        BY <2>3, <3>3, LineBounds
      <4>2. /\ k \in 1 .. Len(All) /\ All[k].wn \in Nat
            /\ Behind(All[k]) = All[k].wn + Len(All[k].words)
            /\ Len(All[k].words) \in Nat /\ Len(All[k].words) # 0
            /\ \A i \in 1 .. k - 1 : Behind(All[i]) <= All[k].wn
            /\ Len(All) \in Nat
        BY <2>4, LineBounds
      <4>3. CASE k = a
        BY <2>2, <3>3, <4>1, <4>3
      <4>6. /\ j \in Nat /\ j >= 1 /\ j <= Len(All[a].words) /\ Len(All[a].words) \in Nat
            /\ All[a].wn \in Nat /\ All[k].wn \in Nat /\ All[a].wn + j - 1 = All[k].wn
            /\ Len(All[k].words) \in Nat /\ Len(All[k].words) >= 1
        <5>1. Len(All[k].words) \in Nat /\ Len(All[k].words) >= 1 /\ All[k].wn \in Nat
          BY <4>2
        <5> QED
          BY <4>1, <5>1
      <4>4. CASE k < a
        <5>1. All[k].wn + Len(All[k].words) <= All[a].wn
          BY <4>1, <4>2, <4>4
        <5> QED
          BY <4>6, <5>1
      <4>5. CASE k > a
        <5>1. All[a].wn + Len(All[a].words) <= All[k].wn
          BY <4>1, <4>2, <4>5
        <5> QED
          BY <4>6, <5>1
      <4> QED
        BY <4>1, <4>2, <4>3, <4>4, <4>5
    <3> QED
      BY <2>1, <3>1, <3>2, <3>3
  <2>5. Flush'
    BY <1>1, <2>4 DEF Flush
  <2> QED
    BY <1>3, <2>5 DEF FInv
<1> QED
  BY <1>4, <1>5

LEMMA StepKeeps ==
  ASSUME IInv, FInv, Step PROVE IInv' /\ FInv'
<1>1. IInv'
  BY StepInductive DEF WrapNext
<1> QED
  BY <1>1, PutWordFills, OtherStepsFill DEF Step

LEMMA CallKeepsAll ==
  ASSUME IInv, NEW p \in Paragraphs, Call(p), UNCHANGED width PROVE IInv' /\ FInv'
<1>1. IInv'
  BY StepInductive DEF WrapNext
<1> QED
  BY <1>1, CallFills DEF IInv

LEMMA LinesUnchanged ==
  ASSUME IInv, FInv, UNCHANGED <<width, loop>> PROVE IInv' /\ FInv'
<1>1. IInv'
  BY StepInductive
<1>2. UNCHANGED <<width, para, pc, wn, lines, line, w, room, xs, linesw, at>>
  BY DEF loop
<1>3. Spots' = Spots
  BY <1>2 DEF Spots, Filling, FirstSpot, Following, Count, WordWidth, Indent
<1>4. All' = All
  BY <1>2 DEF All
<1> QED
  BY <1>1, <1>2, <1>3, <1>4 DEF FInv, Filled, Flush, LastOf, Behind

-----------------------------------------------------------------------------
(* getLineOfWord, in a paragraph that has been wrapped.                     *)

Left(cw) ==
  CHOOSE u : u = [k \in 1 .. Len(lines) + 1 |->
                    IF k = 1 THEN cw ELSE u[k - 1] - Len(lines[k - 1].words)]

LEMMA LineOfIs ==
  ASSUME NEW cw
  PROVE  LineOf(cw) = CHOOSE k \in DOMAIN lines :
                        /\ Left(cw)[k] <= Len(lines[k].words)
                        /\ \A j \in 1 .. k - 1 : Left(cw)[j] > Len(lines[j].words)
BY Zenon DEF LineOf, Left

(* A paragraph that has been wrapped has lines, one behind the other.       *)
LEMMA WrappedBounds ==
  ASSUME IInv, Wrapped
  PROVE  /\ All = lines /\ Len(lines) \in Nat /\ Len(lines) >= 1
         /\ DOMAIN lines = 1 .. Len(lines) /\ Count \in Nat /\ Count >= 1
         /\ lines[1].wn = 1 /\ Behind(lines[Len(lines)]) = Count + 1
         /\ \A k \in 1 .. Len(lines) :
              /\ lines[k].wn \in Nat /\ lines[k].wn >= 1 /\ Len(lines[k].words) \in Nat
              /\ DOMAIN lines[k].words = 1 .. Len(lines[k].words)
              /\ (lines[k].words = <<>>) = (Len(lines[k].words) = 0)
              /\ Behind(lines[k]) = lines[k].wn + Len(lines[k].words)
              /\ LastOf(lines[k]) = Behind(lines[k]) - 1
              /\ Behind(lines[k]) <= Count + 1
              /\ \A j \in 1 .. Len(lines[k].words) : lines[k].words[j] = lines[k].wn + j - 1
              /\ k < Len(lines) => lines[k + 1].wn = Behind(lines[k])
              /\ \A j \in 1 .. k - 1 : Behind(lines[j]) <= lines[k].wn
              /\ k > 1 => lines[k].words # <<>>
<1>1. All = lines /\ wn = Count + 1 /\ Len(lines) \in Nat /\ DOMAIN lines = 1 .. Len(lines)
  BY WrappedLines
<1>2. lines # <<>> /\ TypeInv
  BY DEF Wrapped, IInv
<1>3. Len(lines) >= 1
  BY <1>1, <1>2, EmptySeq DEF TypeInv
<1>4. Count \in Nat /\ Count >= 1
  BY <1>2, ParagraphType
<1>5. \A k \in 1 .. Len(lines) :
        /\ lines[k].wn \in Nat /\ lines[k].wn >= 1 /\ Len(lines[k].words) \in Nat
        /\ DOMAIN lines[k].words = 1 .. Len(lines[k].words)
        /\ (lines[k].words = <<>>) = (Len(lines[k].words) = 0)
        /\ Behind(lines[k]) = lines[k].wn + Len(lines[k].words)
        /\ LastOf(lines[k]) = Behind(lines[k]) - 1
        /\ Behind(lines[k]) <= Count + 1
        /\ \A j \in 1 .. Len(lines[k].words) : lines[k].words[j] = lines[k].wn + j - 1
        /\ \A j \in 1 .. k - 1 : Behind(lines[j]) <= lines[k].wn
        /\ k > 1 => lines[k].words # <<>>
  BY <1>1, LineBounds DEF LastOf
<1>6. \A k \in 1 .. Len(lines) : Behind(lines[k]) = IF k < Len(lines) THEN lines[k + 1].wn ELSE wn
  BY <1>1, LineBounds
<1>7. lines[1].wn = 1
  BY <1>1, <1>3, LineBounds
<1> QED
  BY <1>1, <1>3, <1>4, <1>5, <1>6, <1>7

LEMMA LeftCounts ==
  ASSUME IInv, Wrapped, NEW cw \in 1 .. Count
  PROVE  \A k \in 1 .. Len(lines) : Left(cw)[k] = cw - lines[k].wn + 1
<1> DEFINE n == Len(lines)
           Eq(u) == u = [k \in 1 .. Len(lines) + 1 |->
                           IF k = 1 THEN cw ELSE u[k - 1] - Len(lines[k - 1].words)]
           h == [k \in 1 .. n + 1 |-> IF k <= n THEN cw - lines[k].wn + 1 ELSE cw - Count]
<1>1. /\ n \in Nat /\ n >= 1 /\ Count \in Nat /\ cw \in Nat
      /\ lines[1].wn = 1 /\ Behind(lines[n]) = Count + 1
      /\ \A k \in 1 .. n :
           /\ lines[k].wn \in Nat /\ Len(lines[k].words) \in Nat
           /\ Behind(lines[k]) = lines[k].wn + Len(lines[k].words)
           /\ k < n => lines[k + 1].wn = Behind(lines[k])
  BY WrappedBounds
<1> HIDE DEF n
<1>2. Eq(h)
  <2>1. ASSUME NEW k \in 1 .. n + 1
        PROVE  h[k] = IF k = 1 THEN cw ELSE h[k - 1] - Len(lines[k - 1].words)
    <3>1. CASE k = 1
      BY <1>1, <3>1
    <3>2. CASE k # 1
      <4>1. /\ k - 1 \in 1 .. n
            /\ lines[k - 1].wn \in Nat /\ Len(lines[k - 1].words) \in Nat
            /\ Behind(lines[k - 1]) = lines[k - 1].wn + Len(lines[k - 1].words)
            /\ k - 1 < n => lines[k].wn = Behind(lines[k - 1])
        BY <1>1, <3>2
      <4>2. h[k - 1] = cw - lines[k - 1].wn + 1
        <5>1. k - 1 \in 1 .. n + 1 /\ k - 1 <= n
          BY <1>1, <4>1
        <5> QED
          BY <5>1
      <4>5. lines[k - 1].wn \in Nat /\ Len(lines[k - 1].words) \in Nat /\ cw \in Nat /\ Count \in Nat
        BY <1>1, <4>1
      <4>3. CASE k = n + 1
        <5>1. h[k] = cw - Count
          BY <1>1, <4>3
        <5> HIDE DEF h
        <5>2. lines[k - 1].wn + Len(lines[k - 1].words) = Count + 1
          <6>1. k - 1 = n
            BY <1>1, <4>3
          <6> QED
            BY <1>1, <4>1, <6>1
        <5>3. cw - Count = (cw - lines[k - 1].wn + 1) - Len(lines[k - 1].words)
          <6> DEFINE a == lines[k - 1].wn
                     b == Len(lines[k - 1].words)
                     m == Count
          <6>1. a \in Nat /\ b \in Nat /\ cw \in Nat /\ m \in Nat
            BY <4>5
          <6>2. a + b = m + 1
            BY <5>2
          <6> HIDE DEF a, b, m
          <6>3. cw - m = (cw - a + 1) - b
            BY <6>1, <6>2
          <6> QED
            BY <6>3 DEF a, b, m
        <5> QED
          BY <3>2, <4>2, <5>1, <5>3
      <4>4. CASE k # n + 1
        <5>4. k \in 1 .. n /\ k - 1 < n
          BY <1>1, <4>1, <4>4
        <5>1. h[k] = cw - lines[k].wn + 1
          BY <5>4
        <5> HIDE DEF h
        <5>2. lines[k].wn = lines[k - 1].wn + Len(lines[k - 1].words)
          BY <4>1, <5>4
        <5>3. cw - lines[k].wn + 1 = (cw - lines[k - 1].wn + 1) - Len(lines[k - 1].words)
          <6> DEFINE a == lines[k - 1].wn
                     b == Len(lines[k - 1].words)
                     m == lines[k].wn
          <6>1. a \in Nat /\ b \in Nat /\ cw \in Nat /\ m = a + b
            BY <4>5, <5>2
          <6> HIDE DEF a, b, m
          <6>2. cw - m + 1 = (cw - a + 1) - b
            BY <6>1
          <6> QED
            BY <6>2 DEF a, b, m
        <5> QED
          BY <3>2, <4>2, <5>1, <5>3
      <4> QED
        BY <4>3, <4>4
    <3> QED
      BY <3>1, <3>2
  <2>2. h = [k \in 1 .. n + 1 |-> h[k]]
    OBVIOUS
  <2> HIDE DEF h
  <2> QED
    BY <2>1, <2>2 DEF n
<1> DEFINE u == Left(cw)
<1>3. Eq(u)
  <2> HIDE DEF Eq, h
  <2>1. u = CHOOSE v : Eq(v)
    BY Zenon DEF Left, Eq
  <2> QED
    BY <1>2, <2>1
<1> HIDE DEF u, h
<1> DEFINE T == {i \in 0 .. n - 1 : u[i + 1] = cw - lines[i + 1].wn + 1}
<1>4. 0 \in T
  <2>1. u[1] = cw
    BY <1>1, <1>3 DEF n
  <2> QED
    BY <1>1, <2>1
<1>5. ASSUME NEW i \in 0 .. (n - 1) - 1, i \in T PROVE i + 1 \in T
  <2>1. i + 2 \in 1 .. n + 1 /\ i + 1 \in 1 .. n /\ i + 1 < n
    BY <1>1
  <2>2. u[i + 2] = u[i + 1] - Len(lines[i + 1].words)
    <3>1. ASSUME NEW k \in 1 .. n + 1, k # 1 PROVE u[k] = u[k - 1] - Len(lines[k - 1].words)
      BY <1>3, <3>1 DEF n
    <3>2. i + 2 # 1 /\ (i + 2) - 1 = i + 1
      OBVIOUS
    <3> QED
      BY <2>1, <3>1, <3>2
  <2>3. /\ lines[i + 1].wn \in Nat /\ Len(lines[i + 1].words) \in Nat
        /\ lines[i + 2].wn = lines[i + 1].wn + Len(lines[i + 1].words)
    BY <1>1, <2>1
  <2>4. u[(i + 1) + 1] = cw - lines[(i + 1) + 1].wn + 1
    <3>1. u[i + 1] = cw - lines[i + 1].wn + 1
      BY <1>5
    <3>2. cw \in Nat
      BY <1>1
    <3>5. u[i + 2] = (cw - lines[i + 1].wn + 1) - Len(lines[i + 1].words)
      BY <2>2, <3>1
    <3>3. u[i + 2] = cw - lines[i + 2].wn + 1
      BY <2>3, <3>2, <3>5
    <3>4. (i + 1) + 1 = i + 2
      OBVIOUS
    <3> QED
      BY <3>3, <3>4
  <2>5. i + 1 \in 0 .. n - 1
    BY <1>1
  <2> QED
    BY <2>4, <2>5
<1>6. \A i \in 0 .. n - 1 : i \in T
  <2>1. n - 1 \in Nat
    BY <1>1
  <2> HIDE DEF T
  <2> QED
    BY <1>4, <1>5, <2>1, Induction
<1>7. ASSUME NEW k \in 1 .. n PROVE u[k] = cw - lines[k].wn + 1
  <2>1. k - 1 \in 0 .. n - 1 /\ (k - 1) + 1 = k
    BY <1>1
  <2> QED
    BY <1>6, <2>1
<1> QED
  BY <1>7 DEF u, n

(* It finds the line that the word is in, and there is one.                 *)
LEMMA LineOfFinds ==
  ASSUME IInv, Wrapped, NEW cw \in 1 .. Count
  PROVE  /\ LineOf(cw) \in 1 .. Len(lines)
         /\ lines[LineOf(cw)].wn <= cw /\ cw < Behind(lines[LineOf(cw)])
<1> DEFINE n == Len(lines)
           Is(k) == /\ Left(cw)[k] <= Len(lines[k].words)
                    /\ \A j \in 1 .. k - 1 : Left(cw)[j] > Len(lines[j].words)
           Has == {k \in 1 .. n : cw < Behind(lines[k])}
<1>1. /\ n \in Nat /\ n >= 1 /\ Count \in Nat /\ cw \in Nat /\ cw >= 1 /\ cw <= Count
      /\ DOMAIN lines = 1 .. n
      /\ lines[1].wn = 1 /\ Behind(lines[n]) = Count + 1
      /\ \A k \in 1 .. n :
           /\ lines[k].wn \in Nat /\ Len(lines[k].words) \in Nat
           /\ Behind(lines[k]) = lines[k].wn + Len(lines[k].words)
           /\ k < n => lines[k + 1].wn = Behind(lines[k])
           /\ Left(cw)[k] = cw - lines[k].wn + 1
  BY WrappedBounds, LeftCounts
<1> HIDE DEF n
<1>2. ASSUME NEW k \in 1 .. n
      PROVE  (Left(cw)[k] <= Len(lines[k].words)) <=> cw < Behind(lines[k])
  <2>1. /\ lines[k].wn \in Nat /\ Len(lines[k].words) \in Nat /\ cw \in Nat
        /\ Behind(lines[k]) = lines[k].wn + Len(lines[k].words)
        /\ Left(cw)[k] = cw - lines[k].wn + 1
    BY <1>1
  <2> QED
    BY <2>1
<1>3. PICK k \in Has : \A j \in Has : k <= j
  <2>1. n \in Has
    BY <1>1
  <2>2. Has \subseteq Nat
    BY <1>1
  <2> HIDE DEF Has
  <2> QED
    BY <2>1, <2>2, NatMin
<1>4. Is(k)
  <2>1. ASSUME NEW j \in 1 .. k - 1 PROVE Left(cw)[j] > Len(lines[j].words)
    <3>1. j \in 1 .. n /\ ~(cw < Behind(lines[j]))
      BY <1>1, <1>3
    <3>2. ~(Left(cw)[j] <= Len(lines[j].words))
      BY <1>2, <3>1
    <3>3. /\ Left(cw)[j] = cw - lines[j].wn + 1 /\ Len(lines[j].words) \in Nat
          /\ lines[j].wn \in Nat /\ cw \in Nat
      BY <1>1, <3>1
    <3> QED
      BY <3>2, <3>3
  <2> QED
    BY <1>2, <1>3, <2>1
<1>5. LineOf(cw) \in 1 .. n /\ Is(LineOf(cw))
  <2> HIDE DEF Is
  <2>1. LineOf(cw) = CHOOSE j \in 1 .. n : Is(j)
    BY <1>1, LineOfIs, Zenon DEF Is
  <2> QED
    BY <1>3, <1>4, <2>1
<1> DEFINE l == LineOf(cw)
<1> HIDE DEF l
<1>6. cw < Behind(lines[l])
  BY <1>2, <1>5 DEF l
<1>7. lines[l].wn <= cw
  <2>1. CASE l = 1
    BY <1>1, <2>1
  <2>2. CASE l # 1
    <3>5. l \in 1 .. n
      BY <1>5 DEF l
    <3>6. n \in Nat
      BY <1>1
    <3>1. l - 1 \in 1 .. n /\ l - 1 \in 1 .. l - 1 /\ l - 1 < n
      BY <2>2, <3>5, <3>6
    <3>2. Left(cw)[l - 1] > Len(lines[l - 1].words)
      BY <1>5, <3>1 DEF l
    <3>3. /\ lines[l].wn = Behind(lines[l - 1])
          /\ lines[l - 1].wn \in Nat /\ Len(lines[l - 1].words) \in Nat
          /\ Behind(lines[l - 1]) = lines[l - 1].wn + Len(lines[l - 1].words)
          /\ Left(cw)[l - 1] = cw - lines[l - 1].wn + 1
      <4> DEFINE j == l - 1
      <4>1. j \in 1 .. n /\ j < n /\ j + 1 = l
        BY <1>1, <1>5, <3>1 DEF l
      <4> HIDE DEF j
      <4>2. /\ lines[j].wn \in Nat /\ Len(lines[j].words) \in Nat
            /\ Behind(lines[j]) = lines[j].wn + Len(lines[j].words)
            /\ lines[j + 1].wn = Behind(lines[j])
            /\ Left(cw)[j] = cw - lines[j].wn + 1
        BY <1>1, <4>1
      <4> QED
        BY <4>1, <4>2 DEF j
    <3>4. cw \in Nat
      BY <1>1
    <3> QED
      BY <3>2, <3>3, <3>4
  <2> QED
    BY <2>1, <2>2
<1> QED
  BY <1>5, <1>6, <1>7 DEF l, n

(* A word is in one line only. *)
LEMMA LineOfOnly ==
  ASSUME IInv, Wrapped, NEW k \in 1 .. Len(lines), NEW cw,
         cw \in lines[k].wn .. LastOf(lines[k])
  PROVE  cw \in 1 .. Count /\ LineOf(cw) = k
<1> DEFINE l == LineOf(cw)
<1>1. /\ lines[k].wn \in Nat /\ lines[k].wn >= 1 /\ Count \in Nat
      /\ Behind(lines[k]) \in Nat /\ Behind(lines[k]) <= Count + 1
      /\ LastOf(lines[k]) = Behind(lines[k]) - 1 /\ Len(lines) \in Nat
      /\ \A j \in 1 .. k - 1 : Behind(lines[j]) <= lines[k].wn
  BY WrappedBounds
<1>2. cw \in 1 .. Count
  BY <1>1
<1>3. l \in 1 .. Len(lines) /\ lines[l].wn <= cw /\ cw < Behind(lines[l])
  BY <1>2, LineOfFinds
<1>4. /\ \A j \in 1 .. l - 1 : Behind(lines[j]) <= lines[l].wn
      /\ lines[l].wn \in Nat /\ Behind(lines[l]) \in Nat
  BY <1>3, WrappedBounds
<1> HIDE DEF l
<1>5. ~(l < k)
  <2> SUFFICES ASSUME l < k PROVE FALSE
    OBVIOUS
  <2>1. Behind(lines[l]) <= lines[k].wn
    BY <1>1, <1>3
  <2> QED
    BY <1>1, <1>2, <1>3, <1>4, <2>1
<1>6. ~(k < l)
  <2> SUFFICES ASSUME k < l PROVE FALSE
    OBVIOUS
  <2>1. Behind(lines[k]) <= lines[l].wn
    BY <1>1, <1>3, <1>4
  <2> QED
    BY <1>1, <1>2, <1>3, <1>4, <2>1
<1> QED
  BY <1>1, <1>2, <1>3, <1>5, <1>6 DEF l

LEMMA LineOfIsSpot ==
  ASSUME IInv, FInv, Wrapped, NEW cw \in 1 .. Count
  PROVE  LineOf(cw) = Spots[cw].ln
<1>1. /\ LineOf(cw) \in 1 .. Len(lines) /\ lines[LineOf(cw)].wn <= cw
      /\ cw < Behind(lines[LineOf(cw)])
  BY LineOfFinds
<1> DEFINE l == LineOf(cw)
<1> HIDE DEF l
<1>2. /\ All = lines /\ DOMAIN lines = 1 .. Len(lines) /\ Count \in Nat
      /\ lines[l].wn \in Nat /\ Behind(lines[l]) \in Nat
      /\ LastOf(lines[l]) = Behind(lines[l]) - 1
  BY <1>1, WrappedBounds DEF l
<1>3. cw \in lines[l].wn .. LastOf(lines[l])
  BY <1>1, <1>2 DEF l
<1> QED
  BY <1>1, <1>2, <1>3 DEF FInv, Filled, l

(* The first word is in the first line unless that is empty, and the last   *)
(* word in the last.                                                        *)
LEMMA EndLines ==
  ASSUME IInv, Wrapped
  PROVE  /\ lines[1].words # <<>> => LineOf(1) = 1
         /\ lines[1].words = <<>> =>
              LineOf(1) = 2 /\ \A cw \in 1 .. Count : LineOf(cw) >= 2
         /\ LineOf(Count) = Len(lines)
<1>1. /\ Len(lines) \in Nat /\ Len(lines) >= 1 /\ Count \in Nat /\ Count >= 1
      /\ lines[1].wn = 1 /\ Behind(lines[Len(lines)]) = Count + 1
      /\ \A k \in 1 .. Len(lines) :
              /\ lines[k].wn \in Nat /\ lines[k].wn >= 1 /\ Len(lines[k].words) \in Nat
              /\ (lines[k].words = <<>>) = (Len(lines[k].words) = 0)
              /\ Behind(lines[k]) = lines[k].wn + Len(lines[k].words)
              /\ LastOf(lines[k]) = Behind(lines[k]) - 1
              /\ k < Len(lines) => lines[k + 1].wn = Behind(lines[k])
              /\ k > 1 => lines[k].words # <<>>
  BY WrappedBounds
<1>2. lines[1].words # <<>> => LineOf(1) = 1
  <2> SUFFICES ASSUME lines[1].words # <<>> PROVE LineOf(1) = 1
    OBVIOUS
  <2>1. 1 \in lines[1].wn .. LastOf(lines[1]) /\ 1 \in 1 .. Len(lines)
    BY <1>1
  <2> QED
    BY <2>1, LineOfOnly
<1>3. ASSUME lines[1].words = <<>> PROVE LineOf(1) = 2 /\ \A cw \in 1 .. Count : LineOf(cw) >= 2
  <2>1. Behind(lines[1]) = 1
    BY <1>1, <1>3
  <2>2. ASSUME NEW cw \in 1 .. Count PROVE LineOf(cw) >= 2
    <3>1. LineOf(cw) \in 1 .. Len(lines) /\ cw < Behind(lines[LineOf(cw)])
      BY LineOfFinds
    <3> QED
      BY <1>1, <2>1, <3>1
  <2>3. 2 \in 1 .. Len(lines) /\ lines[2].wn = 1
    BY <1>1, <2>1
  <2>4. 1 \in lines[2].wn .. LastOf(lines[2])
    <3>1. /\ Len(lines[2].words) \in Nat /\ Len(lines[2].words) # 0
          /\ LastOf(lines[2]) = Behind(lines[2]) - 1
          /\ Behind(lines[2]) = lines[2].wn + Len(lines[2].words)
      BY <1>1, <2>3
    <3> QED
      BY <2>3, <3>1
  <2> QED
    BY <2>2, <2>3, <2>4, LineOfOnly
<1>4. LineOf(Count) = Len(lines)
  <2> DEFINE n == Len(lines)
  <2>1. n \in 1 .. Len(lines) /\ lines[n].words # <<>>
    <3>1. CASE n = 1
      <4>1. Behind(lines[1]) >= 2
        BY <1>1, <3>1
      <4> QED
        BY <1>1, <3>1, <4>1
    <3>2. CASE n # 1
      BY <1>1, <3>2
    <3> QED
      BY <3>1, <3>2
  <2> HIDE DEF n
  <2>2. Count \in lines[n].wn .. LastOf(lines[n])
    BY <1>1, <2>1 DEF n
  <2> QED
    BY <2>1, <2>2, LineOfOnly DEF n
<1> QED
  BY <1>2, <1>3, <1>4

-----------------------------------------------------------------------------
(* The keys: what is so between the steps of one.                           *)

Moving ==
  /\ doc \in Seq(Paragraphs)
  /\ cursor \in [cp : Pos, cw : Pos, co : Pos]
  /\ cursor.cp \in 1 .. Len(doc)
  /\ cursor.cw \in 1 .. Len(doc[cursor.cp].words)
  /\ stage # "GotoXPosition" => cursor.co <= doc[cursor.cp].words[cursor.cw].len + 1
  /\ para = doc[cursor.cp]
  /\ stage \in {"key", "getpos", "GotoXPosition"}
  /\ key \in {"none", "up", "down"}
  /\ goal \in Nat
  /\ home \in [cp : Pos, ln : Pos, last : Pos]
  /\ home.ln <= home.last
  /\ stage = "key" => pc = "idle"
  /\ stage # "key" => All # <<>> /\ key # "none"

(* The word gone to is in the line below or above, or at the end of the     *)
(* other paragraph where the lines meet.                                    *)
Below ==
  \/ home.ln < home.last /\ cursor.cp = home.cp /\ Spots[cursor.cw].ln = home.ln + 1
  \/ /\ home.ln = home.last /\ home.cp < Len(doc)
     /\ cursor.cp = home.cp + 1 /\ cursor.cw = 1
Above ==
  \/ /\ home.ln > 1 /\ cursor.cp = home.cp
     /\ Spots[cursor.cw].ln = home.ln - 1 \/ (home.ln = 2 /\ cursor.cw = 1)
  \/ home.ln = 1 /\ home.cp > 1 /\ cursor.cp = home.cp - 1 /\ cursor.cw = Count
Sent ==
  stage = "GotoXPosition" => (key = "down" /\ Below) \/ (key = "up" /\ Above)

Landing == KeyMovesOneLine /\ LandsAtColumn
MInv == IInv /\ FInv /\ Moving /\ Sent /\ Landing

LEMMA WordsType ==
  ASSUME NEW p \in Paragraphs
  PROVE  /\ Len(p.words) \in Nat /\ Len(p.words) >= 1 /\ DOMAIN p.words = 1 .. Len(p.words)
         /\ \A i \in 1 .. Len(p.words) : p.words[i].len \in Nat
<1>1. p.words \in Seq(Word) /\ p.words # <<>>
  BY WrapAssumption
<1>2. Len(p.words) \in Nat /\ Len(p.words) >= 1 /\ DOMAIN p.words = 1 .. Len(p.words)
  BY <1>1, EmptySeq, LenProperties
<1>3. \A i \in 1 .. Len(p.words) : p.words[i] \in Word
  BY <1>1, <1>2, ElementOfSeq
<1> QED
  BY <1>2, <1>3 DEF Word

LEMMA DocType ==
  ASSUME Moving
  PROVE  /\ Len(doc) \in Nat /\ Len(doc) >= 1 /\ DOMAIN doc = 1 .. Len(doc)
         /\ \A p \in 1 .. Len(doc) : doc[p] \in Paragraphs
         /\ cursor.cp \in Nat /\ cursor.cp >= 1 /\ cursor.cw \in Nat /\ cursor.cw >= 1
         /\ cursor.co \in Nat /\ cursor.co >= 1
         /\ cursor = Place(cursor.cp, cursor.cw, cursor.co)
         /\ home.cp \in Nat /\ home.cp >= 1 /\ home.ln \in Nat /\ home.ln >= 1 /\ home.last \in Nat
         /\ para \in Paragraphs /\ Count = Len(para.words)
<1>1. /\ Len(doc) \in Nat /\ DOMAIN doc = 1 .. Len(doc)
      /\ \A p \in 1 .. Len(doc) : doc[p] \in Paragraphs
  BY LenProperties, ElementOfSeq DEF Moving
<1> QED
  BY <1>1 DEF Moving, Pos, Place, Count

LEMMA HereWrapped ==
  ASSUME IInv, Moving, stage # "key", pc = "idle"
  PROVE  Wrapped /\ cursor.cw \in 1 .. Count
BY DEF Moving, Wrapped, All, Count

(* What a key notes before it goes anywhere.                                *)
LEMMA HereIs ==
  ASSUME IInv, Moving, Here
  PROVE  /\ Wrapped /\ cursor.cw \in 1 .. Count
         /\ LineOf(cursor.cw) \in 1 .. Len(lines) /\ Len(lines) \in Nat
         /\ home' = [cp |-> cursor.cp, ln |-> LineOf(cursor.cw), last |-> Len(lines)]
         /\ home' \in [cp : Pos, ln : Pos, last : Pos]
         /\ goal' \in Nat
<1>1. Wrapped /\ cursor.cw \in 1 .. Count
  BY HereWrapped DEF Here
<1>2. LineOf(cursor.cw) \in 1 .. Len(lines) /\ Len(lines) \in Nat
  BY <1>1, LineOfFinds, WrappedBounds
<1>3. home' = [cp |-> cursor.cp, ln |-> LineOf(cursor.cw), last |-> Len(lines)]
  BY DEF Here
<1>4. home' \in [cp : Pos, ln : Pos, last : Pos]
  BY <1>2, <1>3 DEF Moving, Pos
<1>5. xs[cursor.cw] \in Nat
  <2>1. Counted /\ xs \in Seq(Nat)
    <3>1. All # <<>>
      BY <1>1 DEF Wrapped, All
    <3> QED
      BY <3>1 DEF IInv, Begun, TypeInv
  <2>2. Len(xs) = Count
    <3>1. Count \in Nat
      BY <1>1, WrappedBounds
    <3> QED
      BY <1>1, <2>1, <3>1, WrappedLines DEF Counted
  <2> QED
    BY <1>1, <2>1, <2>2, ElementOfSeq
<1>6. Indent(LineOf(cursor.cw)) \in Nat
  BY ParagraphType DEF IInv
<1>7. goal' = xs[cursor.cw] + (cursor.co - 1) + Indent(LineOf(cursor.cw))
  BY DEF Here, Column
<1>8. goal' \in Nat
  <2>1. cursor.co \in Nat /\ cursor.co >= 1
    BY DocType
  <2>2. cursor.co - 1 \in Nat
    BY <2>1
  <2> QED
    BY <1>5, <1>6, <1>7, <2>2
<1> QED
  BY <1>1, <1>2, <1>3, <1>4, <1>8

(* The keys do not change the lines: they are where they were.              *)
LEMMA SameLines ==
  ASSUME UNCHANGED <<width, para, lines, xs>>
  PROVE  /\ Line' = <<cursor'.cp, LineOf(cursor'.cw)>>
         /\ \A m : Column(m)' = Column(m)
BY DEF Line, LineOf, Column, Indent

LEMMA PressKeeps ==
  ASSUME MInv, NEW k \in {"up", "down"}, Press(k) PROVE MInv'
<1>1. /\ IInv /\ Moving /\ Call(doc[cursor.cp]) /\ stage' = "getpos" /\ key' = k
      /\ UNCHANGED <<width, doc, cursor, goal, home>> /\ stage = "key"
  BY DEF MInv, Press
<1>2. doc[cursor.cp] \in Paragraphs
  BY <1>1, DocType DEF Moving
<1>3. IInv' /\ FInv'
  BY <1>1, <1>2, CallKeepsAll
<1>4. All' # <<>> /\ para' = para
  BY <1>1 DEF Call, All, Moving
<1>5. Moving'
  BY <1>1, <1>4 DEF Moving
<1> QED
  BY <1>1, <1>3, <1>5 DEF MInv, Sent, Landing, KeyMovesOneLine, LandsAtColumn, Landed

LEMMA WorkKeeps ==
  ASSUME MInv, Work PROVE MInv'
<1>1. IInv /\ FInv /\ Moving /\ Sent /\ Step /\ UNCHANGED moves
  BY DEF MInv, Work
<1>2. IInv' /\ FInv'
  BY <1>1, StepKeeps
<1>3. /\ pc # "idle" /\ UNCHANGED <<width, para>>
      /\ UNCHANGED <<doc, cursor, stage, key, goal, home>>
  BY <1>1 DEF Step, PutWord, EndWrap, AddSpace, NextLine, EndJustify, moves
<1>4. stage # "key" /\ All # <<>>
  BY <1>1, <1>3 DEF Moving
<1>5. All' # <<>>
  <2>1. CASE pc' # "idle"
    BY <1>2, <2>1 DEF IInv, Idle
  <2>2. CASE pc' = "idle"
    <3>1. All' = All
      BY <1>1, <1>3, <2>2 DEF Step, PutWord, EndWrap, AddSpace, NextLine, EndJustify, All
    <3> QED
      BY <1>4, <3>1
  <2> QED
    BY <2>1, <2>2
<1>6. Spots' = Spots /\ Count' = Count
  BY <1>3 DEF Spots, Filling, FirstSpot, Following, Count, WordWidth, Indent
<1>7. Moving'
  BY <1>1, <1>3, <1>4, <1>5 DEF Moving
<1>8. Sent'
  BY <1>1, <1>3, <1>6 DEF Sent, Below, Above
<1>9. Landing'
  BY <1>3, <1>4 DEF Landing, KeyMovesOneLine, LandsAtColumn, Landed
<1> QED
  BY <1>2, <1>7, <1>8, <1>9 DEF MInv

LEMMA GoToEndKeeps ==
  ASSUME MInv, GoToEnd PROVE MInv'
<1>1. /\ IInv /\ FInv /\ Moving /\ Here /\ (AtEnd \/ AtBeginning)
      /\ cursor' = IF AtEnd THEN EndOf(cursor.cp) ELSE BeginningOf(cursor.cp)
      /\ stage' = "key" /\ stage = "getpos" /\ pc = "idle"
      /\ UNCHANGED <<width, loop, doc, key>>
  BY DEF MInv, GoToEnd, Here
<1>2. /\ Wrapped /\ cursor.cw \in 1 .. Count
      /\ LineOf(cursor.cw) \in 1 .. Len(lines) /\ Len(lines) \in Nat
      /\ home' = [cp |-> cursor.cp, ln |-> LineOf(cursor.cw), last |-> Len(lines)]
      /\ home' \in [cp : Pos, ln : Pos, last : Pos]
      /\ goal' \in Nat
  BY <1>1, HereIs
<1>3. IInv' /\ FInv' /\ UNCHANGED <<para, pc, lines, xs>>
  BY <1>1, LinesUnchanged DEF loop
<1>4. /\ cursor.cp \in 1 .. Len(doc) /\ Len(doc) \in Nat /\ doc[cursor.cp] = para
      /\ Count = Len(para.words) /\ Count \in Nat /\ Count >= 1
      /\ \A i \in 1 .. Count : para.words[i].len \in Nat
  BY <1>1, DocType, WordsType DEF Moving
<1>5. /\ cursor'.cp = cursor.cp /\ cursor'.cw = IF AtEnd THEN Count ELSE 1
      /\ cursor'.co = IF AtEnd THEN para.words[Count].len + 1 ELSE 1
      /\ cursor' = Place(cursor'.cp, cursor'.cw, cursor'.co)
  BY <1>1, <1>4 DEF EndOf, BeginningOf, Place
<1>6. cursor'.cw \in 1 .. Count /\ cursor'.co \in Pos
      /\ cursor'.co <= para.words[cursor'.cw].len + 1
  BY <1>4, <1>5 DEF Pos
<1>7. Moving'
  <2>1. cursor' \in [cp : Pos, cw : Pos, co : Pos]
    BY <1>4, <1>5, <1>6 DEF Place, Pos
  <2>2. /\ doc' = doc /\ para' = para /\ key' = key /\ stage' = "key" /\ pc' = "idle"
        /\ goal' \in Nat /\ home' \in [cp : Pos, ln : Pos, last : Pos] /\ home'.ln <= home'.last
    BY <1>1, <1>2, <1>3
  <2>3. doc \in Seq(Paragraphs) /\ para = doc[cursor.cp] /\ key \in {"none", "up", "down"}
    BY <1>1 DEF Moving
  <2>4. /\ cursor'.cp \in 1 .. Len(doc) /\ doc[cursor'.cp] = para
        /\ cursor'.cw \in 1 .. Len(para.words) /\ cursor'.co <= para.words[cursor'.cw].len + 1
    BY <1>4, <1>5, <1>6
  <2> QED
    BY <2>1, <2>2, <2>3, <2>4 DEF Moving
<1>8. Line' = <<cursor.cp, LineOf(cursor'.cw)>>
  BY <1>1, <1>3, <1>5, SameLines
<1>9. /\ LineOf(Count) = Len(lines)
      /\ lines[1].words # <<>> => LineOf(1) = 1
      /\ lines[1].words = <<>> => \A cw \in 1 .. Count : LineOf(cw) >= 2
  BY <1>1, <1>2, EndLines
<1>10. Line' = <<home'.cp, home'.ln>>
  <2>1. CASE AtEnd
    BY <1>2, <1>5, <1>8, <1>9, <2>1 DEF AtEnd
  <2>2. CASE ~AtEnd
    <3>1. LineOf(cursor.cw) = 1
      BY <1>1, <2>2 DEF AtBeginning
    <3>2. LineOf(1) = 1
      BY <1>2, <1>9, <3>1
    <3> QED
      BY <1>2, <1>5, <1>8, <2>2, <3>1, <3>2
  <2> QED
    BY <2>1, <2>2
<1>11. KeyMovesOneLine'
  <2>1. CASE AtEnd
    BY <1>1, <1>2, <1>3, <1>10, <2>1 DEF AtEnd, KeyMovesOneLine
  <2>2. CASE ~AtEnd
    BY <1>1, <1>2, <1>3, <1>10, <2>2 DEF AtBeginning, KeyMovesOneLine
  <2> QED
    BY <2>1, <2>2
<1>12. LandsAtColumn'
  BY <1>10 DEF LandsAtColumn
<1> QED
  BY <1>1, <1>3, <1>7, <1>11, <1>12 DEF MInv, Sent, Landing

LEMMA GoToLineKeeps ==
  ASSUME MInv, GoToLine PROVE MInv'
<1> DEFINE ln == LineOf(cursor.cw)
           to == IF key = "down" THEN ln + 1 ELSE ln - 1
<1>1. /\ IInv /\ FInv /\ Moving /\ Here /\ ~AtEnd /\ ~AtBeginning
      /\ cursor' = Target /\ Call(doc[Target.cp])
      /\ stage' = "GotoXPosition" /\ stage = "getpos" /\ pc = "idle"
      /\ UNCHANGED <<width, doc, key>>
  BY DEF MInv, GoToLine, Here
<1>2. /\ Wrapped /\ cursor.cw \in 1 .. Count
      /\ ln \in 1 .. Len(lines) /\ Len(lines) \in Nat
      /\ home' = [cp |-> cursor.cp, ln |-> ln, last |-> Len(lines)]
      /\ home' \in [cp : Pos, ln : Pos, last : Pos]
      /\ goal' \in Nat
  BY <1>1, HereIs
<1>3. Target = IF to > Len(lines) THEN BeginningOf(cursor.cp + 1)
               ELSE IF to = 0 THEN EndOf(cursor.cp - 1)
               ELSE [cursor EXCEPT !.cw = lines[to].wn]
  BY DEF Target
<1>4. ln = Spots[cursor.cw].ln
  BY <1>1, <1>2, LineOfIsSpot
<1>5. /\ Len(doc) \in Nat /\ Len(doc) >= 1
      /\ \A p \in 1 .. Len(doc) : doc[p] \in Paragraphs
      /\ cursor.cp \in Nat /\ cursor.cp >= 1 /\ cursor.cp <= Len(doc)
      /\ cursor.co \in Pos /\ cursor = Place(cursor.cp, cursor.cw, cursor.co)
      /\ para = doc[cursor.cp] /\ Count = Len(para.words) /\ Count \in Nat /\ Count >= 1
      /\ key \in {"up", "down"}
  BY <1>1, DocType, WordsType DEF Moving
<1>6. /\ lines[1].wn = 1
      /\ \A k \in 1 .. Len(lines) :
           /\ lines[k].wn \in Nat /\ lines[k].wn >= 1 /\ Len(lines[k].words) \in Nat
           /\ (lines[k].words = <<>>) = (Len(lines[k].words) = 0)
           /\ Behind(lines[k]) = lines[k].wn + Len(lines[k].words)
           /\ LastOf(lines[k]) = Behind(lines[k]) - 1
           /\ Behind(lines[k]) <= Count + 1
           /\ k > 1 => lines[k].words # <<>>
  BY <1>1, <1>2, WrappedBounds
<1>7. \A k \in 1 .. Len(lines) : \A i \in lines[k].wn .. LastOf(lines[k]) : Spots[i].ln = k
  BY <1>1, <1>2, WrappedBounds DEF FInv, Filled
<1>8. /\ key = "down" /\ ln = Len(lines) => cursor.cp < Len(doc)
      /\ key = "up" /\ ln = 1 => cursor.cp > 1
  BY <1>1, <1>5 DEF AtEnd, AtBeginning
<1> HIDE DEF ln
(* In the same paragraph. *)
<1>9. ASSUME ~(to > Len(lines)), to # 0
      PROVE  /\ cursor' = Place(cursor.cp, lines[to].wn, cursor.co)
             /\ to \in 1 .. Len(lines) /\ lines[to].wn \in 1 .. Count
             /\ lines[to].words # <<>> => Spots[lines[to].wn].ln = to
             /\ lines[to].words = <<>> => to = 1 /\ lines[to].wn = 1
  <2>1. to \in 1 .. Len(lines)
    BY <1>2, <1>9
  <2>2. cursor' = Place(cursor.cp, lines[to].wn, cursor.co)
    BY <1>1, <1>3, <1>5, <1>9 DEF Place
  <2> HIDE DEF to
  <2>3. CASE lines[to].words = <<>>
    <3>1. to = 1
      BY <1>2, <1>6, <2>1, <2>3
    <3> QED
      BY <1>5, <1>6, <2>1, <2>2, <2>3, <3>1
  <2>4. CASE lines[to].words # <<>>
    <3>1. lines[to].wn \in lines[to].wn .. LastOf(lines[to]) /\ lines[to].wn \in 1 .. Count
      <4>1. /\ lines[to].wn \in Nat /\ lines[to].wn >= 1 /\ Len(lines[to].words) \in Nat
            /\ Len(lines[to].words) # 0
            /\ LastOf(lines[to]) = lines[to].wn + Len(lines[to].words) - 1
            /\ lines[to].wn + Len(lines[to].words) <= Count + 1
        BY <1>6, <2>1, <2>4
      <4>2. Count \in Nat
        BY <1>5
      <4> QED
        BY <4>1, <4>2
    <3> QED
      BY <1>7, <2>1, <2>2, <2>4, <3>1
  <2> QED
    BY <2>3, <2>4
<1>10. to > Len(lines) => key = "down" /\ ln = Len(lines)
  BY <1>2, <1>5
<1>11. to = 0 => key = "up" /\ ln = 1
  BY <1>2, <1>5
(* The place is in the document. *)
<1>12. /\ Target.cp \in 1 .. Len(doc)
       /\ Target.cw \in 1 .. Len(doc[Target.cp].words)
       /\ Target \in [cp : Pos, cw : Pos, co : Pos]
  <2>1. CASE to > Len(lines)
    <3>1. Target = Place(cursor.cp + 1, 1, 1) /\ cursor.cp + 1 \in 1 .. Len(doc)
      BY <1>3, <1>5, <1>8, <1>10, <2>1 DEF BeginningOf
    <3>2. Len(doc[cursor.cp + 1].words) \in Nat /\ Len(doc[cursor.cp + 1].words) >= 1
      BY <1>5, <3>1, WordsType
    <3> QED
      BY <1>5, <3>1, <3>2 DEF Place, Pos
  <2>2. CASE to = 0
    <3>1. /\ Target = Place(cursor.cp - 1, Len(doc[cursor.cp - 1].words),
                            doc[cursor.cp - 1].words[Len(doc[cursor.cp - 1].words)].len + 1)
          /\ cursor.cp - 1 \in 1 .. Len(doc)
      BY <1>2, <1>3, <1>5, <1>8, <1>11, <2>2 DEF EndOf
    <3> DEFINE q == doc[cursor.cp - 1]
    <3>2. /\ Len(q.words) \in Nat /\ Len(q.words) >= 1
          /\ \A i \in 1 .. Len(q.words) : q.words[i].len \in Nat
      BY <1>5, <3>1, WordsType
    <3>3. Target = Place(cursor.cp - 1, Len(q.words), q.words[Len(q.words)].len + 1)
      BY <3>1
    <3>4. q.words[Len(q.words)].len + 1 \in Pos
      <4> HIDE DEF q
      <4> QED
        BY <3>2 DEF Pos
    <3>5. Target.cp = cursor.cp - 1 /\ Target.cw = Len(q.words)
      BY <3>3 DEF Place
    <3>6. doc[Target.cp] = q
      BY <3>5
    <3> HIDE DEF q
    <3> QED
      BY <1>5, <3>1, <3>2, <3>3, <3>4, <3>5, <3>6 DEF Place, Pos
  <2>3. CASE ~(to > Len(lines)) /\ to # 0
    <3>1. cursor' = Place(cursor.cp, lines[to].wn, cursor.co) /\ lines[to].wn \in 1 .. Count
      BY <1>9, <2>3
    <3> HIDE DEF to
    <3> QED
      BY <1>1, <1>5, <3>1 DEF Place, Pos
  <2> QED
    BY <2>1, <2>2, <2>3
<1>13. doc[Target.cp] \in Paragraphs
  BY <1>5, <1>12
<1>14. IInv' /\ FInv'
  BY <1>1, <1>13, CallKeepsAll
<1>15. All' # <<>> /\ para' = doc[cursor'.cp]
  BY <1>1 DEF Call, All
<1>16. Moving'
  <2>1. home'.ln <= home'.last
    BY <1>2
  <2> QED
    BY <1>1, <1>2, <1>5, <1>12, <1>15, <2>1 DEF Moving
<1>17. Count' = Len(doc[cursor'.cp].words)
  BY <1>15 DEF Count
<1>18. CASE key = "down" /\ to > Len(lines)
  <2>1. cursor' = Place(cursor.cp + 1, 1, 1)
    BY <1>1, <1>3, <1>18 DEF BeginningOf
  <2>2. Below'
    BY <1>1, <1>2, <1>5, <1>8, <1>10, <1>18, <2>1 DEF Below, Place
  <2> QED
    BY <1>1, <1>14, <1>16, <1>18, <2>2 DEF MInv, Sent, Landing, KeyMovesOneLine, LandsAtColumn, Landed
<1>19. CASE key = "down" /\ ~(to > Len(lines))
  <2>1. to = ln + 1 /\ to # 0 /\ to > 1
    BY <1>2, <1>19
  <2>2. cursor' = Place(cursor.cp, lines[to].wn, cursor.co) /\ Spots[lines[to].wn].ln = to
    BY <1>2, <1>6, <1>9, <1>19, <2>1
  <2>3. Spots' = Spots
    <3>1. para' = para
      BY <1>5, <1>15, <2>2 DEF Place
    <3> QED
      BY <1>1, <3>1 DEF Spots, Filling, FirstSpot, Following, Count, WordWidth, Indent
  <2>4. cursor'.cp = cursor.cp /\ Spots'[cursor'.cw].ln = ln + 1
    BY <2>1, <2>2, <2>3 DEF Place
  <2>5. ln < Len(lines)
    BY <1>2, <1>19, <2>1
  <2>6. Below'
    BY <1>2, <2>4, <2>5 DEF Below
  <2> QED
    BY <1>1, <1>14, <1>16, <1>19, <2>6 DEF MInv, Sent, Landing, KeyMovesOneLine, LandsAtColumn, Landed
<1>20. CASE key = "up" /\ to = 0
  <2>1. cursor' = EndOf(cursor.cp - 1)
    BY <1>1, <1>2, <1>3, <1>20
  <2>2. cursor'.cp = cursor.cp - 1 /\ cursor'.cw = Len(doc[cursor.cp - 1].words)
    BY <2>1 DEF EndOf, Place
  <2>3. Above'
    BY <1>1, <1>2, <1>5, <1>8, <1>11, <1>17, <1>20, <2>2 DEF Above
  <2> QED
    BY <1>1, <1>14, <1>16, <1>20, <2>3 DEF MInv, Sent, Landing, KeyMovesOneLine, LandsAtColumn, Landed
<1>21. CASE key = "up" /\ to # 0
  <2>1. to = ln - 1 /\ ~(to > Len(lines)) /\ ln > 1
    BY <1>2, <1>21
  <2>2. /\ cursor' = Place(cursor.cp, lines[to].wn, cursor.co)
        /\ lines[to].words # <<>> => Spots[lines[to].wn].ln = to
        /\ lines[to].words = <<>> => to = 1 /\ lines[to].wn = 1
    BY <1>9, <1>21, <2>1
  <2>3. Spots' = Spots
    <3>1. para' = para
      BY <1>5, <1>15, <2>2 DEF Place
    <3> QED
      BY <1>1, <3>1 DEF Spots, Filling, FirstSpot, Following, Count, WordWidth, Indent
  <2>4. /\ cursor'.cp = cursor.cp /\ cursor'.cw = lines[to].wn
        /\ Spots'[cursor'.cw].ln = ln - 1 \/ (ln = 2 /\ cursor'.cw = 1)
    <3>1. cursor'.cp = cursor.cp /\ cursor'.cw = lines[to].wn
      BY <2>2 DEF Place
    <3>2. CASE lines[to].words # <<>>
      BY <2>1, <2>2, <2>3, <3>1, <3>2
    <3>3. CASE lines[to].words = <<>>
      <4>1. to = 1 /\ cursor'.cw = 1
        BY <2>2, <3>1, <3>3
      <4> QED
        BY <1>2, <2>1, <3>1, <4>1
    <3> QED
      BY <3>2, <3>3
  <2>5. Above'
    BY <1>2, <2>1, <2>4 DEF Above
  <2> QED
    BY <1>1, <1>14, <1>16, <1>21, <2>5 DEF MInv, Sent, Landing, KeyMovesOneLine, LandsAtColumn, Landed
<1> QED
  BY <1>5, <1>18, <1>19, <1>20, <1>21

(* Where the words of a line are.                                           *)
LEMMA WordsOfLine ==
  ASSUME IInv, FInv, Wrapped, NEW k \in 1 .. Len(lines), lines[k].words # <<>>
  PROVE  LET l == lines[k] IN
         /\ Len(l.words) \in Nat /\ Len(l.words) >= 1 /\ DOMAIN l.words = 1 .. Len(l.words)
         /\ \A j \in 1 .. Len(l.words) :
              /\ l.words[j] = l.wn + j - 1
              /\ l.words[j] \in 1 .. Count /\ l.words[j] \in Nat
              /\ LineOf(l.words[j]) = k
              /\ xs[l.words[j]] \in Nat
              /\ para.words[l.words[j]].len \in Nat
         /\ xs[l.words[1]] = 0
         /\ \A j \in 1 .. Len(l.words) - 1 :
              xs[l.words[j]] + para.words[l.words[j]].len < xs[l.words[j + 1]]
<1> DEFINE l == lines[k]
           n == Len(l.words)
<1>1. /\ l.wn \in Nat /\ l.wn >= 1 /\ n \in Nat /\ DOMAIN l.words = 1 .. n /\ n # 0
      /\ Behind(l) = l.wn + n /\ LastOf(l) = Behind(l) - 1
      /\ Behind(l) <= Count + 1 /\ Count \in Nat
      /\ \A j \in 1 .. n : l.words[j] = l.wn + j - 1
      /\ All = lines /\ DOMAIN lines = 1 .. Len(lines)
  BY WrappedBounds
<1>2. /\ xs \in Seq(Nat) /\ Len(xs) = Count
      /\ xs[l.wn] = 0 /\ Spaced
      /\ \A i \in 1 .. Count : para.words[i].len \in Nat
      /\ \A i \in 1 .. Count : WordWidth(i) >= para.words[i].len + 1 /\ WordWidth(i) \in Nat
  <2>1. TypeInv /\ Counted /\ Spaced /\ wn = Count + 1 /\ wn \in Nat
    <3>1. All # <<>>
      BY <1>1 DEF Wrapped
    <3> QED
      BY <1>1, <3>1, WrappedLines DEF IInv, Begun
  <2>2. xs[l.wn] = 0
    BY <1>1 DEF FInv, Flush
  <2>3. para \in Paragraphs /\ Count = Len(para.words)
    BY <2>1 DEF TypeInv, Count
  <2>4. \A i \in 1 .. Count : para.words[i].len \in Nat
    BY <2>3, WordsType
  <2>5. \A i \in 1 .. Count : WordWidth(i) >= para.words[i].len + 1 /\ WordWidth(i) \in Nat
    BY <2>4 DEF WordWidth
  <2>6. xs \in Seq(Nat) /\ Len(xs) = Count
    <3>1. xs \in Seq(Nat) /\ Len(xs) = wn - 1
      BY <2>1 DEF TypeInv, Counted
    <3>2. wn - 1 = Count
      BY <1>1, <2>1
    <3> QED
      BY <3>1, <3>2
  <2> QED
    BY <2>1, <2>2, <2>4, <2>5, <2>6
<1> HIDE DEF l, n
<1>3. ASSUME NEW j \in 1 .. n
      PROVE  /\ l.words[j] \in 1 .. Count /\ l.words[j] \in l.wn .. LastOf(l)
             /\ l.words[j] \in Nat
  <2>1. l.words[j] = l.wn + j - 1 /\ j \in Nat /\ j >= 1 /\ j <= n
    BY <1>1
  <2>2. LastOf(l) = l.wn + n - 1 /\ l.wn + n - 1 <= Count /\ l.wn \in Nat /\ l.wn >= 1
        /\ n \in Nat /\ Count \in Nat
    BY <1>1
  <2> QED
    BY <2>1, <2>2
<1>4. ASSUME NEW j \in 1 .. n
      PROVE  /\ LineOf(l.words[j]) = k
             /\ xs[l.words[j]] \in Nat
             /\ para.words[l.words[j]].len \in Nat
  <2>1. LineOf(l.words[j]) = k
    BY <1>3, LineOfOnly DEF l
  <2>2. xs[l.words[j]] \in Nat
    BY <1>2, <1>3, ElementOfSeq
  <2> QED
    BY <1>2, <1>3, <2>1, <2>2
<1>5. ASSUME NEW j \in 1 .. n - 1
      PROVE  xs[l.words[j]] + para.words[l.words[j]].len < xs[l.words[j + 1]]
  <2> DEFINE i == l.words[j]
  <2>1. j \in 1 .. n /\ j + 1 \in 1 .. n
    BY <1>1
  <2>2. l.words[j + 1] = i + 1 /\ i \in l.wn .. Behind(l) - 2 /\ i \in 1 .. Count
    <3>1. /\ i = l.wn + j - 1 /\ l.words[j + 1] = l.wn + (j + 1) - 1
          /\ l.wn \in Nat /\ n \in Nat /\ Behind(l) = l.wn + n
      BY <1>1, <2>1
    <3>2. i \in 1 .. Count
      BY <1>3, <2>1
    <3>3. j \in Nat /\ j >= 1 /\ j + 1 <= n
      BY <1>1
    <3> HIDE DEF i
    <3>4. l.words[j + 1] = i + 1
      BY <3>1, <3>3
    <3>5. i \in l.wn .. Behind(l) - 2
      BY <3>1, <3>3
    <3> QED
      BY <3>2, <3>4, <3>5
  <2> HIDE DEF i
  <2>3. xs[i] + WordWidth(i) <= xs[i + 1]
    <3>1. k \in DOMAIN All /\ All[k] = l
      BY <1>1 DEF l
    <3> QED
      BY <1>2, <2>2, <3>1 DEF Spaced
  <2>4. xs[i] \in Nat /\ xs[i + 1] \in Nat /\ para.words[i].len \in Nat
    BY <1>4, <2>1, <2>2 DEF i
  <2>5. WordWidth(i) >= para.words[i].len + 1 /\ WordWidth(i) \in Nat
    BY <1>2, <2>2
  <2>6. xs[i] + para.words[i].len < xs[i + 1]
    BY <2>3, <2>4, <2>5
  <2> QED
    BY <2>2, <2>6 DEF i
<1>6. xs[l.words[1]] = 0
  <2>1. l.words[1] = l.wn
    BY <1>1
  <2> QED
    BY <1>2, <2>1
<1>7. \A j \in 1 .. n : /\ l.words[j] = l.wn + j - 1
                       /\ l.words[j] \in 1 .. Count /\ l.words[j] \in Nat
                       /\ LineOf(l.words[j]) = k
                       /\ xs[l.words[j]] \in Nat
                       /\ para.words[l.words[j]].len \in Nat
  BY <1>1, <1>3, <1>4
<1>8. n \in Nat /\ n >= 1 /\ DOMAIN l.words = 1 .. n
  BY <1>1
<1> QED
  BY <1>5, <1>6, <1>7, <1>8 DEF l, n

(* A word ends before any later word of its line begins.                    *)
LEMMA LaterWords ==
  ASSUME IInv, FInv, Wrapped, NEW k \in 1 .. Len(lines), lines[k].words # <<>>,
         NEW i \in 1 .. Len(lines[k].words), NEW j \in 1 .. Len(lines[k].words), i < j
  PROVE  xs[lines[k].words[i]] + para.words[lines[k].words[i]].len < xs[lines[k].words[j]]
<1> DEFINE ws == lines[k].words
           n == Len(ws)
<1>1. /\ n \in Nat
      /\ \A a \in 1 .. n : xs[ws[a]] \in Nat /\ para.words[ws[a]].len \in Nat
      /\ \A a \in 1 .. n - 1 : xs[ws[a]] + para.words[ws[a]].len < xs[ws[a + 1]]
  BY WordsOfLine
<1> HIDE DEF ws, n
<1>2. i \in 1 .. n /\ j \in 1 .. n
  BY DEF n, ws
<1> DEFINE end == xs[ws[i]] + para.words[ws[i]].len
           T == {d \in 0 .. j - i - 1 : end < xs[ws[i + 1 + d]]}
<1>3. end \in Nat
  BY <1>1, <1>2
<1> HIDE DEF end
<1>4. 0 \in T
  <2>1. i \in 1 .. n - 1 /\ i + 1 + 0 = i + 1
    BY <1>1, <1>2
  <2>2. 0 \in 0 .. j - i - 1
    BY <1>2
  <2> QED
    BY <1>1, <2>1, <2>2 DEF end
<1>5. ASSUME NEW d \in 0 .. (j - i - 1) - 1, d \in T PROVE d + 1 \in T
  <2> DEFINE a == i + 1 + d
  <2>1. a \in 1 .. n - 1 /\ a \in 1 .. n /\ a + 1 \in 1 .. n /\ i + 1 + (d + 1) = a + 1
    BY <1>1, <1>2
  <2>2. end < xs[ws[a]]
    BY <1>5
  <2> HIDE DEF a
  <2>3. /\ xs[ws[a]] + para.words[ws[a]].len < xs[ws[a + 1]]
        /\ xs[ws[a]] \in Nat /\ para.words[ws[a]].len \in Nat /\ xs[ws[a + 1]] \in Nat
    BY <1>1, <2>1
  <2>4. end < xs[ws[a + 1]]
    BY <1>3, <2>2, <2>3
  <2>5. d + 1 \in 0 .. j - i - 1
    BY <1>2
  <2> QED
    BY <2>1, <2>4, <2>5
<1>6. j - i - 1 \in T
  <2>1. j - i - 1 \in Nat /\ j - i - 1 \in 0 .. j - i - 1
    BY <1>2
  <2> HIDE DEF T
  <2> QED
    BY <1>4, <1>5, <2>1, Induction
<1>7. i + 1 + (j - i - 1) = j
  BY <1>2
<1> QED
  BY <1>6, <1>7 DEF end, ws

(* The word of the line that GotoXPosition goes to, and the place in it.    *)
LEMMA WordAt ==
  ASSUME IInv, FInv, Wrapped, NEW k \in 1 .. Len(lines), lines[k].words # <<>>,
         NEW pos \in Nat
  PROVE  LET ws == lines[k].words
             before == {j \in DOMAIN ws : xs[ws[j]] <= pos}
             i == IF before = {} THEN 1 ELSE CHOOSE j \in before : \A m \in before : m <= j
         IN  i \in before /\ \A m \in before : m <= i
<1> DEFINE ws == lines[k].words
           n == Len(ws)
           before == {j \in DOMAIN ws : xs[ws[j]] <= pos}
<1>1. n \in Nat /\ n >= 1 /\ DOMAIN ws = 1 .. n /\ xs[ws[1]] = 0
  BY WordsOfLine
<1> HIDE DEF ws, n
<1>2. 1 \in before /\ before \subseteq 1 .. n
  BY <1>1
<1> HIDE DEF before
<1> DEFINE T == {d \in 0 .. n : n - d \in before}
<1>3. n - 1 \in T
  BY <1>1, <1>2
<1>4. PICK d \in T : \A e \in T : d <= e
  <2>1. T \subseteq Nat /\ T # {}
    BY <1>3
  <2> HIDE DEF T
  <2> QED
    BY <2>1, NatMin
<1>5. n - d \in before /\ \A m \in before : m <= n - d
  <2>1. ASSUME NEW m \in before PROVE m <= n - d
    <3>1. m \in 1 .. n /\ n - m \in 0 .. n /\ n - (n - m) = m
      BY <1>1, <1>2
    <3>2. d <= n - m
      BY <1>4, <3>1
    <3> QED
      BY <1>1, <1>4, <3>1, <3>2
  <2> QED
    BY <1>4, <2>1
<1> DEFINE i == IF before = {} THEN 1 ELSE CHOOSE j \in before : \A m \in before : m <= j
<1>6. i \in before /\ \A m \in before : m <= i
  BY <1>2, <1>5
<1> QED
  BY <1>6 DEF before, ws

LEMMA GotoXPositionKeeps ==
  ASSUME MInv, GotoXPosition PROVE MInv'
<1> DEFINE ln == LineOf(cursor.cw)
           ws == lines[ln].words
           pos == PosIn(ln)
           before == {j \in DOMAIN ws : xs[ws[j]] <= pos}
           i == IF before = {} THEN 1 ELSE CHOOSE j \in before : \A m \in before : m <= j
           len == para.words[ws[i]].len
           o == pos - xs[ws[i]]
           c == (IF o < len THEN o ELSE len) + 1
<1>1. /\ IInv /\ FInv /\ Moving /\ Sent /\ stage = "GotoXPosition" /\ pc = "idle" /\ stage' = "key"
      /\ UNCHANGED <<width, loop, doc, key, goal, home>>
      /\ cursor' = Place(cursor.cp, ws[i], c)
  BY DEF MInv, GotoXPosition
<1>2. /\ Wrapped /\ cursor.cw \in 1 .. Count
      /\ ln \in 1 .. Len(lines) /\ Len(lines) \in Nat
      /\ lines[ln].wn <= cursor.cw /\ cursor.cw < Behind(lines[ln])
  BY <1>1, HereWrapped, LineOfFinds, WrappedBounds
<1>3. ws # <<>>
  <2>1. (ws = <<>>) = (Len(ws) = 0) /\ Behind(lines[ln]) = lines[ln].wn + Len(ws)
        /\ lines[ln].wn \in Nat
    BY <1>1, <1>2, WrappedBounds
  <2>2. cursor.cw \in Nat
    BY <1>1, DocType
  <2> QED
    BY <1>2, <2>1, <2>2
<1>4. /\ Len(ws) \in Nat /\ Len(ws) >= 1 /\ DOMAIN ws = 1 .. Len(ws)
      /\ \A j \in 1 .. Len(ws) :
           /\ ws[j] \in 1 .. Count /\ ws[j] \in Nat /\ LineOf(ws[j]) = ln
           /\ xs[ws[j]] \in Nat /\ para.words[ws[j]].len \in Nat
      /\ xs[ws[1]] = 0
  BY <1>1, <1>2, <1>3, WordsOfLine
<1>5. \A a, b \in 1 .. Len(ws) : a < b => xs[ws[a]] + para.words[ws[a]].len < xs[ws[b]]
  BY <1>1, <1>2, <1>3, LaterWords
<1>6. goal \in Nat /\ Indent(ln) \in Nat
  <2>1. TypeInv
    BY <1>1 DEF IInv
  <2> QED
    BY <1>1, <2>1, ParagraphType DEF Moving
<1> HIDE DEF ln
<1>7. pos \in Nat /\ pos = IF goal < Indent(ln) THEN 0 ELSE goal - Indent(ln)
  BY <1>6 DEF PosIn
<1>8. i \in before /\ \A m \in before : m <= i
  <2> HIDE DEF pos
  <2> QED
    BY <1>1, <1>2, <1>3, <1>7, WordAt
<1> HIDE DEF i, pos
<1>9. i \in 1 .. Len(ws) /\ xs[ws[i]] <= pos
  BY <1>4, <1>8
<1>10. \A j \in 1 .. Len(ws) : i < j => xs[ws[j]] > pos
  <2> SUFFICES ASSUME NEW j \in 1 .. Len(ws), i < j, ~(xs[ws[j]] > pos) PROVE FALSE
    OBVIOUS
  <2>1. xs[ws[j]] \in Nat
    BY <1>4
  <2>2. j \in before
    BY <1>4, <1>7, <2>1
  <2>3. j <= i
    BY <1>8, <2>2
  <2> QED
    BY <1>9, <2>3
<1>11. /\ len \in Nat /\ xs[ws[i]] \in Nat /\ o \in Nat /\ c \in Nat /\ c >= 1 /\ c <= len + 1
       /\ xs[ws[i]] + (c - 1) <= pos
       /\ c - 1 <= o /\ (c - 1 = o \/ c - 1 = len)
       /\ ws[i] \in 1 .. Count /\ ws[i] \in Nat /\ LineOf(ws[i]) = ln
  <2>1. /\ len \in Nat /\ xs[ws[i]] \in Nat /\ ws[i] \in 1 .. Count /\ ws[i] \in Nat
        /\ LineOf(ws[i]) = ln
    BY <1>4, <1>9
  <2> HIDE DEF len
  <2>3. pos \in Nat /\ xs[ws[i]] <= pos
    BY <1>7, <1>9
  <2>2. o \in Nat
    BY <2>1, <2>3
  <2>4. /\ c \in Nat /\ c >= 1 /\ c <= len + 1 /\ xs[ws[i]] + (c - 1) <= pos
        /\ c - 1 <= o /\ (c - 1 = o \/ c - 1 = len)
    BY <2>1, <2>2, <2>3
  <2> QED
    BY <2>1, <2>2, <2>4
<1> HIDE DEF ws, before, len, c
<1>12. IInv' /\ FInv' /\ UNCHANGED <<para, pc, lines, xs>>
  BY <1>1, LinesUnchanged DEF loop
<1>13. /\ cursor.cp \in 1 .. Len(doc) /\ doc[cursor.cp] = para /\ Count = Len(para.words)
       /\ Len(doc) \in Nat /\ Count \in Nat /\ key \in {"up", "down"}
       /\ home.ln \in Nat /\ home.last \in Nat /\ home.cp \in Nat
  BY <1>1, DocType, WrappedBounds DEF Moving
<1>14. cursor'.cp = cursor.cp /\ cursor'.cw = ws[i] /\ cursor'.co = c
  BY <1>1 DEF Place
<1>15. Moving'
  <2>1. cursor' \in [cp : Pos, cw : Pos, co : Pos]
    <3>1. cursor.cp \in Pos
      BY <1>13 DEF Pos
    <3>2. ws[i] \in Pos /\ c \in Pos
      BY <1>11, <1>13 DEF Pos
    <3> QED
      BY <1>1, <3>1, <3>2 DEF Place
  <2>2. c <= doc[cursor'.cp].words[cursor'.cw].len + 1
    BY <1>11, <1>13, <1>14 DEF len
  <2> QED
    BY <1>1, <1>11, <1>12, <1>13, <1>14, <2>1, <2>2 DEF Moving
<1>16. Line' = <<cursor.cp, ln>> /\ \A m : Column(m)' = Column(m)
  BY <1>1, <1>11, <1>12, <1>14, SameLines
<1>17. KeyMovesOneLine'
  <2> SUFFICES ASSUME lines[1].words # <<>>
               PROVE  \/ /\ key = "down"
                         /\ Line' = IF home.ln < home.last THEN <<home.cp, home.ln + 1>>
                                    ELSE IF home.cp < Len(doc) THEN <<home.cp + 1, 1>>
                                    ELSE <<home.cp, home.last>>
                      \/ /\ key = "up"
                         /\ Line' = IF home.ln > 1 THEN <<home.cp, home.ln - 1>>
                                    ELSE IF home.cp > 1 THEN <<home.cp - 1, Len(lines)>>
                                    ELSE <<home.cp, 1>>
    BY <1>1, <1>12 DEF KeyMovesOneLine
  <2>1. Spots[cursor.cw].ln = ln
    BY <1>1, <1>2, LineOfIsSpot DEF ln
  <2>2. (cursor.cw = 1 => ln = 1) /\ (cursor.cw = Count => ln = Len(lines))
    BY <1>1, <1>2, EndLines DEF ln
  <2>3. CASE key = "down"
    <3>1. Below
      BY <1>1, <2>3 DEF Sent
    <3> QED
      BY <1>13, <1>16, <2>1, <2>2, <2>3, <3>1 DEF Below
  <2>4. CASE key = "up"
    <3>1. Above
      BY <1>1, <2>4 DEF Sent
    <3> QED
      BY <1>13, <1>16, <2>1, <2>2, <2>4, <3>1 DEF Above
  <2> QED
    BY <1>13, <2>3, <2>4
(* The columns of the places in the line.                                   *)
<1> DEFINE places == UNION {{Place(cursor'.cp, q, p) : p \in 1 .. para.words[q].len + 1} :
                              q \in Range(ws)}
<1>18. ASSUME NEW m \in places
       PROVE  \E j \in 1 .. Len(ws) :
                /\ m.cw = ws[j] /\ m.co \in 1 .. para.words[ws[j]].len + 1
                /\ Column(m) = xs[ws[j]] + (m.co - 1) + Indent(ln)
  <2>1. PICK q \in Range(ws) : \E p \in 1 .. para.words[q].len + 1 : m = Place(cursor'.cp, q, p)
    OBVIOUS
  <2>2. PICK p \in 1 .. para.words[q].len + 1 : m = Place(cursor'.cp, q, p)
    BY <2>1
  <2>3. PICK j \in 1 .. Len(ws) : ws[j] = q
    BY <1>4, <2>1 DEF Range, ws
  <2>4. m.cw = q /\ m.co = p
    BY <2>2 DEF Place
  <2>5. LineOf(q) = ln
    BY <1>4, <2>3 DEF ws
  <2> QED
    BY <2>2, <2>3, <2>4, <2>5 DEF Column
<1>19. Column(cursor') = xs[ws[i]] + (c - 1) + Indent(ln)
  BY <1>11, <1>14 DEF Column
<1> HIDE DEF places
<1>20. ASSUME goal < Indent(ln), NEW m \in places PROVE Column(cursor') <= Column(m)
  <2>1. xs[ws[i]] + (c - 1) = 0
    BY <1>7, <1>11, <1>20
  <2>2. PICK j \in 1 .. Len(ws) :
           /\ m.co \in 1 .. para.words[ws[j]].len + 1
           /\ Column(m) = xs[ws[j]] + (m.co - 1) + Indent(ln)
    BY <1>18
  <2>3. xs[ws[j]] \in Nat /\ para.words[ws[j]].len \in Nat
    BY <1>4 DEF ws
  <2>4. Column(cursor') = Indent(ln)
    BY <1>6, <1>11, <1>19, <2>1
  <2> QED
    BY <1>6, <2>2, <2>3, <2>4
<1>21. ASSUME ~(goal < Indent(ln))
       PROVE  /\ Column(cursor') <= goal
              /\ \A m \in places : Column(m) <= goal => Column(m) <= Column(cursor')
  <2>1. pos = goal - Indent(ln)
    BY <1>7, <1>21
  <2>2. Column(cursor') <= goal
    BY <1>6, <1>7, <1>11, <1>19, <2>1
  <2>3. ASSUME NEW m \in places, Column(m) <= goal PROVE Column(m) <= Column(cursor')
    <3>1. PICK j \in 1 .. Len(ws) :
             /\ m.co \in 1 .. para.words[ws[j]].len + 1
             /\ Column(m) = xs[ws[j]] + (m.co - 1) + Indent(ln)
      BY <1>18
    <3>2. xs[ws[j]] \in Nat /\ para.words[ws[j]].len \in Nat /\ m.co \in Nat /\ m.co >= 1
          /\ m.co - 1 <= para.words[ws[j]].len
      <4>1. xs[ws[j]] \in Nat /\ para.words[ws[j]].len \in Nat
        BY <1>4 DEF ws
      <4> QED
        BY <3>1, <4>1
    <3>3. xs[ws[j]] + (m.co - 1) <= pos
      BY <1>6, <2>1, <2>3, <3>1, <3>2
    <3>4. xs[ws[j]] + (m.co - 1) <= xs[ws[i]] + (c - 1)
      <4>4. xs[ws[i]] \in Nat /\ c \in Nat /\ c >= 1 /\ pos \in Nat
        BY <1>7, <1>11
      <4>1. CASE i < j
        <5>1. xs[ws[j]] > pos
          BY <1>10, <4>1 DEF ws
        <5> QED
          BY <3>2, <3>3, <4>4, <5>1
      <4>2. CASE j < i
        <5>1. xs[ws[j]] + para.words[ws[j]].len < xs[ws[i]]
          BY <1>5, <1>9, <4>2 DEF ws
        <5> DEFINE a == xs[ws[j]]
                   b == xs[ws[i]]
                   d == para.words[ws[j]].len
                   e == m.co
        <5>2. /\ a \in Nat /\ b \in Nat /\ d \in Nat /\ e \in Nat /\ c \in Nat /\ c >= 1
              /\ e - 1 <= d /\ a + d < b
          BY <3>2, <4>4, <5>1
        <5> HIDE DEF a, b, d, e
        <5>3. a + (e - 1) <= b + (c - 1)
          BY <5>2
        <5> QED
          BY <5>3 DEF a, b, e
      <4>3. CASE i = j
        <5>1. c - 1 = o \/ c - 1 = para.words[ws[j]].len
          BY <1>11, <4>3 DEF len
        <5>2. c - 1 = o => xs[ws[i]] + (c - 1) = pos
          BY <4>4
        <5>3. xs[ws[i]] = xs[ws[j]]
          BY <4>3
        <5> HIDE DEF o
        <5> QED
          BY <3>2, <3>3, <4>4, <5>1, <5>2, <5>3
      <4>5. i \in Nat /\ j \in Nat
        BY <1>9
      <4> QED
        BY <4>1, <4>2, <4>3, <4>5
    <3> DEFINE a == xs[ws[j]] + (m.co - 1)
               b == xs[ws[i]] + (c - 1)
               t == Indent(ln)
    <3>5. Column(m) = a + t /\ Column(cursor') = b + t
      BY <1>19, <3>1
    <3>6. a \in Int /\ b \in Int /\ t \in Int
      <4>1. a \in Int
        BY <3>2
      <4>2. xs[ws[i]] \in Int /\ c \in Int
        BY <1>11
      <4>3. b \in Int
        BY <4>2
      <4>4. t \in Int
        BY <1>6
      <4> QED
        BY <4>1, <4>3, <4>4
    <3>7. a <= b
      BY <3>4
    <3> HIDE DEF a, b, t
    <3>8. a + t <= b + t
      BY <3>6, <3>7
    <3> QED
      BY <3>5, <3>8
  <2> QED
    BY <2>2, <2>3
<1>22. LandsAtColumn'
  <2>1. /\ cursor' \in places
        /\ Line'[2] = ln
    <3>1. ws[i] \in Range(ws)
      BY <1>4, <1>9 DEF Range, ws
    <3>2. cursor' = Place(cursor'.cp, ws[i], c) /\ c \in 1 .. para.words[ws[i]].len + 1
      BY <1>1, <1>11, <1>14 DEF len
    <3> QED
      BY <1>16, <3>1, <3>2 DEF places
  <2> DEFINE left == {m \in places : Column(m) <= goal}
  <2>2. IF left = {} THEN \A m \in places : Column(cursor') <= Column(m)
        ELSE Column(cursor') <= goal /\ \A m \in left : Column(m) <= Column(cursor')
    <3>1. CASE goal < Indent(ln)
      <4>1. ASSUME NEW m \in places PROVE ~(Column(m) <= goal)
        <5>1. PICK j \in 1 .. Len(ws) :
                 /\ m.co \in 1 .. para.words[ws[j]].len + 1
                 /\ Column(m) = xs[ws[j]] + (m.co - 1) + Indent(ln)
          BY <1>18
        <5>2. xs[ws[j]] \in Nat /\ para.words[ws[j]].len \in Nat
          BY <1>4 DEF ws
        <5> QED
          BY <1>6, <3>1, <5>1, <5>2
      <4> QED
        BY <1>20, <3>1, <4>1
    <3>2. CASE ~(goal < Indent(ln))
      BY <1>21, <2>1, <3>2
    <3> QED
      BY <3>1, <3>2
  <2>3. Column(cursor)' = Column(cursor')
    BY <1>12 DEF Column, LineOf, Indent
  <2> HIDE DEF left
  <2> QED
    BY <1>1, <1>12, <1>16, <2>1, <2>2, <2>3 DEF LandsAtColumn, places, left, ws
<1> QED
  BY <1>1, <1>12, <1>15, <1>17, <1>22 DEF MInv, Sent, Landing

LEMMA MovesInit == Init => MInv
<1> SUFFICES ASSUME Init PROVE MInv
  OBVIOUS
<1>1. WrapInit /\ doc \in Documents
  BY DEF Init
<1>2. /\ pc = "idle" /\ All = <<>> /\ IInv /\ FInv
  BY <1>1, TypeInit DEF WrapInit, All, IInv, Begun, Idle, FInv, Filled, Flush
<1>3. doc \in Seq(Paragraphs) /\ Len(doc) \in Nat /\ DOMAIN doc = 1 .. Len(doc)
  BY <1>1, MovesAssumption, LenProperties
<1>4. PICK p \in DOMAIN doc : \E i \in DOMAIN doc[p].words :
        \E o \in 1 .. doc[p].words[i].len + 1 : cursor = Place(p, i, o)
  BY DEF Init
<1>5. PICK i \in DOMAIN doc[p].words : \E o \in 1 .. doc[p].words[i].len + 1 : cursor = Place(p, i, o)
  BY <1>4
<1>6. PICK o \in 1 .. doc[p].words[i].len + 1 : cursor = Place(p, i, o)
  BY <1>5
<1>7. /\ doc[p] \in Paragraphs /\ Len(doc[p].words) \in Nat
      /\ DOMAIN doc[p].words = 1 .. Len(doc[p].words)
      /\ doc[p].words[i].len \in Nat
  <2>1. doc[p] \in Paragraphs
    BY <1>3, ElementOfSeq
  <2> QED
    BY <1>5, <2>1, WordsType
<1>8. cursor.cp = p /\ cursor.cw = i /\ cursor.co = o
  BY <1>6 DEF Place
<1>9. cursor \in [cp : Pos, cw : Pos, co : Pos]
  BY <1>3, <1>6, <1>7 DEF Place, Pos
<1>10. home \in [cp : Pos, ln : Pos, last : Pos] /\ home.ln <= home.last
  BY DEF Init, Pos
<1>11. Moving
  BY <1>2, <1>3, <1>7, <1>8, <1>9, <1>10 DEF Init, Moving
<1>12. lines = <<>>
  BY <1>1 DEF WrapInit
<1> QED
  BY <1>2, <1>11, <1>12 DEF MInv, Init, Sent, Landing, KeyMovesOneLine, LandsAtColumn, Landed, Wrapped

LEMMA MovesInductive == Spec => []MInv
<1>1. MInv /\ [Next]_vars => MInv'
  <2> SUFFICES ASSUME MInv, [Next]_vars PROVE MInv'
    OBVIOUS
  <2>1. CASE UNCHANGED vars
    <3>1. UNCHANGED <<width, loop>> /\ UNCHANGED <<doc, cursor, stage, key, goal, home>>
      BY <2>1 DEF vars, moves
    <3>2. IInv' /\ FInv' /\ UNCHANGED <<width, para, pc, lines, xs, wn, line>>
      BY <3>1, LinesUnchanged DEF MInv, loop
    <3>3. /\ Spots' = Spots /\ Count' = Count /\ All' = All
          /\ Line' = Line /\ Landed' = Landed
      BY <3>1, <3>2 DEF Spots, Filling, FirstSpot, Following, Count, WordWidth, Indent, All,
                        Line, LineOf, Landed, Wrapped
    <3>4. Moving'
      BY <3>1, <3>2, <3>3 DEF MInv, Moving
    <3>5. Sent'
      BY <3>1, <3>3 DEF MInv, Sent, Below, Above
    <3>6. KeyMovesOneLine'
      BY <3>1, <3>2, <3>3 DEF MInv, Landing, KeyMovesOneLine
    <3>7. LandsAtColumn'
      <4>1. \A m : Column(m)' = Column(m)
        BY <3>1, <3>2, SameLines
      <4>2. LandsAtColumn
        BY DEF MInv, Landing
      <4>3. Column(cursor)' = Column(cursor)
        BY <3>1, <3>2 DEF Column, LineOf, Indent
      <4> QED
        BY <3>1, <3>2, <3>3, <4>1, <4>2, <4>3 DEF LandsAtColumn
    <3> QED
      BY <3>2, <3>4, <3>5, <3>6, <3>7 DEF MInv, Landing
  <2>2. CASE Next
    BY <2>2, PressKeeps, GoToEndKeeps, GoToLineKeeps, GotoXPositionKeeps, WorkKeeps DEF Next
  <2> QED
    BY <2>1, <2>2
<1> QED
  BY <1>1, MovesInit, PTL DEF Spec

(* The lines that the keys go by are those of a wrapped paragraph: all that *)
(* is proved of wrapping holds here.                                        *)
LEMMA MovesWrap == Spec => WrapSpec
<1>1. Init => WrapInit
  BY DEF Init
<1>2. MInv /\ [Next]_vars => [WrapNext]_<<width, loop>>
  <2> SUFFICES ASSUME MInv, [Next]_vars PROVE [WrapNext]_<<width, loop>>
    OBVIOUS
  <2>1. CASE UNCHANGED vars
    BY <2>1 DEF vars
  <2>2. CASE Press("up") \/ Press("down")
    <3>1. Call(doc[cursor.cp]) /\ UNCHANGED width
      BY <2>2 DEF Press
    <3>2. doc[cursor.cp] \in Paragraphs
      BY DocType DEF MInv, Moving
    <3> QED
      BY <3>1, <3>2 DEF WrapNext
  <2>3. CASE GoToEnd \/ GotoXPosition
    BY <2>3 DEF GoToEnd, GotoXPosition
  <2>4. CASE GoToLine
    <3>1. Call(doc[cursor'.cp]) /\ UNCHANGED <<width, doc>>
      BY <2>4 DEF GoToLine
    <3>2. doc'[cursor'.cp] \in Paragraphs
      <4>1. Moving'
        BY <2>4, GoToLineKeeps DEF MInv
      <4> QED
        BY <3>1, <4>1, LenProperties, ElementOfSeq DEF Moving
    <3> QED
      BY <3>1, <3>2 DEF WrapNext
  <2>5. CASE Work
    BY <2>5 DEF Work, WrapNext
  <2> QED
    BY <2>1, <2>2, <2>3, <2>4, <2>5 DEF Next
<1> QED
  BY <1>1, <1>2, MovesInductive, PTL DEF Spec, WrapSpec

-----------------------------------------------------------------------------
(* A key moves the cursor by one line, into the paragraph above or below    *)
(* where there is none in its own; but for an empty line before a word that *)
(* is too wide.                                                             *)
THEOREM OneLine == Spec => []KeyMovesOneLine
<1>1. MInv => KeyMovesOneLine
  BY DEF MInv, Landing
<1> QED
  BY <1>1, MovesInductive, PTL

(* And to the place of that line nearest to the column it was in, not right *)
(* of it if there is one.                                                   *)
THEOREM AtColumn == Spec => []LandsAtColumn
<1>1. MInv => LandsAtColumn
  BY DEF MInv, Landing
<1> QED
  BY <1>1, MovesInductive, PTL

(* What getLineOfWord and getWordOfLine rely on, where the keys use them.   *)
THEOREM LinesForKeys == Spec => [](LinesPartition /\ LinesFit /\ LinesFull)
BY MovesWrap, WordsInLines, WordsFit, NoLineTooShort, PTL
=============================================================================
