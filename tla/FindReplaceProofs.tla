-------------------------- MODULE FindReplaceProofs --------------------------
(***************************************************************************)
(* Proofs about FindReplace, for documents and texts of any size: that     *)
(* replacing is exact, that what is found is what was looked for, and that *)
(* a search overlooks nothing.                                             *)
(***************************************************************************)
EXTENDS FindReplace, DocumentEditProofs, FiniteSetTheorems

-----------------------------------------------------------------------------
(* Typing the words of the replacement.                                     *)

(* The text of a word with no code is the word. *)
LEMMA PlainWord ==
  ASSUME NEW w \in Seq(Char)
  PROVE  w \in Word /\ GetWordText(w) = w
<1> DEFINE n == Len(w)
           f == [i \in 0 .. n |-> SubSeq(w, 1, i)]
           u == Words!TextFcn(w)
           Eq(v) == v = [i \in 0 .. Len(w) |->
                    IF i = 0 THEN <<>>
                    ELSE IF IsCode(w[i]) THEN v[i - 1] ELSE Append(v[i - 1], w[i])]
<1>1. n \in Nat /\ w \in Word /\ \A i \in 1 .. n : w[i] \in Char
  <2>1. w \in Word
    BY DEF Word
  <2> QED BY <2>1, ElementOfSeq, LenProperties
<1>2. f[0] = <<>>
  <2>1. SubSeq(w, 1, 0) = <<>> /\ 0 \in 0 .. n
    BY <1>1
  <2> QED BY <2>1
<1>3. ASSUME NEW i \in 1 .. n
      PROVE  f[i] = IF IsCode(w[i]) THEN f[i - 1] ELSE Append(f[i - 1], w[i])
  <2>1. i \in 0 .. n /\ i - 1 \in 0 .. n /\ ~IsCode(w[i])
    BY <1>1 DEF IsCode
  <2>2. f[i] = SubSeq(w, 1, i) /\ f[i - 1] = SubSeq(w, 1, i - 1)
    BY <2>1
  <2> HIDE DEF f
  <2>3. SubSeq(w, 1, i) = Append(SubSeq(w, 1, i - 1), w[i])
    BY <1>1
  <2> QED BY <2>1, <2>2, <2>3
<1>4. Eq(f)
  <2>1. \A i \in 0 .. n : f[i] = IF i = 0 THEN <<>>
                    ELSE IF IsCode(w[i]) THEN f[i - 1] ELSE Append(f[i - 1], w[i])
    <3> HIDE DEF f
    <3>1. \A i \in 0 .. n : i # 0 => i \in 1 .. n
      BY <1>1
    <3> QED BY <1>2, <1>3, <3>1
  <2>2. f = [i \in 0 .. n |-> f[i]]
    OBVIOUS
  <2> HIDE DEF f
  <2> QED BY <2>1, <2>2
<1>5. Eq(u)
  <2> HIDE DEF Eq, f
  <2>1. u = CHOOSE v : Eq(v)
    BY Zenon DEF Words!TextFcn, Words!IsCode, IsCode, Eq
  <2> QED BY <1>4, <2>1
<1> DEFINE V == {k \in 0 .. n : u[k] = f[k]}
<1>6. GetWordText(w) = u[n]
  BY Zenon DEF GetWordText, Words!TextFcn, IsCode, Words!IsCode
<1>7. f[n] = w
  <2>1. n \in 0 .. n /\ SubSeq(w, 1, n) = w
    BY <1>1
  <2> QED BY <2>1
<1> HIDE DEF u, f
<1>8. /\ u[0] = <<>>
      /\ \A i \in 1 .. n : u[i] = IF IsCode(w[i]) THEN u[i - 1] ELSE Append(u[i - 1], w[i])
  <2>1. 0 \in 0 .. n /\ \A i \in 1 .. n : i \in 0 .. n /\ i # 0
    BY <1>1
  <2>2. \A i \in 0 .. n : u[i] = IF i = 0 THEN <<>>
               ELSE IF IsCode(w[i]) THEN u[i - 1] ELSE Append(u[i - 1], w[i])
    BY <1>5, Zenon
  <2> HIDE DEF n, Eq
  <2> QED BY <2>1, <2>2
<1>9. 0 \in V
  BY <1>1, <1>2, <1>8
<1>10. ASSUME NEW k \in 0 .. n - 1, k \in V PROVE k + 1 \in V
  <2>1. k + 1 \in 1 .. n /\ (k + 1) - 1 = k /\ k + 1 \in 0 .. n
    BY <1>1
  <2>2. u[k] = f[k]
    BY <1>10
  <2>3. u[k + 1] = IF IsCode(w[k + 1]) THEN u[k] ELSE Append(u[k], w[k + 1])
    BY <1>8, <2>1
  <2>4. f[k + 1] = IF IsCode(w[k + 1]) THEN f[k] ELSE Append(f[k], w[k + 1])
    BY <1>3, <2>1
  <2> QED BY <2>1, <2>2, <2>3, <2>4
<1>11. n \in V
  <2>1. n \in 0 .. n
    BY <1>1
  <2> HIDE DEF V, n
  <2> QED BY <1>1, <1>9, <1>10, <2>1, SameWords, Words!Induction DEF n
<1> QED BY <1>1, <1>6, <1>7, <1>11

-----------------------------------------------------------------------------
(* Inserting.                                                               *)

LEMMA InsertedInWord ==
  ASSUME NEW w \in Word, NEW ins \in Word, NEW o \in 1 .. Len(w) + 1, NEW style \in Style
  PROVE  LET r == InsertIntoWord(w, ins, o, style)
         IN  /\ r.word \in Word /\ r.stop \in 1 .. Len(r.word) + 1
             /\ TextTo(r.word, r.stop) = TextTo(w, o) \o GetWordText(ins)
             /\ TextFrom(r.word, r.stop) = TextFrom(w, o)
<1> DEFINE r == InsertIntoWord(w, ins, o, style)
           u == r.word
           s == r.stop
           a == TextTo(w, o)
           b == TextFrom(w, o)
           i == GetWordText(ins)
           ai == a \o i
<1>1. u \in Word /\ s \in 1 .. Len(u) + 1
  BY WordInserted
<1>2. Words!TextTo(u, s) = Words!TextTo(w, o) \o Words!GetWordText(ins)
      /\ Words!GetWordText(u) = (Words!TextTo(w, o) \o Words!GetWordText(ins)) \o Words!TextFrom(w, o)
  <2>1. o \in Words!Offsets(w)
    BY SameOperations
  <2>2. LET v == Words!InsertIntoWord(w, ins, o, style)
        IN  /\ Words!TextTo(v.word, v.stop) = Words!TextTo(w, o) \o Words!GetWordText(ins)
            /\ Words!GetWordText(v.word) =
                 (Words!TextTo(w, o) \o Words!GetWordText(ins)) \o Words!TextFrom(w, o)
    BY <2>1, SameWords, Words!TextInserted
  <2>3. Words!InsertIntoWord(w, ins, o, style) = r
    BY SameOperations
  <2> HIDE DEF r
  <2> QED BY <2>2, <2>3
<1> HIDE DEF r
<1>3. a \in Seq(Symbol) /\ b \in Seq(Symbol) /\ i \in Seq(Symbol)
  BY TextSplits, WordTextIs
<1>4. /\ TextTo(u, s) \in Seq(Symbol) /\ TextFrom(u, s) \in Seq(Symbol)
      /\ GetWordText(u) = TextTo(u, s) \o TextFrom(u, s)
  BY <1>1, TextSplits
<1>5. \A v, n : Words!TextTo(v, n) = TextTo(v, n) /\ Words!GetWordText(v) = GetWordText(v)
  BY SameText DEF TextTo
<1> HIDE DEF a, b, i, u, s
<1>6. TextTo(u, s) = ai /\ GetWordText(u) = ai \o b
  BY <1>2, <1>5 DEF a, b, i, TextFrom
<1>7. ai \in Seq(Symbol)
  BY <1>3, ConcatProperties
<1> HIDE DEF ai
<1>8. TextFrom(u, s) = b
  <2>1. ai \o TextFrom(u, s) = ai \o b
    BY <1>4, <1>6
  <2>2. TextFrom(u, s) \in Seq(Symbol)
    BY <1>4
  <2> QED BY <1>3, <1>7, <2>1, <2>2, Cancel
<1> QED BY <1>1, <1>6, <1>8 DEF ai, a, b, i, u, s, r

(* The word at the cursor replaced by another.                              *)
LEMMA WordPut ==
  ASSUME NEW d, NEW P, NEW A, NEW w, NEW B, NEW R, HasWord(d, P, A, w, B, R),
         NEW ins, ins.word \in Word
  PROVE  /\ HasWord(PutInserted(d, 1, ins), P, A, ins.word, B, R)
         /\ PutInserted(d, 1, ins).co = ins.stop
         /\ KeepsMark(d, PutInserted(d, 1, ins))
<1> DEFINE y == ins.word
           e == PutWords(d, 1, <<y>>)
           r == WithOffset(e, ins.stop)
           X == <<w>>
           Y == <<y>>
<1>1. /\ P \in Seq(FullParagraph) /\ R \in Seq(FullParagraph)
      /\ A \in Seq(Word) /\ B \in Seq(Word) /\ w \in Word /\ d.cw = Len(A) + 1
      /\ HasParagraph(d, P, Around(A, w, B), R)
  BY DEF HasWord, IsZip
<1>2. /\ Around(A, w, B) = Three(A, X, B) /\ X \in Seq(Word) /\ 1 = Len(X)
      /\ Around(A, y, B) = Three(A, Y, B) /\ Y \in Seq(Word)
  BY <1>1, AroundIsThree
<1>3. PutInserted(d, 1, ins) = r
  BY DEF PutInserted, WithOffset
<1> HIDE DEF X, y
<1>4. HasParagraph(e, P, Three(A, Y, B), R) /\ KeepsPlace(d, e)
  <2> HIDE DEF Y
  <2>1. LET v == PutWords(d, 1, Y)
        IN  HasParagraph(v, P, Three(A, Y, B), R) /\ KeepsPlace(d, v)
    BY <1>1, <1>2, PutWordsAt
  <2> QED BY <2>1 DEF Y
<1> HIDE DEF e, Y
<1>5. /\ IsDoc(e) /\ e.paras = ZipOf(P, A, y, B, R) /\ e.cp = Len(P) + 1 /\ e.cw = Len(A) + 1
  BY <1>1, <1>2, <1>4 DEF HasParagraph, ZipOf, KeepsPlace
<1>6. /\ IsDoc(r) /\ KeepsMark(e, r)
      /\ r.paras = e.paras /\ r.cp = e.cp /\ r.cw = e.cw /\ r.co = ins.stop
  BY <1>5, WithOffsetIs
<1> HIDE DEF r
<1>7. IsZip(P, A, y, B, R)
  BY <1>1 DEF IsZip, y
<1>8. HasWord(r, P, A, y, B, R)
  BY <1>5, <1>6, <1>7, HasWordIf
<1>9. KeepsMark(d, r)
  BY <1>4, <1>6 DEF KeepsPlace, KeepsMark
<1> QED BY <1>3, <1>6, <1>8, <1>9 DEF y

(* What is typed is where the cursor was, and the cursor behind it.         *)
LEMMA TypedExactly ==
  ASSUME NEW d, NEW t, NEW u, Exactly(d, t, u), NEW ins \in Word, NEW hint \in Style
  PROVE  /\ Exactly(InsertStringIntoWord(d, ins, hint), t \o GetWordText(ins), u)
         /\ KeepsMark(d, InsertStringIntoWord(d, ins, hint))
<1>1. PICK P, A, w, B, R :
        /\ HasWord(d, P, A, w, B, R) /\ d.co \in 1 .. Len(w) + 1
        /\ Ahead(P, A, w, d.co) = t /\ Rest(w, d.co, B, R) = u
  BY DEF Exactly
<1> DEFINE r == InsertIntoWord(w, ins, d.co, hint)
           y == r.word
           o == r.stop
           i == GetWordText(ins)
           x == TextTo(w, d.co)
           e == InsertStringIntoWord(d, ins, hint)
<1>2. /\ P \in Seq(FullParagraph) /\ A \in Seq(Word) /\ w \in Word
  BY <1>1 DEF HasWord, IsZip
<1>3. /\ y \in Word /\ o \in 1 .. Len(y) + 1
      /\ TextTo(y, o) = x \o i /\ TextFrom(y, o) = TextFrom(w, d.co)
  BY <1>1, <1>2, InsertedInWord
<1>4. e = PutInserted(d, 1, r)
  <2>1. CurrentWord(d) = w
    BY <1>1, WordHere
  <2> QED BY <2>1 DEF InsertStringIntoWord
<1> HIDE DEF r
<1>5. HasWord(e, P, A, y, B, R) /\ e.co = o /\ KeepsMark(d, e)
  BY <1>1, <1>3, <1>4, WordPut
<1> HIDE DEF e, y, o
<1>6. Ahead(P, A, y, o) = t \o i
  <2>1. x \in Seq(Symbol) /\ i \in Seq(Symbol) /\ Pre(P, A) \in Seq(Symbol)
    BY <1>1, <1>2, TextSplits, WordTextIs, PreIs
  <2> HIDE DEF x, i
  <2>2. Groups(Pre(P, A), x, i)
    BY <2>1, GroupsOf
  <2> QED BY <1>1, <1>3, <2>2 DEF Ahead, Groups, x
<1>7. Rest(y, o, B, R) = u
  BY <1>1, <1>3 DEF Rest
<1> HIDE DEF i
<1>8. Exactly(e, t \o i, u)
  BY <1>3, <1>5, <1>6, <1>7 DEF Exactly
<1> QED BY <1>5, <1>8 DEF e, i

LEMMA FirstAlone ==
  ASSUME NEW x, IsSeq(x), Len(x) >= 1
  PROVE  SubSeq(x, 1, 1) = <<x[1]>>
<1> DEFINE y == SubSeq(x, 1, 1)
           z == <<x[1]>>
<1>1. 1 \in Nat /\ 1 \in Int /\ 1 <= Len(x) /\ 1 - 1 + 1 = 1
  BY SeqIs
<1>2. IsSeq(y) /\ Len(y) = 1 /\ y[1] = x[1]
  <2>1. IsSeq(y) /\ Len(y) = (IF 1 <= 1 THEN 1 - 1 + 1 ELSE 0) /\ \A i \in 1 .. 1 - 1 + 1 : y[i] = x[1 + i - 1]
    BY <1>1, SeqPart
  <2> HIDE DEF y
  <2> QED BY <2>1
<1>3. IsSeq(z) /\ Len(z) = 1 /\ z[1] = x[1]
  BY SeqLiterals
<1>4. DOMAIN y = 1 .. 1 /\ DOMAIN z = 1 .. 1
  <2> HIDE DEF y, z
  <2> QED BY <1>2, <1>3, SeqIs
<1>5. PICK S : y \in Seq(S)
  BY <1>2 DEF IsSeq
<1>6. PICK T : z \in Seq(T)
  BY <1>3 DEF IsSeq
<1> HIDE DEF y, z
<1>7. y = [i \in 1 .. 1 |-> y[i]] /\ z = [i \in 1 .. 1 |-> z[i]]
  BY <1>2, <1>3, <1>5, <1>6
<1>8. \A i \in 1 .. 1 : y[i] = z[i]
  BY <1>2, <1>3
<1> QED BY <1>7, <1>8 DEF y, z

(* A style code has no text. *)
LEMMA CodeAlone ==
  ASSUME NEW c, IsCode(c)
  PROVE  GetWordText(<<c>>) = <<>>
<1> DEFINE w == <<c>>
           f == [i \in 0 .. Len(w) |-> <<>>]
           u == Words!TextFcn(w)
           Eq(v) == v = [i \in 0 .. Len(w) |->
                    IF i = 0 THEN <<>>
                    ELSE IF IsCode(w[i]) THEN v[i - 1] ELSE Append(v[i - 1], w[i])]
<1>1. Len(w) = 1 /\ w[1] = c
  OBVIOUS
<1> HIDE DEF w
<1>2. Eq(f)
  <2>1. \A i \in 0 .. 1 : f[i] = IF i = 0 THEN <<>>
                    ELSE IF IsCode(w[i]) THEN f[i - 1] ELSE Append(f[i - 1], w[i])
    <3>1. \A i \in 0 .. 1 : f[i] = <<>>
      BY <1>1
    <3>2. \A i \in 0 .. 1 : i # 0 => i = 1 /\ i - 1 \in 0 .. 1
      OBVIOUS
    <3> HIDE DEF f
    <3> QED BY <1>1, <3>1, <3>2
  <2>2. f = [i \in 0 .. 1 |-> f[i]]
    BY <1>1
  <2> HIDE DEF f
  <2> QED BY <1>1, <2>1, <2>2
<1>5. Eq(u)
  <2> HIDE DEF Eq, f
  <2>1. u = CHOOSE v : Eq(v)
    BY Zenon DEF Words!TextFcn, Words!IsCode, IsCode, Eq
  <2> QED BY <1>2, <2>1
<1>6. GetWordText(w) = u[1]
  <2>1. GetWordText(w) = u[Len(w)]
    BY Zenon DEF GetWordText, Words!TextFcn, IsCode, Words!IsCode
  <2> QED BY <1>1, <2>1
<1> HIDE DEF u, f
<1>7. u[1] = u[0] /\ u[0] = <<>>
  <2>1. u = [i \in 0 .. 1 |->
                    IF i = 0 THEN <<>>
                    ELSE IF IsCode(w[i]) THEN u[i - 1] ELSE Append(u[i - 1], w[i])]
    BY <1>1, <1>5
  <2> QED BY <1>1, <2>1
<1> QED BY <1>6, <1>7 DEF w

(* A document in parts is one with a word at the cursor. *)
LEMMA ZipGood ==
  ASSUME NEW d, NEW P, NEW A, NEW w, NEW B, NEW R, HasWord(d, P, A, w, B, R), d.co \in 1 .. Len(w) + 1
  PROVE  Good(d) /\ CurrentWord(d) = w /\ Within(d)
<1>1. /\ d.paras = ZipOf(P, A, w, B, R) /\ IsDoc(d)
      /\ d.cp = Len(P) + 1 /\ d.cw = Len(A) + 1
      /\ CurrentWord(d) = w
      /\ Len(Paragraph(d)) = Len(A) + 1 + Len(B) /\ Len(d.paras) = Len(P) + 1 + Len(R)
      /\ Len(A) \in Nat /\ Len(B) \in Nat /\ Len(P) \in Nat /\ Len(R) \in Nat
  BY WordHere
<1>2. IsZip(P, A, w, B, R)
  BY DEF HasWord
<1>3. d.paras \in Seq(FullParagraph)
  BY <1>1, <1>2, ZipText
<1>4. Filled(d.paras)
  BY <1>3, FilledIs
<1>5. d.co \in Nat \ {0}
  BY <1>2, WordIs DEF IsZip
<1> QED BY <1>1, <1>4, <1>5 DEF Good, Within, Paragraph

(* A space is put where the cursor was, and the cursor behind it; what is   *)
(* typed next is in the style of the hint, which has no text.               *)
LEMMA SpacedExactly ==
  ASSUME NEW d, NEW t, NEW u, Exactly(d, t, u), ~Marked(d), NEW hint \in Style
  PROVE  /\ Exactly(SplitCurrentWord(d, hint), t \o <<SP>>, u)
         /\ KeepsMark(d, SplitCurrentWord(d, hint))
<1>1. PICK P, A, w, B, R :
        /\ HasWord(d, P, A, w, B, R) /\ d.co \in 1 .. Len(w) + 1
        /\ Ahead(P, A, w, d.co) = t /\ Rest(w, d.co, B, R) = u
  BY DEF Exactly
<1> DEFINE l == LeftOf(w, d.co)
           s == SplitCurrentWord(d, hint)
           L == With(A, l)
<1>2. /\ P \in Seq(FullParagraph) /\ A \in Seq(Word) /\ w \in Word /\ d.co \in Nat \ {0}
  BY <1>1, WordIs DEF HasWord, IsZip
<1>3. GetWordText(l) = TextTo(w, d.co) /\ l \in Word
  BY <1>1, <1>2, LeftOfWord, HalvesAre
<1> DEFINE half == RightOf(w, d.co)
           prime == StylePrime(hint)
           x == prime \o half
<1>4. /\ HasWord(s, P, L, x, B, R) /\ s.co = 2 /\ KeepsMark(d, s)
      /\ x \in Word /\ GetWordText(x) = TextFrom(w, d.co)
  <2>1. PICK y \in Word : /\ HasWord(s, P, L, y, B, R) /\ KeepsMark(d, s)
                          /\ GetWordText(y) = TextFrom(w, d.co)
    BY <1>1, SplitFreeAt
  <2>2. s.co = 2 /\ CurrentWord(s) = x
    <3> DEFINE words == <<l, x>>
               e == PutWords(d, 1, words)
               r == At(e, d.cp, d.cw + 1, 2)
    <3>1. s = r
      <4>1. CurrentWord(d) = w
        BY <1>1, WordHere
      <4> QED BY <4>1 DEF SplitCurrentWord, LeftOf, RightOf
    <3>2. l \in Word /\ half \in Word
      BY <1>2, HalvesAre
    <3>3. x \in Word
      BY <3>2, WordPrimed
    <3>4. Good(d)
      BY <1>1, ZipGood
    <3>5. words \in Seq(Word) /\ Len(words) = 2 /\ words[2] = x /\ IsSeq(words) /\ Worded(words)
      <4> HIDE DEF l, x
      <4>1. words \in Seq(Word) /\ Len(words) = 2 /\ words[2] = x
        BY <3>2, <3>3
      <4>2. IsSeq(words)
        BY <4>1 DEF IsSeq
      <4>3. Worded(words)
        BY <3>2, <3>3, WordedLiterals
      <4> QED BY <4>1, <4>2, <4>3
    <3> DEFINE n == d.cw - 1 + Len(words) + Left(Len(Paragraph(d)) + 1, d.cw + 1)
    <3> HIDE DEF words, x, l
    <3>6. Resized(d, e, n) /\ HasWords(d, e, words)
      <4>1. Near(d)
        BY <3>4, GoodIs
      <4> HIDE DEF n
      <4>2. n = d.cw - 1 + Len(words) + Left(Len(Paragraph(d)) + 1, d.cw + 1)
        BY DEF n
      <4> QED BY <3>5, <4>1, <4>2, PutWordsIs
    <3> HIDE DEF e, n
    <3>7. e.paras[d.cp][d.cw + 1] = x
      <4>1. 2 \in 1 .. Len(words) /\ d.cw - 1 + 2 = d.cw + 1
        BY <3>4, <3>5, GoodIs
      <4> QED BY <3>5, <3>6, <4>1 DEF HasWords
    <3>8. r.paras = e.paras /\ r.cp = d.cp /\ r.cw = d.cw + 1 /\ r.co = 2
      <4>1. IsDoc(e)
        BY <3>6 DEF Resized
      <4> QED BY <4>1, AtIs
    <3> QED BY <3>1, <3>7, <3>8 DEF CurrentWord, Paragraph
  <2>3. CurrentWord(s) = y
    BY <2>1, WordHere
  <2> QED BY <2>1, <2>2, <2>3
<1>5. /\ TextTo(x, 2) = <<>> /\ 2 \in 1 .. Len(x) + 1
  <2>1. x \in Word /\ Len(x) \in Nat /\ Len(x) >= 1 /\ IsCode(x[1])
    <3>1. half \in Word
      BY <1>2, HalvesAre
    <3>2. half \in Seq(Char \cup Style) /\ Len(half) \in Nat
      BY <3>1, WordIs DEF Word
    <3> HIDE DEF half
    <3>3. \A c \in Style : IsCode(c)
      BY CharAssumption DEF IsCode, Style
    <3>4. prime \in Seq(Char \cup Style) /\ Len(prime) >= 1 /\ Len(prime) \in Nat /\ prime[1] \in Style
      <4>1. Plain \in Style
        BY EmptyWord
      <4>2. CASE hint = Plain
        BY <4>1, <4>2 DEF StylePrime
      <4>3. CASE hint # Plain
        BY <4>1, <4>3 DEF StylePrime
      <4> QED BY <4>2, <4>3
    <3> HIDE DEF prime
    <3>5. x[1] = prime[1] /\ Len(x) >= 1 /\ Len(x) \in Nat
      BY <3>2, <3>4
    <3> QED BY <1>4, <3>3, <3>4, <3>5
  <2> HIDE DEF x
  <2>2. 2 \in 1 .. Len(x) + 1
    BY <2>1
  <2>3. TextTo(x, 2) = GetWordText(SubSeq(x, 1, 1)) /\ SubSeq(x, 1, 1) = <<x[1]>>
    <3>1. IsSeq(x) /\ 2 - 1 = 1
      BY <2>1, WordIs
    <3> QED BY <2>1, <3>1, FirstAlone DEF TextTo
  <2>4. GetWordText(<<x[1]>>) = <<>>
    BY <2>1, CodeAlone
  <2> QED BY <2>2, <2>3, <2>4
<1> HIDE DEF l, s, x
<1>6. TextFrom(x, 2) = TextFrom(w, d.co)
  <2>1. /\ GetWordText(x) = TextTo(x, 2) \o TextFrom(x, 2) /\ TextFrom(x, 2) \in Seq(Symbol)
    BY <1>4, <1>5, TextSplits
  <2>2. <<>> \o TextFrom(x, 2) = TextFrom(x, 2)
    BY <2>1, EmptyAround
  <2> QED BY <1>4, <1>5, <2>1, <2>2
<1>8. Ahead(P, L, x, 2) = t \o <<SP>>
  <2>1. Pre(P, L) = (Pre(P, A) \o GetWordText(l)) \o <<SP>>
    BY <1>2, <1>3, PreIs DEF With
  <2>2. Pre(P, A) \o GetWordText(l) = t
    BY <1>1, <1>3 DEF Ahead
  <2>3. L \in Seq(Word)
    BY <1>2, <1>3, WithHas
  <2> HIDE DEF L
  <2>4. Pre(P, L) \in Seq(Symbol)
    BY <1>2, <1>3, <2>3, PreIs
  <2>5. Pre(P, L) \o <<>> = Pre(P, L)
    BY <2>4, ConcatEmptySeq
  <2> QED BY <1>5, <2>1, <2>2, <2>5 DEF Ahead
<1>9. Rest(x, 2, B, R) = u
  BY <1>1, <1>6 DEF Rest
<1> HIDE DEF L
<1>10. Exactly(s, t \o <<SP>>, u)
  <2>1. s.co = 2
    BY <1>4
  <2> QED BY <1>4, <1>5, <1>8, <1>9, <2>1 DEF Exactly
<1> QED BY <1>4, <1>10 DEF s

LEMMA ExactlyType ==
  ASSUME NEW d, NEW t, NEW u, Exactly(d, t, u)
  PROVE  t \in Seq(Symbol) /\ u \in Seq(Symbol)
<1>1. PICK P, A, w, B, R :
        /\ HasWord(d, P, A, w, B, R) /\ d.co \in 1 .. Len(w) + 1
        /\ Ahead(P, A, w, d.co) = t /\ Rest(w, d.co, B, R) = u
  BY DEF Exactly
<1>2. /\ IsZip(P, A, w, B, R) /\ At3(Cursor(d), P, A, w) /\ Cursor(d)[3] = d.co
  <2>1. d.co \in Nat \ {0}
    BY <1>1, WordIs DEF HasWord, IsZip
  <2> QED BY <1>1, <2>1, WordHere DEF HasWord, At3, Cursor
<1> QED BY <1>1, <1>2, ZipPlace

(* The documents without a mark, with the cursor in a word.                 *)
Unmarked(s) ==
  {e \in [paras : Seq(FullParagraph), cp : Nat, cw : Nat, co : Nat, mark : {NoMark}, sticky : {s}] :
     \E t, u : Exactly(e, t, u)}

LEMMA UnmarkedIs ==
  ASSUME NEW e, NEW t, NEW u, Exactly(e, t, u), ~Marked(e)
  PROVE  e \in Unmarked(e.sticky)
<1>1. PICK P, A, w, B, R : HasWord(e, P, A, w, B, R) /\ e.co \in 1 .. Len(w) + 1
  BY DEF Exactly
<1>2. /\ Good(e)
  BY <1>1, ZipGood
<1>3. /\ e.paras \in Seq(FullParagraph) /\ e.cp \in Nat /\ e.cw \in Nat /\ e.co \in Nat
  BY <1>2, GoodIs, FilledIs DEF Good
<1>4. e.mark = NoMark /\ IsDoc(e)
  BY <1>2 DEF Marked, Good
<1>5. e \in [paras : Seq(FullParagraph), cp : Nat, cw : Nat, co : Nat, mark : {NoMark}, sticky : {e.sticky}]
  BY <1>3, <1>4 DEF IsDoc
<1> QED BY <1>5 DEF Unmarked

LEMMA UnmarkedHas ==
  ASSUME NEW s, NEW e \in Unmarked(s)
  PROVE  ~Marked(e) /\ e.sticky = s /\ \E t, u : Exactly(e, t, u)
BY DEF Unmarked, Marked

(* A word of the replacement typed after a space.                           *)
NextTyped(e, word, hint) == InsertStringIntoWord(SplitCurrentWord(e, hint), word, hint)

LEMMA NextTypedIs ==
  ASSUME NEW e, NEW t, NEW u, Exactly(e, t, u), ~Marked(e), NEW word \in Seq(Char), NEW hint \in Style
  PROVE  /\ Exactly(NextTyped(e, word, hint), (t \o <<SP>>) \o word, u)
         /\ ~Marked(NextTyped(e, word, hint)) /\ NextTyped(e, word, hint).sticky = e.sticky
<1> DEFINE s == SplitCurrentWord(e, hint)
           r == InsertStringIntoWord(s, word, hint)
<1>1. Exactly(s, t \o <<SP>>, u) /\ KeepsMark(e, s)
  BY SpacedExactly
<1>2. word \in Word /\ GetWordText(word) = word
  BY PlainWord
<1> HIDE DEF s
<1>3. Exactly(r, (t \o <<SP>>) \o word, u) /\ KeepsMark(s, r)
  BY <1>1, <1>2, TypedExactly
<1> HIDE DEF r
<1>4. ~Marked(r) /\ r.sticky = e.sticky
  BY <1>1, <1>3 DEF KeepsMark, Marked
<1> QED BY <1>3, <1>4 DEF NextTyped, r, s

FirstTyped(d, words, hint) == InsertStringIntoWord(d, words[1], hint)

LEMMA FirstTypedIs ==
  ASSUME NEW d, NEW t, NEW u, Exactly(d, t, u), ~Marked(d), NEW words \in Seq(Seq(Char)), NonEmpty(words),
         NEW hint \in Style
  PROVE  /\ Exactly(FirstTyped(d, words, hint), t \o words[1], u)
         /\ ~Marked(FirstTyped(d, words, hint)) /\ FirstTyped(d, words, hint).sticky = d.sticky
<1>1. words[1] \in Seq(Char)
  BY EmptySeq, ElementOfSeq, LenProperties DEF NonEmpty
<1> DEFINE w == words[1]
           r == InsertStringIntoWord(d, w, hint)
<1>2. w \in Word /\ GetWordText(w) = w
  BY <1>1, PlainWord
<1> HIDE DEF w
<1>3. Exactly(r, t \o w, u) /\ KeepsMark(d, r)
  BY <1>2, TypedExactly
<1> HIDE DEF r
<1>4. ~Marked(r) /\ r.sticky = d.sticky
  BY <1>3 DEF KeepsMark, Marked
<1> QED BY <1>3, <1>4 DEF FirstTyped, r, w

(* The words of the replacement are typed one by one.                       *)
TypedFcn(d, words, hint) ==
  CHOOSE u : u = [i \in DOMAIN words |->
                    InsertStringIntoWord(IF i = 1 THEN d ELSE SplitCurrentWord(u[i - 1], hint), words[i], hint)]

Types(F, d, words, hint) ==
  /\ F[1] = FirstTyped(d, words, hint)
  /\ \A i \in 2 .. Len(words) : F[i] = NextTyped(F[i - 1], words[i], hint)

LEMMA TypedStep ==
  ASSUME NEW d, NEW t, NEW u, Exactly(d, t, u), ~Marked(d), NEW words \in Seq(Seq(Char)), NonEmpty(words),
         NEW hint \in Style
  PROVE  Types(TypedFcn(d, words, hint), d, words, hint)
<1> DEFINE n == Len(words)
           V == Unmarked(d.sticky)
           G == [p \in (1 + 1 .. n) \X V |-> NextTyped(p[2], words[p[1]], hint)]
           c == FirstTyped(d, words, hint)
           f == Words!Solution(1, n, c, G)
           Eq(v) == v = [i \in DOMAIN words |->
                          InsertStringIntoWord(IF i = 1 THEN d ELSE SplitCurrentWord(v[i - 1], hint), words[i], hint)]
           F == TypedFcn(d, words, hint)
<1>1. /\ n \in Nat /\ n >= 1 /\ 1 \in Nat /\ DOMAIN words = 1 .. n
      /\ \A i \in 1 .. n : words[i] \in Seq(Char)
  BY EmptySeq, ElementOfSeq, LenProperties DEF NonEmpty
<1>2. \A e \in V, w \in Seq(Char) : NextTyped(e, w, hint) \in V
  <2> SUFFICES ASSUME NEW e \in V, NEW w \in Seq(Char) PROVE NextTyped(e, w, hint) \in V
    OBVIOUS
  <2>1. ~Marked(e) /\ e.sticky = d.sticky
    BY UnmarkedHas
  <2>2. PICK a, b : Exactly(e, a, b)
    BY UnmarkedHas
  <2> DEFINE r == NextTyped(e, w, hint)
  <2>3. Exactly(r, (a \o <<SP>>) \o w, b) /\ ~Marked(r) /\ r.sticky = d.sticky
    BY <2>1, <2>2, NextTypedIs
  <2> HIDE DEF r
  <2> QED BY <2>3, UnmarkedIs DEF r
<1>3. c \in V
  <2>1. Exactly(c, t \o words[1], u) /\ ~Marked(c) /\ c.sticky = d.sticky
    BY FirstTypedIs
  <2> HIDE DEF c
  <2> QED BY <2>1, UnmarkedIs
<1> HIDE DEF V, c
<1>4. G \in [(1 + 1 .. n) \X V -> V]
  <2>1. \A p \in (1 + 1 .. n) \X V : p[2] \in V /\ p[1] \in 1 .. n
    OBVIOUS
  <2> HIDE DEF n
  <2>2. \A p \in (1 + 1 .. n) \X V : NextTyped(p[2], words[p[1]], hint) \in V
    BY <1>1, <1>2, <2>1
  <2> QED BY <2>2
<1>5. Words!IsRun(f, 1, n, V, c, G)
  <2> HIDE DEF G, n, f
  <2> QED BY <1>1, <1>3, <1>4, SameWords, Words!Recursion DEF f
<1> HIDE DEF f, n
<1>6. /\ f \in [1 .. n -> V] /\ f[1] = c
      /\ \A i \in 1 + 1 .. n : f[i] = G[<<i, f[i - 1]>>]
  <2> HIDE DEF G
  <2> QED BY <1>5 DEF Words!IsRun
<1>7. ASSUME NEW i \in 2 .. n PROVE f[i] = NextTyped(f[i - 1], words[i], hint)
  <2>1. i \in 1 + 1 .. n /\ f[i - 1] \in V
    BY <1>1, <1>6
  <2>2. <<i, f[i - 1]>> \in (1 + 1 .. n) \X V /\ f[i] = G[<<i, f[i - 1]>>]
    <3> HIDE DEF G
    <3> QED BY <1>6, <2>1
  <2> QED BY <2>2
<1>8. Eq(f)
  <2>1. \A i \in 1 .. n : f[i] =
          InsertStringIntoWord(IF i = 1 THEN d ELSE SplitCurrentWord(f[i - 1], hint), words[i], hint)
    <3> SUFFICES ASSUME NEW i \in 1 .. n
                 PROVE  f[i] = InsertStringIntoWord(IF i = 1 THEN d ELSE SplitCurrentWord(f[i - 1], hint), words[i], hint)
      OBVIOUS
    <3>1. CASE i = 1
      BY <1>6, <3>1 DEF c, FirstTyped
    <3>2. CASE i # 1
      <4>1. i \in 2 .. n
        BY <1>1, <3>2
      <4> QED BY <1>7, <3>2, <4>1 DEF NextTyped
    <3> QED BY <3>1, <3>2
  <2>2. f = [i \in 1 .. n |-> f[i]]
    BY <1>6
  <2>3. f = [i \in 1 .. n |->
          InsertStringIntoWord(IF i = 1 THEN d ELSE SplitCurrentWord(f[i - 1], hint), words[i], hint)]
    BY <2>1, <2>2
  <2> QED BY <1>1, <2>3
<1>9. Eq(F)
  <2> HIDE DEF Eq
  <2>1. F = CHOOSE v : Eq(v)
    BY Zenon DEF TypedFcn, Eq
  <2> QED BY <1>8, <2>1
<1> HIDE DEF F
<1>10. \A i \in 1 .. n : F[i] =
          InsertStringIntoWord(IF i = 1 THEN d ELSE SplitCurrentWord(F[i - 1], hint), words[i], hint)
  BY <1>1, <1>9, Zenon
<1>11. F[1] = c
  BY <1>1, <1>10 DEF c, FirstTyped
<1>12. \A i \in 2 .. n : F[i] = NextTyped(F[i - 1], words[i], hint)
  <2>1. \A i \in 2 .. n : i \in 1 .. n /\ i # 1
    BY <1>1
  <2> QED BY <1>10, <2>1 DEF NextTyped
<1> QED BY <1>11, <1>12 DEF Types, F, c, n

(* What is typed is the words with a space between each two.                *)
LEMMA TypedWords ==
  ASSUME NEW d, NEW t, NEW u, Exactly(d, t, u), ~Marked(d), NEW words \in Seq(Seq(Char)), NonEmpty(words),
         NEW hint \in Style
  PROVE  LET r == TypedFcn(d, words, hint)[Len(words)]
         IN  Exactly(r, t \o Joined(words, SP), u) /\ ~Marked(r) /\ r.sticky = d.sticky
<1> DEFINE n == Len(words)
           F == TypedFcn(d, words, hint)
           J == JoinedFcn(words, SP)
           Ok(e, x) == Exactly(e, t \o x, u) /\ ~Marked(e) /\ e.sticky = d.sticky
<1>1. Types(F, d, words, hint)
  BY TypedStep
<1>2. /\ n \in Nat /\ n >= 1 /\ \A i \in 1 .. n : words[i] \in Seq(Char)
  BY EmptySeq, ElementOfSeq, LenProperties DEF NonEmpty
<1>3. t \in Seq(Symbol)
  BY ExactlyType
<1>4. words \in Seq(Seq(Symbol)) /\ SP \in Symbol /\ Seq(Char) \subseteq Seq(Symbol)
  <2>1. Seq(Char) \subseteq Seq(Symbol) /\ SP \in Symbol
    BY CharSymbols
  <2>2. \A i \in 1 .. Len(words) : words[i] \in Seq(Symbol)
    BY <1>2, <2>1
  <2>3. IsSeq(words)
    BY DEF IsSeq
  <2> QED BY <2>1, <2>2, <2>3, SeqOfElements
<1>5. Joins(J, Symbol, words, SP)
  BY <1>4, JoinedStep
<1> HIDE DEF F, J
<1>6. /\ J \in [1 .. n -> Seq(Symbol)] /\ J[1] = words[1] /\ Joined(words, SP) = J[n]
      /\ \A i \in 2 .. n : J[i] = J[i - 1] \o <<SP>> \o words[i]
  BY <1>5 DEF Joins
<1>7. /\ F[1] = FirstTyped(d, words, hint)
      /\ \A i \in 2 .. n : F[i] = NextTyped(F[i - 1], words[i], hint)
  BY <1>1 DEF Types
<1> DEFINE W == {k \in 0 .. n - 1 : Ok(F[k + 1], J[k + 1])}
<1>8. 0 \in W
  <2>1. Ok(F[1], J[1])
    BY <1>6, <1>7, FirstTypedIs
  <2> HIDE DEF Ok
  <2> QED BY <1>2, <2>1
<1>9. ASSUME NEW k \in 0 .. (n - 1) - 1, k \in W PROVE k + 1 \in W
  <2>1. /\ k + 1 + 1 \in 2 .. n /\ (k + 1 + 1) - 1 = k + 1 /\ k + 1 \in 0 .. n - 1
        /\ k + 1 \in 1 .. n /\ k + 1 + 1 \in 1 .. n
    BY <1>2
  <2> DEFINE e == F[k + 1]
             x == J[k + 1]
             w == words[k + 1 + 1]
             r == NextTyped(e, w, hint)
             tx == t \o x
             h == <<SP>>
  <2>2. Ok(e, x)
    BY <1>9
  <2>3. F[k + 1 + 1] = r /\ J[k + 1 + 1] = x \o h \o w /\ w \in Seq(Char) /\ x \in Seq(Symbol) /\ w \in Seq(Symbol)
    BY <1>2, <1>4, <1>6, <1>7, <2>1
  <2> HIDE DEF e, x, w
  <2>4. Exactly(r, (tx \o h) \o w, u) /\ ~Marked(r) /\ r.sticky = d.sticky
    BY <2>2, <2>3, NextTypedIs
  <2> HIDE DEF r
  <2>5. (tx \o h) \o w = t \o (x \o h \o w)
    <3>1. h \in Seq(Symbol)
      BY <1>4, OneElement
    <3> HIDE DEF h
    <3>2. Groups(t, x, h)
      BY <1>3, <2>3, <3>1, GroupsOf
    <3> DEFINE xh == x \o h
    <3>3. xh \in Seq(Symbol)
      BY <2>3, <3>1, ConcatProperties
    <3> HIDE DEF xh
    <3>4. Groups(t, xh, w)
      BY <1>3, <2>3, <3>3, GroupsOf
    <3> QED BY <3>2, <3>4 DEF Groups, xh
  <2>6. Ok(r, x \o h \o w)
    BY <2>4, <2>5
  <2> HIDE DEF Ok, h
  <2> QED BY <2>1, <2>3, <2>6
<1>10. n - 1 \in W
  <2>1. n - 1 \in Nat /\ n - 1 \in 0 .. n - 1
    BY <1>2
  <2> HIDE DEF W
  <2> QED BY <1>8, <1>9, <2>1, SameWords, Words!Induction
<1>11. Ok(F[n], J[n])
  <2>1. (n - 1) + 1 = n
    BY <1>2
  <2> HIDE DEF Ok
  <2> QED BY <1>10, <2>1
<1> QED BY <1>6, <1>11 DEF F, n

LEMMA MarkTaken ==
  ASSUME NEW d, NEW t, NEW u, Exactly(d, t, u)
  PROVE  Exactly(UnsetMark(d), t, u) /\ ~Marked(UnsetMark(d)) /\ UnsetMark(d).sticky = d.sticky
<1> DEFINE r == WithMark(d, NoMark)
<1>1. PICK P, A, w, B, R :
        /\ HasWord(d, P, A, w, B, R) /\ d.co \in 1 .. Len(w) + 1
        /\ Ahead(P, A, w, d.co) = t /\ Rest(w, d.co, B, R) = u
  BY DEF Exactly
<1>2. IsDoc(d)
  BY <1>1, WordHere
<1>3. /\ IsDoc(r) /\ r.paras = d.paras /\ r.cp = d.cp /\ r.cw = d.cw /\ r.co = d.co
      /\ r.sticky = d.sticky
  BY <1>2, WithMarkIs
<1>4. ~Marked(r)
  BY <1>2, WithMarkIs DEF Marked
<1>5. UnsetMark(d) = r
  BY Zenon DEF UnsetMark, WithMark
<1> HIDE DEF r
<1>6. HasWord(r, P, A, w, B, R)
  BY <1>1, <1>3 DEF HasWord, HasParagraph
<1> QED BY <1>1, <1>3, <1>4, <1>5, <1>6 DEF Exactly

(* What is typed in place of the selection. *)
LEMMA ReplacedIs ==
  ASSUME NEW d, Good(d), SafeSelection(d), NEW t, t = Flat(d.paras),
         replacetext \in Seq(Seq(Char)), NonEmpty(replacetext), NEW hint \in Style
  PROVE  LET r == Replaced(d, hint)
         IN  /\ Exactly(r, SubSeq(t, 1, FlatPlace(d.paras, Start(d))) \o Joined(replacetext, SP),
                        SubSeq(t, FlatPlace(d.paras, End(d)) + 1, Len(t)))
             /\ ~Marked(r)
<1> DEFINE v == SubSeq(t, 1, FlatPlace(d.paras, Start(d)))
           u == SubSeq(t, FlatPlace(d.paras, End(d)) + 1, Len(t))
           e == Delete(d)
           f == UnsetMark(e)
           r == TypedFcn(f, replacetext, hint)[Len(replacetext)]
<1>1. Exactly(e, v, u)
  BY DeletedExactly
<1>2. Replaced(d, hint) = r
  BY Zenon DEF Replaced, Inserted, TypedFcn
<1> HIDE DEF v, u, e
<1>3. Exactly(f, v, u) /\ ~Marked(f)
  BY <1>1, MarkTaken
<1> HIDE DEF f
<1>4. Exactly(r, v \o Joined(replacetext, SP), u) /\ ~Marked(r)
  BY <1>3, TypedWords
<1> QED BY <1>2, <1>4 DEF v, u

LEMMA ReplacementExact ==
  ASSUME Good(doc), replacetext # <<>> => replacetext \in Seq(Seq(Char))
  PROVE  ReplaceIsExact
<1> SUFFICES ASSUME SafeSelection(doc), replacetext # <<>>, NEW hint \in Style
             PROVE  LET d == Replaced(doc, hint)
                        before == SubSeq(Text, 1, Place(Start(doc)))
                        after == SubSeq(Text, Place(End(doc)) + 1, Len(Text))
                        new == Joined(replacetext, SP)
                    IN  /\ Flat(d.paras) = before \o new \o after
                        /\ CursorInDocument(d) /\ ~Marked(d)
                        /\ FlatPlace(d.paras, Cursor(d)) = Len(before \o new)
  BY Zenon DEF ReplaceIsExact
<1> DEFINE r == Replaced(doc, hint)
           before == SubSeq(Text, 1, Place(Start(doc)))
           after == SubSeq(Text, Place(End(doc)) + 1, Len(Text))
           new == Joined(replacetext, SP)
           bn == before \o new
<1>1. NonEmpty(replacetext)
  BY DEF NonEmpty
<1>2. Exactly(r, bn, after) /\ ~Marked(r)
  BY <1>1, ReplacedIs DEF Text, Place
<1> HIDE DEF r, bn
<1>3. /\ Flat(r.paras) = bn \o after /\ CursorInDocument(r)
      /\ FlatPlace(r.paras, Cursor(r)) = Len(bn)
  BY <1>2, ExactlyIs
<1> QED BY <1>2, <1>3 DEF r, bn

-----------------------------------------------------------------------------
(* The places of the words of the text.                                     *)

IsPlace(q) ==
  q \in Nat \X Nat /\ q[1] \in 1 .. Len(doc.paras) /\ q[2] \in 1 .. Len(doc.paras[q[1]])
PlaceWord(q) == doc.paras[q[1]][q[2]]
Following(q) == FollowingWord(q[1], q[2])

NextPlace(q, i) ==
  IF q = NoPlace THEN NoPlace
  ELSE IF Following(q) # NoPlace /\ Matches(PlaceWord(Following(q)), i, 1) # {}
       THEN Following(q) ELSE NoPlace

LEMMA FollowingIs ==
  ASSUME NEW q \in Nat \X Nat
  PROVE  /\ Following(q) \in Nat \X Nat
         /\ doc.paras \in Seq(FullParagraph) /\ IsPlace(q) /\ Following(q) # NoPlace => IsPlace(Following(q))
<1> DEFINE p == q[1]
           w == q[2]
           a == <<p, w + 1>>
           b == <<p + 1, 1>>
           r == Following(q)
<1>1. p \in Nat /\ w \in Nat
  OBVIOUS
<1>2. \/ r = a /\ w < Len(doc.paras[p])
      \/ r = b /\ p < Len(doc.paras)
      \/ r = NoPlace
  BY Zenon DEF Following, FollowingWord
<1>3. /\ a \in Nat \X Nat /\ a[1] = p /\ a[2] = w + 1
      /\ b \in Nat \X Nat /\ b[1] = p + 1 /\ b[2] = 1
      /\ NoPlace \in Nat \X Nat
  BY <1>1 DEF NoPlace
<1>4. ASSUME doc.paras \in Seq(FullParagraph), IsPlace(q), r # NoPlace PROVE IsPlace(r)
  <2> DEFINE ps == doc.paras
  <2>1. /\ Len(ps) \in Nat /\ p \in 1 .. Len(ps) /\ w \in 1 .. Len(ps[p])
        /\ \A i \in 1 .. Len(ps) : Len(ps[i]) \in Nat \ {0}
    <3>1. Len(ps) \in Nat /\ \A i \in 1 .. Len(ps) : ps[i] \in FullParagraph
      BY <1>4, LenProperties, ElementOfSeq
    <3>2. p \in 1 .. Len(ps) /\ w \in 1 .. Len(ps[p])
      BY <1>4 DEF IsPlace
    <3> QED BY <3>1, <3>2, FullParagraphSeq
  <2> HIDE DEF r, a, b, ps
  <2>2. CASE r = a /\ w < Len(ps[p])
    <3>1. p \in 1 .. Len(ps) /\ w + 1 \in 1 .. Len(ps[p])
      BY <1>1, <2>1, <2>2
    <3> QED BY <1>3, <2>2, <3>1 DEF IsPlace, ps
  <2>3. CASE r = b /\ p < Len(ps)
    <3>1. p + 1 \in 1 .. Len(ps)
      BY <1>1, <2>1, <2>3
    <3>2. 1 \in 1 .. Len(ps[p + 1])
      BY <2>1, <3>1
    <3> QED BY <1>3, <2>3, <3>1, <3>2 DEF IsPlace, ps
  <2> QED BY <1>2, <1>4, <2>2, <2>3 DEF ps
<1> QED BY <1>2, <1>3, <1>4

PlaceFcn(p, w) ==
  CHOOSE to : to =
    [i \in DOMAIN findtext |->
        IF i = 1 THEN <<p, w>>
        ELSE IF to[i - 1] = NoPlace THEN NoPlace
        ELSE LET next == FollowingWord(to[i - 1][1], to[i - 1][2])
             IN  IF next # NoPlace /\ Matches(doc.paras[next[1]][next[2]], i, 1) # {}
                 THEN next ELSE NoPlace]

LEMMA LastWordPlaceIs ==
  ASSUME NEW p, NEW w
  PROVE  LastWordPlace(p, w) = PlaceFcn(p, w)[Len(findtext)]
BY Zenon DEF LastWordPlace, PlaceFcn

Finds(F, q) ==
  /\ F[1] = q
  /\ \A i \in 2 .. Len(findtext) : F[i] = NextPlace(F[i - 1], i)

LEMMA PlaceStep ==
  ASSUME NEW S, findtext \in Seq(S), NonEmpty(findtext), NEW p \in Nat, NEW w \in Nat
  PROVE  Finds(PlaceFcn(p, w), <<p, w>>)
<1> DEFINE n == Len(findtext)
           V == Nat \X Nat
           c == <<p, w>>
           G == [x \in (1 + 1 .. n) \X V |-> NextPlace(x[2], x[1])]
           f == Words!Solution(1, n, c, G)
           F == PlaceFcn(p, w)
           Eq(to) == to =
             [i \in DOMAIN findtext |->
                IF i = 1 THEN <<p, w>>
                ELSE IF to[i - 1] = NoPlace THEN NoPlace
                ELSE LET next == FollowingWord(to[i - 1][1], to[i - 1][2])
                     IN  IF next # NoPlace /\ Matches(doc.paras[next[1]][next[2]], i, 1) # {}
                         THEN next ELSE NoPlace]
           Eq2(to) == to = [i \in 1 .. n |-> IF i = 1 THEN c ELSE NextPlace(to[i - 1], i)]
<1>1. n \in Nat /\ n >= 1 /\ 1 \in Nat /\ DOMAIN findtext = 1 .. n /\ c \in V
  BY EmptySeq, LenProperties DEF NonEmpty
<1>2. \A q \in V : \A i : NextPlace(q, i) \in V
  <2> SUFFICES ASSUME NEW q \in V, NEW i PROVE NextPlace(q, i) \in V
    OBVIOUS
  <2>1. Following(q) \in V /\ NoPlace \in V
    BY FollowingIs DEF NoPlace
  <2> QED BY <2>1 DEF NextPlace
<1> HIDE DEF V
<1>3. G \in [(1 + 1 .. n) \X V -> V]
  <2>1. \A x \in (1 + 1 .. n) \X V : NextPlace(x[2], x[1]) \in V
    BY <1>2
  <2> QED BY <2>1
<1>4. Words!IsRun(f, 1, n, V, c, G)
  <2> HIDE DEF G, n, f, c
  <2> QED BY <1>1, <1>3, SameWords, Words!Recursion DEF f
<1> HIDE DEF f, n, c
<1>5. /\ f \in [1 .. n -> V] /\ f[1] = c
      /\ \A i \in 1 + 1 .. n : f[i] = G[<<i, f[i - 1]>>]
  <2> HIDE DEF G
  <2> QED BY <1>4 DEF Words!IsRun
<1>6. ASSUME NEW i \in 2 .. n PROVE f[i] = NextPlace(f[i - 1], i)
  <2>1. i \in 1 + 1 .. n /\ f[i - 1] \in V
    BY <1>1, <1>5
  <2>2. <<i, f[i - 1]>> \in (1 + 1 .. n) \X V /\ f[i] = G[<<i, f[i - 1]>>]
    <3> HIDE DEF G
    <3> QED BY <1>5, <2>1
  <2> QED BY <2>2
<1>7. \A v : Eq(v) <=> Eq2(v)
  BY <1>1, Zenon DEF NextPlace, Following, PlaceWord, c
<1>8. Eq2(f)
  <2>1. \A i \in 1 .. n : f[i] = IF i = 1 THEN c ELSE NextPlace(f[i - 1], i)
    <3>1. \A i \in 1 .. n : i # 1 => i \in 2 .. n
      BY <1>1
    <3> QED BY <1>5, <1>6, <3>1
  <2>2. f = [i \in 1 .. n |-> f[i]]
    BY <1>5
  <2> QED BY <2>1, <2>2
<1>9. Eq2(F)
  <2> HIDE DEF Eq, Eq2
  <2>1. F = CHOOSE v : Eq(v)
    BY Zenon DEF PlaceFcn, Eq
  <2>2. Eq(f)
    BY <1>7, <1>8
  <2>3. Eq(F)
    BY <2>1, <2>2
  <2> QED BY <1>7, <2>3
<1> HIDE DEF F
<1>10. \A i \in 1 .. n : F[i] = IF i = 1 THEN c ELSE NextPlace(F[i - 1], i)
  BY <1>9, Zenon
<1>11. 1 \in 1 .. n /\ \A i \in 2 .. n : i \in 1 .. n /\ i # 1
  BY <1>1
<1> QED BY <1>10, <1>11 DEF Finds, F, n, c

(* The words of the text, from q on, are in successive words.               *)
Chain(F, q) ==
  /\ F[1] = q /\ \A i \in 1 .. Len(findtext) : IsPlace(F[i])
  /\ \A i \in 2 .. Len(findtext) :
       F[i] = Following(F[i - 1]) /\ F[i] # NoPlace /\ Matches(PlaceWord(F[i]), i, 1) # {}

LEMMA ChainFound ==
  ASSUME NEW S, findtext \in Seq(S), NonEmpty(findtext), doc.paras \in Seq(FullParagraph),
         NEW p, NEW w, IsPlace(<<p, w>>), LastWordPlace(p, w) # NoPlace
  PROVE  Chain(PlaceFcn(p, w), <<p, w>>)
<1> DEFINE n == Len(findtext)
           F == PlaceFcn(p, w)
           c == <<p, w>>
<1>1. n \in Nat /\ n >= 1
  BY EmptySeq, LenProperties DEF NonEmpty
<1>2. p \in Nat /\ w \in Nat
  BY DEF IsPlace
<1>3. Finds(F, c) /\ F[n] # NoPlace
  BY <1>2, PlaceStep, LastWordPlaceIs
<1> HIDE DEF F, c
<1>4. F[1] = c /\ \A i \in 2 .. n : F[i] = NextPlace(F[i - 1], i)
  BY <1>3 DEF Finds
<1> HIDE DEF n
<1>5. \A i \in 1 .. n : F[i] # NoPlace
  <2> DEFINE W == {k \in 0 .. n - 1 : F[n - k] # NoPlace}
  <2>1. 0 \in W
    BY <1>1, <1>3
  <2>2. ASSUME NEW k \in 0 .. (n - 1) - 1, k \in W PROVE k + 1 \in W
    <3>1. n - k \in 2 .. n /\ (n - k) - 1 = n - (k + 1) /\ k + 1 \in 0 .. n - 1
      BY <1>1
    <3>2. F[n - k] = NextPlace(F[n - (k + 1)], n - k)
      BY <1>4, <3>1
    <3>3. F[n - (k + 1)] # NoPlace
      BY <2>2, <3>2 DEF NextPlace
    <3> QED BY <3>1, <3>3
  <2>3. \A k \in 0 .. n - 1 : k \in W
    <3>1. n - 1 \in Nat
      BY <1>1
    <3> HIDE DEF W
    <3> QED BY <2>1, <2>2, <3>1, SameWords, Words!Induction
  <2>4. \A i \in 1 .. n : n - i \in 0 .. n - 1 /\ n - (n - i) = i
    BY <1>1
  <2> QED BY <2>3, <2>4
<1>6. \A i \in 2 .. n : F[i] = Following(F[i - 1]) /\ Matches(PlaceWord(F[i]), i, 1) # {}
  <2>1. \A i \in 2 .. n : i \in 1 .. n
    BY <1>1
  <2> QED BY <1>4, <1>5, <2>1 DEF NextPlace
<1>7. \A i \in 1 .. n : IsPlace(F[i])
  <2> DEFINE W == {k \in 0 .. n - 1 : IsPlace(F[k + 1])}
  <2>1. 0 \in W
    BY <1>1, <1>4 DEF c
  <2>2. ASSUME NEW k \in 0 .. (n - 1) - 1, k \in W PROVE k + 1 \in W
    <3>1. k + 1 + 1 \in 2 .. n /\ (k + 1 + 1) - 1 = k + 1 /\ k + 1 \in 0 .. n - 1 /\ k + 1 + 1 \in 1 .. n
      BY <1>1
    <3>2. F[k + 1 + 1] = Following(F[k + 1]) /\ F[k + 1 + 1] # NoPlace
      BY <1>5, <1>6, <3>1
    <3>3. IsPlace(F[k + 1]) /\ F[k + 1] \in Nat \X Nat
      BY <2>2 DEF IsPlace
    <3>4. IsPlace(F[k + 1 + 1])
      BY <3>2, <3>3, FollowingIs
    <3> QED BY <3>1, <3>4
  <2>3. \A k \in 0 .. n - 1 : k \in W
    <3>1. n - 1 \in Nat
      BY <1>1
    <3> HIDE DEF W
    <3> QED BY <2>1, <2>2, <3>1, SameWords, Words!Induction
  <2>4. \A i \in 1 .. n : i - 1 \in 0 .. n - 1 /\ (i - 1) + 1 = i
    BY <1>1
  <2> QED BY <2>3, <2>4
<1> QED BY <1>4, <1>5, <1>6, <1>7, <1>1 DEF Chain, F, n, c

-----------------------------------------------------------------------------
(* The text that a pattern matches.                                         *)

CharsIn(word, s, e) == {o \in s .. e : ~IsCode(word[o])}

(* t is the text between the offsets s and e + 1. *)
IsRange(word, s, e, t) ==
  /\ t \in Seq(Char) /\ TextTo(word, e + 1) = TextTo(word, s) \o t
  /\ Len(t) = Cardinality(CharsIn(word, s, e))
  /\ \A j \in 1 .. Len(t) : \E o \in CharsIn(word, s, e) :
       Cardinality(CharsIn(word, s, o)) = j /\ word[o] = t[j]

LEMMA CharsTo ==
  ASSUME NEW word \in Word, NEW o \in 1 .. Len(word) + 1
  PROVE  TextTo(word, o) \in Seq(Char) /\ TextFrom(word, o) \in Seq(Char)
<1>1. o \in Words!Offsets(word)
  BY SameOperations
<1>2. Words!TextTo(word, o) \in Seq(Char) /\ Words!TextFrom(word, o) \in Seq(Char)
  BY <1>1, SameWords, Words!TextAround
<1>3. Words!TextTo(word, o) = TextTo(word, o)
  BY SameText DEF TextTo
<1> QED BY <1>2, <1>3 DEF TextFrom

LEMMA CharsInFinite ==
  ASSUME NEW word, NEW s \in Int, NEW e \in Int
  PROVE  IsFiniteSet(CharsIn(word, s, e)) /\ Cardinality(CharsIn(word, s, e)) \in Nat
<1>1. IsFiniteSet(s .. e)
  BY FS_Interval
<1>2. CharsIn(word, s, e) \in SUBSET (s .. e)
  BY DEF CharsIn
<1> QED BY <1>1, <1>2, FS_Subset, FS_CardinalityType

LEMMA CharsInOn ==
  ASSUME NEW word, NEW s \in Nat, NEW e \in Nat, e >= s
  PROVE  LET c == CharsIn(word, s, e)
             b == CharsIn(word, s, e - 1)
         IN  IF IsCode(word[e]) THEN c = b ELSE e \in c /\ b \subseteq c /\ Cardinality(c) = Cardinality(b) + 1
<1> DEFINE c == CharsIn(word, s, e)
           b == CharsIn(word, s, e - 1)
<1>1. \A o : o \in s .. e <=> o \in s .. e - 1 \/ o = e
  OBVIOUS
<1>2. e \notin s .. e - 1
  OBVIOUS
<1>3. CASE IsCode(word[e])
  BY <1>1, <1>2, <1>3 DEF CharsIn
<1>4. CASE ~IsCode(word[e])
  <2>1. c = b \cup {e} /\ e \notin b
    BY <1>1, <1>2, <1>4 DEF CharsIn
  <2>2. IsFiniteSet(b) /\ Cardinality(b) \in Nat
    BY CharsInFinite
  <2> HIDE DEF c, b
  <2>3. Cardinality(c) = Cardinality(b) + 1
    BY <2>1, <2>2, FS_AddElement
  <2> QED BY <1>4, <2>1, <2>3 DEF c, b
<1> QED BY <1>3, <1>4

LEMMA RangeOn ==
  ASSUME NEW word \in Word, NEW s \in 1 .. Len(word) + 1, NEW e \in s .. Len(word),
         NEW t, IsRange(word, s, e - 1, t)
  PROVE  \E u : IsRange(word, s, e, u)
<1> DEFINE x == word[e]
           c == CharsIn(word, s, e)
           b == CharsIn(word, s, e - 1)
           a == TextTo(word, s)
<1>1. /\ e \in 1 .. Len(word) /\ e \in Nat /\ s \in Nat /\ e >= s /\ (e - 1) + 1 = e
      /\ s \in 1 .. Len(word) + 1 /\ e \in 1 .. Len(word) + 1 /\ Len(word) \in Nat
  BY WordIs
<1>2. /\ t \in Seq(Char) /\ TextTo(word, e) = a \o t /\ Len(t) = Cardinality(b)
      /\ \A j \in 1 .. Len(t) : \E o \in b : Cardinality(CharsIn(word, s, o)) = j /\ word[o] = t[j]
  BY <1>1 DEF IsRange
<1>3. TextTo(word, e + 1) = IF IsCode(x) THEN TextTo(word, e) ELSE Append(TextTo(word, e), x)
  <2>1. Words!TextTo(word, e + 1) =
          IF Words!IsCode(x) THEN Words!TextTo(word, e) ELSE Append(Words!TextTo(word, e), x)
    BY <1>1, SameWords, Words!TextOn
  <2>2. \A o : Words!TextTo(word, o) = TextTo(word, o)
    BY SameText DEF TextTo
  <2> QED BY <2>1, <2>2 DEF IsCode, Words!IsCode
<1>4. IF IsCode(x) THEN c = b ELSE e \in c /\ b \subseteq c /\ Cardinality(c) = Cardinality(b) + 1
  BY <1>1, CharsInOn
<1>5. a \in Seq(Char)
  BY <1>1, CharsTo
<1>6. x \in Char \/ IsCode(x)
  BY DEF IsCode
<1> HIDE DEF x, a, c, b
<1>7. CASE IsCode(x)
  <2>1. IsRange(word, s, e, t)
    BY <1>2, <1>3, <1>4, <1>7 DEF IsRange, c, a
  <2> QED BY <2>1
<1>8. CASE ~IsCode(x)
  <2> DEFINE h == <<x>>
             u == t \o h
             n == Len(t)
  <2>1. h \in Seq(Char) /\ Len(h) = 1 /\ h[1] = x /\ x \in Char
    BY <1>6, <1>8, OneElement
  <2>2. Append(a \o t, x) = (a \o t) \o h
    <3>1. a \o t \in Seq(Char)
      BY <1>2, <1>5, ConcatProperties
    <3> QED BY <2>1, <3>1, Words!AppendIsConcat
  <2> HIDE DEF h
  <2>3. Groups(a, t, h)
    BY <1>2, <1>5, <2>1, GroupsOf
  <2>4. /\ u \in Seq(Char) /\ Len(u) = n + 1 /\ n \in Nat
        /\ \A i \in 1 .. n : u[i] = t[i]
        /\ u[n + 1] = x
    <3>1. /\ u \in Seq(Char) /\ Len(u) = Len(t) + Len(h) /\ Len(t) \in Nat
          /\ \A i \in 1 .. Len(t) : u[i] = t[i]
          /\ \A i \in 1 .. Len(h) : u[Len(t) + i] = h[i]
      <4>1. IsSeq(t) /\ IsSeq(h)
        BY <1>2, <2>1 DEF IsSeq
      <4>2. u \in Seq(Char)
        BY <1>2, <2>1, ConcatProperties
      <4>3. Len(t \o h) = Len(t) + Len(h)
        BY <4>1, SeqConcat
      <4>4. \A i \in 1 .. Len(t) : (t \o h)[i] = t[i]
        BY <4>1, SeqConcat
      <4>5. \A i \in 1 .. Len(h) : (t \o h)[Len(t) + i] = h[i]
        BY <4>1, SeqConcat
      <4>6. Len(t) \in Nat
        BY <1>2, LenProperties
      <4> QED BY <4>2, <4>3, <4>4, <4>5, <4>6
    <3> HIDE DEF u
    <3> QED BY <2>1, <3>1
  <2>5. TextTo(word, e + 1) = a \o u
    BY <1>2, <1>3, <1>8, <2>2, <2>3 DEF Groups
  <2> HIDE DEF u, n
  <2>6. ASSUME NEW j \in 1 .. n + 1
        PROVE  \E o \in c : Cardinality(CharsIn(word, s, o)) = j /\ word[o] = u[j]
    <3>1. CASE j = n + 1
      <4>1. Cardinality(CharsIn(word, s, e)) = j /\ word[e] = u[j] /\ e \in c
        BY <1>2, <1>4, <1>8, <2>4, <3>1 DEF x, c, n
      <4> QED BY <4>1
    <3>2. CASE j # n + 1
      <4>1. j \in 1 .. n
        BY <2>4, <3>2
      <4> QED BY <1>2, <1>4, <1>8, <2>4, <4>1 DEF n
    <3> QED BY <3>1, <3>2
  <2>7. IsRange(word, s, e, u)
    BY <1>2, <1>4, <1>8, <2>4, <2>5, <2>6 DEF IsRange, a, c, n
  <2> QED BY <2>7
<1> QED BY <1>7, <1>8

LEMMA RangeIs ==
  ASSUME NEW word \in Word, NEW s \in 1 .. Len(word) + 1, NEW e \in s - 1 .. Len(word)
  PROVE  \E t : IsRange(word, s, e, t)
<1> DEFINE m == Len(word) - s + 1
           W == {k \in 0 .. m : \E t : IsRange(word, s, s - 1 + k, t)}
<1>1. m \in Nat /\ s \in Nat /\ s >= 1 /\ Len(word) \in Nat
  BY WordIs
<1>2. 0 \in W
  <2>1. s - 1 + 0 = s - 1 /\ (s - 1) + 1 = s
    BY <1>1
  <2>2. CharsIn(word, s, s - 1) = {}
    BY <1>1 DEF CharsIn
  <2>3. Cardinality({}) = 0
    BY FS_EmptySet
  <2>4. TextTo(word, s) \in Seq(Char)
    BY CharsTo
  <2>5. TextTo(word, s) \o <<>> = TextTo(word, s) /\ <<>> \in Seq(Char) /\ Len(<<>>) = 0
    BY <2>4, EmptyAround
  <2> DEFINE none == <<>>
  <2>6. IsRange(word, s, s - 1, none)
    <3>1. TextTo(word, (s - 1) + 1) = TextTo(word, s) \o none
      BY <2>1, <2>5
    <3>2. Len(none) = Cardinality(CharsIn(word, s, s - 1)) /\ none \in Seq(Char) /\ Len(none) = 0
      BY <2>2, <2>3, <2>5
    <3> HIDE DEF none
    <3>3. \A j \in 1 .. Len(none) : FALSE
      BY <3>2
    <3> QED BY <3>1, <3>2, <3>3 DEF IsRange
  <2> HIDE DEF none
  <2> QED BY <1>1, <2>1, <2>6
<1>3. ASSUME NEW k \in 0 .. m - 1, k \in W PROVE k + 1 \in W
  <2>1. /\ s - 1 + (k + 1) \in s .. Len(word) /\ k + 1 \in 0 .. m
        /\ (s - 1 + (k + 1)) - 1 = s - 1 + k
    BY <1>1
  <2>2. PICK t : IsRange(word, s, (s - 1 + (k + 1)) - 1, t)
    BY <1>3, <2>1
  <2>3. \E u : IsRange(word, s, s - 1 + (k + 1), u)
    BY <2>1, <2>2, RangeOn
  <2> QED BY <2>1, <2>3
<1>4. e - (s - 1) \in 0 .. m /\ s - 1 + (e - (s - 1)) = e
  BY <1>1
<1>5. \A k \in 0 .. m : k \in W
  <2> HIDE DEF W, m
  <2> QED BY <1>1, <1>2, <1>3, SameWords, Words!Induction
<1>6. \E t : IsRange(word, s, s - 1 + (e - (s - 1)), t)
  BY <1>4, <1>5
<1> QED BY <1>4, <1>6

LEMMA NoTextLeft ==
  ASSUME NEW word \in Word, NEW o \in 1 .. Len(word) + 1, \A i \in o .. Len(word) : IsCode(word[i])
  PROVE  TextFrom(word, o) = <<>>
<1> DEFINE n == Len(word)
<1>1. n \in Nat /\ n \in o - 1 .. n
  BY WordIs
<1>2. PICK t : IsRange(word, o, n, t)
  BY <1>1, RangeIs
<1>3. CharsIn(word, o, n) = {}
  BY DEF CharsIn
<1>4. t \in Seq(Char) /\ Len(t) = 0 /\ TextTo(word, n + 1) = TextTo(word, o) \o t
  BY <1>2, <1>3, FS_EmptySet DEF IsRange
<1>5. t = <<>>
  BY <1>4, EmptySeq
<1>6. GetWordText(word) = TextTo(word, o) \o t
  BY <1>4, TextSplits
<1>7. GetWordText(word) = TextTo(word, o) \o TextFrom(word, o)
  BY TextSplits
<1>8. TextTo(word, o) \in Seq(Char) /\ TextFrom(word, o) \in Seq(Char)
  BY CharsTo
<1>9. TextFrom(word, o) = t
  BY <1>4, <1>6, <1>7, <1>8, Cancel
<1> QED BY <1>5, <1>9

(* What a pattern matches is its text. *)
LEMMA MatchText ==
  ASSUME NEW word \in Word, NEW w \in Seq(Char), NEW s \in 1 .. Len(word), LastOffset(word, w, s) # 0
  PROVE  LET e == LastOffset(word, w, s)
         IN  /\ e \in s .. Len(word)
             /\ TextTo(word, e + 1) = TextTo(word, s) \o w
<1> DEFINE e == LastOffset(word, w, s)
           ends == {k \in s .. Len(word) :
                      /\ word[k] = w[Len(w)] /\ Cardinality(CharsIn(word, s, k)) = Len(w)
                      /\ \A o \in CharsIn(word, s, k) : word[o] = w[Cardinality(CharsIn(word, s, o))]}
<1>1. e \in ends
  <2>1. e = IF word[s] # w[1] \/ ends = {} THEN 0 ELSE CHOOSE k \in ends : TRUE
    BY Zenon DEF LastOffset, CharsIn
  <2> HIDE DEF ends
  <2> QED BY <2>1
<1> HIDE DEF e
<1>2. /\ e \in s .. Len(word) /\ Cardinality(CharsIn(word, s, e)) = Len(w)
      /\ \A o \in CharsIn(word, s, e) : word[o] = w[Cardinality(CharsIn(word, s, o))]
  BY <1>1
<1>3. s \in 1 .. Len(word) + 1 /\ e \in s - 1 .. Len(word)
  BY <1>2, WordIs
<1>4. PICK t : IsRange(word, s, e, t)
  BY <1>3, RangeIs
<1>5. t \in Seq(Char) /\ Len(t) = Len(w) /\ TextTo(word, e + 1) = TextTo(word, s) \o t
  BY <1>2, <1>4 DEF IsRange
<1>6. \A j \in 1 .. Len(t) : t[j] = w[j]
  BY <1>2, <1>4 DEF IsRange
<1>7. t = w
  BY <1>5, <1>6, SeqEqual
<1> QED BY <1>2, <1>5, <1>7 DEF e

LEMMA MinIs ==
  ASSUME NEW S \in SUBSET Nat, S # {}
  PROVE  Min(S) \in S /\ \A y \in S : Min(S) <= y
<1>1. \E x \in S : \A y \in S : x <= y
  BY SameWords, Words!NatMin
<1> QED BY <1>1 DEF Min

Looked == findtext \in Seq(Seq(Char) \ {<<>>}) /\ NonEmpty(findtext)

LEMMA LookedIs ==
  ASSUME Looked
  PROVE  /\ Len(findtext) \in Nat \ {0}
         /\ \A i \in 1 .. Len(findtext) : findtext[i] \in Seq(Char) /\ NonEmpty(findtext[i])
<1>1. findtext \in Seq(Seq(Char) \ {<<>>}) /\ findtext # <<>>
  BY DEF Looked, NonEmpty
<1>2. Len(findtext) \in Nat \ {0}
  BY <1>1, EmptySeq, LenProperties
<1>3. \A i \in 1 .. Len(findtext) : findtext[i] \in Seq(Char) \ {<<>>}
  BY <1>1, ElementOfSeq
<1> QED BY <1>2, <1>3 DEF NonEmpty

(* The i-th word of the text is in a word between two offsets. *)
IsMatch(word, i, s, o) ==
  /\ s \in 1 .. Len(word) /\ o \in s + 1 .. Len(word) + 1
  /\ TextTo(word, o) = TextTo(word, s) \o findtext[i]
  /\ i < Len(findtext) => TextFrom(word, o) = <<>>

LEMMA Matched ==
  ASSUME Looked, NEW word \in Word, NEW i \in 1 .. Len(findtext), NEW co \in Nat \ {0},
         Matches(word, i, co) # {}
  PROVE  /\ IsMatch(word, i, Min(Matches(word, i, co)), MatchEnd(word, i, co))
         /\ Min(Matches(word, i, co)) >= co
<1> DEFINE M == Matches(word, i, co)
           s == Min(M)
           w == findtext[i]
           e == LastOffset(word, w, s)
<1>1. M \in SUBSET Nat /\ M # {} /\ \A x \in M : x \in co .. Len(word) /\ MatchAt(word, i, x)
  BY DEF Matches
<1> HIDE DEF M
<1>2. s \in co .. Len(word) /\ MatchAt(word, i, s)
  BY <1>1, MinIs
<1>3. w \in Seq(Char) /\ Len(findtext) \in Nat
  BY LookedIs
<1>4. MatchEnd(word, i, co) = e + 1
  BY Zenon DEF MatchEnd, M
<1> HIDE DEF s
<1>5. Len(word) \in Nat /\ s \in 1 .. Len(word) /\ s >= co
  BY <1>2, WordIs
<1>6. e # 0 /\ (i < Len(findtext) => \A o \in e + 1 .. Len(word) : IsCode(word[o]))
  BY <1>2, Zenon DEF MatchAt
<1> HIDE DEF w
<1>7. e \in s .. Len(word) /\ TextTo(word, e + 1) = TextTo(word, s) \o w
  BY <1>3, <1>5, <1>6, MatchText
<1> HIDE DEF e
<1>8. e + 1 \in 1 .. Len(word) + 1 /\ e + 1 \in s + 1 .. Len(word) + 1
  BY <1>5, <1>7
<1>9. i < Len(findtext) => TextFrom(word, e + 1) = <<>>
  BY <1>6, <1>8, NoTextLeft
<1> QED BY <1>4, <1>5, <1>7, <1>8, <1>9 DEF IsMatch, w, s, M

LEMMA PlaceWordIs ==
  ASSUME doc.paras \in Seq(FullParagraph), NEW q, IsPlace(q)
  PROVE  /\ PlaceWord(q) \in Word
         /\ \A o : o \in Nat \ {0} => WordAt(doc.paras, <<q[1], q[2], o>>)
<1>1. doc.paras[q[1]] \in FullParagraph
  BY ElementOfSeq DEF IsPlace
<1>2. doc.paras[q[1]] \in Seq(Word) /\ q[2] \in 1 .. Len(doc.paras[q[1]]) /\ q[1] \in 1 .. Len(doc.paras)
  BY <1>1, FullParagraphSeq DEF IsPlace
<1>3. PlaceWord(q) \in Word
  BY <1>2, ElementOfSeq DEF PlaceWord
<1> QED BY <1>2, <1>3 DEF WordAt

(* What a search selects: d has the words of the text in successive words,  *)
(* the first from the mark on and the last up to the cursor.                *)
SelectsText(d, F, s, o) ==
  LET n == Len(findtext)
  IN  /\ Chain(F, F[1])
      /\ IsMatch(PlaceWord(F[1]), 1, d.mark[3], o)
      /\ d.mark[1] = F[1][1] /\ d.mark[2] = F[1][2]
      /\ d.cp = F[n][1] /\ d.cw = F[n][2]
      /\ IsMatch(PlaceWord(F[n]), n, s, d.co)
      /\ n = 1 => s = d.mark[3] /\ o = d.co

LEMMA SelectionIs ==
  ASSUME Good(doc), Looked, WordAt(doc.paras, at), Found
  PROVE  /\ Held(Selection) /\ Selection.paras = doc.paras
         /\ \E F, s, o : SelectsText(Selection, F, s, o)
<1> DEFINE n == Len(findtext)
           p == at[1]
           w == at[2]
           q == <<p, w>>
           F == PlaceFcn(p, w)
           last == LastWordPlace(p, w)
           word == PlaceWord(last)
           co == IF n = 1 THEN at[3] ELSE 1
           o == MatchEnd(word, n, co)
           s == Min(Matches(SearchedWord, 1, at[3]))
           o1 == MatchEnd(SearchedWord, 1, at[3])
           s2 == Min(Matches(word, n, co))
           m == <<p, w, s>>
           e == At(doc, last[1], last[2], o)
           r == WithMark(e, m)
<1>1. IsDoc(doc) /\ doc.paras \in Seq(FullParagraph) /\ n \in Nat \ {0} /\ findtext \in Seq(Seq(Char) \ {<<>>})
  BY FilledIs, LookedIs DEF Good, Looked
<1>2. IsPlace(q) /\ q[1] = p /\ q[2] = w /\ at[3] \in Nat \ {0}
  <2>1. p \in 1 .. Len(doc.paras) /\ w \in 1 .. Len(doc.paras[p]) /\ at[3] \in Nat \ {0}
    BY DEF WordAt
  <2>2. p \in Nat /\ w \in Nat
    BY <2>1
  <2> HIDE DEF p, w
  <2> QED BY <2>1, <2>2 DEF IsPlace
<1>3. SearchedWord = PlaceWord(q)
  BY <1>2 DEF SearchedWord, PlaceWord
<1>4. Matches(SearchedWord, 1, at[3]) # {} /\ last # NoPlace
  BY DEF Found
<1>5. Selection = r
  BY Zenon DEF Selection, WithMark, PlaceWord
<1> HIDE DEF p, w, q
<1>6. Chain(F, q)
  BY <1>1, <1>2, <1>4, ChainFound DEF q, Looked
<1>7. F[1] = q /\ last = F[n] /\ \A i \in 1 .. n : IsPlace(F[i])
  BY <1>6, LastWordPlaceIs DEF Chain
<1>8. 1 \in 1 .. n /\ n \in 1 .. n /\ (n # 1 => n \in 2 .. n)
  <2>1. n \in Nat \ {0}
    BY <1>1
  <2> HIDE DEF n
  <2> QED BY <2>1
<1>9. IsPlace(last) /\ word \in Word /\ SearchedWord \in Word
  BY <1>1, <1>2, <1>3, <1>7, <1>8, PlaceWordIs
<1>10. IsMatch(SearchedWord, 1, s, o1)
  BY <1>2, <1>4, <1>8, <1>9, Matched
<1>11. Matches(word, n, co) # {} /\ co \in Nat \ {0}
  <2>1. CASE n = 1
    BY <1>2, <1>3, <1>4, <1>7, <2>1
  <2>2. CASE n # 1
    BY <1>6, <1>7, <1>8, <2>2 DEF Chain
  <2> QED BY <2>1, <2>2
<1>12. IsMatch(word, n, s2, o)
  BY <1>8, <1>9, <1>11, Matched
<1>13. n = 1 => s2 = s /\ o = o1
  BY <1>3, <1>7
<1> HIDE DEF s, o, o1, s2, word, last, co, F
<1>14. /\ IsDoc(r) /\ r.mark = m /\ r.paras = doc.paras
       /\ r.cp = last[1] /\ r.cw = last[2] /\ r.co = o
  <2>1. /\ IsDoc(e) /\ e.paras = doc.paras /\ e.cp = last[1] /\ e.cw = last[2] /\ e.co = o
    BY <1>1, AtIs
  <2> HIDE DEF e, m
  <2> QED BY <2>1, WithMarkIs
<1>15. m[1] = p /\ m[2] = w /\ m[3] = s
  OBVIOUS
<1> HIDE DEF r, m
<1>16. s \in 1 .. Len(SearchedWord) + 1 /\ o \in Nat \ {0}
  BY <1>9, <1>10, <1>12, WordIs DEF IsMatch
<1>17. Good(r)
  BY <1>9, <1>14, <1>16 DEF Good, IsPlace
<1>18. PlaceIn(r.paras, r.mark)
  <2>1. /\ p \in DOMAIN doc.paras /\ w \in DOMAIN doc.paras[p] /\ SearchedWord = doc.paras[p][w]
    <3>1. p \in 1 .. Len(doc.paras) /\ w \in 1 .. Len(doc.paras[p]) /\ SearchedWord = doc.paras[p][w]
      BY <1>2, <1>3 DEF IsPlace, PlaceWord
    <3>2. DOMAIN doc.paras = 1 .. Len(doc.paras) /\ IsSeq(doc.paras[p])
      BY <3>1, SeqIs DEF Good, Filled, Paras
    <3> QED BY <3>1, <3>2, SeqIs
  <2> QED BY <1>14, <1>15, <1>16, <2>1 DEF PlaceIn
<1>19. SelectsText(r, F, s2, o1)
  BY <1>3, <1>6, <1>7, <1>10, <1>12, <1>13, <1>14, <1>15, <1>2 DEF SelectsText, n, word
<1> QED BY <1>5, <1>14, <1>17, <1>18, <1>19 DEF Held

-----------------------------------------------------------------------------
(* The invariant of the search.                                             *)

LEMMA GoodExactly ==
  ASSUME NEW d, Good(d), Within(d)
  PROVE  \E t, u : Exactly(d, t, u)
<1> DEFINE m == Cursor(d)
<1>1. m[1] = d.cp /\ m[2] = d.cw /\ m[3] = d.co
  BY DEF Cursor
<1> HIDE DEF m
<1>2. WordAt(d.paras, m) /\ d.paras \in Seq(FullParagraph) /\ IsDoc(d)
  BY <1>1, FilledIs DEF Good, WordAt
<1>3. PICK P, A, w, B, R :
        IsZip(P, A, w, B, R) /\ d.paras = ZipOf(P, A, w, B, R) /\ At3(m, P, A, w) /\ w = d.paras[m[1]][m[2]]
  BY <1>2, LocatedIn
<1>4. d.cp = Len(P) + 1 /\ d.cw = Len(A) + 1
  BY <1>1, <1>3 DEF At3
<1>5. HasWord(d, P, A, w, B, R)
  BY <1>2, <1>3, <1>4, HasWordIf
<1>6. d.co \in 1 .. Len(w) + 1
  BY <1>1, <1>3 DEF Within, CurrentWord, Paragraph
<1> QED BY <1>5, <1>6 DEF Exactly

LEMMA ReplacedGood ==
  ASSUME NEW d, Good(d), WordAt(d.paras, d.mark),
         replacetext \in Seq(Seq(Char)), NonEmpty(replacetext), NEW hint \in Style
  PROVE  Held(Replaced(d, hint))
<1> DEFINE f == UnsetMark(Delete(d))
           r == TypedFcn(f, replacetext, hint)[Len(replacetext)]
<1>1. Good(Delete(d)) /\ Within(Delete(d))
  BY DeleteGood
<1>2. Good(f) /\ Within(f) /\ ~Marked(f)
  BY <1>1, UnsetMarkGood
<1>3. Replaced(d, hint) = r
  BY Zenon DEF Replaced, Inserted, TypedFcn
<1> HIDE DEF f
<1>4. PICK t, u : Exactly(f, t, u)
  BY <1>2, GoodExactly
<1>5. Exactly(r, t \o Joined(replacetext, SP), u) /\ ~Marked(r)
  BY <1>2, <1>4, TypedWords
<1> HIDE DEF r
<1>6. PICK P, A, w, B, R : HasWord(r, P, A, w, B, R) /\ r.co \in 1 .. Len(w) + 1
  BY <1>5 DEF Exactly
<1>7. Good(r)
  BY <1>6, ZipGood
<1> QED BY <1>3, <1>5, <1>7 DEF Held, Loose

CursorAt(d, q) == q[1] = d.cp /\ q[2] = d.cw /\ q[3] = d.co

LEMMA SearchedFrom ==
  ASSUME NEW d, Good(d)
  PROVE  WordAt(d.paras, Cursor(d))
<1>1. CursorAt(d, Cursor(d))
  BY DEF CursorAt, Cursor
<1> QED BY <1>1 DEF CursorAt, WordAt, Good

Typed == replacetext \in Seq(Seq(Char)) /\ NonEmpty(replacetext)

(* The cursor is at a word, and a search at one, for words with characters. *)
SearchInv ==
  /\ WordInv
  /\ findtext # <<>> => Looked
  /\ (findtext # <<>> \/ replacetext # <<>>) => Typed
  /\ at # <<>> => findtext # <<>> /\ WordAt(doc.paras, at)

LEMMA AdvancedIs ==
  ASSUME Good(doc), WordAt(doc.paras, at)
  PROVE  WordAt(doc.paras, Advanced)
<1> DEFINE p == at[1]
           w == at[2]
           q == <<p, w>>
           next == FollowingWord(p, w)
           a == <<1, 1, 1>>
           b == <<next[1], next[2], 1>>
<1>1. doc.paras \in Seq(FullParagraph)
  BY FilledIs DEF Good
<1>2. IsPlace(q) /\ q[1] = p /\ q[2] = w
  <2>1. p \in 1 .. Len(doc.paras) /\ w \in 1 .. Len(doc.paras[p])
    BY DEF WordAt
  <2>2. p \in Nat /\ w \in Nat
    BY <2>1
  <2> HIDE DEF p, w
  <2> QED BY <2>1, <2>2 DEF IsPlace
<1>3. Advanced = IF next = NoPlace THEN a ELSE b
  BY Zenon DEF Advanced
<1>4. next = Following(q)
  BY DEF Following
<1> HIDE DEF next, q
<1>5. q \in Nat \X Nat
  BY <1>2 DEF IsPlace
<1>6. next # NoPlace => IsPlace(next)
  BY <1>1, <1>2, <1>4, <1>5, FollowingIs
<1>7. 1 \in Nat \ {0} /\ (next # NoPlace => WordAt(doc.paras, b))
  BY <1>1, <1>6, PlaceWordIs
<1>8. WordAt(doc.paras, a)
  <2>1. Len(doc.paras) \in Nat /\ Len(doc.paras) >= 1 /\ 1 \in 1 .. Len(doc.paras)
    BY GoodIs
  <2>2. doc.paras[1] \in FullParagraph
    BY <1>1, <2>1, ElementOfSeq
  <2>3. Len(doc.paras[1]) \in Nat \ {0} /\ 1 \in 1 .. Len(doc.paras[1])
    BY <2>2, FullParagraphSeq
  <2>4. a[1] = 1 /\ a[2] = 1 /\ a[3] = 1
    OBVIOUS
  <2> HIDE DEF a
  <2> QED BY <2>1, <2>3, <2>4 DEF WordAt
<1> QED BY <1>3, <1>7, <1>8

LEMMA SearchBegins ==
  ASSUME SearchInit
  PROVE  SearchInv
<1> DEFINE m == <<>>
           off == FALSE
<1>1. PICK ps \in Documents : doc = Document(ps, 1, 1, 1, m, off)
  <2>1. \E ps \in Documents :
          doc = [paras |-> ps, cp |-> 1, cw |-> 1, co |-> 1, mark |-> <<>>, sticky |-> FALSE]
    BY Zenon DEF SearchInit
  <2> QED BY <2>1, Zenon DEF Document
<1> HIDE DEF m, off
<1>2. /\ IsDoc(doc) /\ doc.paras = ps /\ doc.cp = 1 /\ doc.cw = 1 /\ doc.co = 1 /\ doc.mark = m
  BY <1>1, DocumentFields
<1>3. ps # <<>> /\ ps \in Seq(FullParagraph)
  <2>1. ps \in Seq(Seq(Word) \ {<<>>}) \ {<<>>}
    BY SearchAssumption
  <2> QED BY <2>1 DEF FullParagraph
<1>4. Len(ps) \in Nat \ {0} /\ 1 \in 1 .. Len(ps)
  BY <1>3, EmptySeq, LenProperties
<1>5. ps[1] \in FullParagraph
  BY <1>3, <1>4, ElementOfSeq
<1>6. Len(ps[1]) \in Nat \ {0} /\ 1 \in 1 .. Len(ps[1])
  BY <1>5, FullParagraphSeq
<1>7. Good(doc)
  BY <1>2, <1>3, <1>4, <1>6, FilledIs DEF Good
<1>8. Filled(clip)
  <2>1. clip = <<>>
    BY DEF SearchInit
  <2>2. IsSeq(<<>>) /\ Len(<<>>) = 0
    BY SeqLiterals
  <2> QED BY <2>1, <2>2 DEF Filled, Paras
<1>9. Held(doc)
  <2> USE DEF m
  <2> QED BY <1>2, <1>7 DEF Held, Loose, Marked, NoMark
<1> QED BY <1>8, <1>9 DEF SearchInv, WordInv, SearchInit

LEMMA SearchKeeps ==
  ASSUME SearchInv, [SearchNext]_searchvars
  PROVE  SearchInv'
<1>1. Held(doc) /\ Good(doc) /\ Filled(clip) /\ WordInv
  BY DEF SearchInv, WordInv, Held
<1>2. /\ findtext # <<>> => Looked
      /\ (findtext # <<>> \/ replacetext # <<>>) => Typed
      /\ at # <<>> => findtext # <<>> /\ WordAt(doc.paras, at)
  BY DEF SearchInv
<1>3. WordAt(doc.paras, Cursor(doc))
  BY <1>1, SearchedFrom
<1>4. ASSUME NEW t \in Texts, NEW r \in Replacements, Find(t, r) PROVE SearchInv'
  <2>1. doc' = doc /\ clip' = clip /\ findtext' = t /\ replacetext' = r /\ at' = Cursor(doc)
    BY <1>4 DEF Find, Search, vars
  <2>2. t \in Seq(Seq(Char) \ {<<>>}) \ {<<>>} /\ r \in Seq(Seq(Char)) \ {<<>>}
    BY SearchAssumption
  <2>3. WordInv'
    BY <1>1, <2>1 DEF WordInv
  <2>4. Looked' /\ Typed'
    BY <2>1, <2>2 DEF Looked, Typed, NonEmpty
  <2>5. WordAt(doc.paras, at)' /\ (findtext # <<>>)'
    BY <1>3, <2>1, <2>2
  <2> QED BY <2>3, <2>4, <2>5 DEF SearchInv
<1>5. CASE FindNext
  <2>1. /\ doc' = doc /\ clip' = clip /\ findtext' = findtext /\ replacetext' = replacetext
        /\ at' = Cursor(doc) /\ findtext # <<>>
    BY <1>5 DEF FindNext, Search, vars
  <2>2. WordInv' /\ (Looked <=> Looked') /\ (Typed <=> Typed')
    BY <1>1, <2>1 DEF WordInv, Looked, Typed
  <2>3. WordAt(doc.paras, at)'
    BY <1>3, <2>1
  <2> QED BY <1>2, <2>1, <2>2, <2>3 DEF SearchInv
<1>6. CASE ReplaceThenFind
  <2>1. PICK hint \in Style :
          LET d == IF Marked(doc) THEN Replaced(doc, hint) ELSE doc
          IN  doc' = d /\ Search(d)
    BY <1>6 DEF ReplaceThenFind
  <2>2. /\ clip' = clip /\ findtext' = findtext /\ replacetext' = replacetext
        /\ findtext # <<>> /\ MarkInDocument(doc)
    BY <1>6 DEF ReplaceThenFind
  <2>3. doc' = (IF Marked(doc) THEN Replaced(doc, hint) ELSE doc) /\ at' = Cursor(doc')
    BY <2>1 DEF Search
  <2>4. Held(doc')
    <3>1. CASE Marked(doc)
      <4>1. WordAt(doc.paras, doc.mark)
        BY <1>1, <2>2, <3>1, PlaceIsWord DEF MarkInDocument
      <4>2. Held(Replaced(doc, hint))
        BY <1>1, <1>2, <2>2, <4>1, ReplacedGood DEF Typed
      <4> QED BY <2>3, <3>1, <4>2
    <3>2. CASE ~Marked(doc)
      BY <1>1, <2>3, <3>2
    <3> QED BY <3>1, <3>2
  <2>6. WordInv' /\ (Looked <=> Looked') /\ (Typed <=> Typed')
    BY <1>1, <2>2, <2>4 DEF WordInv, Looked, Typed
  <2>7. WordAt(doc.paras, at)'
    <3>1. WordAt(doc'.paras, Cursor(doc'))
      BY <2>4, SearchedFrom DEF Held
    <3> QED BY <2>3, <3>1
  <2> QED BY <1>2, <2>2, <2>6, <2>7 DEF SearchInv
<1>7. CASE Look
  <2>1. /\ at # <<>> /\ clip' = clip /\ findtext' = findtext /\ replacetext' = replacetext
        /\ IF Found THEN doc' = Selection /\ outcome' = "found" /\ at' = <<>>
           ELSE IF Done THEN doc' = doc /\ outcome' = "not found" /\ at' = <<>>
           ELSE doc' = doc /\ outcome' = outcome /\ at' = Advanced
    BY <1>7, Zenon DEF Look
  <2>2. (Looked <=> Looked') /\ (Typed <=> Typed') /\ findtext # <<>> /\ WordAt(doc.paras, at) /\ Looked
    BY <1>2, <2>1 DEF Looked, Typed
  <2>3. CASE Found
    <3>1. doc' = Selection /\ at' = <<>>
      BY <2>1, <2>3
    <3>2. Held(Selection)
      BY <1>1, <2>2, <2>3, SelectionIs
    <3>3. WordInv'
      BY <1>1, <2>1, <3>1, <3>2 DEF WordInv
    <3> QED BY <1>2, <2>1, <2>2, <3>1, <3>3 DEF SearchInv
  <2>4. CASE ~Found
    <3>1. doc' = doc /\ (at' = <<>> \/ at' = Advanced)
      BY <2>1, <2>4
    <3>2. WordAt(doc.paras, Advanced)
      BY <1>1, <2>2, AdvancedIs
    <3>3. WordInv'
      BY <1>1, <2>1, <3>1 DEF WordInv
    <3>4. (at # <<>> => findtext # <<>> /\ WordAt(doc.paras, at))'
      BY <2>1, <2>2, <3>1, <3>2
    <3> QED BY <1>2, <2>1, <2>2, <3>3, <3>4 DEF SearchInv
  <2> QED BY <2>3, <2>4
<1>8. CASE OtherKeys
  <2>1. findtext' = findtext /\ replacetext' = replacetext /\ at' = at /\ at = <<>> /\ (Move \/ Toggle)
    BY <1>8 DEF OtherKeys, Idle
  <2>2. [Next]_vars
    BY <2>1 DEF Next
  <2>3. WordInv'
    BY <1>1, <2>2, NextKeeps DEF WordInv
  <2>4. (Looked <=> Looked') /\ (Typed <=> Typed')
    BY <2>1 DEF Looked, Typed
  <2> QED BY <1>2, <2>1, <2>3, <2>4 DEF SearchInv
<1>9. CASE ReplaceBeforeFind
  <2>1. /\ doc' = UnsetMark(Delete(doc)) /\ MarkInDocument(doc) /\ Marked(doc)
        /\ UNCHANGED <<clip, findtext, replacetext, at>> /\ at = <<>>
    BY <1>9 DEF ReplaceBeforeFind, Idle
  <2>2. WordAt(doc.paras, doc.mark)
    BY <1>1, <2>1, PlaceIsWord DEF MarkInDocument
  <2>3. Good(Delete(doc))
    BY <1>1, <2>2, DeleteGood
  <2>4. Held(doc')
    BY <2>1, <2>3, UnsetMarkGood DEF Held, Loose
  <2>5. WordInv' /\ (Looked <=> Looked') /\ (Typed <=> Typed')
    BY <1>1, <2>1, <2>4 DEF WordInv, Looked, Typed
  <2> QED BY <1>2, <2>1, <2>5 DEF SearchInv
<1>10. CASE UNCHANGED searchvars
  <2>1. UNCHANGED <<doc, clip, findtext, replacetext, at>>
    BY <1>10 DEF searchvars, vars
  <2>2. WordInv' /\ (Looked <=> Looked') /\ (Typed <=> Typed')
    BY <1>1, <2>1 DEF WordInv, Looked, Typed
  <2> QED BY <1>2, <2>1, <2>2 DEF SearchInv
<1> QED BY <1>4, <1>5, <1>6, <1>7, <1>8, <1>9, <1>10 DEF SearchNext

(* In a document of any size, Cmd.ReplaceThenFind (navigate.lua) puts the   *)
(* replacement in the place of what is selected, whatever style is being    *)
(* typed: its words with a space between each two, the cursor behind them,  *)
(* and all other text as it was; provided that a word in which the          *)
(* selection both starts and ends has no code without effect.               *)
THEOREM ReplaceCorrect == SearchSpec => []ReplaceIsExact
<1>1. SearchInit => SearchInv
  BY SearchBegins
<1>2. SearchInv /\ [SearchNext]_searchvars => SearchInv'
  BY SearchKeeps
<1>3. SearchInv => ReplaceIsExact
  BY ReplacementExact DEF SearchInv, WordInv, Held, Typed
<1> QED BY <1>1, <1>2, <1>3, PTL DEF SearchSpec

-----------------------------------------------------------------------------
(* The text that is found.                                                  *)

LEMMA FirstOnes ==
  ASSUME NEW S, NEW s \in Seq(S), NEW i \in 1 .. Len(s)
  PROVE  SubSeq(s, 1, i) = With(SubSeq(s, 1, i - 1), s[i])
<1> DEFINE a == SubSeq(s, 1, i - 1)
           b == SubSeq(s, i + 1, Len(s))
           x == s[i]
           h == With(a, x)
<1>1. a \in Seq(S) /\ b \in Seq(S) /\ x \in S /\ Len(a) = i - 1 /\ s = h \o b
  BY CutAt DEF With
<1> HIDE DEF a, b, x
<1>2. h \in Seq(S) /\ Len(h) = (i - 1) + 1
  BY <1>1, WithHas
<1> HIDE DEF h
<1>3. SubSeq(h \o b, 1, Len(h)) = h
  BY <1>1, <1>2, PartsOfConcat
<1>4. Len(h) = i
  BY <1>2
<1> QED BY <1>1, <1>3, <1>4 DEF h, a, x

(* The text before the word at a place. *)
HeadTo(q) == Pre(SubSeq(doc.paras, 1, q[1] - 1), SubSeq(doc.paras[q[1]], 1, q[2] - 1))

(* From one word to the next, over one separator. *)
HeadIs(q, r, x) == HeadTo(r) = (HeadTo(q) \o GetWordText(PlaceWord(q))) \o <<x>>

LEMMA HeadInParagraph ==
  ASSUME doc.paras \in Seq(FullParagraph), NEW q, IsPlace(q),
         NEW r, r[1] = q[1], r[2] = q[2] + 1
  PROVE  HeadIs(q, r, SP)
<1> DEFINE p == doc.paras[q[1]]
           P == SubSeq(doc.paras, 1, q[1] - 1)
           A == SubSeq(p, 1, q[2] - 1)
           w == PlaceWord(q)
<1>1. p \in Seq(Word) /\ q[2] \in 1 .. Len(p) /\ q[1] \in 1 .. Len(doc.paras) /\ q[2] \in Nat
  <2>1. doc.paras[q[1]] \in FullParagraph
    BY ElementOfSeq DEF IsPlace
  <2> QED BY <2>1, FullParagraphSeq DEF IsPlace
<1>2. w = p[q[2]] /\ w \in Word
  BY PlaceWordIs DEF PlaceWord
<1>3. P \in Seq(FullParagraph)
  BY <1>1, CutAt
<1> HIDE DEF p, P
<1>4. A \in Seq(Word)
  BY <1>1, CutAt
<1>5. SubSeq(p, 1, q[2]) = A \o <<w>>
  BY <1>1, <1>2, FirstOnes DEF With
<1> HIDE DEF A, w
<1>6. HeadTo(r) = Pre(P, A \o <<w>>)
  <2>1. r[2] - 1 = q[2]
    BY <1>1
  <2> QED BY <1>5, <2>1 DEF HeadTo, P, p
<1>7. HeadTo(q) = Pre(P, A)
  BY DEF HeadTo, P, A, p
<1>8. Pre(P, A \o <<w>>) = (Pre(P, A) \o GetWordText(w)) \o <<SP>>
  BY <1>2, <1>3, <1>4, PreIs
<1> QED BY <1>6, <1>7, <1>8 DEF HeadIs, w

LEMMA PreOfNone ==
  ASSUME NEW P \in Seq(FullParagraph)
  PROVE  Pre(P, <<>>) = LeadP(P)
<1>1. Lead(<<>>) = <<>>
  BY EmptyPost, EmptyIn, LeadIs
<1>2. \E p : p \in FullParagraph
  BY EmptyWord, EmptyIn, WithFull
<1>3. LeadP(P) \in Seq(Symbol)
  BY <1>2, LeadPIs
<1>4. LeadP(P) \o <<>> = LeadP(P)
  BY <1>3, EmptyAround
<1> QED BY <1>1, <1>4 DEF Pre

LEMMA HeadBehindParagraph ==
  ASSUME doc.paras \in Seq(FullParagraph), NEW q, IsPlace(q), ~(q[2] < Len(doc.paras[q[1]])),
         NEW r, r[1] = q[1] + 1, r[2] = 1, r[1] \in 1 .. Len(doc.paras)
  PROVE  HeadIs(q, r, NL)
<1> DEFINE p == doc.paras[q[1]]
           P == SubSeq(doc.paras, 1, q[1] - 1)
           A == SubSeq(p, 1, q[2] - 1)
           w == PlaceWord(q)
           t == GetWordText(w)
<1>1. /\ p \in FullParagraph /\ p \in Seq(Word) /\ q[2] \in 1 .. Len(p) /\ q[1] \in 1 .. Len(doc.paras)
      /\ q[2] \in Nat /\ q[1] \in Nat /\ Len(p) \in Nat
  <2>1. doc.paras[q[1]] \in FullParagraph
    BY ElementOfSeq DEF IsPlace
  <2> QED BY <2>1, FullParagraphSeq DEF IsPlace
<1>2. w = p[q[2]] /\ w \in Word
  BY PlaceWordIs DEF PlaceWord
<1>3. P \in Seq(FullParagraph) /\ SubSeq(doc.paras, 1, q[1]) = With(P, p)
  BY <1>1, CutAt, FirstOnes
<1>4. q[2] = Len(p)
  BY <1>1
<1> HIDE DEF p, P
<1>5. A \in Seq(Word)
  BY <1>1, CutAt
<1>6. p = With(A, w)
  <2>1. SubSeq(p, 1, Len(p)) = p
    <3>1. p \o <<>> = p /\ <<>> \in Seq(Word)
      BY <1>1, EmptyAround, EmptyIn
    <3>2. SubSeq(p \o <<>>, 1, Len(p)) = p
      BY <1>1, <3>1, PartsOfConcat
    <3> QED BY <3>1, <3>2
  <2>2. SubSeq(p, 1, q[2]) = With(A, p[q[2]])
    BY <1>1, FirstOnes
  <2> QED BY <1>2, <1>4, <2>1, <2>2
<1> HIDE DEF A, w
<1>7. FlatParagraph(p) = Lead(A) \o t
  <2>1. p = Around(A, w, <<>>)
    BY <1>2, <1>5, <1>6, WithIsAround
  <2>2. <<>> \in Seq(Word)
    BY EmptyIn
  <2>3. FlatParagraph(Around(A, w, <<>>)) = Three(Lead(A), t, Trail(<<>>))
    BY <1>2, <1>5, <2>2, FlatParagraphIs
  <2>4. Trail(<<>>) = <<>> /\ Lead(A) \in Seq(Symbol)
    BY <1>2, <1>5, LeadIs
  <2>5. t \in Seq(Symbol)
    BY <1>2, WordTextIs
  <2> HIDE DEF t
  <2>6. Lead(A) \o t \in Seq(Symbol)
    BY <2>4, <2>5, ConcatProperties
  <2>7. (Lead(A) \o t) \o <<>> = Lead(A) \o t
    BY <2>6, EmptyAround
  <2> QED BY <2>1, <2>3, <2>4, <2>7 DEF Three
<1>8. LeadP(With(P, p)) = (LeadP(P) \o FlatParagraph(p)) \o <<NL>> /\ LeadP(P) \in Seq(Symbol)
  BY <1>1, <1>3, LeadPIs DEF With
<1>9. Groups(LeadP(P), Lead(A), t)
  <2>1. t \in Seq(Symbol) /\ Lead(A) \in Seq(Symbol)
    BY <1>2, <1>5, WordTextIs, LeadIs
  <2> QED BY <1>8, <2>1, GroupsOf
<1>10. With(P, p) \in Seq(FullParagraph)
  BY <1>1, <1>3, WithHas
<1>11. HeadTo(r) = LeadP(With(P, p))
  <2>1. r[1] - 1 = q[1] /\ r[2] - 1 = 0
    BY <1>1
  <2>2. SubSeq(doc.paras[r[1]], 1, 0) = <<>>
    <3> DEFINE s == doc.paras[r[1]]
               u == SubSeq(s, 1, 1 - 1)
    <3>1. s \in FullParagraph
      BY ElementOfSeq
    <3>2. s \in Seq(Word) /\ 1 \in 1 .. Len(s)
      BY <3>1, FullParagraphSeq
    <3> HIDE DEF s
    <3>3. u \in Seq(Word) /\ Len(u) = 1 - 1
      BY <3>2, CutAt
    <3>4. u = <<>>
      BY <3>3, EmptySeq
    <3> QED BY <3>4 DEF s
  <2>3. HeadTo(r) = Pre(With(P, p), <<>>)
    BY <1>3, <2>1, <2>2 DEF HeadTo
  <2> QED BY <1>10, <2>3, PreOfNone
<1>12. HeadTo(q) = Pre(P, A)
  BY DEF HeadTo, P, A, p
<1> HIDE DEF t
<1>13. LeadP(P) \o FlatParagraph(p) = Pre(P, A) \o t
  BY <1>7, <1>9 DEF Groups, Pre
<1> QED BY <1>8, <1>11, <1>12, <1>13 DEF HeadIs, w, t

LEMMA HeadOn ==
  ASSUME doc.paras \in Seq(FullParagraph), NEW q, IsPlace(q), Following(q) # NoPlace
  PROVE  \E x \in {SP, NL} : HeadIs(q, Following(q), x)
<1> DEFINE p == q[1]
           w == q[2]
           a == <<p, w + 1>>
           b == <<p + 1, 1>>
           r == Following(q)
<1>1. r = IF w < Len(doc.paras[p]) THEN a ELSE IF p < Len(doc.paras) THEN b ELSE NoPlace
  BY Zenon DEF Following, FollowingWord
<1>2. a[1] = p /\ a[2] = w + 1 /\ b[1] = p + 1 /\ b[2] = 1
  OBVIOUS
<1> HIDE DEF r, a, b
<1>3. CASE w < Len(doc.paras[p])
  BY <1>1, <1>2, <1>3, HeadInParagraph DEF r
<1>4. CASE ~(w < Len(doc.paras[p]))
  <2>1. r = b /\ p < Len(doc.paras)
    BY <1>1, <1>4 DEF r
  <2>2. r[1] \in 1 .. Len(doc.paras)
    <3>1. p \in 1 .. Len(doc.paras) /\ Len(doc.paras) \in Nat
      BY LenProperties DEF IsPlace
    <3> QED BY <1>2, <2>1, <3>1
  <2> QED BY <1>2, <1>4, <2>1, <2>2, HeadBehindParagraph DEF r
<1> QED BY <1>3, <1>4

(* Where words and paragraphs end in a text. *)
GapsOf(t) == {i \in DOMAIN t : t[i] \in {SP, NL}}
Gaps(t, k) == t \in Seq(Symbol) /\ IsFiniteSet(GapsOf(t)) /\ Cardinality(GapsOf(t)) = k

LEMMA SeparatorsAre == /\ SP \in Symbol /\ NL \in Symbol /\ Seq(Char) \subseteq Seq(Symbol)
                       /\ SP \notin Char /\ NL \notin Char
BY CharSymbols, SearchAssumption

LEMMA GapsNone ==
  ASSUME NEW t \in Seq(Char)
  PROVE  Gaps(t, 0)
<1>1. \A i \in DOMAIN t : t[i] \in Char
  BY ElementOfSeq, LenProperties
<1>2. GapsOf(t) = {}
  BY <1>1, SeparatorsAre DEF GapsOf
<1> QED BY <1>2, FS_EmptySet, SeparatorsAre DEF Gaps

LEMMA GapsInText ==
  ASSUME NEW k, NEW t, Gaps(t, k), NEW u \in Seq(Char)
  PROVE  Gaps(t \o u, k)
<1> DEFINE v == t \o u
           m == Len(t)
           n == Len(u)
<1>1. t \in Seq(Symbol) /\ u \in Seq(Symbol) /\ m \in Nat /\ n \in Nat /\ DOMAIN t = 1 .. m
  BY SeparatorsAre, LenProperties DEF Gaps
<1>2. IsSeq(t) /\ IsSeq(u)
  BY <1>1 DEF IsSeq
<1>3. \A j \in 1 .. n : u[j] \in Char
  BY ElementOfSeq
<1>4. /\ v \in Seq(Symbol) /\ Len(v) = m + n /\ DOMAIN v = 1 .. m + n
      /\ \A i \in 1 .. m : v[i] = t[i]
      /\ \A j \in 1 .. n : v[m + j] = u[j]
  <2>1. v \in Seq(Symbol)
    BY <1>1, ConcatProperties
  <2>2. Len(v) = m + n
    BY <1>2, SeqConcat
  <2>3. DOMAIN v = 1 .. Len(v)
    BY <2>1, LenProperties
  <2>4. \A i \in 1 .. m : v[i] = t[i]
    BY <1>2, SeqConcat
  <2>5. \A j \in 1 .. n : v[m + j] = u[j]
    BY <1>2, SeqConcat
  <2> QED BY <2>1, <2>2, <2>3, <2>4, <2>5
<1> HIDE DEF v, m, n
<1>5. \A i \in 1 .. m + n : i \in 1 .. m \/ (i - m \in 1 .. n /\ m + (i - m) = i)
  BY <1>1
<1>6. \A i \in 1 .. m + n : v[i] \in {SP, NL} => i \in 1 .. m
  <2> SUFFICES ASSUME NEW i \in 1 .. m + n, v[i] \in {SP, NL}, i \notin 1 .. m PROVE FALSE
    OBVIOUS
  <2>1. i - m \in 1 .. n /\ m + (i - m) = i
    BY <1>5
  <2>2. v[i] = u[i - m] /\ u[i - m] \in Char
    BY <1>3, <1>4, <2>1
  <2> QED BY <2>2, SeparatorsAre
<1>7. \A i \in 1 .. m : i \in 1 .. m + n
  BY <1>1
<1>8. GapsOf(v) = GapsOf(t)
  BY <1>1, <1>4, <1>6, <1>7 DEF GapsOf
<1> QED BY <1>4, <1>8 DEF Gaps, v

LEMMA GapsOn ==
  ASSUME NEW k \in Nat, NEW t, Gaps(t, k), NEW x \in {SP, NL}
  PROVE  Gaps(t \o <<x>>, k + 1)
<1> DEFINE h == <<x>>
           v == t \o h
           m == Len(t)
<1>1. /\ t \in Seq(Symbol) /\ h \in Seq(Symbol) /\ m \in Nat /\ Len(h) = 1 /\ DOMAIN t = 1 .. m
      /\ h[1] = x
  <2>1. x \in Symbol
    BY SeparatorsAre
  <2> QED BY <2>1, LenProperties, OneElement DEF Gaps
<1> HIDE DEF h
<1>2. IsSeq(t) /\ IsSeq(h)
  BY <1>1 DEF IsSeq
<1>3. /\ v \in Seq(Symbol) /\ DOMAIN v = 1 .. m + 1
      /\ \A i \in 1 .. m : v[i] = t[i]
      /\ v[m + 1] = x
  <2>1. v \in Seq(Symbol)
    BY <1>1, ConcatProperties
  <2>2. Len(v) = m + Len(h)
    BY <1>2, SeqConcat
  <2>3. DOMAIN v = 1 .. Len(v)
    BY <2>1, LenProperties
  <2>4. \A i \in 1 .. m : v[i] = t[i]
    BY <1>2, SeqConcat
  <2>5. \A j \in 1 .. Len(h) : v[m + j] = h[j]
    BY <1>2, SeqConcat
  <2>6. 1 \in 1 .. 1
    OBVIOUS
  <2> HIDE DEF v
  <2> QED BY <1>1, <2>1, <2>2, <2>3, <2>4, <2>5, <2>6
<1> HIDE DEF v, m
<1>4. \A i : i \in 1 .. m + 1 <=> i \in 1 .. m \/ i = m + 1
  BY <1>1
<1>5. m + 1 \notin 1 .. m
  BY <1>1
<1>6. GapsOf(v) = GapsOf(t) \cup {m + 1}
  BY <1>1, <1>3, <1>4, <1>5 DEF GapsOf
<1>7. m + 1 \notin GapsOf(t)
  BY <1>1, <1>5 DEF GapsOf
<1>8. IsFiniteSet(GapsOf(v)) /\ Cardinality(GapsOf(v)) = k + 1
  BY <1>6, <1>7, FS_AddElement DEF Gaps
<1> QED BY <1>3, <1>8 DEF Gaps, v, h

LEMMA PrefixOf ==
  ASSUME NEW S, NEW s \in Seq(S), NEW t \in Seq(S)
  PROVE  IsPrefix(s, s \o t)
<1> DEFINE v == s \o t
           u == SubSeq(s, 1, Len(s))
<1>1. Len(v) = Len(s) + Len(t) /\ Len(s) \in Nat /\ Len(t) \in Nat /\ SubSeq(v, 1, Len(s)) = s
  BY PartsOfConcat
<1>2. u = s
  <2>1. s \o <<>> = s /\ <<>> \in Seq(S)
    BY EmptyAround, EmptyIn
  <2>2. SubSeq(s \o <<>>, 1, Len(s)) = s
    BY <2>1, PartsOfConcat
  <2> QED BY <2>1, <2>2
<1> HIDE DEF v
<1> QED BY <1>1, <1>2 DEF IsPrefix, v

LEMMA ReverseIs ==
  ASSUME NEW S, NEW s \in Seq(S)
  PROVE  /\ Reverse(s) \in Seq(S) /\ Len(Reverse(s)) = Len(s) /\ Len(s) \in Nat
         /\ \A i \in 1 .. Len(s) : Reverse(s)[i] = s[Len(s) - i + 1]
<1> DEFINE n == Len(s)
           r == Reverse(s)
<1>1. n \in Nat /\ \A i \in 1 .. n : s[i] \in S
  BY LenProperties, ElementOfSeq
<1>2. r = [i \in 1 .. n |-> s[(n - i) + 1]]
  BY Zenon DEF Reverse
<1> HIDE DEF n
<1>3. \A i \in 1 .. n : (n - i) + 1 \in 1 .. n
  BY <1>1
<1>4. r \in [1 .. n -> S] /\ \A i \in 1 .. n : r[i] = s[n - i + 1]
  BY <1>1, <1>2, <1>3
<1> HIDE DEF r
<1>5. r \in Seq(S) /\ Len(r) = n
  BY <1>1, <1>4
<1> QED BY <1>1, <1>4, <1>5 DEF n, r

LEMMA FirstPart ==
  ASSUME NEW S, NEW s \in Seq(S), NEW n \in Nat, n <= Len(s)
  PROVE  LET t == SubSeq(s, 1, n)
         IN  t \in Seq(S) /\ Len(t) = n /\ \A i \in 1 .. n : t[i] = s[i]
<1> DEFINE t == SubSeq(s, 1, n)
<1>1. IsSeq(s) /\ 1 \in Nat /\ n \in Int /\ Len(s) \in Nat /\ \A i \in 1 .. Len(s) : s[i] \in S
  BY LenProperties, ElementOfSeq DEF IsSeq
<1>2. /\ IsSeq(t) /\ Len(t) = IF 1 <= n THEN n - 1 + 1 ELSE 0
      /\ \A i \in 1 .. n - 1 + 1 : t[i] = s[1 + i - 1]
  <2>1. IsSeq(t)
    BY <1>1, SeqPart
  <2>2. Len(t) = IF 1 <= n THEN n - 1 + 1 ELSE 0
    BY <1>1, SeqPart
  <2>3. \A i \in 1 .. n - 1 + 1 : t[i] = s[1 + i - 1]
    BY <1>1, SeqPart
  <2> QED BY <2>1, <2>2, <2>3
<1> HIDE DEF t
<1>3. Len(t) = n
  BY <1>2
<1>4. \A i \in 1 .. n : i \in 1 .. n - 1 + 1 /\ 1 + i - 1 = i /\ i \in 1 .. Len(s)
  BY <1>1
<1>5. \A i \in 1 .. n : t[i] = s[i]
  BY <1>2, <1>4
<1>6. t \in Seq(S)
  BY <1>1, <1>2, <1>3, <1>4, <1>5, SeqOfElements
<1> QED BY <1>3, <1>5, <1>6 DEF t

LEMMA SuffixOf ==
  ASSUME NEW S, NEW s \in Seq(S), NEW t \in Seq(S)
  PROVE  IsSuffix(t, s \o t)
<1> DEFINE v == s \o t
           m == Len(s)
           n == Len(t)
           a == Reverse(t)
           b == Reverse(v)
<1>1. /\ v \in Seq(S) /\ Len(v) = m + n /\ m \in Nat /\ n \in Nat
      /\ \A j \in 1 .. n : v[m + j] = t[j]
  <2>1. IsSeq(s) /\ IsSeq(t)
    BY DEF IsSeq
  <2>2. \A j \in 1 .. n : v[m + j] = t[j]
    BY <2>1, SeqConcat
  <2>3. v \in Seq(S) /\ Len(v) = m + n /\ m \in Nat /\ n \in Nat
    BY PartsOfConcat
  <2> QED BY <2>2, <2>3
<1> HIDE DEF v
<1>2. /\ a \in Seq(S) /\ Len(a) = n /\ \A i \in 1 .. n : a[i] = t[n - i + 1]
      /\ b \in Seq(S) /\ Len(b) = m + n /\ \A i \in 1 .. m + n : b[i] = v[(m + n) - i + 1]
  <2>1. a \in Seq(S) /\ Len(a) = n /\ \A i \in 1 .. n : a[i] = t[n - i + 1]
    BY ReverseIs
  <2>2. v \in Seq(S) /\ Len(v) = m + n
    BY <1>1
  <2> HIDE DEF m, n
  <2>3. b \in Seq(S) /\ Len(b) = m + n /\ \A i \in 1 .. m + n : b[i] = v[(m + n) - i + 1]
    BY <2>2, ReverseIs
  <2> QED BY <2>1, <2>3
<1> HIDE DEF a, b, m, n
<1>3. \A i \in 1 .. n : i \in 1 .. m + n /\ (m + n) - i + 1 = m + (n - i + 1) /\ n - i + 1 \in 1 .. n
  BY <1>1
<1>4. \A i \in 1 .. n : a[i] = b[i]
  <2> SUFFICES ASSUME NEW i \in 1 .. n PROVE a[i] = b[i]
    OBVIOUS
  <2>1. b[i] = v[m + (n - i + 1)] /\ n - i + 1 \in 1 .. n
    <3>1. i \in 1 .. m + n /\ (m + n) - i + 1 = m + (n - i + 1) /\ n - i + 1 \in 1 .. n
      BY <1>3
    <3>2. b[i] = v[(m + n) - i + 1]
      BY <1>2, <3>1
    <3> QED BY <3>1, <3>2
  <2>2. b[i] = t[n - i + 1]
    BY <1>1, <2>1
  <2> QED BY <1>2, <2>2
<1> DEFINE c == SubSeq(a, 1, n)
           d == SubSeq(b, 1, n)
<1>5. n <= Len(a) /\ n <= Len(b) /\ Len(a) = n
  BY <1>1, <1>2
<1>6. c \in Seq(S) /\ Len(c) = n /\ \A i \in 1 .. n : c[i] = a[i]
  BY <1>1, <1>2, <1>5, FirstPart
<1>7. d \in Seq(S) /\ Len(d) = n /\ \A i \in 1 .. n : d[i] = b[i]
  BY <1>1, <1>2, <1>5, FirstPart
<1> HIDE DEF c, d
<1>8. c = d
  BY <1>1, <1>4, <1>6, <1>7, SeqEqual
<1> QED BY <1>5, <1>8 DEF IsPrefix, IsSuffix, a, b, c, d, v

(* From the text t on, q is reached over k gaps, and the text in between    *)
(* begins with the first word looked for.                                   *)
Reaches(q, t, k, u) == HeadTo(q) = t \o u /\ Gaps(u, k) /\ IsPrefix(findtext[1], u)

LEMMA TextsOfPlace ==
  ASSUME doc.paras \in Seq(FullParagraph), NEW q, IsPlace(q)
  PROVE  /\ HeadTo(q) \in Seq(Symbol) /\ PlaceWord(q) \in Word
         /\ GetWordText(PlaceWord(q)) \in Seq(Char)
<1> DEFINE p == doc.paras[q[1]]
           P == SubSeq(doc.paras, 1, q[1] - 1)
           A == SubSeq(p, 1, q[2] - 1)
           w == PlaceWord(q)
<1>1. p \in Seq(Word) /\ q[2] \in 1 .. Len(p) /\ q[1] \in 1 .. Len(doc.paras)
  <2>1. doc.paras[q[1]] \in FullParagraph
    BY ElementOfSeq DEF IsPlace
  <2> QED BY <2>1, FullParagraphSeq DEF IsPlace
<1>2. w \in Word
  BY PlaceWordIs
<1>3. P \in Seq(FullParagraph) /\ A \in Seq(Word)
  BY <1>1, CutAt
<1>4. HeadTo(q) = Pre(P, A)
  BY DEF HeadTo
<1> HIDE DEF P, A, w
<1>5. Pre(P, A) \in Seq(Symbol)
  BY <1>2, <1>3, PreIs
<1>6. GetWordText(w) \in Seq(Char)
  <2>1. Len(w) + 1 \in 1 .. Len(w) + 1
    BY <1>2, WordIs
  <2> QED BY <1>2, <2>1, CharsTo, TextSplits
<1> QED BY <1>2, <1>4, <1>5, <1>6 DEF w

LEMMA PrefixOn ==
  ASSUME NEW S, NEW s \in Seq(S), NEW u \in Seq(S), IsPrefix(s, u), NEW v \in Seq(S)
  PROVE  IsPrefix(s, u \o v)
<1> DEFINE n == Len(s)
           w == u \o v
           a == SubSeq(s, 1, n)
           b == SubSeq(u, 1, n)
           c == SubSeq(w, 1, n)
<1>1. n \in Nat /\ n <= Len(u) /\ a = b
  BY LenProperties DEF IsPrefix
<1>2. w \in Seq(S) /\ Len(w) = Len(u) + Len(v) /\ Len(u) \in Nat /\ Len(v) \in Nat
  BY PartsOfConcat
<1>3. \A i \in 1 .. Len(u) : w[i] = u[i]
  <2>1. IsSeq(u) /\ IsSeq(v)
    BY DEF IsSeq
  <2> QED BY <2>1, SeqConcat
<1> HIDE DEF w, n
<1>4. n <= Len(w)
  BY <1>1, <1>2
<1>5. b \in Seq(S) /\ Len(b) = n /\ \A i \in 1 .. n : b[i] = u[i]
  BY <1>1, FirstPart
<1>6. c \in Seq(S) /\ Len(c) = n /\ \A i \in 1 .. n : c[i] = w[i]
  BY <1>1, <1>2, <1>4, FirstPart
<1>7. \A i \in 1 .. n : i \in 1 .. Len(u)
  BY <1>1, <1>2
<1> HIDE DEF a, b, c
<1>8. b = c
  BY <1>3, <1>5, <1>6, <1>7, SeqEqual
<1> QED BY <1>1, <1>4, <1>8 DEF IsPrefix, a, b, c, n, w

LEMMA ReachesOn ==
  ASSUME Looked, doc.paras \in Seq(FullParagraph), NEW q, IsPlace(q), Following(q) # NoPlace,
         NEW t \in Seq(Symbol), NEW k \in Nat, NEW u, Reaches(q, t, k, u)
  PROVE  \E v : Reaches(Following(q), t, k + 1, v)
<1> DEFINE w == GetWordText(PlaceWord(q))
           r == Following(q)
<1>1. PICK x \in {SP, NL} : HeadIs(q, r, x)
  BY HeadOn
<1> DEFINE h == <<x>>
           uw == u \o w
           v == uw \o h
<1>2. HeadTo(r) = (HeadTo(q) \o w) \o h
  BY <1>1 DEF HeadIs
<1>3. HeadTo(q) = t \o u /\ Gaps(u, k) /\ IsPrefix(findtext[1], u) /\ u \in Seq(Symbol)
  BY DEF Reaches, Gaps
<1>4. w \in Seq(Char) /\ w \in Seq(Symbol) /\ h \in Seq(Symbol)
  <2>1. x \in Symbol
    BY SeparatorsAre
  <2> QED BY <2>1, OneElement, TextsOfPlace, SeparatorsAre
<1>5. findtext[1] \in Seq(Symbol)
  <2>1. 1 \in 1 .. Len(findtext)
    BY LookedIs
  <2> QED BY <2>1, LookedIs, SeparatorsAre
<1> HIDE DEF w
<1>6. Gaps(uw, k) /\ uw \in Seq(Symbol)
  BY <1>3, <1>4, GapsInText DEF Gaps
<1>7. IsPrefix(findtext[1], uw)
  BY <1>3, <1>4, <1>5, PrefixOn
<1>8. Groups(t, u, w)
  BY <1>3, <1>4, GroupsOf
<1>9. (t \o u) \o w = t \o uw
  BY <1>8 DEF Groups
<1> HIDE DEF uw
<1>10. Gaps(v, k + 1)
  BY <1>6, GapsOn
<1> HIDE DEF h
<1>11. IsPrefix(findtext[1], v)
  BY <1>4, <1>5, <1>6, <1>7, PrefixOn
<1>12. Groups(t, uw, h)
  BY <1>4, <1>6, GroupsOf
<1>13. HeadTo(r) = t \o v
  BY <1>2, <1>3, <1>9, <1>12 DEF Groups
<1> HIDE DEF v, r
<1>14. Reaches(r, t, k + 1, v)
  BY <1>10, <1>11, <1>13 DEF Reaches
<1> QED BY <1>14 DEF r

(* The text before the offset of a place. *)
UpToOffset(q, o) == HeadTo(q) \o TextTo(PlaceWord(q), o)

LEMMA ReachesSecond ==
  ASSUME Looked, doc.paras \in Seq(FullParagraph), NEW q, IsPlace(q), Following(q) # NoPlace,
         NEW s, NEW o, IsMatch(PlaceWord(q), 1, s, o), 1 < Len(findtext)
  PROVE  \E v : Reaches(Following(q), UpToOffset(q, s), 1, v)
<1> DEFINE pw == PlaceWord(q)
           w == GetWordText(pw)
           r == Following(q)
           t == TextTo(pw, s)
           f == findtext[1]
           H == HeadTo(q)
<1>1. PICK x \in {SP, NL} : HeadIs(q, r, x)
  BY HeadOn
<1> DEFINE h == <<x>>
           v == f \o h
<1>2. HeadTo(r) = (H \o w) \o h
  BY <1>1 DEF HeadIs
<1>3. pw \in Word /\ H \in Seq(Symbol)
  BY TextsOfPlace
<1>4. f \in Seq(Char) /\ f \in Seq(Symbol)
  <2>1. 1 \in 1 .. Len(findtext)
    BY LookedIs
  <2> QED BY <2>1, LookedIs, SeparatorsAre
<1>5. h \in Seq(Symbol)
  <2>1. x \in Symbol
    BY SeparatorsAre
  <2> QED BY <2>1, OneElement
<1> HIDE DEF pw, H
<1>6. s \in 1 .. Len(pw) + 1 /\ o \in 1 .. Len(pw) + 1
  BY <1>3, WordIs DEF IsMatch, pw
<1>7. TextTo(pw, o) = t \o f /\ TextFrom(pw, o) = <<>>
  BY DEF IsMatch, pw
<1>8. t \in Seq(Symbol) /\ w = TextTo(pw, o) \o TextFrom(pw, o) /\ TextTo(pw, o) \in Seq(Symbol)
  BY <1>3, <1>6, TextSplits
<1>9. TextTo(pw, o) \o <<>> = TextTo(pw, o)
  BY <1>8, EmptyAround
<1>10. w = t \o f
  BY <1>7, <1>8, <1>9
<1> HIDE DEF w, t, f, h
<1>11. Groups(H, t, f) /\ H \o t \in Seq(Symbol)
  BY <1>3, <1>4, <1>8, GroupsOf, ConcatProperties
<1>12. Groups(H \o t, f, h)
  BY <1>4, <1>5, <1>11, GroupsOf
<1>13. HeadTo(r) = (H \o t) \o v
  BY <1>2, <1>10, <1>11, <1>12 DEF Groups
<1>14. Gaps(v, 1)
  <2>1. Gaps(f, 0)
    BY <1>4, GapsNone
  <2>2. Gaps(f \o <<x>>, 0 + 1)
    BY <2>1, GapsOn, SameWords
  <2>3. 0 + 1 = 1
    OBVIOUS
  <2> QED BY <2>2, <2>3 DEF h
<1>15. IsPrefix(f, v)
  BY <1>4, <1>5, PrefixOf
<1> HIDE DEF v, r
<1>16. UpToOffset(q, s) = H \o t
  BY DEF UpToOffset, H, t, pw
<1>17. Reaches(r, UpToOffset(q, s), 1, v)
  BY <1>13, <1>14, <1>15, <1>16 DEF Reaches, f
<1> QED BY <1>17 DEF r

LEMMA ReachesLast ==
  ASSUME Looked, doc.paras \in Seq(FullParagraph), NEW F, Chain(F, F[1]),
         NEW s, NEW o, IsMatch(PlaceWord(F[1]), 1, s, o), 1 < Len(findtext)
  PROVE  \E v : Reaches(F[Len(findtext)], UpToOffset(F[1], s), Len(findtext) - 1, v)
<1> DEFINE n == Len(findtext)
           t == UpToOffset(F[1], s)
           W == {k \in 0 .. n - 2 : \E v : Reaches(F[k + 2], t, k + 1, v)}
<1>1. n \in Nat /\ n >= 2
  BY LookedIs
<1>2. /\ \A i \in 1 .. n : IsPlace(F[i])
      /\ \A i \in 2 .. n : F[i] = Following(F[i - 1]) /\ F[i] # NoPlace
  BY DEF Chain
<1> HIDE DEF n
<1>3. IsPlace(F[1]) /\ F[2] = Following(F[1]) /\ F[2] # NoPlace
  <2>1. 1 \in 1 .. n /\ 2 \in 2 .. n /\ 2 - 1 = 1
    BY <1>1
  <2> QED BY <1>2, <2>1
<1>4. t \in Seq(Symbol)
  <2>1. HeadTo(F[1]) \in Seq(Symbol) /\ PlaceWord(F[1]) \in Word
    BY <1>3, TextsOfPlace
  <2>2. s \in 1 .. Len(PlaceWord(F[1])) + 1
    BY <2>1, WordIs DEF IsMatch
  <2>3. TextTo(PlaceWord(F[1]), s) \in Seq(Symbol)
    BY <2>1, <2>2, TextSplits
  <2> QED BY <2>1, <2>3, ConcatProperties DEF UpToOffset
<1>5. \E v : Reaches(F[2], t, 1, v)
  BY <1>3, ReachesSecond
<1> HIDE DEF t
<1>6. 0 \in W
  <2>1. 0 \in 0 .. n - 2 /\ 0 + 2 = 2 /\ 0 + 1 = 1
    BY <1>1
  <2> QED BY <1>5, <2>1
<1>7. ASSUME NEW k \in 0 .. (n - 2) - 1, k \in W PROVE k + 1 \in W
  <2>1. /\ k + 2 \in 1 .. n /\ k + 1 + 2 \in 2 .. n /\ (k + 1 + 2) - 1 = k + 2
        /\ k + 1 \in 0 .. n - 2 /\ k + 1 \in Nat
    BY <1>1
  <2>2. PICK u : Reaches(F[k + 2], t, k + 1, u)
    BY <1>7
  <2>3. IsPlace(F[k + 2]) /\ F[k + 1 + 2] = Following(F[k + 2]) /\ Following(F[k + 2]) # NoPlace
    BY <1>2, <2>1
  <2>4. \E v : Reaches(F[k + 1 + 2], t, k + 1 + 1, v)
    BY <1>4, <2>1, <2>2, <2>3, ReachesOn
  <2> QED BY <2>1, <2>4
<1>8. n - 2 \in 0 .. n - 2 /\ (n - 2) + 2 = n /\ (n - 2) + 1 = n - 1 /\ n - 2 \in Nat
  BY <1>1
<1>9. n - 2 \in W
  <2> HIDE DEF W
  <2> QED BY <1>6, <1>7, <1>8, SameWords, Words!Induction
<1> QED BY <1>8, <1>9 DEF n, t

(* The place of an offset, and the text up to it. *)
Stands(q, m) ==
  /\ FlatPlace(doc.paras, m) = Len(UpToOffset(q, m[3])) /\ UpToOffset(q, m[3]) \in Seq(Symbol)
  /\ \E rest \in Seq(Symbol) : Text = UpToOffset(q, m[3]) \o rest

LEMMA PlaceText ==
  ASSUME doc.paras \in Seq(FullParagraph), NEW q, IsPlace(q),
         NEW m, m[1] = q[1], m[2] = q[2], m[3] \in 1 .. Len(PlaceWord(q)) + 1
  PROVE  Stands(q, m)
<1> DEFINE ps == doc.paras
           P == SubSeq(ps, 1, m[1] - 1)
           R == SubSeq(ps, m[1] + 1, Len(ps))
           A == SubSeq(ps[m[1]], 1, m[2] - 1)
           B == SubSeq(ps[m[1]], m[2] + 1, Len(ps[m[1]]))
           w == ps[m[1]][m[2]]
<1>1. PlaceWord(q) = w /\ m[3] \in 1 .. Len(w) + 1
  BY DEF PlaceWord
<1>2. WordAt(ps, m)
  <2>1. m[3] \in Nat \ {0}
    <3>1. PlaceWord(q) \in Word
      BY PlaceWordIs
    <3> QED BY <3>1, WordIs
  <2> QED BY <2>1 DEF WordAt, IsPlace
<1>3. IsZip(P, A, w, B, R) /\ ps = ZipOf(P, A, w, B, R) /\ At3(m, P, A, w)
  BY <1>2, Located
<1>4. HeadTo(q) = Pre(P, A)
  BY DEF HeadTo
<1> HIDE DEF P, R, A, B, w, ps
<1>5. /\ FlatPlace(ZipOf(P, A, w, B, R), m) = Len(Ahead(P, A, w, m[3]))
      /\ Flat(ZipOf(P, A, w, B, R)) = Ahead(P, A, w, m[3]) \o Rest(w, m[3], B, R)
      /\ Ahead(P, A, w, m[3]) \in Seq(Symbol) /\ Rest(w, m[3], B, R) \in Seq(Symbol)
  BY <1>1, <1>3, ZipPlace
<1>6. UpToOffset(q, m[3]) = Ahead(P, A, w, m[3])
  BY <1>1, <1>4 DEF UpToOffset, Ahead
<1>7. Text = UpToOffset(q, m[3]) \o Rest(w, m[3], B, R)
  BY <1>3, <1>5, <1>6 DEF Text, ps
<1> QED BY <1>3, <1>5, <1>6, <1>7 DEF Stands, ps

(* What FoundIsText says of what was found. *)
FoundWords(g) ==
  /\ Gaps(g, Len(findtext) - 1)
  /\ Len(findtext) = 1 => g = findtext[1]
  /\ IsPrefix(findtext[1], g)
  /\ IsSuffix(findtext[Len(findtext)], g)

FoundFrom(q, s, r, o) == \E g : UpToOffset(r, o) = UpToOffset(q, s) \o g /\ FoundWords(g)

LEMMA FoundOne ==
  ASSUME Looked, Len(findtext) = 1, doc.paras \in Seq(FullParagraph), NEW q, IsPlace(q),
         NEW s, NEW o, IsMatch(PlaceWord(q), 1, s, o)
  PROVE  FoundFrom(q, s, q, o)
<1> DEFINE f == findtext[1]
           w == PlaceWord(q)
           H == HeadTo(q)
           t == TextTo(w, s)
<1>1. f \in Seq(Char) /\ f \in Seq(Symbol)
  <2>1. 1 \in 1 .. Len(findtext)
    BY LookedIs
  <2> QED BY <2>1, LookedIs, SeparatorsAre
<1>2. H \in Seq(Symbol) /\ w \in Word
  BY TextsOfPlace
<1>3. t \in Seq(Symbol)
  <2>1. s \in 1 .. Len(w) + 1
    BY <1>2, WordIs DEF IsMatch
  <2> QED BY <1>2, <2>1, TextSplits
<1>4. UpToOffset(q, o) = H \o (t \o f) /\ UpToOffset(q, s) = H \o t
  BY DEF IsMatch, UpToOffset
<1> HIDE DEF H, t, w, f
<1>5. Groups(H, t, f)
  BY <1>1, <1>2, <1>3, GroupsOf
<1>6. UpToOffset(q, o) = UpToOffset(q, s) \o f
  BY <1>4, <1>5 DEF Groups
<1>7. f \o <<>> = f /\ <<>> \o f = f /\ <<>> \in Seq(Char)
  BY <1>1, EmptyAround, EmptyIn
<1>8. IsPrefix(f, f \o <<>>) /\ IsSuffix(f, <<>> \o f)
  BY <1>1, <1>7, PrefixOf, SuffixOf
<1>9. Gaps(f, 0)
  BY <1>1, GapsNone
<1>10. FoundWords(f)
  BY <1>7, <1>8, <1>9 DEF FoundWords, f
<1> QED BY <1>6, <1>10 DEF FoundFrom

LEMMA FoundMany ==
  ASSUME Looked, Len(findtext) # 1, doc.paras \in Seq(FullParagraph),
         NEW F, Chain(F, F[1]), NEW s, NEW o, IsMatch(PlaceWord(F[1]), 1, s, o),
         NEW s2, NEW o2, IsMatch(PlaceWord(F[Len(findtext)]), Len(findtext), s2, o2)
  PROVE  FoundFrom(F[1], s, F[Len(findtext)], o2)
<1> DEFINE n == Len(findtext)
           q == F[n]
           w == PlaceWord(q)
           f == findtext[1]
           e == findtext[n]
           t == UpToOffset(F[1], s)
           b == TextTo(w, s2)
<1>1. n \in Nat /\ 1 < n /\ 1 \in 1 .. n /\ n \in 1 .. n
  <2>1. n \in Nat \ {0} /\ n # 1
    BY LookedIs
  <2> HIDE DEF n
  <2> QED BY <2>1
<1>2. f \in Seq(Symbol) /\ e \in Seq(Char) /\ e \in Seq(Symbol)
  BY <1>1, LookedIs, SeparatorsAre
<1>3. PICK u : Reaches(q, t, n - 1, u)
  BY <1>1, ReachesLast
<1>4. IsPlace(F[1]) /\ IsPlace(q)
  BY <1>1 DEF Chain
<1>5. w \in Word
  BY <1>4, TextsOfPlace
<1>6. s2 \in 1 .. Len(w) + 1 /\ TextTo(w, o2) = b \o e
  BY <1>5, WordIs DEF IsMatch
<1>7. b \in Seq(Char) /\ b \in Seq(Symbol)
  BY <1>5, <1>6, CharsTo, SeparatorsAre
<1>8. t \in Seq(Symbol)
  <2>1. PlaceWord(F[1]) \in Word /\ HeadTo(F[1]) \in Seq(Symbol)
    BY <1>4, TextsOfPlace
  <2>2. s \in 1 .. Len(PlaceWord(F[1])) + 1
    BY <2>1, WordIs DEF IsMatch
  <2>3. TextTo(PlaceWord(F[1]), s) \in Seq(Symbol)
    BY <2>1, <2>2, TextSplits
  <2> QED BY <2>1, <2>3, ConcatProperties DEF UpToOffset
<1>9. UpToOffset(q, o2) = HeadTo(q) \o (b \o e)
  BY <1>6 DEF UpToOffset
<1>10. HeadTo(q) = t \o u /\ Gaps(u, n - 1) /\ IsPrefix(f, u) /\ u \in Seq(Symbol)
  BY <1>3 DEF Reaches, Gaps
<1> HIDE DEF n, q, w, f, e, t, b
<1> DEFINE be == b \o e
           ub == u \o b
           g == u \o be
<1>11. be \in Seq(Char) /\ be \in Seq(Symbol)
  BY <1>2, <1>7, ConcatProperties
<1>12. ub \in Seq(Symbol) /\ Groups(u, b, e)
  BY <1>2, <1>7, <1>10, ConcatProperties, GroupsOf
<1>13. g = ub \o e
  BY <1>12 DEF Groups
<1>14. Groups(t, u, be)
  BY <1>8, <1>10, <1>11, GroupsOf
<1>15. UpToOffset(q, o2) = t \o g
  BY <1>9, <1>10, <1>14 DEF Groups
<1> HIDE DEF be, ub
<1>16. Gaps(g, n - 1) /\ IsPrefix(f, g)
  BY <1>2, <1>10, <1>11, GapsInText, PrefixOn
<1>17. IsSuffix(e, g)
  BY <1>2, <1>12, <1>13, SuffixOf
<1> HIDE DEF g
<1>18. n # 1
  BY <1>1
<1>19. FoundWords(g)
  BY <1>16, <1>17, <1>18 DEF FoundWords, n, f, e
<1> QED BY <1>15, <1>19 DEF FoundFrom, q, t, n

(* What a selection of d in these paragraphs has of the text.               *)
FoundIn(d) ==
  LET found == SubSeq(Text, FlatPlace(doc.paras, d.mark) + 1, FlatPlace(doc.paras, Cursor(d)))
      gaps == {i \in DOMAIN found : found[i] \in {SP, NL}}
  IN  /\ Cardinality(gaps) = Len(findtext) - 1
      /\ Len(findtext) = 1 => found = findtext[1]
      /\ IsPrefix(findtext[1], found)
      /\ IsSuffix(findtext[Len(findtext)], found)

LEMMA FoundBetween ==
  ASSUME NEW d, NEW q, NEW r, Stands(q, d.mark), Stands(r, Cursor(d)),
         NEW g, UpToOffset(r, d.co) = UpToOffset(q, d.mark[3]) \o g, FoundWords(g)
  PROVE  FoundIn(d)
<1> DEFINE t == UpToOffset(q, d.mark[3])
           c == Cursor(d)
           found == SubSeq(Text, FlatPlace(doc.paras, d.mark) + 1, FlatPlace(doc.paras, c))
<1>1. c[3] = d.co
  BY DEF Cursor
<1> HIDE DEF c
<1>2. PICK rest \in Seq(Symbol) : Text = UpToOffset(r, d.co) \o rest
  BY <1>1 DEF Stands, c
<1>3. FlatPlace(doc.paras, c) = Len(UpToOffset(r, d.co)) /\ FlatPlace(doc.paras, d.mark) = Len(t)
  BY <1>1 DEF Stands, c
<1>4. t \in Seq(Symbol) /\ g \in Seq(Symbol)
  BY DEF Stands, FoundWords, Gaps
<1> HIDE DEF t
<1>5. Text = Three(t, g, rest)
  BY <1>2 DEF Three, t
<1>6. FlatPlace(doc.paras, c) = Len(t) + Len(g)
  <2>1. Len(t \o g) = Len(t) + Len(g)
    BY <1>4, PartsOfConcat
  <2> QED BY <1>3, <2>1 DEF t
<1>7. found = g
  BY <1>3, <1>4, <1>5, <1>6, Middle
<1> HIDE DEF found
<1>8. Cardinality(GapsOf(found)) = Len(findtext) - 1
  BY <1>7 DEF FoundWords, Gaps
<1>9. FoundWords(found)
  BY <1>7
<1> QED BY <1>8, <1>9, Zenon DEF FoundIn, FoundWords, GapsOf, found, c

LEMMA SelectionIsText ==
  ASSUME Looked, doc.paras \in Seq(FullParagraph), NEW d, NEW F, NEW s, NEW o, SelectsText(d, F, s, o)
  PROVE  FoundIn(d)
<1> DEFINE n == Len(findtext)
           c == Cursor(d)
           m == d.mark
<1>1. /\ Chain(F, F[1]) /\ IsMatch(PlaceWord(F[1]), 1, m[3], o)
      /\ m[1] = F[1][1] /\ m[2] = F[1][2]
      /\ d.cp = F[n][1] /\ d.cw = F[n][2]
      /\ IsMatch(PlaceWord(F[n]), n, s, d.co)
      /\ n = 1 => s = m[3] /\ o = d.co
  BY Zenon DEF SelectsText
<1>2. c[1] = F[n][1] /\ c[2] = F[n][2] /\ c[3] = d.co
  BY <1>1 DEF Cursor
<1>3. n \in Nat /\ 1 \in 1 .. n /\ n \in 1 .. n
  BY LookedIs
<1> HIDE DEF n, c, m
<1>4. IsPlace(F[1]) /\ IsPlace(F[n])
  BY <1>1, <1>3 DEF Chain, n
<1>5. PlaceWord(F[1]) \in Word /\ PlaceWord(F[n]) \in Word
  BY <1>4, TextsOfPlace
<1>6. m[3] \in 1 .. Len(PlaceWord(F[1])) + 1
  BY <1>1, <1>5, WordIs DEF IsMatch
<1>7. d.co \in 1 .. Len(PlaceWord(F[n])) + 1
  BY <1>1, <1>5, WordIs DEF IsMatch
<1>8. Stands(F[1], m)
  BY <1>1, <1>4, <1>6, PlaceText
<1>9. Stands(F[n], c)
  BY <1>2, <1>4, <1>7, PlaceText
<1>10. FoundFrom(F[1], m[3], F[n], d.co)
  <2>1. CASE n = 1
    <3>1. IsMatch(PlaceWord(F[1]), 1, m[3], d.co)
      BY <1>1, <2>1
    <3> QED BY <1>4, <2>1, <3>1, FoundOne DEF n
  <2>2. CASE n # 1
    <3>1. /\ Len(findtext) # 1 /\ Chain(F, F[1]) /\ IsMatch(PlaceWord(F[1]), 1, m[3], o)
          /\ IsMatch(PlaceWord(F[Len(findtext)]), Len(findtext), s, d.co)
      BY <1>1, <2>2 DEF n
    <3>2. FoundFrom(F[1], m[3], F[Len(findtext)], d.co)
      BY <3>1, FoundMany
    <3> QED BY <3>2 DEF n
  <2> QED BY <2>1, <2>2
<1> QED BY <1>8, <1>9, <1>10, FoundBetween DEF FoundFrom, m, c

-----------------------------------------------------------------------------
(* The theorem.                                                             *)

LEMMA FoundKept ==
  ASSUME SearchInv, FoundIsText, [SearchNext]_searchvars
  PROVE  FoundIsText'
<1>1. Good(doc) /\ doc.paras \in Seq(FullParagraph)
  BY FilledIs DEF SearchInv, WordInv, Held, Good
<1>2. ASSUME outcome' # "found" PROVE FoundIsText'
  BY <1>2 DEF FoundIsText
<1>3. ASSUME NEW t \in Texts, NEW r \in Replacements, Find(t, r) PROVE FoundIsText'
  BY <1>2, <1>3 DEF Find, Search
<1>4. CASE FindNext
  BY <1>2, <1>4 DEF FindNext, Search
<1>5. CASE ReplaceThenFind
  BY <1>2, <1>5 DEF ReplaceThenFind, Search
<1>6. CASE OtherKeys \/ ReplaceBeforeFind
  BY <1>2, <1>6 DEF OtherKeys, ReplaceBeforeFind
<1>7. CASE UNCHANGED searchvars
  <2>1. doc' = doc /\ findtext' = findtext /\ outcome' = outcome
    BY <1>7 DEF searchvars, vars
  <2> QED BY <2>1, Zenon DEF FoundIsText, Place, Text
<1>8. CASE Look
  <2>1. /\ at # <<>> /\ findtext' = findtext
        /\ IF Found THEN doc' = Selection /\ outcome' = "found" /\ at' = <<>>
           ELSE IF Done THEN doc' = doc /\ outcome' = "not found" /\ at' = <<>>
           ELSE doc' = doc /\ outcome' = outcome /\ at' = Advanced
    BY <1>8, Zenon DEF Look
  <2>2. Looked /\ WordAt(doc.paras, at)
    BY <2>1 DEF SearchInv
  <2>3. CASE Found
    <3>1. doc' = Selection
      BY <2>1, <2>3
    <3>2. Selection.paras = doc.paras /\ \E F, s, o : SelectsText(Selection, F, s, o)
      BY <1>1, <2>2, <2>3, SelectionIs
    <3>3. FoundIn(Selection)
      BY <1>1, <2>2, <3>2, SelectionIsText
    <3>4. doc'.paras = doc.paras /\ FoundIn(doc')
      BY <3>1, <3>2, <3>3
    <3> QED BY <2>1, <3>4, Zenon DEF FoundIn, FoundIsText, Place, Text
  <2>4. CASE ~Found
    <3>1. CASE Done
      BY <1>2, <2>1, <2>4, <3>1
    <3>2. CASE ~Done
      <4>1. doc' = doc /\ findtext' = findtext /\ outcome' = outcome
        BY <2>1, <2>4, <3>2
      <4> QED BY <4>1, Zenon DEF FoundIsText, Place, Text
    <3> QED BY <3>1, <3>2
  <2> QED BY <2>3, <2>4
<1> QED BY <1>3, <1>4, <1>5, <1>6, <1>7, <1>8 DEF SearchNext

(* In a document of any size, what Cmd.FindNext (navigate.lua) selects is   *)
(* the text looked for: it begins with its first word and ends with its     *)
(* last, has a space or the end of a paragraph for each of its spaces, and  *)
(* is the word itself if there is but one, whatever style codes are in it.  *)
THEOREM FoundCorrect == SearchSpec => []FoundIsText
<1>1. SearchInit => SearchInv /\ FoundIsText
  <2>1. SearchInit => outcome = "none"
    BY Zenon DEF SearchInit
  <2>2. "none" # "found"
    OBVIOUS
  <2>3. SearchInit => FoundIsText
    BY <2>1, <2>2 DEF FoundIsText
  <2> QED BY <2>3, SearchBegins
<1>2. SearchInv /\ FoundIsText /\ [SearchNext]_searchvars => SearchInv' /\ FoundIsText'
  BY SearchKeeps, FoundKept
<1> QED BY <1>1, <1>2, PTL DEF SearchSpec
-----------------------------------------------------------------------------
(* Where the text looked for is in the document, the search finds it.       *)

LEMMA CharsInMore ==
  ASSUME NEW word, NEW s \in Nat, NEW a \in Nat, NEW b \in Nat, s <= b, a <= b
  PROVE  /\ CharsIn(word, s, a) \subseteq CharsIn(word, s, b)
         /\ Cardinality(CharsIn(word, s, a)) <= Cardinality(CharsIn(word, s, b))
         /\ a < b /\ ~IsCode(word[b]) => Cardinality(CharsIn(word, s, a)) < Cardinality(CharsIn(word, s, b))
<1>1. ASSUME NEW i \in Int, NEW k \in Int, i <= k
      PROVE  /\ CharsIn(word, s, i) \subseteq CharsIn(word, s, k)
             /\ Cardinality(CharsIn(word, s, i)) <= Cardinality(CharsIn(word, s, k))
  <2> DEFINE I == CharsIn(word, s, i)
             K == CharsIn(word, s, k)
  <2>1. I \in SUBSET K
    BY <1>1 DEF CharsIn
  <2>2. IsFiniteSet(K)
    BY CharsInFinite
  <2> HIDE DEF I, K
  <2>3. Cardinality(I) <= Cardinality(K)
    BY <2>1, <2>2, FS_Subset
  <2> QED BY <2>1, <2>3 DEF I, K
<1>2. ASSUME a < b, ~IsCode(word[b])
      PROVE  Cardinality(CharsIn(word, s, a)) < Cardinality(CharsIn(word, s, b))
  <2> DEFINE A == CharsIn(word, s, a)
             B == CharsIn(word, s, b)
             C == CharsIn(word, s, b - 1)
  <2>1. Cardinality(A) <= Cardinality(C)
    BY <1>1, <1>2
  <2>2. Cardinality(B) = Cardinality(C) + 1
    BY <1>2, CharsInOn
  <2>3. Cardinality(A) \in Nat /\ Cardinality(C) \in Nat
    BY CharsInFinite
  <2> HIDE DEF A, B, C
  <2>4. Cardinality(A) < Cardinality(B)
    BY <2>1, <2>2, <2>3
  <2> QED BY <2>4 DEF A, B
<1>3. /\ CharsIn(word, s, a) \subseteq CharsIn(word, s, b)
      /\ Cardinality(CharsIn(word, s, a)) <= Cardinality(CharsIn(word, s, b))
  BY <1>1
<1> QED BY <1>2, <1>3

(* Every character between the offsets is at its place in the text. *)
LEMMA RangeChars ==
  ASSUME NEW word \in Word, NEW s \in 1 .. Len(word) + 1, NEW e \in s .. Len(word),
         NEW t, IsRange(word, s, e, t), NEW o \in CharsIn(word, s, e)
  PROVE  /\ Cardinality(CharsIn(word, s, o)) \in 1 .. Len(t)
         /\ word[o] = t[Cardinality(CharsIn(word, s, o))]
<1> DEFINE c == Cardinality(CharsIn(word, s, o))
<1>1. /\ s \in Nat /\ e \in Nat /\ o \in Nat /\ s <= o /\ o <= e /\ ~IsCode(word[o])
      /\ Len(word) \in Nat
  BY WordIs DEF CharsIn
<1>2. /\ t \in Seq(Char) /\ Len(t) = Cardinality(CharsIn(word, s, e))
      /\ \A j \in 1 .. Len(t) : \E i \in CharsIn(word, s, e) :
           Cardinality(CharsIn(word, s, i)) = j /\ word[i] = t[j]
  BY DEF IsRange
<1>3. c \in Nat /\ c <= Len(t)
  <2>1. c <= Cardinality(CharsIn(word, s, e))
    BY <1>1, CharsInMore
  <2>2. c \in Nat
    BY <1>1, CharsInFinite
  <2> QED BY <1>2, <2>1, <2>2
<1>4. c >= 1
  <2>1. o \in CharsIn(word, s, o) /\ IsFiniteSet(CharsIn(word, s, o))
    BY <1>1, CharsInFinite DEF CharsIn
  <2>2. c # 0
    BY <2>1, FS_EmptySet
  <2> HIDE DEF c
  <2> QED BY <1>3, <2>2
<1> HIDE DEF c
<1>5. c \in 1 .. Len(t)
  <2>1. Len(t) \in Nat
    BY <1>2, LenProperties
  <2> QED BY <1>3, <1>4, <2>1
<1>6. PICK i \in CharsIn(word, s, e) : Cardinality(CharsIn(word, s, i)) = c /\ word[i] = t[c]
  BY <1>2, <1>5
<1>7. i \in Nat /\ s <= i /\ ~IsCode(word[i])
  BY <1>1 DEF CharsIn
<1>8. i = o
  <2>1. ~(i < o)
    <3>1. i < o => Cardinality(CharsIn(word, s, i)) < c
      BY <1>1, <1>7, CharsInMore DEF c
    <3> QED BY <1>3, <1>6, <3>1
  <2>2. ~(o < i)
    <3>1. o < i => c < Cardinality(CharsIn(word, s, i))
      BY <1>1, <1>7, CharsInMore DEF c
    <3> QED BY <1>3, <1>6, <3>1
  <2> QED BY <1>1, <1>7, <2>1, <2>2
<1> QED BY <1>5, <1>6, <1>8 DEF c

LEMMA FromRange ==
  ASSUME NEW word \in Word, NEW s \in 1 .. Len(word) + 1
  PROVE  IsRange(word, s, Len(word), TextFrom(word, s))
<1> DEFINE n == Len(word)
           v == TextFrom(word, s)
<1>1. n \in Nat /\ n \in s - 1 .. n
  BY WordIs
<1>2. PICK t : IsRange(word, s, n, t)
  BY <1>1, RangeIs
<1>3. t \in Seq(Char) /\ TextTo(word, n + 1) = TextTo(word, s) \o t
  BY <1>2 DEF IsRange
<1>4. TextTo(word, n + 1) = GetWordText(word) /\ GetWordText(word) = TextTo(word, s) \o v
  BY TextSplits
<1>5. TextTo(word, s) \in Seq(Char) /\ v \in Seq(Char)
  BY CharsTo
<1> HIDE DEF v
<1>6. v = t
  BY <1>3, <1>4, <1>5, Cancel
<1> QED BY <1>2, <1>6 DEF v

LEMMA NoTextBetween ==
  ASSUME NEW word \in Word, NEW s \in 1 .. Len(word) + 1, NEW o \in s .. Len(word) + 1,
         CharsIn(word, s, o - 1) = {}
  PROVE  TextTo(word, o) = TextTo(word, s) /\ TextFrom(word, o) = TextFrom(word, s)
<1>1. o - 1 \in s - 1 .. Len(word) /\ (o - 1) + 1 = o /\ o \in 1 .. Len(word) + 1
  BY WordIs
<1>2. PICK t : IsRange(word, s, o - 1, t)
  BY <1>1, RangeIs
<1>3. t \in Seq(Char) /\ Len(t) = 0 /\ TextTo(word, o) = TextTo(word, s) \o t
  BY <1>1, <1>2, FS_EmptySet DEF IsRange
<1>4. t = <<>>
  BY <1>3, EmptySeq
<1>5. /\ TextTo(word, s) \in Seq(Char) /\ TextFrom(word, s) \in Seq(Char)
      /\ TextFrom(word, o) \in Seq(Char)
  BY <1>1, CharsTo
<1>6. TextTo(word, o) = TextTo(word, s)
  BY <1>3, <1>4, <1>5, EmptyAround
<1>7. /\ GetWordText(word) = TextTo(word, s) \o TextFrom(word, s)
      /\ GetWordText(word) = TextTo(word, o) \o TextFrom(word, o)
  BY <1>1, TextSplits
<1>8. TextFrom(word, o) = TextFrom(word, s)
  BY <1>5, <1>6, <1>7, Cancel
<1> QED BY <1>6, <1>8

(* From an offset on, the text of a word begins at a character. *)
LEMMA FirstChar ==
  ASSUME NEW word \in Word, NEW s \in 1 .. Len(word) + 1, NonEmpty(TextFrom(word, s))
  PROVE  \E o \in s .. Len(word) :
           /\ ~IsCode(word[o]) /\ word[o] = TextFrom(word, s)[1]
           /\ TextTo(word, o) = TextTo(word, s) /\ TextFrom(word, o) = TextFrom(word, s)
<1> DEFINE n == Len(word)
           v == TextFrom(word, s)
<1>1. n \in Nat /\ s \in Nat
  BY WordIs
<1>2. IsRange(word, s, n, v) /\ v \in Seq(Char)
  BY FromRange, CharsTo
<1>3. 1 \in 1 .. Len(v)
  <2>1. Len(v) \in Nat /\ Len(v) # 0
    BY <1>2, EmptySeq, LenProperties DEF NonEmpty
  <2> HIDE DEF v
  <2> QED BY <2>1
<1> HIDE DEF v
<1>4. PICK o \in CharsIn(word, s, n) : Cardinality(CharsIn(word, s, o)) = 1 /\ word[o] = v[1]
  BY <1>2, <1>3 DEF IsRange
<1>5. o \in s .. n /\ ~IsCode(word[o]) /\ o \in Nat
  BY <1>1, <1>4 DEF CharsIn
<1>6. CharsIn(word, s, o - 1) = {}
  <2> DEFINE b == CharsIn(word, s, o - 1)
  <2>1. 1 = Cardinality(b) + 1
    <3>1. o >= s
      BY <1>5
    <3> QED BY <1>1, <1>4, <1>5, <3>1, CharsInOn
  <2>2. IsFiniteSet(b) /\ Cardinality(b) \in Nat
    BY <1>1, <1>5, CharsInFinite
  <2> HIDE DEF b
  <2>3. Cardinality(b) = 0
    BY <2>1, <2>2
  <2>4. b = {}
    BY <2>2, <2>3, FS_EmptySet
  <2> QED BY <2>4 DEF b
<1>7. o \in s .. Len(word) + 1
  BY <1>1, <1>5
<1>8. TextTo(word, o) = TextTo(word, s) /\ TextFrom(word, o) = v
  BY <1>6, <1>7, NoTextBetween DEF v
<1> QED BY <1>4, <1>5, <1>8 DEF v

BeginsWith(v, w) == Len(w) <= Len(v) /\ \A j \in 1 .. Len(w) : v[j] = w[j]

(* Where the text is that is looked for, the pattern matches.               *)
LEMMA TextMatched ==
  ASSUME NEW word \in Word, NEW w \in Seq(Char), NonEmpty(w), NEW s \in 1 .. Len(word),
         word[s] = w[1], NEW v, v = TextFrom(word, s), BeginsWith(v, w)
  PROVE  LET e == LastOffset(word, w, s)
         IN  /\ e # 0
             /\ Len(v) = Len(w) => \A o \in e + 1 .. Len(word) : IsCode(word[o])
<1> DEFINE n == Len(word)
           C(k) == CharsIn(word, s, k)
           ends == {k \in s .. Len(word) :
                      /\ word[k] = w[Len(w)] /\ Cardinality(C(k)) = Len(w)
                      /\ \A o \in C(k) : word[o] = w[Cardinality(C(o))]}
           e == LastOffset(word, w, s)
<1>1. n \in Nat /\ s \in Nat /\ s \in 1 .. n + 1 /\ n \in s .. n
  BY WordIs
<1>2. IsRange(word, s, n, v) /\ v \in Seq(Char)
  BY <1>1, FromRange, CharsTo
<1>3. Len(w) \in Nat /\ Len(w) >= 1 /\ Len(v) \in Nat /\ Len(w) \in 1 .. Len(v) /\ Len(w) \in 1 .. Len(w)
  <2>1. Len(w) \in Nat /\ Len(w) # 0 /\ Len(v) \in Nat
    BY <1>2, EmptySeq, LenProperties DEF NonEmpty
  <2>2. Len(w) <= Len(v)
    BY DEF BeginsWith
  <2> QED BY <2>1, <2>2
<1>4. \A j \in 1 .. Len(w) : v[j] = w[j]
  BY DEF BeginsWith
<1>5. Cardinality(C(n)) = Len(v)
  BY <1>2 DEF IsRange
<1>6. \A o \in C(n) : Cardinality(C(o)) \in 1 .. Len(v) /\ word[o] = v[Cardinality(C(o))]
  BY <1>1, <1>2, RangeChars
<1>7. PICK k \in C(n) : Cardinality(C(k)) = Len(w) /\ word[k] = v[Len(w)]
  BY <1>2, <1>3 DEF IsRange
<1>8. k \in s .. n /\ k \in Nat
  BY <1>1 DEF CharsIn
<1>9. \A o \in C(k) : o \in C(n) /\ o \in Nat /\ s <= o /\ o <= k
  BY <1>1, <1>8 DEF CharsIn
<1>10. ASSUME NEW o \in C(k) PROVE word[o] = w[Cardinality(C(o))]
  <2>1. Cardinality(C(o)) <= Cardinality(C(k))
    BY <1>1, <1>8, <1>9, CharsInMore
  <2>2. Cardinality(C(o)) \in 1 .. Len(v) /\ word[o] = v[Cardinality(C(o))]
    BY <1>6, <1>9
  <2> HIDE DEF C
  <2>3. Cardinality(C(o)) \in 1 .. Len(w)
    BY <1>3, <1>7, <2>1, <2>2
  <2> QED BY <1>4, <2>2, <2>3
<1>11. k \in ends
  <2>1. word[k] = w[Len(w)]
    BY <1>3, <1>4, <1>7
  <2> HIDE DEF C
  <2> QED BY <1>7, <1>8, <1>10, <2>1
<1>12. e = IF word[s] # w[1] \/ ends = {} THEN 0 ELSE CHOOSE i \in ends : TRUE
  BY Zenon DEF LastOffset, CharsIn
<1>13. e \in ends
  <2> HIDE DEF ends, e
  <2> QED BY <1>11, <1>12
<1> HIDE DEF e
<1>14. e \in s .. n /\ Cardinality(C(e)) = Len(w)
  BY <1>13
<1>15. e # 0 /\ e \in Nat
  BY <1>1, <1>14
<1>16. ASSUME Len(v) = Len(w), NEW o \in e + 1 .. n PROVE IsCode(word[o])
  <2>1. C(e) \in SUBSET C(n) /\ IsFiniteSet(C(n))
    BY <1>1, <1>14, <1>15, CharsInFinite DEF CharsIn
  <2>2. Cardinality(C(n)) = Cardinality(C(e))
    BY <1>5, <1>14, <1>16
  <2>3. C(n) = C(e)
    <3> HIDE DEF C
    <3> QED BY <2>1, <2>2, FS_Subset
  <2>4. o \in s .. n /\ ~(o \in s .. e)
    BY <1>1, <1>14, <1>15
  <2> QED BY <2>3, <2>4 DEF CharsIn
<1> QED BY <1>15, <1>16 DEF e

LEMMA WordMatched ==
  ASSUME NEW word \in Word, NEW w \in Seq(Char), NonEmpty(w), NEW s \in 1 .. Len(word) + 1,
         BeginsWith(TextFrom(word, s), w)
  PROVE  \E o \in s .. Len(word) :
           /\ TextTo(word, o) = TextTo(word, s)
           /\ LastOffset(word, w, o) # 0
           /\ Len(TextFrom(word, s)) = Len(w) =>
                \A i \in LastOffset(word, w, o) + 1 .. Len(word) : IsCode(word[i])
<1> DEFINE v == TextFrom(word, s)
<1>1. v \in Seq(Char)
  BY CharsTo
<1>2. Len(w) \in Nat \ {0} /\ Len(w) <= Len(v) /\ v[1] = w[1]
  <2>1. Len(w) \in Nat /\ Len(w) # 0
    BY EmptySeq, LenProperties DEF NonEmpty
  <2>2. 1 \in 1 .. Len(w)
    BY <2>1
  <2> QED BY <2>1, <2>2 DEF BeginsWith
<1> HIDE DEF v
<1>3. NonEmpty(v)
  <2>1. v = <<>> => Len(v) = 0
    OBVIOUS
  <2> QED BY <1>2, <2>1 DEF NonEmpty
<1>4. PICK o \in s .. Len(word) :
        word[o] = v[1] /\ TextTo(word, o) = TextTo(word, s) /\ TextFrom(word, o) = v
  BY <1>3, FirstChar DEF v
<1>5. o \in 1 .. Len(word)
  BY WordIs
<1>6. BeginsWith(v, w)
  BY DEF v
<1>7. LET e == LastOffset(word, w, o)
      IN  /\ e # 0
          /\ Len(v) = Len(w) => \A i \in e + 1 .. Len(word) : IsCode(word[i])
  BY <1>2, <1>4, <1>5, <1>6, TextMatched
<1> QED BY <1>4, <1>7 DEF v

LEMMA OffsetOf ==
  ASSUME NEW word \in Word, NEW s \in 1 .. Len(word) + 1, NEW j \in 0 .. Len(TextFrom(word, s))
  PROVE  \E o \in s .. Len(word) + 1 : Len(TextTo(word, o)) = Len(TextTo(word, s)) + j
<1> DEFINE v == TextFrom(word, s)
<1>1. s \in Nat /\ Len(word) \in Nat /\ v \in Seq(Char) /\ TextTo(word, s) \in Seq(Char)
  BY CharsTo, WordIs
<1>2. Len(TextTo(word, s)) \in Nat
  BY <1>1, LenProperties
<1>3. CASE j = 0
  <2>1. s \in s .. Len(word) + 1
    BY <1>1
  <2> QED BY <1>2, <1>3, <2>1
<1>4. CASE j # 0
  <2>1. j \in 1 .. Len(v)
    BY <1>1, <1>4, LenProperties
  <2>2. PICK i \in CharsIn(word, s, Len(word)) : Cardinality(CharsIn(word, s, i)) = j
    BY <2>1, FromRange DEF IsRange
  <2>3. i \in s .. Len(word)
    BY DEF CharsIn
  <2>4. i \in s - 1 .. Len(word) /\ i + 1 \in s .. Len(word) + 1
    BY <1>1, <2>3
  <2>5. PICK t : IsRange(word, s, i, t)
    BY <2>4, RangeIs
  <2>6. t \in Seq(Char) /\ Len(t) = j /\ TextTo(word, i + 1) = TextTo(word, s) \o t
    BY <2>2, <2>5 DEF IsRange
  <2>7. Len(TextTo(word, i + 1)) = Len(TextTo(word, s)) + j
    BY <1>1, <2>6, PartsOfConcat
  <2> QED BY <2>4, <2>7
<1> QED BY <1>3, <1>4

-----------------------------------------------------------------------------
(* The symbols of the text looked for.                                      *)

(* How many come before its k-th word. *)
Off(k) == Len(Leads(SubSeq(findtext, 1, k - 1), SP))

WordInSymbols(k) ==
  /\ Off(k) \in Nat /\ Len(Symbols) \in Nat /\ DOMAIN Symbols = 1 .. Len(Symbols)
  /\ Off(k) + Len(findtext[k]) <= Len(Symbols)
  /\ \A j \in 1 .. Len(findtext[k]) : Symbols[Off(k) + j] = findtext[k][j]

GapInSymbols(k) ==
  /\ Off(k) + Len(findtext[k]) + 1 <= Len(Symbols)
  /\ Symbols[Off(k) + Len(findtext[k]) + 1] = SP
  /\ Off(k + 1) = Off(k) + Len(findtext[k]) + 1

LEMMA LookedSymbols ==
  ASSUME Looked
  PROVE  findtext \in Seq(Seq(Symbol)) /\ SP \in Symbol
<1>1. findtext \in Seq(Seq(Char) \ {<<>>})
  BY DEF Looked
<1>2. Len(findtext) \in Nat /\ \A i \in 1 .. Len(findtext) : findtext[i] \in Seq(Symbol)
  BY LookedIs, SeparatorsAre
<1>3. IsSeq(findtext)
  BY <1>1 DEF IsSeq
<1> QED BY <1>2, <1>3, SeqOfElements, SeparatorsAre

LEMMA FirstOff == Looked => Off(1) = 0
<1>1. SubSeq(findtext, 1, 0) = <<>> /\ 1 - 1 = 0
  OBVIOUS
<1>2. Off(1) = Len(Leads(<<>>, SP))
  BY <1>1 DEF Off
<1> QED BY <1>2 DEF Leads

LEMMA SymbolsAre ==
  ASSUME Looked, NEW k \in 1 .. Len(findtext)
  PROVE  WordInSymbols(k) /\ (k < Len(findtext) => GapInSymbols(k))
<1> DEFINE n == Len(findtext)
           x == findtext[k]
           a == SubSeq(findtext, 1, k - 1)
           b == SubSeq(findtext, k + 1, Len(findtext))
           l == Leads(a, SP)
           r == Trails(b, SP)
           lx == l \o x
<1>1. findtext \in Seq(Seq(Symbol)) /\ SP \in Symbol /\ n \in Nat
  BY LookedSymbols, LookedIs
<1>2. /\ a \in Seq(Seq(Symbol)) /\ b \in Seq(Seq(Symbol)) /\ x \in Seq(Symbol)
      /\ findtext = Around(a, x, b)
  BY <1>1, CutAt DEF Around
<1>3. Len(b) = n - k /\ Len(b) \in Nat
  <2>1. Len(b) = IF k + 1 <= n THEN n - (k + 1) + 1 ELSE 0
    <3>1. IsSeq(findtext) /\ k + 1 \in Nat /\ k + 1 >= 1 /\ n \in Int /\ n <= Len(findtext)
      BY <1>1 DEF IsSeq
    <3> QED BY <3>1, SeqPart
  <2> QED BY <1>1, <2>1
<1>4. SubSeq(findtext, 1, k) = With(a, x)
  BY <1>1, FirstOnes
<1>5. Off(k) = Len(l) /\ Off(k + 1) = Len(Leads(SubSeq(findtext, 1, k), SP))
  <2>1. (k + 1) - 1 = k
    BY <1>1
  <2> QED BY <2>1 DEF Off
<1> HIDE DEF a, b, x, l, r, n
<1>6. Symbols = Three(l, x, r)
  BY <1>1, <1>2, JoinedAround DEF Symbols, l, r
<1>7. l \in Seq(Symbol) /\ r \in Seq(Symbol)
  BY <1>1, <1>2, LeadsType DEF l, r
<1>8. /\ lx \in Seq(Symbol) /\ Len(lx) = Len(l) + Len(x) /\ Len(l) \in Nat /\ Len(x) \in Nat
      /\ \A j \in 1 .. Len(x) : lx[Len(l) + j] = x[j]
  <2>1. IsSeq(l) /\ IsSeq(x)
    BY <1>2, <1>7 DEF IsSeq
  <2> QED BY <1>2, <1>7, <2>1, PartsOfConcat, SeqConcat
<1> HIDE DEF lx
<1>9. /\ Symbols = lx \o r /\ Symbols \in Seq(Symbol)
      /\ Len(Symbols) = Len(lx) + Len(r) /\ Len(r) \in Nat
      /\ \A j \in 1 .. Len(lx) : Symbols[j] = lx[j]
      /\ \A j \in 1 .. Len(r) : Symbols[Len(lx) + j] = r[j]
  <2>1. IsSeq(lx) /\ IsSeq(r)
    BY <1>7, <1>8 DEF IsSeq
  <2>2. Symbols = lx \o r
    BY <1>6 DEF Three, lx
  <2>3. /\ lx \o r \in Seq(Symbol) /\ Len(lx \o r) = Len(lx) + Len(r) /\ Len(r) \in Nat
    BY <1>7, <1>8, PartsOfConcat
  <2>4. /\ \A j \in 1 .. Len(lx) : (lx \o r)[j] = lx[j]
        /\ \A j \in 1 .. Len(r) : (lx \o r)[Len(lx) + j] = r[j]
    BY <2>1, SeqConcat
  <2> QED BY <2>2, <2>3, <2>4
<1>10. DOMAIN Symbols = 1 .. Len(Symbols)
  BY <1>9, LenProperties
<1>11. WordInSymbols(k)
  <2>1. Off(k) \in Nat /\ Len(Symbols) \in Nat /\ Off(k) + Len(x) <= Len(Symbols)
    BY <1>5, <1>8, <1>9
  <2>2. ASSUME NEW j \in 1 .. Len(x) PROVE Symbols[Off(k) + j] = x[j]
    <3>1. Len(l) + j \in 1 .. Len(lx)
      BY <1>8
    <3> QED BY <1>5, <1>8, <1>9, <3>1
  <2> QED BY <1>10, <2>1, <2>2 DEF WordInSymbols, x
<1>12. ASSUME k < n PROVE GapInSymbols(k)
  <2>1. b # <<>>
    <3>1. Len(b) # 0
      BY <1>1, <1>3, <1>12
    <3>2. b = <<>> => Len(b) = 0
      OBVIOUS
    <3> QED BY <3>1, <3>2
  <2>2. r = <<SP>> \o Joined(b, SP)
    BY <2>1 DEF r, Trails
  <2>3. Len(r) >= 1 /\ r[1] = SP
    <3> DEFINE h == <<SP>>
               j == Joined(b, SP)
    <3>1. h \in Seq(Symbol) /\ Len(h) = 1 /\ h[1] = SP
      BY <1>1, OneElement
    <3>2. j \in Seq(Symbol)
      BY <1>1, <1>2, <2>1, JoinedType DEF NonEmpty
    <3>3. r = h \o j
      BY <2>2
    <3> HIDE DEF h, j
    <3>4. IsSeq(h) /\ IsSeq(j) /\ Len(j) \in Nat
      BY <3>1, <3>2, LenProperties DEF IsSeq
    <3>5. Len(h \o j) = Len(h) + Len(j) /\ \A i \in 1 .. Len(h) : (h \o j)[i] = h[i]
      BY <3>4, SeqConcat
    <3>6. Len(h \o j) >= 1 /\ 1 \in 1 .. Len(h)
      BY <3>1, <3>4, <3>5
    <3> QED BY <3>1, <3>3, <3>5, <3>6
  <2>4. Symbols[Len(lx) + 1] = SP /\ Len(lx) + 1 <= Len(Symbols)
    <3>1. 1 \in 1 .. Len(r)
      BY <1>9, <2>3
    <3> QED BY <1>8, <1>9, <2>3, <3>1
  <2>5. Off(k + 1) = Len(lx) + 1
    <3> DEFINE h == <<SP>>
    <3>1. Off(k + 1) = Len(lx \o h)
      BY <1>1, <1>2, <1>4, <1>5, LeadsOn DEF With, lx, l
    <3>2. h \in Seq(Symbol) /\ Len(h) = 1
      BY <1>1, OneElement
    <3> HIDE DEF h
    <3>3. Len(lx \o h) = Len(lx) + Len(h)
      BY <1>8, <3>2, PartsOfConcat
    <3> QED BY <3>1, <3>2, <3>3
  <2>6. Len(lx) = Off(k) + Len(x)
    BY <1>5, <1>8
  <2> QED BY <2>4, <2>5, <2>6 DEF GapInSymbols, x
<1> QED BY <1>11, <1>12 DEF n

(* The text up to the end of a word. *)
EndOf(q) == HeadTo(q) \o GetWordText(PlaceWord(q))

(* After a word comes a gap, unless it is the last one. *)
LEMMA TextAfter ==
  ASSUME doc.paras \in Seq(FullParagraph), NEW q, IsPlace(q)
  PROVE  /\ Following(q) = NoPlace => Text = EndOf(q)
         /\ Following(q) # NoPlace =>
              /\ Len(HeadTo(Following(q))) = Len(EndOf(q)) + 1
              /\ Len(EndOf(q)) + 1 <= Len(Text)
              /\ Text[Len(EndOf(q)) + 1] \in {SP, NL}
<1> DEFINE t == EndOf(q)
           r == Following(q)
<1>1. q[1] \in Nat /\ q[2] \in Nat /\ q[1] \in 1 .. Len(doc.paras) /\ q[2] \in 1 .. Len(doc.paras[q[1]])
  BY DEF IsPlace
<1>2. t \in Seq(Symbol)
  <2>1. HeadTo(q) \in Seq(Symbol) /\ GetWordText(PlaceWord(q)) \in Seq(Symbol)
    BY TextsOfPlace, SeparatorsAre
  <2> QED BY <2>1, ConcatProperties DEF EndOf
<1>3. ASSUME r = NoPlace PROVE Text = t
  <2> DEFINE ps == doc.paras
             m == <<q[1], q[2], 1>>
             P == SubSeq(ps, 1, m[1] - 1)
             R == SubSeq(ps, m[1] + 1, Len(ps))
             A == SubSeq(ps[m[1]], 1, m[2] - 1)
             B == SubSeq(ps[m[1]], m[2] + 1, Len(ps[m[1]]))
             w == ps[m[1]][m[2]]
             a == <<q[1], q[2] + 1>>
             b == <<q[1] + 1, 1>>
  <2>1. m[1] = q[1] /\ m[2] = q[2] /\ m[3] = 1 /\ a # NoPlace /\ b # NoPlace
    BY <1>1 DEF NoPlace
  <2>2. r = IF q[2] < Len(ps[q[1]]) THEN a ELSE IF q[1] < Len(ps) THEN b ELSE NoPlace
    BY Zenon DEF Following, FollowingWord
  <2>3. ~(q[2] < Len(ps[q[1]])) /\ ~(q[1] < Len(ps))
    <3> HIDE DEF r, a, b
    <3> QED BY <1>3, <2>1, <2>2
  <2>4. WordAt(ps, m)
    BY <1>1, <2>1 DEF WordAt
  <2> HIDE DEF m, a, b, r
  <2>5. IsZip(P, A, w, B, R) /\ ps = ZipOf(P, A, w, B, R)
    BY <2>4, Located
  <2>6. B = <<>> /\ R = <<>>
    <3>1. m[2] + 1 > Len(ps[m[1]]) /\ m[1] + 1 > Len(ps)
      <4>1. Len(ps) \in Nat /\ ps[q[1]] \in FullParagraph
        BY <1>1, ElementOfSeq, LenProperties
      <4>2. Len(ps[q[1]]) \in Nat
        BY <4>1, FullParagraphSeq
      <4> QED BY <1>1, <2>1, <2>3, <4>1, <4>2
    <3>2. IsSeq(ps) /\ IsSeq(ps[m[1]]) /\ m[1] + 1 \in Nat /\ m[2] + 1 \in Nat
      <4>1. ps[q[1]] \in FullParagraph
        BY <1>1, ElementOfSeq
      <4>2. ps[q[1]] \in Seq(Word)
        BY <4>1, FullParagraphSeq
      <4> QED BY <1>1, <2>1, <4>2 DEF IsSeq
    <3> DEFINE c == m[1] + 1
               d == m[2] + 1
               s == ps[m[1]]
    <3>3. c >= 1 /\ d >= 1 /\ c \in Nat /\ d \in Nat /\ c > Len(ps) /\ d > Len(s)
      BY <1>1, <2>1, <3>1, <3>2
    <3> HIDE DEF c, d, s, ps
    <3>4. Len(ps) \in Int /\ Len(s) \in Int
      BY <3>2, SeqIs DEF s
    <3>5. /\ IsSeq(SubSeq(ps, c, Len(ps))) /\ Len(SubSeq(ps, c, Len(ps))) = 0
          /\ IsSeq(SubSeq(s, d, Len(s))) /\ Len(SubSeq(s, d, Len(s))) = 0
      BY <3>2, <3>3, <3>4, SeqPart DEF s
    <3>6. SubSeq(s, d, Len(s)) = <<>> /\ SubSeq(ps, c, Len(ps)) = <<>>
      <4>1. ~(0 >= 1)
        OBVIOUS
      <4> QED BY <3>5, <4>1, SeqIs
    <3> QED BY <3>6 DEF c, d, s, ps
  <2>7. HeadTo(q) = Pre(P, A) /\ PlaceWord(q) = w
    BY <2>1 DEF HeadTo, PlaceWord
  <2> HIDE DEF P, A, B, R, w, ps
  <2>8. /\ Flat(ps) = Three(Pre(P, A), GetWordText(w), Post(B, R))
        /\ Pre(P, A) \in Seq(Symbol) /\ GetWordText(w) \in Seq(Symbol)
    BY <2>5, ZipText
  <2>9. Post(B, R) = <<>>
    BY <2>6, EmptyPost
  <2>10. Flat(ps) = t \o <<>>
    BY <2>7, <2>8, <2>9 DEF Three, EndOf
  <2> QED BY <1>2, <2>10, EmptyAround DEF Text, ps
<1>4. ASSUME r # NoPlace
      PROVE  Len(HeadTo(r)) = Len(t) + 1 /\ Len(t) + 1 <= Len(Text) /\ Text[Len(t) + 1] \in {SP, NL}
  <2>1. PICK x \in {SP, NL} : HeadIs(q, r, x)
    BY <1>4, HeadOn
  <2> DEFINE h == <<x>>
             th == t \o h
             m == <<r[1], r[2], 1>>
  <2>2. HeadTo(r) = th /\ h \in Seq(Symbol) /\ Len(h) = 1 /\ h[1] = x
    <3>1. x \in Symbol
      BY SeparatorsAre
    <3> QED BY <2>1, <3>1, OneElement DEF HeadIs, EndOf
  <2>3. m[1] = r[1] /\ m[2] = r[2] /\ m[3] = 1
    OBVIOUS
  <2>4. IsPlace(r)
    <3>1. q \in Nat \X Nat
      BY DEF IsPlace
    <3> QED BY <1>4, <3>1, FollowingIs
  <2> HIDE DEF h, t, r, m
  <2>5. PlaceWord(r) \in Word /\ 1 \in 1 .. Len(PlaceWord(r)) + 1
    BY <2>4, TextsOfPlace, WordIs
  <2>6. Stands(r, m)
    BY <2>3, <2>4, <2>5, PlaceText
  <2>7. /\ th \in Seq(Symbol) /\ Len(th) = Len(t) + 1 /\ Len(t) \in Nat
        /\ th[Len(t) + 1] = x
    <3>1. IsSeq(t) /\ IsSeq(h) /\ 1 \in 1 .. Len(h)
      BY <1>2, <2>2 DEF IsSeq
    <3>2. th[Len(t) + 1] = h[1]
      BY <3>1, SeqConcat
    <3>3. th \in Seq(Symbol) /\ Len(th) = Len(t) + Len(h) /\ Len(t) \in Nat
      BY <1>2, <2>2, PartsOfConcat
    <3> QED BY <2>2, <3>2, <3>3
  <2> HIDE DEF th
  <2>8. UpToOffset(r, 1) = th
    <3>1. TextTo(PlaceWord(r), 1) = <<>>
      BY <2>5, TextSplits
    <3> QED BY <2>2, <2>7, <3>1, EmptyAround DEF UpToOffset
  <2>9. PICK rest \in Seq(Symbol) : Text = th \o rest
    BY <2>3, <2>6, <2>8 DEF Stands
  <2>10. /\ Len(Text) = Len(th) + Len(rest) /\ Len(rest) \in Nat
         /\ \A j \in 1 .. Len(th) : Text[j] = th[j]
    <3>1. IsSeq(th) /\ IsSeq(rest)
      BY <2>7 DEF IsSeq
    <3>2. Len(th \o rest) = Len(th) + Len(rest) /\ Len(rest) \in Nat
      BY <2>7, PartsOfConcat
    <3>3. \A j \in 1 .. Len(th) : (th \o rest)[j] = th[j]
      BY <3>1, SeqConcat
    <3> QED BY <2>9, <3>2, <3>3
  <2>11. Len(t) + 1 \in 1 .. Len(th)
    BY <2>7
  <2>12. Text[Len(t) + 1] = x /\ Len(t) + 1 <= Len(Text)
    BY <2>7, <2>10, <2>11
  <2> QED BY <2>2, <2>7, <2>12
<1> QED BY <1>3, <1>4

(* What follows the first b symbols of the text. *)
TextHas(b, v) == b + Len(v) <= Len(Text) /\ \A j \in 1 .. Len(v) : Text[b + j] = v[j]

LEMMA WordInText ==
  ASSUME doc.paras \in Seq(FullParagraph), NEW q, IsPlace(q), NEW o \in 1 .. Len(PlaceWord(q)) + 1
  PROVE  /\ Len(UpToOffset(q, o)) \in Nat /\ Len(TextFrom(PlaceWord(q), o)) \in Nat
         /\ Len(Text) \in Nat
         /\ Len(EndOf(q)) = Len(UpToOffset(q, o)) + Len(TextFrom(PlaceWord(q), o))
         /\ TextHas(Len(UpToOffset(q, o)), TextFrom(PlaceWord(q), o))
<1> DEFINE w == PlaceWord(q)
           H == HeadTo(q)
           t == TextTo(w, o)
           v == TextFrom(w, o)
           u == UpToOffset(q, o)
           e == Len(w) + 1
           m == <<q[1], q[2], e>>
<1>1. w \in Word /\ H \in Seq(Symbol)
  BY TextsOfPlace
<1>2. /\ t \in Seq(Symbol) /\ v \in Seq(Symbol) /\ GetWordText(w) = t \o v
      /\ TextTo(w, e) = GetWordText(w)
  BY <1>1, TextSplits
<1>3. m[1] = q[1] /\ m[2] = q[2] /\ m[3] = e /\ e \in 1 .. Len(w) + 1
  BY <1>1, WordIs
<1> HIDE DEF m
<1>4. Stands(q, m)
  BY <1>3, PlaceText
<1>5. PICK rest \in Seq(Symbol) : Text = UpToOffset(q, e) \o rest
  BY <1>3, <1>4 DEF Stands
<1>6. UpToOffset(q, e) = EndOf(q) /\ u = H \o t
  BY <1>2 DEF UpToOffset, EndOf
<1>7. EndOf(q) = H \o (t \o v)
  BY <1>2 DEF EndOf
<1> HIDE DEF w, H, t, v, u, e
<1>8. Groups(H, t, v) /\ u \in Seq(Symbol)
  BY <1>1, <1>2, <1>6, GroupsOf, ConcatProperties
<1>9. EndOf(q) = u \o v
  BY <1>6, <1>7, <1>8 DEF Groups
<1> DEFINE uv == u \o v
<1>10. /\ uv \in Seq(Symbol) /\ Len(uv) = Len(u) + Len(v) /\ Len(u) \in Nat /\ Len(v) \in Nat
  BY <1>2, <1>8, PartsOfConcat
<1>11. \A j \in 1 .. Len(v) : uv[Len(u) + j] = v[j]
  <2>1. IsSeq(u) /\ IsSeq(v)
    BY <1>2, <1>8 DEF IsSeq
  <2> QED BY <2>1, SeqConcat
<1>12. Text = uv \o rest
  BY <1>5, <1>6, <1>9
<1> HIDE DEF uv
<1>13. /\ Len(Text) = Len(uv) + Len(rest) /\ Len(rest) \in Nat
       /\ \A j \in 1 .. Len(uv) : Text[j] = uv[j]
  <2>1. IsSeq(uv) /\ IsSeq(rest)
    BY <1>10 DEF IsSeq
  <2>2. Len(uv \o rest) = Len(uv) + Len(rest) /\ Len(rest) \in Nat
    BY <1>10, PartsOfConcat
  <2>3. \A j \in 1 .. Len(uv) : (uv \o rest)[j] = uv[j]
    BY <2>1, SeqConcat
  <2> QED BY <1>12, <2>2, <2>3
<1>14. TextHas(Len(u), v)
  <2>1. Len(u) + Len(v) <= Len(Text)
    BY <1>10, <1>13
  <2>2. ASSUME NEW j \in 1 .. Len(v) PROVE Text[Len(u) + j] = v[j]
    <3>1. Len(u) + j \in 1 .. Len(uv)
      BY <1>10
    <3> QED BY <1>11, <1>13, <3>1
  <2> QED BY <2>1, <2>2 DEF TextHas
<1>15. Len(EndOf(q)) = Len(u) + Len(v) /\ Len(Text) \in Nat
  BY <1>9, <1>10, <1>13 DEF uv
<1> QED BY <1>10, <1>14, <1>15 DEF u, v, w

(* Where a word of an occurrence is in the text. *)
WordOccurs(t, i, k) ==
  /\ i + Off(k) + Len(findtext[k]) <= Len(t)
  /\ \A j \in 1 .. Len(findtext[k]) : t[i + Off(k) + j] = findtext[k][j]

GapOccurs(t, i, k) ==
  LET b == i + Off(k) + Len(findtext[k])
  IN  b + 1 <= Len(t) /\ t[b + 1] \in {SP, NL}

LEMMA OccursIs ==
  ASSUME Looked, NEW t, Len(t) \in Nat, NEW i \in Nat, Occurs(t, i), NEW k \in 1 .. Len(findtext)
  PROVE  WordOccurs(t, i, k) /\ (k < Len(findtext) => GapOccurs(t, i, k))
<1> DEFINE x == findtext[k]
           n == Len(Symbols)
           b == Off(k)
<1>1. /\ b \in Nat /\ n \in Nat /\ DOMAIN Symbols = 1 .. n /\ b + Len(x) <= n
      /\ \A j \in 1 .. Len(x) : Symbols[b + j] = x[j]
  BY SymbolsAre DEF WordInSymbols
<1>2. x \in Seq(Char) /\ Len(x) \in Nat /\ \A j \in 1 .. Len(x) : x[j] \in Char
  BY LookedIs, LenProperties, ElementOfSeq
<1>3. /\ i + n <= Len(t)
      /\ \A j \in 1 .. n : t[i + j] \in IF Symbols[j] = SP THEN {SP, NL} ELSE {Symbols[j]}
  BY <1>1 DEF Occurs
<1> HIDE DEF x, n, b
<1>4. ASSUME NEW j \in 1 .. Len(x) PROVE t[i + b + j] = x[j]
  <2>1. b + j \in 1 .. n /\ i + (b + j) = i + b + j
    BY <1>1, <1>2
  <2>2. Symbols[b + j] = x[j] /\ x[j] # SP
    BY <1>1, <1>2, SeparatorsAre
  <2> QED BY <1>3, <2>1, <2>2
<1>5. i + b + Len(x) <= Len(t)
  BY <1>1, <1>2, <1>3
<1>6. ASSUME k < Len(findtext)
      PROVE  i + b + Len(x) + 1 <= Len(t) /\ t[i + b + Len(x) + 1] \in {SP, NL}
  <2>1. b + Len(x) + 1 <= n /\ Symbols[b + Len(x) + 1] = SP
    BY <1>6, SymbolsAre DEF GapInSymbols, b, x, n
  <2>2. b + Len(x) + 1 \in 1 .. n /\ i + (b + Len(x) + 1) = i + b + Len(x) + 1
    BY <1>1, <1>2, <2>1
  <2>3. i + b + Len(x) + 1 <= Len(t)
    BY <1>1, <1>2, <1>3, <2>1
  <2> QED BY <1>3, <2>1, <2>2, <2>3
<1> QED BY <1>4, <1>5, <1>6 DEF WordOccurs, GapOccurs, x, b

(* No occurrence begins at the end of a word. *)
LEMMA NotAtEnd ==
  ASSUME Looked, doc.paras \in Seq(FullParagraph), NEW q, IsPlace(q), Len(Text) \in Nat,
         NEW c, c \in Char, NEW b \in Nat, b + 1 <= Len(Text), Text[b + 1] = c
  PROVE  b # Len(EndOf(q))
<1>1. b = Len(EndOf(q)) => Following(q) # NoPlace
  BY TextAfter
<1>2. b = Len(EndOf(q)) => Text[b + 1] \in {SP, NL}
  BY <1>1, TextAfter
<1> QED BY <1>2, SeparatorsAre

(* The word of the text is in the word of the document, from s on. *)
WordStarts(q, s, i, k) == i + Off(k) = Len(UpToOffset(q, s))

LEMMA OccursInWord ==
  ASSUME Looked, doc.paras \in Seq(FullParagraph), NEW q, IsPlace(q),
         NEW i \in Nat, Occurs(Text, i), NEW k \in 1 .. Len(findtext),
         NEW s \in 1 .. Len(PlaceWord(q)) + 1, WordStarts(q, s, i, k)
  PROVE  LET v == TextFrom(PlaceWord(q), s)
         IN  /\ BeginsWith(v, findtext[k])
             /\ k < Len(findtext) =>
                  /\ Len(v) = Len(findtext[k])
                  /\ Following(q) # NoPlace /\ Len(HeadTo(Following(q))) = i + Off(k + 1)
<1> DEFINE x == findtext[k]
           v == TextFrom(PlaceWord(q), s)
           b == Len(UpToOffset(q, s))
           e == Len(EndOf(q))
           m == Len(x)
           l == Len(v)
           n == Len(Text)
<1>1. /\ b \in Nat /\ l \in Nat /\ n \in Nat /\ e = b + l /\ b + l <= n
      /\ \A j \in 1 .. l : Text[b + j] = v[j]
  BY WordInText DEF TextHas
<1>2. i + Off(k) = b
  BY DEF WordStarts
<1>3. x \in Seq(Char) /\ m \in Nat /\ \A j \in 1 .. m : x[j] \in Char
  BY LookedIs, LenProperties, ElementOfSeq
<1>4. b + m <= n /\ \A j \in 1 .. m : Text[b + j] = x[j]
  <2>1. WordOccurs(Text, i, k)
    BY <1>1, OccursIs
  <2> HIDE DEF b
  <2> QED BY <1>2, <2>1 DEF WordOccurs
<1>5. v \in Seq(Char) /\ \A j \in 1 .. l : v[j] \in Char
  <2>1. v \in Seq(Char)
    BY TextsOfPlace, CharsTo
  <2> QED BY <2>1, ElementOfSeq
<1>6. ASSUME NEW a \in Nat, a + 1 <= n, Text[a + 1] \in Char PROVE a # e
  BY <1>1, <1>6, NotAtEnd
<1>7. k < Len(findtext) => b + m + 1 <= n /\ Text[b + m + 1] \in {SP, NL}
  BY <1>1, <1>2, OccursIs DEF GapOccurs
<1>8. /\ Following(q) = NoPlace => n = e
      /\ Following(q) # NoPlace => Len(HeadTo(Following(q))) = e + 1
  BY TextAfter
<1>9. k < Len(findtext) => Off(k + 1) = Off(k) + m + 1 /\ Off(k) \in Nat
  BY SymbolsAre DEF WordInSymbols, GapInSymbols
<1> HIDE DEF x, v, b, e, m, l, n
<1>10. m <= l
  <2> SUFFICES ASSUME l < m PROVE FALSE
    BY <1>1, <1>3
  <2>1. b + l + 1 <= n /\ Text[b + l + 1] \in Char
    <3>1. b \in Nat /\ l \in Nat /\ m \in Nat /\ n \in Nat /\ b + m <= n
      BY <1>1, <1>3, <1>4
    <3>2. l + 1 \in 1 .. m /\ b + (l + 1) = b + l + 1 /\ b + l + 1 <= n
      BY <3>1
    <3>3. Text[b + (l + 1)] = x[l + 1] /\ x[l + 1] \in Char
      BY <1>3, <1>4, <3>2
    <3> QED BY <3>2, <3>3
  <2>2. b + l \in Nat
    BY <1>1
  <2> QED BY <1>1, <1>6, <2>1, <2>2
<1>11. BeginsWith(v, x)
  <2>1. \A j \in 1 .. m : j \in 1 .. l
    BY <1>1, <1>3, <1>10
  <2> QED BY <1>1, <1>4, <1>10, <2>1 DEF BeginsWith, m, l
<1>12. ASSUME k < Len(findtext) PROVE l = m
  <2> SUFFICES ASSUME m < l PROVE FALSE
    BY <1>1, <1>3, <1>10
  <2>1. m + 1 \in 1 .. l /\ b + (m + 1) = b + m + 1
    BY <1>1, <1>3
  <2>2. Text[b + m + 1] \in Char
    BY <1>1, <1>5, <2>1
  <2> QED BY <1>7, <1>12, <2>2, SeparatorsAre
<1>13. ASSUME k < Len(findtext)
       PROVE  Following(q) # NoPlace /\ Len(HeadTo(Following(q))) = i + Off(k + 1)
  <2>1. e = b + m /\ b + m + 1 <= n
    BY <1>1, <1>7, <1>12, <1>13
  <2>2. Following(q) # NoPlace
    BY <1>1, <1>3, <1>8, <2>1
  <2>3. e + 1 = i + Off(k + 1)
    BY <1>2, <1>3, <1>9, <1>13, <2>1
  <2> QED BY <1>8, <2>2, <2>3
<1> QED BY <1>11, <1>12, <1>13 DEF x, v, m, l

LEMMA OccursMatched ==
  ASSUME Looked, doc.paras \in Seq(FullParagraph), NEW q, IsPlace(q),
         NEW i \in Nat, Occurs(Text, i), NEW k \in 1 .. Len(findtext),
         NEW s \in 1 .. Len(PlaceWord(q)) + 1, WordStarts(q, s, i, k)
  PROVE  \E o \in s .. Len(PlaceWord(q)) :
           /\ TextTo(PlaceWord(q), o) = TextTo(PlaceWord(q), s)
           /\ MatchAt(PlaceWord(q), k, o)
<1> DEFINE w == PlaceWord(q)
           x == findtext[k]
           v == TextFrom(w, s)
<1>1. BeginsWith(v, x) /\ (k < Len(findtext) => Len(v) = Len(x))
  BY OccursInWord
<1>2. w \in Word /\ x \in Seq(Char) /\ NonEmpty(x)
  BY TextsOfPlace, LookedIs
<1>3. PICK o \in s .. Len(w) :
        /\ TextTo(w, o) = TextTo(w, s) /\ LastOffset(w, x, o) # 0
        /\ Len(v) = Len(x) => \A j \in LastOffset(w, x, o) + 1 .. Len(w) : IsCode(w[j])
  BY <1>1, <1>2, WordMatched
<1>4. MatchAt(w, k, o)
  BY <1>1, <1>3, Zenon DEF MatchAt
<1> QED BY <1>3, <1>4

LEMMA UpToFirst ==
  ASSUME doc.paras \in Seq(FullParagraph), NEW q, IsPlace(q)
  PROVE  UpToOffset(q, 1) = HeadTo(q) /\ 1 \in 1 .. Len(PlaceWord(q)) + 1
<1>1. HeadTo(q) \in Seq(Symbol) /\ PlaceWord(q) \in Word
  BY TextsOfPlace
<1>2. 1 \in 1 .. Len(PlaceWord(q)) + 1
  BY <1>1, WordIs
<1>3. TextTo(PlaceWord(q), 1) = <<>>
  BY <1>1, <1>2, TextSplits
<1> QED BY <1>1, <1>2, <1>3, EmptyAround DEF UpToOffset

LEMMA OccursNext ==
  ASSUME Looked, doc.paras \in Seq(FullParagraph), NEW q, IsPlace(q),
         NEW i \in Nat, Occurs(Text, i), NEW k \in 1 .. Len(findtext), k + 1 \in 1 .. Len(findtext),
         NEW s \in 1 .. Len(PlaceWord(q)) + 1, WordStarts(q, s, i, k)
  PROVE  LET r == NextPlace(q, k + 1)
         IN  IsPlace(r) /\ 1 \in 1 .. Len(PlaceWord(r)) + 1 /\ WordStarts(r, 1, i, k + 1)
<1> DEFINE r == Following(q)
<1>1. k < Len(findtext) /\ q \in Nat \X Nat
  <2>1. k \in Nat /\ Len(findtext) \in Nat
    BY LookedIs
  <2> QED BY <2>1 DEF IsPlace
<1>2. r # NoPlace /\ Len(HeadTo(r)) = i + Off(k + 1)
  BY <1>1, OccursInWord
<1>3. IsPlace(r)
  BY <1>1, <1>2, FollowingIs
<1>4. q # NoPlace
  <2>1. NoPlace[1] = 0
    BY DEF NoPlace
  <2>2. q[1] # 0
    BY DEF IsPlace
  <2> QED BY <2>1, <2>2
<1> HIDE DEF r
<1>5. UpToOffset(r, 1) = HeadTo(r) /\ 1 \in 1 .. Len(PlaceWord(r)) + 1
  BY <1>3, UpToFirst
<1>6. WordStarts(r, 1, i, k + 1)
  BY <1>2, <1>5 DEF WordStarts
<1>7. PICK o \in 1 .. Len(PlaceWord(r)) : MatchAt(PlaceWord(r), k + 1, o)
  BY <1>3, <1>5, <1>6, OccursMatched
<1>8. Matches(PlaceWord(r), k + 1, 1) # {}
  BY <1>7 DEF Matches
<1>9. NextPlace(q, k + 1) = r
  BY <1>2, <1>4, <1>8, Zenon DEF NextPlace, r
<1> QED BY <1>3, <1>5, <1>6, <1>9

LEMMA OccursChain ==
  ASSUME Looked, doc.paras \in Seq(FullParagraph), NEW p, NEW w, NEW q, q = <<p, w>>, IsPlace(q),
         NEW i \in Nat, Occurs(Text, i), NEW s \in 1 .. Len(PlaceWord(q)) + 1, WordStarts(q, s, i, 1)
  PROVE  LastWordPlace(p, w) # NoPlace
<1> DEFINE n == Len(findtext)
           F == PlaceFcn(p, w)
           Stood(r, k) == IsPlace(r) /\ \E o \in 1 .. Len(PlaceWord(r)) + 1 : WordStarts(r, o, i, k)
           W == {k \in 0 .. n - 1 : Stood(F[k + 1], k + 1)}
<1>1. n \in Nat /\ n >= 1 /\ n - 1 \in Nat
  BY LookedIs
<1>2. Finds(F, q)
  <2>1. p \in Nat /\ w \in Nat
    BY DEF IsPlace
  <2> QED BY <2>1, PlaceStep DEF Looked
<1> HIDE DEF F
<1>3. F[1] = q /\ \A k \in 2 .. n : F[k] = NextPlace(F[k - 1], k)
  BY <1>2 DEF Finds
<1>4. 0 \in W
  <2>1. Stood(q, 1)
    OBVIOUS
  <2> HIDE DEF Stood
  <2>2. 0 \in 0 .. n - 1 /\ 0 + 1 = 1
    BY <1>1
  <2> QED BY <1>3, <2>1, <2>2
<1>5. ASSUME NEW k \in 0 .. (n - 1) - 1, k \in W PROVE k + 1 \in W
  <2> DEFINE j == k + 1
             r == F[j]
             f == F[j + 1]
  <2>1. /\ j \in 1 .. n /\ j + 1 \in 1 .. n /\ j + 1 \in 2 .. n /\ (j + 1) - 1 = j
        /\ j \in 0 .. n - 1
    BY <1>1
  <2>2. Stood(r, j)
    BY <1>5
  <2>3. f = NextPlace(r, j + 1)
    BY <1>3, <2>1
  <2> HIDE DEF r, f, j
  <2>4. PICK o \in 1 .. Len(PlaceWord(r)) + 1 : WordStarts(r, o, i, j)
    BY <2>2
  <2>5. IsPlace(r)
    BY <2>2
  <2>6. Stood(f, j + 1)
    <3>1. IsPlace(f) /\ 1 \in 1 .. Len(PlaceWord(f)) + 1 /\ WordStarts(f, 1, i, j + 1)
      BY <2>1, <2>3, <2>4, <2>5, OccursNext
    <3> QED BY <3>1
  <2> HIDE DEF Stood
  <2> QED BY <2>1, <2>6 DEF j, f
<1>6. n - 1 \in W
  <2>1. n - 1 \in 0 .. n - 1
    BY <1>1
  <2> HIDE DEF W
  <2> QED BY <1>1, <1>4, <1>5, <2>1, SameWords, Words!Induction
<1>7. IsPlace(F[n])
  <2>1. (n - 1) + 1 = n
    BY <1>1
  <2> QED BY <1>6, <2>1
<1>8. F[n] # NoPlace
  <2>1. NoPlace[1] = 0
    BY DEF NoPlace
  <2>2. F[n][1] # 0
    BY <1>7 DEF IsPlace
  <2> QED BY <2>1, <2>2
<1> QED BY <1>8, LastWordPlaceIs DEF F, n

-----------------------------------------------------------------------------
(* The places of a word.                                                    *)

(* A place behind the end of a word counts as its end. *)
OffsetIn(q, m) == IF m[3] <= Len(PlaceWord(q)) THEN m[3] ELSE Len(PlaceWord(q)) + 1

InWord(q, m) == IsPlace(q) /\ m[1] = q[1] /\ m[2] = q[2] /\ m[3] \in Nat \ {0}

LEMMA SubAll ==
  ASSUME NEW s, Len(s) \in Nat, NEW a \in Nat, NEW b \in Nat, Len(s) <= a, Len(s) <= b
  PROVE  Sub(s, 1, a) = Sub(s, 1, b)
<1> DEFINE n == Len(s)
           Count(k) == 1 + (IF k < n - 1 + 1 THEN k ELSE n - 1 + 1) - 1
<1>1. n \in Nat /\ n <= a /\ n <= b
  OBVIOUS
<1>2. Count(a) = n /\ Count(b) = n
  <2> HIDE DEF n
  <2> QED BY <1>1
<1>3. Sub(s, 1, a) = SubSeq(s, 1, Count(a)) /\ Sub(s, 1, b) = SubSeq(s, 1, Count(b))
  BY DEF Sub
<1> HIDE DEF Count
<1> QED BY <1>2, <1>3

LEMMA PlaceIs ==
  ASSUME doc.paras \in Seq(FullParagraph), NEW q, NEW m, InWord(q, m)
  PROVE  /\ OffsetIn(q, m) \in 1 .. Len(PlaceWord(q)) + 1
         /\ Place(m) = Len(UpToOffset(q, OffsetIn(q, m)))
<1> DEFINE word == PlaceWord(q)
           n == Len(word)
           c == <<q[1], q[2], n + 1>>
           e == m[3]
<1>1. /\ n \in Nat /\ IsPlace(q) /\ m[1] = q[1] /\ m[2] = q[2] /\ e \in Nat /\ e # 0
      /\ word = doc.paras[q[1]][q[2]]
  BY TextsOfPlace, WordIs DEF InWord, PlaceWord
<1>2. OffsetIn(q, m) = IF e <= n THEN e ELSE n + 1
  BY DEF OffsetIn
<1>3. OffsetIn(q, m) \in 1 .. n + 1
  <2>1. n \in Nat /\ e \in Nat /\ e # 0
    BY <1>1
  <2> HIDE DEF n, e
  <2> QED BY <1>2, <2>1
<1>4. CASE e <= n + 1
  <2>1. e \in 1 .. n + 1 /\ OffsetIn(q, m) = e
    <3>1. n \in Nat /\ e \in Nat /\ e # 0
      BY <1>1
    <3> HIDE DEF n, e
    <3> QED BY <1>2, <1>4, <3>1
  <2>2. Stands(q, m)
    BY <1>1, <2>1, PlaceText DEF word
  <2> QED BY <1>3, <2>1, <2>2 DEF Stands, Place, word
<1>5. CASE ~(e <= n + 1)
  <2>1. OffsetIn(q, m) = n + 1
    <3>1. n \in Nat /\ e \in Nat
      BY <1>1
    <3> HIDE DEF n, e
    <3> QED BY <1>2, <1>5, <3>1
  <2>2. c[1] = q[1] /\ c[2] = q[2] /\ c[3] = n + 1 /\ n + 1 \in 1 .. n + 1
    <3>1. n \in Nat
      BY <1>1
    <3> HIDE DEF n
    <3> QED BY <3>1
  <2> HIDE DEF c
  <2>3. Stands(q, c)
    BY <1>1, <2>2, PlaceText DEF word
  <2>4. Sub(word, 1, m[3] - 1) = Sub(word, 1, c[3] - 1)
    <3>0. n \in Nat /\ e \in Nat
      BY <1>1
    <3>1. e - 1 \in Nat /\ c[3] - 1 \in Nat /\ Len(word) <= e - 1 /\ Len(word) <= c[3] - 1
      <4>1. c[3] = n + 1
        BY <2>2
      <4> HIDE DEF n, e
      <4>2. e - 1 \in Nat /\ n <= e - 1 /\ c[3] - 1 = n
        BY <3>0, <4>1, <1>5
      <4> QED BY <3>0, <4>2 DEF n
    <3> QED BY <3>0, <3>1, SubAll
  <2>5. FlatPlace(doc.paras, m) = FlatPlace(doc.paras, c)
    BY <1>1, <2>2, <2>4 DEF FlatPlace
  <2> QED BY <1>3, <2>1, <2>2, <2>3, <2>5 DEF Stands, Place, word
<1> QED BY <1>4, <1>5

LEMMA UpToLength ==
  ASSUME doc.paras \in Seq(FullParagraph), NEW q, IsPlace(q), NEW o \in 1 .. Len(PlaceWord(q)) + 1
  PROVE  /\ Len(UpToOffset(q, o)) = Len(HeadTo(q)) + Len(TextTo(PlaceWord(q), o))
         /\ Len(HeadTo(q)) \in Nat /\ Len(TextTo(PlaceWord(q), o)) \in Nat
<1> DEFINE w == PlaceWord(q)
           H == HeadTo(q)
           t == TextTo(w, o)
<1>1. w \in Word /\ H \in Seq(Symbol)
  BY TextsOfPlace
<1>2. t \in Seq(Symbol)
  BY <1>1, TextSplits
<1>3. UpToOffset(q, o) = H \o t
  BY DEF UpToOffset
<1> HIDE DEF w, H, t
<1>4. Len(H \o t) = Len(H) + Len(t) /\ Len(H) \in Nat /\ Len(t) \in Nat
  BY <1>1, <1>2, PartsOfConcat
<1> QED BY <1>3, <1>4 DEF w, H, t

LEMMA UpToMore ==
  ASSUME doc.paras \in Seq(FullParagraph), NEW q, IsPlace(q),
         NEW a \in 1 .. Len(PlaceWord(q)) + 1, NEW b \in 1 .. Len(PlaceWord(q)) + 1, a <= b
  PROVE  Len(UpToOffset(q, a)) <= Len(UpToOffset(q, b))
<1> DEFINE w == PlaceWord(q)
           H == HeadTo(q)
<1>1. w \in Word /\ H \in Seq(Symbol)
  BY TextsOfPlace
<1>2. b - 1 \in a - 1 .. Len(w) /\ (b - 1) + 1 = b
  BY <1>1, WordIs
<1>3. PICK t : IsRange(w, a, b - 1, t)
  BY <1>1, <1>2, RangeIs
<1>4. t \in Seq(Symbol) /\ TextTo(w, b) = TextTo(w, a) \o t
  BY <1>2, <1>3, SeparatorsAre DEF IsRange
<1>5. TextTo(w, a) \in Seq(Symbol) /\ TextTo(w, b) \in Seq(Symbol)
  BY <1>1, TextSplits
<1>6. /\ Len(TextTo(w, b)) = Len(TextTo(w, a)) + Len(t) /\ Len(t) \in Nat
      /\ Len(TextTo(w, a)) \in Nat
  BY <1>4, <1>5, PartsOfConcat
<1>7. /\ Len(UpToOffset(q, a)) = Len(H) + Len(TextTo(w, a))
      /\ Len(UpToOffset(q, b)) = Len(H) + Len(TextTo(w, b)) /\ Len(H) \in Nat
  BY <1>1, <1>5, PartsOfConcat DEF UpToOffset
<1> QED BY <1>6, <1>7

-----------------------------------------------------------------------------
(* What a step of the search finds.                                         *)

SearchedPlace == <<at[1], at[2]>>
FoundAt == <<at[1], at[2], Min(Matches(SearchedWord, 1, at[3]))>>

LEMMA SearchedIs ==
  ASSUME doc.paras \in Seq(FullParagraph), WordAt(doc.paras, at)
  PROVE  /\ IsPlace(SearchedPlace) /\ SearchedPlace[1] = at[1] /\ SearchedPlace[2] = at[2]
         /\ at[3] \in Nat \ {0} /\ InWord(SearchedPlace, at)
         /\ PlaceWord(SearchedPlace) = SearchedWord /\ PlaceWord(SearchedPlace) \in Word
<1>1. at[1] \in 1 .. Len(doc.paras) /\ at[2] \in 1 .. Len(doc.paras[at[1]]) /\ at[3] \in Nat \ {0}
  BY DEF WordAt
<1>2. at[1] \in Nat /\ at[2] \in Nat
  BY <1>1
<1>3. IsPlace(SearchedPlace)
  BY <1>1, <1>2 DEF IsPlace, SearchedPlace
<1> QED BY <1>1, <1>3, TextsOfPlace DEF SearchedPlace, InWord, PlaceWord, SearchedWord

LEMMA FoundHere ==
  ASSUME doc.paras \in Seq(FullParagraph), Looked, WordAt(doc.paras, at),
         NEW i \in Nat, Occurs(Text, i), Place(at) <= i, i <= Len(EndOf(SearchedPlace))
  PROVE  Found /\ Place(FoundAt) <= i
<1> DEFINE q == SearchedPlace
           word == PlaceWord(q)
           l == Len(word)
           s == OffsetIn(q, at)
           v == TextFrom(word, s)
           b == Len(UpToOffset(q, s))
           e == Len(EndOf(q))
           c == at[3]
           M == Matches(word, 1, c)
           x == findtext[1]
<1>1. /\ IsPlace(q) /\ q = <<at[1], at[2]>> /\ q[1] = at[1] /\ q[2] = at[2]
      /\ c \in Nat \ {0} /\ InWord(q, at) /\ word = SearchedWord /\ word \in Word
  BY SearchedIs DEF SearchedPlace
<1>2. l \in Nat
  BY <1>1, WordIs
<1>3. s \in 1 .. l + 1 /\ Place(at) = b
  BY <1>1, PlaceIs
<1>4. s = IF c <= l THEN c ELSE l + 1
  BY DEF OffsetIn
<1>5. b \in Nat /\ Len(v) \in Nat /\ e = b + Len(v) /\ Len(Text) \in Nat
  BY <1>1, <1>3, WordInText
<1> HIDE DEF q, word, l, s, v, b, e, c
<1>6. 1 \in 1 .. Len(findtext) /\ x \in Seq(Char) /\ NonEmpty(x) /\ Off(1) = 0
  BY LookedIs, FirstOff
<1>7. i + 1 <= Len(Text) /\ Text[i + 1] = x[1] /\ x[1] \in Char
  <2>1. Len(x) \in Nat \ {0}
    BY <1>6, EmptySeq, LenProperties DEF NonEmpty
  <2>2. WordOccurs(Text, i, 1)
    BY <1>5, <1>6, OccursIs
  <2>3. i + 0 + Len(x) <= Len(Text) /\ \A j \in 1 .. Len(x) : Text[i + 0 + j] = x[j]
    BY <1>6, <2>2 DEF WordOccurs
  <2>4. 1 \in 1 .. Len(x) /\ i + 0 + 1 = i + 1
    BY <2>1
  <2>5. Text[i + 1] = x[1] /\ x[1] \in Char
    BY <1>6, <2>3, <2>4, ElementOfSeq
  <2> HIDE DEF x
  <2>6. i + 1 <= Len(Text)
    BY <1>5, <2>1, <2>3
  <2> QED BY <2>5, <2>6 DEF x
<1>8. i # e
  BY <1>1, <1>5, <1>7, NotAtEnd DEF q, e
<1>9. i - b \in 0 .. Len(v) /\ b + (i - b) = i
  <2>1. b <= i /\ i <= e
    BY <1>3 DEF q, e
  <2> QED BY <1>5, <2>1
<1>10. PICK o \in s .. l + 1 : Len(TextTo(word, o)) = Len(TextTo(word, s)) + (i - b)
  BY <1>1, <1>3, <1>9, OffsetOf DEF l, v
<1>11. o \in 1 .. l + 1
  BY <1>2, <1>3
<1>12. Len(UpToOffset(q, o)) = i
  <2>1. /\ Len(UpToOffset(q, o)) = Len(HeadTo(q)) + Len(TextTo(word, o))
        /\ b = Len(HeadTo(q)) + Len(TextTo(word, s))
        /\ Len(HeadTo(q)) \in Nat /\ Len(TextTo(word, s)) \in Nat
    <3>1. Len(UpToOffset(q, o)) = Len(HeadTo(q)) + Len(TextTo(word, o)) /\ Len(HeadTo(q)) \in Nat
      BY <1>1, <1>11, UpToLength DEF word, l
    <3>2. b = Len(HeadTo(q)) + Len(TextTo(word, s)) /\ Len(TextTo(word, s)) \in Nat
      BY <1>1, <1>3, UpToLength DEF word, l, b
    <3> QED BY <3>1, <3>2
  <2> QED BY <1>5, <1>10, <2>1
<1>13. WordStarts(q, o, i, 1)
  BY <1>6, <1>12 DEF WordStarts
<1>14. PICK t \in o .. l : TextTo(word, t) = TextTo(word, o) /\ MatchAt(word, 1, t)
  BY <1>1, <1>6, <1>11, <1>13, OccursMatched DEF word, l
<1>15. t \in c .. l /\ t \in 1 .. l + 1 /\ c <= l
  BY <1>1, <1>2, <1>3, <1>4, <1>11, <1>14
<1>16. t \in M
  BY <1>14, <1>15 DEF Matches, l
<1>17. M \in SUBSET Nat /\ M \subseteq c .. l
  <2>1. M \subseteq c .. l
    BY DEF Matches, l
  <2> QED BY <1>1, <1>2, <2>1
<1>18. Min(M) \in M /\ Min(M) <= t
  <2> HIDE DEF M
  <2> QED BY <1>16, <1>17, MinIs
<1>19. Min(M) \in 1 .. l + 1 /\ Min(M) <= l /\ Min(M) \in Nat \ {0}
  <2> DEFINE k == Min(M)
  <2>1. k \in c .. l
    BY <1>17, <1>18
  <2>2. c \in Nat \ {0} /\ l \in Nat
    BY <1>1, <1>2
  <2> HIDE DEF k
  <2>3. k \in 1 .. l + 1 /\ k <= l /\ k \in Nat \ {0}
    BY <2>1, <2>2
  <2> QED BY <2>3 DEF k
<1>20. Found
  <2>1. LastWordPlace(at[1], at[2]) # NoPlace
    BY <1>1, <1>11, <1>13, OccursChain DEF word, l
  <2> QED BY <1>1, <1>16, <2>1 DEF Found, c
<1>21. Place(FoundAt) = Len(UpToOffset(q, Min(M)))
  <2> DEFINE m == FoundAt
  <2>1. m[1] = q[1] /\ m[2] = q[2] /\ m[3] = Min(M)
    BY <1>1 DEF FoundAt, c
  <2> HIDE DEF m
  <2>2. InWord(q, m)
    BY <1>1, <1>19, <2>1 DEF InWord
  <2>3. OffsetIn(q, m) = Min(M)
    BY <1>19, <2>1 DEF OffsetIn, word, l
  <2> QED BY <2>2, <2>3, PlaceIs DEF m
<1> HIDE DEF M
<1>22. Len(UpToOffset(q, Min(M))) <= Len(UpToOffset(q, t))
  BY <1>1, <1>15, <1>18, <1>19, UpToMore DEF word, l
<1>23. UpToOffset(q, t) = UpToOffset(q, o)
  BY <1>14 DEF UpToOffset, word
<1> QED BY <1>12, <1>20, <1>21, <1>22, <1>23

-----------------------------------------------------------------------------
(* How far a search has come.                                               *)

LEMMA PlaceInText ==
  ASSUME doc.paras \in Seq(FullParagraph), NEW q, NEW m, InWord(q, m)
  PROVE  /\ Place(m) \in Nat /\ Len(EndOf(q)) \in Nat /\ Len(Text) \in Nat
         /\ Place(m) <= Len(EndOf(q)) /\ Len(EndOf(q)) <= Len(Text)
<1> DEFINE s == OffsetIn(q, m)
           b == Len(UpToOffset(q, s))
           v == TextFrom(PlaceWord(q), s)
           e == Len(EndOf(q))
           n == Len(Text)
<1>1. IsPlace(q)
  BY DEF InWord
<1>2. s \in 1 .. Len(PlaceWord(q)) + 1 /\ Place(m) = b
  BY PlaceIs
<1>3. b \in Nat /\ Len(v) \in Nat /\ n \in Nat /\ e = b + Len(v) /\ b + Len(v) <= n
  BY <1>1, <1>2, WordInText DEF TextHas
<1> HIDE DEF s, b, v, e, n
<1>4. b <= e /\ e <= n /\ e \in Nat
  BY <1>3
<1> QED BY <1>2, <1>3, <1>4 DEF e, n

LEMMA WordOfPlace ==
  ASSUME NEW ps, NEW m, WordAt(ps, m)
  PROVE  LET q == <<m[1], m[2]>>
         IN  q \in Nat \X Nat /\ q[1] = m[1] /\ q[2] = m[2] /\ (ps = doc.paras => InWord(q, m))
<1>1. m[1] \in 1 .. Len(ps) /\ m[2] \in 1 .. Len(ps[m[1]]) /\ m[3] \in Nat \ {0}
  BY DEF WordAt
<1>2. m[1] \in Nat /\ m[2] \in Nat
  BY <1>1
<1> QED BY <1>1, <1>2 DEF InWord, IsPlace

LEMMA FirstPlace ==
  ASSUME doc.paras \in Seq(FullParagraph), NEW q, IsPlace(q), NEW m, m[1] = q[1], m[2] = q[2], m[3] = 1
  PROVE  Place(m) = Len(HeadTo(q))
<1>1. InWord(q, m)
  BY DEF InWord
<1>2. Len(PlaceWord(q)) \in Nat
  BY TextsOfPlace, WordIs
<1>3. OffsetIn(q, m) = 1
  <2> DEFINE n == Len(PlaceWord(q))
  <2>1. OffsetIn(q, m) = IF 1 <= n THEN 1 ELSE n + 1
    BY DEF OffsetIn
  <2> HIDE DEF n
  <2> QED BY <1>2, <2>1 DEF n
<1>4. UpToOffset(q, 1) = HeadTo(q)
  BY UpToFirst
<1> QED BY <1>1, <1>3, <1>4, PlaceIs

LEMMA NothingBeforeFirst ==
  ASSUME NEW q, q[1] = 1, q[2] = 1
  PROVE  HeadTo(q) = <<>>
<1> DEFINE P == SubSeq(doc.paras, 1, q[1] - 1)
           A == SubSeq(doc.paras[q[1]], 1, q[2] - 1)
<1>1. q[1] - 1 = 0 /\ q[2] - 1 = 0
  OBVIOUS
<1>2. P = <<>> /\ A = <<>>
  BY <1>1
<1>3. \E p : p \in FullParagraph
  BY EmptyWord, EmptyIn, WithFull
<1>4. <<>> \in Seq(FullParagraph)
  BY EmptyIn
<1>5. LeadP(<<>>) = <<>>
  BY <1>3, <1>4, LeadPIs
<1>6. HeadTo(q) = Pre(P, A)
  BY DEF HeadTo
<1> HIDE DEF P, A
<1> QED BY <1>2, <1>4, <1>5, <1>6, PreOfNone

(* One step goes on behind the word, or from its end to the top. *)
LEMMA AdvancedPlace ==
  ASSUME Good(doc), doc.paras \in Seq(FullParagraph), WordAt(doc.paras, at)
  PROVE  LET e == Len(EndOf(SearchedPlace))
         IN  \/ Place(Advanced) = e + 1 /\ e + 1 <= Len(Text)
             \/ Place(Advanced) = 0 /\ e = Len(Text)
<1> DEFINE q == SearchedPlace
           r == Following(q)
           a == <<1, 1, 1>>
           b == <<r[1], r[2], 1>>
<1>1. IsPlace(q) /\ q[1] = at[1] /\ q[2] = at[2]
  BY SearchedIs
<1>2. r = FollowingWord(at[1], at[2])
  BY <1>1 DEF Following
<1>3. Advanced = IF r = NoPlace THEN a ELSE b
  BY <1>2, Zenon DEF Advanced
<1>4. b[1] = r[1] /\ b[2] = r[2] /\ b[3] = 1 /\ a[1] = 1 /\ a[2] = 1 /\ a[3] = 1
  OBVIOUS
<1>5. WordAt(doc.paras, Advanced)
  BY AdvancedIs
<1> HIDE DEF q, r, a, b
<1>6. CASE r = NoPlace
  <2>1. Advanced = a
    BY <1>3, <1>6
  <2>2. Text = EndOf(q)
    BY <1>1, <1>6, TextAfter DEF r
  <2> DEFINE c == <<a[1], a[2]>>
  <2>3. IsPlace(c) /\ c[1] = 1 /\ c[2] = 1
    BY <1>4, <1>5, <2>1, WordOfPlace DEF InWord
  <2> HIDE DEF c
  <2>4. Place(a) = Len(HeadTo(c))
    BY <1>4, <2>3, FirstPlace
  <2>5. HeadTo(c) = <<>> /\ Len(<<>>) = 0
    BY <2>3, NothingBeforeFirst
  <2> QED BY <2>1, <2>2, <2>4, <2>5 DEF q
<1>7. CASE r # NoPlace
  <2>1. Advanced = b
    BY <1>3, <1>7
  <2>2. q \in Nat \X Nat
    BY <1>1 DEF IsPlace
  <2>3. IsPlace(r)
    BY <1>1, <1>7, <2>2, FollowingIs DEF r
  <2>4. Place(b) = Len(HeadTo(r))
    BY <1>4, <2>3, FirstPlace
  <2>5. Len(HeadTo(r)) = Len(EndOf(q)) + 1 /\ Len(EndOf(q)) + 1 <= Len(Text)
    BY <1>1, <1>7, TextAfter DEF r
  <2> QED BY <2>1, <2>4, <2>5 DEF q
<1> QED BY <1>6, <1>7

LEMMA FoundPlace ==
  ASSUME doc.paras \in Seq(FullParagraph), Looked, WordAt(doc.paras, at), Found
  PROVE  /\ Place(FoundAt) \in Nat /\ Place(at) <= Place(FoundAt)
         /\ Place(FoundAt) <= Len(EndOf(SearchedPlace))
<1> DEFINE q == SearchedPlace
           l == Len(PlaceWord(q))
           c == at[3]
           M == Matches(PlaceWord(q), 1, c)
           k == Min(M)
           m == FoundAt
<1>1. /\ IsPlace(q) /\ q[1] = at[1] /\ q[2] = at[2] /\ c \in Nat \ {0} /\ InWord(q, at)
      /\ PlaceWord(q) = SearchedWord /\ PlaceWord(q) \in Word
  BY SearchedIs
<1>2. l \in Nat
  BY <1>1, WordIs
<1>3. M # {} /\ M \subseteq c .. l
  BY <1>1 DEF Found, Matches
<1>4. m[1] = q[1] /\ m[2] = q[2] /\ m[3] = k
  BY <1>1 DEF FoundAt
<1> HIDE DEF q, l, c, M, m
<1>5. k \in c .. l
  <2>1. M \in SUBSET Nat
    BY <1>1, <1>2, <1>3
  <2> QED BY <1>3, <2>1, MinIs
<1> HIDE DEF k
<1>6. k \in 1 .. l + 1 /\ k \in Nat \ {0} /\ k <= l /\ c <= k /\ c <= l /\ c \in 1 .. l + 1
  BY <1>1, <1>2, <1>5
<1>7. InWord(q, m)
  BY <1>1, <1>4, <1>6 DEF InWord
<1>8. Place(m) = Len(UpToOffset(q, k))
  <2>1. OffsetIn(q, m) = k
    BY <1>4, <1>6 DEF OffsetIn, l
  <2> QED BY <1>7, <2>1, PlaceIs
<1>9. Place(at) = Len(UpToOffset(q, c))
  <2>1. OffsetIn(q, at) = c
    BY <1>6 DEF OffsetIn, l, c
  <2> QED BY <1>1, <2>1, PlaceIs
<1>10. Place(at) <= Place(m)
  BY <1>1, <1>6, <1>8, <1>9, UpToMore DEF l
<1> QED BY <1>7, <1>10, PlaceInText DEF m, q

(* The places, in the order in which a search from the cursor comes to them. *)
Past(i) == IF i < Place(from) THEN i + Len(Text) + 1 ELSE i

(* All before m has been looked at, and the text is not there. *)
Covered(m) == \A i \in 0 .. Len(Text) : Past(i) < Past(Place(m)) => ~Occurs(Text, i)

SearchedInv == at # <<>> => from = Cursor(doc) /\ Covered(at)

(* The facts about the places of a step, and what they come to. *)
Stretch(f, a, e, n) == f \in 0 .. n /\ a \in Nat /\ e \in Nat /\ n \in Nat /\ a <= e /\ e <= n
Round(i, f, n) == IF i < f THEN i + n + 1 ELSE i

LEMMA RoundFound ==
  ASSUME NEW f, NEW a, NEW e, NEW n, Stretch(f, a, e, n), NEW g \in Nat, a <= g, g <= e,
         NEW i \in 0 .. n, ~(Round(i, f, n) < Round(a, f, n)), Round(i, f, n) < Round(g, f, n)
  PROVE  a <= i /\ i < g
BY DEF Stretch, Round

LEMMA RoundStep ==
  ASSUME NEW f, NEW a, NEW e, NEW n, Stretch(f, a, e, n),
         NEW h, (h = e + 1 /\ e + 1 <= n) \/ (h = 0 /\ e = n),
         NEW i \in 0 .. n, ~(Round(i, f, n) < Round(a, f, n)), Round(i, f, n) < Round(h, f, n)
  PROVE  a <= i /\ i <= e
BY DEF Stretch, Round

LEMMA RoundDone ==
  ASSUME NEW f, NEW a, NEW e, NEW n, Stretch(f, a, e, n),
         NEW h, (h = e + 1 /\ e + 1 <= n) \/ (h = 0 /\ e = n), h <= f,
         NEW i \in 0 .. n, ~(Round(i, f, n) < Round(a, f, n)), ~(a <= i /\ i <= e)
  PROVE  h <= i /\ i < f
BY DEF Stretch, Round

LEMMA PastRound ==
  ASSUME NEW i
  PROVE  Past(i) = Round(i, Place(from), Len(Text))
BY DEF Past, Round

Searching ==
  /\ Good(doc) /\ doc.paras \in Seq(FullParagraph) /\ Looked
  /\ WordAt(doc.paras, at) /\ WordAt(doc.paras, from) /\ Covered(at)

LEMMA SearchingIs ==
  ASSUME Searching
  PROVE  Stretch(Place(from), Place(at), Len(EndOf(SearchedPlace)), Len(Text))
<1>1. InWord(SearchedPlace, at)
  BY SearchedIs DEF Searching
<1>2. InWord(<<from[1], from[2]>>, from)
  BY WordOfPlace DEF Searching
<1>3. /\ Place(at) \in Nat /\ Len(EndOf(SearchedPlace)) \in Nat /\ Len(Text) \in Nat
      /\ Place(at) <= Len(EndOf(SearchedPlace)) /\ Len(EndOf(SearchedPlace)) <= Len(Text)
  BY <1>1, PlaceInText DEF Searching
<1>4. /\ Place(from) \in Nat /\ Len(EndOf(<<from[1], from[2]>>)) \in Nat
      /\ Place(from) <= Len(EndOf(<<from[1], from[2]>>)) /\ Len(EndOf(<<from[1], from[2]>>)) <= Len(Text)
  BY <1>2, PlaceInText DEF Searching
<1> DEFINE f == Place(from)
           n == Len(Text)
           c == Len(EndOf(<<from[1], from[2]>>))
<1>5. f \in 0 .. n
  <2>1. f \in Nat /\ c \in Nat /\ n \in Nat /\ f <= c /\ c <= n
    BY <1>3, <1>4
  <2> HIDE DEF f, n, c
  <2> QED BY <2>1
<1> QED BY <1>3, <1>5 DEF Stretch

LEMMA FoundCovered ==
  ASSUME Searching, Found
  PROVE  Covered(FoundAt)
<1> DEFINE f == Place(from)
           a == Place(at)
           e == Len(EndOf(SearchedPlace))
           n == Len(Text)
           g == Place(FoundAt)
<1>1. Stretch(f, a, e, n) /\ g \in Nat /\ a <= g /\ g <= e
  BY SearchingIs, FoundPlace DEF Searching
<1> SUFFICES ASSUME NEW i \in 0 .. n, Past(i) < Past(g), Occurs(Text, i) PROVE FALSE
  BY DEF Covered
<1>2. i \in Nat
  OBVIOUS
<1>3. ~(Past(i) < Past(a))
  BY DEF Searching, Covered
<1> HIDE DEF f, a, e, n, g
<1>4. a <= i /\ i < g
  <2>1. ~(Round(i, f, n) < Round(a, f, n)) /\ Round(i, f, n) < Round(g, f, n)
    BY <1>3, PastRound DEF f, n
  <2> QED BY <1>1, <2>1, RoundFound
<1>5. i <= e
  BY <1>1, <1>2, <1>4 DEF Stretch
<1>6. g <= i
  BY <1>2, <1>4, <1>5, FoundHere DEF Searching, a, e, g
<1> QED BY <1>1, <1>2, <1>4, <1>6

LEMMA AdvancedCovered ==
  ASSUME Searching, ~Found
  PROVE  Covered(Advanced)
<1> DEFINE f == Place(from)
           a == Place(at)
           e == Len(EndOf(SearchedPlace))
           n == Len(Text)
           h == Place(Advanced)
<1>1. Stretch(f, a, e, n) /\ ((h = e + 1 /\ e + 1 <= n) \/ (h = 0 /\ e = n))
  BY SearchingIs, AdvancedPlace DEF Searching
<1> SUFFICES ASSUME NEW i \in 0 .. n, Past(i) < Past(h), Occurs(Text, i) PROVE FALSE
  BY DEF Covered
<1>2. i \in Nat
  OBVIOUS
<1>3. ~(Past(i) < Past(a))
  BY DEF Searching, Covered
<1> HIDE DEF f, a, e, n, h
<1>4. a <= i /\ i <= e
  <2>1. ~(Round(i, f, n) < Round(a, f, n)) /\ Round(i, f, n) < Round(h, f, n)
    BY <1>3, PastRound DEF f, n
  <2> QED BY <1>1, <2>1, RoundStep
<1> QED BY <1>2, <1>4, FoundHere DEF Searching, a, e

(* What NothingOverlooked says of a search that found nothing. *)
OnlyBefore(m) == \A i \in 0 .. Len(Text) : Occurs(Text, i) => Place(<<m[1], m[2], 1>>) <= i /\ i < Place(m)

LEMMA NotFoundOnlyBefore ==
  ASSUME Searching, ~Found, Done, from = Cursor(doc)
  PROVE  OnlyBefore(from)
<1> DEFINE f == Place(from)
           a == Place(at)
           e == Len(EndOf(SearchedPlace))
           n == Len(Text)
           h == Place(Advanced)
           m == <<from[1], from[2], 1>>
           q == <<from[1], from[2]>>
<1>1. Stretch(f, a, e, n) /\ ((h = e + 1 /\ e + 1 <= n) \/ (h = 0 /\ e = n))
  BY SearchingIs, AdvancedPlace DEF Searching
<1>2. from[1] = doc.cp /\ from[2] = doc.cw
  BY DEF Cursor
<1>3. Advanced = m
  <2> DEFINE next == FollowingWord(at[1], at[2])
             b == IF next = NoPlace THEN <<1, 1>> ELSE <<next[1], next[2]>>
  <2>1. Advanced = <<b[1], b[2], 1>> /\ b = <<b[1], b[2]>>
    BY DEF Advanced
  <2> HIDE DEF b
  <2> DEFINE S == {b[1], b[2], 1}
             t == <<b[1], b[2], 1>>
             c == SubSeq(t, 1, 2)
  <2>2. t \in Seq(S) /\ Len(t) = 3 /\ t[1] = b[1] /\ t[2] = b[2]
    OBVIOUS
  <2>3. c = <<doc.cp, doc.cw>>
    BY <2>1 DEF Done
  <2>4. c[1] = doc.cp /\ c[2] = doc.cw
    <3> HIDE DEF c
    <3> QED BY <2>3
  <2> HIDE DEF S, t
  <2>5. \A j \in 1 .. 2 : c[j] = t[j]
    BY <2>2, FirstPart
  <2>6. b[1] = doc.cp /\ b[2] = doc.cw
    BY <2>2, <2>4, <2>5
  <2> QED BY <1>2, <2>1, <2>6
<1>4. InWord(q, from) /\ IsPlace(q) /\ q[1] = from[1] /\ q[2] = from[2]
  BY WordOfPlace DEF Searching, InWord
<1>5. m[1] = q[1] /\ m[2] = q[2] /\ m[3] = 1
  OBVIOUS
<1> HIDE DEF q, m
<1>6. Place(m) <= f
  <2>1. Place(m) = Len(UpToOffset(q, 1)) /\ 1 \in 1 .. Len(PlaceWord(q)) + 1
    BY <1>4, <1>5, FirstPlace, UpToFirst DEF Searching
  <2>2. OffsetIn(q, from) \in 1 .. Len(PlaceWord(q)) + 1 /\ f = Len(UpToOffset(q, OffsetIn(q, from)))
    BY <1>4, PlaceIs DEF Searching
  <2>3. 1 <= OffsetIn(q, from)
    BY <2>2
  <2> QED BY <1>4, <2>1, <2>2, <2>3, UpToMore DEF Searching
<1> SUFFICES ASSUME NEW i \in 0 .. n, Occurs(Text, i) PROVE h <= i /\ i < f
  BY <1>3 DEF OnlyBefore, m
<1>7. i \in Nat
  OBVIOUS
<1>8. ~(Past(i) < Past(a))
  BY DEF Searching, Covered
<1> HIDE DEF f, a, e, n, h
<1>9. ~(a <= i /\ i <= e)
  BY <1>7, FoundHere DEF Searching, a, e
<1>10. ~(Round(i, f, n) < Round(a, f, n))
  BY <1>8, PastRound DEF f, n
<1>11. h <= f
  BY <1>3, <1>6 DEF h
<1> QED BY <1>1, <1>9, <1>10, <1>11, RoundDone

(* A search begins with nothing to look at behind it. *)
SearchBegan == SearchInv /\ from = at /\ from = Cursor(doc)

LEMMA StartCovered == SearchBegan => SearchedInv
<1> SUFFICES ASSUME SearchBegan, at # <<>> PROVE Covered(at)
  BY DEF SearchBegan, SearchedInv
<1>1. doc.paras \in Seq(FullParagraph) /\ WordAt(doc.paras, at)
  BY FilledIs DEF SearchBegan, SearchInv, WordInv, Held, Good
<1> DEFINE f == Place(at)
           n == Len(Text)
<1>2. f \in Nat /\ n \in Nat /\ f <= n
  <2> DEFINE q == <<at[1], at[2]>>
             e == Len(EndOf(q))
  <2>1. InWord(q, at)
    BY <1>1, WordOfPlace
  <2> HIDE DEF q
  <2>2. f \in Nat /\ e \in Nat /\ n \in Nat /\ f <= e /\ e <= n
    BY <1>1, <2>1, PlaceInText
  <2> HIDE DEF f, n, e
  <2> QED BY <2>2
<1> SUFFICES ASSUME NEW i \in 0 .. n PROVE ~(Past(i) < Past(f))
  BY DEF Covered
<1>3. Past(i) = Round(i, f, n) /\ Past(f) = Round(f, f, n)
  BY PastRound DEF SearchBegan
<1> HIDE DEF f, n
<1>4. ~(Round(i, f, n) < Round(f, f, n))
  BY <1>2 DEF Round
<1> QED BY <1>3, <1>4

LEMMA StartLater == SearchBegan' => SearchedInv'
BY StartCovered, PTL

LEMMA SelectionMark ==
  ASSUME IsDoc(doc)
  PROVE  Selection.mark = FoundAt
<1> DEFINE last == LastWordPlace(at[1], at[2])
           co == IF Len(findtext) = 1 THEN at[3] ELSE 1
           o == MatchEnd(PlaceWord(last), Len(findtext), co)
           e == At(doc, last[1], last[2], o)
           m == FoundAt
<1>1. Selection = WithMark(e, m)
  BY Zenon DEF Selection, WithMark, PlaceWord, FoundAt
<1> HIDE DEF last, o, m
<1>2. IsDoc(e)
  BY AtIs
<1> HIDE DEF e
<1>3. WithMark(e, m).mark = m
  BY <1>2, WithMarkIs
<1> QED BY <1>1, <1>3 DEF m

LEMMA OverlooksNothing ==
  ASSUME SearchInv, SearchedInv, NothingOverlooked, [SearchNext]_searchvars
  PROVE  SearchedInv' /\ NothingOverlooked'
<1>1. Good(doc) /\ doc.paras \in Seq(FullParagraph) /\ SearchInv'
  BY FilledIs, SearchKeeps DEF SearchInv, WordInv, Held, Good
<1>2. ASSUME at' = Cursor(doc'), from' = Cursor(doc'), outcome' = "none"
      PROVE  SearchedInv' /\ NothingOverlooked'
  <2>1. SearchBegan'
    BY <1>1, <1>2 DEF SearchBegan
  <2>2. "none" # "found" /\ "none" # "not found"
    OBVIOUS
  <2> QED BY <1>2, <2>1, <2>2, StartLater DEF NothingOverlooked
<1>3. ASSUME NEW t \in Texts, NEW r \in Replacements, Find(t, r)
      PROVE  SearchedInv' /\ NothingOverlooked'
  BY <1>2, <1>3 DEF Find, Search, vars
<1>4. CASE FindNext
  BY <1>2, <1>4 DEF FindNext, Search, vars
<1>5. CASE ReplaceThenFind
  <2>1. PICK hint \in Style :
          LET d == IF Marked(doc) THEN Replaced(doc, hint) ELSE doc
          IN  doc' = d /\ Search(d)
    BY <1>5 DEF ReplaceThenFind
  <2>2. at' = Cursor(doc') /\ from' = Cursor(doc') /\ outcome' = "none"
    BY <2>1 DEF Search
  <2> QED BY <1>2, <2>2
<1>6. CASE OtherKeys \/ ReplaceBeforeFind
  <2>1. at' = <<>> /\ outcome' = "none"
    BY <1>6 DEF OtherKeys, ReplaceBeforeFind, Idle
  <2>2. "none" # "found" /\ "none" # "not found"
    OBVIOUS
  <2> QED BY <2>1, <2>2 DEF SearchedInv, NothingOverlooked
<1>7. CASE UNCHANGED searchvars
  <2>1. /\ doc' = doc /\ findtext' = findtext /\ outcome' = outcome /\ at' = at /\ from' = from
    BY <1>7 DEF searchvars, vars
  <2>2. SearchedInv'
    BY <2>1, Zenon DEF SearchedInv, Covered, Past, Place, Text, Occurs, Symbols
  <2>3. NothingOverlooked'
    BY <2>1, Zenon DEF NothingOverlooked, Place, Text, Occurs, Symbols
  <2> QED BY <2>2, <2>3
<1>8. CASE Look
  <2>1. /\ at # <<>> /\ findtext' = findtext /\ from' = from
        /\ IF Found THEN doc' = Selection /\ outcome' = "found" /\ at' = <<>>
           ELSE IF Done THEN doc' = doc /\ outcome' = "not found" /\ at' = <<>>
           ELSE doc' = doc /\ outcome' = outcome /\ at' = Advanced
    BY <1>8, Zenon DEF Look
  <2>2. from = Cursor(doc) /\ Covered(at) /\ Looked /\ WordAt(doc.paras, at)
    BY <2>1 DEF SearchInv, SearchedInv
  <2>3. Searching
    BY <1>1, <2>2, SearchedFrom DEF Searching
  <2>4. CASE Found
    <3>1. doc' = Selection /\ outcome' = "found" /\ at' = <<>> /\ "found" # "not found"
      BY <2>1, <2>4
    <3>2. Selection.paras = doc.paras /\ Selection.mark = FoundAt
      <4>1. Selection.paras = doc.paras
        BY <1>1, <2>2, <2>4, SelectionIs
      <4>2. Selection.mark = FoundAt
        BY <1>1, SelectionMark DEF Good
      <4> QED BY <4>1, <4>2
    <3>3. doc'.paras = doc.paras /\ doc'.mark = FoundAt
      BY <3>1, <3>2
    <3>4. Covered(FoundAt)
      BY <2>3, <2>4, FoundCovered
    <3>5. NothingOverlooked'
      BY <2>1, <3>1, <3>3, <3>4, Zenon DEF NothingOverlooked, Covered, Past, Place, Text, Occurs, Symbols
    <3> QED BY <3>1, <3>5 DEF SearchedInv
  <2>5. CASE ~Found /\ Done
    <3>1. doc' = doc /\ outcome' = "not found" /\ at' = <<>> /\ "not found" # "found"
      BY <2>1, <2>5
    <3>2. OnlyBefore(from)
      BY <2>2, <2>3, <2>5, NotFoundOnlyBefore
    <3>3. NothingOverlooked'
      BY <2>1, <3>1, <3>2, Zenon DEF NothingOverlooked, OnlyBefore, Place, Text, Occurs, Symbols
    <3> QED BY <3>1, <3>3 DEF SearchedInv
  <2>6. CASE ~Found /\ ~Done
    <3>1. doc' = doc /\ outcome' = outcome /\ at' = Advanced
      BY <2>1, <2>6
    <3>2. Covered(Advanced)
      BY <2>3, <2>6, AdvancedCovered
    <3>3. Cursor(doc') = Cursor(doc)
      BY <3>1
    <3>4. SearchedInv'
      BY <2>1, <2>2, <3>1, <3>2, <3>3, Zenon DEF SearchedInv, Covered, Past, Place, Text, Occurs, Symbols
    <3>5. NothingOverlooked'
      BY <2>1, <3>1, Zenon DEF NothingOverlooked, Place, Text, Occurs, Symbols
    <3> QED BY <3>4, <3>5
  <2> QED BY <2>4, <2>5, <2>6
<1> QED BY <1>3, <1>4, <1>5, <1>6, <1>7, <1>8 DEF SearchNext

(* In a document of any size, Cmd.FindNext (navigate.lua) overlooks nothing: *)
(* what it selects is the first place of the text behind the cursor, around  *)
(* the document, and when it finds nothing, the text is nowhere but before   *)
(* the cursor in the cursor's own word; whatever style codes are in the      *)
(* words and wherever their ends fall.                                       *)
THEOREM NothingMissed == SearchSpec => []NothingOverlooked
<1>1. SearchInit => SearchInv /\ SearchedInv /\ NothingOverlooked
  <2>1. SearchInit => outcome = "none" /\ at = <<>>
    BY Zenon DEF SearchInit
  <2>2. "none" # "found" /\ "none" # "not found"
    OBVIOUS
  <2> QED BY <2>1, <2>2, SearchBegins DEF SearchedInv, NothingOverlooked
<1>2. SearchInv /\ SearchedInv /\ NothingOverlooked /\ [SearchNext]_searchvars
      => SearchInv' /\ SearchedInv' /\ NothingOverlooked'
  BY SearchKeeps, OverlooksNothing
<1> QED BY <1>1, <1>2, PTL DEF SearchSpec
=============================================================================
