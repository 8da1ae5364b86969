------------------------- MODULE DocumentEditProofs -------------------------
(* Proofs about DocumentEdit, for documents of any size.  Of the words they *)
(* ask only that they are words, and where in them an offset may lie.       *)
EXTENDS DocumentEdit, SequenceTheorems, TLAPS

(* What is proved of the operations on a word, of whatever length.          *)
Words == INSTANCE WordEditsProofs WITH word <- <<>>, MaxChars <- 0

-----------------------------------------------------------------------------
(* Sequences of anything.                                                   *)

IsSeq(s) == \E S : s \in Seq(S)

LEMMA SeqIs ==
  ASSUME NEW s, IsSeq(s)
  PROVE  /\ Len(s) \in Nat /\ DOMAIN s = 1 .. Len(s)
         /\ s # <<>> <=> Len(s) >= 1
<1>1. PICK S : s \in Seq(S)
  BY DEF IsSeq
<1>2. Len(s) \in Nat /\ DOMAIN s = 1 .. Len(s)
  BY <1>1, LenProperties
<1>3. s # <<>> => Len(s) >= 1
  BY <1>1, EmptySeq
<1>4. Len(<<>>) = 0
  BY <1>1, EmptySeq
<1> QED BY <1>2, <1>3, <1>4

LEMMA SeqLiterals ==
  ASSUME NEW x, NEW y
  PROVE  /\ IsSeq(<<>>) /\ IsSeq(<<x>>) /\ IsSeq(<<x, y>>)
         /\ Len(<<>>) = 0
         /\ Len(<<x>>) = 1 /\ <<x>>[1] = x
         /\ Len(<<x, y>>) = 2 /\ <<x, y>>[1] = x /\ <<x, y>>[2] = y
<1> DEFINE S == {x, y}
<1>1. <<>> \in Seq(S) /\ <<x>> \in Seq(S) /\ <<x, y>> \in Seq(S)
  OBVIOUS
<1>2. IsSeq(<<>>) /\ IsSeq(<<x>>) /\ IsSeq(<<x, y>>)
  BY <1>1, Zenon DEF IsSeq
<1> QED BY <1>2

LEMMA SeqConcat ==
  ASSUME NEW s, NEW t, IsSeq(s), IsSeq(t)
  PROVE  /\ IsSeq(s \o t)
         /\ Len(s \o t) = Len(s) + Len(t)
         /\ \A i \in 1 .. Len(s) : (s \o t)[i] = s[i]
         /\ \A i \in 1 .. Len(t) : (s \o t)[Len(s) + i] = t[i]
<1>1. PICK S : s \in Seq(S)
  BY DEF IsSeq
<1>2. PICK T : t \in Seq(T)
  BY DEF IsSeq
<1> DEFINE U == S \cup T
<1>3. s \in Seq(U) /\ t \in Seq(U)
  BY <1>1, <1>2, SeqMonotonic, Zenon
<1> HIDE DEF U
<1>4. /\ s \o t \in Seq(U)
      /\ Len(s \o t) = Len(s) + Len(t)
      /\ \A i \in 1 .. Len(s) + Len(t) : (s \o t)[i] =
                     IF i <= Len(s) THEN s[i] ELSE t[i - Len(s)]
  BY <1>3, ConcatProperties
<1>5. Len(s) \in Nat /\ Len(t) \in Nat
  BY SeqIs
<1>6. ASSUME NEW i \in 1 .. Len(s) PROVE (s \o t)[i] = s[i]
  <2>1. i \in 1 .. Len(s) + Len(t) /\ i <= Len(s)
    BY <1>5
  <2> QED BY <1>4, <2>1
<1>7. ASSUME NEW i \in 1 .. Len(t) PROVE (s \o t)[Len(s) + i] = t[i]
  <2> DEFINE j == Len(s) + i
  <2>1. j \in 1 .. Len(s) + Len(t) /\ ~(j <= Len(s)) /\ j - Len(s) = i
    BY <1>5
  <2> HIDE DEF j
  <2>2. (s \o t)[j] = t[j - Len(s)]
    BY <1>4, <2>1
  <2> QED BY <2>1, <2>2 DEF j
<1> QED BY <1>3, <1>4, <1>6, <1>7, Zenon DEF IsSeq

(* A part of a sequence; beyond its end there is none.                      *)
LEMMA SeqPart ==
  ASSUME NEW s, IsSeq(s), NEW a \in Nat, a >= 1, NEW b \in Int, b <= Len(s)
  PROVE  LET t == SubSeq(s, a, b)
         IN  /\ IsSeq(t)
             /\ Len(t) = IF a <= b THEN b - a + 1 ELSE 0
             /\ \A i \in 1 .. b - a + 1 : t[i] = s[a + i - 1]
<1>1. PICK S : s \in Seq(S)
  BY DEF IsSeq
<1>2. Len(s) \in Nat
  BY SeqIs
<1>3. \A i \in a .. b : s[i] \in S
  BY <1>1, <1>2, ElementOfSeq
<1>4. /\ SubSeq(s, a, b) \in Seq(S)
      /\ Len(SubSeq(s, a, b)) = IF a <= b THEN b - a + 1 ELSE 0
      /\ \A i \in 1 .. b - a + 1 : SubSeq(s, a, b)[i] = s[a + i - 1]
  BY <1>3, SubSeqProperties
<1> QED BY <1>4, Zenon DEF IsSeq

(* One element of a sequence replaced.                                      *)
LEMMA SeqExcept ==
  ASSUME NEW s, IsSeq(s), NEW i \in 1 .. Len(s), NEW e
  PROVE  LET t == [s EXCEPT ![i] = e]
         IN  /\ IsSeq(t) /\ Len(t) = Len(s)
             /\ t[i] = e
             /\ \A j \in 1 .. Len(s) : j # i => t[j] = s[j]
<1>1. PICK S : s \in Seq(S)
  BY DEF IsSeq
<1> DEFINE U == S \cup {e}
           t == [s EXCEPT ![i] = e]
<1>2. s \in Seq(U) /\ e \in U
  BY <1>1, SeqMonotonic, Zenon
<1> HIDE DEF U
<1>3. /\ t \in Seq(U) /\ Len(t) = Len(s)
      /\ \A j \in 1 .. Len(s) : t[j] = IF j = i THEN e ELSE s[j]
  BY <1>2, ExceptSeq
<1> HIDE DEF t
<1>4. IsSeq(t)
  BY <1>3, Zenon DEF IsSeq
<1> QED BY <1>3, <1>4 DEF t

LEMMA SubIs ==
  ASSUME NEW s, IsSeq(s), NEW n \in 0 .. Len(s)
  PROVE  LET t == Sub(s, 1, n)
         IN  /\ IsSeq(t) /\ Len(t) = n
             /\ \A i \in 1 .. n : t[i] = s[i]
<1>1. Len(s) \in Nat
  BY SeqIs
<1>2. 1 + (IF n < Len(s) - 1 + 1 THEN n ELSE Len(s) - 1 + 1) - 1 = n
  BY <1>1
<1>3. Sub(s, 1, n) = SubSeq(s, 1, n)
  BY <1>2, Zenon DEF Sub
<1> DEFINE t == SubSeq(s, 1, n)
<1>4. /\ IsSeq(t)
      /\ Len(t) = IF 1 <= n THEN n - 1 + 1 ELSE 0
      /\ \A i \in 1 .. n - 1 + 1 : t[i] = s[1 + i - 1]
  BY <1>1, SeqPart
<1> HIDE DEF t
<1>5. Len(t) = n /\ \A i \in 1 .. n : t[i] = s[i]
  BY <1>1, <1>4
<1> QED BY <1>3, <1>4, <1>5 DEF t

LEMMA SubFromIs ==
  ASSUME NEW s, IsSeq(s), NEW a \in Nat, a >= 1
  PROVE  LET t == SubFrom(s, a)
         IN  /\ IsSeq(t)
             /\ Len(t) = IF a <= Len(s) THEN Len(s) - a + 1 ELSE 0
             /\ \A i \in 1 .. Len(s) - a + 1 : t[i] = s[a + i - 1]
<1>1. Len(s) \in Nat
  BY SeqIs
<1> QED BY <1>1, SeqPart DEF SubFrom

-----------------------------------------------------------------------------
(* Words, and paragraphs of words.                                          *)

LEMMA SameWords ==
  /\ Words!Word = Word /\ Words!Style = Style
  /\ \A style \in Words!Style : style \notin Char
  /\ 0 \in Nat
<1>1. Words!Style = Style
  BY DEF Words!Style, Style
<1>2. Words!Word = Word
  BY <1>1 DEF Words!Word, Word
<1> QED BY <1>1, <1>2, CharAssumption

LEMMA SameOperations ==
  ASSUME NEW w, NEW ins, NEW a, NEW b, NEW c, NEW sor, NEW sand
  PROVE  /\ Words!DeleteFromWord(w, a, b) = DeleteFromWord(w, a, b)
         /\ Words!InsertIntoWord(w, ins, a, sor) = InsertIntoWord(w, ins, a, sor)
         /\ Words!ApplyStyleToWord(w, sor, sand, a, b, c) = ApplyStyleToWord(w, sor, sand, a, b, c)
         /\ Words!NextCharInWord(w, a) = NextCharInWord(w, a)
         /\ Words!PrevCharInWord(w, a) = PrevCharInWord(w, a)
         /\ Words!StylePrime(sor) = StylePrime(sor)
         /\ Words!Offsets(w) = 1 .. Len(w) + 1
<1>1. Words!DeleteFromWord(w, a, b) = DeleteFromWord(w, a, b)
  BY Zenon DEF Words!DeleteFromWord, DeleteFromWord, Words!CopyRange, CopyRange, Words!Copy, Copy,
     Words!IsCode, IsCode, Words!Plain, Plain, Words!State, State, Words!StyleAt, StyleAt
<1>2. Words!InsertIntoWord(w, ins, a, sor) = InsertIntoWord(w, ins, a, sor)
  BY Zenon DEF Words!InsertIntoWord, InsertIntoWord, Words!CopyRange, CopyRange, Words!Copy, Copy,
     Words!IsCode, IsCode, Words!Plain, Plain, Words!State, State, Words!StyleAt, StyleAt
<1>3. Words!ApplyStyleToWord(w, sor, sand, a, b, c) = ApplyStyleToWord(w, sor, sand, a, b, c)
  BY Zenon DEF Words!ApplyStyleToWord, ApplyStyleToWord, Words!Copy, Copy,
     Words!IsCode, IsCode, Words!Plain, Plain, Words!State, State
<1>4. Words!NextCharInWord(w, a) = NextCharInWord(w, a)
  BY Zenon DEF Words!NextCharInWord, NextCharInWord, Words!IsCode, IsCode
<1>5. Words!PrevCharInWord(w, a) = PrevCharInWord(w, a)
  BY Zenon DEF Words!PrevCharInWord, PrevCharInWord, Words!IsCode, IsCode
<1>6. Words!StylePrime(sor) = StylePrime(sor)
  BY Zenon DEF Words!StylePrime, StylePrime, Words!Plain, Plain
<1> QED BY <1>1, <1>2, <1>3, <1>4, <1>5, <1>6, Zenon DEF Words!Offsets

LEMMA WordIs ==
  ASSUME NEW w \in Word
  PROVE  IsSeq(w) /\ Len(w) \in Nat
<1>1. w \in Seq(Char \cup Style)
  BY DEF Word
<1>2. IsSeq(w)
  BY <1>1, Zenon DEF IsSeq
<1> QED BY <1>1, <1>2

LEMMA EmptyWord == <<>> \in Word /\ Len(<<>>) = 0 /\ Plain \in Style
BY DEF Word, Plain, Style

LEMMA WordDeleted ==
  ASSUME NEW w \in Word, NEW first \in Nat \ {0}, NEW next \in Nat
  PROVE  DeleteFromWord(w, first, next) \in Word
<1>1. Words!DeleteFromWord(w, first, next) \in Words!Word
  BY SameWords, Words!DeletedType
<1> QED BY <1>1, SameWords, SameOperations

(* What is inserted ends in the word.                                       *)
LEMMA WordInserted ==
  ASSUME NEW w \in Word, NEW ins \in Word, NEW o \in 1 .. Len(w) + 1, NEW style \in Style
  PROVE  LET r == InsertIntoWord(w, ins, o, style)
         IN  r.word \in Word /\ r.stop \in 1 .. Len(r.word) + 1 /\ r.stop \in Nat \ {0}
<1> DEFINE r == InsertIntoWord(w, ins, o, style)
           s == Words!InsertIntoWord(w, ins, o, style)
<1>1. s = r
  BY SameOperations
<1>2. o \in Words!Offsets(w)
  BY SameOperations
<1>3. s.word \in Words!Word /\ s.stop \in Words!Offsets(s.word)
  BY <1>2, SameWords, Words!Inserted
<1> HIDE DEF r, s
<1>4. r.word \in Word /\ r.stop \in 1 .. Len(r.word) + 1
  BY <1>1, <1>3, SameWords, SameOperations
<1>5. Len(r.word) \in Nat
  BY <1>4, WordIs
<1> QED BY <1>4, <1>5 DEF r

LEMMA WordStyled ==
  ASSUME NEW w \in Word, NEW sor \in Style, NEW sand \in Style, NEW first, NEW next, NEW cursor
  PROVE  LET r == ApplyStyleToWord(w, sor, sand, first, next, cursor)
         IN  r.word \in Word /\ r.cursor \in Nat \ {0}
<1> DEFINE r == ApplyStyleToWord(w, sor, sand, first, next, cursor)
           s == Words!ApplyStyleToWord(w, sor, sand, first, next, cursor)
<1>1. s = r
  BY SameOperations
<1>2. s.word \in Words!Word /\ s.cursor \in Nat \ {0}
  BY SameWords, Words!AppliedType
<1> HIDE DEF r, s
<1> QED BY <1>1, <1>2, SameWords DEF r

(* The word behind a split starts with codes, unless something is marked.   *)
LEMMA WordPrimed ==
  ASSUME NEW w \in Word, NEW hint \in Style
  PROVE  /\ StylePrime(hint) \o w \in Word /\ Len(StylePrime(hint) \o w) >= 1
         /\ <<>> \o w = w
<1> DEFINE p == StylePrime(hint)
<1>1. p \in Word /\ Len(p) \in 1 .. 2
  <2>1. Words!StylePrime(hint) \in Words!Word /\ Len(Words!StylePrime(hint)) \in 1 .. 2
    BY SameWords, Words!HintRead
  <2> QED BY <2>1, SameWords, SameOperations
<1> HIDE DEF p
<1>2. p \o w \in Word /\ Len(p \o w) = Len(p) + Len(w) /\ Len(w) \in Nat
  BY <1>1 DEF Word
<1>3. <<>> \o w = w
  BY DEF Word
<1> QED BY <1>1, <1>2, <1>3 DEF p

LEMMA WordSteps ==
  ASSUME NEW w \in Word, NEW o \in Nat
  PROVE  NextCharInWord(w, o) \in Nat /\ PrevCharInWord(w, o) \in Nat
<1>1. Words!NextCharInWord(w, o) \in Nat /\ Words!PrevCharInWord(w, o) \in Nat
  BY WordIs, SameWords, Words!StepType
<1> QED BY <1>1, SameOperations

(* A mark that is made in a word is in the word.                            *)
LEMMA WordRewound ==
  ASSUME NEW w \in Word, NEW o \in 1 .. Len(w) + 1
  PROVE  RewindPastStyleBytes(w, o) \in 1 .. Len(w) + 1
<1> DEFINE p == PrevCharInWord(w, o)
<1>1. 1 \in 1 .. Len(w) + 1
  BY WordIs
<1>2. CASE p = 0
  BY <1>1, <1>2 DEF RewindPastStyleBytes
<1>3. CASE p # 0
  <2>1. o \in Words!Offsets(w) /\ p = Words!PrevCharInWord(w, o)
    BY SameOperations
  <2>2. Words!NextCharInWord(w, Words!PrevCharInWord(w, o)) \in Words!Offsets(w)
    BY <1>3, <2>1, SameWords, Words!BackAndForth
  <2>3. NextCharInWord(w, p) \in 1 .. Len(w) + 1
    BY <2>1, <2>2, SameOperations
  <2> QED BY <1>3, <2>3 DEF RewindPastStyleBytes
<1> QED BY <1>2, <1>3

Worded(s) == \A i \in 1 .. Len(s) : s[i] \in Word

LEMMA WordedParts ==
  ASSUME NEW s, IsSeq(s), Worded(s)
  PROVE  /\ \A n \in 0 .. Len(s) : Worded(Sub(s, 1, n))
         /\ \A a \in Nat : a >= 1 => Worded(SubFrom(s, a))
<1>1. Len(s) \in Nat
  BY SeqIs
<1>2. ASSUME NEW n \in 0 .. Len(s) PROVE Worded(Sub(s, 1, n))
  <2> DEFINE t == Sub(s, 1, n)
  <2>1. Len(t) = n /\ \A i \in 1 .. n : t[i] = s[i]
    BY SubIs
  <2> HIDE DEF t
  <2>2. \A i \in 1 .. n : i \in 1 .. Len(s)
    BY <1>1
  <2>3. Worded(t)
    BY <2>1, <2>2 DEF Worded
  <2> QED BY <2>3 DEF t
<1>3. ASSUME NEW a \in Nat, a >= 1 PROVE Worded(SubFrom(s, a))
  <2> DEFINE t == SubFrom(s, a)
  <2>1. /\ Len(t) = IF a <= Len(s) THEN Len(s) - a + 1 ELSE 0
        /\ \A i \in 1 .. Len(s) - a + 1 : t[i] = s[a + i - 1]
    BY <1>3, SubFromIs
  <2> HIDE DEF t
  <2>2. ASSUME NEW i \in 1 .. Len(t) PROVE t[i] \in Word
    <3> DEFINE k == a + i - 1
    <3>1. i \in 1 .. Len(s) - a + 1 /\ k \in 1 .. Len(s)
      BY <1>1, <1>3, <2>1
    <3>2. t[i] = s[k]
      BY <2>1, <3>1
    <3> HIDE DEF k
    <3> QED BY <3>1, <3>2 DEF Worded
  <2>3. Worded(t)
    BY <2>2 DEF Worded
  <2> QED BY <2>3 DEF t
<1> QED BY <1>2, <1>3

LEMMA WordedConcat ==
  ASSUME NEW s, IsSeq(s), Worded(s), NEW t, IsSeq(t), Worded(t)
  PROVE  Worded(s \o t)
<1> DEFINE r == s \o t
<1>1. /\ Len(r) = Len(s) + Len(t)
      /\ \A i \in 1 .. Len(s) : r[i] = s[i]
      /\ \A i \in 1 .. Len(t) : r[Len(s) + i] = t[i]
      /\ Len(s) \in Nat /\ Len(t) \in Nat
  BY SeqConcat, SeqIs
<1> HIDE DEF r
<1>2. ASSUME NEW i \in 1 .. Len(r) PROVE r[i] \in Word
  <2>1. CASE i <= Len(s)
    <3>1. i \in 1 .. Len(s)
      BY <1>1, <2>1
    <3> QED BY <1>1, <3>1 DEF Worded
  <2>2. CASE i > Len(s)
    <3> DEFINE j == i - Len(s)
    <3>1. j \in 1 .. Len(t) /\ Len(s) + j = i
      BY <1>1, <2>2
    <3> HIDE DEF j
    <3>2. r[Len(s) + j] = t[j]
      BY <1>1, <3>1
    <3> QED BY <3>1, <3>2 DEF Worded
  <2> QED BY <1>1, <2>1, <2>2
<1>3. Worded(r)
  BY <1>2 DEF Worded
<1> QED BY <1>3 DEF r

LEMMA WordedLiterals ==
  ASSUME NEW x \in Word, NEW y \in Word
  PROVE  Worded(<<>>) /\ Worded(<<x>>) /\ Worded(<<x, y>>)
<1>1. Worded(<<>>)
  BY SeqLiterals DEF Worded
<1>2. ASSUME NEW s, Len(s) = 1, s[1] \in Word PROVE Worded(s)
  <2>1. \A i \in 1 .. 1 : i = 1
    OBVIOUS
  <2> QED BY <1>2, <2>1 DEF Worded
<1>3. ASSUME NEW s, Len(s) = 2, s[1] \in Word, s[2] \in Word PROVE Worded(s)
  <2>1. \A i \in 1 .. 2 : i = 1 \/ i = 2
    OBVIOUS
  <2> QED BY <1>3, <2>1 DEF Worded
<1>4. Worded(<<x>>)
  <2> DEFINE s == <<x>>
  <2>1. Len(s) = 1 /\ s[1] = x
    BY SeqLiterals
  <2> HIDE DEF s
  <2>2. Worded(s)
    BY <1>2, <2>1
  <2> QED BY <2>2 DEF s
<1>5. Worded(<<x, y>>)
  <2> DEFINE s == <<x, y>>
  <2>1. Len(s) = 2 /\ s[1] = x /\ s[2] = y
    BY SeqLiterals
  <2> HIDE DEF s
  <2>2. Worded(s)
    BY <1>3, <2>1
  <2> QED BY <2>2 DEF s
<1> QED BY <1>1, <1>4, <1>5

-----------------------------------------------------------------------------
(* Documents.                                                               *)

IsDoc(d) == d = [paras |-> d.paras, cp |-> d.cp, cw |-> d.cw, co |-> d.co,
                 mark |-> d.mark, sticky |-> d.sticky]

Paras(ps) == IsSeq(ps) /\ \A p \in 1 .. Len(ps) : IsSeq(ps[p]) /\ Worded(ps[p])
Filled(ps) == Paras(ps) /\ \A p \in 1 .. Len(ps) : ps[p] # <<>>

(* The cursor is at a word, or behind the last one of its paragraph.        *)
Near(d) ==
  /\ IsDoc(d) /\ Paras(d.paras)
  /\ d.cp \in 1 .. Len(d.paras)
  /\ d.cw \in 1 .. Len(d.paras[d.cp]) + 1
  /\ d.co \in Nat \ {0}

(* It is at a word; its offset is one, but maybe not of this word.          *)
Good(d) ==
  /\ IsDoc(d) /\ Filled(d.paras)
  /\ d.cp \in 1 .. Len(d.paras)
  /\ d.cw \in 1 .. Len(d.paras[d.cp])
  /\ d.co \in Nat \ {0}

(* The offset, too, is in the word. *)
Within(d) == d.co \in 1 .. Len(CurrentWord(d)) + 1

(* r has the mark of d. *)
KeepsMark(d, r) == r.mark = d.mark /\ r.sticky = d.sticky

LEMMA GoodIs ==
  ASSUME NEW d, Good(d)
  PROVE  /\ Near(d)
         /\ IsSeq(d.paras) /\ Len(d.paras) \in Nat /\ Len(d.paras) >= 1
         /\ IsSeq(Paragraph(d)) /\ Len(Paragraph(d)) \in Nat /\ Len(Paragraph(d)) >= 1
         /\ Worded(Paragraph(d))
         /\ CurrentWord(d) \in Word /\ Len(CurrentWord(d)) \in Nat
         /\ d.cp \in Nat /\ d.cw \in Nat /\ d.co \in Nat
<1>1. Paras(d.paras) /\ IsSeq(d.paras) /\ Len(d.paras) \in Nat
  BY SeqIs DEF Good, Filled, Paras
<1>2. IsSeq(d.paras[d.cp]) /\ Worded(d.paras[d.cp])
  BY <1>1 DEF Good, Paras
<1>3. Len(d.paras[d.cp]) \in Nat
  BY <1>2, SeqIs
<1>4. CurrentWord(d) \in Word
  BY <1>2 DEF Good, Worded, CurrentWord, Paragraph
<1>5. Len(CurrentWord(d)) \in Nat
  BY <1>4, WordIs
<1> QED BY <1>1, <1>2, <1>3, <1>4, <1>5 DEF Good, Near, Paragraph

Document(ps, p, w, o, m, s) ==
  [paras |-> ps, cp |-> p, cw |-> w, co |-> o, mark |-> m, sticky |-> s]

LEMMA DocumentFields ==
  ASSUME NEW ps, NEW p, NEW w, NEW o, NEW m, NEW s
  PROVE  LET e == Document(ps, p, w, o, m, s)
         IN  /\ IsDoc(e)
             /\ e.paras = ps /\ e.cp = p /\ e.cw = w /\ e.co = o /\ e.mark = m /\ e.sticky = s
<1> DEFINE e == Document(ps, p, w, o, m, s)
<1>1. e.paras = ps /\ e.cp = p /\ e.cw = w /\ e.co = o /\ e.mark = m /\ e.sticky = s
  BY DEF Document
<1>2. IsDoc(e)
  BY <1>1 DEF IsDoc, Document
<1> QED BY <1>1, <1>2

LEMMA DocumentExcept ==
  ASSUME NEW d, IsDoc(d), NEW x
  PROVE  /\ [d EXCEPT !.paras = x] = Document(x, d.cp, d.cw, d.co, d.mark, d.sticky)
         /\ [d EXCEPT !.cp = x] = Document(d.paras, x, d.cw, d.co, d.mark, d.sticky)
         /\ [d EXCEPT !.cw = x] = Document(d.paras, d.cp, x, d.co, d.mark, d.sticky)
         /\ [d EXCEPT !.co = x] = Document(d.paras, d.cp, d.cw, x, d.mark, d.sticky)
         /\ [d EXCEPT !.mark = x] = Document(d.paras, d.cp, d.cw, d.co, x, d.sticky)
         /\ [d EXCEPT !.sticky = x] = Document(d.paras, d.cp, d.cw, d.co, d.mark, x)
<1> DEFINE e == Document(d.paras, d.cp, d.cw, d.co, d.mark, d.sticky)
<1>1. d = e
  BY DEF IsDoc, Document
<1>2. [e EXCEPT !.paras = x] = Document(x, d.cp, d.cw, d.co, d.mark, d.sticky)
  BY DEF Document
<1>3. [e EXCEPT !.cp = x] = Document(d.paras, x, d.cw, d.co, d.mark, d.sticky)
  BY DEF Document
<1>4. [e EXCEPT !.cw = x] = Document(d.paras, d.cp, x, d.co, d.mark, d.sticky)
  BY DEF Document
<1>5. [e EXCEPT !.co = x] = Document(d.paras, d.cp, d.cw, x, d.mark, d.sticky)
  BY DEF Document
<1>6. [e EXCEPT !.mark = x] = Document(d.paras, d.cp, d.cw, d.co, x, d.sticky)
  BY DEF Document
<1>7. [e EXCEPT !.sticky = x] = Document(d.paras, d.cp, d.cw, d.co, d.mark, x)
  BY DEF Document
<1> HIDE DEF e
<1> QED BY <1>1, <1>2, <1>3, <1>4, <1>5, <1>6, <1>7

LEMMA AtIs ==
  ASSUME NEW d, IsDoc(d), NEW p, NEW w, NEW o
  PROVE  LET r == At(d, p, w, o)
         IN  /\ IsDoc(r) /\ KeepsMark(d, r)
             /\ r.paras = d.paras /\ r.cp = p /\ r.cw = w /\ r.co = o
<1> DEFINE e == [d EXCEPT !.cp = p]
           f == [e EXCEPT !.cw = w]
           g == [f EXCEPT !.co = o]
<1>1. At(d, p, w, o) = g
  BY Zenon DEF At
<1>2. e = Document(d.paras, p, d.cw, d.co, d.mark, d.sticky)
  BY DocumentExcept
<1> HIDE DEF e
<1>3. /\ IsDoc(e) /\ e.paras = d.paras /\ e.cp = p /\ e.co = d.co
      /\ e.mark = d.mark /\ e.sticky = d.sticky
  BY <1>2, DocumentFields
<1>4. f = Document(e.paras, e.cp, w, e.co, e.mark, e.sticky)
  BY <1>3, DocumentExcept
<1> HIDE DEF f
<1>5. /\ IsDoc(f) /\ f.paras = e.paras /\ f.cp = e.cp /\ f.cw = w
      /\ f.mark = e.mark /\ f.sticky = e.sticky
  BY <1>4, DocumentFields
<1>6. g = Document(f.paras, f.cp, f.cw, o, f.mark, f.sticky)
  BY <1>5, DocumentExcept
<1> HIDE DEF g
<1>7. /\ IsDoc(g) /\ g.paras = f.paras /\ g.cp = f.cp /\ g.cw = f.cw /\ g.co = o
      /\ g.mark = f.mark /\ g.sticky = f.sticky
  BY <1>6, DocumentFields
<1> QED BY <1>1, <1>3, <1>5, <1>7 DEF KeepsMark

(* One field changed, and the rest as it was.                               *)
WithParas(d, ps) == [d EXCEPT !.paras = ps]
WithParagraph(d, p) == [d EXCEPT !.cp = p]
WithWord(d, w) == [d EXCEPT !.cw = w]
WithOffset(d, o) == [d EXCEPT !.co = o]
WithMark(d, m) == [d EXCEPT !.mark = m]

LEMMA WithParasIs ==
  ASSUME NEW d, IsDoc(d), NEW ps
  PROVE  LET r == WithParas(d, ps)
         IN  /\ IsDoc(r) /\ KeepsMark(d, r)
             /\ r.paras = ps /\ r.cp = d.cp /\ r.cw = d.cw /\ r.co = d.co
<1> DEFINE r == WithParas(d, ps)
<1>1. r = Document(ps, d.cp, d.cw, d.co, d.mark, d.sticky)
  BY DocumentExcept DEF WithParas
<1> HIDE DEF r
<1>2. /\ IsDoc(r) /\ KeepsMark(d, r)
      /\ r.paras = ps /\ r.cp = d.cp /\ r.cw = d.cw /\ r.co = d.co
  BY <1>1, DocumentFields DEF KeepsMark
<1> QED BY <1>2 DEF r

LEMMA WithParagraphIs ==
  ASSUME NEW d, IsDoc(d), NEW p
  PROVE  LET r == WithParagraph(d, p)
         IN  /\ IsDoc(r) /\ KeepsMark(d, r)
             /\ r.paras = d.paras /\ r.cp = p /\ r.cw = d.cw /\ r.co = d.co
<1> DEFINE r == WithParagraph(d, p)
<1>1. r = Document(d.paras, p, d.cw, d.co, d.mark, d.sticky)
  BY DocumentExcept DEF WithParagraph
<1> HIDE DEF r
<1>2. /\ IsDoc(r) /\ KeepsMark(d, r)
      /\ r.paras = d.paras /\ r.cp = p /\ r.cw = d.cw /\ r.co = d.co
  BY <1>1, DocumentFields DEF KeepsMark
<1> QED BY <1>2 DEF r

LEMMA WithWordIs ==
  ASSUME NEW d, IsDoc(d), NEW w
  PROVE  LET r == WithWord(d, w)
         IN  /\ IsDoc(r) /\ KeepsMark(d, r)
             /\ r.paras = d.paras /\ r.cp = d.cp /\ r.cw = w /\ r.co = d.co
<1> DEFINE r == WithWord(d, w)
<1>1. r = Document(d.paras, d.cp, w, d.co, d.mark, d.sticky)
  BY DocumentExcept DEF WithWord
<1> HIDE DEF r
<1>2. /\ IsDoc(r) /\ KeepsMark(d, r)
      /\ r.paras = d.paras /\ r.cp = d.cp /\ r.cw = w /\ r.co = d.co
  BY <1>1, DocumentFields DEF KeepsMark
<1> QED BY <1>2 DEF r

LEMMA WithOffsetIs ==
  ASSUME NEW d, IsDoc(d), NEW o
  PROVE  LET r == WithOffset(d, o)
         IN  /\ IsDoc(r) /\ KeepsMark(d, r)
             /\ r.paras = d.paras /\ r.cp = d.cp /\ r.cw = d.cw /\ r.co = o
<1> DEFINE r == WithOffset(d, o)
<1>1. r = Document(d.paras, d.cp, d.cw, o, d.mark, d.sticky)
  BY DocumentExcept DEF WithOffset
<1> HIDE DEF r
<1>2. /\ IsDoc(r) /\ KeepsMark(d, r)
      /\ r.paras = d.paras /\ r.cp = d.cp /\ r.cw = d.cw /\ r.co = o
  BY <1>1, DocumentFields DEF KeepsMark
<1> QED BY <1>2 DEF r

LEMMA WithMarkIs ==
  ASSUME NEW d, IsDoc(d), NEW m
  PROVE  LET r == WithMark(d, m)
         IN  /\ IsDoc(r) /\ r.mark = m /\ r.sticky = d.sticky
             /\ r.paras = d.paras /\ r.cp = d.cp /\ r.cw = d.cw /\ r.co = d.co
<1> DEFINE r == WithMark(d, m)
<1>1. r = Document(d.paras, d.cp, d.cw, d.co, m, d.sticky)
  BY DocumentExcept DEF WithMark
<1> HIDE DEF r
<1>2. /\ IsDoc(r) /\ r.mark = m /\ r.sticky = d.sticky
      /\ r.paras = d.paras /\ r.cp = d.cp /\ r.cw = d.cw /\ r.co = d.co
  BY <1>1, DocumentFields DEF KeepsMark
<1> QED BY <1>2 DEF r

-----------------------------------------------------------------------------
(* Words and paragraphs put in the place of others.                         *)

(* r has the paragraphs of d, but n words in the one with the cursor.       *)
Resized(d, r, n) ==
  /\ IsDoc(r) /\ KeepsMark(d, r) /\ r.cp = d.cp
  /\ IsSeq(r.paras) /\ Len(r.paras) = Len(d.paras)
  /\ \A p \in 1 .. Len(d.paras) : p # d.cp => r.paras[p] = d.paras[p]
  /\ IsSeq(r.paras[d.cp]) /\ Len(r.paras[d.cp]) = n /\ Worded(r.paras[d.cp])

(* How many places lie from the one to the other. *)
Left(to, from) == IF from <= to THEN to - from ELSE 0

(* From the cursor of d on, r has these words. *)
HasWords(d, r, words) ==
  \A i \in 1 .. Len(words) : r.paras[d.cp][d.cw - 1 + i] = words[i]

PutParagraph(ps, p, paragraph) == [ps EXCEPT ![p] = paragraph]

LEMMA ParagraphPut ==
  ASSUME NEW ps, IsSeq(ps), NEW p \in 1 .. Len(ps), NEW paragraph
  PROVE  /\ IsSeq(PutParagraph(ps, p, paragraph))
         /\ Len(PutParagraph(ps, p, paragraph)) = Len(ps)
         /\ PutParagraph(ps, p, paragraph)[p] = paragraph
         /\ \A i \in 1 .. Len(ps) : i # p => PutParagraph(ps, p, paragraph)[i] = ps[i]
BY SeqExcept DEF PutParagraph

LEMMA PutWordsIs ==
  ASSUME NEW d, Near(d), NEW gone \in Nat, NEW words, IsSeq(words), Worded(words),
         NEW n, n = d.cw - 1 + Len(words) + Left(Len(Paragraph(d)) + 1, d.cw + gone)
  PROVE  LET r == PutWords(d, gone, words)
         IN  /\ Resized(d, r, n) /\ r.cw = d.cw /\ r.co = d.co
             /\ HasWords(d, r, words)
<1> DEFINE P == Paragraph(d)
           Q == Sub(P, 1, d.cw - 1) \o words \o SubFrom(P, d.cw + gone)
           ps == PutParagraph(d.paras, d.cp, Q)
           r == WithParas(d, ps)
<1>1. PutWords(d, gone, words) = r
  BY Zenon DEF PutWords, Paragraph, WithParas, PutParagraph
<1>2. /\ IsDoc(d) /\ IsSeq(d.paras) /\ d.cp \in 1 .. Len(d.paras)
      /\ IsSeq(P) /\ Worded(P) /\ d.cw \in 1 .. Len(P) + 1
  BY DEF Near, Paras, Paragraph
<1>3. Len(d.paras) \in Nat /\ Len(P) \in Nat /\ Len(words) \in Nat
  BY <1>2, SeqIs
<1> HIDE DEF P
<1> DEFINE A == Sub(P, 1, d.cw - 1)
           B == SubFrom(P, d.cw + gone)
<1>4. IsSeq(A) /\ Len(A) = d.cw - 1 /\ Worded(A)
  <2>1. d.cw - 1 \in 0 .. Len(P)
    BY <1>2, <1>3
  <2> QED BY <1>2, <2>1, SubIs, WordedParts
<1>5. IsSeq(B) /\ Len(B) = Left(Len(P) + 1, d.cw + gone) /\ Worded(B)
  <2> DEFINE w == d.cw + gone
  <2>1. w \in Nat /\ w >= 1
    BY <1>2, <1>3
  <2> HIDE DEF w
  <2>2. B = SubFrom(P, w)
    BY DEF w
  <2> HIDE DEF B
  <2>3. /\ IsSeq(B) /\ Len(B) = IF w <= Len(P) THEN Len(P) - w + 1 ELSE 0
        /\ Worded(B)
    BY <1>2, <2>1, <2>2, SubFromIs, WordedParts
  <2>4. Len(B) = Left(Len(P) + 1, w)
    BY <1>3, <2>1, <2>3 DEF Left
  <2> QED BY <2>3, <2>4 DEF w
<1> HIDE DEF A, B
<1> DEFINE AW == A \o words
<1>6. /\ IsSeq(AW) /\ Len(AW) = d.cw - 1 + Len(words) /\ Worded(AW)
      /\ \A i \in 1 .. Len(words) : AW[d.cw - 1 + i] = words[i]
  <2>1. /\ IsSeq(AW) /\ Len(AW) = Len(A) + Len(words)
        /\ \A i \in 1 .. Len(words) : AW[Len(A) + i] = words[i]
    BY <1>4, SeqConcat
  <2>2. Worded(AW)
    BY <1>4, WordedConcat
  <2> HIDE DEF AW
  <2> QED BY <1>4, <2>1, <2>2
<1> HIDE DEF AW
<1>7. /\ IsSeq(AW \o B) /\ Len(AW \o B) = n /\ Worded(AW \o B)
      /\ \A i \in 1 .. Len(words) : (AW \o B)[d.cw - 1 + i] = words[i]
  <2>1. /\ IsSeq(AW \o B) /\ Len(AW \o B) = Len(AW) + Len(B)
        /\ \A i \in 1 .. Len(AW) : (AW \o B)[i] = AW[i]
    BY <1>5, <1>6, SeqConcat
  <2>2. n = d.cw - 1 + Len(words) + Left(Len(P) + 1, d.cw + gone)
    BY DEF P
  <2>3. \A i \in 1 .. Len(words) : d.cw - 1 + i \in 1 .. Len(AW)
    <3>1. /\ d.cw \in Int /\ d.cw >= 1 /\ Len(words) \in Nat
          /\ Len(AW) = d.cw - 1 + Len(words)
      BY <1>2, <1>3, <1>6
    <3> QED BY <3>1
  <2>4. Worded(AW \o B)
    BY <1>5, <1>6, WordedConcat
  <2> QED BY <1>5, <1>6, <2>1, <2>2, <2>3, <2>4
<1>8. Q = AW \o B
  BY Zenon DEF Q, A, B, AW
<1> HIDE DEF Q
<1>9. /\ IsSeq(ps) /\ Len(ps) = Len(d.paras) /\ ps[d.cp] = Q
      /\ \A p \in 1 .. Len(d.paras) : p # d.cp => ps[p] = d.paras[p]
  <2>1. IsSeq(d.paras) /\ d.cp \in 1 .. Len(d.paras)
    BY <1>2
  <2> QED BY <2>1, ParagraphPut
<1> HIDE DEF ps
<1>10. IsDoc(r) /\ KeepsMark(d, r) /\ r.paras = ps /\ r.cp = d.cp /\ r.cw = d.cw /\ r.co = d.co
  BY <1>2, WithParasIs
<1> HIDE DEF r
<1>11. Resized(d, r, n)
  BY <1>7, <1>8, <1>9, <1>10 DEF Resized
<1>12. HasWords(d, r, words)
  BY <1>7, <1>8, <1>9, <1>10 DEF HasWords
<1> QED BY <1>1, <1>10, <1>11, <1>12

LEMMA PutInsertedIs ==
  ASSUME NEW d, Near(d), NEW gone \in Nat, NEW ins, ins.word \in Word,
         NEW n, n = d.cw + Left(Len(Paragraph(d)) + 1, d.cw + gone)
  PROVE  LET r == PutInserted(d, gone, ins)
         IN  /\ Resized(d, r, n) /\ r.cw = d.cw /\ r.co = ins.stop
             /\ CurrentWord(r) = ins.word
<1> DEFINE e == PutWords(d, gone, <<ins.word>>)
           r == WithOffset(e, ins.stop)
           ws == <<ins.word>>
<1>1. IsSeq(ws) /\ Len(ws) = 1 /\ ws[1] = ins.word /\ Worded(ws)
  BY SeqLiterals, WordedLiterals
<1> HIDE DEF ws
<1>2. /\ Resized(d, e, n) /\ e.cw = d.cw
      /\ e.paras[d.cp][d.cw] = ins.word
  <2>1. d.cw \in Nat
    BY SeqIs DEF Near, Paras
  <2>2. n = d.cw - 1 + Len(ws) + Left(Len(Paragraph(d)) + 1, d.cw + gone)
    BY <1>1, <2>1
  <2>3. /\ Resized(d, e, n) /\ e.cw = d.cw
        /\ HasWords(d, e, ws)
    <3>1. e = PutWords(d, gone, ws)
      BY DEF ws
    <3> HIDE DEF e
    <3> QED BY <1>1, <2>2, <3>1, PutWordsIs
  <2>4. 1 \in 1 .. Len(ws) /\ d.cw - 1 + 1 = d.cw
    BY <1>1, <2>1
  <2>5. e.paras[d.cp][d.cw - 1 + 1] = ws[1]
    BY <2>3, <2>4 DEF HasWords
  <2> QED BY <1>1, <2>3, <2>4, <2>5
<1> HIDE DEF e
<1>3. /\ IsDoc(r) /\ KeepsMark(e, r) /\ r.paras = e.paras /\ r.cp = e.cp /\ r.cw = e.cw
      /\ r.co = ins.stop
  BY <1>2, WithOffsetIs DEF Resized
<1>4. PutInserted(d, gone, ins) = r
  BY Zenon DEF PutInserted, WithOffset, e
<1> HIDE DEF r
<1> QED BY <1>2, <1>3, <1>4 DEF Resized, KeepsMark, CurrentWord, Paragraph

(* A document in which one paragraph has changed size, and the cursor in it.*)
LEMMA ResizedGood ==
  ASSUME NEW d, Near(d), Filled(d.paras), NEW n \in Nat, NEW r, Resized(d, r, n),
         r.cw \in 1 .. n, r.co \in Nat \ {0}
  PROVE  Good(r) /\ KeepsMark(d, r) /\ Len(Paragraph(r)) = n
<1>1. Len(d.paras) \in Nat /\ d.cp \in 1 .. Len(d.paras)
  BY SeqIs DEF Near, Paras
<1>2. r.paras[d.cp] # <<>>
  BY SeqIs DEF Resized
<1>3. \A p \in 1 .. Len(r.paras) :
        IsSeq(r.paras[p]) /\ Worded(r.paras[p]) /\ r.paras[p] # <<>>
  BY <1>1, <1>2 DEF Resized, Filled, Paras
<1>4. Filled(r.paras)
  BY <1>3 DEF Resized, Filled, Paras
<1> QED BY <1>1, <1>4 DEF Resized, Good, Paragraph

Splice(s, a, gone, t) == SubSeq(s, 1, a - 1) \o t \o SubSeq(s, a + gone, Len(s))

(* r is s with t in the place of `gone` elements from a on. *)
Spliced(r, s, a, gone, t) ==
  /\ IsSeq(r) /\ Len(r) = Len(s) - gone + Len(t)
  /\ \A i \in 1 .. a - 1 : r[i] = s[i]
  /\ \A i \in 1 .. Len(t) : r[a - 1 + i] = t[i]
  /\ \A i \in 1 .. Len(s) - gone - a + 1 : r[a - 1 + Len(t) + i] = s[a - 1 + gone + i]

LEMMA SpliceIs ==
  ASSUME NEW s, IsSeq(s), NEW t, IsSeq(t), NEW a \in Nat, a >= 1,
         NEW gone \in Nat, a + gone <= Len(s) + 1
  PROVE  Spliced(Splice(s, a, gone, t), s, a, gone, t)
<1> DEFINE A == SubSeq(s, 1, a - 1)
           B == SubSeq(s, a + gone, Len(s))
           AT == A \o t
           r == AT \o B
           n == Len(s) - gone - a + 1
<1>1. Len(s) \in Nat /\ Len(t) \in Nat
  BY SeqIs
<1>2. IsSeq(A) /\ Len(A) = a - 1 /\ \A i \in 1 .. a - 1 : A[i] = s[i]
  <2>1. /\ IsSeq(A)
        /\ Len(A) = IF 1 <= a - 1 THEN a - 1 - 1 + 1 ELSE 0
        /\ \A i \in 1 .. a - 1 - 1 + 1 : A[i] = s[1 + i - 1]
    BY <1>1, SeqPart
  <2> HIDE DEF A
  <2> QED BY <2>1
<1>3. IsSeq(B) /\ Len(B) = n /\ \A i \in 1 .. n : B[i] = s[a - 1 + gone + i]
  <2>1. /\ IsSeq(B)
        /\ Len(B) = IF a + gone <= Len(s) THEN Len(s) - (a + gone) + 1 ELSE 0
        /\ \A i \in 1 .. Len(s) - (a + gone) + 1 : B[i] = s[a + gone + i - 1]
    BY <1>1, SeqPart
  <2> HIDE DEF B
  <2>2. Len(s) - (a + gone) + 1 = n /\ Len(B) = n
    BY <1>1, <2>1
  <2>3. ASSUME NEW i \in 1 .. n PROVE B[i] = s[a - 1 + gone + i]
    <3>1. i \in 1 .. Len(s) - (a + gone) + 1
      BY <1>1
    <3>2. B[i] = s[a + gone + i - 1] /\ a + gone + i - 1 = a - 1 + gone + i
      BY <1>1, <2>1, <3>1
    <3> QED BY <3>2
  <2> QED BY <2>1, <2>2, <2>3
<1> HIDE DEF A, B
<1>4. /\ IsSeq(AT) /\ Len(AT) = a - 1 + Len(t)
      /\ \A i \in 1 .. a - 1 : AT[i] = s[i]
      /\ \A i \in 1 .. Len(t) : AT[a - 1 + i] = t[i]
  <2>1. /\ IsSeq(AT) /\ Len(AT) = Len(A) + Len(t)
        /\ \A i \in 1 .. Len(A) : AT[i] = A[i]
        /\ \A i \in 1 .. Len(t) : AT[Len(A) + i] = t[i]
    BY <1>2, SeqConcat
  <2> HIDE DEF AT
  <2> QED BY <1>2, <2>1
<1> HIDE DEF AT
<1>5. /\ IsSeq(r) /\ Len(r) = a - 1 + Len(t) + n
      /\ \A i \in 1 .. a - 1 + Len(t) : r[i] = AT[i]
      /\ \A i \in 1 .. n : r[a - 1 + Len(t) + i] = B[i]
  <2>1. /\ IsSeq(r) /\ Len(r) = Len(AT) + Len(B)
        /\ \A i \in 1 .. Len(AT) : r[i] = AT[i]
        /\ \A i \in 1 .. Len(B) : r[Len(AT) + i] = B[i]
    <3>1. IsSeq(AT) /\ IsSeq(B)
      BY <1>3, <1>4
    <3> QED BY <3>1, SeqConcat
  <2> HIDE DEF r, n
  <2> QED BY <1>3, <1>4, <2>1
<1>6. Splice(s, a, gone, t) = r
  BY Zenon DEF Splice, A, B, AT
<1> HIDE DEF r
<1>7. Len(r) = Len(s) - gone + Len(t)
  BY <1>1, <1>5
<1>8. \A i \in 1 .. a - 1 : r[i] = s[i]
  <2> SUFFICES ASSUME NEW i \in 1 .. a - 1 PROVE r[i] = s[i]
    OBVIOUS
  <2>1. i \in 1 .. a - 1 + Len(t)
    BY <1>1
  <2> QED BY <1>4, <1>5, <2>1
<1>9. \A i \in 1 .. Len(t) : r[a - 1 + i] = t[i]
  <2> SUFFICES ASSUME NEW i \in 1 .. Len(t) PROVE r[a - 1 + i] = t[i]
    OBVIOUS
  <2>1. a - 1 + i \in 1 .. a - 1 + Len(t)
    BY <1>1
  <2> QED BY <1>4, <1>5, <2>1
<1>10. \A i \in 1 .. n : r[a - 1 + Len(t) + i] = s[a - 1 + gone + i]
  <2> HIDE DEF n
  <2> QED BY <1>3, <1>5
<1>11. Spliced(r, s, a, gone, t)
  BY <1>5, <1>7, <1>8, <1>9, <1>10, Zenon DEF Spliced, n
<1> QED BY <1>6, <1>11

LEMMA PutParagraphsIs ==
  ASSUME NEW d, IsDoc(d), Paras(d.paras), d.cp \in 1 .. Len(d.paras),
         NEW gone \in Nat, d.cp + gone <= Len(d.paras) + 1, NEW new, Paras(new)
  PROVE  LET r == PutParagraphs(d, gone, new)
         IN  /\ IsDoc(r) /\ KeepsMark(d, r) /\ r.cp = d.cp /\ r.cw = d.cw /\ r.co = d.co
             /\ Paras(r.paras) /\ Spliced(r.paras, d.paras, d.cp, gone, new)
<1> DEFINE s == d.paras
           a == d.cp
           ps == Splice(s, a, gone, new)
           r == WithParas(d, ps)
<1>1. PutParagraphs(d, gone, new) = r
  BY Zenon DEF PutParagraphs, Splice, WithParas
<1>2. IsSeq(s) /\ IsSeq(new) /\ Len(s) \in Nat /\ Len(new) \in Nat /\ a \in Nat /\ a >= 1
      /\ a \in 1 .. Len(s) /\ a + gone <= Len(s) + 1
  BY SeqIs DEF Paras
<1>3. IsDoc(r) /\ KeepsMark(d, r) /\ r.paras = ps /\ r.cp = d.cp /\ r.cw = d.cw /\ r.co = d.co
  BY WithParasIs
<1> HIDE DEF r, s, a
<1>4. Spliced(ps, s, a, gone, new)
  BY <1>2, SpliceIs
<1> HIDE DEF ps
<1>5. /\ IsSeq(ps) /\ Len(ps) = Len(s) - gone + Len(new)
      /\ \A i \in 1 .. a - 1 : ps[i] = s[i]
      /\ \A i \in 1 .. Len(new) : ps[a - 1 + i] = new[i]
      /\ \A i \in 1 .. Len(s) - gone - a + 1 : ps[a - 1 + Len(new) + i] = s[a - 1 + gone + i]
  BY <1>4 DEF Spliced
<1>6. ASSUME NEW i \in 1 .. Len(ps) PROVE IsSeq(ps[i]) /\ Worded(ps[i])
  <2>1. CASE i <= a - 1
    <3>1. i \in 1 .. a - 1 /\ i \in 1 .. Len(s)
      BY <1>2, <2>1
    <3> QED BY <1>5, <3>1 DEF Paras, s
  <2>2. CASE i > a - 1 /\ i <= a - 1 + Len(new)
    <3> DEFINE j == i - (a - 1)
    <3>1. j \in 1 .. Len(new) /\ a - 1 + j = i
      BY <1>2, <2>2
    <3> HIDE DEF j
    <3> QED BY <1>5, <3>1 DEF Paras
  <2>3. CASE i > a - 1 + Len(new)
    <3> DEFINE j == i - (a - 1 + Len(new))
               k == a - 1 + gone + j
    <3>1. /\ i \in Int /\ i > a - 1 + Len(new) /\ i <= Len(s) - gone + Len(new)
          /\ a \in Int /\ a >= 1 /\ Len(new) \in Int /\ Len(s) \in Int
      BY <1>2, <1>5, <2>3
    <3>2. j \in 1 .. Len(s) - gone - a + 1 /\ a - 1 + Len(new) + j = i
      BY <3>1
    <3>3. k \in 1 .. Len(s)
      BY <3>1
    <3> HIDE DEF j
    <3>4. ps[i] = s[k]
      BY <1>5, <3>2
    <3> HIDE DEF k
    <3> QED BY <3>3, <3>4 DEF Paras, s
  <2> QED BY <1>2, <2>1, <2>2, <2>3
<1>7. Paras(ps)
  BY <1>5, <1>6 DEF Paras
<1> QED BY <1>1, <1>3, <1>4, <1>7 DEF s, a

-----------------------------------------------------------------------------
(* Splitting.                                                               *)

LEMMA SplitCurrentWordIs ==
  ASSUME NEW d, Near(d), d.cw <= Len(Paragraph(d)), NEW hint \in Style,
         NEW n, n = d.cw + 1 + Left(Len(Paragraph(d)), d.cw)
  PROVE  LET r == SplitCurrentWord(d, hint)
         IN  Resized(d, r, n) /\ r.cw = d.cw + 1 /\ r.co \in Nat \ {0} /\ Within(r)
<1> DEFINE word  == CurrentWord(d)
           prime == IF Marked(d) THEN <<>> ELSE StylePrime(hint)
           left  == DeleteFromWord(word, d.co, Len(word) + 1)
           rest  == DeleteFromWord(word, 1, d.co)
           right == prime \o rest
           co    == IF Marked(d) THEN 1 ELSE 2
           ws    == <<left, right>>
           e     == PutWords(d, 1, ws)
           r     == At(e, d.cp, d.cw + 1, co)
<1>1. SplitCurrentWord(d, hint) = r
  BY Zenon DEF SplitCurrentWord
<1>2. /\ d.cw \in Nat /\ d.cw >= 1 /\ Len(Paragraph(d)) \in Nat
      /\ Worded(Paragraph(d)) /\ d.co \in Nat \ {0} /\ d.co \in Nat
  BY SeqIs DEF Near, Paras, Paragraph
<1>3. word \in Word /\ Len(word) + 1 \in Nat
  <2>1. d.cw \in 1 .. Len(Paragraph(d))
    BY <1>2
  <2>2. word \in Word
    BY <1>2, <2>1 DEF Worded, CurrentWord
  <2> QED BY <2>2, WordIs
<1> HIDE DEF word
<1>4. left \in Word /\ rest \in Word
  <2>1. \A f \in Nat \ {0}, m \in Nat : DeleteFromWord(word, f, m) \in Word
    BY <1>3, WordDeleted
  <2>2. 1 \in Nat \ {0}
    OBVIOUS
  <2> QED BY <1>2, <1>3, <2>1, <2>2
<1> HIDE DEF left, rest
<1>5. right \in Word /\ co \in 1 .. Len(right) + 1
  <2>1. Len(rest) \in Nat
    BY <1>4, WordIs
  <2>2. CASE Marked(d)
    <3>1. right = rest /\ co = 1
      BY <1>4, <2>2, WordPrimed
    <3> HIDE DEF right, co
    <3>2. 1 \in 1 .. Len(rest) + 1
      BY <2>1
    <3> QED BY <1>4, <3>1, <3>2
  <2>3. CASE ~Marked(d)
    <3>1. right = StylePrime(hint) \o rest /\ co = 2
      BY <2>3
    <3> HIDE DEF right
    <3>2. right \in Word /\ Len(right) >= 1
      BY <1>4, <3>1, WordPrimed
    <3>3. Len(right) \in Nat
      BY <3>2, WordIs
    <3> QED BY <3>1, <3>2, <3>3
  <2> QED BY <2>2, <2>3
<1>6. co \in Nat \ {0}
  OBVIOUS
<1> HIDE DEF right, co
<1>7. /\ IsSeq(ws) /\ Len(ws) = 2 /\ ws[1] = left /\ ws[2] = right /\ Worded(ws)
  BY <1>4, <1>5, SeqLiterals, WordedLiterals
<1> HIDE DEF ws
<1>8. Resized(d, e, n) /\ e.paras[d.cp][d.cw + 1] = right
  <2>1. Left(Len(Paragraph(d)), d.cw) = Left(Len(Paragraph(d)) + 1, d.cw + 1)
    BY <1>2 DEF Left
  <2>2. n = d.cw - 1 + Len(ws) + Left(Len(Paragraph(d)) + 1, d.cw + 1)
    BY <1>7, <1>2, <2>1
  <2>3. Resized(d, e, n) /\ HasWords(d, e, ws)
    BY <1>7, <2>2, PutWordsIs
  <2> HIDE DEF e
  <2>4. 2 \in 1 .. Len(ws) /\ d.cw - 1 + 2 = d.cw + 1
    BY <1>2, <1>7
  <2>5. e.paras[d.cp][d.cw - 1 + 2] = ws[2]
    BY <2>3, <2>4 DEF HasWords
  <2> QED BY <1>7, <2>3, <2>4, <2>5
<1> HIDE DEF e
<1>9. /\ IsDoc(r) /\ KeepsMark(e, r)
      /\ r.paras = e.paras /\ r.cp = d.cp /\ r.cw = d.cw + 1 /\ r.co = co
  BY <1>8, AtIs DEF Resized
<1> HIDE DEF r
<1>10. CurrentWord(r) = right
  BY <1>8, <1>9 DEF CurrentWord, Paragraph
<1> QED BY <1>1, <1>5, <1>6, <1>8, <1>9, <1>10 DEF Resized, KeepsMark, Within

(* In r, the paragraph with the cursor is divided in two, of these sizes.   *)
Divided(d, r, first, second) ==
  /\ IsDoc(r) /\ KeepsMark(d, r) /\ Paras(r.paras) /\ Len(r.paras) = Len(d.paras) + 1
  /\ r.cp = d.cp + 1 /\ r.cw = 1 /\ r.co = 1
  /\ \A i \in 1 .. d.cp - 1 : r.paras[i] = d.paras[i]
  /\ Len(r.paras[d.cp]) = first
  /\ Len(r.paras[d.cp + 1]) = second
  /\ \A i \in d.cp + 1 .. Len(d.paras) : r.paras[i + 1] = d.paras[i]

LEMMA SplitBeforeWordIs ==
  ASSUME NEW d, Near(d)
  PROVE  Divided(d, SplitBeforeWord(d), d.cw - 1, Len(Paragraph(d)) - d.cw + 1)
<1> DEFINE P == Paragraph(d)
           left == Sub(P, 1, d.cw - 1)
           right == SubFrom(P, d.cw)
           new == <<left, right>>
           e == PutParagraphs(d, 1, new)
           r == At(e, d.cp + 1, 1, 1)
<1>1. SplitBeforeWord(d) = r
  BY Zenon DEF SplitBeforeWord
<1>2. /\ IsDoc(d) /\ Paras(d.paras) /\ d.cp \in 1 .. Len(d.paras) /\ Len(d.paras) \in Nat
      /\ IsSeq(P) /\ Worded(P) /\ Len(P) \in Nat /\ d.cw \in 1 .. Len(P) + 1
  BY SeqIs DEF Near, Paras, Paragraph
<1> HIDE DEF P
<1>3. IsSeq(left) /\ Len(left) = d.cw - 1 /\ Worded(left)
  <2>1. d.cw - 1 \in 0 .. Len(P)
    BY <1>2
  <2> QED BY <1>2, <2>1, SubIs, WordedParts
<1>4. IsSeq(right) /\ Len(right) = Len(P) - d.cw + 1 /\ Worded(right)
  <2>1. /\ IsSeq(right) /\ Len(right) = IF d.cw <= Len(P) THEN Len(P) - d.cw + 1 ELSE 0
        /\ Worded(right)
    <3>1. d.cw \in Nat /\ d.cw >= 1
      BY <1>2
    <3> QED BY <1>2, <3>1, SubFromIs, WordedParts
  <2> HIDE DEF right
  <2> QED BY <1>2, <2>1
<1> HIDE DEF left, right
<1>5. IsSeq(new) /\ Len(new) = 2 /\ new[1] = left /\ new[2] = right
  BY SeqLiterals
<1> HIDE DEF new
<1>6. Paras(new)
  <2>1. \A p \in 1 .. Len(new) : p = 1 \/ p = 2
    BY <1>5
  <2> QED BY <1>3, <1>4, <1>5, <2>1 DEF Paras
<1>7. /\ IsDoc(e) /\ KeepsMark(d, e) /\ Paras(e.paras)
      /\ Spliced(e.paras, d.paras, d.cp, 1, new)
  <2>1. d.cp + 1 <= Len(d.paras) + 1
    BY <1>2
  <2> QED BY <1>2, <1>6, <2>1, PutParagraphsIs
<1> HIDE DEF e
<1>8. /\ IsDoc(r) /\ KeepsMark(e, r) /\ r.paras = e.paras
      /\ r.cp = d.cp + 1 /\ r.cw = 1 /\ r.co = 1
  BY <1>7, AtIs
<1> HIDE DEF r
<1>9. /\ Len(r.paras) = Len(d.paras) + 1
      /\ \A i \in 1 .. d.cp - 1 : r.paras[i] = d.paras[i]
      /\ \A i \in 1 .. 2 : r.paras[d.cp - 1 + i] = new[i]
      /\ \A i \in 1 .. Len(d.paras) - 1 - d.cp + 1 : r.paras[d.cp - 1 + 2 + i] = d.paras[d.cp - 1 + 1 + i]
  BY <1>2, <1>5, <1>7, <1>8 DEF Spliced
<1>10. r.paras[d.cp] = left /\ r.paras[d.cp + 1] = right
  <2>1. 1 \in 1 .. 2 /\ 2 \in 1 .. 2 /\ d.cp - 1 + 1 = d.cp /\ d.cp - 1 + 2 = d.cp + 1
    BY <1>2
  <2>2. r.paras[d.cp - 1 + 1] = new[1] /\ r.paras[d.cp - 1 + 2] = new[2]
    BY <1>9, <2>1
  <2> QED BY <1>5, <2>1, <2>2
<1>11. ASSUME NEW i \in d.cp + 1 .. Len(d.paras) PROVE r.paras[i + 1] = d.paras[i]
  <2> DEFINE j == i - d.cp
  <2>1. j \in 1 .. Len(d.paras) - 1 - d.cp + 1 /\ d.cp - 1 + 2 + j = i + 1 /\ d.cp - 1 + 1 + j = i
    <3>1. /\ i \in Int /\ i >= d.cp + 1 /\ i <= Len(d.paras)
          /\ d.cp \in Int /\ Len(d.paras) \in Int
      BY <1>2
    <3> QED BY <3>1
  <2> HIDE DEF j
  <2> QED BY <1>9, <2>1
<1>12. Divided(d, r, d.cw - 1, Len(P) - d.cw + 1)
  BY <1>3, <1>4, <1>7, <1>8, <1>9, <1>10, <1>11 DEF Divided, KeepsMark
<1> QED BY <1>1, <1>12 DEF P

(* The cursor may be split at: it is at a word, or there is nothing to do.  *)
Splittable(d) == d.cw <= Len(Paragraph(d)) \/ (d.co = 1 /\ d.cw > 1)

(* The first n words go up to the cursor, if not into the word it is in.    *)
Behind(d, n) == n >= d.cw \/ (n = d.cw - 1 /\ d.co = 1 /\ d.cw > 1)

(* Something is left before the cursor, and after it if it is at a word.    *)
Split(d, r) ==
  \E first, second \in Nat :
    /\ Divided(d, r, first, second)
    /\ first >= 1 /\ Behind(d, first)
    /\ d.cw <= Len(Paragraph(d)) => second >= 1

LEMMA SplitInto ==
  ASSUME NEW d, NEW r, NEW first \in Nat, NEW second \in Nat,
         Divided(d, r, first, second), first >= 1, Behind(d, first),
         d.cw <= Len(Paragraph(d)) => second >= 1
  PROVE  Split(d, r)
BY Zenon DEF Split

LEMMA SplitCurrentParagraphIs ==
  ASSUME NEW d, Near(d), Splittable(d), NEW hint \in Style
  PROVE  Split(d, SplitCurrentParagraph(d, hint))
<1> DEFINE L == Len(Paragraph(d))
           r == SplitCurrentParagraph(d, hint)
<1>1. /\ L \in Nat /\ d.cw \in 1 .. L + 1
      /\ IsSeq(d.paras) /\ Len(d.paras) \in Nat /\ d.cp \in 1 .. Len(d.paras)
  BY SeqIs DEF Near, Paras, Paragraph
<1> HIDE DEF L
<1>2. CASE d.co = 1 /\ d.cw > 1
  <2>1. r = SplitBeforeWord(d)
    BY <1>2 DEF SplitCurrentParagraph
  <2>2. Divided(d, r, d.cw - 1, L - d.cw + 1)
    BY <2>1, SplitBeforeWordIs DEF L
  <2>3. d.cw - 1 \in Nat /\ L - d.cw + 1 \in Nat /\ d.cw - 1 >= 1
    BY <1>1, <1>2
  <2>4. d.cw <= L => L - d.cw + 1 >= 1
    BY <1>1
  <2> DEFINE first == d.cw - 1
             second == L - d.cw + 1
  <2>5. Behind(d, first) /\ (d.cw <= Len(Paragraph(d)) => second >= 1)
    BY <1>1, <1>2, <2>4 DEF L, Behind
  <2> HIDE DEF r
  <2>6. /\ first \in Nat /\ second \in Nat /\ first >= 1
        /\ Divided(d, r, first, second)
    BY <2>2, <2>3
  <2> HIDE DEF first, second
  <2>7. Split(d, r)
    BY <2>5, <2>6, SplitInto
  <2> QED BY <2>7 DEF r
<1>3. CASE ~(d.co = 1 /\ d.cw > 1)
  <2> DEFINE s == SplitCurrentWord(d, hint)
             n == d.cw + 1 + Left(L, d.cw)
  <2>1. r = SplitBeforeWord(s)
    BY <1>3, Zenon DEF SplitCurrentParagraph
  <2>2. Resized(d, s, n) /\ s.cw = d.cw + 1 /\ s.co \in Nat \ {0}
    BY <1>3, SplitCurrentWordIs DEF L, Splittable
  <2> HIDE DEF s, r
  <2>3. n \in Nat /\ s.cw <= n
    BY <1>1, <2>2 DEF Left
  <2> HIDE DEF n
  <2>4. Near(s) /\ Len(Paragraph(s)) = n
    <3>1. \A p \in 1 .. Len(s.paras) : IsSeq(s.paras[p]) /\ Worded(s.paras[p])
      BY <1>1, <2>2 DEF Resized, Near, Paras
    <3> QED BY <1>1, <2>2, <2>3, <3>1 DEF Resized, Near, Paras, Paragraph
  <2>5. Divided(s, r, s.cw - 1, n - s.cw + 1)
    BY <2>1, <2>4, SplitBeforeWordIs
  <2>6. Divided(d, r, d.cw, n - d.cw)
    <3>1. s.cw - 1 = d.cw /\ n - s.cw + 1 = n - d.cw
      BY <1>1, <2>2, <2>3
    <3>2. Divided(s, r, d.cw, n - d.cw)
      BY <2>5, <3>1
    <3>3. /\ s.cp = d.cp /\ Len(s.paras) = Len(d.paras) /\ KeepsMark(d, s)
          /\ \A p \in 1 .. Len(d.paras) : p # d.cp => s.paras[p] = d.paras[p]
      BY <2>2 DEF Resized
    <3>4. ASSUME NEW i \in 1 .. d.cp - 1 PROVE r.paras[i] = d.paras[i]
      <4>1. i \in 1 .. Len(d.paras) /\ i # d.cp
        BY <1>1
      <4> QED BY <3>2, <3>3, <4>1 DEF Divided
    <3>5. ASSUME NEW i \in d.cp + 1 .. Len(d.paras) PROVE r.paras[i + 1] = d.paras[i]
      <4>1. i \in 1 .. Len(d.paras) /\ i # d.cp
        BY <1>1
      <4> QED BY <3>2, <3>3, <4>1 DEF Divided
    <3> QED BY <3>2, <3>3, <3>4, <3>5 DEF Divided, KeepsMark
  <2>7. d.cw \in Nat /\ n - d.cw \in Nat /\ d.cw >= 1 /\ Behind(d, d.cw) /\ n - d.cw >= 1
    BY <1>1, <2>2, <2>3 DEF Behind
  <2> DEFINE first == d.cw
             second == n - d.cw
  <2>8. /\ first \in Nat /\ second \in Nat /\ first >= 1 /\ Behind(d, first) /\ second >= 1
        /\ Divided(d, r, first, second)
    BY <2>6, <2>7
  <2> HIDE DEF first, second
  <2>9. Split(d, r)
    BY <2>8, SplitInto
  <2> QED BY <2>9 DEF r
<1> QED BY <1>2, <1>3

(* Splitting at a word leaves only paragraphs with words.                   *)
LEMMA SplitGood ==
  ASSUME NEW d, Good(d), NEW r, Split(d, r)
  PROVE  Good(r) /\ KeepsMark(d, r)
<1>1. PICK first \in Nat, second \in Nat :
        Divided(d, r, first, second) /\ first >= 1 /\ second >= 1
  BY DEF Split, Good, Paragraph
<1>2. /\ Paras(r.paras) /\ Len(d.paras) \in Nat /\ d.cp \in 1 .. Len(d.paras)
      /\ IsSeq(r.paras[d.cp]) /\ IsSeq(r.paras[d.cp + 1])
  <2>1. Paras(r.paras) /\ Len(r.paras) = Len(d.paras) + 1
    BY <1>1 DEF Divided
  <2>2. Len(d.paras) \in Nat /\ d.cp \in 1 .. Len(d.paras)
    BY GoodIs DEF Good
  <2>3. d.cp \in 1 .. Len(r.paras) /\ d.cp + 1 \in 1 .. Len(r.paras)
    BY <2>1, <2>2
  <2> QED BY <2>1, <2>2, <2>3 DEF Paras
<1>3. r.paras[d.cp] # <<>> /\ r.paras[d.cp + 1] # <<>>
  BY <1>1, <1>2, SeqIs DEF Divided
<1>4. ASSUME NEW p \in 1 .. Len(r.paras) PROVE r.paras[p] # <<>>
  <2>1. CASE p <= d.cp - 1
    <3>1. p \in 1 .. d.cp - 1 /\ p \in 1 .. Len(d.paras)
      BY <1>2, <2>1
    <3> QED BY <1>1, <3>1 DEF Divided, Good, Filled
  <2>2. CASE p = d.cp \/ p = d.cp + 1
    BY <1>3, <2>2
  <2>3. CASE p > d.cp + 1
    <3> DEFINE i == p - 1
    <3>1. i \in d.cp + 1 .. Len(d.paras) /\ i \in 1 .. Len(d.paras) /\ i + 1 = p
      BY <1>1, <1>2, <2>3 DEF Divided
    <3> HIDE DEF i
    <3>2. r.paras[i + 1] = d.paras[i] /\ d.paras[i] # <<>>
      BY <1>1, <3>1 DEF Divided, Good, Filled
    <3> QED BY <3>1, <3>2
  <2> QED BY <1>2, <2>1, <2>2, <2>3
<1>5. Len(r.paras[d.cp + 1]) >= 1 /\ Len(r.paras[d.cp + 1]) \in Nat
  BY <1>1 DEF Divided
<1>6. r.cp \in 1 .. Len(r.paras) /\ r.cw \in 1 .. Len(r.paras[r.cp])
  BY <1>1, <1>2, <1>5 DEF Divided
<1> QED BY <1>1, <1>4, <1>6 DEF Divided, Good, Filled

-----------------------------------------------------------------------------
(* Moving, and the mark.                                                    *)

(* Only the cursor has moved, and it is at a word.                          *)
Moved(d, r) == Good(r) /\ KeepsMark(d, r) /\ r.paras = d.paras

LEMMA MovedOn ==
  ASSUME NEW d, NEW e, NEW r, Moved(d, e), Moved(e, r)
  PROVE  Moved(d, r)
BY DEF Moved, KeepsMark

LEMMA NotMoved ==
  ASSUME NEW d, Good(d)
  PROVE  Moved(d, d)
BY DEF Moved, KeepsMark

LEMMA AtGood ==
  ASSUME NEW d, Good(d), NEW p, NEW w, NEW o,
         p \in 1 .. Len(d.paras), w \in 1 .. Len(d.paras[p]), o \in Nat \ {0}
  PROVE  Moved(d, At(d, p, w, o))
<1> DEFINE r == At(d, p, w, o)
<1>1. IsDoc(d)
  BY DEF Good
<1>2. /\ IsDoc(r) /\ KeepsMark(d, r)
      /\ r.paras = d.paras /\ r.cp = p /\ r.cw = w /\ r.co = o
  BY <1>1, AtIs
<1> HIDE DEF r
<1>3. Moved(d, r)
  BY <1>2 DEF Good, Moved
<1> QED BY <1>3 DEF r

LEMMA WithWordGood ==
  ASSUME NEW d, Good(d), NEW w, w \in 1 .. Len(Paragraph(d))
  PROVE  Moved(d, WithWord(d, w)) /\ WithWord(d, w).cp = d.cp /\ WithWord(d, w).cw = w
<1> DEFINE r == WithWord(d, w)
<1>1. /\ IsDoc(r) /\ KeepsMark(d, r)
      /\ r.paras = d.paras /\ r.cp = d.cp /\ r.cw = w /\ r.co = d.co
  BY WithWordIs DEF Good
<1> HIDE DEF r
<1>2. Moved(d, r) /\ r.cp = d.cp /\ r.cw = w
  BY <1>1 DEF Good, Moved, Paragraph
<1> QED BY <1>2 DEF r

LEMMA WithOffsetGood ==
  ASSUME NEW d, Good(d), NEW o \in Nat \ {0}
  PROVE  /\ Moved(d, WithOffset(d, o))
         /\ WithOffset(d, o).cp = d.cp /\ WithOffset(d, o).cw = d.cw
         /\ WithOffset(d, o).co = o
<1> DEFINE r == WithOffset(d, o)
<1>1. /\ IsDoc(r) /\ KeepsMark(d, r)
      /\ r.paras = d.paras /\ r.cp = d.cp /\ r.cw = d.cw /\ r.co = o
  BY WithOffsetIs DEF Good
<1> HIDE DEF r
<1>2. Moved(d, r) /\ r.cp = d.cp /\ r.cw = d.cw /\ r.co = o
  BY <1>1 DEF Good, Moved
<1> QED BY <1>2 DEF r

LEMMA WordEndsGood ==
  ASSUME NEW d, Good(d)
  PROVE  /\ Moved(d, GotoBeginningOfWord(d))
         /\ Moved(d, GotoEndOfWord(d))
         /\ GotoEndOfWord(d).cp = d.cp /\ GotoEndOfWord(d).cw = d.cw
         /\ Within(GotoBeginningOfWord(d)) /\ GotoBeginningOfWord(d).co = 1
         /\ Within(GotoEndOfWord(d))
<1>1. GotoBeginningOfWord(d) = WithOffset(d, 1)
  BY Zenon DEF GotoBeginningOfWord, WithOffset
<1>2. GotoEndOfWord(d) = WithOffset(d, Len(CurrentWord(d)) + 1)
  BY Zenon DEF GotoEndOfWord, WithOffset
<1> DEFINE n == Len(CurrentWord(d))
<1>3. n \in Nat /\ 1 \in Nat \ {0} /\ n + 1 \in Nat \ {0}
  BY GoodIs
<1>4. ASSUME NEW o \in 1 .. n + 1 PROVE Within(WithOffset(d, o))
  <2>1. o \in Nat \ {0}
    BY <1>3
  <2> DEFINE r == WithOffset(d, o)
  <2>2. r.paras = d.paras /\ r.cp = d.cp /\ r.cw = d.cw /\ r.co = o
    BY <2>1, WithOffsetGood DEF Moved
  <2> HIDE DEF r
  <2>3. Within(r)
    BY <2>2 DEF Within, CurrentWord, Paragraph
  <2> QED BY <2>3 DEF r
<1>5. 1 \in 1 .. n + 1 /\ n + 1 \in 1 .. n + 1
  BY <1>3
<1> QED BY <1>1, <1>2, <1>3, <1>4, <1>5, WithOffsetGood

LEMMA EndOfParagraphGood ==
  ASSUME NEW d, Good(d)
  PROVE  Moved(d, GotoEndOfParagraph(d))
<1> DEFINE e == WithWord(d, Len(Paragraph(d)))
<1>1. GotoEndOfParagraph(d) = GotoEndOfWord(e)
  BY Zenon DEF GotoEndOfParagraph, WithWord
<1>2. Len(Paragraph(d)) \in 1 .. Len(Paragraph(d))
  BY GoodIs
<1>3. Moved(d, e)
  BY <1>2, WithWordGood
<1> HIDE DEF e
<1>4. Moved(e, GotoEndOfWord(e))
  BY <1>3, WordEndsGood DEF Moved
<1> QED BY <1>1, <1>3, <1>4, MovedOn

LEMMA DocumentEndsGood ==
  ASSUME NEW d, Good(d)
  PROVE  Moved(d, GotoBeginningOfDocument(d)) /\ Moved(d, GotoEndOfDocument(d))
<1>1. Moved(d, GotoBeginningOfDocument(d))
  <2>1. 1 \in 1 .. Len(d.paras) /\ 1 \in 1 .. Len(d.paras[1])
    <3>1. 1 \in 1 .. Len(d.paras)
      BY GoodIs
    <3>2. IsSeq(d.paras[1]) /\ d.paras[1] # <<>>
      BY <3>1 DEF Good, Filled, Paras
    <3> QED BY <3>1, <3>2, SeqIs
  <2> QED BY <2>1, AtGood DEF GotoBeginningOfDocument
<1>2. Moved(d, GotoEndOfDocument(d))
  <2> DEFINE n == Len(d.paras)
             m == Len(d.paras[n])
             e == WithParagraph(d, n)
             f == WithWord(e, m)
  <2>1. n \in 1 .. n /\ IsSeq(d.paras[n]) /\ d.paras[n] # <<>>
    BY GoodIs DEF Good, Filled, Paras
  <2>2. m \in 1 .. m
    BY <2>1, SeqIs
  <2> HIDE DEF n
  <2>3. IsDoc(e) /\ KeepsMark(d, e) /\ e.paras = d.paras /\ e.cp = n /\ e.co = d.co
    BY WithParagraphIs DEF Good
  <2> HIDE DEF e
  <2>4. /\ IsDoc(f) /\ KeepsMark(e, f) /\ f.paras = e.paras /\ f.cp = e.cp /\ f.cw = m
        /\ f.co = e.co
    BY <2>3, WithWordIs
  <2>5. GotoEndOfDocument(d) = GotoEndOfWord(f)
    <3>1. GotoEndOfDocument(d) = GotoEndOfParagraph(e)
      BY Zenon DEF GotoEndOfDocument, WithParagraph, e, n
    <3>2. Len(Paragraph(e)) = m
      BY <2>3 DEF Paragraph
    <3>3. GotoEndOfParagraph(e) = GotoEndOfWord(WithWord(e, Len(Paragraph(e))))
      BY Zenon DEF GotoEndOfParagraph, WithWord
    <3> HIDE DEF m
    <3> QED BY <3>1, <3>2, <3>3
  <2> HIDE DEF f, m
  <2>6. Moved(d, f)
    <3>1. f.cp \in 1 .. Len(f.paras)
      BY <2>1, <2>3, <2>4 DEF n
    <3>2. f.cw \in 1 .. Len(f.paras[f.cp])
      BY <2>2, <2>3, <2>4 DEF m
    <3> QED BY <2>3, <2>4, <3>1, <3>2 DEF Moved, Good, KeepsMark
  <2>7. Moved(f, GotoEndOfWord(f))
    BY <2>6, WordEndsGood DEF Moved
  <2> QED BY <2>5, <2>6, <2>7, MovedOn
<1> QED BY <1>1, <1>2

LEMMA ParagraphsGood ==
  ASSUME NEW d, Good(d)
  PROVE  Moved(d, GotoPreviousParagraphW(d)) /\ Moved(d, GotoNextParagraphW(d))
<1>1. ASSUME NEW p \in 1 .. Len(d.paras) PROVE Moved(d, At(d, p, 1, 1))
  <2>1. IsSeq(d.paras[p]) /\ d.paras[p] # <<>>
    BY DEF Good, Filled, Paras
  <2>2. 1 \in 1 .. Len(d.paras[p])
    BY <2>1, SeqIs
  <2> QED BY <2>2, AtGood
<1>2. Len(d.paras) \in Nat /\ d.cp \in 1 .. Len(d.paras)
  BY GoodIs DEF Good
<1>3. Moved(d, GotoPreviousParagraphW(d))
  <2>1. CASE d.cp = 1
    BY <2>1, NotMoved DEF GotoPreviousParagraphW
  <2>2. CASE d.cp # 1
    <3>1. d.cp - 1 \in 1 .. Len(d.paras)
      BY <1>2, <2>2
    <3> QED BY <1>1, <2>2, <3>1 DEF GotoPreviousParagraphW
  <2> QED BY <2>1, <2>2
<1>4. Moved(d, GotoNextParagraphW(d))
  <2>1. CASE d.cp = Len(d.paras)
    BY <2>1, NotMoved DEF GotoNextParagraphW
  <2>2. CASE d.cp # Len(d.paras)
    <3>1. d.cp + 1 \in 1 .. Len(d.paras)
      BY <1>2, <2>2
    <3> QED BY <1>1, <2>2, <3>1 DEF GotoNextParagraphW
  <2> QED BY <2>1, <2>2
<1> QED BY <1>3, <1>4

LEMMA WordsGood ==
  ASSUME NEW d, Good(d)
  PROVE  Moved(d, GotoPreviousWordW(d)) /\ Moved(d, GotoNextWordW(d))
<1>1. /\ Len(Paragraph(d)) \in Nat /\ d.cw \in 1 .. Len(Paragraph(d))
      /\ d.cp \in 1 .. Len(d.paras)
  BY GoodIs DEF Good, Paragraph
<1>2. ASSUME NEW w \in 1 .. Len(Paragraph(d)) PROVE Moved(d, At(d, d.cp, w, 1))
  BY <1>1, AtGood DEF Paragraph
<1>3. Moved(d, GotoPreviousWordW(d))
  <2>1. CASE d.cw > 1
    <3>1. d.cw - 1 \in 1 .. Len(Paragraph(d))
      BY <1>1, <2>1
    <3> QED BY <1>2, <2>1, <3>1, WordEndsGood DEF GotoPreviousWordW
  <2>2. CASE ~(d.cw > 1) /\ d.cp > 1
    <3> DEFINE e == GotoPreviousParagraphW(d)
    <3>1. Moved(d, e)
      BY ParagraphsGood
    <3> HIDE DEF e
    <3>2. Moved(e, GotoEndOfParagraph(e))
      BY <3>1, EndOfParagraphGood DEF Moved
    <3>3. GotoPreviousWordW(d) = GotoEndOfParagraph(e)
      BY <2>2 DEF GotoPreviousWordW, e
    <3> QED BY <3>1, <3>2, <3>3, MovedOn
  <2>3. CASE ~(d.cw > 1) /\ ~(d.cp > 1)
    BY <2>3, NotMoved DEF GotoPreviousWordW
  <2> QED BY <2>1, <2>2, <2>3
<1>4. Moved(d, GotoNextWordW(d))
  <2>1. CASE d.cw < Len(Paragraph(d))
    <3>1. d.cw + 1 \in 1 .. Len(Paragraph(d))
      BY <1>1, <2>1
    <3> QED BY <1>2, <2>1, <3>1 DEF GotoNextWordW
  <2>2. CASE ~(d.cw < Len(Paragraph(d)))
    BY <2>2, ParagraphsGood, WordEndsGood DEF GotoNextWordW
  <2> QED BY <2>1, <2>2
<1> QED BY <1>3, <1>4

LEMMA CharsGood ==
  ASSUME NEW d, Good(d)
  PROVE  Moved(d, GotoPreviousCharW(d)) /\ Moved(d, GotoNextCharW(d))
<1>0. /\ PrevCharInWord(CurrentWord(d), d.co) \in Nat
      /\ NextCharInWord(CurrentWord(d), d.co) \in Nat
  BY GoodIs, WordSteps
<1>1. Moved(d, GotoPreviousCharW(d))
  <2> DEFINE o == PrevCharInWord(CurrentWord(d), d.co)
             e == GotoPreviousWordW(d)
  <2>1. CASE o # 0
    <3>1. GotoPreviousCharW(d) = WithOffset(d, o)
      BY <2>1, Zenon DEF GotoPreviousCharW, WithOffset
    <3>2. o \in Nat \ {0}
      BY <1>0, <2>1
    <3> HIDE DEF o
    <3> QED BY <3>1, <3>2, WithOffsetGood
  <2>2. CASE o = 0 /\ AtStart(d)
    BY <2>2, NotMoved, Zenon DEF GotoPreviousCharW
  <2>3. CASE o = 0 /\ ~AtStart(d)
    <3>1. GotoPreviousCharW(d) = GotoEndOfWord(e)
      BY <2>3, Zenon DEF GotoPreviousCharW
    <3>2. Moved(d, e)
      BY WordsGood
    <3> HIDE DEF e
    <3>3. Moved(e, GotoEndOfWord(e))
      BY <3>2, WordEndsGood DEF Moved
    <3> QED BY <3>1, <3>2, <3>3, MovedOn
  <2> QED BY <2>1, <2>2, <2>3
<1>2. Moved(d, GotoNextCharW(d))
  <2> DEFINE o == NextCharInWord(CurrentWord(d), d.co)
  <2>1. CASE o # 0
    <3>1. GotoNextCharW(d) = WithOffset(d, o)
      BY <2>1, Zenon DEF GotoNextCharW, WithOffset
    <3>2. o \in Nat \ {0}
      BY <1>0, <2>1
    <3> HIDE DEF o
    <3> QED BY <3>1, <3>2, WithOffsetGood
  <2>2. CASE o = 0
    <3>1. GotoNextCharW(d) = GotoNextWordW(d)
      BY <2>2, Zenon DEF GotoNextCharW
    <3> QED BY <3>1, WordsGood
  <2> QED BY <2>1, <2>2
<1> QED BY <1>1, <1>2

(* Every way to move leaves the cursor at a word and changes nothing else.  *)
LEMMA MovesGood ==
  ASSUME NEW d, Good(d), NEW r \in MoveTargets(d)
  PROVE  Moved(d, r)
<1>1. CASE r \in GotoXPosition(d)
  <2>1. PICK p \in DOMAIN d.paras :
          r \in UNION {{At(d, p, w, o) : o \in Stops(d.paras[p][w])} : w \in DOMAIN d.paras[p]}
    BY <1>1 DEF GotoXPosition
  <2>2. PICK w \in DOMAIN d.paras[p] : r \in {At(d, p, w, o) : o \in Stops(d.paras[p][w])}
    BY <2>1
  <2>3. PICK o \in Stops(d.paras[p][w]) : r = At(d, p, w, o)
    BY <2>2
  <2>4. IsSeq(d.paras) /\ DOMAIN d.paras = 1 .. Len(d.paras)
    BY SeqIs DEF Good, Filled, Paras
  <2>5. IsSeq(d.paras[p]) /\ Worded(d.paras[p])
    BY <2>4 DEF Good, Filled, Paras
  <2>6. DOMAIN d.paras[p] = 1 .. Len(d.paras[p])
    BY <2>5, SeqIs
  <2>7. o \in Nat \ {0}
    <3>1. d.paras[p][w] \in Word
      BY <2>5, <2>6 DEF Worded
    <3>2. Len(d.paras[p][w]) \in Nat
      BY <3>1, WordIs
    <3> QED BY <2>3, <3>2 DEF Stops
  <2> QED BY <2>4, <2>6, <2>7, <2>3, AtGood
<1>2. CASE r \notin GotoXPosition(d)
  <2>1. \/ r = GotoPreviousCharW(d) \/ r = GotoNextCharW(d)
        \/ r = GotoPreviousWordW(d) \/ r = GotoNextWordW(d)
        \/ r = GotoPreviousParagraphW(d) \/ r = GotoNextParagraphW(d)
        \/ r = GotoBeginningOfDocument(d) \/ r = GotoEndOfDocument(d)
    BY <1>2, Zenon DEF MoveTargets
  <2> QED BY <2>1, CharsGood, WordsGood, ParagraphsGood, DocumentEndsGood
<1> QED BY <1>1, <1>2

-----------------------------------------------------------------------------
(* Inserting, joining and deleting.                                         *)

(* The text may have changed; the cursor is at a word, the mark as it was.  *)
Edited(d, r) == Good(r) /\ KeepsMark(d, r)

LEMMA EditedOn ==
  ASSUME NEW d, NEW e, NEW r, Edited(d, e), Edited(e, r)
  PROVE  Edited(d, r)
BY DEF Edited, KeepsMark

LEMMA MovedIsEdited ==
  ASSUME NEW d, NEW r, Moved(d, r)
  PROVE  Edited(d, r)
BY DEF Edited, Moved

LEMMA NotEdited ==
  ASSUME NEW d, Good(d)
  PROVE  Edited(d, d)
BY DEF Edited, KeepsMark

LEMMA ReplaceWordGood ==
  ASSUME NEW d, Good(d), NEW word \in Word
  PROVE  Edited(d, PutWords(d, 1, <<word>>))
<1> DEFINE n == Len(Paragraph(d))
           ws == <<word>>
           r == PutWords(d, 1, ws)
<1>1. /\ Near(d) /\ n \in Nat /\ d.cw \in 1 .. n /\ d.cw \in Nat
      /\ IsSeq(ws) /\ Len(ws) = 1 /\ Worded(ws)
  BY GoodIs, SeqLiterals, WordedLiterals DEF Good, Paragraph
<1> HIDE DEF ws
<1>2. n = d.cw - 1 + Len(ws) + Left(n + 1, d.cw + 1)
  BY <1>1 DEF Left
<1>3. Resized(d, r, n) /\ r.cw = d.cw /\ r.co = d.co
  <2>1. Near(d) /\ IsSeq(ws) /\ Worded(ws)
    BY <1>1
  <2> QED BY <1>2, <2>1, PutWordsIs
<1> HIDE DEF n, r
<1>4. Good(r) /\ KeepsMark(d, r)
  BY <1>1, <1>3, ResizedGood DEF Good
<1> QED BY <1>4 DEF Edited, r, ws

LEMMA InsertGood ==
  ASSUME NEW d, Good(d), Within(d), NEW c \in Word, NEW hint \in Style
  PROVE  Edited(d, InsertStringIntoWord(d, c, hint))
<1> DEFINE n == Len(Paragraph(d))
           ins == InsertIntoWord(CurrentWord(d), c, d.co, hint)
           r == PutInserted(d, 1, ins)
<1>1. Near(d) /\ n \in Nat /\ d.cw \in 1 .. n /\ d.cw \in Nat
  BY GoodIs DEF Good, Paragraph
<1>0. ins.word \in Word /\ ins.stop \in Nat \ {0}
  BY GoodIs, WordInserted DEF Within
<1> HIDE DEF ins
<1>2. n = d.cw + Left(n + 1, d.cw + 1)
  BY <1>1 DEF Left
<1>3. Resized(d, r, n) /\ r.cw = d.cw /\ r.co = ins.stop
  BY <1>0, <1>1, <1>2, PutInsertedIs
<1>4. InsertStringIntoWord(d, c, hint) = r
  BY Zenon DEF InsertStringIntoWord, ins
<1> HIDE DEF n, r
<1>5. Good(r) /\ KeepsMark(d, r)
  BY <1>0, <1>1, <1>3, ResizedGood DEF Good
<1> QED BY <1>4, <1>5 DEF Edited

LEMMA SplitCurrentWordGood ==
  ASSUME NEW d, Good(d), NEW hint \in Style
  PROVE  LET r == SplitCurrentWord(d, hint)
         IN  /\ Edited(d, r) /\ Len(Paragraph(r)) = Len(Paragraph(d)) + 1
             /\ r.cp = d.cp /\ r.cw = d.cw + 1 /\ Within(r)
<1> DEFINE L == Len(Paragraph(d))
           n == L + 1
           r == SplitCurrentWord(d, hint)
<1>1. Near(d) /\ L \in Nat /\ d.cw \in 1 .. L /\ d.cw \in Nat /\ d.cw <= L
  BY GoodIs DEF Good, Paragraph
<1>2. n = d.cw + 1 + Left(L, d.cw)
  BY <1>1 DEF Left
<1>3. Resized(d, r, n) /\ r.cw = d.cw + 1 /\ r.co \in Nat \ {0} /\ Within(r)
  BY <1>1, <1>2, SplitCurrentWordIs
<1> HIDE DEF L, r
<1>4. n \in Nat /\ r.cw \in 1 .. n
  BY <1>1, <1>3
<1> HIDE DEF n
<1>5. Good(r) /\ KeepsMark(d, r) /\ Len(Paragraph(r)) = n
  BY <1>1, <1>3, <1>4, ResizedGood DEF Good
<1>6. /\ Edited(d, r) /\ Len(Paragraph(r)) = L + 1
      /\ r.cp = d.cp /\ r.cw = d.cw + 1 /\ Within(r)
  BY <1>3, <1>5 DEF Edited, Resized, n
<1> QED BY <1>6 DEF r, L

LEMMA SplitCurrentParagraphGood ==
  ASSUME NEW d, Good(d), NEW hint \in Style
  PROVE  Edited(d, SplitCurrentParagraph(d, hint))
<1>1. Split(d, SplitCurrentParagraph(d, hint))
  <2>1. Near(d) /\ Splittable(d)
    BY GoodIs DEF Good, Paragraph, Splittable
  <2> QED BY <2>1, SplitCurrentParagraphIs
<1> QED BY <1>1, SplitGood DEF Edited

LEMMA JoinTwoWordsGood ==
  ASSUME NEW d, Good(d), d.cw < Len(Paragraph(d))
  PROVE  LET r == JoinTwoWords(d)
         IN  /\ Edited(d, r) /\ Len(Paragraph(r)) = Len(Paragraph(d)) - 1
             /\ r.cp = d.cp /\ r.cw = d.cw /\ Within(r)
<1> DEFINE L == Len(Paragraph(d))
           n == L - 1
           ins == InsertIntoWord(Paragraph(d)[d.cw + 1], CurrentWord(d), 1, Plain)
           r == PutInserted(d, 2, ins)
<1>1. Near(d) /\ L \in Nat /\ d.cw \in 1 .. L /\ d.cw \in Nat
  BY GoodIs DEF Good, Paragraph
<1>2. n = d.cw + Left(L + 1, d.cw + 2)
  BY <1>1 DEF Left
<1>3. JoinTwoWords(d) = r
  BY Zenon DEF JoinTwoWords
<1>a. /\ ins.word \in Word /\ ins.stop \in Nat \ {0}
      /\ ins.stop \in 1 .. Len(ins.word) + 1
  <2> DEFINE next == Paragraph(d)[d.cw + 1]
  <2>1. d.cw + 1 \in 1 .. L
    BY <1>1
  <2>2. next \in Word /\ CurrentWord(d) \in Word
    BY <2>1, GoodIs DEF Worded
  <2>3. 1 \in 1 .. Len(next) + 1
    BY <2>2, WordIs
  <2> HIDE DEF next
  <2>4. ins = InsertIntoWord(next, CurrentWord(d), 1, Plain)
    BY Zenon DEF next
  <2> HIDE DEF ins
  <2> QED BY <2>2, <2>3, <2>4, EmptyWord, WordInserted
<1> HIDE DEF ins
<1>4. Resized(d, r, n) /\ r.cw = d.cw /\ r.co = ins.stop /\ CurrentWord(r) = ins.word
  BY <1>1, <1>2, <1>a, PutInsertedIs
<1> HIDE DEF r
<1>5. n \in Nat /\ r.cw \in 1 .. n
  BY <1>1, <1>4
<1> HIDE DEF n
<1>6. Good(r) /\ KeepsMark(d, r) /\ Len(Paragraph(r)) = n
  BY <1>1, <1>4, <1>5, <1>a, ResizedGood DEF Good
<1>7. /\ Edited(d, r) /\ Len(Paragraph(r)) = L - 1
      /\ r.cp = d.cp /\ r.cw = d.cw /\ Within(r)
  BY <1>4, <1>6, <1>a DEF Edited, Resized, n, Within
<1> QED BY <1>3, <1>7

LEMMA JoinWithNextParagraphGood ==
  ASSUME NEW d, Good(d), d.cp < Len(d.paras)
  PROVE  LET r == JoinWithNextParagraph(d)
         IN  /\ Edited(d, r) /\ Len(Paragraph(r)) > Len(Paragraph(d))
             /\ r.cp = d.cp /\ r.cw = d.cw
<1> DEFINE P == Paragraph(d)
           Q == d.paras[d.cp + 1]
           PQ == P \o Q
           new == <<PQ>>
           r == PutParagraphs(d, 2, new)
           L == Len(d.paras)
           ps == r.paras
<1>1. /\ IsDoc(d) /\ Paras(d.paras) /\ L \in Nat /\ d.cp \in 1 .. L
      /\ d.cp \in Nat /\ d.cw \in 1 .. Len(P) /\ d.cp + 1 \in 1 .. L
  BY GoodIs DEF Good, Filled, Paragraph
<1>2. /\ IsSeq(P) /\ IsSeq(Q) /\ Len(P) \in Nat /\ Len(Q) \in Nat /\ Len(Q) >= 1
      /\ Worded(P) /\ Worded(Q)
  <2>1. IsSeq(P) /\ IsSeq(Q) /\ Q # <<>> /\ Worded(P) /\ Worded(Q)
    BY <1>1 DEF Good, Filled, Paras, Paragraph
  <2> QED BY <2>1, SeqIs
<1>3. JoinWithNextParagraph(d) = r
  BY Zenon DEF JoinWithNextParagraph
<1> HIDE DEF P, Q
<1>4. IsSeq(PQ) /\ Len(PQ) = Len(P) + Len(Q) /\ Worded(PQ)
  <2>1. Worded(PQ)
    BY <1>2, WordedConcat
  <2> QED BY <1>2, <2>1, SeqConcat
<1> HIDE DEF PQ
<1>5. IsSeq(new) /\ Len(new) = 1 /\ new[1] = PQ
  BY SeqLiterals
<1> HIDE DEF new
<1>6. Paras(new)
  <2>1. \A p \in 1 .. Len(new) : p = 1
    BY <1>5
  <2> QED BY <1>4, <1>5, <2>1 DEF Paras
<1>7. /\ IsDoc(r) /\ KeepsMark(d, r) /\ r.cp = d.cp /\ r.cw = d.cw /\ r.co = d.co
      /\ Paras(ps) /\ Spliced(ps, d.paras, d.cp, 2, new)
  <2>1. d.cp + 2 <= Len(d.paras) + 1
    BY <1>1
  <2> QED BY <1>1, <1>6, <2>1, PutParagraphsIs
<1> HIDE DEF r
<1>8. /\ Len(ps) = L - 1
      /\ \A i \in 1 .. d.cp - 1 : ps[i] = d.paras[i]
      /\ \A i \in 1 .. 1 : ps[d.cp - 1 + i] = new[i]
      /\ \A i \in 1 .. L - 2 - d.cp + 1 : ps[d.cp - 1 + 1 + i] = d.paras[d.cp - 1 + 2 + i]
  BY <1>1, <1>5, <1>7 DEF Spliced
<1> HIDE DEF ps
<1>9. ps[d.cp] = PQ
  <2>1. 1 \in 1 .. 1 /\ d.cp - 1 + 1 = d.cp
    BY <1>1
  <2>2. ps[d.cp - 1 + 1] = new[1]
    BY <1>8, <2>1
  <2> QED BY <1>5, <2>1, <2>2
<1>10. PQ # <<>>
  BY <1>2, <1>4, SeqIs
<1>11. ASSUME NEW p \in 1 .. Len(ps) PROVE ps[p] # <<>>
  <2>1. CASE p <= d.cp - 1
    <3>1. p \in 1 .. d.cp - 1 /\ p \in 1 .. Len(d.paras)
      BY <1>1, <2>1
    <3> QED BY <1>8, <3>1 DEF Good, Filled
  <2>2. CASE p = d.cp
    BY <1>9, <1>10, <2>2
  <2>3. CASE p > d.cp
    <3> DEFINE i == p - d.cp
               k == d.cp - 1 + 2 + i
    <3>1. /\ p \in Int /\ p > d.cp /\ p <= L - 1
          /\ d.cp \in Int /\ d.cp >= 1 /\ L \in Int
      BY <1>1, <1>8, <2>3
    <3>2. i \in 1 .. L - 2 - d.cp + 1 /\ d.cp - 1 + 1 + i = p
      BY <3>1
    <3>3. k \in 1 .. Len(d.paras)
      BY <3>1
    <3> HIDE DEF i
    <3>4. ps[p] = d.paras[k]
      BY <1>8, <3>2
    <3> HIDE DEF k
    <3> QED BY <3>3, <3>4 DEF Good, Filled
  <2> QED BY <1>1, <2>1, <2>2, <2>3
<1>12. Len(Paragraph(r)) = Len(P) + Len(Q)
  BY <1>4, <1>7, <1>9 DEF Paragraph, ps
<1>13. Good(r)
  <2>1. r.cp \in 1 .. Len(r.paras)
    BY <1>1, <1>7, <1>8 DEF ps
  <2>2. r.cw \in 1 .. Len(r.paras[r.cp])
    BY <1>1, <1>2, <1>7, <1>12 DEF Paragraph
  <2>3. r.co \in Nat \ {0}
    BY <1>7 DEF Good
  <2> QED BY <1>7, <1>11, <2>1, <2>2, <2>3 DEF Good, Filled, ps
<1>14. /\ Edited(d, r) /\ Len(Paragraph(r)) > Len(P)
       /\ r.cp = d.cp /\ r.cw = d.cw
  BY <1>2, <1>7, <1>12, <1>13 DEF Edited
<1> QED BY <1>3, <1>14 DEF P

LEMMA JoinWithNextWordGood ==
  ASSUME NEW d, Good(d)
  PROVE  /\ Edited(d, JoinWithNextWord(d))
         /\ Within(d) => Within(JoinWithNextWord(d))
<1>1. /\ Len(Paragraph(d)) \in Nat /\ d.cw \in 1 .. Len(Paragraph(d))
      /\ Len(d.paras) \in Nat /\ d.cp \in 1 .. Len(d.paras)
  BY GoodIs DEF Good, Paragraph
<1>2. CASE AtEnd(d)
  BY <1>2, NotEdited DEF JoinWithNextWord
<1>3. CASE ~AtEnd(d) /\ d.cw = Len(Paragraph(d))
  <2> DEFINE e == JoinWithNextParagraph(d)
             r == JoinTwoWords(e)
  <2>1. d.cp < Len(d.paras)
    BY <1>1, <1>3 DEF AtEnd
  <2>2. Edited(d, e) /\ Len(Paragraph(e)) > Len(Paragraph(d)) /\ e.cw = d.cw
    BY <2>1, JoinWithNextParagraphGood
  <2>3. JoinWithNextWord(d) = r
    BY <1>3 DEF JoinWithNextWord
  <2> HIDE DEF e
  <2>4. Good(e) /\ e.cw < Len(Paragraph(e))
    BY <1>3, <2>2 DEF Edited
  <2>5. Edited(e, r) /\ Within(r)
    BY <2>4, JoinTwoWordsGood
  <2> QED BY <2>2, <2>3, <2>5, EditedOn
<1>4. CASE ~AtEnd(d) /\ d.cw # Len(Paragraph(d))
  <2>1. d.cw < Len(Paragraph(d))
    BY <1>1, <1>4
  <2>2. JoinWithNextWord(d) = JoinTwoWords(d)
    BY <1>4 DEF JoinWithNextWord
  <2> QED BY <2>1, <2>2, JoinTwoWordsGood
<1> QED BY <1>2, <1>3, <1>4

LEMMA DeleteCharsGood ==
  ASSUME NEW d, Good(d)
  PROVE  Edited(d, DeleteNextChar(d)) /\ Edited(d, DeletePreviousChar(d))
<1>1. ASSUME NEW e, Good(e) PROVE Edited(e, DeleteNextChar(e))
  <2> DEFINE next == NextCharInWord(CurrentWord(e), e.co)
  <2>1. CASE next = 0
    <3>1. DeleteNextChar(e) = JoinWithNextWord(e)
      BY <2>1, Zenon DEF DeleteNextChar
    <3> QED BY <1>1, <3>1, JoinWithNextWordGood
  <2>2. CASE next # 0
    <3>1. DeleteNextChar(e) = PutWords(e, 1, <<DeleteFromWord(CurrentWord(e), e.co, next)>>)
      BY <2>2, Zenon DEF DeleteNextChar
    <3>2. CurrentWord(e) \in Word /\ e.co \in Nat \ {0} /\ next \in Nat
      BY <1>1, GoodIs, WordSteps DEF Good
    <3> HIDE DEF next
    <3>3. DeleteFromWord(CurrentWord(e), e.co, next) \in Word
      BY <3>2, WordDeleted
    <3> QED BY <1>1, <3>1, <3>3, ReplaceWordGood
  <2> QED BY <2>1, <2>2
<1>2. Edited(d, DeletePreviousChar(d))
  <2>1. CASE AtStart(d)
    BY <2>1, NotEdited DEF DeletePreviousChar
  <2>2. CASE ~AtStart(d)
    <3> DEFINE e == GotoPreviousCharW(d)
    <3>1. Edited(d, e)
      BY CharsGood, MovedIsEdited
    <3>2. DeletePreviousChar(d) = DeleteNextChar(e)
      BY <2>2 DEF DeletePreviousChar
    <3> HIDE DEF e
    <3>3. Edited(e, DeleteNextChar(e))
      BY <1>1, <3>1 DEF Edited
    <3> QED BY <3>1, <3>2, <3>3, EditedOn
  <2> QED BY <2>1, <2>2
<1> QED BY <1>1, <1>2

LEMMA DeleteWordGood ==
  ASSUME NEW d, Good(d)
  PROVE  Edited(d, DeleteWord(d))
<1> DEFINE a == IF d.co = 1 THEN DeletePreviousChar(d) ELSE d
           b == GotoEndOfWord(a)
           c == DeleteWordLeftOfCursor(b)
           r == IF c.cw # 1 THEN DeletePreviousChar(c) ELSE c
<1>1. Edited(d, a)
  BY DeleteCharsGood, NotEdited
<1>2. d.co = 1 /\ d.cw = 1 => DeleteWord(d) = DeletePreviousChar(d)
  BY Zenon DEF DeleteWord
<1>3. ~(d.co = 1 /\ d.cw = 1) => DeleteWord(d) = r
  BY Zenon DEF DeleteWord
<1> HIDE DEF a
<1>4. Edited(a, b)
  BY <1>1, WordEndsGood, MovedIsEdited DEF Edited
<1> HIDE DEF b
<1>5. Edited(b, c)
  <2> DEFINE e == PutWords(b, 1, <<DeleteFromWord(CurrentWord(b), 1, b.co)>>)
  <2>1. c = WithOffset(e, 1)
    BY Zenon DEF DeleteWordLeftOfCursor, WithOffset
  <2>2. Edited(b, e)
    <3>1. Good(b) /\ CurrentWord(b) \in Word /\ b.co \in Nat
      BY <1>4, GoodIs DEF Edited
    <3>2. DeleteFromWord(CurrentWord(b), 1, b.co) \in Word
      BY <3>1, WordDeleted
    <3> QED BY <3>1, <3>2, ReplaceWordGood
  <2> HIDE DEF e
  <2>3. Edited(e, WithOffset(e, 1))
    BY <2>2, WithOffsetGood, MovedIsEdited DEF Edited
  <2> HIDE DEF c
  <2> QED BY <2>1, <2>2, <2>3, EditedOn
<1> HIDE DEF c
<1>6. Edited(c, r)
  BY <1>5, DeleteCharsGood, NotEdited DEF Edited
<1> HIDE DEF r
<1>7. Edited(d, r)
  BY <1>1, <1>4, <1>5, <1>6, EditedOn
<1> QED BY <1>2, <1>3, <1>7, DeleteCharsGood

-----------------------------------------------------------------------------
(* The selection.                                                           *)

(* There is a word at m, which may have become shorter than m says.         *)
WordAt(ps, m) ==
  m[1] \in 1 .. Len(ps) /\ m[2] \in 1 .. Len(ps[m[1]]) /\ m[3] \in Nat \ {0}

LEMMA WithMarkGood ==
  ASSUME NEW d, Good(d), NEW m
  PROVE  LET r == WithMark(d, m)
         IN  /\ Good(r) /\ r.mark = m /\ r.sticky = d.sticky
             /\ r.paras = d.paras /\ r.cp = d.cp /\ r.cw = d.cw /\ r.co = d.co
<1> DEFINE r == WithMark(d, m)
<1>1. /\ IsDoc(r) /\ r.mark = m /\ r.sticky = d.sticky
      /\ r.paras = d.paras /\ r.cp = d.cp /\ r.cw = d.cw /\ r.co = d.co
  BY WithMarkIs DEF Good
<1> HIDE DEF r
<1>2. Good(r)
  BY <1>1 DEF Good
<1> QED BY <1>1, <1>2 DEF r

LEMMA UnsetMarkGood ==
  ASSUME NEW d, Good(d)
  PROVE  /\ Good(UnsetMark(d)) /\ ~Marked(UnsetMark(d))
         /\ UnsetMark(d).paras = d.paras
         /\ Within(d) => Within(UnsetMark(d))
<1>1. UnsetMark(d) = WithMark(d, NoMark)
  BY Zenon DEF UnsetMark, WithMark
<1> DEFINE r == WithMark(d, NoMark)
<1>2. /\ Good(r) /\ r.mark = NoMark
      /\ r.paras = d.paras /\ r.cp = d.cp /\ r.cw = d.cw /\ r.co = d.co
  BY WithMarkGood
<1> HIDE DEF r
<1>3. Within(d) => Within(r)
  BY <1>2 DEF Within, CurrentWord, Paragraph
<1> QED BY <1>1, <1>2, <1>3 DEF Marked, r

InOrder(a, b) ==
  /\ a[1] <= b[1]
  /\ a[1] = b[1] => a[2] <= b[2]
  /\ a[1] = b[1] /\ a[2] = b[2] => a[3] <= b[3]

(* The ends of a selection are at words, and the one is before the other.   *)
LEMMA EndsInOrder ==
  ASSUME NEW d, Good(d), WordAt(d.paras, d.mark)
  PROVE  LET a == Start(d)
             b == End(d)
         IN  /\ WordAt(d.paras, a) /\ WordAt(d.paras, b)
             /\ InOrder(a, b)
<1> DEFINE m == d.mark
           c == Cursor(d)
<1>1. WordAt(d.paras, c) /\ c[1] = d.cp /\ c[2] = d.cw
  BY DEF Cursor, WordAt, Good
<1>2. /\ Len(d.paras) \in Nat /\ m[1] \in Nat /\ c[1] \in Nat
      /\ IsSeq(d.paras[m[1]]) /\ IsSeq(d.paras[c[1]])
  <2>1. m[1] \in 1 .. Len(d.paras) /\ c[1] \in 1 .. Len(d.paras)
    BY <1>1 DEF WordAt
  <2> HIDE DEF m, c
  <2>2. Len(d.paras) \in Nat
    BY GoodIs
  <2>3. \A p \in 1 .. Len(d.paras) : IsSeq(d.paras[p])
    BY DEF Good, Filled, Paras
  <2> QED BY <2>1, <2>2, <2>3
<1>3. m[2] \in Nat /\ c[2] \in Nat
  <2>1. Len(d.paras[m[1]]) \in Nat /\ Len(d.paras[c[1]]) \in Nat
    BY <1>2, SeqIs
  <2> QED BY <1>1, <2>1 DEF WordAt
<1>6. m[3] \in Nat /\ c[3] \in Nat
  BY <1>1 DEF WordAt
<1> HIDE DEF m, c
<1>4. CASE After(m, c)
  <2>1. Start(d) = c /\ End(d) = m
    BY <1>4 DEF Start, End, m, c
  <2>2. InOrder(c, m)
    BY <1>2, <1>3, <1>4, <1>6 DEF After, InOrder
  <2> QED BY <1>1, <2>1, <2>2 DEF m
<1>5. CASE ~After(m, c)
  <2>1. Start(d) = m /\ End(d) = c
    BY <1>5 DEF Start, End, m, c
  <2>2. InOrder(m, c)
    BY <1>2, <1>3, <1>5, <1>6 DEF After, InOrder
  <2> QED BY <1>1, <2>1, <2>2 DEF m
<1> QED BY <1>4, <1>5

(* The paragraphs between two splits are deleted: a is at the first, b at   *)
(* the second, which comes first.                                           *)
LEMMA SplitsRemoved ==
  ASSUME NEW d, Good(d), NEW a, NEW b, WordAt(d.paras, a), WordAt(d.paras, b),
         InOrder(a, b)
  PROVE  Good(PutParagraphs(SplitAt(SplitAt(d, b), a), b[1] - a[1] + 1, <<>>))
<1> DEFINE L == Len(d.paras)
           e0 == At(d, b[1], b[2], b[3])
           e == SplitCurrentParagraph(e0, Plain)
           g0 == At(e, a[1], a[2], a[3])
           g == SplitCurrentParagraph(g0, Plain)
           n == b[1] - a[1] + 1
           h == PutParagraphs(g, n, <<>>)
<1>1. /\ L \in Nat /\ a[1] \in 1 .. L /\ b[1] \in 1 .. L
      /\ a[2] \in 1 .. Len(d.paras[a[1]]) /\ b[2] \in 1 .. Len(d.paras[b[1]])
      /\ a[3] \in Nat \ {0} /\ b[3] \in Nat \ {0}
      /\ a[1] <= b[1] /\ (a[1] = b[1] => a[2] <= b[2])
  BY GoodIs DEF WordAt, InOrder
<1>2. Len(d.paras[a[1]]) \in Nat /\ Len(d.paras[b[1]]) \in Nat
  <2>1. IsSeq(d.paras[a[1]]) /\ IsSeq(d.paras[b[1]])
    BY <1>1 DEF Good, Filled, Paras
  <2> QED BY <2>1, SeqIs
<1>3. PutParagraphs(SplitAt(SplitAt(d, b), a), b[1] - a[1] + 1, <<>>) = h
  BY Zenon DEF SplitAt
<1> DEFINE ip == a[1]
           jp == b[1]
<1>4. Good(e0) /\ e0.paras = d.paras /\ e0.cp = jp /\ e0.cw = b[2] /\ e0.co = b[3]
  <2>1. Moved(d, e0)
    BY <1>1, AtGood
  <2>2. e0.cp = jp /\ e0.cw = b[2] /\ e0.co = b[3]
    BY AtIs DEF Good
  <2> QED BY <2>1, <2>2 DEF Moved
<1> HIDE DEF e0
<1>5. Split(e0, e)
  <2> HIDE DEF e
  <2>1. Near(e0)
    BY <1>4, GoodIs
  <2>2. e0.cw \in 1 .. Len(Paragraph(e0)) /\ Len(Paragraph(e0)) \in Nat
    BY <1>4, GoodIs DEF Good, Paragraph
  <2>3. Splittable(e0)
    BY <2>2 DEF Splittable
  <2> QED BY <2>1, <2>3, EmptyWord, SplitCurrentParagraphIs DEF e
<1> HIDE DEF e
<1>6. Good(e)
  BY <1>4, <1>5, SplitGood
<1>7. PICK fst \in Nat, snd \in Nat :
        /\ Divided(e0, e, fst, snd) /\ fst >= 1
        /\ fst >= b[2] \/ (fst = b[2] - 1 /\ b[3] = 1 /\ b[2] > 1)
  BY <1>4, <1>5 DEF Split, Behind
<1>8. /\ Len(e.paras) = L + 1
      /\ \A i \in 1 .. jp - 1 : e.paras[i] = d.paras[i]
      /\ Len(e.paras[jp]) = fst
  BY <1>4, <1>7 DEF Divided
<1>9. /\ ip \in 1 .. Len(e.paras) /\ a[2] \in 1 .. Len(e.paras[ip]) + 1
      /\ a[2] <= Len(e.paras[ip]) \/ (a[3] = 1 /\ a[2] > 1)
  <2>1. ip \in 1 .. Len(e.paras)
    BY <1>1, <1>8
  <2>2. CASE ip = jp
    <3>1. Len(e.paras[ip]) = fst /\ a[2] <= b[2]
      BY <1>1, <1>8, <2>2
    <3>2. a[2] \in Int /\ a[2] >= 1 /\ b[2] \in Int
      BY <1>1, <1>2
    <3>3. fst >= b[2] - 1
      BY <1>7, <3>2
    <3>4. a[2] \in 1 .. fst + 1
      BY <3>1, <3>2, <3>3
    <3>5. a[2] <= fst \/ (a[3] = 1 /\ a[2] > 1)
      <4>1. CASE fst >= b[2]
        BY <3>1, <3>2, <4>1
      <4>2. CASE fst = b[2] - 1 /\ b[3] = 1 /\ b[2] > 1
        <5>1. a[2] = b[2] => a[3] <= b[3]
          BY <2>2 DEF InOrder
        <5>2. a[3] \in Nat /\ a[3] >= 1
          BY <1>1
        <5>3. a[2] = b[2] => a[3] = 1
          BY <4>2, <5>1, <5>2
        <5> QED BY <3>1, <3>2, <4>2, <5>3
      <4> QED BY <1>7, <4>1, <4>2
    <3> QED BY <2>1, <3>1, <3>4, <3>5
  <2>3. CASE ip # jp
    <3>1. ip \in 1 .. jp - 1
      BY <1>1, <2>3
    <3>2. e.paras[ip] = d.paras[ip]
      BY <1>8, <3>1
    <3> QED BY <1>1, <1>2, <2>1, <3>2
  <2> QED BY <2>2, <2>3
<1>10. Near(g0) /\ Splittable(g0) /\ g0.paras = e.paras /\ g0.cp = ip
  <2>1. /\ IsDoc(g0) /\ g0.paras = e.paras /\ g0.cp = ip /\ g0.cw = a[2] /\ g0.co = a[3]
    BY <1>6, AtIs DEF Good
  <2> HIDE DEF g0
  <2>2. Near(g0)
    BY <1>1, <1>6, <1>9, <2>1 DEF Good, Filled, Near
  <2>3. Splittable(g0)
    BY <1>9, <2>1 DEF Splittable, Paragraph
  <2> QED BY <2>1, <2>2, <2>3
<1> HIDE DEF g0
<1>11. Split(g0, g)
  BY <1>10, EmptyWord, SplitCurrentParagraphIs
<1> HIDE DEF g
<1>12. PICK third \in Nat, fourth \in Nat :
         Divided(g0, g, third, fourth) /\ third >= 1
  BY <1>11 DEF Split
<1>13. /\ IsDoc(g) /\ Paras(g.paras) /\ Len(g.paras) = L + 2
       /\ g.cp = ip + 1 /\ g.cw = 1 /\ g.co = 1
       /\ \A i \in 1 .. ip - 1 : g.paras[i] = e.paras[i]
       /\ Len(g.paras[ip]) = third
       /\ \A i \in ip + 1 .. L + 1 : g.paras[i + 1] = e.paras[i]
  BY <1>1, <1>8, <1>10, <1>12 DEF Divided
<1>14. /\ L \in Nat /\ ip \in 1 .. L /\ jp \in 1 .. L /\ ip <= jp /\ n = jp - ip + 1
       /\ Len(e.paras) = L + 1
  BY <1>1, <1>8
<1> HIDE DEF L, ip, jp, n
<1>15. n \in Nat /\ g.cp + n = jp + 2 /\ g.cp + n <= Len(g.paras) + 1
       /\ g.cp \in 1 .. Len(g.paras)
  BY <1>13, <1>14
<1>16. Paras(<<>>) /\ Len(<<>>) = 0
  <2>1. IsSeq(<<>>) /\ Len(<<>>) = 0
    BY SeqLiterals
  <2> QED BY <2>1 DEF Paras
<1> DEFINE none == <<>>
<1>17. /\ IsDoc(h) /\ h.cp = ip + 1 /\ h.cw = 1 /\ h.co = 1 /\ Paras(h.paras)
       /\ Spliced(h.paras, g.paras, g.cp, n, none)
  <2>1. /\ IsDoc(g) /\ Paras(g.paras) /\ g.cp \in 1 .. Len(g.paras)
        /\ n \in Nat /\ g.cp + n <= Len(g.paras) + 1 /\ Paras(none)
    BY <1>13, <1>15, <1>16
  <2> HIDE DEF none, n
  <2>2. /\ IsDoc(h) /\ h.cp = g.cp /\ h.cw = g.cw /\ h.co = g.co /\ Paras(h.paras)
        /\ Spliced(h.paras, g.paras, g.cp, n, none)
    <3>1. h = PutParagraphs(g, n, none)
      BY Zenon DEF none
    <3> HIDE DEF h
    <3> QED BY <2>1, <3>1, PutParagraphsIs
  <2> HIDE DEF h
  <2> QED BY <1>13, <2>2
<1> HIDE DEF h, none, n
<1>18. /\ Len(h.paras) = L + 2 - n
       /\ \A i \in 1 .. ip : h.paras[i] = g.paras[i]
       /\ \A i \in 1 .. L + 1 - jp : h.paras[ip + i] = g.paras[jp + 1 + i]
  <2>1. Len(none) = 0
    BY <1>16 DEF none
  <2>2. g.cp - 1 = ip /\ g.cp - 1 + Len(none) = ip /\ g.cp - 1 + n = jp + 1
        /\ Len(g.paras) - n - g.cp + 1 = L + 1 - jp
    <3>1. /\ g.cp = ip + 1 /\ Len(g.paras) = L + 2
          /\ L \in Int /\ ip \in Int /\ jp \in Int /\ n = jp - ip + 1
      BY <1>13, <1>14
    <3> QED BY <2>1, <3>1
  <2>3. Len(h.paras) = L + 2 - n
    BY <1>13, <1>17, <1>14, <2>1 DEF Spliced
  <2>4. \A i \in 1 .. ip : h.paras[i] = g.paras[i]
    BY <1>17, <2>2 DEF Spliced
  <2>5. \A i \in 1 .. L + 1 - jp : h.paras[ip + i] = g.paras[jp + 1 + i]
    BY <1>17, <2>2 DEF Spliced
  <2> QED BY <2>3, <2>4, <2>5
<1>19. Len(h.paras) = L + 1 - jp + ip
  BY <1>18, <1>14
<1>20. ASSUME NEW p \in 1 .. Len(h.paras) PROVE h.paras[p] # <<>>
  <2>1. CASE p <= ip - 1
    <3>1. p \in 1 .. ip /\ p \in 1 .. ip - 1 /\ p \in 1 .. Len(e.paras)
      BY <1>14, <2>1
    <3>2. h.paras[p] = e.paras[p]
      BY <1>13, <1>18, <3>1
    <3> QED BY <1>6, <3>1, <3>2 DEF Good, Filled
  <2>2. CASE p = ip
    <3>1. ip \in 1 .. ip /\ ip \in 1 .. Len(g.paras)
      BY <1>13, <1>14
    <3>2. h.paras[p] = g.paras[ip]
      BY <1>18, <2>2, <3>1
    <3>3. IsSeq(g.paras[ip])
      BY <1>13, <3>1 DEF Paras
    <3> QED BY <1>12, <1>13, <3>2, <3>3, SeqIs
  <2>3. CASE p > ip
    <3> DEFINE i == p - ip
               k == jp + i
    <3>1. i \in 1 .. L + 1 - jp /\ ip + i = p
      BY <1>19, <1>14, <2>3
    <3>2. k \in ip + 1 .. L + 1 /\ k \in 1 .. Len(e.paras) /\ k + 1 = jp + 1 + i
      BY <1>14, <3>1
    <3> HIDE DEF i, k
    <3>3. h.paras[p] = g.paras[k + 1] /\ g.paras[k + 1] = e.paras[k]
      BY <1>13, <1>18, <3>1, <3>2
    <3> QED BY <1>6, <3>2, <3>3 DEF Good, Filled
  <2> QED BY <1>19, <1>14, <2>1, <2>2, <2>3
<1>21. h.cp \in 1 .. Len(h.paras)
  BY <1>17, <1>19, <1>14
<1>22. h.cw \in 1 .. Len(h.paras[h.cp])
  <2>1. IsSeq(h.paras[h.cp]) /\ h.paras[h.cp] # <<>>
    BY <1>17, <1>20, <1>21 DEF Paras
  <2> QED BY <1>17, <2>1, SeqIs
<1>23. Good(h)
  BY <1>17, <1>20, <1>21, <1>22 DEF Good, Filled
<1> QED BY <1>3, <1>23

LEMMA DeleteGood ==
  ASSUME NEW d, Good(d), WordAt(d.paras, d.mark)
  PROVE  Good(Delete(d)) /\ ~Marked(Delete(d)) /\ Within(Delete(d))
<1> DEFINE a == Start(d)
           b == End(d)
           h == PutParagraphs(SplitOff(d), b[1] - a[1] + 1, <<>>)
           u == GotoPreviousWordW(h)
           v == GotoEndOfWord(u)
           w == JoinWithNextWord(v)
           x == IF a[3] = 1 /\ a[2] > 1 THEN SplitCurrentWord(w, Plain) ELSE w
<1>1. Good(h)
  <2>1. /\ WordAt(d.paras, a) /\ WordAt(d.paras, b)
        /\ InOrder(a, b)
    BY EndsInOrder
  <2>2. SplitOff(d) = SplitAt(SplitAt(d, b), a)
    BY Zenon DEF SplitOff
  <2> HIDE DEF a, b
  <2>3. Good(PutParagraphs(SplitAt(SplitAt(d, b), a), b[1] - a[1] + 1, <<>>))
    BY <2>1, SplitsRemoved
  <2> QED BY <2>2, <2>3
<1>2. Delete(d) = UnsetMark(x)
  BY Zenon DEF Delete, Rejoined
<1> HIDE DEF h
<1>3. Good(u)
  BY <1>1, WordsGood DEF Moved
<1> HIDE DEF u
<1>4. Good(v) /\ Within(v)
  BY <1>3, WordEndsGood DEF Moved
<1> HIDE DEF v
<1>5. Good(w) /\ Within(w)
  BY <1>4, JoinWithNextWordGood DEF Edited
<1> HIDE DEF w
<1>6. Good(x) /\ Within(x)
  <2>1. Good(SplitCurrentWord(w, Plain)) /\ Within(SplitCurrentWord(w, Plain))
    BY <1>5, EmptyWord, SplitCurrentWordGood DEF Edited
  <2> QED BY <1>5, <2>1
<1> HIDE DEF x
<1> QED BY <1>2, <1>6, UnsetMarkGood

-----------------------------------------------------------------------------
(* The clipboard.                                                           *)

LEMMA CopiedFilled ==
  ASSUME NEW d, Good(d), WordAt(d.paras, d.mark)
  PROVE  Filled(Copied(d))
<1> DEFINE a == Start(d)
           b == End(d)
           n == b[1] - a[1] + 1
           lastword == IF n = 1 THEN b[2] - a[2] + 1 ELSE b[2]
           ps == SubSeq(d.paras, a[1], b[1])
           P == SubFrom(ps[1], a[2])
           qs == PutParagraph(ps, 1, P)
           Q == qs[n]
           last == DeleteFromWord(Q[lastword], b[3], Len(Q[lastword]) + 1)
           A == Sub(Q, 1, lastword - 1)
           R == A \o <<last>>
           rs == PutParagraph(qs, n, R)
           X == rs[1]
           first == DeleteFromWord(X[1], 1, a[3])
           S == <<first>> \o SubFrom(X, 2)
           ss == PutParagraph(rs, 1, S)
<1>1. Copied(d) = ss
  BY Zenon DEF Copied, PutParagraph
<1> DEFINE ip == a[1]
           jp == b[1]
           iw == a[2]
           jw == b[2]
           L == Len(d.paras)
<1>2. /\ WordAt(d.paras, a) /\ WordAt(d.paras, b)
      /\ ip <= jp
      /\ ip = jp => iw <= jw
      /\ a[3] \in Nat \ {0} /\ b[3] \in Nat \ {0}
  BY EndsInOrder DEF InOrder, WordAt
<1>3. /\ IsSeq(d.paras) /\ L \in Nat /\ ip \in 1 .. L /\ jp \in 1 .. L
      /\ iw \in 1 .. Len(d.paras[ip]) /\ jw \in 1 .. Len(d.paras[jp])
      /\ Len(d.paras[ip]) \in Nat /\ Len(d.paras[jp]) \in Nat
      /\ IsSeq(d.paras[ip]) /\ IsSeq(d.paras[jp])
  <2>1. ip \in 1 .. L /\ jp \in 1 .. L
    BY <1>2 DEF WordAt
  <2>2. IsSeq(d.paras[ip]) /\ IsSeq(d.paras[jp])
    BY <2>1 DEF Good, Filled, Paras
  <2> QED BY <1>2, <2>1, <2>2, GoodIs, SeqIs DEF WordAt
<1> HIDE DEF a, b, ip, jp, iw, jw, L
<1>4. n = jp - ip + 1 /\ n \in Nat /\ n >= 1
  BY <1>2, <1>3 DEF ip, jp
<1>5. lastword = IF n = 1 THEN jw - iw + 1 ELSE jw
  BY DEF iw, jw
<1> HIDE DEF n, lastword
<1>6. /\ IsSeq(ps) /\ Len(ps) = n
      /\ \A i \in 1 .. n : ps[i] = d.paras[ip + i - 1]
  <2>1. ip \in Nat /\ ip >= 1 /\ jp \in Int /\ jp <= Len(d.paras)
    BY <1>3 DEF L
  <2>2. ps = SubSeq(d.paras, ip, jp)
    BY Zenon DEF ip, jp
  <2> HIDE DEF ps
  <2>3. /\ IsSeq(ps)
        /\ Len(ps) = IF ip <= jp THEN jp - ip + 1 ELSE 0
        /\ \A i \in 1 .. jp - ip + 1 : ps[i] = d.paras[ip + i - 1]
    BY <1>3, <2>1, <2>2, SeqPart
  <2> QED BY <1>2, <1>4, <2>3
<1> HIDE DEF ps
<1>7. ps[1] = d.paras[ip] /\ ps[n] = d.paras[jp]
  <2>1. 1 \in 1 .. n /\ n \in 1 .. n /\ ip + 1 - 1 = ip /\ ip + n - 1 = jp
    BY <1>3, <1>4
  <2>2. ps[1] = d.paras[ip + 1 - 1] /\ ps[n] = d.paras[ip + n - 1]
    BY <1>6, <2>1
  <2> QED BY <2>1, <2>2
<1>8. \A i \in 1 .. n : IsSeq(ps[i]) /\ Worded(ps[i]) /\ ps[i] # <<>>
  <2> SUFFICES ASSUME NEW i \in 1 .. n PROVE IsSeq(ps[i]) /\ Worded(ps[i]) /\ ps[i] # <<>>
    OBVIOUS
  <2> DEFINE k == ip + i - 1
  <2>1. k \in 1 .. L
    BY <1>3, <1>4
  <2>2. ps[i] = d.paras[k]
    BY <1>6
  <2> HIDE DEF k
  <2> QED BY <2>1, <2>2 DEF Good, Filled, Paras, L
<1>9. IsSeq(P) /\ Len(P) = Len(d.paras[ip]) - iw + 1 /\ Worded(P)
  <2>1. P = SubFrom(d.paras[ip], iw)
    BY <1>7 DEF iw
  <2>2. iw \in Nat /\ iw >= 1
    BY <1>3
  <2> DEFINE s == d.paras[ip]
  <2>3. IsSeq(s) /\ Worded(s)
    BY <1>3 DEF Good, Filled, Paras, L
  <2> HIDE DEF P
  <2>4. P = SubFrom(s, iw)
    BY <2>1
  <2> HIDE DEF s
  <2>5. /\ IsSeq(P) /\ Len(P) = IF iw <= Len(s) THEN Len(s) - iw + 1 ELSE 0
        /\ Worded(P)
    BY <2>2, <2>3, <2>4, SubFromIs, WordedParts
  <2> QED BY <1>3, <2>5 DEF s
<1> HIDE DEF P
<1>10. /\ IsSeq(qs) /\ Len(qs) = n /\ qs[1] = P
       /\ \A i \in 1 .. n : i # 1 => qs[i] = ps[i]
  <2>1. 1 \in 1 .. Len(ps)
    BY <1>4, <1>6
  <2> QED BY <1>6, <2>1, ParagraphPut
<1> HIDE DEF qs
<1>11. IsSeq(Q) /\ Worded(Q) /\ lastword \in 1 .. Len(Q)
  <2>1. CASE n = 1
    <3>1. Q = P /\ ip = jp
      BY <1>3, <1>4, <1>10, <2>1
    <3>2. iw <= jw /\ jw <= Len(d.paras[ip])
      BY <1>2, <1>3, <3>1
    <3> HIDE DEF Q
    <3> QED BY <1>3, <1>5, <1>9, <2>1, <3>1, <3>2
  <2>2. CASE n # 1
    <3>1. n \in 1 .. n
      BY <1>4
    <3>2. Q = d.paras[jp] /\ Worded(Q)
      BY <1>7, <1>8, <1>10, <2>2, <3>1
    <3> HIDE DEF Q
    <3> QED BY <1>3, <1>5, <2>2, <3>2
  <2> QED BY <2>1, <2>2
<1> HIDE DEF Q
<1>a. last \in Word
  <2> DEFINE v == Q[lastword]
  <2>1. v \in Word
    BY <1>11 DEF Worded
  <2>2. Len(v) + 1 \in Nat
    BY <2>1, WordIs
  <2> HIDE DEF v
  <2>3. DeleteFromWord(v, b[3], Len(v) + 1) \in Word
    BY <1>2, <2>1, <2>2, WordDeleted
  <2> QED BY <2>3 DEF v
<1> HIDE DEF last
<1>12. IsSeq(R) /\ Worded(R) /\ R # <<>>
  <2>1. IsSeq(A) /\ Worded(A)
    <3>1. lastword - 1 \in 0 .. Len(Q)
      <4>1. Len(Q) \in Nat
        BY <1>11, SeqIs
      <4> QED BY <1>11, <4>1
    <3> QED BY <1>11, <3>1, SubIs, WordedParts
  <2> HIDE DEF A
  <2>5. Worded(<<last>>)
    BY <1>a, WordedLiterals
  <2>2. IsSeq(<<last>>) /\ Len(<<last>>) = 1 /\ Len(A) \in Nat
    BY <2>1, SeqLiterals, SeqIs
  <2>3. IsSeq(R) /\ Len(R) = Len(A) + Len(<<last>>)
    BY <2>1, <2>2, SeqConcat
  <2>6. Worded(R)
    BY <2>1, <2>2, <2>5, WordedConcat
  <2> HIDE DEF R
  <2>4. Len(R) >= 1
    BY <2>2, <2>3
  <2> QED BY <2>3, <2>4, <2>6, SeqIs
<1> HIDE DEF R
<1>13. /\ IsSeq(rs) /\ Len(rs) = n /\ rs[n] = R
       /\ \A i \in 1 .. n : i # n => rs[i] = qs[i]
  <2>1. n \in 1 .. Len(qs)
    BY <1>4, <1>10
  <2> QED BY <1>10, <2>1, ParagraphPut
<1> HIDE DEF rs
<1>14. IsSeq(X) /\ Worded(X) /\ X # <<>>
  <2>1. 1 \in 1 .. n
    BY <1>4
  <2>2. P # <<>>
    <3>1. Len(P) >= 1
      BY <1>3, <1>9
    <3> QED BY <1>9, <3>1, SeqIs
  <2> QED BY <1>9, <1>10, <1>12, <1>13, <2>1, <2>2
<1> HIDE DEF X
<1>b. first \in Word
  <2> DEFINE v == X[1]
  <2>1. v \in Word
    BY <1>14, SeqIs DEF Worded
  <2> HIDE DEF v
  <2>2. DeleteFromWord(v, 1, a[3]) \in Word
    BY <1>2, <2>1, WordDeleted
  <2> QED BY <2>2 DEF v
<1> HIDE DEF first
<1>15. IsSeq(S) /\ Worded(S) /\ S # <<>>
  <2> DEFINE B == SubFrom(X, 2)
  <2>1. IsSeq(B) /\ Worded(B)
    BY <1>14, SubFromIs, WordedParts
  <2> HIDE DEF B
  <2>6. Worded(<<first>>)
    BY <1>b, WordedLiterals
  <2>2. IsSeq(<<first>>) /\ Len(<<first>>) = 1 /\ Len(B) \in Nat
    BY <2>1, SeqLiterals, SeqIs
  <2>3. IsSeq(<<first>> \o B) /\ Len(<<first>> \o B) = Len(<<first>>) + Len(B)
    BY <2>1, <2>2, SeqConcat
  <2>4. S = <<first>> \o B
    BY Zenon DEF B
  <2>7. Worded(<<first>> \o B)
    BY <2>1, <2>2, <2>6, WordedConcat
  <2> HIDE DEF S
  <2>5. IsSeq(S) /\ Len(S) >= 1 /\ Worded(S)
    BY <2>2, <2>3, <2>4, <2>7
  <2> QED BY <2>5, SeqIs
<1> HIDE DEF S
<1>16. /\ IsSeq(ss) /\ Len(ss) = n /\ ss[1] = S
       /\ \A i \in 1 .. n : i # 1 => ss[i] = rs[i]
  <2>1. 1 \in 1 .. Len(rs)
    BY <1>4, <1>13
  <2> QED BY <1>13, <2>1, ParagraphPut
<1> HIDE DEF ss
<1>17. ASSUME NEW i \in 1 .. n PROVE IsSeq(ss[i]) /\ Worded(ss[i]) /\ ss[i] # <<>>
  <2>1. CASE i = 1
    BY <1>15, <1>16, <2>1
  <2>2. CASE i # 1 /\ i = n
    BY <1>12, <1>13, <1>16, <2>2
  <2>3. CASE i # 1 /\ i # n
    <3>1. ss[i] = rs[i] /\ rs[i] = qs[i] /\ qs[i] = ps[i]
      BY <1>10, <1>13, <1>16, <2>3
    <3> QED BY <1>8, <3>1
  <2> QED BY <2>1, <2>2, <2>3
<1>18. Filled(ss)
  BY <1>16, <1>17 DEF Filled, Paras
<1> QED BY <1>1, <1>18

(* All but the first paragraph of the clipboard.                            *)
LEMMA TailFilled ==
  ASSUME NEW ps, Filled(ps), ps # <<>>
  PROVE  Filled(Tail(ps)) /\ Len(Tail(ps)) = Len(ps) - 1
<1> DEFINE t == Tail(ps)
<1>1. PICK S : ps \in Seq(S)
  BY DEF Filled, Paras, IsSeq
<1>2. /\ t \in Seq(S) /\ Len(t) = Len(ps) - 1
      /\ \A i \in 1 .. Len(t) : t[i] = ps[i + 1]
  BY <1>1, HeadTailProperties
<1>3. Len(ps) \in Nat
  BY <1>1
<1> HIDE DEF t
<1>4. IsSeq(t)
  BY <1>2, Zenon DEF IsSeq
<1>5. ASSUME NEW i \in 1 .. Len(t) PROVE IsSeq(t[i]) /\ Worded(t[i]) /\ t[i] # <<>>
  <2> DEFINE k == i + 1
  <2>1. k \in 1 .. Len(ps) /\ t[i] = ps[k]
    BY <1>2, <1>3
  <2> HIDE DEF k
  <2> QED BY <2>1 DEF Filled, Paras
<1>6. Filled(t) /\ Len(t) = Len(ps) - 1
  BY <1>2, <1>4, <1>5 DEF Filled, Paras
<1> QED BY <1>6 DEF t

LEMMA InsertParagraphsGood ==
  ASSUME NEW d, Good(d), NEW new, Filled(new), NEW p \in d.cp .. Len(d.paras) + Len(new)
  PROVE  Edited(d, At(PutParagraphs(d, 0, new), p, 1, 1))
<1> DEFINE e == PutParagraphs(d, 0, new)
           r == At(e, p, 1, 1)
           L == Len(d.paras)
           m == Len(new)
           c == d.cp
           ps == e.paras
<1>1. /\ IsDoc(d) /\ Paras(d.paras) /\ L \in Nat /\ c \in 1 .. L
      /\ Paras(new) /\ m \in Nat
  BY GoodIs, SeqIs DEF Good, Filled, Paras
<1>2. /\ IsDoc(e) /\ KeepsMark(d, e) /\ Paras(ps)
      /\ Spliced(ps, d.paras, c, 0, new)
  <2>1. c + 0 <= L + 1
    BY <1>1
  <2> QED BY <1>1, <2>1, PutParagraphsIs
<1> HIDE DEF e
<1>3. /\ Len(ps) = L + m
      /\ \A i \in 1 .. c - 1 : ps[i] = d.paras[i]
      /\ \A i \in 1 .. m : ps[c - 1 + i] = new[i]
      /\ \A i \in 1 .. L - c + 1 : ps[c - 1 + m + i] = d.paras[c - 1 + i]
  <2>1. Len(d.paras) - 0 + Len(new) = L + m
    BY <1>1
  <2>2. Len(d.paras) - 0 - c + 1 = L - c + 1 /\ c - 1 + 0 = c - 1
    BY <1>1
  <2> QED BY <1>2, <2>1, <2>2 DEF Spliced
<1> HIDE DEF ps
<1>4. ASSUME NEW i \in 1 .. Len(ps) PROVE ps[i] # <<>>
  <2> HIDE DEF L, m, c
  <2>1. CASE i <= c - 1
    <3>1. i \in 1 .. c - 1 /\ i \in 1 .. L
      BY <1>1, <2>1
    <3> QED BY <1>3, <3>1 DEF Good, Filled, L
  <2>2. CASE i > c - 1 /\ i <= c - 1 + m
    <3> DEFINE j == i - (c - 1)
    <3>1. j \in 1 .. m /\ c - 1 + j = i
      BY <1>1, <2>2
    <3> HIDE DEF j
    <3> QED BY <1>3, <3>1 DEF Filled, m
  <2>3. CASE i > c - 1 + m
    <3> DEFINE j == i - (c - 1 + m)
               k == c - 1 + j
    <3>1. j \in 1 .. L - c + 1 /\ c - 1 + m + j = i
      BY <1>1, <1>3, <2>3
    <3>2. k \in 1 .. L
      BY <1>1, <3>1
    <3> HIDE DEF j
    <3>3. ps[i] = d.paras[k]
      BY <1>3, <3>1
    <3> HIDE DEF k
    <3> QED BY <3>2, <3>3 DEF Good, Filled, L
  <2> QED BY <1>1, <2>1, <2>2, <2>3
<1>5. p \in 1 .. Len(ps)
  BY <1>1, <1>3
<1>6. 1 \in 1 .. Len(ps[p])
  <2>1. IsSeq(ps[p]) /\ ps[p] # <<>>
    BY <1>2, <1>4, <1>5 DEF Paras
  <2> QED BY <2>1, SeqIs
<1>7. /\ IsDoc(r) /\ KeepsMark(e, r) /\ r.paras = ps /\ r.cp = p /\ r.cw = 1
      /\ r.co = 1
  BY <1>2, AtIs DEF ps
<1> HIDE DEF r
<1>8. Edited(d, r)
  BY <1>2, <1>4, <1>5, <1>6, <1>7 DEF Edited, Good, Filled, KeepsMark
<1> QED BY <1>8 DEF r, e

LEMMA PutInGood ==
  ASSUME NEW d, Good(d), NEW buffer, Filled(buffer), buffer # <<>>, NEW hint \in Style
  PROVE  Edited(d, PutIn(d, buffer, hint))
<1> DEFINE B == buffer[1]
           k == Len(B)
           L == Len(Paragraph(d))
           s == SplitCurrentWord(d, hint)
           n == L + k + 1
           e == PutWords(s, 0, B)
           f == WithWord(e, d.cw)
           g == JoinWithNextWord(f)
           first == WithWord(g, d.cw + k)
           t == SplitCurrentParagraph(first, hint)
           r == At(PutParagraphs(t, 0, Tail(buffer)), t.cp + Len(buffer) - 1, 1, 1)
<1>1. Len(buffer) \in Nat /\ Len(buffer) >= 1 /\ IsSeq(B) /\ Worded(B)
      /\ k \in Nat /\ k >= 1
  <2>1. Len(buffer) \in Nat /\ Len(buffer) >= 1
    BY SeqIs DEF Filled, Paras
  <2>2. 1 \in 1 .. Len(buffer)
    BY <2>1
  <2>3. IsSeq(B) /\ Worded(B) /\ B # <<>>
    BY <2>2 DEF Filled, Paras
  <2> QED BY <2>1, <2>3, SeqIs
<1>2. PutIn(d, buffer, hint) = IF Len(buffer) = 1 THEN first ELSE r
  BY Zenon DEF PutIn, WithWord
<1>3. L \in Nat /\ d.cw \in 1 .. L
  BY GoodIs DEF Good, Paragraph
<1>4. Edited(d, s) /\ Len(Paragraph(s)) = L + 1 /\ s.cp = d.cp /\ s.cw = d.cw + 1
  BY SplitCurrentWordGood
<1> HIDE DEF B, k, L, s
<1>5. Resized(s, e, n) /\ e.cw = s.cw /\ e.co = s.co
  <2>1. n = s.cw - 1 + Len(B) + Left(Len(Paragraph(s)) + 1, s.cw + 0)
    <3>1. Len(Paragraph(s)) + 1 = L + 2 /\ s.cw + 0 = d.cw + 1 /\ s.cw - 1 = d.cw
      BY <1>3, <1>4
    <3>2. Left(L + 2, d.cw + 1) = L + 1 - d.cw
      BY <1>3 DEF Left
    <3>3. n = d.cw + k + (L + 1 - d.cw)
      BY <1>1, <1>3
    <3> HIDE DEF n
    <3> QED BY <3>1, <3>2, <3>3, Zenon DEF k
  <2>2. Near(s) /\ IsSeq(B) /\ Worded(B)
    BY <1>1, <1>4, GoodIs DEF Edited
  <2> HIDE DEF n
  <2> QED BY <2>1, <2>2, PutWordsIs
<1> HIDE DEF e
<1>6. n \in Nat /\ e.cw \in 1 .. n /\ d.cw \in 1 .. n /\ d.cw < n
      /\ d.cw + k \in 1 .. n - 1
  BY <1>1, <1>3, <1>4, <1>5
<1> HIDE DEF n
<1>7. Edited(s, e) /\ Len(Paragraph(e)) = n
  BY <1>4, <1>5, <1>6, ResizedGood, GoodIs DEF Edited, Good
<1>8. Edited(e, f) /\ Len(Paragraph(f)) = n /\ f.cw = d.cw
  <2>1. Moved(e, f) /\ f.cp = e.cp /\ f.cw = d.cw
    BY <1>6, <1>7, WithWordGood DEF Edited
  <2> HIDE DEF f
  <2> QED BY <1>7, <2>1, MovedIsEdited DEF Moved, Paragraph
<1> HIDE DEF f
<1>9. Edited(f, g) /\ Len(Paragraph(g)) = n - 1
  <2>1. g = JoinTwoWords(f)
    BY <1>6, <1>8 DEF JoinWithNextWord, AtEnd
  <2> QED BY <1>6, <1>8, <2>1, JoinTwoWordsGood DEF Edited
<1> HIDE DEF g
<1>10. Edited(g, first)
  BY <1>6, <1>9, WithWordGood, MovedIsEdited DEF Edited
<1> HIDE DEF first
<1>11. Edited(d, first)
  BY <1>4, <1>7, <1>8, <1>9, <1>10, EditedOn
<1>12. Edited(first, t)
  BY <1>10, SplitCurrentParagraphGood DEF Edited
<1> HIDE DEF t
<1>13. Edited(t, r)
  <2> DEFINE new == Tail(buffer)
             p == t.cp + Len(buffer) - 1
  <2>1. Filled(new) /\ Len(new) = Len(buffer) - 1
    BY TailFilled
  <2> HIDE DEF new
  <2>2. Good(t) /\ t.cp \in 1 .. Len(t.paras) /\ Len(t.paras) \in Nat
    BY <1>12, GoodIs DEF Edited, Good
  <2>3. p \in t.cp .. Len(t.paras) + Len(new)
    BY <1>1, <2>1, <2>2
  <2> HIDE DEF p
  <2>4. Edited(t, At(PutParagraphs(t, 0, new), p, 1, 1))
    BY <2>1, <2>2, <2>3, InsertParagraphsGood
  <2> QED BY <2>4 DEF new, p
<1> HIDE DEF r
<1>14. Edited(d, r)
  BY <1>11, <1>12, <1>13, EditedOn
<1> QED BY <1>2, <1>11, <1>14

LEMMA PastedGood ==
  ASSUME NEW d, Good(d), NEW buffer, Filled(buffer), buffer # <<>>, NEW hint \in Style
  PROVE  Edited(d, Pasted(d, buffer, hint))
<1> DEFINE e == PutIn(d, buffer, hint)
           f == GotoBeginningOfWord(e)
           g == GotoPreviousCharW(f)
           r == JoinWithNextWord(g)
<1>1. Pasted(d, buffer, hint) = r
  BY Zenon DEF Pasted
<1>2. Edited(d, e)
  BY PutInGood
<1> HIDE DEF e
<1>3. Edited(e, f)
  BY <1>2, WordEndsGood, MovedIsEdited DEF Edited
<1> HIDE DEF f
<1>4. Edited(f, g)
  BY <1>3, CharsGood, MovedIsEdited DEF Edited
<1> HIDE DEF g
<1>5. Edited(g, r)
  BY <1>4, JoinWithNextWordGood DEF Edited
<1> HIDE DEF r
<1> QED BY <1>1, <1>2, <1>3, <1>4, <1>5, EditedOn

LEMMA ApplyStyleGood ==
  ASSUME NEW d, Good(d), NEW sor \in Style, NEW sand \in Style
  PROVE  /\ Good(ApplyStyleToSelection(d, sor, sand))
         /\ ~Marked(ApplyStyleToSelection(d, sor, sand))
<1> DEFINE a == Start(d)
           b == End(d)
           from(p, w) == IF p = a[1] /\ w = a[2] THEN a[3] ELSE 1
           to(p, w) == IF p = b[1] /\ w = b[2] THEN b[3] ELSE Len(d.paras[p][w]) + 1
           in(p, w) == /\ ~After(<<a[1], a[2], 1>>, <<p, w, 1>>)
                       /\ ~After(<<p, w, 1>>, <<b[1], b[2], 1>>)
           styled(p, w) == ApplyStyleToWord(d.paras[p][w], sor, sand, from(p, w), to(p, w), d.co)
           word(p, w) == IF in(p, w) THEN styled(p, w).word ELSE d.paras[p][w]
           para(p) == [w \in DOMAIN d.paras[p] |-> word(p, w)]
           ps == [p \in DOMAIN d.paras |-> para(p)]
           o == styled(d.cp, d.cw).cursor
           e == WithParas(d, ps)
           f == WithOffset(e, o)
<1>1. ApplyStyleToSelection(d, sor, sand) = UnsetMark(f)
  BY Zenon DEF ApplyStyleToSelection, WithParas, WithOffset
<1>a. ASSUME NEW p \in 1 .. Len(d.paras), NEW w \in 1 .. Len(d.paras[p])
      PROVE  word(p, w) \in Word /\ styled(p, w).cursor \in Nat \ {0}
  <2> DEFINE v == d.paras[p][w]
  <2>1. v \in Word
    BY DEF Good, Filled, Paras, Worded
  <2> HIDE DEF v, from, to, in
  <2>2. styled(p, w).word \in Word /\ styled(p, w).cursor \in Nat \ {0}
    <3>1. styled(p, w) = ApplyStyleToWord(v, sor, sand, from(p, w), to(p, w), d.co)
      BY Zenon DEF v
    <3> HIDE DEF styled
    <3> QED BY <2>1, <3>1, WordStyled
  <2> HIDE DEF styled
  <2> QED BY <2>1, <2>2 DEF v
<1>b. o \in Nat \ {0}
  <2>1. d.cp \in 1 .. Len(d.paras) /\ d.cw \in 1 .. Len(d.paras[d.cp])
    BY DEF Good
  <2> HIDE DEF styled
  <2> QED BY <1>a, <2>1
<1> HIDE DEF word, o
<1>2. ASSUME NEW p \in 1 .. Len(d.paras)
      PROVE  IsSeq(para(p)) /\ Len(para(p)) = Len(d.paras[p]) /\ Worded(para(p))
  <2> DEFINE n == Len(d.paras[p])
             S == {word(p, w) : w \in 1 .. n}
  <2>1. DOMAIN d.paras[p] = 1 .. n /\ n \in Nat
    <3>1. IsSeq(d.paras[p])
      BY DEF Good, Filled, Paras
    <3> QED BY <3>1, SeqIs
  <2>2. para(p) = [w \in 1 .. n |-> word(p, w)]
    BY <2>1
  <2> HIDE DEF n
  <2>3. para(p) \in [1 .. n -> S] /\ \A w \in 1 .. n : para(p)[w] = word(p, w)
    BY <2>2
  <2> HIDE DEF S, para
  <2>4. para(p) \in Seq(S) /\ Len(para(p)) = n
    BY <2>1, <2>3
  <2>5. Worded(para(p))
    BY <1>a, <2>3, <2>4 DEF Worded, n
  <2>6. IsSeq(para(p))
    BY <2>4, Zenon DEF IsSeq
  <2> QED BY <2>4, <2>5, <2>6 DEF n
<1> DEFINE L == Len(d.paras)
<1>3. DOMAIN d.paras = 1 .. L /\ L \in Nat
  <2>1. IsSeq(d.paras)
    BY GoodIs
  <2> QED BY <2>1, SeqIs
<1>4. IsSeq(ps) /\ Len(ps) = L /\ \A p \in 1 .. L : ps[p] = para(p)
  <2> HIDE DEF para, L
  <2> DEFINE S == {para(p) : p \in 1 .. L}
  <2>1. ps = [p \in 1 .. L |-> para(p)]
    BY <1>3
  <2>2. ps \in [1 .. L -> S]
    BY <2>1
  <2>3. \A p \in 1 .. L : ps[p] = para(p)
    BY <2>1
  <2> HIDE DEF S, ps
  <2>4. ps \in Seq(S) /\ Len(ps) = L
    BY <1>3, <2>2
  <2>5. IsSeq(ps)
    BY <2>4, Zenon DEF IsSeq
  <2> QED BY <2>3, <2>4, <2>5
<1> HIDE DEF para, ps
<1>5. Filled(ps)
  <2>1. ASSUME NEW p \in 1 .. L PROVE IsSeq(ps[p]) /\ Worded(ps[p]) /\ ps[p] # <<>>
    <3>1. IsSeq(d.paras[p]) /\ d.paras[p] # <<>>
      BY DEF Good, Filled, Paras
    <3>2. Len(ps[p]) >= 1 /\ IsSeq(ps[p]) /\ Worded(ps[p])
      BY <1>2, <1>4, <3>1, SeqIs
    <3> QED BY <3>2, SeqIs
  <2> QED BY <1>4, <2>1 DEF Filled, Paras
<1>6. /\ IsDoc(e) /\ KeepsMark(d, e)
      /\ e.paras = ps /\ e.cp = d.cp /\ e.cw = d.cw /\ e.co = d.co
  BY WithParasIs DEF Good
<1> HIDE DEF e
<1>7. Good(e)
  <2>1. d.cp \in 1 .. L /\ d.cw \in 1 .. Len(d.paras[d.cp])
    BY DEF Good
  <2>2. Len(ps[d.cp]) = Len(d.paras[d.cp])
    BY <1>2, <1>4, <2>1
  <2> QED BY <1>4, <1>5, <1>6, <2>1, <2>2 DEF Good
<1>8. Good(f)
  BY <1>7, <1>b, WithOffsetGood DEF Moved
<1> HIDE DEF f
<1> QED BY <1>1, <1>8, UnsetMarkGood

-----------------------------------------------------------------------------
(* The invariant.                                                           *)

Loose(d) == Marked(d) /\ ~d.sticky

(* What typing would delete, and moving forget, begins or ends in a word.   *)
Held(d) == Good(d) /\ (Loose(d) => PlaceIn(d.paras, d.mark))
Settled(d) == Good(d) /\ ~Loose(d)

WordInv == Held(doc) /\ Filled(clip)

(* A place in the text is at a word. *)
LEMMA PlaceIsWord ==
  ASSUME NEW d, Good(d), NEW m
  PROVE  /\ PlaceIn(d.paras, m) => WordAt(d.paras, m)
         /\ WordAt(d.paras, m) /\ m[3] \in 1 .. Len(d.paras[m[1]][m[2]]) + 1
            => PlaceIn(d.paras, m)
<1>1. DOMAIN d.paras = 1 .. Len(d.paras)
  BY GoodIs, SeqIs
<1>2. ASSUME m[1] \in 1 .. Len(d.paras)
      PROVE  DOMAIN d.paras[m[1]] = 1 .. Len(d.paras[m[1]]) /\ Worded(d.paras[m[1]])
  BY <1>2, SeqIs DEF Good, Filled, Paras
<1>3. ASSUME PlaceIn(d.paras, m) PROVE WordAt(d.paras, m)
  <2>1. m[1] \in 1 .. Len(d.paras) /\ m[2] \in 1 .. Len(d.paras[m[1]])
    BY <1>1, <1>2, <1>3 DEF PlaceIn
  <2> DEFINE w == d.paras[m[1]][m[2]]
  <2>2. Len(w) \in Nat
    BY <1>2, <2>1, WordIs DEF Worded
  <2>3. m[3] \in 1 .. Len(w) + 1
    BY <1>3 DEF PlaceIn
  <2> HIDE DEF w
  <2>4. m[3] \in Nat \ {0}
    BY <2>2, <2>3
  <2> QED BY <2>1, <2>4 DEF WordAt
<1>4. ASSUME WordAt(d.paras, m), m[3] \in 1 .. Len(d.paras[m[1]][m[2]]) + 1
      PROVE  PlaceIn(d.paras, m)
  BY <1>1, <1>2, <1>4 DEF WordAt, PlaceIn
<1> QED BY <1>3, <1>4

LEMMA CursorWithin ==
  ASSUME NEW d, Good(d), CursorInDocument(d)
  PROVE  Within(d)
BY DEF CursorInDocument, PlaceIn, Cursor, Within, CurrentWord, Paragraph

LEMMA EditedSettled ==
  ASSUME NEW d, Settled(d), NEW r, Edited(d, r)
  PROVE  Settled(r) /\ Held(r)
BY DEF Settled, Held, Edited, KeepsMark, Loose, Marked

LEMMA SelectionForgotten ==
  ASSUME NEW d, Held(d)
  PROVE  /\ Settled(MoveWhileSelected(d)) /\ Settled(TypeWhileSelected(d))
         /\ Within(d) => Within(TypeWhileSelected(d))
<1>1. Settled(MoveWhileSelected(d))
  <2>1. CASE Loose(d)
    <3>1. MoveWhileSelected(d) = UnsetMark(d)
      BY <2>1 DEF MoveWhileSelected, Loose
    <3> QED BY <3>1, UnsetMarkGood DEF Held, Settled, Loose
  <2>2. CASE ~Loose(d)
    <3>1. MoveWhileSelected(d) = d
      BY <2>2 DEF MoveWhileSelected, Loose
    <3> QED BY <2>2, <3>1 DEF Held, Settled
  <2> QED BY <2>1, <2>2
<1>2. Settled(TypeWhileSelected(d)) /\ (Within(d) => Within(TypeWhileSelected(d)))
  <2>1. CASE Loose(d)
    <3>1. TypeWhileSelected(d) = Delete(d)
      BY <2>1 DEF TypeWhileSelected, Loose
    <3> QED BY <2>1, <3>1, PlaceIsWord, DeleteGood DEF Held, Settled, Loose
  <2>2. CASE ~Loose(d)
    <3>1. TypeWhileSelected(d) = d
      BY <2>2 DEF TypeWhileSelected, Loose
    <3> QED BY <2>2, <3>1 DEF Held, Settled
  <2> QED BY <2>1, <2>2
<1> QED BY <1>1, <1>2

LEMMA MarkHereHeld ==
  ASSUME NEW d, Good(d), Within(d), NEW sticky
  PROVE  Held(MarkHere(d, sticky))
<1> DEFINE m == <<d.cp, d.cw, RewindPastStyleBytes(CurrentWord(d), d.co)>>
           e == WithMark(d, m)
           r == [e EXCEPT !.sticky = sticky]
<1>1. MarkHere(d, sticky) = r
  BY Zenon DEF MarkHere, WithMark
<1> DEFINE w == CurrentWord(d)
<1>2. m[1] = d.cp /\ m[2] = d.cw /\ m[3] = RewindPastStyleBytes(w, d.co)
  OBVIOUS
<1>8. w \in Word /\ d.co \in 1 .. Len(w) + 1
  BY GoodIs DEF Within
<1> HIDE DEF m
<1>3. /\ Good(e) /\ e.mark = m
      /\ e.paras = d.paras /\ e.cp = d.cp /\ e.cw = d.cw
  BY WithMarkGood
<1> HIDE DEF e
<1>4. r = Document(e.paras, e.cp, e.cw, e.co, e.mark, sticky)
  <2>1. IsDoc(e)
    BY <1>3 DEF Good
  <2> QED BY <2>1, DocumentExcept
<1> HIDE DEF r
<1>5. /\ IsDoc(r) /\ r.mark = e.mark
      /\ r.paras = e.paras /\ r.cp = e.cp /\ r.cw = e.cw /\ r.co = e.co
  BY <1>4, DocumentFields
<1>6. Good(r)
  BY <1>3, <1>5 DEF Good
<1>9. m[3] \in 1 .. Len(w) + 1 /\ m[3] \in Nat \ {0}
  <2> HIDE DEF w
  <2>1. m[3] \in 1 .. Len(w) + 1
    BY <1>2, <1>8, WordRewound
  <2>2. Len(w) \in Nat
    BY <1>8, WordIs
  <2> QED BY <2>1, <2>2
<1>7. PlaceIn(r.paras, r.mark)
  <2>1. WordAt(r.paras, r.mark)
    BY <1>2, <1>3, <1>5, <1>9 DEF WordAt, Good
  <2>2. r.mark[3] \in 1 .. Len(r.paras[r.mark[1]][r.mark[2]]) + 1
    BY <1>2, <1>3, <1>5, <1>9 DEF CurrentWord, Paragraph
  <2> HIDE DEF r, e, m
  <2> QED BY <1>6, <2>1, <2>2, PlaceIsWord
<1> QED BY <1>1, <1>6, <1>7 DEF Held

LEMMA SelectHeld ==
  ASSUME NEW d, Held(d), Within(d)
  PROVE  Held(SetMark(d)) /\ Held(SelectWord(d)) /\ Held(ToggleMark(d))
<1>1. ASSUME NEW e, Held(e), Within(e) PROVE Held(SetMark(e))
  BY <1>1, MarkHereHeld DEF SetMark, Held
<1>2. ASSUME NEW e, NEW r, Held(e), Moved(e, r) PROVE Held(r)
  BY <1>2 DEF Held, Moved, KeepsMark, Loose, Marked
<1>3. Held(SelectWord(d))
  <2> DEFINE e == UnsetMark(d)
             f == GotoBeginningOfWord(e)
             g == SetMark(f)
  <2>1. Held(e)
    BY UnsetMarkGood DEF Held, Loose
  <2>2. SelectWord(d) = GotoEndOfWord(g)
    BY Zenon DEF SelectWord
  <2> HIDE DEF e
  <2>3. Held(f) /\ Within(f)
    BY <1>2, <2>1, WordEndsGood DEF Held
  <2> HIDE DEF f
  <2>4. Held(g)
    BY <1>1, <2>3
  <2> HIDE DEF g
  <2>5. Held(GotoEndOfWord(g))
    BY <1>2, <2>4, WordEndsGood DEF Held
  <2> QED BY <2>2, <2>5
<1>4. Held(ToggleMark(d))
  <2>1. CASE Marked(d)
    <3> DEFINE e == WithMark(d, NoMark)
               off == FALSE
               r == [e EXCEPT !.sticky = off]
    <3>1. ToggleMark(d) = r
      BY <2>1, Zenon DEF ToggleMark, WithMark
    <3>2. /\ Good(e) /\ e.mark = NoMark
      BY WithMarkGood DEF Held
    <3> HIDE DEF e, off
    <3>3. r = Document(e.paras, e.cp, e.cw, e.co, e.mark, off)
      <4>1. IsDoc(e)
        BY <3>2 DEF Good
      <4> QED BY <4>1, DocumentExcept
    <3> HIDE DEF r
    <3>4. /\ IsDoc(r) /\ r.mark = e.mark
          /\ r.paras = e.paras /\ r.cp = e.cp /\ r.cw = e.cw /\ r.co = e.co
      BY <3>3, DocumentFields
    <3>5. Good(r)
      BY <3>2, <3>4 DEF Good
    <3> QED BY <3>1, <3>2, <3>4, <3>5 DEF Held, Loose, Marked
  <2>2. CASE ~Marked(d)
    <3>1. ToggleMark(d) = MarkHere(d, TRUE)
      BY <2>2 DEF ToggleMark
    <3> QED BY <3>1, MarkHereHeld DEF Held
  <2> QED BY <2>1, <2>2
<1> QED BY <1>1, <1>3, <1>4

-----------------------------------------------------------------------------
(* Sequences cut in parts.                                                  *)

LEMMA PartsOfConcat ==
  ASSUME NEW S, NEW s \in Seq(S), NEW t \in Seq(S)
  PROVE  /\ s \o t \in Seq(S) /\ Len(s \o t) = Len(s) + Len(t)
         /\ Len(s) \in Nat /\ Len(t) \in Nat
         /\ SubSeq(s \o t, 1, Len(s)) = s
         /\ SubSeq(s \o t, Len(s) + 1, Len(s \o t)) = t
<1> DEFINE u == s \o t
           m == Len(s)
           n == Len(t)
<1>1. /\ u \in Seq(S) /\ Len(u) = m + n /\ m \in Nat /\ n \in Nat
      /\ \A i \in 1 .. m + n : u[i] = IF i <= m THEN s[i] ELSE t[i - m]
  BY ConcatProperties, LenProperties
<1>2. \A i \in 1 .. m + n : u[i] \in S
  BY <1>1, ElementOfSeq
<1> HIDE DEF u
<1> DEFINE p == SubSeq(u, 1, m)
           q == SubSeq(u, m + 1, m + n)
<1>3. p = s
  <2>1. p \in Seq(S) /\ Len(p) = m /\ \A i \in 1 .. m : p[i] = u[1 + i - 1]
    <3>1. 1 \in Int /\ m \in Int /\ \A i \in 1 .. m : u[i] \in S
      BY <1>1, <1>2
    <3>2. /\ p \in Seq(S) /\ Len(p) = (IF 1 <= m THEN m - 1 + 1 ELSE 0)
          /\ \A i \in 1 .. m - 1 + 1 : p[i] = u[1 + i - 1]
      BY <3>1, SubSeqProperties
    <3> HIDE DEF p, m
    <3> QED BY <1>1, <3>2
  <2> HIDE DEF p
  <2>2. \A i \in 1 .. m : p[i] = s[i]
    <3> HIDE DEF m, n
    <3> QED BY <1>1, <2>1
  <2> QED BY <2>1, <2>2, SeqEqual
<1>4. q = t
  <2>1. q \in Seq(S) /\ Len(q) = n /\ \A i \in 1 .. n : q[i] = u[m + 1 + i - 1]
    <3> DEFINE a == m + 1
               b == m + n
    <3>1. m \in Nat /\ n \in Nat
      BY <1>1
    <3> HIDE DEF m, n
    <3>2. a \in Int /\ b \in Int /\ b - a + 1 = n /\ (a <= b <=> n >= 1)
      BY <3>1
    <3>3. \A i \in a .. b : u[i] \in S
      BY <1>2, <3>1
    <3>4. q = SubSeq(u, a, b)
      OBVIOUS
    <3> HIDE DEF a, b, q
    <3>5. /\ q \in Seq(S) /\ Len(q) = (IF a <= b THEN b - a + 1 ELSE 0)
          /\ \A i \in 1 .. b - a + 1 : q[i] = u[a + i - 1]
      BY <3>2, <3>3, <3>4, SubSeqProperties
    <3> QED BY <3>1, <3>2, <3>5 DEF a
  <2> HIDE DEF q
  <2>2. \A i \in 1 .. n : q[i] = t[i]
    <3> HIDE DEF m, n
    <3>1. \A i \in 1 .. n : /\ m + i \in 1 .. m + n /\ m + 1 + i - 1 = m + i
                            /\ ~(m + i <= m) /\ m + i - m = i
      BY <1>1
    <3> QED BY <1>1, <2>1, <3>1
  <2> QED BY <2>1, <2>2, SeqEqual
<1> QED BY <1>1, <1>3, <1>4 DEF u

LEMMA Associative ==
  ASSUME NEW T, NEW p \in Seq(T), NEW q \in Seq(T), NEW r \in Seq(T)
  PROVE  (p \o q) \o r = p \o (q \o r)
BY ConcatAssociative

(* Three sequences are put together from either side. *)
Groups(p, q, r) == (p \o q) \o r = p \o (q \o r)

LEMMA GroupsOf ==
  ASSUME NEW T, NEW p \in Seq(T), NEW q \in Seq(T), NEW r \in Seq(T)
  PROVE  Groups(p, q, r)
BY Associative DEF Groups

LEMMA OneElement ==
  ASSUME NEW S, NEW x \in S
  PROVE  <<x>> \in Seq(S) /\ Len(<<x>>) = 1 /\ <<x>>[1] = x /\ <<x>> # <<>>
OBVIOUS

(* One element between two parts, or two.                                   *)
LEMMA Between ==
  ASSUME NEW S, NEW s \in Seq(S), NEW t \in Seq(S), NEW x \in S
  PROVE  LET u == s \o <<x>> \o t
         IN  /\ u \in Seq(S) /\ Len(u) = Len(s) + 1 + Len(t)
             /\ Len(s) \in Nat /\ Len(t) \in Nat
             /\ u[Len(s) + 1] = x
             /\ \A i \in 1 .. Len(s) : u[i] = s[i]
             /\ \A i \in 1 .. Len(t) : u[Len(s) + 1 + i] = t[i]
<1> DEFINE h == <<x>>
           sh == s \o h
           u == sh \o t
           m == Len(s)
<1>1. h \in Seq(S) /\ Len(h) = 1 /\ h[1] = x
  BY OneElement
<1> HIDE DEF h
<1>2. /\ sh \in Seq(S) /\ Len(sh) = m + 1
      /\ \A i \in 1 .. m + 1 : sh[i] = IF i <= m THEN s[i] ELSE h[i - m]
  <2>1. h \in Seq(S)
    BY <1>1
  <2>2. /\ sh \in Seq(S) /\ Len(sh) = m + Len(h)
        /\ \A i \in 1 .. m + Len(h) : sh[i] = IF i <= m THEN s[i] ELSE h[i - m]
    BY <2>1, ConcatProperties
  <2> HIDE DEF sh, m
  <2> QED BY <1>1, <2>2
<1> HIDE DEF sh
<1>3. /\ u \in Seq(S) /\ Len(u) = Len(sh) + Len(t)
      /\ \A i \in 1 .. Len(sh) + Len(t) : u[i] = IF i <= Len(sh) THEN sh[i] ELSE t[i - Len(sh)]
  <2>1. sh \in Seq(S)
    BY <1>2
  <2> HIDE DEF m
  <2> QED BY <2>1, ConcatProperties
<1>4. m \in Nat /\ Len(t) \in Nat
  BY LenProperties
<1> HIDE DEF u, m
<1>5. u[m + 1] = x
  <2> DEFINE j == m + 1
  <2>1. j \in 1 .. m + 1 /\ j \in 1 .. Len(sh) + Len(t) /\ ~(j <= m) /\ j - m = 1 /\ j <= Len(sh)
    BY <1>2, <1>4
  <2> HIDE DEF j
  <2>2. u[j] = sh[j] /\ sh[j] = h[j - m]
    BY <1>2, <1>3, <2>1
  <2> QED BY <1>1, <2>1, <2>2 DEF j
<1>6. \A i \in 1 .. m : u[i] = s[i]
  BY <1>2, <1>3, <1>4
<1>7. \A i \in 1 .. Len(t) : u[m + 1 + i] = t[i]
  <2> SUFFICES ASSUME NEW i \in 1 .. Len(t) PROVE u[m + 1 + i] = t[i]
    OBVIOUS
  <2> DEFINE j == m + 1 + i
  <2>1. j \in 1 .. Len(sh) + Len(t) /\ ~(j <= Len(sh)) /\ j - Len(sh) = i
    BY <1>2, <1>4
  <2> HIDE DEF j
  <2>2. u[j] = t[j - Len(sh)]
    BY <1>3, <2>1
  <2> QED BY <2>1, <2>2 DEF j
<1> QED BY <1>2, <1>3, <1>4, <1>5, <1>6, <1>7 DEF u, sh, h, m

LEMMA CutAt ==
  ASSUME NEW S, NEW s \in Seq(S), NEW i \in 1 .. Len(s)
  PROVE  LET a == SubSeq(s, 1, i - 1)
             b == SubSeq(s, i + 1, Len(s))
         IN  /\ a \in Seq(S) /\ b \in Seq(S) /\ s[i] \in S /\ Len(a) = i - 1
             /\ s = a \o <<s[i]>> \o b
<1> DEFINE n == Len(s)
           a == SubSeq(s, 1, i - 1)
           b == SubSeq(s, i + 1, n)
           c == SubSeq(s, i, n)
<1>1. n \in Nat /\ \A j \in 1 .. n : s[j] \in S
  BY ElementOfSeq, LenProperties
<1>2. a \in Seq(S) /\ Len(a) = i - 1
  <2>1. 1 \in Int /\ i - 1 \in Int /\ \A j \in 1 .. i - 1 : s[j] \in S
    BY <1>1
  <2>2. a \in Seq(S) /\ Len(a) = IF 1 <= i - 1 THEN i - 1 - 1 + 1 ELSE 0
    BY <2>1, SubSeqProperties
  <2> HIDE DEF a
  <2> QED BY <2>2
<1>3. b \in Seq(S)
  <2>1. i + 1 \in Int /\ n \in Int /\ \A j \in i + 1 .. n : s[j] \in S
    BY <1>1
  <2> QED BY <2>1, SubSeqProperties
<1>4. c = <<s[i]>> \o b
  <2>1. i \in 1 .. Len(s) /\ n \in i .. Len(s)
    BY <1>1
  <2> QED BY <2>1, SubSeqRecursiveFirst
<1>5. a \o c = s
  <2>1. 1 \in 1 .. Len(s) + 1 /\ i - 1 \in 1 - 1 .. Len(s) /\ n \in i - 1 .. Len(s) /\ (i - 1) + 1 = i
    BY <1>1
  <2>2. SubSeq(s, 1, i - 1) \o SubSeq(s, (i - 1) + 1, n) = SubSeq(s, 1, n)
    BY <2>1, ConcatAdjacentSubSeq
  <2> QED BY <2>1, <2>2, SubSeqFull
<1> DEFINE h == <<s[i]>>
<1>6. h \in Seq(S)
  BY <1>1, OneElement
<1> HIDE DEF a, b, c, h
<1>7. a \o (h \o b) = (a \o h) \o b
  <2>1. Groups(a, h, b)
    BY <1>2, <1>3, <1>6, GroupsOf
  <2> QED BY <2>1 DEF Groups
<1>8. s = (a \o h) \o b
  BY <1>4, <1>5, <1>7 DEF h
<1> QED BY <1>1, <1>2, <1>3, <1>8 DEF a, b, h, n

-----------------------------------------------------------------------------
(* Sequences joined with a separator.                                       *)

NonEmpty(s) == s # <<>>

JoinedFcn(seqs, sep) ==
  CHOOSE u : u = [i \in DOMAIN seqs |-> IF i = 1 THEN seqs[1] ELSE u[i - 1] \o <<sep>> \o seqs[i]]

(* F joins the sequences one by one. *)
Joins(F, S, seqs, sep) ==
  /\ F \in [1 .. Len(seqs) -> Seq(S)] /\ F[1] = seqs[1]
  /\ \A i \in 2 .. Len(seqs) : F[i] = F[i - 1] \o <<sep>> \o seqs[i]
  /\ Joined(seqs, sep) = F[Len(seqs)] /\ Len(seqs) \in Nat \ {0}

LEMMA JoinedStep ==
  ASSUME NEW S, NEW sep \in S, NEW seqs \in Seq(Seq(S)), NonEmpty(seqs)
  PROVE  Joins(JoinedFcn(seqs, sep), S, seqs, sep)
<1> DEFINE n == Len(seqs)
           G == [p \in (1 + 1 .. n) \X Seq(S) |-> p[2] \o <<sep>> \o seqs[p[1]]]
           f == Words!Solution(1, n, seqs[1], G)
           Eq(u) == u = [i \in DOMAIN seqs |-> IF i = 1 THEN seqs[1] ELSE u[i - 1] \o <<sep>> \o seqs[i]]
           F == JoinedFcn(seqs, sep)
<1>1. /\ n \in Nat /\ n >= 1 /\ 1 \in Nat /\ DOMAIN seqs = 1 .. n
      /\ \A i \in 1 .. n : seqs[i] \in Seq(S)
  BY EmptySeq, ElementOfSeq, LenProperties DEF NonEmpty
<1>2. \A s, t \in Seq(S) : s \o <<sep>> \o t \in Seq(S)
  BY Between
<1>3. G \in [(1 + 1 .. n) \X Seq(S) -> Seq(S)]
  <2>1. \A p \in (1 + 1 .. n) \X Seq(S) : p[2] \in Seq(S) /\ p[1] \in 1 .. n
    OBVIOUS
  <2> HIDE DEF n
  <2>2. \A p \in (1 + 1 .. n) \X Seq(S) : p[2] \o <<sep>> \o seqs[p[1]] \in Seq(S)
    BY <1>1, <1>2, <2>1
  <2> QED BY <2>2
<1>4. seqs[1] \in Seq(S)
  BY <1>1
<1>5. Words!IsRun(f, 1, n, Seq(S), seqs[1], G)
  <2> HIDE DEF G, n, f
  <2> QED BY <1>1, <1>3, <1>4, SameWords, Words!Recursion DEF f
<1> HIDE DEF f, n
<1>6. /\ f \in [1 .. n -> Seq(S)] /\ f[1] = seqs[1]
      /\ \A i \in 1 + 1 .. n : f[i] = G[<<i, f[i - 1]>>]
  <2> HIDE DEF G
  <2> QED BY <1>5 DEF Words!IsRun
<1>7. ASSUME NEW i \in 2 .. n PROVE f[i] = f[i - 1] \o <<sep>> \o seqs[i]
  <2>1. i \in 1 + 1 .. n /\ f[i - 1] \in Seq(S)
    BY <1>1, <1>6
  <2>2. <<i, f[i - 1]>> \in (1 + 1 .. n) \X Seq(S) /\ f[i] = G[<<i, f[i - 1]>>]
    <3> HIDE DEF G
    <3> QED BY <1>6, <2>1
  <2> QED BY <2>2
<1>8. Eq(f)
  <2>1. \A i \in 1 .. n : f[i] = IF i = 1 THEN seqs[1] ELSE f[i - 1] \o <<sep>> \o seqs[i]
    <3>1. \A i \in 1 .. n : i # 1 => i \in 2 .. n
      BY <1>1
    <3> QED BY <1>6, <1>7, <3>1
  <2>2. f = [i \in 1 .. n |-> f[i]]
    BY <1>6
  <2>3. f = [i \in 1 .. n |-> IF i = 1 THEN seqs[1] ELSE f[i - 1] \o <<sep>> \o seqs[i]]
    BY <2>1, <2>2
  <2> QED BY <1>1, <2>3
<1>9. Eq(F)
  <2> HIDE DEF Eq
  <2>1. F = CHOOSE v : Eq(v)
    BY Zenon DEF JoinedFcn, Eq
  <2> QED BY <1>8, <2>1
<1>10. Joined(seqs, sep) = F[n]
  BY Zenon DEF Joined, JoinedBy, JoinedFcn, n
<1> HIDE DEF F
<1>11. /\ F[1] = seqs[1]
       /\ \A i \in 2 .. n : F[i] = F[i - 1] \o <<sep>> \o seqs[i]
  <2>1. \A i \in 1 .. n : F[i] = IF i = 1 THEN seqs[1] ELSE F[i - 1] \o <<sep>> \o seqs[i]
    BY <1>1, <1>9, Zenon
  <2>2. 1 \in 1 .. n /\ \A i \in 2 .. n : i \in 1 .. n /\ i # 1
    BY <1>1
  <2> QED BY <2>1, <2>2
<1>12. F \in [1 .. n -> Seq(S)]
  <2> DEFINE V == {k \in 0 .. n - 1 : F[k + 1] \in Seq(S)}
  <2>1. 0 \in V
    BY <1>1, <1>11
  <2>2. ASSUME NEW k \in 0 .. (n - 1) - 1, k \in V PROVE k + 1 \in V
    <3>1. k + 1 + 1 \in 2 .. n /\ (k + 1 + 1) - 1 = k + 1 /\ k + 1 \in 0 .. n - 1 /\ k + 1 + 1 \in 1 .. n
      BY <1>1
    <3>2. F[k + 1 + 1] = F[k + 1] \o <<sep>> \o seqs[k + 1 + 1]
      BY <1>11, <3>1
    <3>3. F[k + 1 + 1] \in Seq(S)
      BY <1>1, <1>2, <2>2, <3>1, <3>2
    <3> QED BY <3>1, <3>3
  <2>3. \A k \in 0 .. n - 1 : k \in V
    <3>1. n - 1 \in Nat
      BY <1>1
    <3> HIDE DEF V
    <3> QED BY <2>1, <2>2, <3>1, SameWords, Words!Induction
  <2>4. \A i \in 1 .. n : F[i] \in Seq(S)
    <3>1. \A i \in 1 .. n : i - 1 \in 0 .. n - 1 /\ (i - 1) + 1 = i
      BY <1>1
    <3> QED BY <2>3, <3>1
  <2>5. F = [i \in 1 .. n |-> F[i]]
    BY <1>1, <1>9
  <2> QED BY <2>4, <2>5
<1>13. n \in Nat \ {0}
  BY <1>1
<1> QED BY <1>10, <1>11, <1>12, <1>13 DEF F, n, Joins

(* The first n sequences are joined in the same way, whatever follows.      *)
LEMMA JoinedOfSame ==
  ASSUME NEW S, NEW sep \in S, NEW s \in Seq(Seq(S)), NEW t \in Seq(Seq(S)), NonEmpty(s), NonEmpty(t),
         NEW n \in 1 .. Len(s), n <= Len(t), \A i \in 1 .. n : s[i] = t[i]
  PROVE  JoinedFcn(s, sep)[n] = JoinedFcn(t, sep)[n]
<1> DEFINE F == JoinedFcn(s, sep)
           G == JoinedFcn(t, sep)
           V == {k \in 0 .. n - 1 : F[k + 1] = G[k + 1]}
<1>0. Joins(F, S, s, sep) /\ Joins(G, S, t, sep)
  BY JoinedStep
<1> HIDE DEF F, G
<1>1. /\ F[1] = s[1] /\ \A i \in 2 .. Len(s) : F[i] = F[i - 1] \o <<sep>> \o s[i]
      /\ Len(s) \in Nat
  BY <1>0 DEF Joins
<1>2. /\ G[1] = t[1] /\ \A i \in 2 .. Len(t) : G[i] = G[i - 1] \o <<sep>> \o t[i]
      /\ Len(t) \in Nat
  BY <1>0 DEF Joins
<1>3. 0 \in V
  <2>1. 1 \in 1 .. n /\ 0 \in 0 .. n - 1 /\ 0 + 1 = 1
    BY <1>1
  <2> QED BY <1>1, <1>2, <2>1
<1>4. ASSUME NEW k \in 0 .. (n - 1) - 1, k \in V PROVE k + 1 \in V
  <2> DEFINE j == k + 1 + 1
  <2>1. /\ j \in 2 .. Len(s) /\ j \in 2 .. Len(t) /\ j \in 1 .. n /\ j - 1 = k + 1
        /\ k + 1 \in 0 .. n - 1 /\ j = k + 1 + 1
    BY <1>1, <1>2
  <2> HIDE DEF j
  <2>2. F[j] = F[k + 1] \o <<sep>> \o s[j] /\ G[j] = G[k + 1] \o <<sep>> \o t[j]
    BY <1>1, <1>2, <2>1
  <2>3. F[j] = G[j]
    BY <1>4, <2>1, <2>2
  <2> QED BY <2>1, <2>3
<1>5. n - 1 \in V
  <2>1. n - 1 \in Nat /\ n - 1 \in 0 .. n - 1
    BY <1>1
  <2> HIDE DEF V
  <2> QED BY <1>3, <1>4, <2>1, SameWords, Words!Induction
<1>6. (n - 1) + 1 = n
  BY <1>1
<1> QED BY <1>5, <1>6 DEF F, G

LEMMA JoinedOne ==
  ASSUME NEW S, NEW sep \in S, NEW x \in Seq(S)
  PROVE  Joined(<<x>>, sep) = x
<1> DEFINE h == <<x>>
<1>1. h \in Seq(Seq(S)) /\ Len(h) = 1 /\ h[1] = x /\ NonEmpty(h)
  BY OneElement DEF NonEmpty
<1> HIDE DEF h
<1>2. Joins(JoinedFcn(h, sep), S, h, sep)
  BY <1>1, JoinedStep
<1>3. Joined(h, sep) = x
  BY <1>1, <1>2 DEF Joins
<1> QED BY <1>3 DEF h

LEMMA JoinedType ==
  ASSUME NEW S, NEW sep \in S, NEW s \in Seq(Seq(S)), NonEmpty(s)
  PROVE  Joined(s, sep) \in Seq(S)
<1> DEFINE F == JoinedFcn(s, sep)
<1>0. Joins(F, S, s, sep)
  BY JoinedStep
<1> HIDE DEF F
<1>1. F \in [1 .. Len(s) -> Seq(S)] /\ Joined(s, sep) = F[Len(s)] /\ Len(s) \in Nat \ {0}
  BY <1>0 DEF Joins
<1>2. Len(s) \in 1 .. Len(s)
  BY <1>1
<1> QED BY <1>1, <1>2

LEMMA JoinedConcat ==
  ASSUME NEW S, NEW sep \in S, NEW s \in Seq(Seq(S)), NEW t \in Seq(Seq(S)), NonEmpty(s), NonEmpty(t)
  PROVE  Joined(s \o t, sep) = Joined(s, sep) \o <<sep>> \o Joined(t, sep)
<1> DEFINE u == s \o t
           m == Len(s)
           n == Len(t)
           F == JoinedFcn(s, sep)
           G == JoinedFcn(t, sep)
           H == JoinedFcn(u, sep)
           h == <<sep>>
           c == Joined(s, sep) \o h
           V == {k \in 0 .. n - 1 : H[m + (k + 1)] = c \o G[k + 1]}
<1>1. /\ m \in Nat /\ m >= 1 /\ n \in Nat /\ n >= 1
      /\ u \in Seq(Seq(S)) /\ NonEmpty(u) /\ Len(u) = m + n
      /\ \A i \in 1 .. m : u[i] = s[i]
      /\ \A i \in 1 .. n : u[m + i] = t[i]
  <2>1. m \in Nat \ {0} /\ n \in Nat \ {0}
    BY EmptySeq DEF NonEmpty
  <2>2. IsSeq(s) /\ IsSeq(t)
    BY Zenon DEF IsSeq
  <2>3. /\ Len(u) = m + n
        /\ \A i \in 1 .. m : u[i] = s[i]
        /\ \A i \in 1 .. n : u[m + i] = t[i]
    BY <2>2, SeqConcat
  <2>4. u \in Seq(Seq(S))
    BY ConcatProperties
  <2> HIDE DEF u, m, n
  <2>5. NonEmpty(u)
    <3>1. Len(<<>>) = 0
      BY EmptySeq
    <3> QED BY <2>1, <2>3, <3>1 DEF NonEmpty
  <2> QED BY <2>1, <2>3, <2>4, <2>5
<1>2. h \in Seq(S)
  BY OneElement
<1> HIDE DEF u
<1>0. Joins(F, S, s, sep) /\ Joins(G, S, t, sep) /\ Joins(H, S, u, sep)
  BY <1>1, JoinedStep
<1>6. H[m] = F[m]
  <2>1. m \in 1 .. Len(u) /\ m <= Len(s) /\ \A i \in 1 .. m : u[i] = s[i]
    BY <1>1
  <2>2. JoinedFcn(u, sep)[m] = JoinedFcn(s, sep)[m]
    <3>1. m \in 1 .. Len(u) /\ m <= Len(s) /\ u \in Seq(Seq(S)) /\ NonEmpty(u)
      BY <1>1
    <3> HIDE DEF m
    <3> QED BY <2>1, <3>1, JoinedOfSame
  <2> QED BY <2>2
<1> HIDE DEF F, G, H
<1>3. Joined(s, sep) = F[m] /\ Joined(s, sep) \in Seq(S)
  BY <1>0, JoinedType DEF Joins
<1>4. /\ G \in [1 .. n -> Seq(S)] /\ G[1] = t[1] /\ Joined(t, sep) = G[n]
      /\ \A i \in 2 .. n : G[i] = G[i - 1] \o h \o t[i]
  BY <1>0 DEF Joins
<1>5. /\ Joined(u, sep) = H[m + n]
      /\ \A i \in 2 .. m + n : H[i] = H[i - 1] \o h \o u[i]
  BY <1>0, <1>1 DEF Joins
<1>7. c \in Seq(S)
  BY <1>2, <1>3, ConcatProperties
<1> HIDE DEF h, m, n
<1>8. 0 \in V
  <2>1. /\ m + 1 \in 2 .. m + n /\ (m + 1) - 1 = m /\ 1 \in 1 .. n
        /\ 0 \in 0 .. n - 1 /\ m + (0 + 1) = m + 1 /\ 0 + 1 = 1
    BY <1>1
  <2>2. H[m + 1] = H[m] \o h \o u[m + 1]
    BY <1>5, <2>1
  <2>3. u[m + 1] = t[1]
    BY <1>1, <2>1
  <2>4. H[m + 1] = c \o G[1]
    BY <1>3, <1>4, <1>6, <2>2, <2>3
  <2> HIDE DEF c
  <2> QED BY <2>1, <2>4
<1> HIDE DEF c
<1>9. ASSUME NEW k \in 0 .. (n - 1) - 1, k \in V PROVE k + 1 \in V
  <2> DEFINE j == k + 1 + 1
             l == m + j
             g == G[k + 1]
             x == t[j]
  <2>1. /\ j \in 2 .. n /\ j \in 1 .. n /\ j - 1 = k + 1 /\ k + 1 \in 1 .. n
        /\ k + 1 \in 0 .. n - 1 /\ j = k + 1 + 1
        /\ l \in 2 .. m + n /\ l - 1 = m + (k + 1) /\ l = m + j
    BY <1>1
  <2> HIDE DEF j, l
  <2>2. H[l] = H[m + (k + 1)] \o h \o u[l] /\ u[l] = x
    BY <1>1, <1>5, <2>1
  <2>3. H[m + (k + 1)] = c \o g
    BY <1>9
  <2>4. G[j] = g \o h \o x /\ g \in Seq(S) /\ x \in Seq(S)
    <3>1. x \in Seq(S)
      BY <2>1, ElementOfSeq DEF n
    <3> QED BY <1>4, <2>1, <3>1
  <2> HIDE DEF g, x
  <2>5. H[l] = ((c \o g) \o h) \o x
    BY <2>2, <2>3
  <2>6. ((c \o g) \o h) \o x = c \o ((g \o h) \o x)
    <3>1. c \in Seq(S) /\ g \in Seq(S) /\ h \in Seq(S) /\ x \in Seq(S)
      BY <1>2, <1>7, <2>4
    <3> HIDE DEF V
    <3>2. g \o h \in Seq(S)
      BY <3>1, ConcatProperties
    <3>3. (c \o g) \o h = c \o (g \o h)
      <4>1. Groups(c, g, h)
        BY <3>1, GroupsOf
      <4> QED BY <4>1 DEF Groups
    <3>4. (c \o (g \o h)) \o x = c \o ((g \o h) \o x)
      <4>1. Groups(c, g \o h, x)
        BY <3>1, <3>2, GroupsOf
      <4> QED BY <4>1 DEF Groups
    <3> QED BY <3>3, <3>4
  <2>8. H[l] = c \o G[j]
    BY <2>4, <2>5, <2>6
  <2>9. H[m + ((k + 1) + 1)] = c \o G[(k + 1) + 1]
    BY <2>1, <2>8
  <2> QED BY <2>1, <2>9
<1>10. n - 1 \in V
  <2>1. n - 1 \in Nat /\ n - 1 \in 0 .. n - 1
    BY <1>1
  <2> HIDE DEF V
  <2> QED BY <1>8, <1>9, <2>1, SameWords, Words!Induction
<1>11. (n - 1) + 1 = n
  BY <1>1
<1>12. H[m + n] = c \o G[n]
  BY <1>10, <1>11
<1> QED BY <1>4, <1>5, <1>12 DEF c, h, u

(* What is joined before a sequence, and behind it.                         *)
Leads(s, sep) == IF s = <<>> THEN <<>> ELSE Joined(s, sep) \o <<sep>>
Trails(s, sep) == IF s = <<>> THEN <<>> ELSE <<sep>> \o Joined(s, sep)

LEMMA EmptyIn == ASSUME NEW S PROVE <<>> \in Seq(S)
OBVIOUS

LEMMA EmptyAround ==
  ASSUME NEW S, NEW s \in Seq(S)
  PROVE  <<>> \o s = s /\ s \o <<>> = s
BY ConcatEmptySeq

LEMMA LeadsType ==
  ASSUME NEW S, NEW sep \in S, NEW s \in Seq(Seq(S))
  PROVE  Leads(s, sep) \in Seq(S) /\ Trails(s, sep) \in Seq(S)
<1>1. <<sep>> \in Seq(S) /\ <<>> \in Seq(S)
  BY OneElement, EmptyIn
<1>2. CASE s = <<>>
  BY <1>1, <1>2 DEF Leads, Trails
<1>3. CASE s # <<>>
  <2> DEFINE j == Joined(s, sep)
             h == <<sep>>
  <2>1. j \in Seq(S)
    BY <1>3, JoinedType DEF NonEmpty
  <2>2. Leads(s, sep) = j \o h /\ Trails(s, sep) = h \o j
    BY <1>3 DEF Leads, Trails
  <2> HIDE DEF j
  <2>3. h \in Seq(S)
    BY <1>1
  <2> HIDE DEF h
  <2> QED BY <2>1, <2>2, <2>3, ConcatProperties
<1> QED BY <1>2, <1>3

LEMMA JoinedTo ==
  ASSUME NEW S, NEW sep \in S, NEW s \in Seq(Seq(S)), NEW x \in Seq(S)
  PROVE  /\ s \o <<x>> \in Seq(Seq(S)) /\ NonEmpty(s \o <<x>>)
         /\ Joined(s \o <<x>>, sep) = Leads(s, sep) \o x
<1> DEFINE h == <<x>>
           u == s \o h
<1>1. h \in Seq(Seq(S)) /\ NonEmpty(h) /\ Len(h) = 1 /\ Joined(h, sep) = x
  BY OneElement, JoinedOne DEF NonEmpty
<1> HIDE DEF h
<1>2. u \in Seq(Seq(S)) /\ Len(u) = Len(s) + 1 /\ Len(s) \in Nat
  <2>1. u \in Seq(Seq(S)) /\ Len(u) = Len(s) + Len(h)
    BY <1>1, ConcatProperties
  <2>2. Len(s) \in Nat
    BY LenProperties
  <2> QED BY <1>1, <2>1, <2>2
<1>3. NonEmpty(u)
  <2>1. Len(u) # 0 /\ Len(<<>>) = 0
    BY <1>2, EmptySeq
  <2> HIDE DEF u
  <2> QED BY <2>1 DEF NonEmpty
<1>4. CASE s = <<>>
  <2>1. u = h
    BY <1>1, <1>4, EmptyAround
  <2>2. Leads(s, sep) \o x = x
    BY <1>4, EmptyAround DEF Leads
  <2> HIDE DEF u
  <2>3. Joined(u, sep) = x
    BY <1>1, <2>1
  <2> QED BY <1>2, <1>3, <2>2, <2>3 DEF u, h
<1>5. CASE s # <<>>
  <2>1. NonEmpty(s) /\ Leads(s, sep) = Joined(s, sep) \o <<sep>>
    BY <1>5 DEF Leads, NonEmpty
  <2>2. Joined(u, sep) = Joined(s, sep) \o <<sep>> \o Joined(h, sep)
    BY <1>1, <2>1, JoinedConcat
  <2> HIDE DEF u
  <2>3. Joined(u, sep) = Leads(s, sep) \o x
    BY <1>1, <2>1, <2>2
  <2> QED BY <1>2, <1>3, <2>3 DEF u, h
<1> QED BY <1>4, <1>5

LEMMA JoinedFurther ==
  ASSUME NEW S, NEW sep \in S, NEW s \in Seq(Seq(S)), NonEmpty(s), NEW t \in Seq(Seq(S))
  PROVE  Joined(s \o t, sep) = Joined(s, sep) \o Trails(t, sep)
<1> DEFINE j == Joined(s, sep)
<1>1. j \in Seq(S)
  BY JoinedType
<1>2. CASE t = <<>>
  <2> HIDE DEF j
  <2>1. j \o <<>> = j
    BY <1>1, EmptyAround
  <2>2. s \o t = s
    BY <1>2, EmptyAround
  <2>3. Trails(t, sep) = <<>>
    BY <1>2 DEF Trails
  <2> QED BY <2>1, <2>2, <2>3 DEF j
<1>3. CASE t # <<>>
  <2> DEFINE h == <<sep>>
             k == Joined(t, sep)
  <2>1. NonEmpty(t)
    BY <1>3 DEF NonEmpty
  <2>2. h \in Seq(S) /\ k \in Seq(S)
    BY <2>1, OneElement, JoinedType
  <2>3. Joined(s \o t, sep) = (j \o h) \o k
    BY <2>1, JoinedConcat
  <2>4. Trails(t, sep) = h \o k
    BY <1>3 DEF Trails
  <2> HIDE DEF j, h, k
  <2>5. (j \o h) \o k = j \o (h \o k)
    <3>1. Groups(j, h, k)
      BY <1>1, <2>2, GroupsOf
    <3> QED BY <3>1 DEF Groups
  <2> QED BY <2>3, <2>4, <2>5 DEF j
<1> QED BY <1>2, <1>3

(* A sequence with an element in it, and three sequences in one.            *)
Around(s, x, t) == (s \o <<x>>) \o t
Three(r, s, t) == (r \o s) \o t

LEMMA JoinedAround ==
  ASSUME NEW S, NEW sep \in S, NEW s \in Seq(Seq(S)), NEW x \in Seq(S), NEW t \in Seq(Seq(S))
  PROVE  Joined(Around(s, x, t), sep) = Three(Leads(s, sep), x, Trails(t, sep))
<1> DEFINE u == s \o <<x>>
<1>1. u \in Seq(Seq(S)) /\ NonEmpty(u) /\ Joined(u, sep) = Leads(s, sep) \o x
  BY JoinedTo
<1> HIDE DEF u
<1>2. Joined(u \o t, sep) = Joined(u, sep) \o Trails(t, sep)
  BY <1>1, JoinedFurther
<1> QED BY <1>1, <1>2 DEF u, Around, Three

LEMMA LeadsOn ==
  ASSUME NEW S, NEW sep \in S, NEW s \in Seq(Seq(S)), NEW x \in Seq(S)
  PROVE  Leads(s \o <<x>>, sep) = (Leads(s, sep) \o x) \o <<sep>>
<1> DEFINE u == s \o <<x>>
<1>1. NonEmpty(u) /\ Joined(u, sep) = Leads(s, sep) \o x
  BY JoinedTo
<1> HIDE DEF u
<1>2. Leads(u, sep) = Joined(u, sep) \o <<sep>>
  BY <1>1 DEF Leads, NonEmpty
<1> QED BY <1>1, <1>2 DEF u

LEMMA TrailsOn ==
  ASSUME NEW S, NEW sep \in S, NEW x \in Seq(S), NEW t \in Seq(Seq(S))
  PROVE  Trails(<<x>> \o t, sep) = <<sep>> \o (x \o Trails(t, sep))
<1> DEFINE h == <<x>>
           u == h \o t
<1>1. h \in Seq(Seq(S)) /\ NonEmpty(h) /\ Len(h) = 1 /\ Joined(h, sep) = x
  BY OneElement, JoinedOne DEF NonEmpty
<1> HIDE DEF h
<1>2. Joined(u, sep) = x \o Trails(t, sep)
  BY <1>1, JoinedFurther
<1>3. Len(u) = 1 + Len(t) /\ Len(t) \in Nat
  <2>1. h \in Seq(Seq(S))
    BY <1>1
  <2>2. Len(h \o t) = Len(h) + Len(t)
    BY <2>1, ConcatProperties
  <2> QED BY <1>1, <2>2, LenProperties
<1>4. u # <<>>
  <2>1. Len(u) # 0 /\ Len(<<>>) = 0
    BY <1>3, EmptySeq
  <2> HIDE DEF u
  <2> QED BY <2>1
<1> HIDE DEF u
<1>5. Trails(u, sep) = <<sep>> \o Joined(u, sep)
  BY <1>4 DEF Trails
<1> QED BY <1>2, <1>5 DEF u, h

(* A function applied to the elements of a sequence.                        *)
Map(f, s) == [i \in DOMAIN s |-> f[s[i]]]

Takes(f, S, T) == f \in [S -> T]

LEMMA MapIs ==
  ASSUME NEW S, NEW T, NEW f, Takes(f, S, T), NEW s \in Seq(S)
  PROVE  /\ Map(f, s) \in Seq(T) /\ Len(Map(f, s)) = Len(s) /\ Len(s) \in Nat
         /\ \A i \in 1 .. Len(s) : Map(f, s)[i] = f[s[i]]
         /\ Map(f, s) = <<>> <=> s = <<>>
<1> DEFINE m == Map(f, s)
           n == Len(s)
<1>1. n \in Nat /\ DOMAIN s = 1 .. n /\ \A i \in 1 .. n : s[i] \in S
  BY ElementOfSeq, LenProperties
<1>2. m = [i \in 1 .. n |-> f[s[i]]]
  BY <1>1 DEF Map
<1>3. \A i \in 1 .. n : f[s[i]] \in T
  BY <1>1 DEF Takes
<1> HIDE DEF m, n
<1>4. m \in [1 .. n -> T] /\ \A i \in 1 .. n : m[i] = f[s[i]]
  BY <1>2, <1>3
<1>5. m \in Seq(T) /\ Len(m) = n
  BY <1>1, <1>4, SeqDef
<1>6. m = <<>> <=> s = <<>>
  <2>1. m = <<>> <=> Len(m) = 0
    BY <1>5, EmptySeq
  <2>2. s = <<>> <=> Len(s) = 0
    BY EmptySeq
  <2> QED BY <1>5, <2>1, <2>2 DEF n
<1> QED BY <1>1, <1>4, <1>5, <1>6 DEF m, n

LEMMA MapConcat ==
  ASSUME NEW S, NEW T, NEW f, Takes(f, S, T), NEW s \in Seq(S), NEW t \in Seq(S)
  PROVE  Map(f, s \o t) = Map(f, s) \o Map(f, t)
<1> DEFINE u == s \o t
           p == Map(f, s)
           q == Map(f, t)
           r == Map(f, u)
           pq == p \o q
<1>1. /\ u \in Seq(S) /\ Len(u) = Len(s) + Len(t)
      /\ \A i \in 1 .. Len(s) + Len(t) : u[i] = IF i <= Len(s) THEN s[i] ELSE t[i - Len(s)]
  BY ConcatProperties
<1>2. /\ p \in Seq(T) /\ Len(p) = Len(s) /\ Len(s) \in Nat
      /\ \A i \in 1 .. Len(s) : p[i] = f[s[i]]
  BY MapIs
<1>3. /\ q \in Seq(T) /\ Len(q) = Len(t) /\ Len(t) \in Nat
      /\ \A i \in 1 .. Len(t) : q[i] = f[t[i]]
  BY MapIs
<1>4. /\ r \in Seq(T) /\ Len(r) = Len(s) + Len(t)
      /\ \A i \in 1 .. Len(s) + Len(t) : r[i] = f[u[i]]
  <2> HIDE DEF u
  <2>1. /\ r \in Seq(T) /\ Len(r) = Len(u)
        /\ \A i \in 1 .. Len(u) : r[i] = f[u[i]]
    BY <1>1, MapIs
  <2> QED BY <1>1, <2>1
<1> HIDE DEF u, p, q, r
<1>5. /\ pq \in Seq(T) /\ Len(pq) = Len(s) + Len(t)
      /\ \A i \in 1 .. Len(s) + Len(t) : pq[i] = IF i <= Len(s) THEN p[i] ELSE q[i - Len(s)]
  <2>1. p \in Seq(T) /\ q \in Seq(T)
    BY <1>2, <1>3
  <2>2. /\ pq \in Seq(T) /\ Len(pq) = Len(p) + Len(q)
        /\ \A i \in 1 .. Len(p) + Len(q) : pq[i] = IF i <= Len(p) THEN p[i] ELSE q[i - Len(p)]
    BY <2>1, ConcatProperties
  <2>3. Len(p) = Len(s) /\ Len(q) = Len(t)
    BY <1>2, <1>3
  <2> HIDE DEF pq
  <2> QED BY <2>2, <2>3
<1> HIDE DEF pq
<1>6. ASSUME NEW i \in 1 .. Len(r) PROVE r[i] = pq[i]
  <2>1. i \in 1 .. Len(s) + Len(t)
    BY <1>4
  <2>2. CASE i <= Len(s)
    <3>1. i \in 1 .. Len(s)
      BY <1>2, <2>1, <2>2
    <3> QED BY <1>1, <1>2, <1>4, <1>5, <2>1, <2>2, <3>1
  <2>3. CASE ~(i <= Len(s))
    <3> DEFINE k == i - Len(s)
    <3>1. k \in 1 .. Len(t)
      BY <1>2, <1>3, <2>1, <2>3
    <3>2. u[i] = t[k] /\ pq[i] = q[k]
      BY <1>1, <1>5, <2>1, <2>3
    <3> HIDE DEF k
    <3> QED BY <1>3, <1>4, <2>1, <3>1, <3>2
  <2> QED BY <2>2, <2>3
<1>7. r = pq
  BY <1>4, <1>5, <1>6, SeqEqual
<1> QED BY <1>7 DEF r, pq, u, p, q

LEMMA MapOne ==
  ASSUME NEW S, NEW T, NEW f, Takes(f, S, T), NEW x \in S
  PROVE  Map(f, <<x>>) = <<f[x]>>
<1> DEFINE h == <<x>>
           y == f[x]
           m == Map(f, h)
<1>1. h \in Seq(S) /\ Len(h) = 1 /\ h[1] = x /\ y \in T
  BY OneElement DEF Takes
<1> HIDE DEF h
<1>2. m \in Seq(T) /\ Len(m) = 1 /\ m[1] = y
  <2>1. m \in Seq(T) /\ Len(m) = Len(h) /\ \A i \in 1 .. Len(h) : m[i] = f[h[i]]
    BY <1>1, MapIs
  <2> QED BY <1>1, <2>1
<1> HIDE DEF m, y
<1>3. <<y>> \in Seq(T) /\ Len(<<y>>) = 1 /\ <<y>>[1] = y
  BY <1>1, OneElement
<1> DEFINE v == <<y>>
<1> HIDE DEF v
<1>4. \A i \in 1 .. Len(m) : m[i] = v[i]
  BY <1>2, <1>3 DEF v
<1>5. m = v
  BY <1>2, <1>3, <1>4, SeqEqual DEF v
<1> QED BY <1>5 DEF m, v, y, h

-----------------------------------------------------------------------------
(* The text of words and of paragraphs.                                     *)

Symbol == Char \cup {SP, NL}
FullParagraph == Seq(Word) \ {<<>>}

(* The text of a paragraph is that of its words, joined.                     *)
LEMMA ParagraphJoined ==
  ASSUME NEW S, NEW p \in Seq(S)
  PROVE  FlatParagraph(p) = Joined([i \in DOMAIN p |-> GetWordText(p[i])], SP)
<1> DEFINE s == [i \in DOMAIN p |-> GetWordText(p[i])]
           Direct(u) == u = [i \in DOMAIN p |-> IF i = 1 THEN GetWordText(p[1])
                                                ELSE u[i - 1] \o <<SP>> \o GetWordText(p[i])]
           Mapped(u) == u = [i \in DOMAIN s |-> IF i = 1 THEN s[1] ELSE u[i - 1] \o <<SP>> \o s[i]]
<1>1. FlatParagraph(p) = (CHOOSE u : Direct(u))[Len(p)]
  BY Zenon DEF FlatParagraph, JoinedBy
<1>2. Joined(s, SP) = (CHOOSE u : Mapped(u))[Len(s)]
  <2> HIDE DEF s
  <2> QED BY Zenon DEF Joined, JoinedBy
<1>3. \A u : Mapped(u) <=> Direct(u)
  OBVIOUS
<1>4. (CHOOSE u : Direct(u)) = (CHOOSE u : Mapped(u))
  <2> HIDE DEF Direct, Mapped
  <2> QED BY <1>3
<1>5. Len(s) = Len(p)
  <2>1. DOMAIN p = 1 .. Len(p) /\ Len(p) \in Nat
    BY LenProperties
  <2>2. s \in [1 .. Len(p) -> {GetWordText(p[i]) : i \in DOMAIN p}]
    BY <2>1
  <2> HIDE DEF s
  <2>3. s \in Seq({GetWordText(p[i]) : i \in DOMAIN p})
    BY <2>1, <2>2
  <2> QED BY <2>1, <2>2, <2>3, LenProperties
<1> HIDE DEF Direct, Mapped, s
<1> QED BY <1>1, <1>2, <1>4, <1>5 DEF s

(* The text of a document is that of its paragraphs, joined.                 *)
LEMMA DocumentJoined ==
  ASSUME NEW S, NEW p \in Seq(S)
  PROVE  Flat(p) = Joined([i \in DOMAIN p |-> FlatParagraph(p[i])], NL)
<1> DEFINE s == [i \in DOMAIN p |-> FlatParagraph(p[i])]
           Direct(u) == u = [i \in DOMAIN p |-> IF i = 1 THEN FlatParagraph(p[1])
                                                ELSE u[i - 1] \o <<NL>> \o FlatParagraph(p[i])]
           Mapped(u) == u = [i \in DOMAIN s |-> IF i = 1 THEN s[1] ELSE u[i - 1] \o <<NL>> \o s[i]]
<1>1. Flat(p) = (CHOOSE u : Direct(u))[Len(p)]
  BY Zenon DEF Flat, JoinedBy
<1>2. Joined(s, NL) = (CHOOSE u : Mapped(u))[Len(s)]
  <2> HIDE DEF s
  <2> QED BY Zenon DEF Joined, JoinedBy
<1>3. \A u : Mapped(u) <=> Direct(u)
  OBVIOUS
<1>4. (CHOOSE u : Direct(u)) = (CHOOSE u : Mapped(u))
  <2> HIDE DEF Direct, Mapped
  <2> QED BY <1>3
<1>5. Len(s) = Len(p)
  <2>1. DOMAIN p = 1 .. Len(p) /\ Len(p) \in Nat
    BY LenProperties
  <2>2. s \in [1 .. Len(p) -> {FlatParagraph(p[i]) : i \in DOMAIN p}]
    BY <2>1
  <2> HIDE DEF s
  <2>3. s \in Seq({FlatParagraph(p[i]) : i \in DOMAIN p})
    BY <2>1, <2>2
  <2> QED BY <2>1, <2>2, <2>3, LenProperties
<1> HIDE DEF Direct, Mapped, s
<1> QED BY <1>1, <1>2, <1>4, <1>5 DEF s

WordText == [w \in Word |-> GetWordText(w)]
ParagraphText == [p \in FullParagraph |-> FlatParagraph(p)]

LEMMA SameText ==
  ASSUME NEW w, NEW o
  PROVE  /\ Words!GetWordText(w) = GetWordText(w)
         /\ Words!TextTo(w, o) = GetWordText(SubSeq(w, 1, o - 1))
         /\ Words!Canonical(w) = Canonical(w)
<1>1. \A u : Words!GetWordText(u) = GetWordText(u)
  BY Zenon DEF Words!GetWordText, GetWordText, Words!IsCode, IsCode
<1>2. Words!TextTo(w, o) = GetWordText(SubSeq(w, 1, o - 1))
  BY <1>1 DEF Words!TextTo
<1>3. Words!Canonical(w) = Canonical(w)
  BY Zenon DEF Words!Canonical, Canonical, Words!IsCode, IsCode, Words!StyleAt, StyleAt,
     Words!Plain, Plain
<1> QED BY <1>1, <1>2, <1>3

LEMMA CharSymbols == Seq(Char) \subseteq Seq(Symbol) /\ SP \in Symbol /\ NL \in Symbol
<1>1. Char \subseteq Symbol
  BY DEF Symbol
<1> QED BY <1>1, SeqMonotonic DEF Symbol

LEMMA WordTextIs ==
  /\ Takes(WordText, Word, Seq(Symbol))
  /\ \A w \in Word : WordText[w] = GetWordText(w) /\ GetWordText(w) \in Seq(Symbol)
<1>1. ASSUME NEW w \in Word PROVE GetWordText(w) \in Seq(Symbol)
  <2>1. Words!GetWordText(w) \in Seq(Char)
    BY SameWords, Words!TextType
  <2> QED BY <2>1, SameText, CharSymbols
<1> QED BY <1>1 DEF Takes, WordText

LEMMA WordsMapped ==
  ASSUME NEW A \in Seq(Word), NEW B \in Seq(Word), NEW w \in Word
  PROVE  /\ Map(WordText, A) \in Seq(Seq(Symbol)) /\ Map(WordText, <<w>>) = <<GetWordText(w)>>
         /\ Map(WordText, A \o B) = Map(WordText, A) \o Map(WordText, B)
<1>1. Takes(WordText, Word, Seq(Symbol)) /\ WordText[w] = GetWordText(w)
  BY WordTextIs
<1>2. Map(WordText, A) \in Seq(Seq(Symbol))
  BY <1>1, MapIs
<1>3. Map(WordText, <<w>>) = <<GetWordText(w)>>
  BY <1>1, MapOne
<1>4. Map(WordText, A \o B) = Map(WordText, A) \o Map(WordText, B)
  BY <1>1, MapConcat
<1> QED BY <1>2, <1>3, <1>4

Lead(A) == Leads(Map(WordText, A), SP)
Trail(B) == Trails(Map(WordText, B), SP)

LEMMA LeadIs ==
  ASSUME NEW A \in Seq(Word), NEW w \in Word
  PROVE  /\ Lead(A) \in Seq(Symbol) /\ Trail(A) \in Seq(Symbol)
         /\ Lead(<<>>) = <<>> /\ Trail(<<>>) = <<>>
         /\ Lead(A \o <<w>>) = (Lead(A) \o GetWordText(w)) \o <<SP>>
         /\ Trail(<<w>> \o A) = <<SP>> \o (GetWordText(w) \o Trail(A))
<1> DEFINE a == Map(WordText, A)
           x == GetWordText(w)
           h == <<w>>
<1>1. a \in Seq(Seq(Symbol)) /\ x \in Seq(Symbol) /\ h \in Seq(Word)
  BY WordTextIs, WordsMapped, OneElement
<1>2. Map(WordText, h) = <<x>>
  BY WordsMapped
<1>3. Map(WordText, A \o h) = a \o <<x>> /\ Map(WordText, h \o A) = <<x>> \o a
  <2> HIDE DEF h
  <2> QED BY <1>1, <1>2, WordsMapped
<1>4. Map(WordText, <<>>) = <<>>
  <2>1. <<>> \in Seq(Word)
    BY EmptyIn
  <2> QED BY <2>1, WordTextIs, MapIs
<1> HIDE DEF a, x, h
<1>5. /\ Leads(a, SP) \in Seq(Symbol) /\ Trails(a, SP) \in Seq(Symbol)
      /\ Leads(a \o <<x>>, SP) = (Leads(a, SP) \o x) \o <<SP>>
      /\ Trails(<<x>> \o a, SP) = <<SP>> \o (x \o Trails(a, SP))
  BY <1>1, CharSymbols, LeadsType, LeadsOn, TrailsOn
<1>6. Leads(<<>>, SP) = <<>> /\ Trails(<<>>, SP) = <<>>
  BY DEF Leads, Trails
<1> QED BY <1>3, <1>4, <1>5, <1>6 DEF Lead, Trail, a, x, h

LEMMA FlatParagraphIs ==
  ASSUME NEW A \in Seq(Word), NEW w \in Word, NEW B \in Seq(Word)
  PROVE  /\ FlatParagraph(Around(A, w, B)) = Three(Lead(A), GetWordText(w), Trail(B))
         /\ Around(A, w, B) \in FullParagraph
<1> DEFINE h == <<w>>
           Ah == A \o h
           p == Ah \o B
           a == Map(WordText, A)
           b == Map(WordText, B)
           x == GetWordText(w)
<1>1. /\ h \in Seq(Word) /\ x \in Seq(Symbol)
      /\ a \in Seq(Seq(Symbol)) /\ b \in Seq(Seq(Symbol)) /\ Map(WordText, h) = <<x>>
  BY WordTextIs, WordsMapped, OneElement
<1>2. /\ p \in Seq(Word) /\ Len(p) = Len(A) + 1 + Len(B) /\ Len(A) \in Nat /\ Len(B) \in Nat
  BY Between
<1> HIDE DEF h, x
<1>3. Ah \in Seq(Word) /\ Map(WordText, Ah) = a \o <<x>>
  BY <1>1, WordsMapped, ConcatProperties
<1> HIDE DEF Ah
<1>4. Map(WordText, p) = (a \o <<x>>) \o b
  BY <1>3, WordsMapped
<1> HIDE DEF p, a, b
<1>5. p \in FullParagraph
  <2>1. Len(<<>>) = 0
    BY EmptySeq
  <2>2. p # <<>>
    BY <1>2, <2>1
  <2> QED BY <1>2, <2>2 DEF FullParagraph
<1>6. FlatParagraph(p) = Joined(Map(WordText, p), SP)
  <2>1. DOMAIN p = 1 .. Len(p) /\ \A i \in 1 .. Len(p) : p[i] \in Word
    BY <1>2, LenProperties, ElementOfSeq
  <2>2. \A i \in DOMAIN p : GetWordText(p[i]) = WordText[p[i]]
    BY <2>1, WordTextIs
  <2>3. [i \in DOMAIN p |-> GetWordText(p[i])] = [i \in DOMAIN p |-> WordText[p[i]]]
    BY <2>2
  <2>4. [i \in DOMAIN p |-> GetWordText(p[i])] = Map(WordText, p)
    BY <2>3, Zenon DEF Map
  <2> QED BY <1>2, <2>4, ParagraphJoined
<1>7. Joined(Around(a, x, b), SP) = Three(Leads(a, SP), x, Trails(b, SP))
  <2>1. SP \in Symbol /\ a \in Seq(Seq(Symbol)) /\ b \in Seq(Seq(Symbol)) /\ x \in Seq(Symbol)
    BY <1>1, CharSymbols
  <2> QED BY <2>1, JoinedAround
<1>8. p = Around(A, w, B)
  BY DEF p, Ah, h, Around
<1>9. Joined(Map(WordText, p), SP) = Three(Leads(a, SP), x, Trails(b, SP))
  BY <1>4, <1>7 DEF Around
<1> QED BY <1>5, <1>6, <1>8, <1>9 DEF a, b, x, Lead, Trail

(* Every paragraph with words is one.                                       *)
LEMMA FullParagraphIs ==
  ASSUME NEW p \in FullParagraph
  PROVE  /\ p \in Seq(Word) /\ FlatParagraph(p) \in Seq(Symbol)
         /\ ParagraphText[p] = FlatParagraph(p)
<1>1. p \in Seq(Word) /\ p # <<>>
  BY DEF FullParagraph
<1>2. 1 \in 1 .. Len(p)
  <2>1. Len(p) # 0 /\ Len(p) \in Nat
    BY <1>1, EmptySeq, LenProperties
  <2> QED BY <2>1
<1> DEFINE a == SubSeq(p, 1, 1 - 1)
           b == SubSeq(p, 1 + 1, Len(p))
           w == p[1]
<1>3. a \in Seq(Word) /\ b \in Seq(Word) /\ w \in Word /\ p = Around(a, w, b)
  BY <1>1, <1>2, CutAt DEF Around
<1> HIDE DEF a, b, w
<1>4. FlatParagraph(p) = Three(Lead(a), GetWordText(w), Trail(b))
  BY <1>3, FlatParagraphIs
<1> DEFINE l == Lead(a)
           x == GetWordText(w)
           t == Trail(b)
           lx == l \o x
<1>5. l \in Seq(Symbol) /\ x \in Seq(Symbol) /\ t \in Seq(Symbol)
  BY <1>3, LeadIs, WordTextIs
<1> HIDE DEF l, x, t
<1>6. lx \in Seq(Symbol)
  BY <1>5, ConcatProperties
<1> HIDE DEF lx
<1>7. lx \o t \in Seq(Symbol)
  BY <1>5, <1>6, ConcatProperties
<1>8. FlatParagraph(p) \in Seq(Symbol)
  BY <1>4, <1>7 DEF lx, l, x, t, Three
<1> QED BY <1>1, <1>8 DEF ParagraphText

LEMMA ParagraphTextIs == Takes(ParagraphText, FullParagraph, Seq(Symbol))
BY FullParagraphIs DEF Takes, ParagraphText

LEMMA ParagraphsMapped ==
  ASSUME NEW P \in Seq(FullParagraph), NEW R \in Seq(FullParagraph), NEW p \in FullParagraph
  PROVE  /\ Map(ParagraphText, P) \in Seq(Seq(Symbol))
         /\ Map(ParagraphText, <<p>>) = <<FlatParagraph(p)>>
         /\ Map(ParagraphText, P \o R) = Map(ParagraphText, P) \o Map(ParagraphText, R)
<1>1. Takes(ParagraphText, FullParagraph, Seq(Symbol)) /\ ParagraphText[p] = FlatParagraph(p)
  BY ParagraphTextIs, FullParagraphIs
<1>2. Map(ParagraphText, P) \in Seq(Seq(Symbol))
  BY <1>1, MapIs
<1>3. Map(ParagraphText, <<p>>) = <<FlatParagraph(p)>>
  BY <1>1, MapOne
<1>4. Map(ParagraphText, P \o R) = Map(ParagraphText, P) \o Map(ParagraphText, R)
  BY <1>1, MapConcat
<1> QED BY <1>2, <1>3, <1>4

LeadP(P) == Leads(Map(ParagraphText, P), NL)
TrailP(R) == Trails(Map(ParagraphText, R), NL)

LEMMA LeadPIs ==
  ASSUME NEW P \in Seq(FullParagraph), NEW p \in FullParagraph
  PROVE  /\ LeadP(P) \in Seq(Symbol) /\ TrailP(P) \in Seq(Symbol)
         /\ LeadP(<<>>) = <<>> /\ TrailP(<<>>) = <<>>
         /\ LeadP(P \o <<p>>) = (LeadP(P) \o FlatParagraph(p)) \o <<NL>>
         /\ TrailP(<<p>> \o P) = <<NL>> \o (FlatParagraph(p) \o TrailP(P))
<1> DEFINE a == Map(ParagraphText, P)
           x == FlatParagraph(p)
           h == <<p>>
<1>1. a \in Seq(Seq(Symbol)) /\ x \in Seq(Symbol) /\ h \in Seq(FullParagraph)
  BY FullParagraphIs, ParagraphsMapped, OneElement
<1>2. Map(ParagraphText, h) = <<x>>
  BY ParagraphsMapped
<1>3. Map(ParagraphText, P \o h) = a \o <<x>> /\ Map(ParagraphText, h \o P) = <<x>> \o a
  <2> HIDE DEF h
  <2> QED BY <1>1, <1>2, ParagraphsMapped
<1>4. Map(ParagraphText, <<>>) = <<>>
  <2>1. <<>> \in Seq(FullParagraph)
    BY EmptyIn
  <2> QED BY <2>1, ParagraphTextIs, MapIs
<1> HIDE DEF a, x, h
<1>5. /\ Leads(a, NL) \in Seq(Symbol) /\ Trails(a, NL) \in Seq(Symbol)
      /\ Leads(a \o <<x>>, NL) = (Leads(a, NL) \o x) \o <<NL>>
      /\ Trails(<<x>> \o a, NL) = <<NL>> \o (x \o Trails(a, NL))
  BY <1>1, CharSymbols, LeadsType, LeadsOn, TrailsOn
<1>6. Leads(<<>>, NL) = <<>> /\ Trails(<<>>, NL) = <<>>
  BY DEF Leads, Trails
<1> QED BY <1>3, <1>4, <1>5, <1>6 DEF LeadP, TrailP, a, x, h

LEMMA FlatIs ==
  ASSUME NEW P \in Seq(FullParagraph), NEW p \in FullParagraph, NEW R \in Seq(FullParagraph)
  PROVE  /\ Flat(Around(P, p, R)) = Three(LeadP(P), FlatParagraph(p), TrailP(R))
         /\ Around(P, p, R) \in Seq(FullParagraph)
<1> DEFINE h == <<p>>
           Ph == P \o h
           ps == Ph \o R
           a == Map(ParagraphText, P)
           b == Map(ParagraphText, R)
           x == FlatParagraph(p)
<1>1. /\ h \in Seq(FullParagraph) /\ x \in Seq(Symbol)
      /\ a \in Seq(Seq(Symbol)) /\ b \in Seq(Seq(Symbol)) /\ Map(ParagraphText, h) = <<x>>
  BY FullParagraphIs, ParagraphsMapped, OneElement
<1> HIDE DEF h, x
<1>2. Ph \in Seq(FullParagraph) /\ Map(ParagraphText, Ph) = a \o <<x>>
  BY <1>1, ParagraphsMapped, ConcatProperties
<1> HIDE DEF Ph
<1>3. Map(ParagraphText, ps) = (a \o <<x>>) \o b
  BY <1>2, ParagraphsMapped
<1>4. ps \in Seq(FullParagraph)
  BY <1>2, ConcatProperties
<1> HIDE DEF ps, a, b
<1>5. Flat(ps) = Joined(Map(ParagraphText, ps), NL)
  <2>1. DOMAIN ps = 1 .. Len(ps) /\ \A i \in 1 .. Len(ps) : ps[i] \in FullParagraph
    BY <1>4, LenProperties, ElementOfSeq
  <2>2. \A i \in DOMAIN ps : FlatParagraph(ps[i]) = ParagraphText[ps[i]]
    BY <2>1, FullParagraphIs
  <2>3. [i \in DOMAIN ps |-> FlatParagraph(ps[i])] = [i \in DOMAIN ps |-> ParagraphText[ps[i]]]
    BY <2>2
  <2>4. [i \in DOMAIN ps |-> FlatParagraph(ps[i])] = Map(ParagraphText, ps)
    BY <2>3, Zenon DEF Map
  <2> QED BY <1>4, <2>4, DocumentJoined
<1>6. Joined(Around(a, x, b), NL) = Three(Leads(a, NL), x, Trails(b, NL))
  <2>1. NL \in Symbol /\ a \in Seq(Seq(Symbol)) /\ b \in Seq(Seq(Symbol)) /\ x \in Seq(Symbol)
    BY <1>1, CharSymbols
  <2> QED BY <2>1, JoinedAround
<1>7. ps = Around(P, p, R)
  BY DEF ps, Ph, h, Around
<1>8. Joined(Map(ParagraphText, ps), NL) = Three(Leads(a, NL), x, Trails(b, NL))
  BY <1>3, <1>6 DEF Around
<1> QED BY <1>4, <1>5, <1>7, <1>8 DEF a, b, x, LeadP, TrailP

-----------------------------------------------------------------------------
(* The text of a document on either side of a word, or of a place in it.    *)

LEMMA Regroup ==
  ASSUME NEW S, NEW a \in Seq(S), NEW b \in Seq(S), NEW c \in Seq(S), NEW d \in Seq(S), NEW e \in Seq(S)
  PROVE  /\ Three(a, Three(b, c, d), e) = Three(a \o b, c, d \o e)
         /\ Three(b, c, d) = b \o (c \o d)
<1> DEFINE bc == b \o c
           abc == a \o bc
<1>1. bc \in Seq(S)
  BY ConcatProperties
<1>2. abc = (a \o b) \o c
  <2>1. Groups(a, b, c)
    BY GroupsOf
  <2> QED BY <2>1 DEF Groups
<1>3. bc \o d = b \o (c \o d)
  <2>1. Groups(b, c, d)
    BY GroupsOf
  <2> QED BY <2>1 DEF Groups
<1> HIDE DEF bc
<1>4. abc \in Seq(S)
  BY <1>1, ConcatProperties
<1>5. a \o (bc \o d) = abc \o d
  <2>1. Groups(a, bc, d)
    BY <1>1, GroupsOf
  <2> QED BY <2>1 DEF Groups
<1> HIDE DEF abc
<1>6. (abc \o d) \o e = abc \o (d \o e)
  <2>1. Groups(abc, d, e)
    BY <1>4, GroupsOf
  <2> QED BY <2>1 DEF Groups
<1> QED BY <1>2, <1>3, <1>5, <1>6 DEF Three, bc

Pre(P, A) == LeadP(P) \o Lead(A)
Post(B, R) == Trail(B) \o TrailP(R)

(* The document whose paragraphs are P, one with w between A and B, and R.  *)
ZipOf(P, A, w, B, R) == Around(P, Around(A, w, B), R)

IsZip(P, A, w, B, R) ==
  /\ P \in Seq(FullParagraph) /\ R \in Seq(FullParagraph)
  /\ A \in Seq(Word) /\ B \in Seq(Word) /\ w \in Word

LEMMA PreIs ==
  ASSUME NEW P \in Seq(FullParagraph), NEW A \in Seq(Word), NEW w \in Word
  PROVE  /\ Pre(P, A) \in Seq(Symbol) /\ Post(A, P) \in Seq(Symbol)
         /\ Pre(P, A \o <<w>>) = (Pre(P, A) \o GetWordText(w)) \o <<SP>>
<1> DEFINE p == LeadP(P)
           q == TrailP(P)
           a == Lead(A)
           t == Trail(A)
           x == GetWordText(w)
           ax == a \o x
           h == <<SP>>
<1>1. /\ a \in Seq(Symbol) /\ t \in Seq(Symbol) /\ x \in Seq(Symbol)
      /\ Lead(A \o <<w>>) = ax \o h
  BY LeadIs, WordTextIs
<1>2. p \in Seq(Symbol) /\ q \in Seq(Symbol)
  <2>1. Around(<<>>, w, <<>>) \in FullParagraph
    BY EmptyIn, FlatParagraphIs
  <2> QED BY <2>1, LeadPIs
<1>3. h \in Seq(Symbol)
  BY CharSymbols, OneElement
<1>4. Pre(P, A) = p \o a /\ Post(A, P) = t \o q /\ Pre(P, A \o <<w>>) = p \o (ax \o h)
  BY <1>1 DEF Pre, Post
<1> HIDE DEF p, q, a, t, x, h
<1>5. p \o a \in Seq(Symbol) /\ t \o q \in Seq(Symbol) /\ ax \in Seq(Symbol)
  BY <1>1, <1>2, ConcatProperties
<1>6. (p \o a) \o x = p \o ax
  <2>1. Groups(p, a, x)
    BY <1>1, <1>2, GroupsOf
  <2> QED BY <2>1 DEF Groups
<1> HIDE DEF ax
<1>7. (p \o ax) \o h = p \o (ax \o h)
  <2>1. Groups(p, ax, h)
    BY <1>2, <1>3, <1>5, GroupsOf
  <2> QED BY <2>1 DEF Groups
<1> QED BY <1>4, <1>5, <1>6, <1>7 DEF x, h

LEMMA ZipText ==
  ASSUME NEW P, NEW A, NEW w, NEW B, NEW R, IsZip(P, A, w, B, R)
  PROVE  /\ Flat(ZipOf(P, A, w, B, R)) = Three(Pre(P, A), GetWordText(w), Post(B, R))
         /\ ZipOf(P, A, w, B, R) \in Seq(FullParagraph)
         /\ Pre(P, A) \in Seq(Symbol) /\ Post(B, R) \in Seq(Symbol) /\ GetWordText(w) \in Seq(Symbol)
<1> DEFINE p == Around(A, w, B)
           a == LeadP(P)
           b == Lead(A)
           c == GetWordText(w)
           d == Trail(B)
           e == TrailP(R)
<1>1. /\ P \in Seq(FullParagraph) /\ R \in Seq(FullParagraph)
      /\ A \in Seq(Word) /\ B \in Seq(Word) /\ w \in Word
  BY DEF IsZip
<1>2. p \in FullParagraph /\ FlatParagraph(p) = Three(b, c, d)
  BY <1>1, FlatParagraphIs
<1>3. b \in Seq(Symbol) /\ c \in Seq(Symbol) /\ d \in Seq(Symbol)
  BY <1>1, LeadIs, WordTextIs
<1> HIDE DEF p
<1>4. a \in Seq(Symbol) /\ e \in Seq(Symbol)
  BY <1>1, <1>2, LeadPIs
<1>5. Flat(Around(P, p, R)) = Three(a, FlatParagraph(p), e) /\ Around(P, p, R) \in Seq(FullParagraph)
  BY <1>1, <1>2, FlatIs
<1>6. Pre(P, A) = a \o b /\ Post(B, R) = d \o e
  BY DEF Pre, Post
<1> HIDE DEF a, b, c, d, e
<1>7. Three(a, Three(b, c, d), e) = Three(a \o b, c, d \o e)
  BY <1>3, <1>4, Regroup
<1>8. a \o b \in Seq(Symbol) /\ d \o e \in Seq(Symbol)
  BY <1>3, <1>4, ConcatProperties
<1> QED BY <1>2, <1>3, <1>5, <1>6, <1>7, <1>8 DEF ZipOf, p, c

(* A word between two parts of a sequence, by its number.                   *)
LEMMA AroundParts ==
  ASSUME NEW S, NEW s \in Seq(S), NEW t \in Seq(S), NEW x \in S
  PROVE  /\ SubSeq(Around(s, x, t), 1, Len(s)) = s
         /\ SubSeq(Around(s, x, t), Len(s) + 2, Len(Around(s, x, t))) = t
         /\ SubSeq(Around(s, x, t), Len(s) + 1, Len(Around(s, x, t))) = <<x>> \o t
         /\ Around(s, x, t) = s \o (<<x>> \o t)
<1> DEFINE u == Around(s, x, t)
           h == <<x>>
           sh == s \o h
           ht == h \o t
           m == Len(s)
<1>1. u \in Seq(S) /\ Len(u) = m + 1 + Len(t) /\ m \in Nat /\ Len(t) \in Nat /\ u[m + 1] = x
  BY Between DEF Around
<1>3. h \in Seq(S) /\ Len(h) = 1
  BY OneElement
<1>4. u = sh \o t
  BY DEF Around
<1> HIDE DEF u, h
<1>5. sh \in Seq(S) /\ Len(sh) = m + 1 /\ ht \in Seq(S)
  <2>1. sh \in Seq(S) /\ Len(sh) = Len(s) + Len(h)
    BY <1>3, ConcatProperties
  <2>2. ht \in Seq(S)
    BY <1>3, ConcatProperties
  <2> HIDE DEF sh, ht
  <2> QED BY <1>3, <2>1, <2>2
<1>6. sh \o t = s \o ht
  <2>1. Groups(s, h, t)
    BY <1>3, GroupsOf
  <2> QED BY <2>1 DEF Groups
<1> HIDE DEF sh, ht
<1>7. SubSeq(u, m + 2, Len(u)) = t
  <2>1. SubSeq(sh \o t, Len(sh) + 1, Len(sh \o t)) = t
    BY <1>5, PartsOfConcat
  <2>2. Len(sh) + 1 = m + 2
    BY <1>1, <1>5
  <2> QED BY <1>4, <2>1, <2>2
<1>8. SubSeq(u, 1, m) = s /\ SubSeq(u, m + 1, Len(u)) = ht
  <2>1. SubSeq(s \o ht, 1, Len(s)) = s /\ SubSeq(s \o ht, Len(s) + 1, Len(s \o ht)) = ht
    BY <1>5, PartsOfConcat
  <2> QED BY <1>4, <1>6, <2>1
<1> QED BY <1>4, <1>6, <1>7, <1>8 DEF u, h, ht, m

LEMMA SeqOfElements ==
  ASSUME NEW S, NEW s, IsSeq(s), \A i \in 1 .. Len(s) : s[i] \in S
  PROVE  s \in Seq(S)
<1>1. PICK T : s \in Seq(T)
  BY DEF IsSeq
<1> DEFINE n == Len(s)
<1>2. n \in Nat /\ s = [i \in 1 .. n |-> s[i]]
  BY <1>1, LenProperties
<1> HIDE DEF n
<1>3. s \in [1 .. n -> S]
  BY <1>2 DEF n
<1> QED BY <1>2, <1>3, SeqDef

LEMMA FilledIs ==
  ASSUME NEW ps
  PROVE  Filled(ps) <=> ps \in Seq(FullParagraph)
<1>1. ASSUME Filled(ps) PROVE ps \in Seq(FullParagraph)
  <2>1. IsSeq(ps) /\ \A p \in 1 .. Len(ps) : IsSeq(ps[p]) /\ Worded(ps[p]) /\ ps[p] # <<>>
    BY <1>1 DEF Filled, Paras
  <2>2. ASSUME NEW p \in 1 .. Len(ps) PROVE ps[p] \in FullParagraph
    <3>1. ps[p] \in Seq(Word)
      BY <2>1, SeqOfElements DEF Worded
    <3> QED BY <2>1, <3>1 DEF FullParagraph
  <2> QED BY <2>1, <2>2, SeqOfElements
<1>2. ASSUME ps \in Seq(FullParagraph) PROVE Filled(ps)
  <2>1. IsSeq(ps) /\ \A p \in 1 .. Len(ps) : ps[p] \in FullParagraph
    BY <1>2, ElementOfSeq, LenProperties, Zenon DEF IsSeq
  <2>2. ASSUME NEW q \in FullParagraph PROVE IsSeq(q) /\ Worded(q) /\ q # <<>>
    <3>1. q \in Seq(Word) /\ q # <<>>
      BY DEF FullParagraph
    <3>2. IsSeq(q) /\ \A i \in 1 .. Len(q) : q[i] \in Word
      BY <3>1, ElementOfSeq, LenProperties, Zenon DEF IsSeq
    <3> QED BY <3>1, <3>2 DEF Worded
  <2> QED BY <2>1, <2>2 DEF Filled, Paras
<1> QED BY <1>1, <1>2

(* m is at the word w of the document. *)
At3(m, P, A, w) == m[1] = Len(P) + 1 /\ m[2] = Len(A) + 1 /\ m[3] \in Nat \ {0}

LEMMA Located ==
  ASSUME NEW ps \in Seq(FullParagraph), NEW m, WordAt(ps, m)
  PROVE  LET P == SubSeq(ps, 1, m[1] - 1)
             R == SubSeq(ps, m[1] + 1, Len(ps))
             A == SubSeq(ps[m[1]], 1, m[2] - 1)
             B == SubSeq(ps[m[1]], m[2] + 1, Len(ps[m[1]]))
             w == ps[m[1]][m[2]]
         IN  IsZip(P, A, w, B, R) /\ ps = ZipOf(P, A, w, B, R) /\ At3(m, P, A, w)
<1> DEFINE i == m[1]
           j == m[2]
           p == ps[i]
           P == SubSeq(ps, 1, i - 1)
           R == SubSeq(ps, i + 1, Len(ps))
           A == SubSeq(p, 1, j - 1)
           B == SubSeq(p, j + 1, Len(p))
           w == p[j]
<1>1. i \in 1 .. Len(ps) /\ j \in 1 .. Len(p) /\ m[3] \in Nat \ {0}
  BY DEF WordAt
<1> HIDE DEF i, j
<1>2. /\ P \in Seq(FullParagraph) /\ R \in Seq(FullParagraph) /\ p \in FullParagraph
      /\ Len(P) = i - 1 /\ ps = Around(P, p, R)
  BY <1>1, CutAt DEF Around
<1>3. p \in Seq(Word)
  BY <1>2 DEF FullParagraph
<1> HIDE DEF p, P, R
<1>4. /\ A \in Seq(Word) /\ B \in Seq(Word) /\ w \in Word
      /\ Len(A) = j - 1 /\ p = Around(A, w, B)
  BY <1>1, <1>3, CutAt DEF Around
<1>5. i = Len(P) + 1 /\ j = Len(A) + 1
  <2>1. i \in Int /\ j \in Int
    BY <1>1
  <2> QED BY <1>2, <1>4, <2>1
<1> HIDE DEF A, B, w
<1>6. IsZip(P, A, w, B, R) /\ ps = ZipOf(P, A, w, B, R) /\ At3(m, P, A, w)
  BY <1>1, <1>2, <1>4, <1>5 DEF IsZip, ZipOf, At3, i, j
<1> QED BY <1>6 DEF P, A, w, B, R, p, i, j

LEMMA FullParagraphSeq ==
  ASSUME NEW p \in FullParagraph
  PROVE  p \in Seq(Word) /\ Len(p) \in Nat \ {0}
<1>1. p \in Seq(Word) /\ p # <<>>
  BY DEF FullParagraph
<1> QED BY <1>1, EmptySeq, LenProperties

LEMMA AroundHas ==
  ASSUME NEW S, NEW s \in Seq(S), NEW t \in Seq(S), NEW x \in S
  PROVE  /\ Around(s, x, t) \in Seq(S) /\ Len(Around(s, x, t)) = Len(s) + 1 + Len(t)
         /\ Around(s, x, t)[Len(s) + 1] = x
         /\ Len(s) \in Nat /\ Len(t) \in Nat
BY Between DEF Around

(* The length of a sequence with an element between two parts. *)
Sized(s, x, t) == Len(Around(s, x, t)) = Len(s) + 1 + Len(t) /\ Len(t) \in Nat

LEMMA SizesAre ==
  ASSUME NEW S, NEW s \in Seq(S), NEW t \in Seq(S), NEW x \in S
  PROVE  Sized(s, x, t)
BY AroundHas DEF Sized

LEMMA ExceptAround ==
  ASSUME NEW S, NEW s \in Seq(S), NEW t \in Seq(S), NEW x \in S, NEW y \in S
  PROVE  [Around(s, x, t) EXCEPT ![Len(s) + 1] = y] = Around(s, y, t)
<1> DEFINE u == Around(s, x, t)
           v == Around(s, y, t)
           m == Len(s)
           e == [u EXCEPT ![m + 1] = y]
<1>1. /\ u \in Seq(S) /\ Len(u) = m + 1 + Len(t) /\ m \in Nat /\ Len(t) \in Nat
      /\ \A i \in 1 .. m : u[i] = s[i]
      /\ \A i \in 1 .. Len(t) : u[m + 1 + i] = t[i]
  BY Between DEF Around
<1>2. /\ v \in Seq(S) /\ Len(v) = m + 1 + Len(t) /\ v[m + 1] = y
      /\ \A i \in 1 .. m : v[i] = s[i]
      /\ \A i \in 1 .. Len(t) : v[m + 1 + i] = t[i]
  BY Between DEF Around
<1> HIDE DEF u, v, m
<1>3. m + 1 \in 1 .. Len(u)
  BY <1>1
<1>4. /\ e \in Seq(S) /\ Len(e) = Len(u)
      /\ \A j \in 1 .. Len(u) : e[j] = IF j = m + 1 THEN y ELSE u[j]
  BY <1>1, <1>3, ExceptSeq
<1> HIDE DEF e
<1>5. ASSUME NEW j \in 1 .. Len(e) PROVE e[j] = v[j]
  <2>1. CASE j <= m
    BY <1>1, <1>2, <1>4, <2>1
  <2>2. CASE j = m + 1
    BY <1>2, <1>4, <2>2
  <2>3. CASE j > m + 1
    <3> DEFINE i == j - (m + 1)
    <3>1. i \in 1 .. Len(t) /\ j = m + 1 + i /\ j # m + 1
      BY <1>1, <1>4, <2>3
    <3> HIDE DEF i
    <3> QED BY <1>1, <1>2, <1>4, <3>1
  <2> QED BY <1>1, <2>1, <2>2, <2>3
<1>6. e = v
  BY <1>1, <1>2, <1>4, <1>5, SeqEqual
<1> QED BY <1>6 DEF e, u, v, m

LEMMA ZipIs ==
  ASSUME NEW P, NEW A, NEW w, NEW B, NEW R, IsZip(P, A, w, B, R)
  PROVE  LET ps == ZipOf(P, A, w, B, R)
             p == Around(A, w, B)
         IN  /\ ps \in Seq(FullParagraph) /\ Len(ps) = Len(P) + 1 + Len(R) /\ p \in FullParagraph
             /\ ps[Len(P) + 1] = p /\ p[Len(A) + 1] = w
             /\ Len(p) = Len(A) + 1 + Len(B)
             /\ Len(P) \in Nat /\ Len(R) \in Nat /\ Len(A) \in Nat /\ Len(B) \in Nat
<1> DEFINE p == Around(A, w, B)
           ps == Around(P, p, R)
<1>1. /\ P \in Seq(FullParagraph) /\ R \in Seq(FullParagraph)
      /\ A \in Seq(Word) /\ B \in Seq(Word) /\ w \in Word
  BY DEF IsZip
<1>2. p \in FullParagraph /\ p[Len(A) + 1] = w /\ Len(p) = Len(A) + 1 + Len(B)
      /\ Len(A) \in Nat /\ Len(B) \in Nat
  BY <1>1, FlatParagraphIs, AroundHas
<1> HIDE DEF p
<1>3. /\ ps \in Seq(FullParagraph) /\ Len(ps) = Len(P) + 1 + Len(R) /\ ps[Len(P) + 1] = p
      /\ Len(P) \in Nat /\ Len(R) \in Nat
  BY <1>1, <1>2, AroundHas
<1> QED BY <1>2, <1>3 DEF ZipOf, ps, p

TextTo(w, o) == GetWordText(SubSeq(w, 1, o - 1))
TextFrom(w, o) == Words!TextFrom(w, o)

LEMMA TextSplits ==
  ASSUME NEW w \in Word, NEW o \in 1 .. Len(w) + 1
  PROVE  /\ TextTo(w, o) \in Seq(Symbol) /\ TextFrom(w, o) \in Seq(Symbol)
         /\ GetWordText(w) = TextTo(w, o) \o TextFrom(w, o)
         /\ TextTo(w, 1) = <<>> /\ TextTo(w, Len(w) + 1) = GetWordText(w)
         /\ TextFrom(w, 1) = GetWordText(w)
         /\ SubSeq(w, 1, o - 1) \in Word
<1>1. o \in Words!Offsets(w)
  BY SameOperations
<1>2. /\ Words!TextTo(w, o) \in Seq(Char) /\ Words!TextFrom(w, o) \in Seq(Char)
      /\ Words!GetWordText(w) = Words!TextTo(w, o) \o Words!TextFrom(w, o)
  BY <1>1, SameWords, Words!TextAround
<1>3. /\ Words!TextTo(w, 1) = <<>> /\ Words!TextTo(w, Len(w) + 1) = Words!GetWordText(w)
      /\ Words!TextFrom(w, 1) = Words!GetWordText(w)
  BY SameWords, Words!TextEnds
<1>4. SubSeq(w, 1, o - 1) \in Word
  <2>1. o - 1 \in 0 .. Len(w)
    BY WordIs
  <2>2. SubSeq(w, 1, o - 1) \in Words!Word
    BY <2>1, SameWords, Words!PrefixType
  <2> QED BY <2>2, SameWords
<1>5. \A n : Words!TextTo(w, n) = TextTo(w, n) /\ Words!GetWordText(w) = GetWordText(w)
  BY SameText DEF TextTo
<1> QED BY <1>2, <1>3, <1>4, <1>5, CharSymbols DEF TextFrom

Ahead(P, A, w, o) == Pre(P, A) \o TextTo(w, o)
Rest(w, o, B, R) == TextFrom(w, o) \o Post(B, R)

LEMMA EmptyPost == Post(<<>>, <<>>) = <<>> /\ <<>> \in Word
<1>1. <<>> \in Word /\ <<>> \in Seq(Word) /\ <<>> \in Seq(FullParagraph)
  BY EmptyIn, EmptyWord
<1> DEFINE p == Around(<<>>, <<>>, <<>>)
<1>2. p \in FullParagraph
  BY <1>1, FlatParagraphIs
<1> HIDE DEF p
<1>3. Trail(<<>>) = <<>> /\ TrailP(<<>>) = <<>>
  BY <1>1, <1>2, LeadIs, LeadPIs
<1>4. <<>> \o <<>> = <<>>
  BY <1>1, EmptyAround
<1> QED BY <1>1, <1>3, <1>4 DEF Post

LEMMA ZipToPlace ==
  ASSUME NEW P \in Seq(FullParagraph), NEW A \in Seq(Word), NEW u \in Word
  PROVE  Flat(P \o <<A \o <<u>>>>) = Pre(P, A) \o GetWordText(u)
<1> DEFINE h == <<u>>
           ah == A \o h
           g == <<ah>>
           pg == P \o g
           n == <<>>
<1>1. IsZip(P, A, u, n, n)
  BY EmptyIn DEF IsZip
<1>2. h \in Seq(Word)
  BY OneElement
<1> HIDE DEF h
<1>3. ah \in Seq(Word)
  BY <1>2, ConcatProperties
<1> HIDE DEF ah
<1>4. Around(A, u, n) = ah
  <2>1. ah \o <<>> = ah
    BY <1>3, EmptyAround
  <2> QED BY <2>1 DEF Around, ah, h
<1>5. ah \in FullParagraph
  <2>1. Around(A, u, n) \in FullParagraph
    BY EmptyIn, FlatParagraphIs
  <2> QED BY <1>4, <2>1
<1>6. pg \in Seq(FullParagraph)
  <2>1. g \in Seq(FullParagraph)
    BY <1>5, OneElement
  <2> HIDE DEF g
  <2> QED BY <2>1, ConcatProperties
<1> HIDE DEF g
<1>7. ZipOf(P, A, u, n, n) = pg
  <2> HIDE DEF pg
  <2>1. pg \o <<>> = pg
    BY <1>6, EmptyAround
  <2> QED BY <1>4, <2>1 DEF ZipOf, Around, pg, g
<1> HIDE DEF pg
<1>8. /\ Flat(pg) = Three(Pre(P, A), GetWordText(u), Post(n, n))
      /\ Pre(P, A) \in Seq(Symbol) /\ GetWordText(u) \in Seq(Symbol)
  <2> HIDE DEF n
  <2> QED BY <1>1, <1>7, ZipText
<1> DEFINE a == Pre(P, A)
           x == GetWordText(u)
           ax == a \o x
<1>9. ax \in Seq(Symbol)
  <2> HIDE DEF a, x
  <2> QED BY <1>8, ConcatProperties DEF a, x
<1>10. ax \o <<>> = ax
  <2> HIDE DEF ax
  <2> QED BY <1>9, EmptyAround
<1>11. Flat(pg) = ax
  BY <1>8, <1>10, EmptyPost DEF Three
<1> QED BY <1>11 DEF pg, g, ah, h

LEMMA ZipPlace ==
  ASSUME NEW P, NEW A, NEW w, NEW B, NEW R, IsZip(P, A, w, B, R),
         NEW m, At3(m, P, A, w), m[3] \in 1 .. Len(w) + 1
  PROVE  /\ FlatPlace(ZipOf(P, A, w, B, R), m) = Len(Ahead(P, A, w, m[3]))
         /\ Flat(ZipOf(P, A, w, B, R)) = Ahead(P, A, w, m[3]) \o Rest(w, m[3], B, R)
         /\ Ahead(P, A, w, m[3]) \in Seq(Symbol) /\ Rest(w, m[3], B, R) \in Seq(Symbol)
<1> DEFINE p == Around(A, w, B)
           ps == ZipOf(P, A, w, B, R)
           o == m[3]
           u == SubSeq(w, 1, o - 1)
<1>1. /\ P \in Seq(FullParagraph) /\ R \in Seq(FullParagraph)
      /\ A \in Seq(Word) /\ B \in Seq(Word) /\ w \in Word
  BY DEF IsZip
<1>2. m[1] = Len(P) + 1 /\ m[2] = Len(A) + 1 /\ o \in 1 .. Len(w) + 1 /\ Len(w) \in Nat
  BY <1>1, WordIs DEF At3
<1>3. /\ ps[m[1]] = p /\ p[m[2]] = w /\ Len(P) \in Nat /\ Len(A) \in Nat
      /\ p \in FullParagraph /\ Len(p) = Len(A) + 1 + Len(B) /\ Len(B) \in Nat
  BY <1>2, ZipIs
<1>4. SubSeq(ps, 1, m[1] - 1) = P
  <2>1. m[1] - 1 = Len(P)
    BY <1>2, <1>3
  <2>2. SubSeq(Around(P, p, R), 1, Len(P)) = P
    <3>1. P \in Seq(FullParagraph) /\ p \in FullParagraph /\ R \in Seq(FullParagraph)
      BY <1>1, <1>3
    <3> HIDE DEF p
    <3> QED BY <3>1, AroundParts
  <2> QED BY <2>1, <2>2 DEF ZipOf, ps, p
<1>5. Sub(p, 1, m[2] - 1) = A
  <2> DEFINE n == m[2] - 1
  <2>1. n = Len(A) /\ n < Len(p) - 1 + 1 /\ 1 + n - 1 = n
    BY <1>2, <1>3
  <2>2. SubSeq(p, 1, Len(A)) = A
    BY <1>1, AroundParts
  <2> HIDE DEF n, p
  <2>3. Sub(p, 1, n) = SubSeq(p, 1, n)
    BY <2>1 DEF Sub
  <2> QED BY <2>1, <2>2, <2>3 DEF n
<1>6. Sub(w, 1, o - 1) = u
  <2>1. 1 + (IF o - 1 < Len(w) - 1 + 1 THEN o - 1 ELSE Len(w) - 1 + 1) - 1 = o - 1
    BY <1>2
  <2> QED BY <2>1 DEF Sub
<1>7. u \in Word /\ GetWordText(u) = TextTo(w, o)
  BY <1>1, <1>2, TextSplits DEF TextTo
<1> HIDE DEF p, ps, o, u
<1>8. FlatPlace(ps, m) = Len(Flat(P \o <<A \o <<u>>>>))
  BY <1>3, <1>4, <1>5, <1>6 DEF FlatPlace, o
<1>9. Flat(P \o <<A \o <<u>>>>) = Ahead(P, A, w, o)
  BY <1>1, <1>7, ZipToPlace DEF Ahead
<1> DEFINE a == Pre(P, A)
           x == TextTo(w, o)
           y == TextFrom(w, o)
           b == Post(B, R)
           ax == a \o x
           yb == y \o b
<1>10. /\ Flat(ps) = Three(a, GetWordText(w), b) /\ a \in Seq(Symbol) /\ b \in Seq(Symbol)
  BY ZipText DEF ps
<1>11. GetWordText(w) = x \o y /\ x \in Seq(Symbol) /\ y \in Seq(Symbol)
  BY <1>1, <1>2, TextSplits
<1>12. Ahead(P, A, w, o) = ax /\ Rest(w, o, B, R) = yb
  BY DEF Ahead, Rest
<1> HIDE DEF a, b, x, y
<1>13. ax \in Seq(Symbol) /\ yb \in Seq(Symbol)
  BY <1>10, <1>11, ConcatProperties
<1>14. a \o (x \o y) = ax \o y
  <2>1. Groups(a, x, y)
    BY <1>10, <1>11, GroupsOf
  <2> QED BY <2>1 DEF Groups
<1> HIDE DEF ax
<1>15. (ax \o y) \o b = ax \o yb
  <2>1. Groups(ax, y, b)
    BY <1>10, <1>11, <1>13, GroupsOf
  <2> QED BY <2>1 DEF Groups
<1>16. Flat(ps) = ax \o yb
  BY <1>10, <1>11, <1>14, <1>15 DEF Three
<1> QED BY <1>8, <1>9, <1>12, <1>13, <1>16 DEF ps, o

-----------------------------------------------------------------------------
(* The commands, on documents in parts.                                     *)

(* d has the paragraph p, between P and R, at the cursor.                    *)
HasParagraph(d, P, p, R) ==
  /\ IsDoc(d) /\ P \in Seq(Seq(Word)) /\ p \in Seq(Word) /\ R \in Seq(Seq(Word))
  /\ d.paras = Around(P, p, R) /\ d.cp = Len(P) + 1

(* Of d, r has all but the paragraphs. *)
KeepsPlace(d, r) ==
  /\ IsDoc(r) /\ r.cp = d.cp /\ r.cw = d.cw /\ r.co = d.co /\ KeepsMark(d, r)

LEMMA ParagraphAt ==
  ASSUME NEW d, NEW P, NEW p, NEW R, HasParagraph(d, P, p, R)
  PROVE  /\ Paragraph(d) = p /\ Len(d.paras) = Len(P) + 1 + Len(R)
         /\ Len(P) \in Nat /\ Len(R) \in Nat /\ Len(p) \in Nat
<1> DEFINE W == Seq(Word)
<1>1. p \in W /\ P \in Seq(W) /\ R \in Seq(W)
  BY DEF HasParagraph
<1>2. Len(p) \in Nat
  BY <1>1, LenProperties
<1> HIDE DEF W
<1>3. /\ Len(Around(P, p, R)) = Len(P) + 1 + Len(R) /\ Around(P, p, R)[Len(P) + 1] = p
      /\ Len(P) \in Nat /\ Len(R) \in Nat
  BY <1>1, AroundHas
<1> QED BY <1>2, <1>3 DEF HasParagraph, Paragraph

LEMMA PutWordsAt ==
  ASSUME NEW d, NEW P, NEW p, NEW R, HasParagraph(d, P, p, R),
         NEW A \in Seq(Word), NEW X \in Seq(Word), NEW B \in Seq(Word), p = Three(A, X, B),
         d.cw = Len(A) + 1, NEW gone, gone = Len(X), NEW words \in Seq(Word)
  PROVE  LET r == PutWords(d, gone, words)
         IN  HasParagraph(r, P, Three(A, words, B), R) /\ KeepsPlace(d, r)
<1> DEFINE AX == A \o X
           Aw == A \o words
           q == Three(A, words, B)
           W == Seq(Word)
           ps == [d.paras EXCEPT ![Len(P) + 1] = q]
           r == WithParas(d, ps)
<1>1. AX \in Seq(Word) /\ Aw \in Seq(Word) /\ Len(AX) = Len(A) + Len(X) /\ p = AX \o B
  BY ConcatProperties DEF Three
<1> HIDE DEF AX, Aw
<1>2. q \in W
  <2>1. Aw \o B \in Seq(Word)
    BY <1>1, ConcatProperties
  <2> QED BY <2>1 DEF Three, Aw
<1>3. /\ SubSeq(p, Len(AX) + 1, Len(p)) = B
      /\ Len(p) = Len(AX) + Len(B) /\ Len(A) \in Nat /\ Len(X) \in Nat /\ Len(B) \in Nat
  <2>3. AX \in W
    BY <1>1
  <2> HIDE DEF W, q, ps, r
  <2>1. SubSeq(AX \o B, Len(AX) + 1, Len(AX \o B)) = B /\ Len(AX \o B) = Len(AX) + Len(B)
    BY <2>3, PartsOfConcat DEF W
  <2>2. Len(A) \in Nat /\ Len(X) \in Nat /\ Len(B) \in Nat
    BY LenProperties
  <2> QED BY <1>1, <2>1, <2>2
<1>4. SubSeq(p, 1, Len(A)) = A
  <2> DEFINE XB == X \o B
  <2>1. XB \in Seq(Word) /\ AX \o B = A \o XB
    <3>1. Groups(A, X, B)
      BY GroupsOf
    <3>2. XB \in Seq(Word)
      BY ConcatProperties
    <3> QED BY <3>1, <3>2 DEF AX, Groups
  <2> HIDE DEF XB
  <2>2. SubSeq(A \o XB, 1, Len(A)) = A
    BY <2>1, PartsOfConcat
  <2> QED BY <1>1, <2>1, <2>2
<1>5. Sub(p, 1, d.cw - 1) = A
  <2> DEFINE n == d.cw - 1
  <2>1. n = Len(A) /\ 1 + (IF n < Len(p) - 1 + 1 THEN n ELSE Len(p) - 1 + 1) - 1 = n
    BY <1>1, <1>3
  <2> HIDE DEF n
  <2> QED BY <1>4, <2>1 DEF Sub, n
<1>6. SubFrom(p, d.cw + gone) = B
  <2>1. d.cw + gone = Len(AX) + 1
    BY <1>1, <1>3
  <2> QED BY <1>3, <2>1 DEF SubFrom
<1>7. PutWords(d, gone, words) = r
  <2>1. d.cp = Len(P) + 1 /\ d.paras[d.cp] = p
    BY ParagraphAt DEF HasParagraph, Paragraph
  <2>2. PutWords(d, gone, words)
          = [d EXCEPT !.paras = [d.paras EXCEPT ![d.cp] =
              Sub(d.paras[d.cp], 1, d.cw - 1) \o words \o SubFrom(d.paras[d.cp], d.cw + gone)]]
    BY Zenon DEF PutWords
  <2> HIDE DEF q
  <2>3. Sub(d.paras[d.cp], 1, d.cw - 1) \o words \o SubFrom(d.paras[d.cp], d.cw + gone) = q
    BY <1>5, <1>6, <2>1 DEF q, Three
  <2> QED BY <2>1, <2>2, <2>3 DEF WithParas
<1>8. ps = Around(P, q, R)
  <2>1. p \in W /\ P \in Seq(W) /\ R \in Seq(W) /\ d.paras = Around(P, p, R)
    BY DEF HasParagraph
  <2> HIDE DEF q, W
  <2>2. [Around(P, p, R) EXCEPT ![Len(P) + 1] = q] = Around(P, q, R)
    BY <1>2, <2>1, ExceptAround
  <2> QED BY <2>1, <2>2
<1>9. IsDoc(d) /\ P \in Seq(W) /\ R \in Seq(W) /\ d.cp = Len(P) + 1
  BY DEF HasParagraph
<1> HIDE DEF q, ps
<1>10. KeepsPlace(d, r) /\ r.paras = ps
  BY <1>9, WithParasIs DEF KeepsPlace
<1> HIDE DEF r
<1>11. HasParagraph(r, P, q, R)
  BY <1>2, <1>8, <1>9, <1>10 DEF HasParagraph, KeepsPlace
<1> QED BY <1>7, <1>10, <1>11 DEF q

LEMMA PutParagraphsAt ==
  ASSUME NEW d, IsDoc(d), NEW S, NEW X \in Seq(S), NEW Y \in Seq(S), NEW Z \in Seq(S),
         d.paras = Three(X, Y, Z), d.cp = Len(X) + 1, NEW gone, gone = Len(Y),
         NEW new \in Seq(S)
  PROVE  LET r == PutParagraphs(d, gone, new)
         IN  r.paras = Three(X, new, Z) /\ KeepsPlace(d, r)
<1> DEFINE XY == X \o Y
           YZ == Y \o Z
           ps == SubSeq(d.paras, 1, d.cp - 1) \o new \o SubSeq(d.paras, d.cp + gone, Len(d.paras))
           r == WithParas(d, ps)
<1>1. XY \in Seq(S) /\ YZ \in Seq(S) /\ Len(XY) = Len(X) + Len(Y) /\ XY \o Z = X \o YZ
  <2>1. Groups(X, Y, Z)
    BY GroupsOf
  <2>2. XY \in Seq(S) /\ YZ \in Seq(S) /\ Len(XY) = Len(X) + Len(Y)
    BY ConcatProperties
  <2> QED BY <2>1, <2>2 DEF Groups
<1>2. d.paras = XY \o Z
  BY DEF Three
<1> HIDE DEF XY, YZ
<1>3. /\ SubSeq(d.paras, Len(XY) + 1, Len(d.paras)) = Z /\ Len(X) \in Nat /\ Len(Y) \in Nat
  <2>3. XY \in Seq(S)
    BY <1>1
  <2>1. SubSeq(XY \o Z, Len(XY) + 1, Len(XY \o Z)) = Z
    BY <2>3, PartsOfConcat
  <2>2. Len(X) \in Nat /\ Len(Y) \in Nat
    BY LenProperties
  <2> QED BY <1>2, <2>1, <2>2
<1>4. SubSeq(d.paras, 1, Len(X)) = X
  BY <1>1, <1>2, PartsOfConcat
<1>5. d.cp - 1 = Len(X) /\ d.cp + gone = Len(XY) + 1
  BY <1>1, <1>3
<1>6. ps = Three(X, new, Z)
  BY <1>3, <1>4, <1>5 DEF Three
<1>7. PutParagraphs(d, gone, new) = r
  BY Zenon DEF PutParagraphs, WithParas
<1> HIDE DEF ps
<1>8. KeepsPlace(d, r) /\ r.paras = ps
  BY WithParasIs DEF KeepsPlace
<1> QED BY <1>6, <1>7, <1>8

With(s, x) == s \o <<x>>

LEMMA WithHas ==
  ASSUME NEW S, NEW s \in Seq(S), NEW x \in S
  PROVE  /\ With(s, x) \in Seq(S) /\ Len(With(s, x)) = Len(s) + 1 /\ Len(s) \in Nat
         /\ With(s, x)[Len(s) + 1] = x
<1> DEFINE h == <<x>>
           u == s \o h
<1>1. h \in Seq(S) /\ Len(h) = 1 /\ h[1] = x
  BY OneElement
<1> HIDE DEF h
<1>2. /\ u \in Seq(S) /\ Len(u) = Len(s) + 1 /\ Len(s) \in Nat
      /\ \A i \in 1 .. Len(s) + 1 : u[i] = IF i <= Len(s) THEN s[i] ELSE h[i - Len(s)]
  BY <1>1, ConcatProperties, LenProperties
<1> HIDE DEF u
<1>3. u[Len(s) + 1] = x
  <2> DEFINE n == Len(s)
             k == n + 1
  <2>1. k \in 1 .. n + 1 /\ ~(k <= n) /\ k - n = 1
    BY <1>2
  <2> HIDE DEF k, n
  <2>2. u[k] = h[k - n]
    BY <1>2, <2>1 DEF n
  <2> QED BY <1>1, <2>1, <2>2 DEF k, n
<1> QED BY <1>2, <1>3 DEF With, u, h

LEMMA WithAround ==
  ASSUME NEW S, NEW s \in Seq(S), NEW x \in S, NEW y \in S, NEW t \in Seq(S)
  PROVE  /\ Around(With(s, x), y, t) = Three(s, <<x, y>>, t)
         /\ <<x, y>> \in Seq(S) /\ Len(<<x, y>>) = 2
<1> DEFINE h == <<x>>
           k == <<y>>
<1>1. h \in Seq(S) /\ k \in Seq(S)
  BY OneElement
<1>2. h \o k = <<x, y>>
  <2> DEFINE u == h \o k
             v == <<x, y>>
  <2>1. v \in Seq(S) /\ Len(v) = 2 /\ v[1] = x /\ v[2] = y
    OBVIOUS
  <2>2. Len(h) = 1 /\ h[1] = x /\ Len(k) = 1 /\ k[1] = y
    OBVIOUS
  <2> HIDE DEF h, k, v
  <2>3. /\ u \in Seq(S) /\ Len(u) = Len(h) + Len(k)
        /\ \A i \in 1 .. Len(h) + Len(k) : u[i] = IF i <= Len(h) THEN h[i] ELSE k[i - Len(h)]
    BY <1>1, ConcatProperties
  <2> HIDE DEF u
  <2>4. u[1] = x /\ u[2] = y /\ Len(u) = 2
    BY <2>2, <2>3
  <2>5. \A i \in 1 .. Len(u) : u[i] = v[i]
    BY <2>1, <2>4
  <2>6. u = v
    BY <2>1, <2>3, <2>4, <2>5, SeqEqual
  <2> QED BY <2>6 DEF u, v
<1> HIDE DEF h, k
<1>3. (s \o h) \o k = s \o (h \o k)
  <2>1. Groups(s, h, k)
    BY <1>1, GroupsOf
  <2> QED BY <2>1 DEF Groups
<1>4. Around(With(s, x), y, t) = Three(s, <<x, y>>, t)
  BY <1>2, <1>3 DEF Around, With, Three, h, k
<1> QED BY <1>4

LEMMA AroundIsThree ==
  ASSUME NEW S, NEW s \in Seq(S), NEW x \in S, NEW t \in Seq(S)
  PROVE  Around(s, x, t) = Three(s, <<x>>, t) /\ <<x>> \in Seq(S) /\ Len(<<x>>) = 1
<1>1. <<x>> \in Seq(S) /\ Len(<<x>>) = 1
  BY OneElement
<1> QED BY <1>1 DEF Around, Three

LEMMA FullSeq == Seq(FullParagraph) \subseteq Seq(Seq(Word))
<1>1. FullParagraph \subseteq Seq(Word)
  BY DEF FullParagraph
<1> QED BY <1>1, SeqMonotonic

(* d has the word w at the cursor; before it in its paragraph is A, then B.  *)
HasWord(d, P, A, w, B, R) ==
  HasParagraph(d, P, Around(A, w, B), R) /\ IsZip(P, A, w, B, R) /\ d.cw = Len(A) + 1

LEMMA WordHere ==
  ASSUME NEW d, NEW P, NEW A, NEW w, NEW B, NEW R, HasWord(d, P, A, w, B, R)
  PROVE  /\ d.paras = ZipOf(P, A, w, B, R) /\ IsDoc(d)
         /\ d.cp = Len(P) + 1 /\ d.cw = Len(A) + 1
         /\ Paragraph(d) = Around(A, w, B) /\ CurrentWord(d) = w
         /\ Len(Paragraph(d)) = Len(A) + 1 + Len(B) /\ Len(d.paras) = Len(P) + 1 + Len(R)
         /\ Len(A) \in Nat /\ Len(B) \in Nat /\ Len(P) \in Nat /\ Len(R) \in Nat
         /\ Paragraph(d) \in FullParagraph
<1> DEFINE p == Around(A, w, B)
<1>1. IsZip(P, A, w, B, R) /\ HasParagraph(d, P, p, R) /\ d.cw = Len(A) + 1
  BY DEF HasWord
<1>2. /\ p \in FullParagraph /\ p[Len(A) + 1] = w /\ Len(p) = Len(A) + 1 + Len(B)
      /\ Len(A) \in Nat /\ Len(B) \in Nat /\ Len(P) \in Nat /\ Len(R) \in Nat
  BY <1>1, ZipIs
<1> HIDE DEF p
<1>3. Paragraph(d) = p /\ Len(d.paras) = Len(P) + 1 + Len(R)
  BY <1>1, ParagraphAt
<1>4. IsDoc(d) /\ d.cp = Len(P) + 1 /\ d.paras = Around(P, p, R)
  BY <1>1 DEF HasParagraph
<1>5. CurrentWord(d) = w
  BY <1>1, <1>2, <1>3 DEF CurrentWord
<1> QED BY <1>1, <1>2, <1>3, <1>4, <1>5 DEF ZipOf, p

LEMMA HasWordIf ==
  ASSUME NEW d, NEW P, NEW A, NEW w, NEW B, NEW R, IsZip(P, A, w, B, R), IsDoc(d),
         d.paras = ZipOf(P, A, w, B, R), d.cp = Len(P) + 1, d.cw = Len(A) + 1
  PROVE  HasWord(d, P, A, w, B, R)
<1> DEFINE p == Around(A, w, B)
<1>1. p \in FullParagraph
  BY ZipIs
<1> HIDE DEF p
<1>2. p \in Seq(Word) /\ P \in Seq(Seq(Word)) /\ R \in Seq(Seq(Word))
  BY <1>1, FullSeq DEF FullParagraph, IsZip
<1>3. HasParagraph(d, P, p, R)
  BY <1>2 DEF HasParagraph, ZipOf, p
<1> QED BY <1>3 DEF HasWord, p

-----------------------------------------------------------------------------
(* Splitting, in parts.                                                     *)

LeftOf(w, o) == DeleteFromWord(w, o, Len(w) + 1)
RightOf(w, o) == DeleteFromWord(w, 1, o)

LEMMA HalvesAre ==
  ASSUME NEW w \in Word, NEW o \in Nat \ {0}
  PROVE  LeftOf(w, o) \in Word /\ RightOf(w, o) \in Word
BY WordDeleted, WordIs DEF LeftOf, RightOf

LEMMA SplitWordAt ==
  ASSUME NEW d, NEW P, NEW A, NEW w, NEW B, NEW R, HasWord(d, P, A, w, B, R),
         Marked(d), d.co \in Nat \ {0}, NEW hint
  PROVE  /\ HasWord(SplitCurrentWord(d, hint), P, With(A, LeftOf(w, d.co)), RightOf(w, d.co), B, R)
         /\ SplitCurrentWord(d, hint).co = 1
         /\ KeepsMark(d, SplitCurrentWord(d, hint))
<1> DEFINE left == LeftOf(w, d.co)
           right == RightOf(w, d.co)
           words == <<left, right>>
           e == PutWords(d, 1, words)
           r == At(e, d.cp, d.cw + 1, 1)
           X == <<w>>
           C == With(A, left)
<1>0. /\ P \in Seq(FullParagraph) /\ R \in Seq(FullParagraph)
      /\ A \in Seq(Word) /\ B \in Seq(Word) /\ w \in Word
  BY DEF HasWord, IsZip
<1>1. left \in Word /\ right \in Word
  BY <1>0, HalvesAre
<1>2. SplitCurrentWord(d, hint) = r
  <2>1. <<>> \o right = right
    <3>1. Plain \in Style
      BY EmptyWord
    <3> HIDE DEF right
    <3> QED BY <1>1, <3>1, WordPrimed
  <2>2. CurrentWord(d) = w
    BY WordHere
  <2>3. SplitCurrentWord(d, hint) = At(PutWords(d, 1, <<left, <<>> \o right>>), d.cp, d.cw + 1, 1)
    BY <2>2 DEF SplitCurrentWord, LeftOf, RightOf
  <2> QED BY <2>1, <2>3
<1> HIDE DEF left, right
<1>3. /\ Around(C, right, B) = Three(A, words, B) /\ words \in Seq(Word)
      /\ Around(A, w, B) = Three(A, X, B) /\ X \in Seq(Word) /\ Len(X) = 1
      /\ C \in Seq(Word) /\ Len(C) = Len(A) + 1
  <2>1. Around(C, right, B) = Three(A, words, B) /\ words \in Seq(Word)
    <3>1. left \in Word /\ right \in Word /\ A \in Seq(Word) /\ B \in Seq(Word)
      BY <1>0, <1>1
    <3> QED BY <3>1, WithAround
  <2>2. Around(A, w, B) = Three(A, X, B) /\ X \in Seq(Word) /\ Len(X) = 1
    BY <1>0, AroundIsThree
  <2>3. C \in Seq(Word) /\ Len(C) = Len(A) + 1
    BY <1>0, <1>1, WithHas
  <2> QED BY <2>1, <2>2, <2>3
<1> HIDE DEF words, X, C
<1>4. HasParagraph(e, P, Three(A, words, B), R) /\ KeepsPlace(d, e)
  <2>1. HasParagraph(d, P, Around(A, w, B), R) /\ d.cw = Len(A) + 1
    BY DEF HasWord
  <2> QED BY <1>0, <1>3, <2>1, PutWordsAt
<1> HIDE DEF e
<1>5. IsDoc(e) /\ e.paras = ZipOf(P, C, right, B, R) /\ d.cp = Len(P) + 1 /\ d.cw = Len(A) + 1
  BY <1>3, <1>4, WordHere DEF HasParagraph, ZipOf
<1>6. /\ IsDoc(r) /\ KeepsMark(e, r)
      /\ r.paras = e.paras /\ r.cp = d.cp /\ r.cw = d.cw + 1 /\ r.co = 1
  BY <1>5, AtIs
<1> HIDE DEF r
<1>7. IsZip(P, C, right, B, R)
  BY <1>0, <1>1, <1>3 DEF IsZip
<1>8. HasWord(r, P, C, right, B, R)
  BY <1>3, <1>5, <1>6, <1>7, HasWordIf
<1>9. KeepsMark(d, r)
  BY <1>4, <1>6 DEF KeepsPlace, KeepsMark
<1> QED BY <1>2, <1>6, <1>8, <1>9 DEF C, left, right

LEMMA SplitBeforeAt ==
  ASSUME NEW d, NEW P, NEW p, NEW R, HasParagraph(d, P, p, R),
         NEW A \in Seq(Word), NEW C \in Seq(Word), p = A \o C, d.cw = Len(A) + 1
  PROVE  /\ HasParagraph(SplitBeforeWord(d), With(P, A), C, R)
         /\ SplitBeforeWord(d).cw = 1 /\ SplitBeforeWord(d).co = 1
         /\ KeepsMark(d, SplitBeforeWord(d))
<1> DEFINE W == Seq(Word)
           one == <<p>>
           two == <<A, C>>
           e == PutParagraphs(d, 1, two)
           r == At(e, d.cp + 1, 1, 1)
           n == d.cw - 1
<1>1. /\ IsDoc(d) /\ P \in Seq(W) /\ p \in W /\ R \in Seq(W)
      /\ d.paras = Around(P, p, R) /\ d.cp = Len(P) + 1
  BY DEF HasParagraph
<1>2. /\ SubSeq(p, 1, Len(A)) = A /\ SubSeq(p, Len(A) + 1, Len(p)) = C
      /\ Len(p) = Len(A) + Len(C) /\ Len(A) \in Nat /\ Len(C) \in Nat
  BY PartsOfConcat
<1>3. Sub(p, 1, n) = A
  <2> DEFINE k == Len(p)
             m == Len(A)
  <2>1. k = m + Len(C) /\ m \in Nat /\ Len(C) \in Nat
    BY <1>2
  <2>2. d.cw = m + 1
    OBVIOUS
  <2> HIDE DEF k, m, one, two
  <2>3. n = m /\ 1 + (IF n < k - 1 + 1 THEN n ELSE k - 1 + 1) - 1 = n
    BY <2>1, <2>2
  <2> HIDE DEF n
  <2> QED BY <1>2, <2>3 DEF Sub, k, m
<1>4. SubFrom(p, d.cw) = C
  BY <1>2 DEF SubFrom
<1>5. SplitBeforeWord(d) = r
  <2>1. Paragraph(d) = p
    BY ParagraphAt
  <2>2. SplitBeforeWord(d) = At(PutParagraphs(d, 1, <<Sub(p, 1, n), SubFrom(p, d.cw)>>), d.cp + 1, 1, 1)
    BY <2>1, Zenon DEF SplitBeforeWord
  <2> QED BY <1>3, <1>4, <2>2, Zenon
<1>6. A \in W /\ C \in W
  OBVIOUS
<1> HIDE DEF W
<1>7. Around(P, p, R) = Three(P, one, R) /\ one \in Seq(W) /\ Len(one) = 1
  BY <1>1, AroundIsThree
<1>8. Around(With(P, A), C, R) = Three(P, two, R) /\ two \in Seq(W)
  <2>1. P \in Seq(W) /\ R \in Seq(W)
    BY <1>1
  <2> QED BY <1>6, <2>1, WithAround
<1>9. With(P, A) \in Seq(W) /\ Len(With(P, A)) = Len(P) + 1
  <2>1. P \in Seq(W)
    BY <1>1
  <2> QED BY <1>6, <2>1, WithHas
<1> HIDE DEF one, two
<1>10. e.paras = Three(P, two, R) /\ KeepsPlace(d, e)
  <2>1. P \in Seq(W) /\ R \in Seq(W) /\ one \in Seq(W) /\ two \in Seq(W) /\ IsDoc(d)
    BY <1>1, <1>7, <1>8
  <2>2. d.paras = Three(P, one, R) /\ d.cp = Len(P) + 1 /\ 1 = Len(one)
    BY <1>1, <1>7
  <2> QED BY <2>1, <2>2, PutParagraphsAt
<1> HIDE DEF e
<1>11. /\ IsDoc(r) /\ KeepsMark(e, r)
       /\ r.paras = e.paras /\ r.cp = d.cp + 1 /\ r.cw = 1 /\ r.co = 1
  BY <1>10, AtIs DEF KeepsPlace
<1> HIDE DEF r
<1>12. HasParagraph(r, With(P, A), C, R)
  BY <1>1, <1>6, <1>8, <1>9, <1>10, <1>11 DEF HasParagraph, W
<1>13. KeepsMark(d, r)
  BY <1>10, <1>11 DEF KeepsPlace, KeepsMark
<1> QED BY <1>5, <1>11, <1>12, <1>13

LEMMA AroundNothing ==
  ASSUME NEW S, NEW s \in Seq(S), NEW x \in S, NEW t \in Seq(S)
  PROVE  Around(s, x, t) = s \o Around(<<>>, x, t)
<1> DEFINE h == <<x>>
<1>1. h \in Seq(S)
  BY OneElement
<1> HIDE DEF h
<1>2. (s \o h) \o t = s \o (h \o t)
  <2>1. Groups(s, h, t)
    BY <1>1, GroupsOf
  <2> QED BY <2>1 DEF Groups
<1>3. <<>> \o h = h
  BY <1>1, EmptyAround
<1> QED BY <1>2, <1>3 DEF Around, h

(* What a paragraph split at the offset o of its word w, behind A, ends     *)
(* with, and the word that starts the next paragraph.                       *)
Cut(A, w, o) == IF o = 1 /\ NonEmpty(A) THEN A ELSE With(A, LeftOf(w, o))
Remains(A, w, o) == IF o = 1 /\ NonEmpty(A) THEN w ELSE RightOf(w, o)

LEMMA NonEmptyIs ==
  ASSUME NEW S, NEW s \in Seq(S)
  PROVE  NonEmpty(s) <=> Len(s) + 1 > 1
<1>1. Len(s) \in Nat /\ (s = <<>> <=> Len(s) = 0)
  BY EmptySeq, LenProperties
<1> QED BY <1>1 DEF NonEmpty

LEMMA WithFull ==
  ASSUME NEW A \in Seq(Word), NEW x \in Word
  PROVE  With(A, x) \in FullParagraph
<1> DEFINE u == With(A, x)
<1>1. u \in Seq(Word) /\ Len(u) = Len(A) + 1 /\ Len(A) \in Nat
  BY WithHas
<1> HIDE DEF u
<1>2. u # <<>>
  <2>1. Len(<<>>) = 0
    BY EmptySeq
  <2> QED BY <1>1, <2>1
<1> QED BY <1>1, <1>2 DEF FullParagraph, u

LEMMA CutIs ==
  ASSUME NEW A \in Seq(Word), NEW w \in Word, NEW o \in Nat \ {0}
  PROVE  /\ Cut(A, w, o) \in FullParagraph /\ Remains(A, w, o) \in Word
         /\ o <= Len(w) + 1 => GetWordText(Remains(A, w, o)) = TextFrom(w, o)
<1>1. LeftOf(w, o) \in Word /\ RightOf(w, o) \in Word
  BY HalvesAre
<1>2. CASE o = 1 /\ NonEmpty(A)
  <2>1. A \in FullParagraph
    BY <1>2 DEF FullParagraph, NonEmpty
  <2>2. GetWordText(w) = TextFrom(w, 1)
    <3>1. 1 \in 1 .. Len(w) + 1
      BY WordIs
    <3> QED BY <3>1, TextSplits
  <2> QED BY <1>2, <2>1, <2>2 DEF Cut, Remains
<1>3. CASE ~(o = 1 /\ NonEmpty(A))
  <2>1. With(A, LeftOf(w, o)) \in FullParagraph
    BY <1>1, WithFull
  <2>2. ASSUME o <= Len(w) + 1 PROVE GetWordText(RightOf(w, o)) = TextFrom(w, o)
    <3>1. o \in Words!Offsets(w)
      <4>1. o \in 1 .. Len(w) + 1
        BY <2>2, WordIs
      <4> QED BY <4>1, SameOperations
    <3>2. Words!GetWordText(Words!DeleteFromWord(w, 1, o)) = Words!TextFrom(w, o)
      BY <3>1, SameWords, Words!TextCut
    <3> QED BY <3>2, SameText, SameOperations DEF TextFrom, RightOf
  <2> QED BY <1>1, <1>3, <2>1, <2>2 DEF Cut, Remains
<1> QED BY <1>2, <1>3

LEMMA SplitParagraphBehind ==
  ASSUME NEW d, NEW P, NEW p, NEW R, HasParagraph(d, P, p, R),
         d.cw = Len(p) + 1, d.cw > 1, d.co = 1
  PROVE  /\ HasParagraph(SplitCurrentParagraph(d, Plain), With(P, p), <<>>, R)
         /\ SplitCurrentParagraph(d, Plain).cw = 1 /\ SplitCurrentParagraph(d, Plain).co = 1
         /\ KeepsMark(d, SplitCurrentParagraph(d, Plain))
<1> DEFINE n == <<>>
<1>1. p \in Seq(Word) /\ n \in Seq(Word)
  BY EmptyIn DEF HasParagraph
<1>2. p = p \o n
  BY <1>1, EmptyAround
<1>3. SplitCurrentParagraph(d, Plain) = SplitBeforeWord(d)
  BY DEF SplitCurrentParagraph
<1> HIDE DEF n
<1>4. /\ HasParagraph(SplitBeforeWord(d), With(P, p), n, R)
      /\ SplitBeforeWord(d).cw = 1 /\ SplitBeforeWord(d).co = 1
      /\ KeepsMark(d, SplitBeforeWord(d))
  BY <1>1, <1>2, SplitBeforeAt
<1> QED BY <1>3, <1>4 DEF n

(* A paragraph split before its word w. *)
LEMMA SplitBeforeWordAt ==
  ASSUME NEW d, NEW P, NEW A, NEW w, NEW B, NEW R, HasWord(d, P, A, w, B, R), NonEmpty(A)
  PROVE  /\ HasWord(SplitBeforeWord(d), With(P, A), <<>>, w, B, R)
         /\ SplitBeforeWord(d).co = 1 /\ KeepsMark(d, SplitBeforeWord(d))
<1> DEFINE p == Around(A, w, B)
           n == <<>>
           C == Around(n, w, B)
           r == SplitBeforeWord(d)
           Q == With(P, A)
<1>0. /\ P \in Seq(FullParagraph) /\ R \in Seq(FullParagraph)
      /\ A \in Seq(Word) /\ B \in Seq(Word) /\ w \in Word /\ n \in Seq(Word)
      /\ Len(n) = 0
  BY EmptyIn DEF HasWord, IsZip
<1>1. HasParagraph(d, P, p, R) /\ d.cw = Len(A) + 1
  BY DEF HasWord
<1>2. p = A \o C
  BY <1>0, AroundNothing
<1>3. C \in Seq(Word)
  BY <1>0, AroundHas
<1> HIDE DEF n
<1>4. Q \in Seq(FullParagraph)
  <2>1. A \in FullParagraph
    BY <1>0 DEF FullParagraph, NonEmpty
  <2> QED BY <1>0, <2>1, WithHas
<1> HIDE DEF p, C, r, Q
<1>5. HasParagraph(r, Q, C, R) /\ r.cw = 1 /\ r.co = 1 /\ KeepsMark(d, r)
  BY <1>0, <1>1, <1>2, <1>3, SplitBeforeAt DEF r, Q
<1>6. IsZip(Q, n, w, B, R)
  BY <1>0, <1>4 DEF IsZip
<1>7. r.cw = Len(n) + 1
  BY <1>0, <1>5
<1>8. HasWord(r, Q, n, w, B, R)
  BY <1>5, <1>6, <1>7 DEF HasWord, C
<1> QED BY <1>5, <1>8 DEF n, r, Q

LEMMA SplitParagraphAt ==
  ASSUME NEW d, NEW P, NEW A, NEW w, NEW B, NEW R, HasWord(d, P, A, w, B, R),
         Marked(d), d.co \in Nat \ {0}
  PROVE  /\ HasWord(SplitCurrentParagraph(d, Plain),
                    With(P, Cut(A, w, d.co)), <<>>, Remains(A, w, d.co), B, R)
         /\ SplitCurrentParagraph(d, Plain).co = 1
         /\ KeepsMark(d, SplitCurrentParagraph(d, Plain))
<1>0. A \in Seq(Word) /\ w \in Word /\ d.cw = Len(A) + 1
  BY DEF HasWord, IsZip
<1>1. NonEmpty(A) <=> d.cw > 1
  BY <1>0, NonEmptyIs
<1>2. CASE d.co = 1 /\ NonEmpty(A)
  <2>1. SplitCurrentParagraph(d, Plain) = SplitBeforeWord(d)
    BY <1>1, <1>2 DEF SplitCurrentParagraph
  <2> QED BY <1>2, <2>1, SplitBeforeWordAt DEF Cut, Remains
<1>3. CASE ~(d.co = 1 /\ NonEmpty(A))
  <2> DEFINE e == SplitCurrentWord(d, Plain)
             C == With(A, LeftOf(w, d.co))
             x == RightOf(w, d.co)
  <2>1. SplitCurrentParagraph(d, Plain) = SplitBeforeWord(e)
    BY <1>1, <1>3 DEF SplitCurrentParagraph
  <2>2. HasWord(e, P, C, x, B, R) /\ KeepsMark(d, e)
    BY SplitWordAt
  <2>3. NonEmpty(C)
    <3>1. LeftOf(w, d.co) \in Word
      BY <1>0, HalvesAre
    <3>2. C \in FullParagraph
      BY <1>0, <3>1, WithFull
    <3> QED BY <3>2 DEF FullParagraph, NonEmpty
  <2>4. Cut(A, w, d.co) = C /\ Remains(A, w, d.co) = x
    BY <1>3 DEF Cut, Remains
  <2> HIDE DEF e, C, x
  <2>5. /\ HasWord(SplitBeforeWord(e), With(P, C), <<>>, x, B, R)
        /\ SplitBeforeWord(e).co = 1 /\ KeepsMark(e, SplitBeforeWord(e))
    BY <2>2, <2>3, SplitBeforeWordAt
  <2>6. KeepsMark(d, SplitBeforeWord(e))
    BY <2>2, <2>5 DEF KeepsMark
  <2> QED BY <2>1, <2>4, <2>5, <2>6
<1> QED BY <1>2, <1>3

LEMMA WithIsAround ==
  ASSUME NEW S, NEW s \in Seq(S), NEW x \in S
  PROVE  With(s, x) = Around(s, x, <<>>)
<1>1. With(s, x) \in Seq(S)
  BY WithHas
<1>2. With(s, x) \o <<>> = With(s, x)
  BY <1>1, EmptyAround
<1> QED BY <1>2 DEF With, Around

LEMMA AroundOn ==
  ASSUME NEW S, NEW s \in Seq(S), NEW x \in S, NEW t \in Seq(S), NEW y \in S, NEW u \in Seq(S)
  PROVE  /\ Around(Around(s, x, t), y, u) = Around(s, x, Around(t, y, u))
         /\ With(Around(s, x, t), y) = Around(s, x, With(t, y))
<1> DEFINE h == <<x>>
           k == <<y>>
           sh == s \o h
           tk == t \o k
<1>1. h \in Seq(S) /\ k \in Seq(S)
  BY OneElement
<1> HIDE DEF h, k
<1>2. sh \in Seq(S) /\ tk \in Seq(S)
  BY <1>1, ConcatProperties
<1>3. Around(s, x, t) = sh \o t
  BY DEF Around, h
<1> HIDE DEF sh
<1>4. (sh \o t) \o k = sh \o tk
  <2>1. Groups(sh, t, k)
    BY <1>1, <1>2, GroupsOf
  <2> QED BY <2>1 DEF Groups
<1> HIDE DEF tk
<1>5. (sh \o tk) \o u = sh \o (tk \o u)
  <2>1. Groups(sh, tk, u)
    BY <1>2, GroupsOf
  <2> QED BY <2>1 DEF Groups
<1>6. Around(Around(s, x, t), y, u) = (sh \o tk) \o u
  BY <1>3, <1>4 DEF Around, k
<1>7. Around(s, x, Around(t, y, u)) = sh \o (tk \o u)
  BY DEF Around, sh, h, tk, k
<1>8. With(Around(s, x, t), y) = sh \o tk
  BY <1>3, <1>4 DEF With, k
<1>9. Around(s, x, With(t, y)) = sh \o tk
  BY DEF Around, With, sh, h, tk, k
<1> QED BY <1>5, <1>6, <1>7, <1>8, <1>9

-----------------------------------------------------------------------------
(* Where the selection starts, once the document was split at its end.      *)

(* Q, the paragraphs up to that split, still has the word at which the      *)
(* selection starts, with the same text before the offset; or it ended      *)
(* before this word.                                                        *)
Open(Q, P, A, w, o, M) ==
  \/ \E y \in Word, C \in Seq(Word) :
       Q = Around(P, Around(A, y, C), M) /\ GetWordText(LeftOf(y, o)) = TextTo(w, o)
  \/ NonEmpty(A) /\ o = 1 /\ Q = Around(P, A, M)

IsStart(ps, Q, a, n, P, A, w, B, R, M) ==
  /\ IsZip(P, A, w, B, R) /\ ps = ZipOf(P, A, w, B, R) /\ At3(a, P, A, w)
  /\ a[3] \in 1 .. Len(w) + 1
  /\ M \in Seq(FullParagraph) /\ Len(M) = n
  /\ Open(Q, P, A, w, a[3], M)

StartIn(ps, Q, a, n) ==
  \E P, A, w, B, R, M : IsStart(ps, Q, a, n, P, A, w, B, R, M)

(* What is left of a word without codes that have no effect can be split    *)
(* again at the same offset.                                                *)
LEMMA LeftOfLeft ==
  ASSUME NEW w \in Word, NEW o \in 1 .. Len(w) + 1, NEW a \in 1 .. o
  PROVE  /\ GetWordText(LeftOf(w, o)) = TextTo(w, o)
         /\ Canonical(w) => GetWordText(LeftOf(LeftOf(w, o), a)) = TextTo(w, a)
<1>1. Len(w) \in Nat
  BY WordIs
<1>2. o \in Words!Offsets(w)
  BY SameOperations
<1> DEFINE l == LeftOf(w, o)
<1>3. GetWordText(l) = TextTo(w, o)
  <2>1. Words!GetWordText(Words!DeleteFromWord(w, o, Len(w) + 1)) = Words!TextTo(w, o)
    BY <1>2, SameWords, Words!TextCut
  <2> QED BY <2>1, SameText, SameOperations DEF LeftOf, TextTo
<1>4. ASSUME Canonical(w) PROVE GetWordText(LeftOf(l, a)) = TextTo(w, a)
  <2>1. l \in Word /\ Len(l) \in Nat
    <3>1. o \in Nat \ {0}
      BY <1>1
    <3>2. l \in Word
      BY <3>1, HalvesAre
    <3> HIDE DEF l
    <3> QED BY <3>2, WordIs
  <2>2. Words!Canonical(w)
    BY <1>4, SameText
  <2>3. l = Words!DeleteFromWord(w, o, Len(w) + 1)
    BY SameOperations DEF LeftOf
  <2> HIDE DEF l
  <2>4. Words!TextTo(w, a) = IF a \in Words!Offsets(l) THEN Words!TextTo(l, a) ELSE Words!GetWordText(l)
    BY <1>2, <2>2, <2>3, SameWords, Words!TextKept
  <2>5. TextTo(w, a) = IF a \in 1 .. Len(l) + 1 THEN TextTo(l, a) ELSE GetWordText(l)
    BY <2>4, SameText, SameOperations DEF TextTo
  <2>6. a \in Nat /\ a >= 1
    BY <1>1
  <2>7. CASE a \in 1 .. Len(l) + 1
    <3>1. a \in Words!Offsets(l)
      BY <2>7, SameOperations
    <3>2. Words!GetWordText(Words!DeleteFromWord(l, a, Len(l) + 1)) = Words!TextTo(l, a)
      BY <2>1, <3>1, SameWords, Words!TextCut
    <3> QED BY <2>5, <2>7, <3>2, SameText, SameOperations DEF LeftOf, TextTo
  <2>8. CASE a \notin 1 .. Len(l) + 1
    <3>1. a > Len(l) + 1
      BY <2>1, <2>6, <2>8
    <3>2. Words!GetWordText(Words!DeleteFromWord(l, a, Len(l) + 1)) = Words!GetWordText(l)
      BY <2>1, <2>6, <3>1, SameWords, Words!TextBeyond
    <3> QED BY <2>5, <2>8, <3>2, SameText, SameOperations DEF LeftOf
  <2> QED BY <2>7, <2>8
<1> QED BY <1>3, <1>4 DEF l

LEMMA LeftOfWord ==
  ASSUME NEW w \in Word, NEW o \in 1 .. Len(w) + 1
  PROVE  GetWordText(LeftOf(w, o)) = TextTo(w, o)
<1>1. o \in 1 .. o
  BY WordIs
<1> QED BY <1>1, LeftOfLeft

(* It starts in an earlier paragraph. *)
LEMMA FoundEarlier ==
  ASSUME NEW P, NEW A, NEW w, NEW B, NEW R, IsZip(P, A, w, B, R),
         NEW ps, ps = ZipOf(P, A, w, B, R), NEW L \in FullParagraph,
         NEW a, a[1] \in 1 .. Len(P), a[2] \in 1 .. Len(ps[a[1]]),
         a[3] \in 1 .. Len(ps[a[1]][a[2]]) + 1
  PROVE  StartIn(ps, With(P, L), a, Len(P) + 1 - a[1])
<1> DEFINE i == a[1]
           j == a[2]
           F == FullParagraph
           p == Around(A, w, B)
           q == P[i]
           X == SubSeq(P, 1, i - 1)
           N == SubSeq(P, i + 1, Len(P))
           T == Around(N, p, R)
           M == With(N, L)
           C == SubSeq(q, 1, j - 1)
           D == SubSeq(q, j + 1, Len(q))
           y == q[j]
           n == Len(P) + 1 - i
<1>1. P \in Seq(F) /\ R \in Seq(F) /\ p \in F /\ i \in 1 .. Len(P) /\ Len(P) \in Nat
  BY ZipIs DEF IsZip
<1> HIDE DEF p
<1>2. X \in Seq(F) /\ N \in Seq(F) /\ q \in F /\ Len(X) = i - 1 /\ P = Around(X, q, N)
  <2> HIDE DEF F
  <2> QED BY <1>1, CutAt DEF Around
<1>3. Len(N) = Len(P) - i
  <2>1. Len(Around(X, q, N)) = Len(X) + 1 + Len(N) /\ Len(N) \in Nat /\ Len(X) \in Nat
    <3> HIDE DEF F, X, q, N
    <3>1. X \in Seq(F) /\ q \in F /\ N \in Seq(F)
      BY <1>2
    <3> QED BY <3>1, AroundHas
  <2> DEFINE x == Len(X)
             k == Len(N)
             l == Len(P)
  <2>2. l = x + 1 + k /\ k \in Nat /\ x = i - 1 /\ i \in Nat
    BY <1>1, <1>2, <2>1
  <2> HIDE DEF x, k, l, X, N
  <2> QED BY <2>2 DEF k, l
<1> HIDE DEF X, N
<1>4. q = ps[i]
  <2>1. ps = Around(X, q, T) /\ T \in Seq(F)
    <3>1. Around(Around(X, q, N), p, R) = Around(X, q, Around(N, p, R))
      <4> HIDE DEF F, q
      <4> QED BY <1>1, <1>2, AroundOn
    <3>2. T \in Seq(F)
      <4> HIDE DEF F
      <4> QED BY <1>1, <1>2, AroundHas
    <3>3. ps = Around(P, p, R)
      BY DEF ZipOf, p
    <3> HIDE DEF q
    <3> QED BY <1>2, <3>1, <3>2, <3>3
  <2>2. i = Len(X) + 1
    <3>1. i \in Int
      BY <1>1
    <3> QED BY <1>2, <3>1
  <2> HIDE DEF T, F, q
  <2>3. Around(X, q, T)[Len(X) + 1] = q
    <3>1. X \in Seq(F) /\ q \in F /\ T \in Seq(F)
      BY <1>2, <2>1
    <3> QED BY <3>1, AroundHas
  <2> QED BY <2>1, <2>2, <2>3
<1>5. j \in 1 .. Len(q) /\ q \in Seq(Word) /\ a[3] \in 1 .. Len(y) + 1
  <2>1. q \in Seq(Word)
    BY <1>2 DEF FullParagraph
  <2> QED BY <1>4, <2>1
<1> HIDE DEF q
<1>6. C \in Seq(Word) /\ D \in Seq(Word) /\ y \in Word /\ Len(C) = j - 1 /\ q = Around(C, y, D)
  BY <1>5, CutAt DEF Around
<1> HIDE DEF C, D, y
<1>7. T \in Seq(F) /\ M \in Seq(F) /\ Len(M) = n
  <2>1. T \in Seq(F)
    <3> HIDE DEF F
    <3> QED BY <1>1, <1>2, AroundHas
  <2>2. M \in Seq(F) /\ Len(M) = Len(N) + 1
    <3>1. L \in F
      OBVIOUS
    <3> HIDE DEF F
    <3> QED BY <1>2, <3>1, WithHas
  <2>3. Len(M) = n
    <3> DEFINE l == Len(P)
    <3>1. Len(M) = (l - i) + 1 /\ l \in Nat /\ i \in Int
      BY <1>1, <1>3, <2>2
    <3> HIDE DEF l, M, i
    <3> QED BY <3>1 DEF l
  <2> QED BY <2>1, <2>2, <2>3
<1>8. ps = Around(X, q, T)
  <2>1. Around(Around(X, q, N), p, R) = Around(X, q, Around(N, p, R))
    BY <1>1, <1>2, AroundOn
  <2> QED BY <1>2, <2>1 DEF ZipOf, p
<1>9. With(P, L) = Around(X, q, M)
  <2>1. With(Around(X, q, N), L) = Around(X, q, With(N, L))
    BY <1>2, AroundOn
  <2> QED BY <1>2, <2>1
<1> HIDE DEF T, M, n
<1>10. IsZip(X, C, y, D, T) /\ ps = ZipOf(X, C, y, D, T)
  BY <1>2, <1>6, <1>7, <1>8 DEF IsZip, ZipOf
<1>11. At3(a, X, C, y)
  <2>1. i \in Int /\ j \in Int /\ a[3] \in Nat \ {0}
    <3>1. Len(y) \in Nat
      BY <1>6, WordIs
    <3> QED BY <1>1, <1>5, <3>1
  <2>2. i = Len(X) + 1 /\ j = Len(C) + 1
    <3> DEFINE k == Len(X)
               l == Len(C)
    <3>1. k = i - 1 /\ l = j - 1
      BY <1>2, <1>6
    <3> HIDE DEF i, j, k, l
    <3>2. i = k + 1 /\ j = l + 1
      BY <2>1, <3>1
    <3> QED BY <3>2 DEF k, l
  <2> QED BY <2>1, <2>2 DEF At3
<1>12. Open(With(P, L), X, C, y, a[3], M)
  <2>1. GetWordText(LeftOf(y, a[3])) = TextTo(y, a[3])
    BY <1>5, <1>6, LeftOfWord
  <2> QED BY <1>6, <1>9, <2>1 DEF Open
<1>13. IsStart(ps, With(P, L), a, n, X, C, y, D, T, M)
  BY <1>5, <1>7, <1>10, <1>11, <1>12 DEF IsStart
<1> QED BY <1>13 DEF StartIn, n

(* It starts in the same paragraph, in an earlier word.                     *)
LEMMA FoundInParagraph ==
  ASSUME NEW P, NEW A, NEW w, NEW B, NEW R, IsZip(P, A, w, B, R),
         NEW ps, ps = ZipOf(P, A, w, B, R), NEW o \in 1 .. Len(w) + 1,
         NEW a, a[1] = Len(P) + 1, a[2] \in 1 .. Len(A), a[3] \in 1 .. Len(ps[a[1]][a[2]]) + 1
  PROVE  StartIn(ps, With(P, Cut(A, w, o)), a, 0)
<1> DEFINE j == a[2]
           none == <<>>
           p == Around(A, w, B)
           C == SubSeq(A, 1, j - 1)
           D == SubSeq(A, j + 1, Len(A))
           y == A[j]
           T == Around(D, w, B)
           L == Cut(A, w, o)
           Q == With(P, L)
<1>1. /\ P \in Seq(FullParagraph) /\ R \in Seq(FullParagraph)
      /\ A \in Seq(Word) /\ B \in Seq(Word) /\ w \in Word
  BY DEF IsZip
<1>2. /\ C \in Seq(Word) /\ D \in Seq(Word) /\ y \in Word /\ Len(C) = j - 1
      /\ A = Around(C, y, D)
  BY <1>1, CutAt DEF Around
<1> HIDE DEF C, D
<1>3. T \in Seq(Word)
  BY <1>1, <1>2, AroundHas
<1>4. p = Around(C, y, T)
  <2>1. Around(Around(C, y, D), w, B) = Around(C, y, Around(D, w, B))
    <3> HIDE DEF y
    <3> QED BY <1>1, <1>2, AroundOn
  <2> HIDE DEF y
  <2> QED BY <1>2, <2>1
<1>5. ps[a[1]] = p /\ Len(A) \in Nat
  BY ZipIs
<1>6. p[j] = y
  <2>1. j = Len(C) + 1
    <3>1. j \in Int
      BY <1>5
    <3> QED BY <1>2, <3>1
  <2> HIDE DEF p, T, y, j
  <2>2. C \in Seq(Word) /\ y \in Word /\ T \in Seq(Word)
    BY <1>2, <1>3
  <2>3. Around(C, y, T)[Len(C) + 1] = y
    BY <2>2, AroundHas
  <2> QED BY <1>4, <2>1, <2>3
<1>7. a[3] \in 1 .. Len(y) + 1
  BY <1>5, <1>6
<1> HIDE DEF y, T
<1>8. IsZip(P, C, y, T, R) /\ ps = ZipOf(P, C, y, T, R)
  BY <1>1, <1>2, <1>3, <1>4 DEF IsZip, ZipOf
<1>9. At3(a, P, C, y)
  <2>1. j \in Int /\ a[3] \in Nat \ {0}
    <3>1. Len(y) \in Nat
      BY <1>2, WordIs
    <3> QED BY <1>5, <1>7, <3>1
  <2>2. j = Len(C) + 1
    BY <1>2, <2>1
  <2> QED BY <2>1, <2>2 DEF At3
<1>10. o \in Nat \ {0}
  <2>1. Len(w) \in Nat
    BY <1>1, WordIs
  <2> QED BY <2>1
<1>11. L \in FullParagraph
  BY <1>1, <1>10, CutIs
<1>12. PICK E \in Seq(Word) : L = Around(C, y, E)
  <2>1. CASE o = 1 /\ NonEmpty(A)
    BY <1>2, <2>1 DEF Cut
  <2>2. CASE ~(o = 1 /\ NonEmpty(A))
    <3> DEFINE l == LeftOf(w, o)
    <3>1. L = With(A, l)
      BY <2>2 DEF Cut
    <3>2. l \in Word
      BY <1>1, <1>10, HalvesAre
    <3> HIDE DEF l, L
    <3>3. With(Around(C, y, D), l) = Around(C, y, With(D, l))
      BY <1>2, <3>2, AroundOn
    <3>4. With(D, l) \in Seq(Word)
      BY <1>2, <3>2, WithHas
    <3>5. L = Around(C, y, With(D, l))
      BY <1>2, <3>1, <3>3
    <3> QED BY <3>4, <3>5
  <2> QED BY <2>1, <2>2
<1>13. Q = Around(P, L, none)
  <2> HIDE DEF L
  <2> QED BY <1>1, <1>11, WithIsAround
<1> HIDE DEF L
<1>14. Open(Q, P, C, y, a[3], none)
  <2>1. GetWordText(LeftOf(y, a[3])) = TextTo(y, a[3])
    BY <1>2, <1>7, LeftOfWord
  <2> HIDE DEF none, Q
  <2> QED BY <1>2, <1>12, <1>13, <2>1 DEF Open
<1>15. none \in Seq(FullParagraph) /\ Len(none) = 0
  BY EmptyIn, EmptySeq
<1> HIDE DEF Q, none
<1>16. IsStart(ps, Q, a, 0, P, C, y, T, R, none)
  BY <1>7, <1>8, <1>9, <1>14, <1>15 DEF IsStart
<1>17. StartIn(ps, Q, a, 0)
  BY <1>16 DEF StartIn
<1> QED BY <1>17 DEF Q, L

(* It starts in the word in which it ends. *)
LEMMA FoundInWord ==
  ASSUME NEW P, NEW A, NEW w, NEW B, NEW R, IsZip(P, A, w, B, R),
         NEW ps, ps = ZipOf(P, A, w, B, R), NEW o \in 1 .. Len(w) + 1, Canonical(w),
         NEW a, a[1] = Len(P) + 1, a[2] = Len(A) + 1, a[3] \in 1 .. o
  PROVE  StartIn(ps, With(P, Cut(A, w, o)), a, 0)
<1> DEFINE none == <<>>
           L == Cut(A, w, o)
           Q == With(P, L)
<1>1. /\ P \in Seq(FullParagraph) /\ R \in Seq(FullParagraph)
      /\ A \in Seq(Word) /\ B \in Seq(Word) /\ w \in Word
  BY DEF IsZip
<1>2. o \in Nat \ {0} /\ a[3] \in 1 .. Len(w) + 1 /\ a[3] \in Nat \ {0}
  <2>1. Len(w) \in Nat
    BY <1>1, WordIs
  <2> QED BY <2>1
<1>3. L \in FullParagraph
  BY <1>1, <1>2, CutIs
<1>4. Q = Around(P, L, none)
  <2> HIDE DEF L
  <2> QED BY <1>1, <1>3, WithIsAround
<1>5. Open(Q, P, A, w, a[3], none)
  <2>1. CASE o = 1 /\ NonEmpty(A)
    <3>1. L = A /\ a[3] = 1
      BY <1>2, <2>1 DEF Cut
    <3> HIDE DEF L, Q, none
    <3> QED BY <1>4, <2>1, <3>1 DEF Open
  <2>2. CASE ~(o = 1 /\ NonEmpty(A))
    <3> DEFINE l == LeftOf(w, o)
    <3>1. L = With(A, l)
      BY <2>2 DEF Cut
    <3>2. l \in Word
      BY <1>1, <1>2, HalvesAre
    <3>3. GetWordText(LeftOf(l, a[3])) = TextTo(w, a[3])
      BY <1>1, LeftOfLeft
    <3> HIDE DEF l, L, Q
    <3>4. L = Around(A, l, none)
      BY <1>1, <3>1, <3>2, WithIsAround
    <3>5. none \in Seq(Word)
      BY EmptyIn
    <3> HIDE DEF none
    <3> QED BY <1>4, <3>2, <3>3, <3>4, <3>5 DEF Open
  <2> QED BY <2>1, <2>2
<1>6. none \in Seq(FullParagraph) /\ Len(none) = 0
  BY EmptyIn, EmptySeq
<1>7. At3(a, P, A, w)
  BY <1>2 DEF At3
<1> HIDE DEF Q, none
<1>8. IsStart(ps, Q, a, 0, P, A, w, B, R, none)
  BY <1>2, <1>5, <1>6, <1>7 DEF IsStart
<1>9. StartIn(ps, Q, a, 0)
  BY <1>8 DEF StartIn
<1> QED BY <1>9 DEF Q, L

LEMMA StartFound ==
  ASSUME NEW P, NEW A, NEW w, NEW B, NEW R, IsZip(P, A, w, B, R),
         NEW ps, ps = ZipOf(P, A, w, B, R),
         NEW b, At3(b, P, A, w), b[3] \in 1 .. Len(w) + 1,
         NEW a, WordAt(ps, a), a[3] \in 1 .. Len(ps[a[1]][a[2]]) + 1, InOrder(a, b),
         a[1] = b[1] /\ a[2] = b[2] => Canonical(w)
  PROVE  StartIn(ps, With(P, Cut(A, w, b[3])), a, b[1] - a[1])
<1> DEFINE p == Around(A, w, B)
<1>1. /\ p \in FullParagraph /\ Len(p) = Len(A) + 1 + Len(B) /\ ps[Len(P) + 1] = p
      /\ Len(ps) = Len(P) + 1 + Len(R)
      /\ Len(P) \in Nat /\ Len(A) \in Nat /\ Len(B) \in Nat /\ Len(R) \in Nat
  BY ZipIs
<1> HIDE DEF p
<1>2. /\ b[1] = Len(P) + 1 /\ b[2] = Len(A) + 1
      /\ a[1] \in 1 .. Len(ps) /\ a[2] \in 1 .. Len(ps[a[1]]) /\ a[3] \in Nat \ {0}
  BY DEF At3, WordAt
<1>3. A \in Seq(Word) /\ w \in Word /\ b[3] \in Nat \ {0}
  BY DEF IsZip, At3
<1>4. CASE a[1] # b[1]
  <2>1. a[1] \in 1 .. Len(P) /\ Len(P) + 1 - a[1] = b[1] - a[1]
    <3> DEFINE i == a[1]
               j == b[1]
               l == Len(P)
    <3>1. i # j /\ i <= j
      BY <1>4 DEF InOrder
    <3>2. i \in Nat \ {0} /\ l \in Nat /\ j = l + 1
      <4>1. Len(ps) \in Nat
        BY <1>1
      <4> HIDE DEF i
      <4>2. i \in 1 .. Len(ps)
        BY <1>2 DEF i
      <4> QED BY <1>1, <1>2, <4>1, <4>2
    <3> HIDE DEF i, j, l
    <3>3. i \in 1 .. l /\ l + 1 - i = j - i
      BY <3>1, <3>2
    <3> QED BY <3>3 DEF i, j, l
  <2>2. Cut(A, w, b[3]) \in FullParagraph
    BY <1>3, CutIs
  <2>3. StartIn(ps, With(P, Cut(A, w, b[3])), a, Len(P) + 1 - a[1])
    BY <1>2, <2>1, <2>2, FoundEarlier
  <2> QED BY <2>1, <2>3
<1>5. CASE a[1] = b[1] /\ a[2] # b[2]
  <2>1. a[1] = Len(P) + 1 /\ b[1] - a[1] = 0
    BY <1>1, <1>2, <1>5
  <2>2. a[2] \in 1 .. Len(A)
    <3> DEFINE i == a[2]
               j == b[2]
               l == Len(A)
    <3>1. i \in 1 .. Len(p) /\ i <= j /\ i # j
      BY <1>1, <1>2, <1>5, <2>1 DEF InOrder
    <3>2. Len(p) \in Nat /\ l \in Nat /\ j = l + 1
      BY <1>1, <1>2
    <3> HIDE DEF i, j, l
    <3>3. i \in 1 .. l
      BY <3>1, <3>2
    <3> QED BY <3>3 DEF i, l
  <2>3. StartIn(ps, With(P, Cut(A, w, b[3])), a, 0)
    BY <2>1, <2>2, FoundInParagraph
  <2> QED BY <2>1, <2>3
<1>6. CASE a[1] = b[1] /\ a[2] = b[2]
  <2>1. a[1] = Len(P) + 1 /\ a[2] = Len(A) + 1 /\ b[1] - a[1] = 0
    BY <1>1, <1>2, <1>6
  <2>2. a[3] \in 1 .. b[3]
    BY <1>2, <1>3, <1>6 DEF InOrder
  <2>3. StartIn(ps, With(P, Cut(A, w, b[3])), a, 0)
    BY <1>6, <2>1, <2>2, FoundInWord
  <2> QED BY <2>1, <2>3
<1> QED BY <1>4, <1>5, <1>6

-----------------------------------------------------------------------------
(* The second split, and what is between the two taken away.                *)

(* L is A and what was before the offset o of w. *)
Closed(L, A, w, o) ==
  \/ NonEmpty(A) /\ o = 1 /\ L = A
  \/ ~(NonEmpty(A) /\ o = 1) /\ \E l \in Word : L = With(A, l) /\ GetWordText(l) = TextTo(w, o)

(* g was split: its paragraphs are P, L, C, at which the cursor is, and T.   *)
IsSplit(g, P, L, C, T, A, w, o) ==
  /\ HasParagraph(g, With(P, L), C, T) /\ g.cw = 1 /\ g.co = 1
  /\ L \in FullParagraph /\ Closed(L, A, w, o)

LEMMA SecondSplitInWord ==
  ASSUME NEW e, NEW P, NEW A, NEW y, NEW C, NEW T, HasWord(e, P, A, y, C, T), Marked(e),
         NEW o, o = e.co, o \in Nat \ {0}, NEW w, GetWordText(LeftOf(y, o)) = TextTo(w, o)
  PROVE  LET g == SplitCurrentParagraph(e, Plain)
         IN  KeepsMark(e, g) /\ \E L, D : IsSplit(g, P, L, D, T, A, w, o)
<1> DEFINE g == SplitCurrentParagraph(e, Plain)
           n == <<>>
           L == Cut(A, y, o)
           x == Remains(A, y, o)
           D == Around(n, x, C)
<1>1. A \in Seq(Word) /\ y \in Word
  BY DEF HasWord, IsZip
<1>2. HasWord(g, With(P, L), n, x, C, T) /\ g.co = 1 /\ KeepsMark(e, g)
  BY SplitParagraphAt
<1>3. Len(n) = 0
  BY EmptySeq
<1> HIDE DEF n, g, x
<1>4. HasParagraph(g, With(P, L), D, T) /\ g.cw = 1
  BY <1>2, <1>3 DEF HasWord
<1>5. L \in FullParagraph
  BY <1>1, CutIs
<1>6. Closed(L, A, w, o)
  <2>1. CASE o = 1 /\ NonEmpty(A)
    BY <2>1 DEF Cut, Closed
  <2>2. CASE ~(o = 1 /\ NonEmpty(A))
    <3>1. L = With(A, LeftOf(y, o)) /\ LeftOf(y, o) \in Word
      BY <1>1, <2>2, HalvesAre DEF Cut
    <3> QED BY <2>2, <3>1 DEF Closed
  <2> QED BY <2>1, <2>2
<1> HIDE DEF L, D
<1>7. IsSplit(g, P, L, D, T, A, w, o)
  BY <1>2, <1>4, <1>5, <1>6 DEF IsSplit
<1> QED BY <1>2, <1>7 DEF g

LEMMA SecondSplitBehind ==
  ASSUME NEW e, NEW P, NEW A, NEW T, HasParagraph(e, P, A, T), NonEmpty(A),
         e.cw = Len(A) + 1, e.co = 1, NEW w
  PROVE  LET g == SplitCurrentParagraph(e, Plain)
         IN  KeepsMark(e, g) /\ \E L, D : IsSplit(g, P, L, D, T, A, w, 1)
<1> DEFINE g == SplitCurrentParagraph(e, Plain)
           n == <<>>
<1>1. A \in Seq(Word) /\ A \in FullParagraph
  BY DEF HasParagraph, FullParagraph, NonEmpty
<1>2. e.cw > 1
  BY <1>1, NonEmptyIs
<1>3. HasParagraph(g, With(P, A), n, T) /\ g.cw = 1 /\ g.co = 1 /\ KeepsMark(e, g)
  BY <1>2, SplitParagraphBehind
<1> HIDE DEF n, g
<1>4. Closed(A, A, w, 1)
  BY DEF Closed
<1>5. IsSplit(g, P, A, n, T, A, w, 1)
  BY <1>1, <1>3, <1>4 DEF IsSplit
<1> QED BY <1>3, <1>5 DEF g

LEMMA SecondSplit ==
  ASSUME NEW e, IsDoc(e), Marked(e), NEW Q, NEW p \in FullParagraph, NEW S \in Seq(FullParagraph),
         e.paras = Around(Q, p, S), NEW ps, NEW a, NEW n,
         NEW P, NEW A, NEW w, NEW B, NEW R, NEW M, IsStart(ps, Q, a, n, P, A, w, B, R, M)
  PROVE  /\ KeepsMark(e, SplitAt(e, a))
         /\ \E L, C : IsSplit(SplitAt(e, a), P, L, C, Around(M, p, S), A, w, a[3])
<1> DEFINE T == Around(M, p, S)
           o == a[3]
           f == At(e, a[1], a[2], a[3])
           g == SplitCurrentParagraph(f, Plain)
<1>1. /\ P \in Seq(FullParagraph) /\ M \in Seq(FullParagraph)
      /\ A \in Seq(Word) /\ w \in Word /\ o \in Nat \ {0}
      /\ a[1] = Len(P) + 1 /\ a[2] = Len(A) + 1 /\ Open(Q, P, A, w, o, M)
  BY DEF IsStart, IsZip, At3
<1>2. T \in Seq(FullParagraph)
  BY <1>1, AroundHas
<1>3. SplitAt(e, a) = g
  BY DEF SplitAt
<1>4. /\ IsDoc(f) /\ KeepsMark(e, f) /\ f.paras = e.paras
      /\ f.cp = Len(P) + 1 /\ f.cw = Len(A) + 1 /\ f.co = o
  <2> DEFINE i == a[1]
             j == a[2]
  <2>1. i = Len(P) + 1 /\ j = Len(A) + 1
    BY <1>1
  <2> HIDE DEF i, j, o, f
  <2>2. f = At(e, i, j, o)
    BY DEF f, i, j, o
  <2>3. /\ IsDoc(f) /\ KeepsMark(e, f) /\ f.paras = e.paras
        /\ f.cp = i /\ f.cw = j /\ f.co = o
    BY <2>2, AtIs
  <2> QED BY <2>1, <2>3
<1>5. Marked(f)
  BY <1>4 DEF Marked, KeepsMark
<1> HIDE DEF f, o, g
<1>6. \A q \in FullParagraph : Q = Around(P, q, M) => f.paras = Around(P, q, T)
  <2> SUFFICES ASSUME NEW q \in FullParagraph, Q = Around(P, q, M) PROVE f.paras = Around(P, q, T)
    OBVIOUS
  <2>1. Around(Around(P, q, M), p, S) = Around(P, q, Around(M, p, S))
    BY <1>1, AroundOn
  <2> QED BY <1>4, <2>1
<1> HIDE DEF T
<1>7. KeepsMark(f, g) /\ \E L, C : IsSplit(g, P, L, C, T, A, w, o)
  <2>1. ASSUME NEW y \in Word, NEW C \in Seq(Word), Q = Around(P, Around(A, y, C), M),
               GetWordText(LeftOf(y, o)) = TextTo(w, o)
        PROVE  KeepsMark(f, g) /\ \E L, D : IsSplit(g, P, L, D, T, A, w, o)
    <3>1. IsZip(P, A, y, C, T)
      BY <1>1, <1>2 DEF IsZip
    <3>2. f.paras = ZipOf(P, A, y, C, T)
      <4>1. Around(A, y, C) \in FullParagraph
        BY <1>1, FlatParagraphIs
      <4> QED BY <1>6, <2>1, <4>1 DEF ZipOf
    <3>3. HasWord(f, P, A, y, C, T)
      BY <1>4, <3>1, <3>2, HasWordIf
    <3> QED BY <1>1, <1>4, <1>5, <2>1, <3>3, SecondSplitInWord DEF g
  <2>2. ASSUME NonEmpty(A), o = 1, Q = Around(P, A, M)
        PROVE  KeepsMark(f, g) /\ \E L, D : IsSplit(g, P, L, D, T, A, w, o)
    <3>1. A \in FullParagraph
      BY <1>1, <2>2 DEF FullParagraph, NonEmpty
    <3>2. f.paras = Around(P, A, T)
      BY <1>6, <2>2, <3>1
    <3>3. P \in Seq(Seq(Word)) /\ T \in Seq(Seq(Word))
      BY <1>1, <1>2, FullSeq
    <3>4. HasParagraph(f, P, A, T)
      BY <1>1, <1>4, <3>2, <3>3 DEF HasParagraph
    <3> QED BY <1>4, <2>2, <3>4, SecondSplitBehind DEF g
  <2> QED BY <1>1, <2>1, <2>2 DEF Open
<1>8. KeepsMark(e, g)
  BY <1>4, <1>7 DEF KeepsMark
<1> QED BY <1>3, <1>7, <1>8 DEF T, o

(* C and M, between X and p, as one part. *)
LEMMA Regrouped ==
  ASSUME NEW S, NEW X \in Seq(S), NEW C \in S, NEW M \in Seq(S), NEW p \in S, NEW R \in Seq(S)
  PROVE  /\ Around(X, C, Around(M, p, R)) = Three(X, <<C>> \o M, <<p>> \o R)
         /\ Three(X, <<>>, <<p>> \o R) = Around(X, p, R)
         /\ <<C>> \o M \in Seq(S) /\ <<p>> \o R \in Seq(S) /\ Len(<<C>> \o M) = Len(M) + 1
         /\ Len(M) \in Nat
<1> DEFINE c == <<C>>
           q == <<p>>
           Z == q \o R
           Y == c \o M
           XC == X \o c
<1>1. c \in Seq(S) /\ q \in Seq(S) /\ Len(c) = 1
  BY OneElement
<1> HIDE DEF c, q
<1>2. /\ Z \in Seq(S) /\ Y \in Seq(S) /\ XC \in Seq(S)
      /\ Len(Y) = 1 + Len(M) /\ Len(M) \in Nat
  <2>1. c \in Seq(S) /\ q \in Seq(S)
    BY <1>1
  <2>2. Z \in Seq(S) /\ Y \in Seq(S) /\ XC \in Seq(S)
    BY <2>1, ConcatProperties
  <2>3. Len(c \o M) = Len(c) + Len(M)
    BY <2>1, ConcatProperties
  <2> QED BY <1>1, <2>2, <2>3, LenProperties
<1>12. q \in Seq(S)
  BY <1>1
<1>3. (M \o q) \o R = M \o Z
  <2>1. Groups(M, q, R)
    BY <1>12, GroupsOf
  <2> QED BY <2>1 DEF Groups
<1>4. XC \o M = X \o Y
  <2>1. Groups(X, c, M)
    BY <1>1, GroupsOf
  <2> QED BY <2>1 DEF Groups
<1>5. (X \o q) \o R = X \o Z
  <2>1. Groups(X, q, R)
    BY <1>1, GroupsOf
  <2> QED BY <2>1 DEF Groups
<1>6. X \o <<>> = X
  BY ConcatEmptySeq
<1> HIDE DEF Z, Y, XC
<1>13. XC \in Seq(S) /\ Z \in Seq(S)
  BY <1>2
<1>7. (XC \o M) \o Z = XC \o (M \o Z)
  <2>1. Groups(XC, M, Z)
    BY <1>13, GroupsOf
  <2> QED BY <2>1 DEF Groups
<1>8. Around(X, C, Around(M, p, R)) = XC \o (M \o Z)
  BY <1>3 DEF Around, XC, c, q
<1>9. Around(X, C, Around(M, p, R)) = Three(X, Y, Z)
  BY <1>4, <1>7, <1>8 DEF Three
<1>10. Three(X, <<>>, Z) = Around(X, p, R)
  BY <1>5, <1>6 DEF Three, Around, q
<1>11. Len(Y) = Len(M) + 1
  BY <1>2
<1> QED BY <1>2, <1>9, <1>10, <1>11 DEF Z, Y, c, q

(* What is between the splits is taken away. *)
LEMMA Removed ==
  ASSUME NEW g, NEW X \in Seq(FullParagraph), NEW C, NEW M \in Seq(FullParagraph),
         NEW R \in Seq(FullParagraph), NEW x \in Word, NEW B \in Seq(Word),
         HasParagraph(g, X, C, Around(M, Around(<<>>, x, B), R)), g.cw = 1,
         NEW n, n = Len(M) + 1
  PROVE  LET r == PutParagraphs(g, n, <<>>)
         IN  /\ HasWord(r, X, <<>>, x, B, R) /\ r.co = g.co /\ KeepsMark(g, r)
<1> DEFINE p == Around(<<>>, x, B)
           S == Seq(Word)
           Y == <<C>> \o M
           Z == <<p>> \o R
           r == PutParagraphs(g, n, <<>>)
           e == <<>>
<1>1. e \in Seq(Word) /\ e \in Seq(S) /\ Len(e) = 0
  BY EmptyIn, EmptySeq
<1> HIDE DEF e
<1>2. IsZip(X, e, x, B, R)
  BY <1>1 DEF IsZip
<1>3. p \in FullParagraph /\ p \in S
  BY <1>1, FlatParagraphIs, FullParagraphSeq DEF e
<1> HIDE DEF p
<1>4. IsDoc(g) /\ C \in S /\ g.paras = Around(X, C, Around(M, p, R)) /\ g.cp = Len(X) + 1
  BY DEF HasParagraph, p
<1>5. X \in Seq(S) /\ M \in Seq(S) /\ R \in Seq(S)
  BY FullSeq
<1> HIDE DEF S
<1>6. /\ Y \in Seq(S) /\ Z \in Seq(S) /\ Len(Y) = Len(M) + 1
      /\ g.paras = Three(X, Y, Z) /\ Three(X, e, Z) = Around(X, p, R)
  BY <1>3, <1>4, <1>5, Regrouped DEF e
<1>7. r = PutParagraphs(g, n, e)
  BY DEF e
<1> HIDE DEF r, Y, Z
<1>8. r.paras = Three(X, e, Z) /\ KeepsPlace(g, r)
  <2>1. IsDoc(g) /\ g.paras = Three(X, Y, Z) /\ g.cp = Len(X) + 1 /\ n = Len(Y)
    BY <1>4, <1>6
  <2>2. X \in Seq(S) /\ Y \in Seq(S) /\ Z \in Seq(S) /\ e \in Seq(S)
    BY <1>1, <1>5, <1>6
  <2> QED BY <1>7, <2>1, <2>2, PutParagraphsAt
<1>9. r.paras = ZipOf(X, e, x, B, R)
  BY <1>6, <1>8 DEF ZipOf, p, e
<1>10. IsDoc(r) /\ r.cp = Len(X) + 1 /\ r.cw = Len(e) + 1 /\ r.co = g.co /\ KeepsMark(g, r)
  BY <1>1, <1>4, <1>8 DEF KeepsPlace
<1>11. HasWord(r, X, e, x, B, R)
  BY <1>2, <1>9, <1>10, HasWordIf
<1> QED BY <1>10, <1>11 DEF r, e

(* A paragraph has a last word. *)
LEMMA LastWord ==
  ASSUME NEW p \in FullParagraph
  PROVE  \E F \in Seq(Word), y \in Word : p = With(F, y)
<1> DEFINE k == Len(p)
           F == SubSeq(p, 1, k - 1)
           n == SubSeq(p, k + 1, k)
<1>1. p \in Seq(Word) /\ k \in 1 .. k
  BY FullParagraphSeq
<1>2. F \in Seq(Word) /\ n \in Seq(Word) /\ p[k] \in Word /\ p = F \o <<p[k]>> \o n
  BY <1>1, CutAt
<1>3. n = <<>>
  BY <1>1
<1> HIDE DEF n, F
<1>4. F \o <<p[k]>> \in Seq(Word)
  BY <1>2, WithHas DEF With
<1>5. p = F \o <<p[k]>>
  BY <1>2, <1>3, <1>4, ConcatEmptySeq
<1> QED BY <1>2, <1>5 DEF With

(* Back to the end of the paragraph before. *)
LEMMA PreviousEnd ==
  ASSUME NEW P \in Seq(FullParagraph), NEW F \in Seq(Word), NEW y \in Word,
         NEW q \in FullParagraph, NEW R \in Seq(FullParagraph),
         NEW s, HasParagraph(s, With(P, With(F, y)), q, R), s.cw = 1
  PROVE  LET t == GotoEndOfWord(GotoPreviousWordW(s))
         IN  /\ HasWord(t, P, F, y, <<>>, Around(<<>>, q, R))
             /\ t.co = Len(y) + 1 /\ KeepsMark(s, t) /\ t.paras = s.paras
<1> DEFINE L == With(F, y)
           e == <<>>
           T == Around(<<>>, q, R)
           o == Len(y) + 1
           u1 == At(s, s.cp - 1, 1, 1)
           u2 == WithWord(u1, Len(L))
           u3 == WithOffset(u2, o)
           t == WithOffset(u3, o)
<1>1. e \in Seq(Word) /\ e \in Seq(FullParagraph)
  BY EmptyIn
<1>2. T \in Seq(FullParagraph) /\ IsZip(P, F, y, e, T)
  BY <1>1, AroundHas DEF e, IsZip
<1>3. /\ L \in FullParagraph /\ Len(L) = Len(F) + 1 /\ Len(F) \in Nat
      /\ L = Around(F, y, <<>>)
  BY WithFull, WithHas, WithIsAround
<1> HIDE DEF L
<1>4. /\ With(P, L) = Around(P, L, <<>>) /\ Len(With(P, L)) = Len(P) + 1 /\ Len(P) \in Nat
  BY <1>3, WithHas, WithIsAround
<1>5. IsDoc(s) /\ s.paras = Around(With(P, L), q, R) /\ s.cp = Len(P) + 2
  BY <1>4 DEF HasParagraph, L
<1>6. s.paras = Around(P, L, T)
  <2>1. Around(Around(P, L, e), q, R) = Around(P, L, Around(e, q, R))
    <3> HIDE DEF e
    <3> QED BY <1>1, <1>3, AroundOn
  <2> QED BY <1>4, <1>5, <2>1
<1> HIDE DEF T, e
<1>7. s.paras = ZipOf(P, F, y, e, T)
  BY <1>3, <1>6 DEF ZipOf, e
<1>8. IsDoc(u1) /\ KeepsMark(s, u1) /\ u1.paras = s.paras /\ u1.cp = Len(P) + 1 /\ u1.cw = 1
  <2>1. s.cp - 1 = Len(P) + 1
    BY <1>4, <1>5
  <2> QED BY <1>5, <2>1, AtIs
<1> HIDE DEF u1, o
<1>9. Paragraph(u1) = L
  <2>1. s.paras[Len(P) + 1] = L
    <3>1. L \in FullParagraph /\ T \in Seq(FullParagraph)
      BY <1>2, <1>3
    <3> QED BY <1>6, <3>1, AroundHas
  <2> QED BY <1>8, <2>1 DEF Paragraph
<1>10. /\ IsDoc(u2) /\ KeepsMark(u1, u2) /\ u2.paras = s.paras /\ u2.cp = Len(P) + 1
       /\ u2.cw = Len(F) + 1
  BY <1>3, <1>8, WithWordIs
<1> HIDE DEF u2
<1>11. CurrentWord(u2) = y
  <2>1. HasWord(u2, P, F, y, e, T)
    BY <1>2, <1>7, <1>10, HasWordIf
  <2> QED BY <2>1, WordHere
<1>12. /\ IsDoc(u3) /\ KeepsMark(u2, u3) /\ u3.paras = s.paras /\ u3.cp = Len(P) + 1
       /\ u3.cw = Len(F) + 1
  BY <1>10, WithOffsetIs
<1> HIDE DEF u3
<1>13. CurrentWord(u3) = y
  <2>1. HasWord(u3, P, F, y, e, T)
    BY <1>2, <1>7, <1>12, HasWordIf
  <2> QED BY <2>1, WordHere
<1>14. /\ IsDoc(t) /\ KeepsMark(u3, t) /\ t.paras = s.paras /\ t.cp = Len(P) + 1
       /\ t.cw = Len(F) + 1 /\ t.co = o
  BY <1>12, WithOffsetIs
<1> HIDE DEF t
<1>15. HasWord(t, P, F, y, e, T)
  BY <1>2, <1>7, <1>14, HasWordIf
<1>16. KeepsMark(s, t)
  BY <1>8, <1>10, <1>12, <1>14 DEF KeepsMark
<1>17. t = GotoEndOfWord(GotoPreviousWordW(s))
  <2>1. ~(s.cw > 1) /\ s.cp > 1 /\ s.cp # 1
    BY <1>4, <1>5
  <2>2. GotoPreviousParagraphW(s) = u1
    BY <2>1 DEF GotoPreviousParagraphW, u1
  <2>3. GotoEndOfParagraph(u1) = u3
    BY <1>9, <1>11 DEF GotoEndOfParagraph, GotoEndOfWord, u2, u3, WithWord, WithOffset, o
  <2>4. GotoPreviousWordW(s) = u3
    BY <2>1, <2>2, <2>3 DEF GotoPreviousWordW
  <2> QED BY <1>13, <2>4 DEF GotoEndOfWord, t, WithOffset, o
<1> QED BY <1>14, <1>15, <1>16, <1>17 DEF T, e, o

(* q is x and the words B. *)
Starts(q, x, B) == q = Around(<<>>, x, B)

(* The paragraph with the cursor, which is at its end, and the next one.    *)
LEMMA JoinedNext ==
  ASSUME NEW P \in Seq(FullParagraph), NEW F \in Seq(Word), NEW y \in Word,
         NEW x \in Word, NEW B \in Seq(Word), NEW R \in Seq(FullParagraph),
         NEW q \in FullParagraph, Starts(q, x, B),
         NEW t, HasWord(t, P, F, y, <<>>, Around(<<>>, q, R)),
         t.paras = Around(With(P, With(F, y)), q, R)
  PROVE  LET r == InsertIntoWord(x, y, 1, Plain)
             h == JoinWithNextWord(t)
         IN  HasWord(h, P, F, r.word, B, R) /\ h.co = r.stop /\ KeepsMark(t, h)
<1> DEFINE r == InsertIntoWord(x, y, 1, Plain)
           L == With(F, y)
           X == With(P, L)
           S == Seq(Word)
           new == <<L \o q>>
           gone == <<L, q>>
           J == Around(L, x, B)
           v == JoinWithNextParagraph(t)
           words == <<r.word>>
           two == <<y, x>>
           e == PutWords(v, 2, words)
           h == WithOffset(e, r.stop)
<1>1. L \in FullParagraph /\ L \in S /\ Len(L) = Len(F) + 1 /\ Len(F) \in Nat
  BY WithFull, WithHas
<1>2. /\ IsDoc(t) /\ t.cp = Len(P) + 1 /\ t.cw = Len(F) + 1
      /\ Paragraph(t) = L /\ Len(t.paras) = Len(P) + 2 + Len(R) /\ Len(P) \in Nat /\ Len(R) \in Nat
  <2>1. Around(F, y, <<>>) = L
    BY WithIsAround
  <2>3. Len(Around(<<>>, q, R)) = 1 + Len(R) /\ Len(R) \in Nat
    <3> DEFINE n == <<>>
    <3>1. n \in Seq(FullParagraph) /\ Len(n) = 0
      BY EmptyIn, EmptySeq
    <3> HIDE DEF n
    <3>3. n \in Seq(FullParagraph) /\ R \in Seq(FullParagraph) /\ q \in FullParagraph
      BY <3>1
    <3>2. Len(Around(n, q, R)) = Len(n) + 1 + Len(R) /\ Len(R) \in Nat
      BY <3>3, AroundHas
    <3> QED BY <3>1, <3>2 DEF n
  <2> QED BY <2>1, <2>3, WordHere
<1>3. ~AtEnd(t) /\ t.cw = Len(Paragraph(t))
  BY <1>1, <1>2 DEF AtEnd
<1>4. JoinWithNextWord(t) = JoinTwoWords(v)
  BY <1>3 DEF JoinWithNextWord
<1>5. P \in Seq(S) /\ R \in Seq(S) /\ q \in S
  BY FullSeq, FullParagraphSeq
<1>6. L \o q = J /\ J = Three(F, two, B) /\ two \in Seq(Word) /\ Len(two) = 2 /\ J \in S
  <2>1. J = L \o q
    BY <1>1, AroundNothing DEF Starts
  <2>2. J = Three(F, two, B) /\ two \in Seq(Word) /\ Len(two) = 2
    BY WithAround
  <2>3. J \in Seq(Word)
    BY <1>1, AroundHas
  <2> QED BY <2>1, <2>2, <2>3
<1> HIDE DEF S, L, J, two
<1>7. v.paras = Around(P, J, R) /\ KeepsPlace(t, v)
  <2> DEFINE k == <<J>>
             w == PutParagraphs(t, 2, k)
  <2>1. /\ Around(X, q, R) = Three(P, gone, R) /\ gone \in Seq(S) /\ Len(gone) = 2
    BY <1>1, <1>5, WithAround
  <2>2. t.paras[t.cp + 1] = q
    <3>1. X \in Seq(S) /\ Len(X) = Len(P) + 1
      BY <1>1, <1>5, WithHas
    <3> HIDE DEF X
    <3>2. t.paras = Around(X, q, R)
      BY DEF X, L
    <3>3. t.paras[Len(X) + 1] = q
      <4>1. X \in Seq(S) /\ q \in S /\ R \in Seq(S)
        BY <1>5, <3>1
      <4>2. Around(X, q, R)[Len(X) + 1] = q
        BY <4>1, AroundHas
      <4> QED BY <3>2, <4>2
    <3> QED BY <1>2, <3>1, <3>3
  <2>3. v = w
    BY <1>2, <1>6, <2>2 DEF JoinWithNextParagraph
  <2>4. Around(P, J, R) = Three(P, k, R) /\ k \in Seq(S)
    <3>1. J \in S /\ P \in Seq(S) /\ R \in Seq(S)
      BY <1>5, <1>6
    <3> QED BY <3>1, AroundIsThree
  <2>5. t.paras = Around(X, q, R)
    BY DEF X, L
  <2> HIDE DEF k, v, gone, X
  <2>6. w.paras = Three(P, k, R) /\ KeepsPlace(t, w)
    <3>1. t.paras = Three(P, gone, R) /\ IsDoc(t) /\ t.cp = Len(P) + 1 /\ 2 = Len(gone)
      BY <1>2, <2>1, <2>5
    <3>2. P \in Seq(S) /\ gone \in Seq(S) /\ R \in Seq(S) /\ k \in Seq(S)
      BY <1>5, <2>1, <2>4
    <3> QED BY <3>1, <3>2, PutParagraphsAt, ZenonT(20)
  <2> QED BY <2>3, <2>4, <2>6
<1> HIDE DEF v
<1>8. IsDoc(v) /\ v.cp = Len(P) + 1 /\ v.cw = Len(F) + 1 /\ KeepsMark(t, v)
  BY <1>2, <1>7 DEF KeepsPlace
<1>9. HasParagraph(v, P, J, R)
  BY <1>5, <1>6, <1>7, <1>8 DEF HasParagraph, S
<1>10. Paragraph(v)[v.cw + 1] = x /\ CurrentWord(v) = y
  <2>1. Paragraph(v) = J
    BY <1>9, ParagraphAt
  <2>2. J[Len(F) + 2] = x
    <3>1. J[Len(L) + 1] = x
      <4>1. L \in Seq(Word)
        BY <1>1 DEF S
      <4> QED BY <4>1, AroundHas DEF J
    <3> QED BY <1>1, <3>1
  <2>3. J[Len(F) + 1] = y
    <3> DEFINE n == <<>>
    <3>1. n \in Seq(Word)
      BY EmptyIn
    <3>5. Around(F, y, n) = L
      BY WithIsAround DEF L
    <3>6. q = Around(n, x, B)
      BY DEF Starts
    <3> HIDE DEF n
    <3>2. Around(Around(F, y, n), x, B) = Around(F, y, Around(n, x, B))
      BY <3>1, AroundOn
    <3>3. J = Around(F, y, q)
      BY <3>2, <3>5, <3>6 DEF J
    <3>4. q \in Seq(Word)
      BY <1>5 DEF S
    <3>7. Around(F, y, q)[Len(F) + 1] = y
      <4> HIDE DEF J
      <4>1. F \in Seq(Word) /\ y \in Word
        OBVIOUS
      <4> QED BY <3>4, <4>1, AroundHas
    <3> QED BY <3>3, <3>7
  <2>4. Len(F) + 1 + 1 = Len(F) + 2
    BY <1>1
  <2> QED BY <1>8, <2>1, <2>2, <2>3, <2>4 DEF CurrentWord
<1>11. JoinTwoWords(v) = h
  BY <1>10 DEF JoinTwoWords, PutInserted, WithOffset
<1>12. r.word \in Word
  <2>1. 1 \in 1 .. Len(x) + 1 /\ Plain \in Style
    BY WordIs, EmptyWord
  <2> QED BY <2>1, WordInserted
<1> HIDE DEF r
<1>13. words \in Seq(Word) /\ Around(F, r.word, B) = Three(F, words, B)
  BY <1>12, AroundIsThree
<1> HIDE DEF words
<1>14. HasParagraph(e, P, Three(F, words, B), R) /\ KeepsPlace(v, e)
  BY <1>6, <1>8, <1>9, <1>13, PutWordsAt
<1> HIDE DEF e
<1>15. IsDoc(e) /\ e.paras = ZipOf(P, F, r.word, B, R) /\ e.cp = Len(P) + 1 /\ e.cw = Len(F) + 1
  BY <1>8, <1>13, <1>14 DEF KeepsPlace, HasParagraph, ZipOf
<1>16. /\ IsDoc(h) /\ KeepsMark(e, h)
       /\ h.paras = e.paras /\ h.cp = e.cp /\ h.cw = e.cw /\ h.co = r.stop
  BY <1>15, WithOffsetIs
<1> HIDE DEF h
<1>17. IsZip(P, F, r.word, B, R)
  BY <1>12 DEF IsZip
<1>18. HasWord(h, P, F, r.word, B, R)
  BY <1>15, <1>16, <1>17, HasWordIf
<1>19. KeepsMark(t, h)
  BY <1>8, <1>14, <1>16 DEF KeepsPlace, KeepsMark
<1> QED BY <1>4, <1>11, <1>16, <1>18, <1>19 DEF r

LEMMA Cancel ==
  ASSUME NEW S, NEW s \in Seq(S), NEW t \in Seq(S), NEW u \in Seq(S), s \o t = s \o u
  PROVE  t = u
<1> DEFINE v == s \o t
<1>1. t = SubSeq(s \o t, Len(s) + 1, Len(s \o t))
  BY PartsOfConcat
<1>2. u = SubSeq(s \o u, Len(s) + 1, Len(s \o u))
  BY PartsOfConcat
<1> QED BY <1>1, <1>2

(* A word put before another: the offset is between them.                   *)
LEMMA InsertedBefore ==
  ASSUME NEW x \in Word, NEW y \in Word
  PROVE  LET r == InsertIntoWord(x, y, 1, Plain)
         IN  /\ r.word \in Word /\ r.stop \in 1 .. Len(r.word) + 1
             /\ TextTo(r.word, r.stop) = GetWordText(y)
             /\ TextFrom(r.word, r.stop) = GetWordText(x)
<1> DEFINE r == InsertIntoWord(x, y, 1, Plain)
           u == r.word
           o == r.stop
           gx == GetWordText(x)
           gy == GetWordText(y)
<1>1. 1 \in 1 .. Len(x) + 1 /\ Plain \in Style
  BY WordIs, EmptyWord
<1>2. u \in Word /\ o \in 1 .. Len(u) + 1
  BY <1>1, WordInserted
<1>3. /\ Words!TextTo(u, o) = Words!TextTo(x, 1) \o Words!GetWordText(y)
      /\ Words!GetWordText(u) = (Words!TextTo(x, 1) \o Words!GetWordText(y)) \o Words!TextFrom(x, 1)
  <2>1. 1 \in Words!Offsets(x)
    BY <1>1, SameOperations
  <2>2. LET v == Words!InsertIntoWord(x, y, 1, Plain)
        IN  /\ Words!TextTo(v.word, v.stop) = Words!TextTo(x, 1) \o Words!GetWordText(y)
            /\ Words!GetWordText(v.word) =
                 (Words!TextTo(x, 1) \o Words!GetWordText(y)) \o Words!TextFrom(x, 1)
    BY <1>1, <2>1, SameWords, Words!TextInserted
  <2>3. Words!InsertIntoWord(x, y, 1, Plain) = r
    BY SameOperations
  <2> HIDE DEF r
  <2> QED BY <2>2, <2>3
<1> HIDE DEF r
<1>4. /\ TextTo(x, 1) = <<>> /\ TextFrom(x, 1) = gx /\ gx \in Seq(Symbol)
  BY <1>1, TextSplits
<1>5. gy \in Seq(Symbol)
  BY WordTextIs
<1>6. /\ TextTo(u, o) \in Seq(Symbol) /\ TextFrom(u, o) \in Seq(Symbol)
      /\ GetWordText(u) = TextTo(u, o) \o TextFrom(u, o)
  BY <1>2, TextSplits
<1>7. \A v, n : Words!TextTo(v, n) = TextTo(v, n) /\ Words!GetWordText(v) = GetWordText(v)
  BY SameText DEF TextTo
<1> HIDE DEF gx, gy, u, o
<1>8. <<>> \o gy = gy
  BY <1>5, ConcatEmptySeq
<1>9. TextTo(u, o) = gy /\ GetWordText(u) = gy \o gx
  BY <1>3, <1>4, <1>7, <1>8 DEF TextFrom, gy
<1>10. TextFrom(u, o) = gx
  <2>1. gy \o TextFrom(u, o) = gy \o gx
    BY <1>6, <1>9
  <2>2. TextFrom(u, o) \in Seq(Symbol)
    BY <1>6
  <2> QED BY <1>4, <1>5, <2>1, <2>2, Cancel
<1> QED BY <1>2, <1>9, <1>10 DEF gx, gy, u, o, r

-----------------------------------------------------------------------------
(* The flat text is t, the place of the cursor, and u. *)
Exactly(d, t, u) ==
  \E P, A, w, B, R :
    /\ HasWord(d, P, A, w, B, R) /\ d.co \in 1 .. Len(w) + 1
    /\ Ahead(P, A, w, d.co) = t /\ Rest(w, d.co, B, R) = u

LEMMA ExactlyIs ==
  ASSUME NEW d, NEW t, NEW u, Exactly(d, t, u)
  PROVE  /\ Flat(d.paras) = t \o u /\ CursorInDocument(d)
         /\ FlatPlace(d.paras, Cursor(d)) = Len(t)
<1>1. PICK P, A, w, B, R :
        /\ HasWord(d, P, A, w, B, R) /\ d.co \in 1 .. Len(w) + 1
        /\ Ahead(P, A, w, d.co) = t /\ Rest(w, d.co, B, R) = u
  BY DEF Exactly
<1> DEFINE m == Cursor(d)
<1>2. m[1] = d.cp /\ m[2] = d.cw /\ m[3] = d.co
  BY DEF Cursor
<1> HIDE DEF m
<1>3. IsZip(P, A, w, B, R) /\ d.paras = ZipOf(P, A, w, B, R) /\ d.cp = Len(P) + 1 /\ d.cw = Len(A) + 1
  BY <1>1, WordHere DEF HasWord
<1>4. Len(w) \in Nat
  BY <1>3, WordIs DEF IsZip
<1>5. At3(m, P, A, w) /\ m[3] \in 1 .. Len(w) + 1
  BY <1>1, <1>2, <1>3, <1>4 DEF At3
<1>6. FlatPlace(d.paras, m) = Len(t) /\ Flat(d.paras) = t \o u
  <2>1. IsZip(P, A, w, B, R)
    BY <1>3
  <2>2. /\ FlatPlace(ZipOf(P, A, w, B, R), m) = Len(Ahead(P, A, w, m[3]))
        /\ Flat(ZipOf(P, A, w, B, R)) = Ahead(P, A, w, m[3]) \o Rest(w, m[3], B, R)
    BY <1>5, <2>1, ZipPlace
  <2> QED BY <1>1, <1>2, <1>3, <2>2
<1>7. PlaceIn(d.paras, m)
  <2> DEFINE ps == ZipOf(P, A, w, B, R)
             p == Around(A, w, B)
  <2>1. /\ ps \in Seq(FullParagraph) /\ Len(ps) = Len(P) + 1 + Len(R) /\ p \in FullParagraph
        /\ ps[Len(P) + 1] = p /\ p[Len(A) + 1] = w /\ Len(p) = Len(A) + 1 + Len(B)
        /\ Len(P) \in Nat /\ Len(R) \in Nat /\ Len(A) \in Nat /\ Len(B) \in Nat
    BY <1>3, ZipIs
  <2> HIDE DEF ps, p
  <2>2. p \in Seq(Word)
    BY <2>1, FullParagraphSeq
  <2>3. DOMAIN ps = 1 .. Len(ps) /\ DOMAIN p = 1 .. Len(p)
    BY <2>1, <2>2
  <2>4. m[1] \in DOMAIN ps /\ m[2] \in DOMAIN p /\ ps[m[1]] = p /\ p[m[2]] = w
    BY <1>2, <1>3, <2>1, <2>3
  <2> QED BY <1>3, <1>5, <2>4 DEF PlaceIn, ps
<1> QED BY <1>6, <1>7 DEF CursorInDocument, m

(* The last word of the paragraph before, and the first of this one, become *)
(* one word, and the cursor is between their texts.                         *)
LEMMA RejoinedAt ==
  ASSUME NEW P \in Seq(FullParagraph), NEW F \in Seq(Word), NEW y \in Word,
         NEW x, NEW B, NEW R, NEW s, HasWord(s, With(P, With(F, y)), <<>>, x, B, R)
  PROVE  /\ Exactly(Rejoined(s), Pre(P, F) \o GetWordText(y), GetWordText(x) \o Post(B, R))
         /\ KeepsMark(s, Rejoined(s))
<1> DEFINE q == Around(<<>>, x, B)
           X == With(P, With(F, y))
           t == GotoEndOfWord(GotoPreviousWordW(s))
           r == InsertIntoWord(x, y, 1, Plain)
           h == JoinWithNextWord(t)
           n == <<>>
           T == Around(n, q, R)
<1>1. x \in Word /\ B \in Seq(Word) /\ R \in Seq(FullParagraph)
  BY DEF HasWord, IsZip
<1>2. q \in FullParagraph /\ Starts(q, x, B)
  <2>1. n \in Seq(Word)
    BY EmptyIn
  <2> HIDE DEF n
  <2>2. Around(n, x, B) \in FullParagraph
    BY <1>1, <2>1, FlatParagraphIs
  <2> QED BY <2>2 DEF Starts, n
<1>3. HasParagraph(s, X, q, R) /\ s.cw = 1
  <2>1. Len(<<>>) = 0
    BY EmptySeq
  <2> QED BY <2>1 DEF HasWord
<1>4. s.paras = Around(X, q, R)
  BY <1>3 DEF HasParagraph
<1> HIDE DEF q, n
<1>5. /\ HasWord(t, P, F, y, <<>>, Around(<<>>, q, R)) /\ KeepsMark(s, t) /\ t.paras = s.paras
  BY <1>1, <1>2, <1>3, PreviousEnd
<1> HIDE DEF t
<1>6. HasWord(h, P, F, r.word, B, R) /\ h.co = r.stop /\ KeepsMark(t, h)
  BY <1>1, <1>2, <1>4, <1>5, JoinedNext
<1> HIDE DEF h
<1>7. /\ r.word \in Word /\ r.stop \in 1 .. Len(r.word) + 1
      /\ TextTo(r.word, r.stop) = GetWordText(y) /\ TextFrom(r.word, r.stop) = GetWordText(x)
  BY <1>1, InsertedBefore
<1> HIDE DEF r
<1>8. Exactly(h, Pre(P, F) \o GetWordText(y), GetWordText(x) \o Post(B, R))
  BY <1>6, <1>7 DEF Exactly, Ahead, Rest
<1>9. Rejoined(s) = h /\ KeepsMark(s, h)
  BY <1>5, <1>6 DEF Rejoined, h, t, KeepsMark
<1> QED BY <1>8, <1>9

(* A space, put between them again. *)
LEMMA RespacedAt ==
  ASSUME NEW h, NEW t, NEW u, Exactly(h, t, u), Marked(h), NEW hint
  PROVE  Exactly(SplitCurrentWord(h, hint), t \o <<SP>>, u)
<1>1. PICK P, A, w, B, R :
        /\ HasWord(h, P, A, w, B, R) /\ h.co \in 1 .. Len(w) + 1
        /\ Ahead(P, A, w, h.co) = t /\ Rest(w, h.co, B, R) = u
  BY DEF Exactly
<1> DEFINE l == LeftOf(w, h.co)
           r == RightOf(w, h.co)
           s == SplitCurrentWord(h, hint)
           L == With(A, l)
<1>2. /\ P \in Seq(FullParagraph) /\ R \in Seq(FullParagraph)
      /\ A \in Seq(Word) /\ B \in Seq(Word) /\ w \in Word
  BY <1>1 DEF HasWord, IsZip
<1>3. h.co \in Nat \ {0} /\ h.co <= Len(w) + 1
  BY <1>1, <1>2, WordIs
<1>4. HasWord(s, P, L, r, B, R) /\ s.co = 1
  BY <1>1, <1>3, SplitWordAt
<1>5. GetWordText(l) = TextTo(w, h.co) /\ l \in Word /\ r \in Word
  BY <1>1, <1>2, <1>3, LeftOfWord, HalvesAre
<1>6. GetWordText(r) = TextFrom(w, h.co)
  <2> DEFINE n == <<>>
  <2>1. n \in Seq(Word) /\ ~NonEmpty(n)
    BY EmptyIn DEF NonEmpty
  <2> HIDE DEF n
  <2>2. GetWordText(Remains(n, w, h.co)) = TextFrom(w, h.co)
    BY <1>2, <1>3, <2>1, CutIs
  <2> QED BY <2>1, <2>2 DEF Remains
<1> HIDE DEF l, r, s
<1>7. /\ TextTo(r, 1) = <<>> /\ TextFrom(r, 1) = GetWordText(r) /\ 1 \in 1 .. Len(r) + 1
  <2>1. 1 \in 1 .. Len(r) + 1
    BY <1>5, WordIs
  <2> QED BY <1>5, <2>1, TextSplits
<1>8. Ahead(P, L, r, 1) = t \o <<SP>>
  <2>1. Pre(P, L) = (Pre(P, A) \o GetWordText(l)) \o <<SP>>
    BY <1>2, <1>5, PreIs DEF With
  <2>2. Pre(P, A) \o GetWordText(l) = t
    BY <1>1, <1>5 DEF Ahead
  <2>3. L \in Seq(Word)
    BY <1>2, <1>5, WithHas
  <2> HIDE DEF L
  <2>4. Pre(P, L) \in Seq(Symbol)
    BY <1>2, <1>5, <2>3, PreIs
  <2>5. Pre(P, L) \o <<>> = Pre(P, L)
    BY <2>4, ConcatEmptySeq
  <2> QED BY <1>7, <2>1, <2>2, <2>5 DEF Ahead
<1>9. Rest(r, 1, B, R) = u
  BY <1>1, <1>6, <1>7 DEF Rest
<1> HIDE DEF L
<1> QED BY <1>4, <1>7, <1>8, <1>9 DEF Exactly, s

Respaced(s, A, o) == IF o = 1 /\ NonEmpty(A) THEN SplitCurrentWord(s, Plain) ELSE s

(* The text before the selection is whole again, with the rest behind it.   *)
LEMMA Healed ==
  ASSUME NEW P \in Seq(FullParagraph), NEW L \in FullParagraph, NEW A \in Seq(Word),
         NEW w \in Word, NEW o \in 1 .. Len(w) + 1, Closed(L, A, w, o),
         NEW x, NEW B, NEW R, NEW s, HasWord(s, With(P, L), <<>>, x, B, R), Marked(s)
  PROVE  Exactly(Respaced(Rejoined(s), A, o), Ahead(P, A, w, o), GetWordText(x) \o Post(B, R))
<1> DEFINE h == Rejoined(s)
           u == GetWordText(x) \o Post(B, R)
<1>1. CASE o = 1 /\ NonEmpty(A)
  <2>1. L = A
    BY <1>1 DEF Closed
  <2>2. PICK F \in Seq(Word), y \in Word : L = With(F, y)
    BY LastWord
  <2> DEFINE t == Pre(P, F) \o GetWordText(y)
  <2>3. Exactly(h, t, u) /\ KeepsMark(s, h)
    BY <2>2, RejoinedAt
  <2>4. Marked(h)
    BY <2>3 DEF KeepsMark, Marked
  <2> HIDE DEF h, u, t
  <2>5. Exactly(SplitCurrentWord(h, Plain), t \o <<SP>>, u)
    BY <2>3, <2>4, RespacedAt
  <2>6. Ahead(P, A, w, 1) = t \o <<SP>>
    <3>1. Pre(P, A) = t \o <<SP>>
      <4>1. Pre(P, With(F, y)) = (Pre(P, F) \o GetWordText(y)) \o <<SP>>
        BY PreIs DEF With
      <4> QED BY <2>1, <2>2, <4>1 DEF t
    <3>2. Pre(P, A) \in Seq(Symbol)
      BY PreIs
    <3>3. TextTo(w, 1) = <<>>
      BY TextSplits
    <3>4. Pre(P, A) \o <<>> = Pre(P, A)
      BY <3>2, ConcatEmptySeq
    <3> QED BY <3>1, <3>3, <3>4 DEF Ahead
  <2> QED BY <1>1, <2>5, <2>6 DEF Respaced, h, u
<1>2. CASE ~(o = 1 /\ NonEmpty(A))
  <2>1. PICK l \in Word : L = With(A, l) /\ GetWordText(l) = TextTo(w, o)
    BY <1>2 DEF Closed
  <2>2. Exactly(h, Pre(P, A) \o GetWordText(l), u)
    BY <2>1, RejoinedAt
  <2> HIDE DEF h, u
  <2> QED BY <1>2, <2>1, <2>2 DEF Respaced, h, u, Ahead
<1> QED BY <1>1, <1>2

-----------------------------------------------------------------------------
(* The selection of a document whose ends are at a and b is deleted.        *)

Selects(d, a, b) ==
  /\ IsDoc(d) /\ Marked(d) /\ d.paras \in Seq(FullParagraph)
  /\ PlaceIn(d.paras, a) /\ PlaceIn(d.paras, b)
  /\ WordAt(d.paras, a) /\ WordAt(d.paras, b) /\ InOrder(a, b)
  /\ a[1] = b[1] /\ a[2] = b[2] => Canonical(d.paras[b[1]][b[2]])

(* Cmd.Delete, but for the mark. *)
Taken(d, a, b) ==
  LET s == Rejoined(PutParagraphs(SplitAt(SplitAt(d, b), a), b[1] - a[1] + 1, <<>>))
  IN  IF a[3] = 1 /\ a[2] > 1 THEN SplitCurrentWord(s, Plain) ELSE s

(* The first split, at the end of the selection. *)
LEMMA FirstSplit ==
  ASSUME NEW d, IsDoc(d), Marked(d), NEW P, NEW A, NEW w, NEW B, NEW R, IsZip(P, A, w, B, R),
         d.paras = ZipOf(P, A, w, B, R), NEW b, At3(b, P, A, w)
  PROVE  LET e == SplitAt(d, b)
         IN  /\ IsDoc(e) /\ Marked(e)
             /\ e.paras = Around(With(P, Cut(A, w, b[3])), Around(<<>>, Remains(A, w, b[3]), B), R)
<1> DEFINE f == At(d, b[1], b[2], b[3])
           e == SplitCurrentParagraph(f, Plain)
           o == b[3]
           i == b[1]
           j == b[2]
<1>1. i = Len(P) + 1 /\ j = Len(A) + 1 /\ o \in Nat \ {0}
  BY DEF At3
<1> HIDE DEF i, j, o
<1>2. f = At(d, i, j, o)
  BY DEF i, j, o
<1> HIDE DEF f
<1>3. IsDoc(f) /\ KeepsMark(d, f) /\ f.paras = d.paras /\ f.cp = i /\ f.cw = j /\ f.co = o
  BY <1>2, AtIs
<1>4. Marked(f)
  BY <1>3 DEF Marked, KeepsMark
<1>5. HasWord(f, P, A, w, B, R)
  BY <1>1, <1>3, HasWordIf
<1>6. /\ HasWord(e, With(P, Cut(A, w, o)), <<>>, Remains(A, w, o), B, R)
      /\ KeepsMark(f, e)
  BY <1>1, <1>3, <1>4, <1>5, SplitParagraphAt
<1> HIDE DEF e
<1>7. /\ IsDoc(e) /\ Marked(e)
      /\ e.paras = Around(With(P, Cut(A, w, o)), Around(<<>>, Remains(A, w, o), B), R)
  BY <1>4, <1>6 DEF HasWord, HasParagraph, KeepsMark, Marked
<1> QED BY <1>7 DEF SplitAt, e, f, o

LEMMA LocatedIn ==
  ASSUME NEW ps \in Seq(FullParagraph), NEW m, WordAt(ps, m)
  PROVE  \E P, A, w, B, R :
           IsZip(P, A, w, B, R) /\ ps = ZipOf(P, A, w, B, R) /\ At3(m, P, A, w) /\ w = ps[m[1]][m[2]]
<1> DEFINE P == SubSeq(ps, 1, m[1] - 1)
           R == SubSeq(ps, m[1] + 1, Len(ps))
           A == SubSeq(ps[m[1]], 1, m[2] - 1)
           B == SubSeq(ps[m[1]], m[2] + 1, Len(ps[m[1]]))
           w == ps[m[1]][m[2]]
<1>1. IsZip(P, A, w, B, R) /\ ps = ZipOf(P, A, w, B, R) /\ At3(m, P, A, w)
  BY Located
<1>2. w = ps[m[1]][m[2]]
  OBVIOUS
<1> HIDE DEF P, R, A, B, w
<1> QED BY <1>1, <1>2

(* What is left is the text before a, the cursor, and the text behind b.    *)
LEMMA TakenIs ==
  ASSUME NEW d, NEW a, NEW b, Selects(d, a, b), NEW t, t = Flat(d.paras)
  PROVE  /\ Exactly(Taken(d, a, b), SubSeq(t, 1, FlatPlace(d.paras, a)),
                    SubSeq(t, FlatPlace(d.paras, b) + 1, Len(t)))
         /\ Len(SubSeq(t, 1, FlatPlace(d.paras, a))) = FlatPlace(d.paras, a)
<1> DEFINE ps == d.paras
           i == b[1] - a[1]
           e == SplitAt(d, b)
           g == SplitAt(e, a)
           o == a[3]
<1>1. /\ IsDoc(d) /\ Marked(d) /\ ps \in Seq(FullParagraph)
      /\ PlaceIn(ps, a) /\ PlaceIn(ps, b) /\ WordAt(ps, a) /\ WordAt(ps, b) /\ InOrder(a, b)
      /\ a[1] = b[1] /\ a[2] = b[2] => Canonical(ps[b[1]][b[2]])
  BY DEF Selects
<1> HIDE DEF ps
<1>2. PICK P, A, w, B, R :
        IsZip(P, A, w, B, R) /\ ps = ZipOf(P, A, w, B, R) /\ At3(b, P, A, w) /\ w = ps[b[1]][b[2]]
  BY <1>1, LocatedIn
<1>3. b[3] \in 1 .. Len(w) + 1 /\ o \in 1 .. Len(ps[a[1]][a[2]]) + 1
  BY <1>1, <1>2 DEF PlaceIn
<1> DEFINE x == Remains(A, w, b[3])
           Q == With(P, Cut(A, w, b[3]))
           n == <<>>
           p == Around(n, x, B)
<1>4. IsDoc(e) /\ Marked(e) /\ e.paras = Around(Q, p, R)
  BY <1>1, <1>2, FirstSplit DEF ps
<1>5. StartIn(ps, Q, a, i)
  <2>1. a[1] = b[1] /\ a[2] = b[2] => Canonical(w)
    BY <1>1, <1>2
  <2> QED BY <1>1, <1>2, <1>3, <2>1, StartFound
<1> HIDE DEF Q, e, i
<1>6. PICK P1, A1, w1, B1, R1, M : IsStart(ps, Q, a, i, P1, A1, w1, B1, R1, M)
  BY <1>5 DEF StartIn
<1>7. /\ A \in Seq(Word) /\ w \in Word /\ B \in Seq(Word)
      /\ P \in Seq(FullParagraph) /\ R \in Seq(FullParagraph) /\ b[3] \in Nat \ {0}
  BY <1>2 DEF IsZip, At3
<1>8. x \in Word /\ GetWordText(x) = TextFrom(w, b[3])
  <2>1. Len(w) \in Nat
    BY <1>7, WordIs
  <2>2. b[3] <= Len(w) + 1
    BY <1>3, <1>7, <2>1
  <2> QED BY <1>7, <2>2, CutIs
<1> HIDE DEF x
<1>9. p \in FullParagraph
  <2>1. n \in Seq(Word)
    BY EmptyIn
  <2> HIDE DEF n
  <2> QED BY <1>7, <1>8, <2>1, FlatParagraphIs
<1> HIDE DEF n, p
<1>10. /\ KeepsMark(e, g) /\ \E L, C : IsSplit(g, P1, L, C, Around(M, p, R), A1, w1, o)
  BY <1>4, <1>6, <1>7, <1>9, SecondSplit
<1> HIDE DEF g
<1>11. PICK L, C : IsSplit(g, P1, L, C, Around(M, p, R), A1, w1, o)
  BY <1>10
<1> DEFINE X == With(P1, L)
           r == PutParagraphs(g, i + 1, <<>>)
<1>12. /\ IsZip(P1, A1, w1, B1, R1) /\ ps = ZipOf(P1, A1, w1, B1, R1) /\ At3(a, P1, A1, w1)
       /\ o \in 1 .. Len(w1) + 1 /\ M \in Seq(FullParagraph) /\ Len(M) = i
       /\ P1 \in Seq(FullParagraph) /\ A1 \in Seq(Word) /\ w1 \in Word
  BY <1>6 DEF IsStart, IsZip
<1>13. /\ HasParagraph(g, X, C, Around(M, p, R)) /\ g.cw = 1
       /\ L \in FullParagraph /\ Closed(L, A1, w1, o) /\ X \in Seq(FullParagraph)
  BY <1>11, <1>12, WithHas DEF IsSplit
<1> HIDE DEF X
<1>14. HasWord(r, X, <<>>, x, B, R) /\ KeepsMark(g, r)
  <2>1. HasParagraph(g, X, C, Around(M, Around(<<>>, x, B), R)) /\ g.cw = 1 /\ i + 1 = Len(M) + 1
    BY <1>12, <1>13 DEF p, n
  <2> QED BY <1>7, <1>8, <1>12, <1>13, <2>1, Removed
<1> HIDE DEF r
<1>15. Marked(r)
  BY <1>4, <1>10, <1>14 DEF KeepsMark, Marked
<1> DEFINE s == Respaced(Rejoined(r), A1, o)
           u == Rest(w, b[3], B, R)
           v == Ahead(P1, A1, w1, o)
<1>16. Exactly(s, v, u)
  <2>1. HasWord(r, With(P1, L), <<>>, x, B, R)
    BY <1>14 DEF X
  <2>2. Exactly(s, v, GetWordText(x) \o Post(B, R))
    BY <1>12, <1>13, <1>15, <2>1, Healed
  <2> QED BY <1>8, <2>2 DEF Rest
<1>17. Taken(d, a, b) = s
  <2>1. a[2] = Len(A1) + 1 /\ (NonEmpty(A1) <=> Len(A1) + 1 > 1)
    BY <1>12, NonEmptyIs DEF At3
  <2> QED BY <2>1 DEF Taken, Respaced, r, g, e, i
<1> HIDE DEF s, u
<1>18. FlatPlace(ps, a) = Len(v) /\ SubSeq(t, 1, Len(v)) = v
  <2> DEFINE y == Rest(w1, o, B1, R1)
  <2>1. FlatPlace(ps, a) = Len(v) /\ t = v \o y /\ v \in Seq(Symbol) /\ y \in Seq(Symbol)
    <3>1. /\ FlatPlace(ZipOf(P1, A1, w1, B1, R1), a) = Len(v) /\ Flat(ZipOf(P1, A1, w1, B1, R1)) = v \o y
          /\ v \in Seq(Symbol) /\ y \in Seq(Symbol)
      BY <1>12, ZipPlace
    <3> QED BY <1>12, <3>1 DEF ps
  <2> HIDE DEF v, y
  <2> QED BY <2>1, PartsOfConcat
<1>19. SubSeq(t, FlatPlace(ps, b) + 1, Len(t)) = u
  <2> DEFINE y == Ahead(P, A, w, b[3])
  <2>1. FlatPlace(ps, b) = Len(y) /\ t = y \o u /\ y \in Seq(Symbol) /\ u \in Seq(Symbol)
    <3>1. /\ FlatPlace(ZipOf(P, A, w, B, R), b) = Len(y) /\ Flat(ZipOf(P, A, w, B, R)) = y \o u
          /\ y \in Seq(Symbol) /\ u \in Seq(Symbol)
      <4>1. IsZip(P, A, w, B, R) /\ At3(b, P, A, w) /\ b[3] \in 1 .. Len(w) + 1
        BY <1>2, <1>3
      <4> QED BY <4>1, ZipPlace DEF u
    <3> QED BY <1>2, <3>1 DEF ps
  <2> HIDE DEF y
  <2> QED BY <2>1, PartsOfConcat
<1> HIDE DEF v
<1> QED BY <1>16, <1>17, <1>18, <1>19 DEF ps

LEMMA SameBeginning ==
  ASSUME NEW m, NEW c, m[1] = c[1], m[2] = c[2]
  PROVE  SubSeq(m, 1, 2) = SubSeq(c, 1, 2)
OBVIOUS

LEMMA SafeSelects ==
  ASSUME NEW d, Good(d), SafeSelection(d)
  PROVE  Selects(d, Start(d), End(d))
<1> DEFINE m == d.mark
           c == Cursor(d)
           a == Start(d)
           b == End(d)
<1>1. /\ Marked(d) /\ PlaceIn(d.paras, m) /\ PlaceIn(d.paras, c)
      /\ SubSeq(a, 1, 2) = SubSeq(b, 1, 2) => Canonical(CurrentWord(d))
  BY DEF SafeSelection, MarkInDocument, CursorInDocument
<1>2. (a = m /\ b = c) \/ (a = c /\ b = m)
  BY DEF Start, End
<1>3. WordAt(d.paras, m)
  BY <1>1, PlaceIsWord
<1>4. WordAt(d.paras, a) /\ WordAt(d.paras, b) /\ InOrder(a, b)
  BY <1>3, EndsInOrder
<1>5. c[1] = d.cp /\ c[2] = d.cw
  BY DEF Cursor
<1> HIDE DEF m, c, a, b
<1>6. PlaceIn(d.paras, a) /\ PlaceIn(d.paras, b)
  BY <1>1, <1>2
<1>7. ASSUME a[1] = b[1], a[2] = b[2] PROVE Canonical(d.paras[b[1]][b[2]])
  <2>1. SubSeq(a, 1, 2) = SubSeq(b, 1, 2)
    BY <1>7, SameBeginning
  <2>2. Canonical(CurrentWord(d))
    BY <1>1, <2>1
  <2>3. b[1] = d.cp /\ b[2] = d.cw
    BY <1>2, <1>5, <1>7
  <2> QED BY <2>2, <2>3 DEF CurrentWord, Paragraph
<1>8. IsDoc(d) /\ d.paras \in Seq(FullParagraph)
  BY FilledIs DEF Good
<1> QED BY <1>1, <1>4, <1>6, <1>7, <1>8 DEF Selects, a, b

(* What is left by a deletion has the cursor where the selection began, and *)
(* no mark.                                                                 *)
LEMMA DeletedExactly ==
  ASSUME NEW d, Good(d), SafeSelection(d), NEW t, t = Flat(d.paras)
  PROVE  /\ Exactly(Delete(d), SubSeq(t, 1, FlatPlace(d.paras, Start(d))),
                    SubSeq(t, FlatPlace(d.paras, End(d)) + 1, Len(t)))
         /\ Len(SubSeq(t, 1, FlatPlace(d.paras, Start(d)))) = FlatPlace(d.paras, Start(d))
         /\ ~Marked(Delete(d))
<1> DEFINE a == Start(d)
           b == End(d)
           s == Taken(d, a, b)
           r == WithMark(s, NoMark)
           v == SubSeq(t, 1, FlatPlace(d.paras, a))
           u == SubSeq(t, FlatPlace(d.paras, b) + 1, Len(t))
<1>1. Selects(d, a, b)
  BY SafeSelects
<1>2. Delete(d) = r
  BY Zenon DEF Delete, SplitOff, Taken, UnsetMark, WithMark
<1> HIDE DEF a, b
<1>3. Exactly(s, v, u) /\ Len(v) = FlatPlace(d.paras, a)
  BY <1>1, TakenIs
<1> HIDE DEF s, v, u
<1>4. Exactly(r, v, u) /\ ~Marked(r)
  <2>1. PICK P, A, w, B, R :
          /\ HasWord(s, P, A, w, B, R) /\ s.co \in 1 .. Len(w) + 1
          /\ Ahead(P, A, w, s.co) = v /\ Rest(w, s.co, B, R) = u
    BY <1>3 DEF Exactly
  <2>2. IsDoc(s)
    BY <2>1, WordHere
  <2>3. IsDoc(r) /\ r.paras = s.paras /\ r.cp = s.cp /\ r.cw = s.cw /\ r.co = s.co
    BY <2>2, WithMarkIs
  <2>4. ~Marked(r)
    BY <2>2, WithMarkIs DEF Marked
  <2> HIDE DEF r
  <2>5. HasWord(r, P, A, w, B, R)
    BY <2>1, <2>3 DEF HasWord, HasParagraph
  <2> QED BY <2>1, <2>3, <2>4, <2>5 DEF Exactly
<1> QED BY <1>2, <1>3, <1>4 DEF v, u, a, b

LEMMA DeletedIs ==
  ASSUME NEW d, Good(d), SafeSelection(d)
  PROVE  LET r == Delete(d)
         IN  /\ Flat(r.paras) = Erased(d) /\ CursorInDocument(r)
             /\ FlatPlace(r.paras, Cursor(r)) = FlatPlace(d.paras, Start(d))
<1> DEFINE a == Start(d)
           r == Delete(d)
           t == Flat(d.paras)
           v == SubSeq(t, 1, FlatPlace(d.paras, a))
           u == SubSeq(t, FlatPlace(d.paras, End(d)) + 1, Len(t))
<1>1. Exactly(r, v, u) /\ Len(v) = FlatPlace(d.paras, a)
  BY DeletedExactly
<1>2. Erased(d) = v \o u
  BY DEF Erased
<1> HIDE DEF a, r, v, u
<1>3. /\ Flat(r.paras) = v \o u /\ CursorInDocument(r)
      /\ FlatPlace(r.paras, Cursor(r)) = Len(v)
  BY <1>1, ExactlyIs
<1> QED BY <1>1, <1>2, <1>3 DEF a, r

-----------------------------------------------------------------------------
(* Pasting.                                                                 *)

(* The words of a pasted paragraph, with the words behind them. *)
Followed(s, x, t, u) == Around(s, x, t) \o u = Around(s, x, t \o u)

LEMMA AroundMore ==
  ASSUME NEW S, NEW s \in Seq(S), NEW x \in S, NEW t \in Seq(S), NEW u \in Seq(S)
  PROVE  Followed(s, x, t, u)
<1> DEFINE h == s \o <<x>>
<1>1. h \in Seq(S)
  BY WithHas DEF With
<1> HIDE DEF h
<1>2. (h \o t) \o u = h \o (t \o u)
  <2>1. Groups(h, t, u)
    BY <1>1, GroupsOf
  <2> QED BY <2>1 DEF Groups
<1> QED BY <1>2 DEF Around, Followed, h

(* Two words of a paragraph become one. *)
LEMMA JoinedHere ==
  ASSUME NEW P, NEW F, NEW y, NEW x, NEW B, NEW R, NEW q, Starts(q, x, B),
         x \in Word, B \in Seq(Word), NEW t, HasWord(t, P, F, y, q, R)
  PROVE  LET r == InsertIntoWord(x, y, 1, Plain)
             h == JoinWithNextWord(t)
         IN  HasWord(h, P, F, r.word, B, R) /\ h.co = r.stop /\ KeepsMark(t, h)
<1> DEFINE r == InsertIntoWord(x, y, 1, Plain)
           words == <<r.word>>
           two == <<y, x>>
           e == PutWords(t, 2, words)
           h == WithOffset(e, r.stop)
           p == Around(F, y, q)
           L == With(F, y)
<1>1. /\ P \in Seq(FullParagraph) /\ R \in Seq(FullParagraph)
      /\ F \in Seq(Word) /\ y \in Word /\ q \in Seq(Word)
  BY DEF HasWord, IsZip
<1>2. /\ IsDoc(t) /\ t.cp = Len(P) + 1 /\ t.cw = Len(F) + 1 /\ Paragraph(t) = p /\ CurrentWord(t) = y
      /\ Len(p) = Len(F) + 1 + Len(q) /\ Len(F) \in Nat /\ HasParagraph(t, P, p, R)
  BY WordHere DEF HasWord
<1>3. Len(q) = 1 + Len(B) /\ Len(B) \in Nat
  <2> DEFINE n == <<>>
  <2>1. n \in Seq(Word) /\ Len(n) = 0
    BY EmptyIn, EmptySeq
  <2>2. q = Around(n, x, B)
    BY DEF Starts
  <2> HIDE DEF n
  <2>3. Sized(n, x, B)
    BY <2>1, SizesAre
  <2> QED BY <2>1, <2>2, <2>3 DEF Sized
<1>4. L \in Seq(Word) /\ Len(L) = Len(F) + 1
  BY <1>1, WithHas
<1>5. p = Around(L, x, B) /\ p = Three(F, two, B) /\ two \in Seq(Word) /\ Len(two) = 2
  <2> DEFINE n == <<>>
  <2>1. n \in Seq(Word)
    BY EmptyIn
  <2>2. q = Around(n, x, B)
    BY DEF Starts
  <2>3. Around(F, y, n) = L
    BY <1>1, WithIsAround
  <2> HIDE DEF n
  <2>4. Around(Around(F, y, n), x, B) = Around(F, y, Around(n, x, B))
    BY <1>1, <2>1, AroundOn
  <2>5. p = Around(L, x, B)
    BY <2>2, <2>3, <2>4
  <2>6. Around(With(F, y), x, B) = Three(F, two, B) /\ two \in Seq(Word) /\ Len(two) = 2
    BY <1>1, WithAround
  <2> QED BY <2>5, <2>6
<1> HIDE DEF p, L, two
<1>6. p[Len(F) + 2] = x
  <2>1. Around(L, x, B)[Len(L) + 1] = x
    <3>1. L \in Seq(Word) /\ x \in Word /\ B \in Seq(Word)
      BY <1>4
    <3> HIDE DEF r, words, e, h
    <3> QED BY <3>1, AroundHas
  <2> QED BY <1>2, <1>4, <1>5, <2>1
<1>7. JoinWithNextWord(t) = h
  <2>1. ~AtEnd(t) /\ t.cw # Len(Paragraph(t))
    BY <1>2, <1>3 DEF AtEnd
  <2>2. JoinWithNextWord(t) = JoinTwoWords(t)
    BY <2>1 DEF JoinWithNextWord
  <2>3. Paragraph(t)[t.cw + 1] = x
    BY <1>2, <1>6
  <2> QED BY <1>2, <2>2, <2>3 DEF JoinTwoWords, PutInserted, WithOffset
<1>8. r.word \in Word
  <2>1. 1 \in 1 .. Len(x) + 1 /\ Plain \in Style
    BY WordIs, EmptyWord
  <2> QED BY <1>1, <2>1, WordInserted
<1> HIDE DEF r
<1>9. words \in Seq(Word) /\ Around(F, r.word, B) = Three(F, words, B)
  BY <1>1, <1>8, AroundIsThree
<1> HIDE DEF words
<1>10. HasParagraph(e, P, Three(F, words, B), R) /\ KeepsPlace(t, e)
  BY <1>1, <1>2, <1>5, <1>9, PutWordsAt
<1> HIDE DEF e
<1>11. IsDoc(e) /\ e.paras = ZipOf(P, F, r.word, B, R) /\ e.cp = Len(P) + 1 /\ e.cw = Len(F) + 1
  BY <1>2, <1>9, <1>10 DEF KeepsPlace, HasParagraph, ZipOf
<1>12. /\ IsDoc(h) /\ KeepsMark(e, h)
       /\ h.paras = e.paras /\ h.cp = e.cp /\ h.cw = e.cw /\ h.co = r.stop
  BY <1>11, WithOffsetIs
<1> HIDE DEF h
<1>13. IsZip(P, F, r.word, B, R)
  BY <1>1, <1>8 DEF IsZip
<1>14. HasWord(h, P, F, r.word, B, R)
  BY <1>11, <1>12, <1>13, HasWordIf
<1>15. KeepsMark(t, h)
  BY <1>10, <1>12 DEF KeepsPlace, KeepsMark
<1> QED BY <1>7, <1>12, <1>14, <1>15 DEF r

(* Without a mark, the second half of a split word starts with the style    *)
(* hint, which has no text.                                                 *)
LEMMA SplitFreeAt ==
  ASSUME NEW d, NEW P, NEW A, NEW w, NEW B, NEW R, HasWord(d, P, A, w, B, R),
         ~Marked(d), d.co \in 1 .. Len(w) + 1, NEW hint \in Style
  PROVE  \E x \in Word :
           /\ HasWord(SplitCurrentWord(d, hint), P, With(A, LeftOf(w, d.co)), x, B, R)
           /\ KeepsMark(d, SplitCurrentWord(d, hint))
           /\ GetWordText(x) = TextFrom(w, d.co)
<1> DEFINE left == LeftOf(w, d.co)
           half == RightOf(w, d.co)
           right == StylePrime(hint) \o half
           words == <<left, right>>
           e == PutWords(d, 1, words)
           r == At(e, d.cp, d.cw + 1, 2)
           X == <<w>>
           C == With(A, left)
<1>0. /\ P \in Seq(FullParagraph) /\ R \in Seq(FullParagraph)
      /\ A \in Seq(Word) /\ B \in Seq(Word) /\ w \in Word /\ d.co \in Nat \ {0} /\ d.co <= Len(w) + 1
  BY WordIs DEF HasWord, IsZip
<1>1. left \in Word /\ half \in Word
  BY <1>0, HalvesAre
<1>2. right \in Word /\ GetWordText(right) = TextFrom(w, d.co)
  <2>1. right \in Word
    BY <1>1, WordPrimed
  <2>2. GetWordText(half) = TextFrom(w, d.co)
    <3> DEFINE n == <<>>
    <3>1. n \in Seq(Word) /\ ~NonEmpty(n)
      BY EmptyIn DEF NonEmpty
    <3> HIDE DEF n
    <3>2. GetWordText(Remains(n, w, d.co)) = TextFrom(w, d.co)
      BY <1>0, <3>1, CutIs
    <3> QED BY <3>1, <3>2 DEF Remains
  <2> HIDE DEF half
  <2>3. Words!GetWordText(Words!StylePrime(hint) \o half) = Words!GetWordText(half)
    BY <1>1, SameWords, Words!TextPrimed
  <2> QED BY <2>1, <2>2, <2>3, SameText, SameOperations
<1>3. SplitCurrentWord(d, hint) = r
  <2>1. CurrentWord(d) = w
    BY WordHere
  <2> QED BY <2>1 DEF SplitCurrentWord, LeftOf, RightOf
<1> HIDE DEF left, right
<1>4. /\ Around(C, right, B) = Three(A, words, B) /\ words \in Seq(Word)
      /\ Around(A, w, B) = Three(A, X, B) /\ X \in Seq(Word) /\ Len(X) = 1
      /\ C \in Seq(Word) /\ Len(C) = Len(A) + 1
  <2>1. Around(C, right, B) = Three(A, words, B) /\ words \in Seq(Word)
    BY <1>0, <1>1, <1>2, WithAround
  <2>2. Around(A, w, B) = Three(A, X, B) /\ X \in Seq(Word) /\ Len(X) = 1
    BY <1>0, AroundIsThree
  <2>3. C \in Seq(Word) /\ Len(C) = Len(A) + 1
    BY <1>0, <1>1, WithHas
  <2> QED BY <2>1, <2>2, <2>3
<1> HIDE DEF words, X, C
<1>5. HasParagraph(e, P, Three(A, words, B), R) /\ KeepsPlace(d, e)
  <2>1. HasParagraph(d, P, Around(A, w, B), R) /\ d.cw = Len(A) + 1
    BY DEF HasWord
  <2> QED BY <1>0, <1>4, <2>1, PutWordsAt
<1> HIDE DEF e
<1>6. IsDoc(e) /\ e.paras = ZipOf(P, C, right, B, R) /\ d.cp = Len(P) + 1 /\ d.cw = Len(A) + 1
  BY <1>4, <1>5, WordHere DEF HasParagraph, ZipOf
<1>7. /\ IsDoc(r) /\ KeepsMark(e, r)
      /\ r.paras = e.paras /\ r.cp = d.cp /\ r.cw = d.cw + 1
  BY <1>6, AtIs
<1> HIDE DEF r
<1>8. IsZip(P, C, right, B, R)
  BY <1>0, <1>2, <1>4 DEF IsZip
<1>9. HasWord(r, P, C, right, B, R)
  BY <1>4, <1>6, <1>7, <1>8, HasWordIf
<1>10. KeepsMark(d, r)
  BY <1>5, <1>7 DEF KeepsPlace, KeepsMark
<1> QED BY <1>2, <1>3, <1>9, <1>10 DEF C, left

(* A paragraph has a first word. *)
LEMMA FirstWord ==
  ASSUME NEW p \in FullParagraph
  PROVE  \E f \in Word, D \in Seq(Word) : Starts(p, f, D) /\ Len(p) = 1 + Len(D)
<1> DEFINE a == SubSeq(p, 1, 1 - 1)
           D == SubSeq(p, 1 + 1, Len(p))
           f == p[1]
           n == <<>>
<1>1. p \in Seq(Word) /\ 1 \in 1 .. Len(p)
  BY FullParagraphSeq
<1>2. a \in Seq(Word) /\ D \in Seq(Word) /\ f \in Word /\ p = a \o <<f>> \o D
  BY <1>1, CutAt
<1>3. a = n
  BY <1>1
<1>4. n \in Seq(Word) /\ Len(n) = 0
  BY EmptyIn, EmptySeq
<1> HIDE DEF a, D, f, n
<1>5. p = Around(n, f, D)
  BY <1>2, <1>3 DEF Around
<1>6. Len(Around(n, f, D)) = Len(n) + 1 + Len(D) /\ Len(D) \in Nat
  <2>1. Sized(n, f, D)
    BY <1>2, <1>4, SizesAre
  <2> QED BY <2>1 DEF Sized
<1>7. Starts(p, f, D)
  BY <1>5 DEF Starts, n
<1>8. Len(p) = 1 + Len(D)
  BY <1>4, <1>5, <1>6
<1> QED BY <1>2, <1>7, <1>8

(* What is left of the first character is nothing, and takes no room.       *)
LEMMA NothingInserted ==
  ASSUME NEW w \in Word, NEW f \in Word
  PROVE  LeftOf(w, 1) = <<>> /\ InsertIntoWord(f, LeftOf(w, 1), 1, Plain).stop = 1
<1>1. Len(w) \in Nat /\ Len(<<>>) = 0
  BY WordIs, EmptyWord
<1>2. LeftOf(w, 1) = <<>>
  <2> DEFINE n == Len(w)
             s == State(Plain, Plain)
             t == [s EXCEPT !.sstate = StyleAt(w, n + 1)]
  <2>1. s.out = <<>> /\ t.out = <<>>
    BY DEF State
  <2>2. ~(1 > n + 1) /\ 1 - 1 < 1 /\ n < n + 1 /\ 1 - 1 = 0
    BY <1>1
  <2>3. CopyRange(s, w, 1, 1 - 1) = s
    BY <2>2 DEF CopyRange
  <2>4. CopyRange(t, w, n + 1, n) = t
    BY <2>2 DEF CopyRange
  <2>5. (IF n + 1 > 1 THEN n + 1 ELSE 1) = n + 1
    BY <1>1
  <2> HIDE DEF n, s
  <2>6. DeleteFromWord(w, 1, n + 1) = CopyRange(t, w, n + 1, n).out
    BY <2>2, <2>3, <2>5 DEF DeleteFromWord, n, s
  <2> QED BY <2>1, <2>4, <2>6 DEF LeftOf, n
<1>3. InsertIntoWord(f, <<>>, 1, Plain).stop = 1
  <2> DEFINE s == State(Plain, Plain)
             t == [s EXCEPT !.sstate = Plain]
  <2>1. t.out = <<>>
    BY DEF State
  <2>2. CopyRange(s, f, 1, 1 - 1) = s /\ CopyRange(t, <<>>, 1, Len(<<>>)) = t
    BY <1>1 DEF CopyRange
  <2> HIDE DEF s
  <2>3. InsertIntoWord(f, <<>>, 1, Plain).stop = Len(CopyRange(t, <<>>, 1, Len(<<>>)).out) + 1
    BY <2>2 DEF InsertIntoWord, s
  <2> HIDE DEF t
  <2>4. CopyRange(t, <<>>, 1, Len(<<>>)).out = <<>>
    BY <2>1, <2>2
  <2> QED BY <1>1, <2>3, <2>4
<1> QED BY <1>2, <1>3

(* The first pasted paragraph p is put between the halves of the word, and  *)
(* its first word joined to the left one.                                   *)
PastFirst(d, p, s) ==
  WithWord(JoinWithNextWord(WithWord(PutWords(s, 0, p), d.cw)), d.cw + Len(p))

(* With the words q before it, the cursor is at a word with the text after  *)
(* the offset o of w; before that is p.                                     *)
IsPut(f, P, A, w, o, B, R, p, q, x) ==
  /\ HasWord(f, P, q, x, B, R) /\ (o = 1 => f.co = 1)
  /\ q \in FullParagraph /\ x \in Word /\ GetWordText(x) = TextFrom(w, o)
  /\ FlatParagraph(q) = (Lead(A) \o TextTo(w, o)) \o FlatParagraph(p)

(* The cursor is put at the first half. *)
LEMMA FirstPut ==
  ASSUME NEW s, NEW P, NEW A, NEW l \in Word, NEW x, NEW B, NEW R,
         HasWord(s, P, With(A, l), x, B, R), A \in Seq(Word),
         NEW p \in FullParagraph, NEW f \in Word, NEW D \in Seq(Word), Starts(p, f, D)
  PROVE  HasWord(WithWord(PutWords(s, 0, p), Len(A) + 1), P, A, l,
                 Around(<<>>, f, D \o Around(<<>>, x, B)), R)
<1> DEFINE C == With(A, l)
           n == <<>>
           T == Around(n, x, B)
           Q == Around(n, f, D \o T)
           e == PutWords(s, 0, p)
           g == WithWord(e, Len(A) + 1)
<1>1. /\ P \in Seq(FullParagraph) /\ R \in Seq(FullParagraph)
      /\ B \in Seq(Word) /\ x \in Word /\ n \in Seq(Word) /\ p \in Seq(Word) /\ Len(n) = 0
  BY EmptyIn, EmptySeq, FullParagraphSeq DEF HasWord, IsZip
<1>2. C \in Seq(Word) /\ T \in Seq(Word) /\ p = Around(n, f, D)
  <2>1. p = Around(n, f, D)
    BY DEF Starts
  <2> HIDE DEF n
  <2> QED BY <1>1, <2>1, WithHas, AroundHas
<1>3. Around(C, x, B) = C \o T
  <2> HIDE DEF C
  <2> QED BY <1>1, <1>2, AroundNothing
<1> HIDE DEF T
<1>4. /\ C \o T = Three(C, n, T) /\ Three(C, p, T) = Around(A, l, Q) /\ Q \in Seq(Word)
      /\ D \o T \in Seq(Word)
  <2>1. C \o n = C
    BY <1>2, EmptyAround
  <2> HIDE DEF n
  <2>2. p \o T = Q
    <3>1. n \in Seq(Word) /\ T \in Seq(Word)
      BY <1>1, <1>2
    <3>2. Around(n, f, D) \o T = Around(n, f, D \o T)
      <4> HIDE DEF C, Q, e, g
      <4>1. Followed(n, f, D, T)
        BY <3>1, AroundMore
      <4> QED BY <4>1 DEF Followed
    <3> QED BY <1>2, <3>2
  <2>3. (C \o p) \o T = C \o (p \o T)
    <3>1. C \in Seq(Word) /\ p \in Seq(Word) /\ T \in Seq(Word)
      BY <1>1, <1>2
    <3> HIDE DEF C, Q, e, g
    <3>2. Groups(C, p, T)
      BY <3>1, GroupsOf
    <3> QED BY <3>2 DEF Groups
  <2>4. Q \in Seq(Word) /\ D \o T \in Seq(Word)
    <3>1. D \o T \in Seq(Word)
      BY <1>2, ConcatProperties
    <3> QED BY <1>1, <3>1, AroundHas
  <2> HIDE DEF Q
  <2> QED BY <2>1, <2>2, <2>3, <2>4 DEF Three, Around, With
<1> HIDE DEF Q
<1>5. HasParagraph(e, P, Around(A, l, Q), R) /\ KeepsPlace(s, e)
  <2>1. HasParagraph(s, P, Around(C, x, B), R) /\ s.cw = Len(C) + 1
    BY DEF HasWord
  <2> HIDE DEF C
  <2>2. Around(C, x, B) = Three(C, n, T) /\ n \in Seq(Word) /\ 0 = Len(n)
    BY <1>1, <1>3, <1>4
  <2> HIDE DEF n, g
  <2>3. HasParagraph(e, P, Three(C, p, T), R) /\ KeepsPlace(s, e)
    BY <1>1, <1>2, <2>1, <2>2, PutWordsAt
  <2> QED BY <1>4, <2>3
<1> HIDE DEF e
<1>6. IsDoc(e) /\ e.paras = ZipOf(P, A, l, Q, R) /\ e.cp = Len(P) + 1
  BY <1>5 DEF HasParagraph, ZipOf
<1>7. IsDoc(g) /\ g.paras = e.paras /\ g.cp = e.cp /\ g.cw = Len(A) + 1
  BY <1>6, WithWordIs
<1> HIDE DEF g
<1>8. IsZip(P, A, l, Q, R)
  BY <1>1, <1>4 DEF IsZip
<1>9. HasWord(g, P, A, l, Q, R)
  BY <1>6, <1>7, <1>8, HasWordIf
<1> QED BY <1>9 DEF g, e, Q, T, n

LEMMA FirstJoined ==
  ASSUME NEW d, NEW P, NEW A, NEW w, NEW B, NEW R, HasWord(d, P, A, w, B, R),
         ~Marked(d), NEW o, o = d.co, o \in 1 .. Len(w) + 1, NEW hint \in Style, NEW p \in FullParagraph
  PROVE  \E q, x : IsPut(PastFirst(d, p, SplitCurrentWord(d, hint)), P, A, w, o, B, R, p, q, x)
<1> DEFINE s == SplitCurrentWord(d, hint)
           l == LeftOf(w, o)
           n == <<>>
           e == WithWord(PutWords(s, 0, p), d.cw)
           h == JoinWithNextWord(e)
           k == d.cw + Len(p)
           g == WithWord(h, k)
<1>1. /\ P \in Seq(FullParagraph) /\ R \in Seq(FullParagraph)
      /\ A \in Seq(Word) /\ w \in Word /\ B \in Seq(Word) /\ o \in Nat \ {0} /\ n \in Seq(Word)
  BY WordIs, EmptyIn DEF HasWord, IsZip
<1>2. PICK x \in Word : HasWord(s, P, With(A, l), x, B, R) /\ GetWordText(x) = TextFrom(w, o)
  BY <1>1, SplitFreeAt
<1>3. l \in Word /\ GetWordText(l) = TextTo(w, o)
  BY <1>1, HalvesAre, LeftOfWord
<1>4. PICK f \in Word, D \in Seq(Word) : Starts(p, f, D) /\ Len(p) = 1 + Len(D)
  BY FirstWord
<1> DEFINE r == InsertIntoWord(f, l, 1, Plain)
           j == r.word
           T == Around(n, x, B)
           q == Around(A, j, D)
<1>5. o = 1 => r.stop = 1
  BY <1>1, NothingInserted
<1> HIDE DEF l, s
<1>6. d.cw = Len(A) + 1 /\ Len(A) \in Nat /\ d.cp = Len(P) + 1
  BY WordHere
<1>7. HasWord(e, P, A, l, Around(n, f, D \o T), R)
  BY <1>1, <1>2, <1>3, <1>4, <1>6, FirstPut
<1> HIDE DEF e
<1>8. T \in Seq(Word) /\ D \o T \in Seq(Word)
  <2>1. T \in Seq(Word)
    <3> HIDE DEF n
    <3> QED BY <1>1, AroundHas
  <2> HIDE DEF T
  <2> QED BY <2>1, ConcatProperties
<1> HIDE DEF T
<1>9. HasWord(h, P, A, j, D \o T, R) /\ h.co = r.stop
  <2> DEFINE V == D \o T
             Q == Around(n, f, V)
  <2>1. HasWord(e, P, A, l, Q, R) /\ Starts(Q, f, V) /\ f \in Word /\ V \in Seq(Word)
    BY <1>7, <1>8 DEF Starts
  <2> HIDE DEF n, V, Q, q, g, h, j, r
  <2>2. LET u == InsertIntoWord(f, l, 1, Plain)
            v == JoinWithNextWord(e)
        IN  HasWord(v, P, A, u.word, V, R) /\ v.co = u.stop
    BY <2>1, JoinedHere
  <2> QED BY <2>2 DEF V, h, j, r
<1> HIDE DEF h
<1>10. j \in Word /\ GetWordText(j) = TextTo(w, o) \o GetWordText(f)
  <2>1. /\ r.word \in Word /\ r.stop \in 1 .. Len(r.word) + 1
        /\ TextTo(r.word, r.stop) = GetWordText(l) /\ TextFrom(r.word, r.stop) = GetWordText(f)
    BY <1>3, InsertedBefore
  <2> HIDE DEF r
  <2>2. GetWordText(r.word) = TextTo(r.word, r.stop) \o TextFrom(r.word, r.stop)
    BY <2>1, TextSplits
  <2> QED BY <1>3, <2>1, <2>2
<1> HIDE DEF r, j
<1>11. q \in FullParagraph /\ FlatParagraph(q) = Three(Lead(A), GetWordText(j), Trail(D))
  BY <1>1, <1>10, FlatParagraphIs
<1>12. FlatParagraph(q) = (Lead(A) \o TextTo(w, o)) \o FlatParagraph(p)
  <2> DEFINE a == Lead(A)
             b == TextTo(w, o)
             c == GetWordText(f)
             t == Trail(D)
             v == FlatParagraph(p)
  <2>1. a \in Seq(Symbol) /\ b \in Seq(Symbol) /\ c \in Seq(Symbol) /\ t \in Seq(Symbol)
    BY <1>1, LeadIs, TextSplits, WordTextIs
  <2>2. v = c \o t
    <3>1. p = Around(n, f, D)
      BY <1>4 DEF Starts
    <3>2. Lead(n) = n
      BY <1>1, <1>10, LeadIs
    <3>3. n \o c = c
      BY <2>1, EmptyAround
    <3> HIDE DEF n
    <3>4. FlatParagraph(Around(n, f, D)) = Three(Lead(n), c, t)
      BY <1>1, FlatParagraphIs
    <3> QED BY <3>1, <3>2, <3>3, <3>4 DEF Three
  <2> HIDE DEF a, b, c, t, v, q, n, k, g
  <2>3. FlatParagraph(q) = (a \o (b \o c)) \o t
    BY <1>10, <1>11 DEF Three, a, b, c, t
  <2>4. a \o (b \o c) = (a \o b) \o c /\ a \o b \in Seq(Symbol)
    <3>1. Groups(a, b, c)
      BY <2>1, GroupsOf
    <3>2. (a \o b) \o c = a \o (b \o c)
      BY <3>1 DEF Groups
    <3>3. a \o b \in Seq(Symbol)
      BY <2>1, ConcatProperties
    <3> QED BY <3>2, <3>3
  <2>5. ((a \o b) \o c) \o t = (a \o b) \o (c \o t)
    <3> DEFINE u == a \o b
    <3>1. u \in Seq(Symbol)
      BY <2>4
    <3> HIDE DEF u
    <3>2. (u \o c) \o t = u \o (c \o t)
      <4>1. Groups(u, c, t)
        BY <2>1, <3>1, GroupsOf
      <4> QED BY <4>1 DEF Groups
    <3> QED BY <3>2 DEF u
  <2> QED BY <2>2, <2>3, <2>4, <2>5 DEF a, b, v
<1>13. HasWord(g, P, q, x, B, R) /\ g.co = h.co
  <2>1. IsDoc(h) /\ h.paras = ZipOf(P, A, j, D \o T, R) /\ h.cp = Len(P) + 1
    BY <1>9, WordHere
  <2>2. IsDoc(g) /\ g.paras = h.paras /\ g.cp = h.cp /\ g.cw = k /\ g.co = h.co
    BY <2>1, WithWordIs
  <2>3. k = Len(q) + 1 /\ q \in Seq(Word)
    <3>1. Len(q) = Len(A) + 1 + Len(D) /\ Len(D) \in Nat /\ q \in Seq(Word)
      BY <1>1, <1>10, AroundHas
    <3> HIDE DEF q
    <3> QED BY <1>4, <1>6, <3>1
  <2>4. Around(A, j, D \o T) = Around(q, x, B)
    <3>1. Around(A, j, D) \o T = Around(A, j, D \o T)
      <4>1. A \in Seq(Word) /\ j \in Word /\ T \in Seq(Word)
        BY <1>1, <1>8, <1>10
      <4> HIDE DEF q, g, k, n
      <4>2. Followed(A, j, D, T)
        BY <4>1, AroundMore
      <4> QED BY <4>2 DEF Followed
    <3>2. Around(q, x, B) = q \o T
      <4> HIDE DEF q
      <4> QED BY <1>1, <2>3, AroundNothing DEF T, n
    <3> QED BY <3>1, <3>2
  <2> HIDE DEF q, g, k
  <2>5. IsZip(P, q, x, B, R)
    BY <1>1, <1>2, <2>3 DEF IsZip
  <2>6. g.paras = ZipOf(P, q, x, B, R)
    BY <2>1, <2>2, <2>4 DEF ZipOf
  <2> QED BY <2>1, <2>2, <2>3, <2>5, <2>6, HasWordIf
<1>14. PastFirst(d, p, s) = g
  BY DEF PastFirst, g, h, e, k
<1> HIDE DEF g, q
<1>15. IsPut(g, P, A, w, o, B, R, p, q, x)
  BY <1>2, <1>5, <1>9, <1>11, <1>12, <1>13 DEF IsPut
<1> QED BY <1>14, <1>15 DEF s

(* Back from the beginning of a word to the end of the word before.         *)
LEMMA NoCharBefore == \A w : PrevCharInWord(w, 1) = 0
<1> SUFFICES ASSUME NEW w PROVE PrevCharInWord(w, 1) = 0
  OBVIOUS
<1>1. {i \in 1 .. 1 - 1 : ~IsCode(w[i])} = {}
  OBVIOUS
<1> QED BY <1>1 DEF PrevCharInWord

LEMMA BackInParagraph ==
  ASSUME NEW f, NEW P, NEW F \in Seq(Word), NEW y \in Word, NEW x, NEW B, NEW R,
         HasWord(f, P, With(F, y), x, B, R)
  PROVE  HasWord(GotoPreviousCharW(GotoBeginningOfWord(f)), P, F, y, Around(<<>>, x, B), R)
<1> DEFINE q == With(F, y)
           n == <<>>
           T == Around(n, x, B)
           g == WithOffset(f, 1)
           u == At(g, g.cp, g.cw - 1, 1)
           k == Len(CurrentWord(u)) + 1
           t == WithOffset(u, k)
<1>1. /\ P \in Seq(FullParagraph) /\ R \in Seq(FullParagraph)
      /\ B \in Seq(Word) /\ x \in Word /\ n \in Seq(Word)
  BY EmptyIn DEF HasWord, IsZip
<1>2. q \in Seq(Word) /\ Len(q) = Len(F) + 1 /\ Len(F) \in Nat
  BY WithHas
<1>3. T \in Seq(Word) /\ Around(q, x, B) = Around(F, y, T)
  <2>1. T \in Seq(Word)
    <3> HIDE DEF n
    <3> QED BY <1>1, AroundHas
  <2>2. Around(F, y, n) = q
    BY WithIsAround
  <2> HIDE DEF n, q
  <2>3. Around(Around(F, y, n), x, B) = Around(F, y, Around(n, x, B))
    BY <1>1, AroundOn
  <2> QED BY <2>1, <2>2, <2>3
<1> HIDE DEF q, T
<1>4. /\ IsDoc(f) /\ f.paras = ZipOf(P, q, x, B, R) /\ f.cp = Len(P) + 1 /\ f.cw = Len(q) + 1
  BY WordHere DEF q
<1>5. IsDoc(g) /\ g.paras = f.paras /\ g.cp = f.cp /\ g.cw = f.cw /\ g.co = 1
  BY <1>4, WithOffsetIs
<1> HIDE DEF g
<1>6. IsDoc(u) /\ u.paras = f.paras /\ u.cp = Len(P) + 1 /\ u.cw = Len(F) + 1
  <2>1. IsDoc(u) /\ u.paras = g.paras /\ u.cp = g.cp /\ u.cw = g.cw - 1
    BY <1>5, AtIs
  <2> HIDE DEF u
  <2> QED BY <1>2, <1>4, <1>5, <2>1
<1> HIDE DEF u, k
<1>7. IsDoc(t) /\ t.paras = f.paras /\ t.cp = Len(P) + 1 /\ t.cw = Len(F) + 1
  BY <1>6, WithOffsetIs
<1>8. t = GotoPreviousCharW(GotoBeginningOfWord(f))
  <2>1. GotoBeginningOfWord(f) = g
    BY DEF GotoBeginningOfWord, g, WithOffset
  <2>2. g.cw > 1 /\ g.cw # 1
    BY <1>2, <1>4, <1>5
  <2>3. PrevCharInWord(CurrentWord(g), g.co) = 0
    BY <1>5, NoCharBefore
  <2>4. GotoPreviousWordW(g) = u
    BY <2>2, <2>3 DEF GotoPreviousWordW, u
  <2>5. GotoPreviousCharW(g) = GotoEndOfWord(GotoPreviousWordW(g))
    BY <2>2, <2>3 DEF GotoPreviousCharW, AtStart
  <2> QED BY <2>1, <2>4, <2>5 DEF GotoEndOfWord, t, WithOffset, k
<1> HIDE DEF t
<1>9. t.paras = ZipOf(P, F, y, T, R)
  BY <1>3, <1>4, <1>7 DEF ZipOf
<1>10. IsZip(P, F, y, T, R)
  BY <1>1, <1>3 DEF IsZip
<1>11. HasWord(t, P, F, y, T, R)
  BY <1>7, <1>9, <1>10, HasWordIf
<1> QED BY <1>8, <1>11 DEF T, n

LEMMA BackToParagraph ==
  ASSUME NEW g, IsDoc(g), g.cw = 1, g.co = 1, g.cp # 1
  PROVE  GotoPreviousCharW(GotoBeginningOfWord(g)) = GotoEndOfWord(GotoPreviousWordW(g))
<1>1. GotoBeginningOfWord(g) = g
  <2> DEFINE r == WithOffset(g, 1)
  <2>1. /\ IsDoc(r) /\ KeepsMark(g, r)
        /\ r.paras = g.paras /\ r.cp = g.cp /\ r.cw = g.cw /\ r.co = g.co
    BY WithOffsetIs
  <2> HIDE DEF r
  <2>2. r = g
    BY <2>1 DEF IsDoc, KeepsMark
  <2> QED BY <2>2 DEF r, WithOffset, GotoBeginningOfWord
<1>2. PrevCharInWord(CurrentWord(g), g.co) = 0
  BY NoCharBefore
<1> QED BY <1>1, <1>2 DEF GotoPreviousCharW, AtStart

(* Two words of a paragraph become one: the text in front of the second     *)
(* ends with the first.                                                     *)
LEMMA JoinedBack ==
  ASSUME NEW f, NEW P, NEW F \in Seq(Word), NEW y \in Word, NEW x, NEW B, NEW R,
         HasWord(f, P, With(F, y), x, B, R)
  PROVE  Flat(JoinWithNextWord(GotoPreviousCharW(GotoBeginningOfWord(f))).paras)
           = (Pre(P, F) \o GetWordText(y)) \o (GetWordText(x) \o Post(B, R))
<1> DEFINE t == GotoPreviousCharW(GotoBeginningOfWord(f))
           q == Around(<<>>, x, B)
           r == InsertIntoWord(x, y, 1, Plain)
           h == JoinWithNextWord(t)
           j == r.word
<1>1. x \in Word /\ B \in Seq(Word) /\ R \in Seq(FullParagraph) /\ P \in Seq(FullParagraph)
  BY DEF HasWord, IsZip
<1>2. HasWord(t, P, F, y, q, R) /\ Starts(q, x, B)
  BY BackInParagraph DEF Starts
<1> HIDE DEF t, q, r, h
<1>3. HasWord(h, P, F, j, B, R)
  <2>1. LET s == InsertIntoWord(x, y, 1, Plain)
            v == JoinWithNextWord(t)
        IN  HasWord(v, P, F, s.word, B, R)
    BY <1>1, <1>2, JoinedHere
  <2> QED BY <2>1 DEF h, r
<1>4. j \in Word /\ GetWordText(j) = GetWordText(y) \o GetWordText(x)
  <2>1. /\ r.word \in Word /\ r.stop \in 1 .. Len(r.word) + 1
        /\ TextTo(r.word, r.stop) = GetWordText(y) /\ TextFrom(r.word, r.stop) = GetWordText(x)
    BY <1>1, InsertedBefore DEF r
  <2>2. GetWordText(r.word) = TextTo(r.word, r.stop) \o TextFrom(r.word, r.stop)
    BY <2>1, TextSplits
  <2> QED BY <2>1, <2>2
<1> HIDE DEF j
<1>5. h.paras = ZipOf(P, F, j, B, R) /\ IsZip(P, F, j, B, R)
  BY <1>3, WordHere DEF HasWord
<1> DEFINE a == Pre(P, F)
           b == GetWordText(y)
           c == GetWordText(x)
           e == Post(B, R)
<1>6. Flat(h.paras) = (a \o (b \o c)) \o e
  <2>1. Flat(ZipOf(P, F, j, B, R)) = Three(a, GetWordText(j), e)
    BY <1>5, ZipText
  <2> HIDE DEF a, e
  <2> QED BY <1>4, <1>5, <2>1 DEF Three
<1>7. a \in Seq(Symbol) /\ b \in Seq(Symbol) /\ c \in Seq(Symbol) /\ e \in Seq(Symbol)
  BY <1>1, PreIs, WordTextIs
<1> HIDE DEF a, b, c, e
<1>8. (a \o (b \o c)) \o e = (a \o b) \o (c \o e)
  <2> DEFINE u == a \o b
  <2>1. u \in Seq(Symbol)
    BY <1>7, ConcatProperties
  <2>2. Groups(a, b, c)
    BY <1>7, GroupsOf
  <2> HIDE DEF u
  <2>3. Groups(u, c, e)
    BY <1>7, <2>1, GroupsOf
  <2> QED BY <2>2, <2>3 DEF Groups, u
<1> QED BY <1>6, <1>8 DEF a, b, c, e, h, t

(* The text up to a pasted paragraph that ends the paragraphs T.            *)
Led(q, A, a, v) == FlatParagraph(q) = (Lead(A) \o a) \o v

LastPut(X, F, y, P, A, a, v, T) ==
  Pre(X, F) \o GetWordText(y) = (Pre(P, A) \o a) \o (v \o TrailP(T))

LEMMA PutText ==
  ASSUME NEW P \in Seq(FullParagraph), NEW A \in Seq(Word), NEW a \in Seq(Symbol),
         NEW v \in Seq(Symbol), NEW q \in FullParagraph, NEW T \in Seq(FullParagraph),
         Led(q, A, a, v),
         NEW X \in Seq(FullParagraph), NEW F \in Seq(Word), NEW y \in Word,
         With(X, With(F, y)) = Around(P, q, T)
  PROVE  LastPut(X, F, y, P, A, a, v, T)
<1> DEFINE l == LeadP(P)
           m == Lead(A)
           t == TrailP(T)
<1>1. Flat(Around(P, q, T)) = (l \o ((m \o a) \o v)) \o t
  <2>1. Flat(Around(P, q, T)) = Three(l, FlatParagraph(q), t)
    BY FlatIs
  <2> HIDE DEF l, t
  <2> QED BY <2>1 DEF Three, Led, m
<1>2. Flat(With(X, With(F, y))) = Pre(X, F) \o GetWordText(y)
  BY ZipToPlace DEF With
<1>3. l \in Seq(Symbol) /\ m \in Seq(Symbol) /\ t \in Seq(Symbol)
  BY EmptyWord, LeadPIs, LeadIs
<1>4. Pre(P, A) = l \o m
  BY DEF Pre
<1> HIDE DEF l, m, t
<1>5. (l \o ((m \o a) \o v)) \o t = ((l \o m) \o a) \o (v \o t)
  <2> DEFINE b == m \o a
             c == l \o b
  <2>1. b \in Seq(Symbol)
    BY <1>3, ConcatProperties
  <2>2. Groups(l, m, a)
    BY <1>3, GroupsOf
  <2> HIDE DEF b
  <2>3. c \in Seq(Symbol)
    BY <1>3, <2>1, ConcatProperties
  <2>4. Groups(l, b, v)
    BY <1>3, <2>1, GroupsOf
  <2> HIDE DEF c
  <2>5. Groups(c, v, t)
    BY <1>3, <2>3, GroupsOf
  <2> QED BY <2>2, <2>4, <2>5 DEF Groups, b, c
<1> QED BY <1>1, <1>2, <1>4, <1>5 DEF LastPut, t

(* A clipboard has a first paragraph, and documents a last one.             *)
LEMMA FirstParagraph ==
  ASSUME NEW c \in Seq(FullParagraph), NonEmpty(c)
  PROVE  \E p \in FullParagraph, T \in Seq(FullParagraph) :
           /\ c = Around(<<>>, p, T) /\ c[1] = p /\ Tail(c) = T /\ Len(c) = 1 + Len(T)
           /\ Flat(c) = FlatParagraph(p) \o TrailP(T)
<1> DEFINE a == SubSeq(c, 1, 1 - 1)
           T == SubSeq(c, 1 + 1, Len(c))
           p == c[1]
           n == <<>>
<1>1. 1 \in 1 .. Len(c) /\ c # <<>>
  BY EmptySeq DEF NonEmpty
<1>2. a \in Seq(FullParagraph) /\ T \in Seq(FullParagraph) /\ p \in FullParagraph /\ c = a \o <<p>> \o T
  BY <1>1, CutAt
<1>3. a = n /\ n \in Seq(FullParagraph) /\ Len(n) = 0
  BY EmptyIn, EmptySeq
<1>4. Tail(c) = T
  BY <1>1, TailIsSubSeq
<1> HIDE DEF a, p, T
<1>5. c = Around(n, p, T)
  BY <1>2, <1>3 DEF Around
<1> HIDE DEF n
<1>6. Len(Around(n, p, T)) = Len(n) + 1 + Len(T) /\ Len(T) \in Nat
  <2>1. Sized(n, p, T)
    BY <1>2, <1>3, SizesAre
  <2> QED BY <2>1 DEF Sized
<1>7. Flat(c) = FlatParagraph(p) \o TrailP(T)
  <2>1. Flat(Around(n, p, T)) = Three(LeadP(n), FlatParagraph(p), TrailP(T))
    BY <1>2, <1>3, FlatIs
  <2>2. LeadP(n) = <<>> /\ <<>> \o FlatParagraph(p) = FlatParagraph(p)
    <3>1. FlatParagraph(p) \in Seq(Symbol)
      BY <1>2, FullParagraphIs
    <3> QED BY <1>2, <3>1, LeadPIs, EmptyAround DEF n
  <2> QED BY <1>5, <2>1, <2>2 DEF Three
<1>8. Len(c) = 1 + Len(T) /\ c[1] = p
  BY <1>3, <1>5, <1>6 DEF p
<1> QED BY <1>2, <1>4, <1>5, <1>7, <1>8 DEF n

LEMMA LastParagraph ==
  ASSUME NEW S, NEW s \in Seq(S), NonEmpty(s)
  PROVE  \E X \in Seq(S), x \in S : s = With(X, x)
<1> DEFINE k == Len(s)
           X == SubSeq(s, 1, k - 1)
           n == SubSeq(s, k + 1, k)
<1>1. k \in 1 .. k
  BY EmptySeq DEF NonEmpty
<1>2. X \in Seq(S) /\ n \in Seq(S) /\ s[k] \in S /\ s = X \o <<s[k]>> \o n
  BY <1>1, CutAt
<1>3. n = <<>>
  OBVIOUS
<1> HIDE DEF n, X
<1>4. X \o <<s[k]>> \in Seq(S)
  BY <1>2, WithHas DEF With
<1>5. s = X \o <<s[k]>>
  BY <1>2, <1>3, <1>4, ConcatEmptySeq
<1> QED BY <1>2, <1>5 DEF With

LEMMA ParagraphsPut ==
  ASSUME NEW d, IsDoc(d), NEW S, NEW X \in Seq(S), NEW Z \in Seq(S),
         d.paras = Three(X, <<>>, Z), d.cp = Len(X) + 1, NEW T \in Seq(S)
  PROVE  LET r == PutParagraphs(d, 0, T)
         IN  r.paras = Three(X, T, Z) /\ KeepsPlace(d, r)
<1> DEFINE n == <<>>
           k == 0
<1>1. n \in Seq(S) /\ k = Len(n) /\ d.paras = Three(X, n, Z)
  BY EmptyIn, EmptySeq
<1> HIDE DEF n, k
<1>2. LET r == PutParagraphs(d, k, T)
      IN  r.paras = Three(X, T, Z) /\ KeepsPlace(d, r)
  BY <1>1, PutParagraphsAt
<1> QED BY <1>2 DEF k

(* More paragraphs T are put before the one with the cursor.                *)
LEMMA RestPut ==
  ASSUME NEW s, NEW X, NEW x, NEW B, NEW R, HasWord(s, X, <<>>, x, B, R),
         NEW T \in Seq(FullParagraph)
  PROVE  LET g == At(PutParagraphs(s, 0, T), s.cp + Len(T), 1, 1)
         IN  HasWord(g, X \o T, <<>>, x, B, R) /\ g.co = 1
<1> DEFINE n == <<>>
           q == Around(n, x, B)
           Z == Around(n, q, R)
           e == PutParagraphs(s, 0, T)
           i == s.cp + Len(T)
           g == At(e, i, 1, 1)
           Y == X \o T
<1>1. /\ X \in Seq(FullParagraph) /\ R \in Seq(FullParagraph)
      /\ B \in Seq(Word) /\ x \in Word
  BY DEF HasWord, IsZip
<1>2. n \in Seq(Word) /\ n \in Seq(FullParagraph) /\ Len(n) = 0
  BY EmptyIn, EmptySeq
<1>3. q \in FullParagraph
  <2> HIDE DEF n
  <2> QED BY <1>1, <1>2, FlatParagraphIs
<1>4. IsDoc(s) /\ s.paras = Around(X, q, R) /\ s.cp = Len(X) + 1
  BY WordHere DEF ZipOf
<1> HIDE DEF q
<1>5. Z \in Seq(FullParagraph) /\ Around(X, q, R) = X \o Z
  <2>1. Around(X, q, R) = X \o Around(<<>>, q, R)
    BY <1>1, <1>3, AroundNothing
  <2> HIDE DEF n
  <2>2. Z \in Seq(FullParagraph)
    BY <1>1, <1>2, <1>3, AroundHas
  <2> QED BY <2>1, <2>2 DEF n
<1> HIDE DEF Z
<1>6. s.paras = Three(X, n, Z)
  <2>1. X \o n = X
    BY <1>1, EmptyAround
  <2> QED BY <1>4, <1>5, <2>1 DEF Three
<1>7. e.paras = Three(X, T, Z) /\ KeepsPlace(s, e)
  <2>1. IsDoc(s) /\ s.cp = Len(X) + 1
    BY <1>4
  <2> HIDE DEF n, g, i, Y
  <2> QED BY <1>1, <1>5, <1>6, <2>1, ParagraphsPut DEF n
<1> HIDE DEF e
<1>8. Y \in Seq(FullParagraph) /\ Len(Y) = Len(X) + Len(T) /\ Len(X) \in Nat /\ Len(T) \in Nat
  BY <1>1, ConcatProperties, LenProperties
<1>9. e.paras = Around(Y, q, R)
  <2>1. Three(X, T, Z) = Y \o Z
    BY DEF Three
  <2> HIDE DEF Y
  <2>2. Around(Y, q, R) = Y \o Z
    BY <1>1, <1>3, <1>8, AroundNothing DEF Z, n
  <2> QED BY <1>7, <2>1, <2>2
<1>10. IsDoc(e)
  BY <1>7 DEF KeepsPlace
<1>11. IsDoc(g) /\ g.paras = e.paras /\ g.cp = i /\ g.cw = 1 /\ g.co = 1
  BY <1>10, AtIs
<1> HIDE DEF g, Y
<1>12. i = Len(Y) + 1
  BY <1>4, <1>8
<1>13. IsZip(Y, n, x, B, R)
  BY <1>1, <1>2, <1>8 DEF IsZip
<1>14. g.paras = ZipOf(Y, n, x, B, R)
  BY <1>9, <1>11 DEF ZipOf, q
<1>15. HasWord(g, Y, n, x, B, R)
  <2> HIDE DEF i, n
  <2> QED BY <1>2, <1>11, <1>12, <1>13, <1>14, HasWordIf
<1> QED BY <1>11, <1>15 DEF g, e, i, Y, n

(* What is pasted is put at the cursor: one paragraph, or more of them at   *)
(* the beginning of a word.                                                 *)
LEMMA PastedIs ==
  ASSUME NEW d, NEW t, NEW u, Exactly(d, t, u), ~Marked(d), NEW hint \in Style,
         NEW c \in Seq(FullParagraph), NonEmpty(c), Len(c) = 1 \/ d.co = 1
  PROVE  Flat(Pasted(d, c, hint).paras) = (t \o Flat(c)) \o u
<1>1. PICK P, A, w, B, R :
        /\ HasWord(d, P, A, w, B, R) /\ d.co \in 1 .. Len(w) + 1
        /\ Ahead(P, A, w, d.co) = t /\ Rest(w, d.co, B, R) = u
  BY DEF Exactly
<1>2. /\ P \in Seq(FullParagraph) /\ R \in Seq(FullParagraph)
      /\ A \in Seq(Word) /\ w \in Word /\ B \in Seq(Word)
  BY <1>1 DEF HasWord, IsZip
<1>3. PICK p \in FullParagraph, T \in Seq(FullParagraph) :
        /\ c = Around(<<>>, p, T) /\ c[1] = p /\ Tail(c) = T /\ Len(c) = 1 + Len(T)
        /\ Flat(c) = FlatParagraph(p) \o TrailP(T)
  BY FirstParagraph
<1> DEFINE s == SplitCurrentWord(d, hint)
           f == PastFirst(d, p, s)
           o == d.co
<1>4. PICK q, x : IsPut(f, P, A, w, o, B, R, p, q, x)
  BY <1>1, FirstJoined
<1>5. /\ HasWord(f, P, q, x, B, R) /\ (o = 1 => f.co = 1)
      /\ q \in FullParagraph /\ x \in Word /\ GetWordText(x) = TextFrom(w, o)
      /\ FlatParagraph(q) = (Lead(A) \o TextTo(w, o)) \o FlatParagraph(p)
  BY <1>4 DEF IsPut
<1>6. PutIn(d, c, hint) =
        IF Len(c) = 1 THEN f
        ELSE LET g == SplitCurrentParagraph(f, hint)
             IN  At(PutParagraphs(g, 0, T), g.cp + Len(c) - 1, 1, 1)
  BY <1>3, Zenon DEF PutIn, f, s, PastFirst, WithWord
<1> HIDE DEF f, s
(* In either case the words y and x are joined, of which y ends what was     *)
(* pasted.                                                                  *)
<1> DEFINE Ends(X, F, y) ==
             /\ X \in Seq(FullParagraph) /\ F \in Seq(Word) /\ y \in Word
             /\ With(X, With(F, y)) = Around(P, q, T)
             /\ Flat(Pasted(d, c, hint).paras)
                  = (Pre(X, F) \o GetWordText(y)) \o (GetWordText(x) \o Post(B, R))
<1>7. ASSUME Len(c) = 1
      PROVE  \E X, F, y : Ends(X, F, y)
  <2>1. T = <<>>
    <3>1. Len(T) = 0
      BY <1>3, <1>7, LenProperties
    <3> QED BY <3>1, EmptySeq
  <2>2. PICK F \in Seq(Word), y \in Word : q = With(F, y)
    BY <1>5, LastWord
  <2>3. Flat(Pasted(d, c, hint).paras)
          = (Pre(P, F) \o GetWordText(y)) \o (GetWordText(x) \o Post(B, R))
    <3>1. Pasted(d, c, hint) = JoinWithNextWord(GotoPreviousCharW(GotoBeginningOfWord(f)))
      BY <1>6, <1>7 DEF Pasted
    <3>2. HasWord(f, P, With(F, y), x, B, R)
      BY <1>5, <2>2
    <3>3. Flat(JoinWithNextWord(GotoPreviousCharW(GotoBeginningOfWord(f))).paras)
            = (Pre(P, F) \o GetWordText(y)) \o (GetWordText(x) \o Post(B, R))
      BY <3>2, JoinedBack
    <3> QED BY <3>1, <3>3
  <2>4. With(P, With(F, y)) = Around(P, q, T)
    <3>1. With(P, q) = Around(P, q, <<>>)
      BY <1>2, <1>5, WithIsAround
    <3> QED BY <2>1, <2>2, <3>1
  <2>5. Ends(P, F, y)
    BY <1>2, <2>3, <2>4
  <2> HIDE DEF Ends
  <2> QED BY <2>5
<1>8. ASSUME Len(c) # 1
      PROVE  \E X, F, y : Ends(X, F, y)
  <2> DEFINE g == SplitCurrentParagraph(f, hint)
             Q == With(P, q)
             Y == Q \o T
             h == At(PutParagraphs(g, 0, T), g.cp + Len(T), 1, 1)
  <2>1. NonEmpty(q) /\ q \in Seq(Word) /\ Len(q) \in Nat \ {0}
    BY <1>5, FullParagraphSeq DEF FullParagraph, NonEmpty
  <2>2. g = SplitBeforeWord(f)
    <3>1. f.cw = Len(q) + 1 /\ f.co = 1
      BY <1>5, <1>8, WordHere
    <3> QED BY <2>1, <3>1 DEF SplitCurrentParagraph
  <2>3. HasWord(g, Q, <<>>, x, B, R)
    BY <1>5, <2>1, <2>2, SplitBeforeWordAt
  <2> HIDE DEF g
  <2>4. HasWord(h, Y, <<>>, x, B, R) /\ h.co = 1
    BY <2>3, RestPut
  <2>5. Y = Around(P, q, T) /\ Y \in Seq(FullParagraph) /\ Len(Y) \in Nat \ {0}
    <3>1. Y = Around(P, q, T)
      BY DEF Around, With
    <3>2. Around(P, q, T) \in Seq(FullParagraph) /\ Len(Around(P, q, T)) = Len(P) + 1 + Len(T)
      <4> HIDE DEF Y, h
      <4> QED BY <1>2, <1>5, AroundHas
    <3>3. Len(P) \in Nat /\ Len(T) \in Nat
      BY <1>2, LenProperties
    <3> HIDE DEF Y
    <3> QED BY <3>1, <3>2, <3>3
  <2> HIDE DEF Y, h
  <2>6. NonEmpty(Y)
    <3>1. Len(<<>>) = 0
      BY EmptySeq
    <3> QED BY <2>5, <3>1 DEF NonEmpty
  <2>7. PICK X \in Seq(FullParagraph), L \in FullParagraph : Y = With(X, L)
    BY <2>5, <2>6, LastParagraph
  <2>8. PICK F \in Seq(Word), y \in Word : L = With(F, y)
    BY LastWord
  <2>9. Pasted(d, c, hint) = Rejoined(h)
    <3>1. PutIn(d, c, hint) = h
      <4>1. g.cp + Len(c) - 1 = g.cp + Len(T)
        <5>1. g.cp = Len(Q) + 1
          BY <2>3, WordHere
        <5>2. Len(Q) \in Nat /\ Len(T) \in Nat
          BY <1>2, <1>5, WithHas, LenProperties
        <5>3. Len(c) = 1 + Len(T)
          BY <1>3
        <5> HIDE DEF Q
        <5> QED BY <5>1, <5>2, <5>3
      <4> QED BY <1>6, <1>8, <4>1 DEF h, g
    <3>2. IsDoc(h) /\ h.cw = 1 /\ h.cp # 1
      <4>1. IsDoc(h) /\ h.cp = Len(Y) + 1 /\ h.cw = Len(<<>>) + 1
        BY <2>4, WordHere
      <4>2. Len(<<>>) = 0
        BY EmptySeq
      <4> QED BY <2>5, <4>1, <4>2
    <3> QED BY <2>4, <3>1, <3>2, BackToParagraph DEF Pasted, Rejoined
  <2>10. Flat(Pasted(d, c, hint).paras)
           = (Pre(X, F) \o GetWordText(y)) \o (GetWordText(x) \o Post(B, R))
    <3>1. HasWord(h, With(X, With(F, y)), <<>>, x, B, R)
      BY <2>4, <2>7, <2>8
    <3>2. Exactly(Rejoined(h), Pre(X, F) \o GetWordText(y), GetWordText(x) \o Post(B, R))
      BY <3>1, RejoinedAt
    <3> QED BY <2>9, <3>2, ExactlyIs
  <2>11. Ends(X, F, y)
    BY <2>5, <2>7, <2>8, <2>10
  <2> HIDE DEF Ends
  <2> QED BY <2>11
<1>9. PICK X, F, y : Ends(X, F, y)
  <2> HIDE DEF Ends
  <2>1. \E X, F, y : Ends(X, F, y)
    BY <1>7, <1>8
  <2> QED BY <2>1
<1> DEFINE a == TextTo(w, o)
           v == FlatParagraph(p)
<1>10. /\ X \in Seq(FullParagraph) /\ F \in Seq(Word) /\ y \in Word
       /\ With(X, With(F, y)) = Around(P, q, T)
       /\ Flat(Pasted(d, c, hint).paras)
            = (Pre(X, F) \o GetWordText(y)) \o (GetWordText(x) \o Post(B, R))
  BY <1>9
<1> HIDE DEF Ends
<1>11. Pre(X, F) \o GetWordText(y) = (Pre(P, A) \o a) \o (v \o TrailP(T))
  <2>1. a \in Seq(Symbol) /\ v \in Seq(Symbol)
    BY <1>1, <1>2, TextSplits, FullParagraphIs
  <2>2. Led(q, A, a, v)
    BY <1>5 DEF Led
  <2> HIDE DEF a, v
  <2>3. LastPut(X, F, y, P, A, a, v, T)
    BY <1>2, <1>5, <1>10, <2>1, <2>2, PutText
  <2> QED BY <2>3 DEF LastPut
<1> QED BY <1>1, <1>3, <1>5, <1>10, <1>11 DEF Ahead, Rest

-----------------------------------------------------------------------------
(* Copying.                                                                 *)

(* What stands between two parts of a sequence.                             *)
LEMMA Middle ==
  ASSUME NEW S, NEW s \in Seq(S), NEW x \in Seq(S), NEW t \in Seq(S)
  PROVE  SubSeq(Three(s, x, t), Len(s) + 1, Len(s) + Len(x)) = x
<1> DEFINE u == s \o x
           m == Len(s)
           n == Len(x)
           y == SubSeq(u \o t, 1, Len(u))
<1>1. /\ u \in Seq(S) /\ Len(u) = m + n /\ m \in Nat /\ n \in Nat
      /\ SubSeq(u, m + 1, Len(u)) = x
  BY PartsOfConcat
<1> HIDE DEF u, m, n
<1>2. /\ u \o t \in Seq(S) /\ Len(u \o t) = Len(u) + Len(t) /\ Len(t) \in Nat
      /\ SubSeq(u \o t, 1, Len(u)) = u
  <2> HIDE DEF y
  <2>1. u \in Seq(S)
    BY <1>1
  <2> QED BY <2>1, PartsOfConcat
<1> DEFINE v == u \o t
           k == m + n
           a == SubSeq(v, m + 1, k)
           b == SubSeq(u, m + 1, k)
<1>3. /\ v \in Seq(S) /\ Len(v) = k + Len(t) /\ k \in Nat /\ Len(u) = k
      /\ SubSeq(v, 1, k) = u
  BY <1>1, <1>2
<1>4. \A i \in 1 .. k : v[i] \in S /\ u[i] = v[i]
  <2>1. \A i \in 1 .. k + Len(t) : v[i] \in S
    BY <1>3, ElementOfSeq
  <2>2. \A i \in 1 .. k : v[i] \in S
    BY <1>2, <1>3, <2>1
  <2>3. 1 \in Int /\ k \in Int /\ \A i \in 1 .. k : v[i] \in S
    BY <1>3, <2>2
  <2> DEFINE w == SubSeq(v, 1, k)
  <2> HIDE DEF v, k
  <2>4. \A i \in 1 .. k - 1 + 1 : w[i] = v[1 + i - 1]
    BY <2>3, SubSeqProperties
  <2>5. w = u
    BY <1>3
  <2> HIDE DEF w
  <2>6. \A i \in 1 .. k : i \in 1 .. k - 1 + 1 /\ 1 + i - 1 = i
    BY <1>3
  <2> QED BY <2>2, <2>4, <2>5, <2>6
<1> HIDE DEF v
<1>5. a = b
  <2> DEFINE c == m + 1
  <2>1. c \in Int /\ k \in Int /\ \A i \in c .. k : i \in 1 .. k
    BY <1>1
  <2> HIDE DEF k, c
  <2>2. \A i \in c .. k : v[i] \in S /\ u[i] = v[i]
    BY <1>4, <2>1
  <2> DEFINE f == SubSeq(v, c, k)
             g == SubSeq(u, c, k)
  <2>3. /\ f \in Seq(S) /\ Len(f) = (IF c <= k THEN k - c + 1 ELSE 0)
        /\ \A i \in 1 .. k - c + 1 : f[i] = v[c + i - 1]
    BY <2>1, <2>2, SubSeqProperties
  <2>4. \A i \in c .. k : u[i] \in S
    BY <2>2
  <2>5. /\ g \in Seq(S) /\ Len(g) = (IF c <= k THEN k - c + 1 ELSE 0)
        /\ \A i \in 1 .. k - c + 1 : g[i] = u[c + i - 1]
    BY <2>1, <2>4, SubSeqProperties
  <2> HIDE DEF f, g
  <2>6. ASSUME NEW i \in 1 .. Len(f) PROVE f[i] = g[i]
    <3>1. i \in 1 .. k - c + 1 /\ c + i - 1 \in c .. k
      BY <2>1, <2>3
    <3> QED BY <2>2, <2>3, <2>5, <3>1
  <2>7. f = g
    BY <2>3, <2>5, <2>6, SeqEqual
  <2> QED BY <2>7 DEF f, g, c
<1>6. b = x
  BY <1>1
<1> QED BY <1>5, <1>6 DEF Three, a, v, u, m, n

(* A sequence around one of its elements. *)
IsElement(s, i, a, x, b) == s = Around(a, x, b) /\ i = Len(a) + 1 /\ x = s[i]

LEMMA ElementAt ==
  ASSUME NEW S, NEW s \in Seq(S), NEW i \in 1 .. Len(s)
  PROVE  \E a \in Seq(S), b \in Seq(S), x \in S :
           IsElement(s, i, a, x, b)
<1> DEFINE a == SubSeq(s, 1, i - 1)
           b == SubSeq(s, i + 1, Len(s))
<1>1. a \in Seq(S) /\ b \in Seq(S) /\ s[i] \in S /\ Len(a) = i - 1 /\ s = Around(a, s[i], b)
  BY CutAt DEF Around
<1> HIDE DEF a, b
<1>2. i = Len(a) + 1
  BY <1>1, LenProperties
<1> QED BY <1>1, <1>2 DEF IsElement

(* Cmd.Copy, step by step: the words before the first, those behind the     *)
(* last, and the characters before the first are left out.                  *)
FromWord(p, w) == [p EXCEPT ![1] = SubFrom(@, w)]
UpTo(p, n, w, o) ==
  [p EXCEPT ![n] = Sub(@, 1, w - 1) \o <<DeleteFromWord(@[w], o, Len(@[w]) + 1)>>]
FromChar(p, o) == [p EXCEPT ![1] = <<DeleteFromWord(@[1], 1, o)>> \o SubFrom(@, 2)]

CopiedFrom(ps, a, b) ==
  LET n == b[1] - a[1] + 1
      lastword == IF n = 1 THEN b[2] - a[2] + 1 ELSE b[2]
  IN  FromChar(UpTo(FromWord(SubSeq(ps, a[1], b[1]), a[2]), n, lastword, b[3]), a[3])

LEMMA CopiedIsFrom == \A d : Copied(d) = CopiedFrom(d.paras, Start(d), End(d))
BY Zenon DEF Copied, CopiedFrom, FromWord, UpTo, FromChar

(* The elements and the parts of a sequence around x, by their numbers.     *)
Cells(s, x, t) ==
  LET u == Around(s, x, t)
  IN  /\ u[Len(s) + 1] = x /\ Len(u) = Len(s) + 1 + Len(t)
      /\ SubSeq(u, 1, Len(s)) = s
      /\ SubSeq(u, Len(s) + 2, Len(u)) = t
      /\ SubSeq(u, Len(s) + 1, Len(u)) = Around(<<>>, x, t)

Changes(s, x, y, t) == [Around(s, x, t) EXCEPT ![Len(s) + 1] = y] = Around(s, y, t)

LEMMA CellsAre ==
  ASSUME NEW S, NEW s \in Seq(S), NEW x \in S, NEW t \in Seq(S)
  PROVE  Cells(s, x, t) /\ \A y \in S : Changes(s, x, y, t)
<1>1. /\ SubSeq(Around(s, x, t), 1, Len(s)) = s
      /\ SubSeq(Around(s, x, t), Len(s) + 2, Len(Around(s, x, t))) = t
  <2>1. SubSeq(Around(s, x, t), 1, Len(s)) = s
    BY AroundParts
  <2>2. SubSeq(Around(s, x, t), Len(s) + 2, Len(Around(s, x, t))) = t
    <3> DEFINE h == With(s, x)
    <3>1. h \in Seq(S) /\ Len(h) + 1 = Len(s) + 2
      BY WithHas
    <3>2. Around(s, x, t) = h \o t
      BY DEF Around, With
    <3> HIDE DEF h
    <3>3. SubSeq(h \o t, Len(h) + 1, Len(h \o t)) = t
      BY <3>1, PartsOfConcat
    <3> QED BY <3>1, <3>2, <3>3
  <2> QED BY <2>1, <2>2
<1>2. /\ Around(s, x, t)[Len(s) + 1] = x
      /\ Len(Around(s, x, t)) = Len(s) + 1 + Len(t)
  BY AroundHas
<1>3. \A y \in S : Changes(s, x, y, t)
  BY ExceptAround DEF Changes
<1>4. SubSeq(Around(s, x, t), Len(s) + 1, Len(Around(s, x, t))) = Around(<<>>, x, t)
  <2> DEFINE r == Around(<<>>, x, t)
  <2>1. r \in Seq(S)
    <3> DEFINE n == <<>>
    <3>1. n \in Seq(S)
      BY EmptyIn
    <3> HIDE DEF n
    <3>2. Around(n, x, t) \in Seq(S)
      BY <3>1, AroundHas
    <3> QED BY <3>2 DEF n
  <2>2. Around(s, x, t) = s \o r
    BY AroundNothing
  <2> HIDE DEF r
  <2>3. SubSeq(s \o r, Len(s) + 1, Len(s \o r)) = r
    BY <2>1, PartsOfConcat
  <2> QED BY <2>2, <2>3 DEF r
<1> QED BY <1>1, <1>2, <1>3, <1>4 DEF Cells

LEMMA FirstChanged ==
  ASSUME NEW S, NEW x \in S, NEW y \in S, NEW t \in Seq(S)
  PROVE  /\ [Around(<<>>, x, t) EXCEPT ![1] = y] = Around(<<>>, y, t)
         /\ Around(<<>>, x, t)[1] = x
<1> DEFINE n == <<>>
<1>1. n \in Seq(S) /\ Len(n) = 0
  BY EmptyIn, EmptySeq
<1> HIDE DEF n
<1>2. /\ [Around(n, x, t) EXCEPT ![Len(n) + 1] = y] = Around(n, y, t)
      /\ Around(n, x, t)[Len(n) + 1] = x
  <2>1. Cells(n, x, t) /\ Changes(n, x, y, t)
    BY <1>1, CellsAre
  <2> QED BY <2>1 DEF Cells, Changes
<1>3. Len(n) + 1 = 1
  BY <1>1
<1> QED BY <1>2, <1>3 DEF n

LEMMA FromWordIs ==
  ASSUME NEW A \in Seq(Word), NEW y \in Word, NEW B \in Seq(Word),
         NEW T \in Seq(FullParagraph), NEW j, j = Len(A) + 1
  PROVE  FromWord(Around(<<>>, Around(A, y, B), T), j) = Around(<<>>, Around(<<>>, y, B), T)
<1> DEFINE q == Around(A, y, B)
           r == Around(<<>>, y, B)
           u == Around(<<>>, q, T)
<1>1. q \in FullParagraph /\ r \in FullParagraph
  <2>1. q \in FullParagraph
    BY FlatParagraphIs
  <2>2. r \in FullParagraph
    <3> DEFINE n == <<>>
    <3>1. n \in Seq(Word)
      BY EmptyIn
    <3> HIDE DEF n
    <3>2. Around(n, y, B) \in FullParagraph
      BY <3>1, FlatParagraphIs
    <3> QED BY <3>2 DEF n
  <2> QED BY <2>1, <2>2
<1>2. SubFrom(q, j) = r
  <2>1. SubSeq(q, Len(A) + 1, Len(q)) = r
    <3>1. Cells(A, y, B)
      BY CellsAre
    <3> QED BY <3>1 DEF Cells
  <2> HIDE DEF q, r
  <2> QED BY <2>1 DEF SubFrom
<1> HIDE DEF q, r
<1>3. u[1] = q /\ [u EXCEPT ![1] = r] = Around(<<>>, r, T)
  BY <1>1, FirstChanged
<1> HIDE DEF u
<1>4. FromWord(u, j) = [u EXCEPT ![1] = SubFrom(u[1], j)]
  BY Zenon DEF FromWord
<1>5. FromWord(u, j) = Around(<<>>, r, T)
  BY <1>2, <1>3, <1>4
<1> QED BY <1>5 DEF u, q, r

LEMMA FromCharIs ==
  ASSUME NEW y \in Word, NEW B \in Seq(Word), NEW T \in Seq(FullParagraph), NEW o \in Nat \ {0}
  PROVE  FromChar(Around(<<>>, Around(<<>>, y, B), T), o)
           = Around(<<>>, Around(<<>>, RightOf(y, o), B), T)
<1> DEFINE n == <<>>
           x == RightOf(y, o)
           q == Around(n, y, B)
           r == Around(n, x, B)
           u == Around(<<>>, q, T)
<1>1. x \in Word /\ n \in Seq(Word) /\ Len(n) = 0
  BY HalvesAre, EmptyIn, EmptySeq
<1>2. q \in FullParagraph /\ r \in FullParagraph /\ q[1] = y
  <2> HIDE DEF n, x
  <2>1. q \in FullParagraph /\ r \in FullParagraph
    BY <1>1, FlatParagraphIs
  <2>2. q[Len(n) + 1] = y /\ Len(n) + 1 = 1
    <3>1. Around(n, y, B)[Len(n) + 1] = y
      <4>1. Cells(n, y, B)
        BY <1>1, CellsAre
      <4> QED BY <4>1 DEF Cells
    <3> QED BY <1>1, <3>1
  <2> QED BY <2>1, <2>2
<1>3. <<x>> \o SubFrom(q, 2) = r
  <2>1. SubFrom(q, 2) = B
    <3> HIDE DEF n
    <3>1. SubSeq(q, Len(n) + 2, Len(q)) = B
      <4>1. Cells(n, y, B)
        BY <1>1, CellsAre
      <4> QED BY <4>1 DEF Cells
    <3>2. Len(n) + 2 = 2
      BY <1>1
    <3> HIDE DEF q
    <3> QED BY <3>1, <3>2 DEF SubFrom
  <2>2. <<>> \o <<x>> = <<x>>
    <3>1. <<x>> \in Seq(Word)
      BY <1>1, OneElement
    <3> QED BY <3>1, EmptyAround
  <2> HIDE DEF x, q
  <2> QED BY <2>1, <2>2 DEF r, Around, n
<1>4. DeleteFromWord(y, 1, o) = x
  BY DEF RightOf
<1> HIDE DEF q, r, x
<1>5. u[1] = q /\ [u EXCEPT ![1] = r] = Around(<<>>, r, T)
  BY <1>2, FirstChanged
<1> HIDE DEF u
<1>6. FromChar(u, o) = [u EXCEPT ![1] = <<DeleteFromWord(u[1][1], 1, o)>> \o SubFrom(u[1], 2)]
  BY Zenon DEF FromChar
<1>7. <<DeleteFromWord(u[1][1], 1, o)>> \o SubFrom(u[1], 2) = r
  BY <1>2, <1>3, <1>4, <1>5
<1>8. FromChar(u, o) = Around(<<>>, r, T)
  BY <1>5, <1>6, <1>7
<1> QED BY <1>8 DEF u, q, r, x, n

(* A last paragraph that is cut off in a word, what is before it kept. *)
Shortened(X, A, w, B, i, j, o) ==
  UpTo(With(X, Around(A, w, B)), i, j, o) = With(X, With(A, LeftOf(w, o)))

LEMMA UpToIs ==
  ASSUME NEW X \in Seq(FullParagraph), NEW A \in Seq(Word), NEW w \in Word, NEW B \in Seq(Word),
         NEW i, i = Len(X) + 1, NEW j, j = Len(A) + 1, NEW o \in Nat \ {0}
  PROVE  Shortened(X, A, w, B, i, j, o)
<1> DEFINE n == <<>>
           x == LeftOf(w, o)
           q == Around(A, w, B)
           r == With(A, x)
           u == With(X, q)
<1>1. x \in Word /\ n \in Seq(FullParagraph)
  BY HalvesAre, EmptyIn
<1>2. /\ q \in FullParagraph /\ q[j] = w
      /\ Len(q) = Len(A) + 1 + Len(B) /\ Len(A) \in Nat /\ Len(B) \in Nat
  <2>1. q \in FullParagraph
    BY FlatParagraphIs
  <2>2. Len(q) = Len(A) + 1 + Len(B) /\ q[Len(A) + 1] = w
    <3>1. Cells(A, w, B)
      BY CellsAre
    <3> QED BY <3>1 DEF Cells
  <2>3. Len(A) \in Nat /\ Len(B) \in Nat
    BY LenProperties
  <2> QED BY <2>1, <2>2, <2>3
<1>3. r \in FullParagraph
  <2> HIDE DEF x
  <2> QED BY <1>1, WithFull
<1>4. Sub(q, 1, j - 1) = A
  <2> DEFINE k == j - 1
  <2>1. k = Len(A) /\ 1 + (IF k < Len(q) - 1 + 1 THEN k ELSE Len(q) - 1 + 1) - 1 = k
    BY <1>2
  <2>2. SubSeq(q, 1, Len(A)) = A
    <3>1. Cells(A, w, B)
      BY CellsAre
    <3> QED BY <3>1 DEF Cells
  <2> HIDE DEF k, q
  <2> QED BY <2>1, <2>2 DEF Sub, k
<1>5. DeleteFromWord(w, o, Len(w) + 1) = x
  BY DEF LeftOf
<1> HIDE DEF q, x
<1>6. Sub(q, 1, j - 1) \o <<DeleteFromWord(q[j], o, Len(q[j]) + 1)>> = r
  BY <1>2, <1>4, <1>5 DEF With
<1> HIDE DEF r
<1>7. u = Around(X, q, n) /\ With(X, r) = Around(X, r, n)
  BY <1>2, <1>3, WithIsAround
<1> HIDE DEF n, u
<1>8. u[i] = q /\ [u EXCEPT ![i] = r] = With(X, r)
  <2>1. Around(X, q, n)[Len(X) + 1] = q
    <3>1. X \in Seq(FullParagraph) /\ q \in FullParagraph /\ n \in Seq(FullParagraph)
      BY <1>1, <1>2
    <3>2. Cells(X, q, n)
      BY <3>1, CellsAre
    <3> QED BY <3>2 DEF Cells
  <2>2. [Around(X, q, n) EXCEPT ![Len(X) + 1] = r] = Around(X, r, n)
    <3>1. Changes(X, q, r, n)
      BY <1>1, <1>2, <1>3, CellsAre
    <3> QED BY <3>1 DEF Changes
  <2> QED BY <1>7, <2>1, <2>2
<1>9. UpTo(u, i, j, o)
        = [u EXCEPT ![i] = Sub(u[i], 1, j - 1) \o <<DeleteFromWord(u[i][j], o, Len(u[i][j]) + 1)>>]
  BY Zenon DEF UpTo
<1>10. UpTo(u, i, j, o) = With(X, r)
  BY <1>6, <1>8, <1>9
<1> QED BY <1>10 DEF Shortened, u, q, r, x

(* c is what stands behind the offset o of w in the paragraphs D; what D    *)
(* has before that is P, A and the text of w up to the offset.              *)
CopyOf(c, P, A, w, o, D) ==
  \E y, x, B, M :
    /\ IsZip(P, A, y, B, M) /\ D = ZipOf(P, A, y, B, M)
    /\ x \in Word /\ c = ZipOf(<<>>, <<>>, x, B, M)
    /\ GetWordText(y) = TextTo(w, o) \o GetWordText(x)

(* c is the part of the paragraphs D behind the place a of ps. *)
Copies(c, ps, a, D) ==
  \E P, A, w, B, R :
    /\ IsZip(P, A, w, B, R) /\ ps = ZipOf(P, A, w, B, R) /\ At3(a, P, A, w)
    /\ a[3] \in 1 .. Len(w) + 1 /\ CopyOf(c, P, A, w, a[3], D)

LEMMA CopyText ==
  ASSUME NEW c, NEW P, NEW A, NEW w \in Word, NEW o \in 1 .. Len(w) + 1, NEW D,
         CopyOf(c, P, A, w, o, D)
  PROVE  /\ c \in Seq(FullParagraph) /\ NonEmpty(c)
         /\ Flat(D) = Ahead(P, A, w, o) \o Flat(c)
<1>1. PICK y, x, B, M :
        /\ IsZip(P, A, y, B, M) /\ D = ZipOf(P, A, y, B, M)
        /\ x \in Word /\ c = ZipOf(<<>>, <<>>, x, B, M)
        /\ GetWordText(y) = TextTo(w, o) \o GetWordText(x)
  BY DEF CopyOf
<1> DEFINE n == <<>>
           a == Pre(P, A)
           u == TextTo(w, o)
           v == GetWordText(x)
           e == Post(B, M)
<1>2. IsZip(n, n, x, B, M)
  BY <1>1, EmptyIn DEF IsZip
<1>3. /\ Flat(c) = Three(Pre(n, n), v, e) /\ c \in Seq(FullParagraph)
      /\ v \in Seq(Symbol) /\ e \in Seq(Symbol) /\ Len(c) = Len(n) + 1 + Len(M)
      /\ Len(n) \in Nat /\ Len(M) \in Nat
  <2>1. c = ZipOf(n, n, x, B, M)
    BY <1>1
  <2> HIDE DEF n, v, e
  <2>2. /\ Flat(c) = Three(Pre(n, n), GetWordText(x), Post(B, M)) /\ c \in Seq(FullParagraph)
        /\ Post(B, M) \in Seq(Symbol) /\ GetWordText(x) \in Seq(Symbol)
    BY <1>2, <2>1, ZipText
  <2>3. Len(c) = Len(n) + 1 + Len(M) /\ Len(n) \in Nat /\ Len(M) \in Nat
    BY <1>2, <2>1, ZipIs
  <2> QED BY <2>2, <2>3 DEF v, e
<1>4. NonEmpty(c)
  <2>1. Len(<<>>) = 0
    BY EmptySeq
  <2> QED BY <1>3, <2>1 DEF NonEmpty
<1>5. Flat(c) = v \o e
  <2>1. Pre(n, n) = n
    <3>1. Lead(<<>>) = <<>> /\ LeadP(<<>>) = <<>>
      <4>1. Lead(<<>>) = <<>>
        BY <1>1, <1>2, LeadIs DEF IsZip
      <4>2. Around(<<>>, x, <<>>) \in FullParagraph
        BY <1>1, EmptyIn, FlatParagraphIs
      <4>3. LeadP(<<>>) = <<>>
        BY <1>2, <4>2, LeadPIs DEF IsZip
      <4> QED BY <4>1, <4>3
    <3>2. <<>> \o <<>> = <<>>
      BY EmptyIn, EmptyAround
    <3> QED BY <3>1, <3>2 DEF Pre
  <2>2. n \o v = v
    BY <1>3, EmptyAround
  <2> HIDE DEF n, v, e
  <2> QED BY <1>3, <2>1, <2>2 DEF Three
<1>6. Flat(D) = Three(a, u \o v, e) /\ a \in Seq(Symbol)
  <2>1. Flat(D) = Three(Pre(P, A), GetWordText(y), Post(B, M)) /\ Pre(P, A) \in Seq(Symbol)
    <3> HIDE DEF n, a, u, v, e
    <3>1. /\ Flat(ZipOf(P, A, y, B, M)) = Three(Pre(P, A), GetWordText(y), Post(B, M))
          /\ Pre(P, A) \in Seq(Symbol)
      <4>1. IsZip(P, A, y, B, M)
        BY <1>1
      <4> QED BY <4>1, ZipText
    <3>2. D = ZipOf(P, A, y, B, M)
      BY <1>1
    <3> QED BY <3>1, <3>2
  <2> QED BY <1>1, <2>1
<1>7. u \in Seq(Symbol)
  BY TextSplits
<1> HIDE DEF a, u, v, e
<1>8. (a \o (u \o v)) \o e = (a \o u) \o (v \o e)
  <2> DEFINE au == a \o u
  <2>1. Groups(a, u, v)
    BY <1>3, <1>6, <1>7, GroupsOf
  <2>2. au \in Seq(Symbol)
    BY <1>6, <1>7, ConcatProperties
  <2> HIDE DEF au
  <2>3. Groups(au, v, e)
    BY <1>3, <2>2, GroupsOf
  <2> QED BY <2>1, <2>3 DEF Groups, au
<1>9. Flat(D) = (a \o u) \o Flat(c)
  BY <1>5, <1>6, <1>8 DEF Three
<1> QED BY <1>3, <1>4, <1>9 DEF Ahead, a, u

Span(P, X, R) == SubSeq(Three(P, X, R), Len(P) + 1, Len(P) + Len(X)) = X

LEMMA SpanIs ==
  ASSUME NEW S, NEW P \in Seq(S), NEW X \in Seq(S), NEW R \in Seq(S)
  PROVE  Span(P, X, R)
BY Middle DEF Span

(* The ends of a selection, with the paragraphs N in between.               *)
FarApart(P, A, N, C, a, b) ==
  /\ a[1] = Len(P) + 1 /\ a[2] = Len(A) + 1
  /\ b[1] = Len(P) + 1 + Len(N) + 1 /\ b[2] = Len(C) + 1

(* Paragraphs with y in one and w in a later one, and what a copy has of    *)
(* them.                                                                    *)
LongZip(ps, P, A, y, B, N, A2, w, B2, R) ==
  ps = ZipOf(Around(P, Around(A, y, B), N), A2, w, B2, R)

LongCopy(c, y, B, N, A2, w, i, j) ==
  c = ZipOf(<<>>, <<>>, RightOf(y, i), B, With(N, With(A2, LeftOf(w, j))))

(* What is copied of paragraphs that start with q and end with p.           *)
LEMMA CopiedLong ==
  ASSUME NEW P \in Seq(FullParagraph), NEW A \in Seq(Word), NEW y \in Word, NEW B \in Seq(Word),
         NEW N \in Seq(FullParagraph),
         NEW A2 \in Seq(Word), NEW w \in Word, NEW B2 \in Seq(Word), NEW R \in Seq(FullParagraph),
         NEW ps, LongZip(ps, P, A, y, B, N, A2, w, B2, R),
         NEW a, a[3] \in Nat \ {0}, NEW b, b[3] \in Nat \ {0}, FarApart(P, A, N, A2, a, b)
  PROVE  LongCopy(CopiedFrom(ps, a, b), y, B, N, A2, w, a[3], b[3])
<1> DEFINE F == FullParagraph
           none == <<>>
           q == Around(A, y, B)
           q1 == Around(none, y, B)
           q2 == Around(none, RightOf(y, a[3]), B)
           p == Around(A2, w, B2)
           L == With(A2, LeftOf(w, b[3]))
           Np == With(N, p)
           NL2 == With(N, L)
           X == Around(none, q, Np)
           i == a[1]
           j == b[1]
           n == j - i + 1
<1>1. /\ none \in Seq(Word) /\ none \in Seq(F) /\ Len(none) = 0
      /\ LeftOf(w, b[3]) \in Word /\ RightOf(y, a[3]) \in Word
  BY EmptyIn, EmptySeq, HalvesAre
<1>2. q \in F /\ q1 \in F /\ q2 \in F /\ p \in F /\ L \in F
  <2>1. none \in Seq(Word) /\ LeftOf(w, b[3]) \in Word /\ RightOf(y, a[3]) \in Word
    BY <1>1
  <2> HIDE DEF none
  <2> QED BY <2>1, FlatParagraphIs, WithFull
<1>3. Np \in Seq(F) /\ NL2 \in Seq(F) /\ Len(Np) = Len(N) + 1
  <2>1. N \in Seq(F)
    OBVIOUS
  <2> HIDE DEF F, p, L
  <2> QED BY <1>2, <2>1, WithHas
<1>4. /\ j = Len(P) + (Len(N) + 2) /\ n = Len(N) + 2 /\ n # 1
      /\ i = Len(P) + 1 /\ Len(N) \in Nat
  <2>1. Len(P) \in Nat /\ Len(N) \in Nat
    BY LenProperties
  <2> QED BY <2>1 DEF FarApart
<1>5. X \in Seq(F) /\ Len(X) = Len(N) + 2
  <2> HIDE DEF F, none, q, Np
  <2>1. X \in Seq(F) /\ Len(X) = Len(none) + 1 + Len(Np)
    <3>1. none \in Seq(F) /\ q \in F /\ Np \in Seq(F)
      BY <1>1, <1>2, <1>3
    <3> QED BY <3>1, AroundHas
  <2> HIDE DEF X
  <2> QED BY <1>1, <1>3, <1>4, <2>1
<1>6. ps = Three(P, X, R)
  <2>1. With(Around(P, q, N), p) = Around(P, q, Np)
    <3>1. P \in Seq(F) /\ N \in Seq(F) /\ q \in F /\ p \in F
      BY <1>2
    <3> HIDE DEF F, q, p
    <3> QED BY <3>1, AroundOn
  <2>2. Around(P, q, Np) = P \o X
    <3>1. P \in Seq(F) /\ Np \in Seq(F) /\ q \in F
      BY <1>2, <1>3
    <3> HIDE DEF F, q, Np
    <3> QED BY <3>1, AroundNothing DEF X, none
  <2>3. ps = With(Around(P, q, N), p) \o R
    BY DEF LongZip, ZipOf, Around, With, q, p
  <2> QED BY <2>1, <2>2, <2>3 DEF Three
<1> HIDE DEF F, q, q1, q2, p, L, Np, NL2, i, j, n
<1>7. SubSeq(ps, i, j) = X
  <2>1. j = Len(P) + Len(X) /\ i = Len(P) + 1
    BY <1>4, <1>5
  <2> HIDE DEF X
  <2>2. Span(P, X, R)
    BY <1>5, SpanIs DEF F
  <2> QED BY <1>6, <2>1, <2>2 DEF Span
<1>8. FromWord(X, a[2]) = Around(none, q1, Np)
  <2>1. a[2] = Len(A) + 1
    BY DEF FarApart
  <2> QED BY <1>3, <2>1, FromWordIs DEF F, X, q, q1, none
<1>9. /\ Around(none, q1, Np) = With(Around(none, q1, N), p)
      /\ Around(none, q1, NL2) = With(Around(none, q1, N), L)
  <2>1. none \in Seq(F) /\ N \in Seq(F) /\ q1 \in F /\ p \in F /\ L \in F
    BY <1>1, <1>2 DEF F
  <2> HIDE DEF none
  <2> QED BY <2>1, AroundOn DEF Np, NL2
<1>10. UpTo(Around(none, q1, Np), n, b[2], b[3]) = Around(none, q1, NL2)
  <2> DEFINE Y == Around(none, q1, N)
  <2>1. Y \in Seq(F) /\ n = Len(Y) + 1
    <3>1. none \in Seq(F) /\ N \in Seq(F) /\ q1 \in F
      BY <1>1, <1>2 DEF F
    <3> HIDE DEF none
    <3>2. Y \in Seq(F) /\ Len(Y) = Len(none) + 1 + Len(N)
      BY <3>1, AroundHas
    <3> HIDE DEF Y
    <3> QED BY <1>1, <1>4, <3>2
  <2> HIDE DEF Y
  <2>2. UpTo(With(Y, Around(A2, w, B2)), n, b[2], b[3]) = With(Y, With(A2, LeftOf(w, b[3])))
    <3>1. b[2] = Len(A2) + 1
      BY DEF FarApart
    <3>2. Y \in Seq(FullParagraph) /\ n = Len(Y) + 1
      BY <2>1 DEF F
    <3> HIDE DEF F, none, X
    <3>3. Shortened(Y, A2, w, B2, n, b[2], b[3])
      BY <3>1, <3>2, UpToIs
    <3> QED BY <3>3 DEF Shortened
  <2> QED BY <1>9, <2>2 DEF Y, p, L
<1>11. FromChar(Around(none, q1, NL2), a[3]) = Around(none, q2, NL2)
  BY <1>3, FromCharIs DEF F, q1, q2, none
<1>12. CopiedFrom(ps, a, b) = Around(none, q2, NL2)
  <2>1. CopiedFrom(ps, a, b)
          = FromChar(UpTo(FromWord(SubSeq(ps, i, j), a[2]), n,
                          IF n = 1 THEN b[2] - a[2] + 1 ELSE b[2], b[3]), a[3])
    BY Zenon DEF CopiedFrom, i, j, n
  <2> HIDE DEF X, none
  <2> QED BY <1>4, <1>7, <1>8, <1>10, <1>11, <2>1
<1> QED BY <1>12 DEF LongCopy, ZipOf, q2, NL2, L, none

(* The paragraph with y is the only one; the words from y on are also C, w  *)
(* and E.                                                                   *)
SameWordsAs(y, B, C, w, E) == Around(<<>>, y, B) = Around(C, w, E)

BothIn(P, A, C, a, b) ==
  /\ a[1] = Len(P) + 1 /\ a[2] = Len(A) + 1
  /\ b[1] = Len(P) + 1 /\ b[2] = Len(A) + 1 + Len(C)

LEMMA OneParagraph ==
  ASSUME NEW P \in Seq(FullParagraph), NEW A \in Seq(Word), NEW y \in Word, NEW B \in Seq(Word),
         NEW R \in Seq(FullParagraph), NEW C \in Seq(Word), NEW w \in Word, NEW E \in Seq(Word),
         SameWordsAs(y, B, C, w, E), NEW ps, ps = ZipOf(P, A, y, B, R),
         NEW a, NEW b, BothIn(P, A, C, a, b), b[3] \in Nat \ {0}
  PROVE  CopiedFrom(ps, a, b) = FromChar(Around(<<>>, With(C, LeftOf(w, b[3])), <<>>), a[3])
<1> DEFINE F == FullParagraph
           none == <<>>
           q == Around(A, y, B)
           q1 == Around(none, y, B)
           L == With(C, LeftOf(w, b[3]))
           X == Around(none, q, none)
           i == a[1]
           j == b[1]
           n == j - i + 1
           last == b[2] - a[2] + 1
<1>1. /\ none \in Seq(Word) /\ none \in Seq(F) /\ Len(none) = 0 /\ LeftOf(w, b[3]) \in Word
  BY EmptyIn, EmptySeq, HalvesAre
<1>2. q \in F /\ q1 \in F /\ L \in F
  <2>1. none \in Seq(Word) /\ LeftOf(w, b[3]) \in Word
    BY <1>1
  <2> HIDE DEF none
  <2> QED BY <2>1, FlatParagraphIs, WithFull
<1>3. j = Len(P) + 1 /\ i = Len(P) + 1 /\ n = 1 /\ last = Len(C) + 1
  <2>1. Len(P) \in Nat /\ Len(A) \in Nat /\ Len(C) \in Nat
    BY LenProperties
  <2> QED BY <2>1 DEF BothIn
<1>4. X \in Seq(F) /\ Len(X) = 1
  <2> HIDE DEF F, none, q
  <2>1. X \in Seq(F) /\ Len(X) = Len(none) + 1 + Len(none)
    <3>1. none \in Seq(F) /\ q \in F
      BY <1>1, <1>2
    <3> QED BY <3>1, AroundHas
  <2> HIDE DEF X
  <2> QED BY <1>1, <2>1
<1>5. ps = Three(P, X, R)
  <2>1. With(P, q) = Around(P, q, none)
    <3>1. P \in Seq(F) /\ q \in F
      BY <1>2
    <3> HIDE DEF F, q
    <3> QED BY <3>1, WithIsAround
  <2>2. Around(P, q, none) = P \o X
    <3>1. P \in Seq(F) /\ none \in Seq(F) /\ q \in F
      BY <1>1, <1>2
    <3>2. Around(P, q, none) = P \o Around(<<>>, q, none)
      <4> HIDE DEF F, q, none
      <4> QED BY <3>1, AroundNothing
    <3> QED BY <3>2
  <2>3. ps = With(P, q) \o R
    BY DEF ZipOf, Around, With, q
  <2> QED BY <2>1, <2>2, <2>3 DEF Three
<1> HIDE DEF F, q, q1, L, i, j, n, last
<1>6. SubSeq(ps, i, j) = X
  <2>1. j = Len(P) + Len(X) /\ i = Len(P) + 1
    BY <1>3, <1>4
  <2> HIDE DEF X
  <2>2. Span(P, X, R)
    BY <1>4, SpanIs DEF F
  <2> QED BY <1>5, <2>1, <2>2 DEF Span
<1>7. FromWord(X, a[2]) = Around(none, q1, none)
  <2>1. none \in Seq(FullParagraph)
    BY <1>1 DEF F
  <2>2. \A T \in Seq(FullParagraph) :
          FromWord(Around(<<>>, Around(A, y, B), T), a[2]) = Around(<<>>, Around(<<>>, y, B), T)
    BY FromWordIs DEF BothIn
  <2> QED BY <2>1, <2>2 DEF X, q, q1
<1>8. Around(none, q1, none) = With(none, Around(C, w, E)) /\ With(none, L) = Around(none, L, none)
  <2>1. none \in Seq(F) /\ q1 \in F /\ L \in F
    BY <1>1, <1>2
  <2>2. With(none, q1) = Around(none, q1, <<>>) /\ With(none, L) = Around(none, L, <<>>)
    <3> HIDE DEF none
    <3> QED BY <2>1, WithIsAround
  <2> QED BY <2>2 DEF q1, SameWordsAs
<1>9. UpTo(Around(none, q1, none), n, last, b[3]) = Around(none, L, none)
  <2>1. none \in Seq(FullParagraph) /\ n = Len(none) + 1
    BY <1>1, <1>3 DEF F
  <2> HIDE DEF none
  <2>2. UpTo(With(none, Around(C, w, E)), n, last, b[3]) = With(none, With(C, LeftOf(w, b[3])))
    <3>1. Shortened(none, C, w, E, n, last, b[3])
      BY <1>3, <2>1, UpToIs
    <3> QED BY <3>1 DEF Shortened
  <2> QED BY <1>8, <2>2 DEF L
<1>10. CopiedFrom(ps, a, b) = FromChar(Around(none, L, none), a[3])
  <2>1. CopiedFrom(ps, a, b)
          = FromChar(UpTo(FromWord(SubSeq(ps, i, j), a[2]), n,
                          IF n = 1 THEN last ELSE b[2], b[3]), a[3])
    BY Zenon DEF CopiedFrom, i, j, n, last
  <2> HIDE DEF X, none
  <2> QED BY <1>3, <1>6, <1>7, <1>9, <2>1
<1> QED BY <1>10 DEF L

(* What is copied of one paragraph, of several words. *)
LEMMA CopiedShort ==
  ASSUME NEW P \in Seq(FullParagraph), NEW A \in Seq(Word), NEW y \in Word, NEW D \in Seq(Word),
         NEW w \in Word, NEW B \in Seq(Word), NEW R \in Seq(FullParagraph),
         NEW ps, ps = ZipOf(P, Around(A, y, D), w, B, R),
         NEW a, a[1] = Len(P) + 1, a[2] = Len(A) + 1, a[3] \in Nat \ {0},
         NEW b, b[1] = Len(P) + 1, b[2] = Len(A) + 1 + Len(D) + 1, b[3] \in Nat \ {0}
  PROVE  CopiedFrom(ps, a, b)
           = ZipOf(<<>>, <<>>, RightOf(y, a[3]), With(D, LeftOf(w, b[3])), <<>>)
<1> DEFINE none == <<>>
           C == Around(none, y, D)
           T == Around(D, w, B)
           l == LeftOf(w, b[3])
           M == With(D, l)
<1>1. none \in Seq(Word) /\ none \in Seq(FullParagraph) /\ Len(none) = 0 /\ l \in Word
  BY EmptyIn, EmptySeq, HalvesAre
<1>2. C \in Seq(Word) /\ T \in Seq(Word) /\ M \in Seq(Word)
  <2>1. none \in Seq(Word) /\ l \in Word
    BY <1>1
  <2> HIDE DEF none, l
  <2> QED BY <2>1, AroundHas, WithHas
<1>3. Len(C) = Len(D) + 1 /\ Len(D) \in Nat /\ Len(A) \in Nat
  <2> HIDE DEF none
  <2>1. none \in Seq(Word)
    BY <1>1
  <2>2. Len(C) = Len(none) + 1 + Len(D)
    BY <2>1, AroundHas
  <2>3. Len(D) \in Nat /\ Len(A) \in Nat
    BY LenProperties
  <2> HIDE DEF C
  <2> QED BY <1>1, <2>2, <2>3
<1>4. ps = ZipOf(P, A, y, T, R)
  <2>1. Around(Around(A, y, D), w, B) = Around(A, y, T)
    BY AroundOn
  <2> QED BY <2>1 DEF ZipOf
<1>5. Around(none, y, T) = Around(C, w, B) /\ With(C, l) = Around(none, y, M)
  <2> HIDE DEF none, l
  <2>1. none \in Seq(Word) /\ l \in Word
    BY <1>1
  <2> QED BY <2>1, AroundOn
<1> HIDE DEF C, T
<1>6. CopiedFrom(ps, a, b) = FromChar(Around(<<>>, With(C, l), <<>>), a[3])
  <2>1. BothIn(P, A, C, a, b)
    BY <1>3 DEF BothIn
  <2>2. SameWordsAs(y, T, C, w, B)
    BY <1>5 DEF SameWordsAs
  <2> HIDE DEF none
  <2>3. CopiedFrom(ps, a, b) = FromChar(Around(<<>>, With(C, LeftOf(w, b[3])), <<>>), a[3])
    BY <1>2, <1>4, <2>1, <2>2, OneParagraph
  <2> QED BY <2>3 DEF l
<1> HIDE DEF M
<1>7. FromChar(Around(<<>>, Around(<<>>, y, M), none), a[3])
        = Around(<<>>, Around(<<>>, RightOf(y, a[3]), M), none)
  <2>1. none \in Seq(FullParagraph)
    BY <1>1
  <2> HIDE DEF none
  <2> QED BY <1>2, <2>1, FromCharIs
<1> QED BY <1>5, <1>6, <1>7 DEF ZipOf, M, l

(* What is copied of one word. *)
LEMMA CopiedInWord ==
  ASSUME NEW P \in Seq(FullParagraph), NEW A \in Seq(Word), NEW y \in Word, NEW B \in Seq(Word),
         NEW R \in Seq(FullParagraph), NEW ps, ps = ZipOf(P, A, y, B, R),
         NEW a, a[1] = Len(P) + 1, a[2] = Len(A) + 1, a[3] \in Nat \ {0},
         NEW b, b[1] = Len(P) + 1, b[2] = Len(A) + 1, b[3] \in Nat \ {0}
  PROVE  CopiedFrom(ps, a, b)
           = ZipOf(<<>>, <<>>, RightOf(LeftOf(y, b[3]), a[3]), <<>>, <<>>)
<1> DEFINE none == <<>>
           l == LeftOf(y, b[3])
<1>1. none \in Seq(Word) /\ none \in Seq(FullParagraph) /\ Len(none) = 0 /\ l \in Word
  BY EmptyIn, EmptySeq, HalvesAre
<1>2. CopiedFrom(ps, a, b) = FromChar(Around(<<>>, With(none, l), <<>>), a[3])
  <2>1. BothIn(P, A, none, a, b)
    <3>1. Len(A) \in Nat
      BY LenProperties
    <3> HIDE DEF none
    <3> QED BY <1>1, <3>1 DEF BothIn
  <2>2. SameWordsAs(y, B, none, y, B)
    BY DEF SameWordsAs
  <2> HIDE DEF none
  <2>3. CopiedFrom(ps, a, b) = FromChar(Around(<<>>, With(none, LeftOf(y, b[3])), <<>>), a[3])
    <3>1. none \in Seq(Word)
      BY <1>1
    <3> QED BY <2>1, <2>2, <3>1, OneParagraph
  <2> QED BY <2>3 DEF l
<1>3. With(none, l) = Around(none, l, none)
  <2>1. none \in Seq(Word) /\ l \in Word
    BY <1>1
  <2>2. With(none, l) = Around(none, l, <<>>)
    <3> HIDE DEF none, l
    <3> QED BY <2>1, WithIsAround
  <2> QED BY <2>2
<1>4. FromChar(Around(<<>>, Around(<<>>, l, none), none), a[3])
        = Around(<<>>, Around(<<>>, RightOf(l, a[3]), none), none)
  <2>1. none \in Seq(FullParagraph) /\ none \in Seq(Word) /\ l \in Word
    BY <1>1
  <2> HIDE DEF none, l
  <2> QED BY <2>1, FromCharIs
<1> QED BY <1>2, <1>3, <1>4 DEF ZipOf, l

(* The two halves of a word.                                                *)
LEMMA RightOfWord ==
  ASSUME NEW w \in Word, NEW o \in 1 .. Len(w) + 1
  PROVE  GetWordText(w) = TextTo(w, o) \o GetWordText(RightOf(w, o))
<1>1. Words!GetWordText(Words!DeleteFromWord(w, 1, o)) = Words!TextFrom(w, o)
  <2>1. o \in Words!Offsets(w)
    BY SameOperations
  <2> QED BY <2>1, SameWords, Words!TextCut
<1>2. GetWordText(RightOf(w, o)) = TextFrom(w, o)
  BY <1>1, SameText, SameOperations DEF TextFrom, RightOf
<1>3. GetWordText(w) = TextTo(w, o) \o TextFrom(w, o)
  BY TextSplits
<1> QED BY <1>2, <1>3

(* What is before an offset of a word without codes that have no effect,    *)
(* and what is behind another.                                              *)
LEMMA RightOfLeft ==
  ASSUME NEW w \in Word, NEW o \in 1 .. Len(w) + 1, NEW a \in 1 .. o, Canonical(w)
  PROVE  GetWordText(LeftOf(w, o)) = TextTo(w, a) \o GetWordText(RightOf(LeftOf(w, o), a))
<1> DEFINE l == LeftOf(w, o)
           x == RightOf(l, a)
<1>1. Len(w) \in Nat
  BY WordIs
<1>2. o \in Nat \ {0} /\ a \in Nat \ {0}
  BY <1>1
<1>3. l \in Word
  BY <1>2, HalvesAre
<1>4. GetWordText(LeftOf(l, a)) = TextTo(w, a)
  BY LeftOfLeft
<1> HIDE DEF l
<1>5. Len(l) \in Nat
  BY <1>3, WordIs
<1>6. CASE a \in 1 .. Len(l) + 1
  <2>1. GetWordText(l) = TextTo(l, a) \o GetWordText(x)
    BY <1>3, <1>6, RightOfWord
  <2>2. GetWordText(LeftOf(l, a)) = TextTo(l, a)
    BY <1>3, <1>6, LeftOfWord
  <2> QED BY <1>4, <2>1, <2>2 DEF l, x
<1>7. CASE a \notin 1 .. Len(l) + 1
  <2>1. a > Len(l) + 1 /\ a \in Nat
    BY <1>2, <1>5, <1>7
  <2>2. Words!GetWordText(Words!DeleteFromWord(l, a, Len(l) + 1)) = Words!GetWordText(l)
    BY <1>3, <2>1, SameWords, Words!TextBeyond
  <2>3. Words!DeleteFromWord(l, 1, a) = <<>>
    BY <1>3, <2>1, SameWords, Words!TextBeyond
  <2>4. x = <<>> /\ GetWordText(LeftOf(l, a)) = GetWordText(l)
    <3>1. GetWordText(DeleteFromWord(l, a, Len(l) + 1)) = GetWordText(l)
      BY <2>2, SameText, SameOperations
    <3>2. DeleteFromWord(l, 1, a) = <<>>
      BY <2>3, SameOperations
    <3> QED BY <3>1, <3>2 DEF LeftOf, RightOf
  <2>5. GetWordText(l) \in Seq(Symbol)
    BY <1>3, WordTextIs
  <2>6. GetWordText(<<>>) = <<>>
    <3>1. <<>> \in Word /\ Len(<<>>) = 0
      BY EmptyWord
    <3>2. 1 \in 1 .. Len(<<>>) + 1 /\ Len(<<>>) + 1 = 1
      BY <3>1
    <3>3. TextTo(<<>>, 1) = <<>> /\ TextTo(<<>>, Len(<<>>) + 1) = GetWordText(<<>>)
      BY <3>1, <3>2, TextSplits
    <3> QED BY <3>2, <3>3
  <2>7. GetWordText(l) \o <<>> = GetWordText(l)
    BY <2>5, ConcatEmptySeq
  <2> HIDE DEF x
  <2> QED BY <1>4, <2>4, <2>6, <2>7 DEF l, x
<1> QED BY <1>6, <1>7

(* It starts in an earlier paragraph. *)
LEMMA CopiesEarlier ==
  ASSUME NEW P, NEW A, NEW w, NEW B, NEW R, IsZip(P, A, w, B, R),
         NEW ps, ps = ZipOf(P, A, w, B, R), NEW b, At3(b, P, A, w),
         NEW a, a[1] \in 1 .. Len(P), a[2] \in 1 .. Len(ps[a[1]]),
         a[3] \in 1 .. Len(ps[a[1]][a[2]]) + 1
  PROVE  Copies(CopiedFrom(ps, a, b), ps, a, With(P, With(A, LeftOf(w, b[3]))))
<1> DEFINE F == FullParagraph
           p == Around(A, w, B)
           l == LeftOf(w, b[3])
           L == With(A, l)
           o == a[3]
           c == CopiedFrom(ps, a, b)
           D == With(P, L)
<1>1. /\ P \in Seq(F) /\ R \in Seq(F) /\ p \in F /\ b[3] \in Nat \ {0}
      /\ A \in Seq(Word) /\ w \in Word /\ B \in Seq(Word)
      /\ b[1] = Len(P) + 1 /\ b[2] = Len(A) + 1
  BY ZipIs DEF IsZip, At3
<1>2. PICK X \in Seq(F), N \in Seq(F), q \in F : P = Around(X, q, N) /\ a[1] = Len(X) + 1 /\ q = P[a[1]]
  <2> HIDE DEF F
  <2>1. \E X \in Seq(F), N \in Seq(F), q \in F : IsElement(P, a[1], X, q, N)
    BY <1>1, ElementAt
  <2> QED BY <2>1 DEF IsElement
<1>3. Len(P) = Len(X) + 1 + Len(N) /\ Len(X) \in Nat /\ Len(N) \in Nat
  <2> HIDE DEF F
  <2>1. Cells(X, q, N)
    BY CellsAre
  <2>2. Len(X) \in Nat /\ Len(N) \in Nat
    BY LenProperties
  <2> QED BY <1>2, <2>1, <2>2 DEF Cells
<1> DEFINE T == Around(N, p, R)
<1>4. ps = Around(X, q, T) /\ T \in Seq(F)
  <2>1. Around(Around(X, q, N), p, R) = Around(X, q, Around(N, p, R))
    <3> HIDE DEF F, p
    <3> QED BY <1>1, AroundOn
  <2>2. T \in Seq(F)
    <3> HIDE DEF F, p
    <3> QED BY <1>1, AroundHas
  <2> QED BY <1>2, <2>1, <2>2 DEF ZipOf
<1>5. ps[a[1]] = q
  <2> HIDE DEF T, F
  <2>1. Cells(X, q, T)
    BY <1>4, CellsAre
  <2> QED BY <1>2, <1>4, <2>1 DEF Cells
<1>6. q \in Seq(Word) /\ a[2] \in 1 .. Len(q)
  BY <1>5, FullParagraphSeq
<1>7. PICK C \in Seq(Word), E \in Seq(Word), y \in Word :
        q = Around(C, y, E) /\ a[2] = Len(C) + 1 /\ y = q[a[2]]
  <2> HIDE DEF F, T
  <2>1. \E C \in Seq(Word), E \in Seq(Word), y \in Word : IsElement(q, a[2], C, y, E)
    BY <1>6, ElementAt
  <2> QED BY <2>1 DEF IsElement
<1>8. o \in 1 .. Len(y) + 1 /\ o \in Nat \ {0}
  <2>1. o \in 1 .. Len(y) + 1
    BY <1>5, <1>7
  <2>2. Len(y) \in Nat
    BY WordIs
  <2> QED BY <2>1, <2>2
<1>9. l \in Word /\ L \in F
  BY <1>1, HalvesAre, WithFull
<1> DEFINE M == With(N, L)
           x == RightOf(y, o)
<1>10. c = ZipOf(<<>>, <<>>, x, E, M)
  <2>1. FarApart(X, C, N, A, a, b)
    BY <1>1, <1>2, <1>3, <1>7 DEF FarApart
  <2>2. LongZip(ps, X, C, y, E, N, A, w, B, R)
    BY <1>2, <1>7 DEF LongZip
  <2>3. /\ A \in Seq(Word) /\ w \in Word /\ B \in Seq(Word) /\ R \in Seq(FullParagraph)
        /\ b[3] \in Nat \ {0} /\ a[3] \in Nat \ {0}
        /\ X \in Seq(FullParagraph) /\ N \in Seq(FullParagraph)
    BY <1>1, <1>8
  <2>4. LongCopy(c, y, E, N, A, w, a[3], b[3])
    <3> HIDE DEF F, p, l, L, D, M, x, T
    <3> QED BY <2>1, <2>2, <2>3, CopiedLong
  <2> QED BY <2>4 DEF LongCopy
<1>11. D = ZipOf(X, C, y, E, M) /\ M \in Seq(F)
  <2>1. With(Around(X, q, N), L) = Around(X, q, With(N, L))
    <3> HIDE DEF F, L
    <3> QED BY <1>9, AroundOn
  <2>2. M \in Seq(F)
    <3> HIDE DEF F, L
    <3> QED BY <1>9, WithHas
  <2> HIDE DEF L
  <2> QED BY <1>2, <1>7, <2>1, <2>2 DEF ZipOf
<1>12. x \in Word /\ GetWordText(y) = TextTo(y, o) \o GetWordText(x)
  <2>1. x \in Word
    BY <1>8, HalvesAre
  <2> QED BY <1>8, <2>1, RightOfWord
<1> HIDE DEF x, D, M, T, c, o
<1>13. CopyOf(c, X, C, y, o, D)
  <2>1. IsZip(X, C, y, E, M)
    BY <1>11 DEF IsZip
  <2> QED BY <1>10, <1>11, <1>12, <2>1 DEF CopyOf
<1>14. Copies(c, ps, a, D)
  <2>1. IsZip(X, C, y, E, T)
    BY <1>4 DEF IsZip
  <2>2. ps = ZipOf(X, C, y, E, T)
    BY <1>4, <1>7 DEF ZipOf
  <2>3. At3(a, X, C, y)
    BY <1>2, <1>7, <1>8 DEF At3, o
  <2> QED BY <1>8, <1>13, <2>1, <2>2, <2>3 DEF Copies, o
<1> QED BY <1>14 DEF c, D

(* It starts in the same paragraph, in an earlier word. *)
LEMMA CopiesInParagraph ==
  ASSUME NEW P, NEW A, NEW w, NEW B, NEW R, IsZip(P, A, w, B, R),
         NEW ps, ps = ZipOf(P, A, w, B, R), NEW b, At3(b, P, A, w),
         NEW a, a[1] = Len(P) + 1, a[2] \in 1 .. Len(A), a[3] \in 1 .. Len(ps[a[1]][a[2]]) + 1
  PROVE  Copies(CopiedFrom(ps, a, b), ps, a, With(P, With(A, LeftOf(w, b[3]))))
<1> DEFINE F == FullParagraph
           none == <<>>
           p == Around(A, w, B)
           l == LeftOf(w, b[3])
           L == With(A, l)
           o == a[3]
           c == CopiedFrom(ps, a, b)
           D == With(P, L)
<1>1. /\ P \in Seq(F) /\ R \in Seq(F) /\ p \in F /\ b[3] \in Nat \ {0}
      /\ A \in Seq(Word) /\ w \in Word /\ B \in Seq(Word)
      /\ b[1] = Len(P) + 1 /\ b[2] = Len(A) + 1 /\ ps[Len(P) + 1] = p
  BY ZipIs DEF IsZip, At3
<1>2. PICK C \in Seq(Word), E \in Seq(Word), y \in Word :
        A = Around(C, y, E) /\ a[2] = Len(C) + 1 /\ y = A[a[2]]
  <2>1. \E C \in Seq(Word), E \in Seq(Word), y \in Word : IsElement(A, a[2], C, y, E)
    BY <1>1, ElementAt
  <2> QED BY <2>1 DEF IsElement
<1>3. Len(A) = Len(C) + 1 + Len(E) /\ Len(C) \in Nat /\ Len(E) \in Nat
  <2>1. Cells(C, y, E)
    BY CellsAre
  <2>2. Len(C) \in Nat /\ Len(E) \in Nat
    BY LenProperties
  <2> QED BY <1>2, <2>1, <2>2 DEF Cells
<1> DEFINE T == Around(E, w, B)
<1>4. p = Around(C, y, T) /\ T \in Seq(Word)
  <2>1. Around(Around(C, y, E), w, B) = Around(C, y, Around(E, w, B))
    BY <1>1, AroundOn
  <2>2. T \in Seq(Word)
    BY <1>1, AroundHas
  <2> QED BY <1>2, <2>1, <2>2
<1>5. p[a[2]] = y
  <2> HIDE DEF T, p
  <2>1. Cells(C, y, T)
    BY <1>4, CellsAre
  <2> QED BY <1>2, <1>4, <2>1 DEF Cells
<1>6. o \in 1 .. Len(y) + 1 /\ o \in Nat \ {0}
  <2>1. o \in 1 .. Len(y) + 1
    <3> HIDE DEF p
    <3> QED BY <1>1, <1>5
  <2>2. Len(y) \in Nat
    BY WordIs
  <2> QED BY <2>1, <2>2
<1>7. l \in Word /\ none \in Seq(F)
  BY <1>1, HalvesAre, EmptyIn
<1> DEFINE M == With(E, l)
           x == RightOf(y, o)
<1>8. c = ZipOf(<<>>, <<>>, x, M, <<>>)
  <2>1. b[2] = Len(C) + 1 + Len(E) + 1
    BY <1>1, <1>3
  <2>2. ps = ZipOf(P, Around(C, y, E), w, B, R)
    BY <1>2
  <2>3. /\ w \in Word /\ B \in Seq(Word) /\ R \in Seq(FullParagraph) /\ P \in Seq(FullParagraph)
        /\ b[1] = Len(P) + 1 /\ b[3] \in Nat \ {0} /\ a[3] \in Nat \ {0}
    BY <1>1, <1>6
  <2> QED BY <1>2, <2>1, <2>2, <2>3, CopiedShort
<1>9. D = ZipOf(P, C, y, M, none) /\ M \in Seq(Word)
  <2>1. With(Around(C, y, E), l) = Around(C, y, With(E, l))
    <3> HIDE DEF l
    <3> QED BY <1>7, AroundOn
  <2>2. M \in Seq(Word)
    <3> HIDE DEF l
    <3> QED BY <1>7, WithHas
  <2>3. L \in F
    BY <1>1, <1>7, WithFull
  <2> HIDE DEF L, F
  <2>4. D = Around(P, L, <<>>)
    BY <1>1, <2>3, WithIsAround
  <2> QED BY <1>2, <2>1, <2>2, <2>4 DEF ZipOf, L
<1>10. x \in Word /\ GetWordText(y) = TextTo(y, o) \o GetWordText(x)
  <2>1. x \in Word
    BY <1>6, HalvesAre
  <2> QED BY <1>6, <2>1, RightOfWord
<1> HIDE DEF x, D, M, T, c, o
<1>11. CopyOf(c, P, C, y, o, D)
  <2>1. IsZip(P, C, y, M, none)
    BY <1>1, <1>7, <1>9 DEF IsZip
  <2>2. c = ZipOf(<<>>, <<>>, x, M, none)
    BY <1>8
  <2> HIDE DEF none
  <2> QED BY <1>9, <1>10, <2>1, <2>2 DEF CopyOf
<1>12. Copies(c, ps, a, D)
  <2>1. IsZip(P, C, y, T, R)
    BY <1>1, <1>4 DEF IsZip
  <2>2. ps = ZipOf(P, C, y, T, R)
    BY <1>4 DEF ZipOf
  <2>3. At3(a, P, C, y)
    BY <1>2, <1>6 DEF At3, o
  <2> QED BY <1>6, <1>11, <2>1, <2>2, <2>3 DEF Copies, o
<1> QED BY <1>12 DEF c, D

(* It starts in the same word. *)
LEMMA CopiesInWord ==
  ASSUME NEW P, NEW A, NEW w, NEW B, NEW R, IsZip(P, A, w, B, R),
         NEW ps, ps = ZipOf(P, A, w, B, R), NEW b, At3(b, P, A, w), b[3] \in 1 .. Len(w) + 1,
         Canonical(w),
         NEW a, a[1] = Len(P) + 1, a[2] = Len(A) + 1, a[3] \in 1 .. b[3]
  PROVE  Copies(CopiedFrom(ps, a, b), ps, a, With(P, With(A, LeftOf(w, b[3]))))
<1> DEFINE F == FullParagraph
           none == <<>>
           l == LeftOf(w, b[3])
           L == With(A, l)
           o == a[3]
           x == RightOf(l, o)
           c == CopiedFrom(ps, a, b)
           D == With(P, L)
<1>1. /\ P \in Seq(F) /\ R \in Seq(F) /\ b[3] \in Nat \ {0}
      /\ A \in Seq(Word) /\ w \in Word /\ B \in Seq(Word)
      /\ b[1] = Len(P) + 1 /\ b[2] = Len(A) + 1
  BY DEF IsZip, At3
<1>2. o \in Nat \ {0} /\ o \in 1 .. Len(w) + 1
  <2>1. Len(w) \in Nat
    BY <1>1, WordIs
  <2> QED BY <1>1, <2>1
<1>3. l \in Word /\ none \in Seq(F) /\ none \in Seq(Word)
  BY <1>1, HalvesAre, EmptyIn
<1>4. x \in Word
  <2> HIDE DEF l
  <2> QED BY <1>2, <1>3, HalvesAre
<1>5. c = ZipOf(<<>>, <<>>, x, <<>>, <<>>)
  BY <1>1, <1>2, CopiedInWord
<1>6. D = ZipOf(P, A, l, none, none)
  <2>1. L \in F
    <3> HIDE DEF l
    <3> QED BY <1>1, <1>3, WithFull
  <2>2. L = Around(A, l, <<>>)
    <3> HIDE DEF l
    <3> QED BY <1>1, <1>3, WithIsAround
  <2>3. D = Around(P, L, <<>>)
    <3> HIDE DEF F, L
    <3> QED BY <1>1, <2>1, WithIsAround
  <2> HIDE DEF L, l, D
  <2> QED BY <2>2, <2>3 DEF ZipOf
<1>7. GetWordText(l) = TextTo(w, o) \o GetWordText(x)
  BY <1>1, RightOfLeft
<1> HIDE DEF x, D, l, c, o
<1>8. CopyOf(c, P, A, w, o, D)
  <2>1. IsZip(P, A, l, none, none)
    BY <1>1, <1>3 DEF IsZip
  <2>2. c = ZipOf(<<>>, <<>>, x, none, none)
    BY <1>5
  <2> HIDE DEF none
  <2> QED BY <1>4, <1>6, <1>7, <2>1, <2>2 DEF CopyOf
<1>9. Copies(c, ps, a, D)
  <2>1. At3(a, P, A, w)
    BY <1>2 DEF At3, o
  <2> QED BY <1>2, <1>8, <2>1 DEF Copies, o
<1> QED BY <1>9 DEF c, D, l

LEMMA CopiesFound ==
  ASSUME NEW P, NEW A, NEW w, NEW B, NEW R, IsZip(P, A, w, B, R),
         NEW ps, ps = ZipOf(P, A, w, B, R),
         NEW b, At3(b, P, A, w), b[3] \in 1 .. Len(w) + 1,
         NEW a, WordAt(ps, a), a[3] \in 1 .. Len(ps[a[1]][a[2]]) + 1, InOrder(a, b),
         a[1] = b[1] /\ a[2] = b[2] => Canonical(w)
  PROVE  Copies(CopiedFrom(ps, a, b), ps, a, With(P, With(A, LeftOf(w, b[3]))))
<1> DEFINE p == Around(A, w, B)
           Done == Copies(CopiedFrom(ps, a, b), ps, a, With(P, With(A, LeftOf(w, b[3]))))
<1>1. /\ p \in FullParagraph /\ Len(p) = Len(A) + 1 + Len(B) /\ ps[Len(P) + 1] = p
      /\ Len(ps) = Len(P) + 1 + Len(R)
      /\ Len(P) \in Nat /\ Len(A) \in Nat /\ Len(B) \in Nat /\ Len(R) \in Nat
  BY ZipIs
<1> HIDE DEF p
<1>2. /\ b[1] = Len(P) + 1 /\ b[2] = Len(A) + 1
      /\ a[1] \in 1 .. Len(ps) /\ a[2] \in 1 .. Len(ps[a[1]]) /\ a[3] \in Nat \ {0}
  BY DEF At3, WordAt
<1>3. CASE a[1] # b[1]
  <2>1. a[1] \in 1 .. Len(P)
    <3> DEFINE i == a[1]
               j == b[1]
               n == Len(P)
    <3>1. i # j /\ i <= j
      BY <1>3 DEF InOrder
    <3>2. i \in Nat \ {0} /\ n \in Nat /\ j = n + 1
      <4>1. Len(ps) \in Nat
        BY <1>1
      <4> HIDE DEF i
      <4>2. i \in 1 .. Len(ps)
        BY <1>2 DEF i
      <4> QED BY <1>1, <1>2, <4>1, <4>2
    <3> HIDE DEF i, j, n
    <3>3. i \in 1 .. n
      BY <3>1, <3>2
    <3> QED BY <3>3 DEF i, n
  <2>2. Done
    BY <1>2, <2>1, CopiesEarlier
  <2> QED BY <2>2
<1>4. CASE a[1] = b[1] /\ a[2] # b[2]
  <2>1. a[1] = Len(P) + 1
    BY <1>2, <1>4
  <2>2. a[2] \in 1 .. Len(A)
    <3> DEFINE i == a[2]
               j == b[2]
               n == Len(A)
    <3>1. i \in 1 .. Len(p) /\ i <= j /\ i # j
      BY <1>1, <1>2, <1>4, <2>1 DEF InOrder
    <3>2. Len(p) \in Nat /\ n \in Nat /\ j = n + 1
      BY <1>1, <1>2
    <3> HIDE DEF i, j, n
    <3>3. i \in 1 .. n
      BY <3>1, <3>2
    <3> QED BY <3>3 DEF i, n
  <2>3. Done
    BY <2>1, <2>2, CopiesInParagraph
  <2> QED BY <2>3
<1>5. CASE a[1] = b[1] /\ a[2] = b[2]
  <2>1. a[1] = Len(P) + 1 /\ a[2] = Len(A) + 1
    BY <1>2, <1>5
  <2>2. a[3] \in 1 .. b[3]
    <3>1. b[3] \in Nat \ {0}
      BY DEF At3
    <3> QED BY <1>2, <1>5, <3>1 DEF InOrder
  <2>3. Done
    BY <1>5, <2>1, <2>2, CopiesInWord
  <2> QED BY <2>3
<1> QED BY <1>3, <1>4, <1>5

(* What is copied is the text between the two ends. *)
CopiedBetween(c, ps, a, b) ==
  LET t == Flat(ps)
      v == SubSeq(t, 1, FlatPlace(ps, a))
      u == SubSeq(t, FlatPlace(ps, b) + 1, Len(t))
  IN  /\ c \in Seq(FullParagraph) /\ NonEmpty(c)
      /\ (v \o Flat(c)) \o u = t

LEMMA CopiedIs ==
  ASSUME NEW d, NEW a, NEW b, Selects(d, a, b)
  PROVE  CopiedBetween(CopiedFrom(d.paras, a, b), d.paras, a, b)
<1> DEFINE ps == d.paras
           c == CopiedFrom(ps, a, b)
           t == Flat(ps)
<1>1. /\ ps \in Seq(FullParagraph)
      /\ PlaceIn(ps, a) /\ PlaceIn(ps, b) /\ WordAt(ps, a) /\ WordAt(ps, b) /\ InOrder(a, b)
      /\ a[1] = b[1] /\ a[2] = b[2] => Canonical(ps[b[1]][b[2]])
  BY DEF Selects
<1> HIDE DEF ps
<1>2. PICK P, A, w, B, R :
        IsZip(P, A, w, B, R) /\ ps = ZipOf(P, A, w, B, R) /\ At3(b, P, A, w) /\ w = ps[b[1]][b[2]]
  BY <1>1, LocatedIn
<1>3. b[3] \in 1 .. Len(w) + 1 /\ a[3] \in 1 .. Len(ps[a[1]][a[2]]) + 1
  BY <1>1, <1>2 DEF PlaceIn
<1>4. A \in Seq(Word) /\ w \in Word /\ P \in Seq(FullParagraph) /\ b[3] \in Nat \ {0}
  BY <1>2 DEF IsZip, At3
<1> DEFINE l == LeftOf(w, b[3])
           D == With(P, With(A, l))
           u == Rest(w, b[3], B, R)
           y == Ahead(P, A, w, b[3])
<1>5. Copies(c, ps, a, D)
  <2>1. a[1] = b[1] /\ a[2] = b[2] => Canonical(w)
    BY <1>1, <1>2
  <2> QED BY <1>1, <1>2, <1>3, <2>1, CopiesFound
<1>6. Flat(D) = y
  <2>1. l \in Word /\ GetWordText(l) = TextTo(w, b[3])
    BY <1>3, <1>4, HalvesAre, LeftOfWord
  <2> HIDE DEF l
  <2>2. Flat(P \o <<A \o <<l>>>>) = Pre(P, A) \o GetWordText(l)
    BY <1>4, <2>1, ZipToPlace
  <2> QED BY <2>1, <2>2 DEF With, Ahead
<1> HIDE DEF D, c
<1>7. PICK P1, A1, w1, B1, R1 :
        /\ IsZip(P1, A1, w1, B1, R1) /\ ps = ZipOf(P1, A1, w1, B1, R1) /\ At3(a, P1, A1, w1)
        /\ a[3] \in 1 .. Len(w1) + 1 /\ CopyOf(c, P1, A1, w1, a[3], D)
  BY <1>5 DEF Copies
<1> DEFINE v == Ahead(P1, A1, w1, a[3])
<1>8. /\ c \in Seq(FullParagraph) /\ NonEmpty(c) /\ y = v \o Flat(c)
  <2>1. w1 \in Word
    BY <1>7 DEF IsZip
  <2> HIDE DEF y
  <2> QED BY <1>6, <1>7, <2>1, CopyText
<1>9. SubSeq(t, 1, FlatPlace(ps, a)) = v
  <2> DEFINE z == Rest(w1, a[3], B1, R1)
  <2>1. FlatPlace(ps, a) = Len(v) /\ t = v \o z /\ v \in Seq(Symbol) /\ z \in Seq(Symbol)
    <3>1. /\ FlatPlace(ZipOf(P1, A1, w1, B1, R1), a) = Len(v) /\ Flat(ZipOf(P1, A1, w1, B1, R1)) = v \o z
          /\ v \in Seq(Symbol) /\ z \in Seq(Symbol)
      BY <1>7, ZipPlace
    <3> QED BY <1>7, <3>1 DEF ps
  <2> HIDE DEF v, z
  <2> QED BY <2>1, PartsOfConcat
<1>10. SubSeq(t, FlatPlace(ps, b) + 1, Len(t)) = u /\ t = y \o u
  <2>1. FlatPlace(ps, b) = Len(y) /\ t = y \o u /\ y \in Seq(Symbol) /\ u \in Seq(Symbol)
    <3>1. /\ FlatPlace(ZipOf(P, A, w, B, R), b) = Len(y) /\ Flat(ZipOf(P, A, w, B, R)) = y \o u
          /\ y \in Seq(Symbol) /\ u \in Seq(Symbol)
      <4>1. IsZip(P, A, w, B, R) /\ At3(b, P, A, w) /\ b[3] \in 1 .. Len(w) + 1
        BY <1>2, <1>3
      <4> QED BY <4>1, ZipPlace DEF u
    <3> QED BY <1>2, <3>1 DEF ps
  <2> HIDE DEF y, u
  <2> QED BY <2>1, PartsOfConcat
<1> HIDE DEF v, u, y
<1>11. (v \o Flat(c)) \o u = t
  BY <1>8, <1>10
<1> QED BY <1>8, <1>9, <1>10, <1>11 DEF CopiedBetween, ps, c

(* Cutting and pasting what was cut gives the text there was.               *)
LEMMA CutPasted ==
  ASSUME NEW d, Good(d), SafeSelection(d), NEW hint \in Style,
         Len(Copied(d)) = 1 \/ Delete(d).co = 1
  PROVE  Flat(Pasted(Delete(d), Copied(d), hint).paras) = Flat(d.paras)
<1> DEFINE a == Start(d)
           b == End(d)
           r == Delete(d)
           c == Copied(d)
           t == Flat(d.paras)
           v == SubSeq(t, 1, FlatPlace(d.paras, a))
           u == SubSeq(t, FlatPlace(d.paras, b) + 1, Len(t))
<1>1. Selects(d, a, b)
  BY SafeSelects
<1>2. Exactly(r, v, u) /\ ~Marked(r)
  BY DeletedExactly
<1>3. c = CopiedFrom(d.paras, a, b)
  BY CopiedIsFrom
<1> HIDE DEF a, b, r, c
<1>4. c \in Seq(FullParagraph) /\ NonEmpty(c) /\ (v \o Flat(c)) \o u = t
  <2>1. CopiedBetween(c, d.paras, a, b)
    BY <1>1, <1>3, CopiedIs
  <2> QED BY <2>1 DEF CopiedBetween
<1> HIDE DEF v, u, t
<1>5. Flat(Pasted(r, c, hint).paras) = (v \o Flat(c)) \o u
  BY <1>2, <1>4, PastedIs DEF r, c
<1> QED BY <1>4, <1>5 DEF r, c, t

-----------------------------------------------------------------------------
(* The theorems.                                                            *)

LEMMA InitHolds ==
  ASSUME Init
  PROVE  WordInv
<1> DEFINE p == <<<<>>>>
           ps == <<p>>
           m == NoMark
           off == FALSE
<1>1. /\ IsSeq(<<>>) /\ Len(<<>>) = 0
      /\ IsSeq(p) /\ Len(p) = 1 /\ Worded(p)
  BY EmptyWord, SeqLiterals, WordedLiterals
<1> HIDE DEF p
<1>2. IsSeq(ps) /\ Len(ps) = 1 /\ ps[1] = p
  BY SeqLiterals
<1>3. doc = Document(ps, 1, 1, 1, m, off)
  BY Zenon DEF Init, Document, ps, p, m, off
<1> HIDE DEF ps, m, off
<1>4. /\ IsDoc(doc) /\ doc.paras = ps /\ doc.cp = 1 /\ doc.cw = 1 /\ doc.co = 1
      /\ doc.mark = m
  BY <1>3, DocumentFields
<1>5. p # <<>>
  BY <1>1, SeqIs
<1>6. Filled(ps)
  <2>1. \A i \in 1 .. Len(ps) : i = 1
    BY <1>2
  <2> QED BY <1>1, <1>2, <1>5, <2>1 DEF Filled, Paras
<1>7. Good(doc)
  <2>1. 1 \in 1 .. Len(ps) /\ 1 \in 1 .. Len(p)
    BY <1>1, <1>2
  <2>2. doc.cp \in 1 .. Len(doc.paras)
    BY <1>4, <2>1, Zenon
  <2>3. doc.cw \in 1 .. Len(doc.paras[doc.cp])
    BY <1>2, <1>4, <2>1, Zenon
  <2> QED BY <1>4, <1>6, <2>2, <2>3 DEF Good
<1>8. Filled(clip)
  BY <1>1 DEF Init, Filled, Paras
<1> QED BY <1>4, <1>7, <1>8 DEF WordInv, Held, Loose, Marked, m

LEMMA NextKeeps ==
  ASSUME WordInv, [Next]_vars
  PROVE  Held(doc') /\ Filled(clip')
<1> DEFINE d == doc
           typed == TypeWhileSelected(d)
<1>1. Held(d) /\ Good(d) /\ Filled(clip)
  BY DEF WordInv, Held
<1>2. Settled(typed) /\ Good(typed) /\ (Within(d) => Within(typed))
  BY <1>1, SelectionForgotten DEF Settled
<1> HIDE DEF typed
<1>3. ASSUME Marked(d), MarkInDocument(d) PROVE WordAt(d.paras, d.mark)
  BY <1>1, <1>3, PlaceIsWord DEF MarkInDocument
<1>4. ~Marked(d) => Settled(d)
  BY <1>1 DEF Settled, Loose
<1>5. \A e : Good(e) /\ ~Marked(e) => Held(e)
  BY DEF Held, Loose
<1>w. CursorInDocument(d) => Within(d)
  BY <1>1, CursorWithin
<1>s. Plain \in Style /\ Attribute \in Style /\ \A a \in Attribute : {a} \in Style
  BY DEF Style, Plain
<1> HIDE DEF d
<1>6. CASE Move
  <2> DEFINE e == MoveWhileSelected(d)
  <2>1. doc' \in MoveTargets(e) /\ clip' = clip
    BY <1>6, Zenon DEF Move, d
  <2>2. Settled(e) /\ Good(e)
    BY <1>1, SelectionForgotten DEF Settled
  <2> HIDE DEF e
  <2>3. Edited(e, doc')
    BY <2>1, <2>2, MovesGood, MovedIsEdited
  <2> QED BY <1>1, <2>1, <2>2, <2>3, EditedSettled
<1>7. CASE Select
  <2> DEFINE e == SetMark(d)
  <2>1. CursorInDocument(d) /\ doc' \in MoveTargets(e) /\ clip' = clip
    BY <1>7, Zenon DEF Select, d
  <2>2. Held(e)
    BY <1>1, <1>w, <2>1, SelectHeld
  <2> HIDE DEF e
  <2>3. Moved(e, doc')
    BY <2>1, <2>2, MovesGood DEF Held
  <2>4. Held(doc')
    BY <2>2, <2>3 DEF Held, Moved, KeepsMark, Loose, Marked
  <2> QED BY <1>1, <2>1, <2>4
<1>8. CASE SelectTheWord
  <2>1. CursorInDocument(d) /\ doc' = SelectWord(d) /\ clip' = clip
    BY <1>8, Zenon DEF SelectTheWord, d
  <2> QED BY <1>1, <1>w, <2>1, SelectHeld
<1>9. CASE Toggle
  <2>1. CursorInDocument(d) /\ doc' = ToggleMark(d) /\ clip' = clip
    BY <1>9, Zenon DEF Toggle, d
  <2> QED BY <1>1, <1>w, <2>1, SelectHeld
<1>10. CASE TypeChar
  <2>1. PICK c \in Char, hint \in Style : doc' = InsertStringIntoWord(typed, <<c>>, hint)
    BY <1>10, Zenon DEF TypeChar, typed, d
  <2>2. CursorInDocument(d) /\ clip' = clip
    BY <1>10, Zenon DEF TypeChar, d
  <2>3. Edited(typed, doc')
    <3>1. <<c>> \in Word
      BY DEF Word
    <3> QED BY <1>2, <1>w, <2>1, <2>2, <3>1, InsertGood
  <2> QED BY <1>1, <1>2, <2>2, <2>3, EditedSettled
<1>11. CASE TypeSpace
  <2>1. PICK hint \in Style : doc' = SplitCurrentWord(typed, hint)
    BY <1>11, Zenon DEF TypeSpace, typed, d
  <2>2. clip' = clip
    BY <1>11, Zenon DEF TypeSpace
  <2>3. Edited(typed, doc')
    BY <1>2, <2>1, SplitCurrentWordGood
  <2> QED BY <1>1, <1>2, <2>2, <2>3, EditedSettled
<1>12. CASE TypeReturn
  <2>1. PICK hint \in Style : doc' = SplitCurrentParagraph(typed, hint)
    BY <1>12, Zenon DEF TypeReturn, typed, d
  <2>2. clip' = clip
    BY <1>12, Zenon DEF TypeReturn
  <2>3. Edited(typed, doc')
    BY <1>2, <2>1, SplitCurrentParagraphGood
  <2> QED BY <1>1, <1>2, <2>2, <2>3, EditedSettled
<1>13. ASSUME NEW e, Edited(d, e), MarkInDocument(d), doc' = DeleteSelectionOr(d, e)
       PROVE  Held(doc')
  <2>1. CASE Marked(d)
    <3>1. doc' = Delete(d)
      BY <1>13, <2>1 DEF DeleteSelectionOr
    <3> QED BY <1>1, <1>3, <1>5, <1>13, <2>1, <3>1, DeleteGood
  <2>2. CASE ~Marked(d)
    <3>1. doc' = e
      BY <1>13, <2>2 DEF DeleteSelectionOr
    <3> QED BY <1>4, <1>13, <2>2, <3>1, EditedSettled
  <2> QED BY <2>1, <2>2
<1>14. CASE Backspace
  <2>1. MarkInDocument(d) /\ doc' = DeleteSelectionOr(d, DeletePreviousChar(d)) /\ clip' = clip
    BY <1>14, Zenon DEF Backspace, d
  <2>2. Edited(d, DeletePreviousChar(d))
    BY <1>1, DeleteCharsGood
  <2> QED BY <1>1, <1>13, <2>1, <2>2
<1>15. CASE DeleteKey
  <2>1. MarkInDocument(d) /\ doc' = DeleteSelectionOr(d, DeleteNextChar(d)) /\ clip' = clip
    BY <1>15, Zenon DEF DeleteKey, d
  <2>2. Edited(d, DeleteNextChar(d))
    BY <1>1, DeleteCharsGood
  <2> QED BY <1>1, <1>13, <2>1, <2>2
<1>16. CASE DeleteWordKey
  <2>1. doc' = DeleteWord(typed) /\ clip' = clip
    BY <1>16, Zenon DEF DeleteWordKey, typed, d
  <2>2. Edited(typed, doc')
    BY <1>2, <2>1, DeleteWordGood
  <2> QED BY <1>1, <1>2, <2>1, <2>2, EditedSettled
<1>17. CASE SetStyle
  <2>1. /\ clip' = clip
        /\ \/ \E a \in Attribute : doc' = ApplyStyleToSelection(d, {a}, Attribute)
           \/ doc' = ApplyStyleToSelection(d, Plain, Plain)
    BY <1>17, Zenon DEF SetStyle, d
  <2>2. PICK sor \in Style, sand \in Style : doc' = ApplyStyleToSelection(d, sor, sand)
    BY <1>s, <2>1, Zenon
  <2>3. Good(doc') /\ ~Marked(doc')
    BY <1>1, <2>2, ApplyStyleGood
  <2> QED BY <1>1, <1>5, <2>1, <2>3
<1>18. ASSUME SomethingSelected PROVE WordAt(d.paras, d.mark)
  <2>1. Marked(d) /\ MarkInDocument(d)
    BY <1>18, Zenon DEF SomethingSelected, d
  <2> QED BY <1>3, <2>1
<1>19. CASE CopyKey
  <2>1. SomethingSelected /\ clip' = Copied(d) /\ doc' = UnsetMark(d)
    BY <1>19, Zenon DEF CopyKey, d
  <2>2. Filled(clip')
    BY <1>1, <1>18, <2>1, CopiedFilled
  <2> QED BY <1>1, <1>5, <2>1, <2>2, UnsetMarkGood
<1>20. CASE CutKey
  <2>1. SomethingSelected /\ clip' = Copied(d) /\ doc' = Delete(d)
    BY <1>20, Zenon DEF CutKey, d
  <2>2. Filled(clip')
    BY <1>1, <1>18, <2>1, CopiedFilled
  <2> QED BY <1>1, <1>5, <1>18, <2>1, <2>2, DeleteGood
<1>21. CASE PasteKey
  <2> DEFINE e == IF Marked(d) THEN Delete(d) ELSE d
  <2>1. PICK hint \in Style : doc' = Pasted(e, clip, hint)
    BY <1>21, Zenon DEF PasteKey, Paste, d
  <2>2. MarkInDocument(d) /\ clip # <<>> /\ clip' = clip
    BY <1>21, Zenon DEF PasteKey, d
  <2>3. Settled(e) /\ Good(e)
    <3>1. CASE Marked(d)
      BY <1>1, <1>3, <2>2, <3>1, DeleteGood DEF Settled, Loose
    <3>2. CASE ~Marked(d)
      BY <1>1, <1>4, <3>2
    <3> QED BY <3>1, <3>2
  <2> HIDE DEF e
  <2>4. Edited(e, doc')
    BY <1>1, <2>1, <2>2, <2>3, PastedGood
  <2> QED BY <1>1, <2>2, <2>3, <2>4, EditedSettled
<1>22. CASE UNCHANGED vars
  BY <1>1, <1>22 DEF vars, d
<1> QED BY <1>6, <1>7, <1>8, <1>9, <1>10, <1>11, <1>12, <1>14, <1>15, <1>16, <1>17,
           <1>19, <1>20, <1>21, <1>22 DEF Next

(* In a document of any size, every command (navigate.lua) leaves the       *)
(* cursor at a word, and no paragraph without words: Document[cp][cw],      *)
(* which the next one reads unchecked, is there.                            *)
THEOREM CursorWordCorrect == Spec => []CursorWordExists
<1>1. Init => WordInv
  BY InitHolds
<1>2. WordInv /\ [Next]_vars => WordInv'
  BY NextKeeps DEF WordInv
<1>3. WordInv => CursorWordExists
  <2> SUFFICES ASSUME WordInv PROVE CursorWordExists
    OBVIOUS
  <2>1. Good(doc)
    BY DEF WordInv, Held
  <2>2. DOMAIN doc.paras = 1 .. Len(doc.paras) /\ DOMAIN Paragraph(doc) = 1 .. Len(Paragraph(doc))
    BY <2>1, GoodIs, SeqIs
  <2> QED BY <2>1, <2>2 DEF CursorWordExists, Good, Filled, Paragraph
<1> QED BY <1>1, <1>2, <1>3, PTL DEF Spec

(* In a document of any size, an edit (navigate.lua) leaves no mark in text *)
(* that is gone: a mark that typing would delete from, or moving forget, is *)
(* in a word that is there, and the cursor is at a word.                    *)
THEOREM LooseMarkCorrect == Spec => []LooseMarkInDocument
<1>1. Init => WordInv
  BY InitHolds
<1>2. WordInv /\ [Next]_vars => WordInv'
  BY NextKeeps DEF WordInv
<1>3. WordInv => LooseMarkInDocument
  BY DEF WordInv, Held, Loose, LooseMarkInDocument, MarkInDocument
<1> QED BY <1>1, <1>2, <1>3, PTL DEF Spec

(* In a document of any size, Cmd.Delete (navigate.lua) takes away the      *)
(* selection and nothing else, keeps the space or the end of a paragraph    *)
(* before it, and leaves the cursor where the selection was; provided that  *)
(* a word in which it both starts and ends has no code without effect.      *)
THEOREM DeleteCorrect == Spec => []DeleteIsExact
<1>1. Init => WordInv
  BY InitHolds
<1>2. WordInv /\ [Next]_vars => WordInv'
  BY NextKeeps DEF WordInv
<1>3. WordInv => DeleteIsExact
  BY DeletedIs DEF WordInv, Held, DeleteIsExact
<1> QED BY <1>1, <1>2, <1>3, PTL DEF Spec

(* In a document of any size, Cmd.Paste (clipboard.lua) directly after      *)
(* Cmd.Cut puts back the text that was there, whatever style is being       *)
(* typed: what Cmd.Copy takes, with its first and last word cut at the      *)
(* selection, is all the text between the two ends, and what is pasted goes *)
(* in at the cursor; provided that it is one paragraph or the cursor is at  *)
(* the beginning of a word, and that a word in which the selection both     *)
(* starts and ends has no code without effect.                              *)
THEOREM CutAndPasteCorrect == Spec => []CutAndPaste
<1>1. Init => WordInv
  BY InitHolds
<1>2. WordInv /\ [Next]_vars => WordInv'
  BY NextKeeps DEF WordInv
<1>3. WordInv => CutAndPaste
  BY CutPasted DEF WordInv, Held, CutAndPaste, Text
<1> QED BY <1>1, <1>2, <1>3, PTL DEF Spec
=============================================================================
