------------------------------ MODULE WordEdits ------------------------------
(***************************************************************************)
(* One word under every sequence of the operations of StyledWord that the  *)
(* editing commands apply to it, and what these operations promise: they   *)
(* are those of a sequence of characters each with a style of its own.     *)
(***************************************************************************)
EXTENDS StyledWord

CONSTANT MaxChars  \* bound: characters in the word

ASSUME MaxCharsAssumption == MaxChars \in Nat

VARIABLE word

Offsets(w) == 1 .. Len(w) + 1

-----------------------------------------------------------------------------
(* The characters of a word with their styles.                             *)

(* A code gives the style of the characters behind it. *)
Read(r, x) ==
  IF IsCode(x) THEN [r EXCEPT !.style = x]
  ELSE [r EXCEPT !.chars = Append(@, <<x, r.style>>)]

Reading(w, style) ==
  LET upto[i \in 0 .. Len(w)] ==
        IF i = 0 THEN [style |-> style, chars |-> <<>>] ELSE Read(upto[i - 1], w[i])
  IN  upto[Len(w)]

StyledFrom(w, style) == Reading(w, style).chars
Styled(w) == StyledFrom(w, Plain)

(* How many characters lie before an offset. *)
CharsBefore(w, offset) == Len(Styled(SubSeq(w, 1, offset - 1)))

Before(w, o) == SubSeq(Styled(w), 1, CharsBefore(w, o))
After(w, o) == SubSeq(Styled(w), CharsBefore(w, o) + 1, Len(Styled(w)))

-----------------------------------------------------------------------------
(* The operations.                                                         *)

Size == Len(Styled(word))

Insert ==
  /\ Size < MaxChars
  /\ \E c \in Char, o \in Offsets(word), hint \in Style :
       word' = InsertIntoWord(word, <<c>>, o, hint).word

Delete ==
  \E first, next \in Offsets(word) :
    first <= next /\ word' = DeleteFromWord(word, first, next)

(* style_tab: an attribute is set, or all are cleared. *)
StyleTab == {<<{a}, Attribute>> : a \in Attribute} \cup {<<Plain, Plain>>}

ApplyStyle ==
  \E first, next \in Offsets(word), t \in StyleTab :
    /\ first <= next
    /\ word' = ApplyStyleToWord(word, t[1], t[2], first, next, 1).word

(* SplitCurrentWord: the new word, with its style hint in front. *)
Split ==
  \E o \in Offsets(word), hint \in Style :
    word' = StylePrime(hint) \o DeleteFromWord(word, 1, o)

Init == word = <<>>

Next == Insert \/ Delete \/ ApplyStyle \/ Split

Spec == Init /\ [][Next]_word

-----------------------------------------------------------------------------
(* No code without effect. *)
Canonical(w) ==
  \A i \in DOMAIN w :
    IsCode(w[i]) => i < Len(w) /\ ~IsCode(w[i + 1]) /\ StyleAt(w, i) # w[i]

-----------------------------------------------------------------------------
(* Properties.  Each holds for all arguments at every word that can arise.  *)

(* What is inserted goes exactly where the cursor is, with its own style,   *)
(* no other character changes its style, and the cursor ends after it.      *)
InsertIsExact ==
  \A c \in Char, o \in Offsets(word), hint \in Style :
    \A ins \in {<<c>>, StylePrime(hint) \o <<c>>} :
      LET r == InsertIntoWord(word, ins, o, hint)
      IN  /\ Styled(r.word) = Before(word, o) \o StyledFrom(ins, hint) \o After(word, o)
          /\ CharsBefore(r.word, r.stop) = CharsBefore(word, o) + 1
          /\ Canonical(r.word)

(* Deleting takes away the characters between the offsets, and the styles   *)
(* of the others survive the loss of codes between them.                    *)
DeleteIsExact ==
  \A first, next \in Offsets(word) :
    first <= next =>
      LET r == DeleteFromWord(word, first, next)
      IN  Styled(r) = Before(word, first) \o After(word, next) /\ Canonical(r)

(* Cutting a word in two and joining the halves gives the word back.        *)
SplitJoins ==
  \A o \in Offsets(word), hint \in Style :
    LET left  == DeleteFromWord(word, o, Len(word) + 1)
        right == StylePrime(hint) \o DeleteFromWord(word, 1, o)
    IN  Styled(InsertIntoWord(right, left, 1, Plain).word) = Styled(word)

(* A style is applied to the selected characters only, and the cursor stays *)
(* between the same two characters.                                         *)
ApplyIsExact ==
  \A first, next, cursor \in Offsets(word), t \in StyleTab :
    first <= next =>
      LET r == ApplyStyleToWord(word, t[1], t[2], first, next, cursor)
          a == CharsBefore(word, first)
          b == CharsBefore(word, next)
      IN  /\ Styled(r.word) =
               [i \in 1 .. Size |->
                  IF a < i /\ i <= b
                    THEN <<Styled(word)[i][1], (Styled(word)[i][2] \cap t[2]) \cup t[1]>>
                    ELSE Styled(word)[i]]
          /\ CharsBefore(r.word, r.cursor) = CharsBefore(word, cursor)

(* The fixed buffers of word.c are large enough.  "Adding a style will add  *)
(* at most two extra bytes to the string".                                  *)
BuffersSuffice ==
  /\ \A first, next \in Offsets(word) :
       first <= next =>
         /\ Len(DeleteFromWord(word, first, next)) <= Len(word)
         /\ \A t \in StyleTab :
              Len(ApplyStyleToWord(word, t[1], t[2], first, next, 1).word) <= Len(word) + 2
  /\ \A c \in Char, o \in Offsets(word), hint \in Style :
       \A ins \in {<<c>>, word} :
         Len(InsertIntoWord(word, ins, o, hint).word) <= Len(word) + Len(ins) + 7

(* Next and previous undo each other: each steps over one character and     *)
(* they stop at the same end, so no character can be reached or skipped     *)
(* because of codes around it.                                              *)
StepsOverOneChar ==
  \A o \in Offsets(word) :
    LET n == NextCharInWord(word, o)
        p == PrevCharInWord(word, o)
    IN  /\ n = 0 <=> CharsBefore(word, o) = Size
        /\ p = 0 <=> CharsBefore(word, o) = 0
        /\ n # 0 => /\ CharsBefore(word, n) = CharsBefore(word, o) + 1
                    /\ CharsBefore(word, PrevCharInWord(word, n)) = CharsBefore(word, o)
        /\ p # 0 => /\ CharsBefore(word, p) = CharsBefore(word, o) - 1
                    /\ p = 1 \/ ~IsCode(word[p - 1])
=============================================================================
