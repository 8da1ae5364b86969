------------------------------ MODULE StyledWord ------------------------------
(***************************************************************************)
(* Words (src/c/word.c).  A word is a string of characters and style       *)
(* codes; a code gives the style of the characters after it, and a word    *)
(* starts with no style.  Offsets count from 1 and lie before an element.  *)
(*                                                                         *)
(* A character is one element here, however many bytes it has, and a style *)
(* is the set of attributes that are on.                                   *)
(***************************************************************************)
EXTENDS Integers, Sequences

CONSTANTS
  Char,      \* printable characters
  Attribute  \* bold, italic, underline

Style == SUBSET Attribute
Plain == {}

ASSUME CharAssumption == \A style \in Style : style \notin Char

Word == Seq(Char \cup Style)

IsCode(x) == x \notin Char

-----------------------------------------------------------------------------
(* copy: the elements of a word go to the destination one by one.  A code   *)
(* only sets the style of the source; a character is preceded by a code if  *)
(* its style is not that of the destination.                                *)

State(s, d) == [out |-> <<>>, sstate |-> s, dstate |-> d]

CopyForgetsCode(c, x, sor, sand) ==  \* fault: the code written last is forgotten
  IF IsCode(x) THEN [c EXCEPT !.sstate = x]
  ELSE LET e == (c.sstate \cap sand) \cup sor
       IN  [c EXCEPT !.out = @ \o (IF c.dstate = e THEN <<x>> ELSE <<e, x>>)]

Copy(c, x, sor, sand) ==
  IF IsCode(x) THEN [c EXCEPT !.sstate = x]
  ELSE LET e == (c.sstate \cap sand) \cup sor
       IN  [c EXCEPT !.out = @ \o (IF c.dstate = e THEN <<x>> ELSE <<e, x>>),
                     !.dstate = e]

(* The elements first..last of w, copied on from the state c. *)
CopyRange(c, w, first, last) ==
  LET upto[i \in first - 1 .. last] ==
        IF i = first - 1 THEN c ELSE Copy(upto[i - 1], w[i], Plain, Attribute)
  IN  IF last < first THEN c ELSE upto[last]

(* copy(NULL, ...): the elements are skipped, their codes remembered. *)
StyleAt(w, offset) ==
  LET codes == {i \in DOMAIN w : i < offset /\ IsCode(w[i])}
  IN  IF codes = {} THEN Plain ELSE w[CHOOSE i \in codes : \A j \in codes : j <= i]

InsertKeepsState(w, ins, offset, newstate) ==  \* fault: the style of ins runs on
  LET before == CopyRange(State(Plain, Plain), w, 1, offset - 1)
      inside == CopyRange([before EXCEPT !.sstate = newstate], ins, 1, Len(ins))
      after  == CopyRange(inside, w, offset, Len(w))
  IN  [word |-> after.out, stop |-> Len(inside.out) + 1]

(* insertintoword: the word and the offset after what was inserted. *)
InsertIntoWord(w, ins, offset, newstate) ==
  LET inserted(before) == CopyRange([before EXCEPT !.sstate = newstate], ins, 1, Len(ins))
      rest(inside) == CopyRange([inside EXCEPT !.sstate = StyleAt(w, offset)], w, offset, Len(w))
      result(inside) == [word |-> rest(inside).out, stop |-> Len(inside.out) + 1]
  IN  result(inserted(CopyRange(State(Plain, Plain), w, 1, offset - 1)))

DeleteForgetsCodes(w, first, next) ==  \* fault: codes in what is deleted are forgotten
  LET before == CopyRange(State(Plain, Plain), w, 1, first - 1)
      after  == CopyRange(before, w, IF next > first THEN next ELSE first, Len(w))
  IN  after.out

(* deletefromword: without the elements first..next-1; with all of them if  *)
(* first is beyond the end, where the copy never gets to.                   *)
DeleteFromWord(w, first, next) ==
  IF first > Len(w) + 1 THEN CopyRange(State(Plain, Plain), w, 1, Len(w)).out ELSE
  LET before == CopyRange(State(Plain, Plain), w, 1, first - 1)
      resume == IF next > first THEN next ELSE first
  IN  CopyRange([before EXCEPT !.sstate = StyleAt(w, resume)], w, resume, Len(w)).out

ApplyCursorEarly(w, sor, sand, first, next, cursor) ==  \* fault: counts a code twice
  LET upto[i \in 0 .. Len(w)] ==
        IF i = 0 THEN State(Plain, Plain)
        ELSE IF first <= i /\ i < next THEN Copy(upto[i - 1], w[i], sor, sand)
        ELSE Copy(upto[i - 1], w[i], Plain, Attribute)
  IN  [word |-> upto[Len(w)].out,
       cursor |-> IF cursor \in 1 .. Len(w) THEN Len(upto[cursor].out) + 1
                  ELSE IF cursor = Len(w) + 1 THEN Len(upto[Len(w)].out) + 1 ELSE 1]

(* applystyletoword: the styles of first..next-1 are masked by sand and     *)
(* united with sor.  The cursor stays before the element it was before; if  *)
(* a code now precedes that, it is between the two.                         *)
ApplyStyleToWord(w, sor, sand, first, next, cursor) ==
  LET upto[i \in 0 .. Len(w)] ==
        IF i = 0 THEN State(Plain, Plain)
        ELSE IF first <= i /\ i < next THEN Copy(upto[i - 1], w[i], sor, sand)
        ELSE Copy(upto[i - 1], w[i], Plain, Attribute)
      moved == IF cursor \notin 1 .. Len(w) + 1 THEN 1
               ELSE IF cursor > Len(w) THEN Len(upto[Len(w)].out) + 1
               ELSE IF IsCode(w[cursor]) THEN Len(upto[cursor].out) + 1
               ELSE Len(upto[cursor].out)
  IN  [word |-> upto[Len(w)].out, cursor |-> moved]

(* nextcharinword: past codes and one character; 0 stands for nil. *)
NextCharInWord(w, offset) ==
  LET chars == {i \in offset .. Len(w) : ~IsCode(w[i])}
  IN  IF chars = {} THEN 0 ELSE (CHOOSE i \in chars : \A j \in chars : i <= j) + 1

PrevLandsAfterCodes(w, offset) ==  \* fault: the codes before the character stay behind
  LET chars == {i \in 1 .. offset - 1 : ~IsCode(w[i])}
  IN  IF chars = {} THEN 0 ELSE CHOOSE i \in chars : \A j \in chars : j <= i

(* prevcharinword: back over codes, one character, and the codes before it. *)
PrevCharInWord(w, offset) ==
  LET chars == {i \in 1 .. offset - 1 : ~IsCode(w[i])}
      last  == CHOOSE i \in chars : \A j \in chars : j <= i
      free  == {k \in 1 .. last : \A i \in k .. last - 1 : IsCode(w[i])}
  IN  IF chars = {} THEN 0 ELSE CHOOSE k \in free : \A j \in free : k <= j

(* getwordtext *)
GetWordText(w) ==
  LET upto[i \in 0 .. Len(w)] ==
        IF i = 0 THEN <<>>
        ELSE IF IsCode(w[i]) THEN upto[i - 1] ELSE Append(upto[i - 1], w[i])
  IN  upto[Len(w)]

StylePrimeStays(hint) == <<hint>>  \* fault: the style hint is not taken back

(* The new word SplitCurrentWord (navigate.lua) makes: the style hint is    *)
(* written in front of it and taken back at once.                           *)
StylePrime(hint) == IF hint = Plain THEN <<Plain>> ELSE <<hint, Plain>>
=============================================================================
