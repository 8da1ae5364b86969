---------------------------- MODULE MCFindReplace ----------------------------
(* Instance of FindReplace for TLC: every document of at most three        *)
(* symbols, some in which the text occurs twice, or only around a corner,  *)
(* and one with style codes.  One text is a word, the other two words.      *)
EXTENDS FindReplace

CONSTANTS c1, c2

MCTexts == {<<<<c1, c2>>>>, <<<<c1>>, <<c2>>>>}
MCReplacements == {<<<<c2>>>>, <<<<c1>>, <<>>>>}

(* The words, and the paragraphs, that a text is separated into. *)
Split(t, sep) ==
  LET ends == SetToSortSeq({i \in DOMAIN t : t[i] = sep} \cup {Len(t) + 1}, <)
  IN  [k \in DOMAIN ends |-> SubSeq(t, IF k = 1 THEN 1 ELSE ends[k - 1] + 1, ends[k] - 1)]
Parsed(t) == [p \in DOMAIN Split(t, NL) |-> Split(Split(t, NL)[p], SP)]

MCDocuments ==
  {Parsed(t) : t \in SeqOf({c1, c2, SP, NL}, 3)
               \cup {<<c1, c2, c1, c2>>, <<c1, SP, c1, c2>>, <<c1, NL, c2, c2>>}}
  \cup {<<<< <<c1, {}, c2>>, <<{}, c1, c2>> >>>>}
=============================================================================
