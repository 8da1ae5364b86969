--------------------------- MODULE MCDocumentEdit ---------------------------
(* Instance of DocumentEdit for TLC.  Three symbols make a word between two  *)
(* others, two words in one of two paragraphs, or a word that is split and   *)
(* has a character on either side of the split.                              *)
EXTENDS DocumentEdit, TLC

Letters == Permutations(Char)

(* Bound: while there is a copy on the clipboard, no style is on anywhere,    *)
(* and a mark is a loose one.                                                *)
Unstyled(paras) ==
  \A p \in DOMAIN paras : \A w \in DOMAIN paras[p] :
    \A i \in DOMAIN paras[p][w] : IsCode(paras[p][w][i]) => paras[p][w][i] = Plain

CopyIsPlain ==
  clip # <<>> => ~doc.sticky /\ Unstyled(doc.paras) /\ Unstyled(clip)
=============================================================================
