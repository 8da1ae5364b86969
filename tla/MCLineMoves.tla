----------------------------- MODULE MCLineMoves -----------------------------
(* Instance of LineMoves for TLC: two paragraphs, one of up to three words   *)
(* that are short, fill the line or end with a full stop, in three styles;  *)
(* the other, above or below it, of one word or of five and justified.      *)
EXTENDS LineMoves

W(n) == [len |-> n, stop |-> FALSE]
MCWords == {W(0), W(3), [len |-> 2, stop |-> TRUE]}
MCStyles == {[first |-> 0, rest |-> 0, both |-> FALSE],
             [first |-> 2, rest |-> 0, both |-> TRUE],
             [first |-> 2, rest |-> 2, both |-> FALSE]}
MCParagraphs ==
  [style : MCStyles, words : UNION {[1 .. n -> MCWords] : n \in 1 .. 3}]
MCOthers ==
  [style : {[first |-> 0, rest |-> 0, both |-> TRUE]},
   words : {<<W(3)>>, <<W(0), W(0), W(1), W(3), W(0)>>}]
MCDocuments == {<<p, q>> : p \in MCOthers, q \in MCParagraphs}
               \cup {<<q, p>> : p \in MCOthers, q \in MCParagraphs}
MCAll == MCParagraphs \cup MCOthers
=============================================================================
