------------------------------ MODULE TextBuffer ------------------------------
(***************************************************************************)
(* What the editing commands promise: the document is a flat text, with    *)
(* SP between words and NL between paragraphs.  A command moves the cursor *)
(* or replaces one stretch of the text; without a selection the stretch is *)
(* at the cursor, and what is typed or pasted leaves the cursor behind it. *)
(***************************************************************************)
EXTENDS Integers, Sequences

CONSTANTS Char, SP, NL

VARIABLES
  text, cur,
  sel,   \* is something selected?
  clip   \* the text on the clipboard

(* Text and cursor after one of the stretches is replaced by one of the       *)
(* insertions, with the cursor behind it.  A stretch <<i, j>> lies between    *)
(* the places i and j.                                                        *)
Replaced(stretches, insertions) ==
  LET t == text
  IN  {<<SubSeq(t, 1, s[1]) \o ins \o SubSeq(t, s[2] + 1, Len(t)), s[1] + Len(ins)>> :
         s \in stretches, ins \in insertions}

(* The stretches that may be erased, and those that may be replaced. *)
Around ==
  LET all == 0 .. Len(text)
      c == cur
  IN  {s \in all \X all : s[1] <= s[2] /\ (sel \/ c \in s[1] .. s[2])}
Here == IF sel THEN Around ELSE {<<cur, cur>>}

Erased == {r[1] : r \in Replaced(Around, {<<>>})}

Move ==
  LET t == text
  IN  text' = t /\ cur' \in 0 .. Len(t) /\ clip' = clip /\ sel' \in BOOLEAN

Type ==
  /\ <<text', cur'>> \in Replaced(Here, {<<x>> : x \in Char \cup {SP}})
  /\ clip' = clip /\ (sel' => sel)

(* A new line may take the place of the space before it. *)
Return ==
  LET t == text
      spaced == {s \in Here : s[1] > 0 /\ t[s[1]] = SP}
  IN  /\ <<text', cur'>> \in Replaced(Here \cup {<<s[1] - 1, s[2]>> : s \in spaced}, {<<NL>>})
      /\ clip' = clip /\ (sel' => sel)

Erase ==
  /\ text' \in Erased
  /\ cur' \in 0 .. Len(text')
  /\ clip' = clip /\ (sel' => sel)

(* A stretch of the text goes to the clipboard, and may be erased. *)
CopyOrCut ==
  /\ sel /\ ~sel'
  /\ LET t == text IN clip' \in {SubSeq(t, s[1] + 1, s[2]) : s \in Around}
  /\ text' \in {text} \cup Erased
  /\ cur' \in 0 .. Len(text')

Letters(t) == [x \in Char |-> Len(SelectSeq(t, LAMBDA y : y = x))]

(* One line goes to the cursor.  When more lines are pasted it is promised  *)
(* only that no letter is lost or repeated.                                 *)
Paste ==
  LET pasted == Replaced(Here, {clip})
  IN  /\ \/ <<text', cur'>> \in pasted
         \/ /\ \E k \in DOMAIN clip : clip[k] = NL
            /\ Letters(text') \in {Letters(r[1]) : r \in pasted}
      /\ clip' = clip /\ ~sel'

Init == text = <<>> /\ cur = 0 /\ sel = FALSE /\ clip = <<>>

Next == Move \/ Type \/ Return \/ Erase \/ CopyOrCut \/ Paste

Spec == Init /\ [][Next]_<<text, cur, sel, clip>>
=============================================================================
