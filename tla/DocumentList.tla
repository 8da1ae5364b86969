---------------------------- MODULE DocumentList ----------------------------
(***************************************************************************)
(* What a document set promises: an ordered list of documents with         *)
(* distinct names, one of them selected.                                   *)
(***************************************************************************)
EXTENDS Integers, Sequences

CONSTANT Name

VARIABLES
  list,       \* the names, in order
  selected,   \* the name of the selected document
  generation  \* changes when the set is replaced by another

vars == <<list, selected, generation>>

NamesOf(s) == {s[i] : i \in DOMAIN s}
Distinct(s) == \A i, j \in DOMAIN s : s[i] = s[j] => i = j

Valid(s, n) == s \in Seq(Name) /\ Distinct(s) /\ n \in NamesOf(s)

Init == Valid(list, selected)

Select == list' = list /\ selected' \in NamesOf(list)

(* A new document goes to the end and is selected or not. *)
Add ==
  \E n \in Name \ NamesOf(list) :
    list' = Append(list, n) /\ selected' \in {n, selected}

Reorder ==
  /\ Valid(list', selected')
  /\ NamesOf(list') = NamesOf(list)
  /\ selected' = selected

(* The selected document goes; its successor, or else the last, follows it. *)
Remove ==
  \E k \in DOMAIN list :
    /\ list[k] = selected
    /\ Len(list) > 1
    /\ list' = SubSeq(list, 1, k - 1) \o SubSeq(list, k + 1, Len(list))
    /\ selected' = IF k < Len(list) THEN list[k + 1] ELSE list[k - 1]

Rename ==
  \E k \in DOMAIN list, n \in Name \ NamesOf(list) :
    /\ list[k] = selected
    /\ list' = [list EXCEPT ![k] = n]
    /\ selected' = n

Keep == generation' = generation

Replace == generation' # generation /\ Valid(list', selected')

Next ==
  \/ Keep /\ (Select \/ Add \/ Reorder \/ Remove \/ Rename)
  \/ Replace

Spec == Init /\ [][Next]_vars
=============================================================================
