----------------------------- MODULE FindReplace -----------------------------
(***************************************************************************)
(* Find, Find next and Replace then find (src/src/lua/navigate.lua), on    *)
(* the documents of DocumentEdit.                                          *)
(*                                                                         *)
(* A search goes from word to word, from the cursor around the document,   *)
(* one word per step here.  The words of the text looked for must be in    *)
(* successive words of the document.  A character stands for what its      *)
(* pattern matches, in either case and with any quote mark; the text looked*)
(* for has no empty words, as two spaces in a row would make.              *)
(***************************************************************************)
EXTENDS DocumentEdit, FiniteSets, FiniteSetsExt, SequencesExt

CONSTANTS
  Documents,     \* the paragraphs to begin with
  Texts,         \* what can be looked for, as sequences of words
  Replacements   \* what can take its place, likewise

ASSUME SearchAssumption ==
  /\ Documents \subseteq Seq(Seq(Word) \ {<<>>}) \ {<<>>}
  /\ Texts \subseteq Seq(Seq(Char) \ {<<>>}) \ {<<>>}
  /\ Replacements \subseteq Seq(Seq(Char)) \ {<<>>}
  /\ {SP, NL} \cap Char = {}

VARIABLES
  findtext,     \* DocumentSet.findtext as words; <<>> before the first search
  replacetext,  \* DocumentSet.replacetext as words
  at,           \* cp, cw, co of the search; <<>> while none runs
  outcome,      \* "none", "found" or "not found": of the last search
  from          \* history: where the cursor was when it began

searchvars == <<vars, findtext, replacetext, at, outcome, from>>

-----------------------------------------------------------------------------
(* Matching a word.                                                         *)

(* Where the last character of w is if its first one is at offset s, or 0: *)
(* the codes between the characters are skipped (%c* ).                     *)
LastOffset(word, w, s) ==
  LET chars(e) == {o \in s .. e : ~IsCode(word[o])}
      ends == {e \in s .. Len(word) :
                 /\ word[e] = w[Len(w)] /\ Cardinality(chars(e)) = Len(w)
                 /\ \A o \in chars(e) : word[o] = w[Cardinality(chars(o))]}
  IN  IF word[s] # w[1] \/ ends = {} THEN 0 ELSE CHOOSE e \in ends : TRUE

(* The i-th word of the text: all but the last must end a word of the       *)
(* document.  "^" says nothing of where the others begin: it holds wherever *)
(* the matcher tries the pattern.                                           *)
MatchAt(word, i, s) ==
  LET last == LastOffset(word, findtext[i], s)
  IN  /\ last # 0
      /\ i < Len(findtext) => \A o \in last + 1 .. Len(word) : IsCode(word[o])

Matches(word, i, co) == {s \in co .. Len(word) : MatchAt(word, i, s)}
MatchLength(word, i, co) ==  \* fault: counts characters and no codes
  Min(Matches(word, i, co)) + Len(findtext[i])

(* The second result of the last pattern: the offset after the match.      *)
MatchEnd(word, i, co) == LastOffset(word, findtext[i], Min(Matches(word, i, co))) + 1

-----------------------------------------------------------------------------
(* The search.                                                              *)

NoPlace == <<0, 0>>
FollowingWord(p, w) ==
  IF w < Len(doc.paras[p]) THEN <<p, w + 1>>
  ELSE IF p < Len(doc.paras) THEN <<p + 1, 1>> ELSE NoPlace

(* The place of the last word of the text if the first is at <<p, w>>;      *)
(* NoPlace if the words from there on do not match.                         *)
LastWordPlace(p, w) ==
  LET to[i \in DOMAIN findtext] ==
        IF i = 1 THEN <<p, w>>
        ELSE IF to[i - 1] = NoPlace THEN NoPlace
        ELSE LET next == FollowingWord(to[i - 1][1], to[i - 1][2])
             IN  IF next # NoPlace /\ Matches(doc.paras[next[1]][next[2]], i, 1) # {}
                 THEN next ELSE NoPlace
  IN  to[Len(findtext)]

SearchedWord == doc.paras[at[1]][at[2]]
Found == /\ Matches(SearchedWord, 1, at[3]) # {}
         /\ LastWordPlace(at[1], at[2]) # NoPlace

(* The cursor goes behind the match and the mark before it.                 *)
Selection ==
  LET last == LastWordPlace(at[1], at[2])
      co == IF Len(findtext) = 1 THEN at[3] ELSE 1
  IN  [At(doc, last[1], last[2],
            MatchEnd(doc.paras[last[1]][last[2]], Len(findtext), co))
         EXCEPT !.mark = <<at[1], at[2], Min(Matches(SearchedWord, 1, at[3]))>>]

AdvancedInWord ==  \* fault: the next word is not looked at from its beginning
  LET next == FollowingWord(at[1], at[2])
  IN  IF next = NoPlace THEN <<1, 1, at[3]>> ELSE <<next[1], next[2], at[3]>>

(* The next word, from its beginning, around the document.                  *)
Advanced ==
  LET next == FollowingWord(at[1], at[2])
  IN  IF next = NoPlace THEN <<1, 1, 1>> ELSE <<next[1], next[2], 1>>

BackAtCursor ==  \* fault: ends at the cursor and not at its word
  Advanced = Cursor(doc)

Done == SubSeq(Advanced, 1, 2) = <<doc.cp, doc.cw>>

Search(d) == /\ at' = Cursor(d)
             /\ from' = Cursor(d)
             /\ outcome' = "none"

Look ==
  /\ at # <<>>
  /\ IF Found THEN doc' = Selection /\ outcome' = "found" /\ at' = <<>>
     ELSE IF Done THEN doc' = doc /\ outcome' = "not found" /\ at' = <<>>
     ELSE doc' = doc /\ outcome' = outcome /\ at' = Advanced
  /\ UNCHANGED <<clip, findtext, replacetext, from>>

-----------------------------------------------------------------------------
(* The commands.                                                            *)

Idle == at = <<>> /\ CursorInDocument(doc)

Find(t, r) ==
  /\ Idle
  /\ findtext' = t
  /\ replacetext' = r
  /\ Search(doc)
  /\ UNCHANGED vars

FindNext ==
  /\ Idle
  /\ findtext # <<>>
  /\ Search(doc)
  /\ UNCHANGED <<vars, findtext, replacetext>>

InsertedAsOneWord(d, hint) ==  \* fault: nothing is put between the words
  LET upto[i \in DOMAIN replacetext] ==
        InsertStringIntoWord(IF i = 1 THEN d ELSE upto[i - 1], replacetext[i], hint)
  IN  upto[Len(replacetext)]

Inserted(d, hint) ==
  LET upto[i \in DOMAIN replacetext] ==
        InsertStringIntoWord(
          IF i = 1 THEN d ELSE SplitCurrentWord(upto[i - 1], hint), replacetext[i], hint)
  IN  upto[Len(replacetext)]

Replaced(d, hint) == Inserted(UnsetMark(Delete(d)), hint)

ReplaceThenFind ==
  /\ Idle
  /\ findtext # <<>>
  /\ MarkInDocument(doc)
  /\ Room(Len(Joined(replacetext, SP)))
  /\ \E hint \in Style :
       LET d == IF Marked(doc) THEN Replaced(doc, hint) ELSE doc
       IN  doc' = d /\ Search(d)
  /\ UNCHANGED <<clip, findtext, replacetext>>

(* Before the first search there is no replacement: the selection is deleted *)
(* and the attempt to split nothing into words ends the command.             *)
ReplaceBeforeFind ==
  /\ Idle
  /\ findtext = <<>>
  /\ Marked(doc) /\ MarkInDocument(doc)
  /\ doc' = UnsetMark(Delete(doc))
  /\ outcome' = "none"
  /\ from' = <<>>
  /\ UNCHANGED <<clip, findtext, replacetext, at>>

(* Between searches the user moves, and sets a mark.                           *)
OtherKeys ==
  /\ Idle
  /\ Move \/ Toggle
  /\ outcome' = "none"
  /\ from' = <<>>
  /\ UNCHANGED <<findtext, replacetext, at>>

SearchInit ==
  /\ \E paras \in Documents :
       doc = [paras |-> paras, cp |-> 1, cw |-> 1, co |-> 1, mark |-> <<>>, sticky |-> FALSE]
  /\ clip = <<>>
  /\ findtext = <<>>
  /\ replacetext = <<>>
  /\ at = <<>>
  /\ outcome = "none"
  /\ from = <<>>

SearchNext ==
  \/ \E t \in Texts, r \in Replacements : Find(t, r)
  \/ FindNext \/ ReplaceThenFind \/ ReplaceBeforeFind \/ Look \/ OtherKeys

(* The loop runs to its end before the next key is read.                    *)
SearchSpec == SearchInit /\ [][SearchNext]_searchvars
FairSearch == SearchSpec /\ WF_searchvars(Look)
-----------------------------------------------------------------------------
(* Properties.                                                              *)

Place(m) == FlatPlace(doc.paras, m)

(* The text looked for is in t behind the first i symbols: between its words *)
(* a space or the end of a paragraph.                                       *)
Symbols == Joined(findtext, SP)
Occurs(t, i) ==
  /\ i + Len(Symbols) <= Len(t)
  /\ \A j \in DOMAIN Symbols :
       t[i + j] \in IF Symbols[j] = SP THEN {SP, NL} ELSE {Symbols[j]}

(* What a search finds is selected, and is the text looked for: it begins   *)
(* with the first word and ends with the last, has as many words, and all   *)
(* of it for a single word.                                                 *)
FoundIsText ==
  outcome = "found" =>
    LET found == SubSeq(Text, Place(doc.mark) + 1, Place(Cursor(doc)))
        gaps == {i \in DOMAIN found : found[i] \in {SP, NL}}
    IN  /\ Cardinality(gaps) = Len(findtext) - 1
        /\ Len(findtext) = 1 => found = findtext[1]
        /\ IsPrefix(findtext[1], found)
        /\ IsSuffix(findtext[Len(findtext)], found)

(* A search overlooks nothing: the text is nowhere between the cursor and   *)
(* what was found, around the document; and if nothing was found, nowhere   *)
(* but before the cursor in the word of the cursor.                         *)
NothingOverlooked ==
  /\ outcome = "found" =>
       LET first == Place(doc.mark)
           past(i) == IF i < Place(from) THEN i + Len(Text) + 1 ELSE i
       IN  \A i \in 0 .. Len(Text) : past(i) < past(first) => ~Occurs(Text, i)
  /\ outcome = "not found" =>
       \A i \in 0 .. Len(Text) :
         Occurs(Text, i) => Place(<<from[1], from[2], 1>>) <= i /\ i < Place(from)

(* Replacing what was found puts the replacement in its place, word by word, *)
(* the cursor behind it, and changes nothing else.                          *)
ReplaceIsExact ==
  SafeSelection(doc) /\ replacetext # <<>> =>
    \A hint \in Style :
      LET d == Replaced(doc, hint)
          before == SubSeq(Text, 1, Place(Start(doc)))
          after == SubSeq(Text, Place(End(doc)) + 1, Len(Text))
          new == Joined(replacetext, SP)
      IN  /\ Flat(d.paras) = before \o new \o after
          /\ CursorInDocument(d) /\ ~Marked(d)
          /\ FlatPlace(d.paras, Cursor(d)) = Len(before \o new)

(* Every search ends, also where the text is not in the document.           *)
SearchEnds == at # <<>> ~> at = <<>>

(* Not so: "anchor internal word boundaries with ^ and $ to make them match *)
(* whole words" (navigate.lua:986).  The position capture put in front of a *)
(* pattern makes xpattern try it at every offset.                           *)
FoundIsWholeWords == outcome = "found" => Occurs(Text, Place(doc.mark))

(* Not so: "Keep looping until we reach the starting point again."  The loop *)
(* ends at the word it began in, before the part of it left of the cursor.  *)
NotFoundIsNowhere ==
  outcome = "not found" => \A i \in 0 .. Len(Text) : ~Occurs(Text, i)

(* Not so: what was found is replaced by typing.  The search sets the mark  *)
(* and leaves it sticky if the last one was.                                *)
FoundIsLoose == outcome = "found" => ~doc.sticky
=============================================================================
