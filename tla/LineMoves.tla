------------------------------ MODULE LineMoves ------------------------------
(***************************************************************************)
(* Moving the cursor up and down by lines (src/src/lua/navigate.lua:       *)
(* GotoNextLine, GotoPreviousLine, GotoXPosition), on the lines of         *)
(* LineWrap.  The keys wrap the paragraph of the cursor to see where the   *)
(* cursor is, and the one it goes to, which may be the same, to find the   *)
(* place below or above.                                                   *)
(*                                                                         *)
(* All characters are of one width here, and words have no style codes.    *)
(***************************************************************************)
EXTENDS LineWrap, Functions

CONSTANTS Documents  \* sequences of paragraphs

ASSUME MovesAssumption == Documents \subseteq Seq(Paragraphs) \ {<<>>}

VARIABLES
  doc,    \* the paragraphs
  cursor, \* cp, cw, co
  stage,  \* "key", "getpos" or "GotoXPosition"
  key,    \* the last key: "none", "up" or "down"
  goal,   \* x, the column to go to
  home    \* history: paragraph, line and number of lines before the key

moves == <<doc, cursor, stage, key, goal, home>>
vars == <<width, loop, moves>>

Place(cp, cw, co) == [cp |-> cp, cw |-> cw, co |-> co]
BeginningOf(p) == Place(p, 1, 1)
EndOf(p) == Place(p, Len(doc[p].words), doc[p].words[Len(doc[p].words)].len + 1)

(* getLineOfWord: the words of the lines are counted off. *)
LineOf(cw) ==
  LET left[k \in 1 .. Len(lines) + 1] ==
        IF k = 1 THEN cw ELSE left[k - 1] - Len(lines[k - 1].words)
  IN  CHOOSE k \in DOMAIN lines :
        /\ left[k] <= Len(lines[k].words)
        /\ \A j \in 1 .. k - 1 : left[j] > Len(lines[j].words)

Column(m) == xs[m.cw] + (m.co - 1) + Indent(LineOf(m.cw))

-----------------------------------------------------------------------------
Press(k) ==
  /\ stage = "key"
  /\ Call(doc[cursor.cp])
  /\ stage' = "getpos"
  /\ key' = k
  /\ UNCHANGED <<width, doc, cursor, goal, home>>

(* Where the key goes when there is no line to go to, and in which line of  *)
(* which paragraph the place is looked for otherwise.                       *)
AtEnd == key = "down" /\ LineOf(cursor.cw) = Len(lines) /\ cursor.cp = Len(doc)
AtBeginning == key = "up" /\ LineOf(cursor.cw) = 1 /\ cursor.cp = 1

(* Fault: from the first line, to the beginning of the paragraph above. *)
TargetAtBeginning ==
  LET ln == LineOf(cursor.cw)
      to == IF key = "down" THEN ln + 1 ELSE ln - 1
  IN  IF to > Len(lines) THEN BeginningOf(cursor.cp + 1)
      ELSE IF to = 0 THEN BeginningOf(cursor.cp - 1)
      ELSE [cursor EXCEPT !.cw = lines[to].wn]

Target ==
  LET ln == LineOf(cursor.cw)
      to == IF key = "down" THEN ln + 1 ELSE ln - 1
  IN  IF to > Len(lines) THEN BeginningOf(cursor.cp + 1)
      ELSE IF to = 0 THEN EndOf(cursor.cp - 1)
      ELSE [cursor EXCEPT !.cw = lines[to].wn]

Here == /\ stage = "getpos" /\ pc = "idle"
        /\ home' = [cp |-> cursor.cp, ln |-> LineOf(cursor.cw), last |-> Len(lines)]
        /\ goal' = Column(cursor)

GoToEnd ==
  /\ Here
  /\ AtEnd \/ AtBeginning
  /\ cursor' = IF AtEnd THEN EndOf(cursor.cp) ELSE BeginningOf(cursor.cp)
  /\ stage' = "key"
  /\ UNCHANGED <<width, loop, doc, key>>

GoToLine ==
  /\ Here
  /\ ~AtEnd /\ ~AtBeginning
  /\ cursor' = Target
  /\ Call(doc[Target.cp])
  /\ stage' = "GotoXPosition"
  /\ UNCHANGED <<width, doc, key>>

(* Fault: the column is counted from the margin. *)
PosInMargin(ln) == goal

PosIn(ln) == IF goal < Indent(ln) THEN 0 ELSE goal - Indent(ln)

(* The last word of the line that begins at pos or before, or the first.    *)
GotoXPosition ==
  /\ stage = "GotoXPosition" /\ pc = "idle"
  /\ LET ln == LineOf(cursor.cw)
         words == lines[ln].words
         pos == PosIn(ln)
         before == {i \in DOMAIN words : xs[words[i]] <= pos}
         i == IF before = {} THEN 1 ELSE CHOOSE j \in before : \A k \in before : k <= j
         len == para.words[words[i]].len
         o == pos - xs[words[i]]
     IN  cursor' = Place(cursor.cp, words[i], (IF o < len THEN o ELSE len) + 1)
  /\ stage' = "key"
  /\ UNCHANGED <<width, loop, doc, key, goal, home>>

-----------------------------------------------------------------------------
Init ==
  /\ WrapInit
  /\ doc \in Documents
  /\ \E p \in DOMAIN doc : \E i \in DOMAIN doc[p].words :
       \E o \in 1 .. doc[p].words[i].len + 1 : cursor = Place(p, i, o)
  /\ para = doc[cursor.cp]
  /\ stage = "key"
  /\ key = "none"
  /\ goal = 0
  /\ home = [cp |-> 1, ln |-> 1, last |-> 1]

Work == Step /\ UNCHANGED moves

Next ==
  \/ Press("up") \/ Press("down")
  \/ GoToEnd \/ GoToLine \/ GotoXPosition \/ Work

Spec == Init /\ [][Next]_vars
(* A key is worked off before the next one is read. *)
FairSpec == Spec /\ WF_vars(GoToEnd \/ GoToLine \/ GotoXPosition \/ Work)

-----------------------------------------------------------------------------
(* Properties.                                                              *)

Landed == stage = "key" /\ Wrapped
Line == <<cursor.cp, LineOf(cursor.cw)>>

(* A key moves the cursor to the next or the previous line, in the same     *)
(* paragraph or the neighbouring one, and at the ends of the document not   *)
(* out of its line; but for the empty line before a word that is too wide.  *)
KeyMovesOneLine ==
  Landed /\ lines[1].words # <<>> =>
    \/ /\ key = "down"
       /\ Line = IF home.ln < home.last THEN <<home.cp, home.ln + 1>>
                 ELSE IF home.cp < Len(doc) THEN <<home.cp + 1, 1>>
                 ELSE <<home.cp, home.last>>
    \/ /\ key = "up"
       /\ Line = IF home.ln > 1 THEN <<home.cp, home.ln - 1>>
                 ELSE IF home.cp > 1 THEN <<home.cp - 1, Len(lines)>>
                 ELSE <<home.cp, 1>>

(* The cursor is as far right as it can be without being right of where it  *)
(* was, or at the beginning of the line.                                    *)
LandsAtColumn ==
  Landed /\ Line # <<home.cp, home.ln>> =>
    LET places == UNION {{Place(cursor.cp, i, o) : o \in 1 .. para.words[i].len + 1} :
                           i \in Range(lines[Line[2]].words)}
        left == {m \in places : Column(m) <= goal}
    IN  IF left = {} THEN \A m \in places : Column(cursor) <= Column(m)
        ELSE Column(cursor) <= goal /\ \A m \in left : Column(m) <= Column(cursor)

(* Every key is worked off: wrapping and justifying come to an end, however *)
(* narrow the text is and however wide the words.                           *)
KeyEnds == stage # "key" ~> stage = "key"

(* Not so: the same also where the first word of a paragraph is too wide.   *)
(* The word of the empty line is the first of the second, so that "up" goes *)
(* back to the line it came from.                                           *)
UpGoesUp ==
  Landed /\ key = "up" => Line # <<home.cp, home.ln>> \/ home.ln = 1
=============================================================================
