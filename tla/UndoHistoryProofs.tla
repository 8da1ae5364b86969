-------------------------- MODULE UndoHistoryProofs --------------------------
(* Proofs about UndoHistory, for every STACKSIZE and every set of paragraphs. *)
EXTENDS UndoHistory, SequenceTheorems, TLAPS

(* The last element of the middle of three sequences keeps its place.        *)
LEMMA Concat3 ==
  ASSUME NEW S, NEW a \in Seq(S), NEW b \in Seq(S), NEW c \in Seq(S), Len(b) >= 1
  PROVE  /\ (a \o b) \o c \in Seq(S)
         /\ Len((a \o b) \o c) = Len(a) + Len(b) + Len(c)
         /\ ((a \o b) \o c)[Len(a) + Len(b)] = b[Len(b)]
<1>1. a \o b \in Seq(S) /\ Len(a \o b) = Len(a) + Len(b)
  OBVIOUS
<1>2. (a \o b)[Len(a) + Len(b)] = b[Len(b)]
  OBVIOUS
<1> QED
  BY <1>1, <1>2

(* A function on 1..n is a sequence of n elements.                           *)
LEMMA FunctionIsSeq ==
  ASSUME NEW S, NEW n \in Nat, NEW f \in [1 .. n -> S]
  PROVE  f \in Seq(S) /\ Len(f) = n
<1>1. f \in Seq(S)
  BY SeqDef
<1>2. Len(f) \in Nat /\ DOMAIN f = 1 .. Len(f)
  BY <1>1, LenProperties
<1>3. 1 .. Len(f) = 1 .. n
  BY <1>2
<1> QED
  BY <1>1, <1>2, <1>3, SMT

(* What an editing command leaves is a snapshot with the cursor inside it,   *)
(* and one of its paragraphs is an object that was nowhere in use.           *)
LEMMA EditedProperties ==
  ASSUME TypeOK, CursorInside(doc), NEW s \in Edited
  PROVE  /\ s \in Snapshot
         /\ CursorInside(s)
         /\ s.paras[s.cp] \notin InUse
<1>1. PICK first \in 1 .. doc.cp, last \in doc.cp .. Len(doc.paras), new \in Fresh :
        s = Replaced(first, last, new)
  BY DEF Edited
<1>2. new \in Seq(Paragraph) /\ Len(new) \in 1 .. 2
         /\ \A i \in 1 .. Len(new) : new[i] \notin InUse
  <2>1. PICK n \in 1 .. 2 : new \in [1 .. n -> Paragraph \ InUse]
    BY DEF Fresh, NewObjects
  <2>2. n \in Nat /\ new \in [1 .. n -> Paragraph]
    BY <2>1
  <2>3. new \in Seq(Paragraph) /\ Len(new) = n
    BY <2>2, FunctionIsSeq
  <2>4. \A i \in 1 .. n : new[i] \notin InUse
    BY <2>1
  <2> QED
    BY <2>3, <2>4
<1>3. /\ doc.paras \in Seq(Paragraph)
      /\ doc.cp \in 1 .. Len(doc.paras)
      /\ Len(doc.paras) \in Nat
  BY DEF TypeOK, Snapshot, CursorInside
<1> DEFINE a == SubSeq(doc.paras, 1, first - 1)
           b == SubSeq(doc.paras, last + 1, Len(doc.paras))
<1>4. a \in Seq(Paragraph) /\ Len(a) = first - 1
  BY <1>3
<1>5. b \in Seq(Paragraph) /\ Len(b) \in Nat
  BY <1>3
<1> HIDE DEF a, b
<1>6a. Len(new) \in Nat /\ Len(new) >= 1
  BY <1>2, SMTT(30)
<1>6b. doc.cp \in Nat /\ first \in Nat /\ first >= 1
  BY <1>3
<1>6c. Len(a) \in Nat
  BY <1>4, <1>6b
<1>6. /\ (a \o new) \o b \in Seq(Paragraph)
      /\ Len((a \o new) \o b) = Len(a) + Len(new) + Len(b)
      /\ ((a \o new) \o b)[Len(a) + Len(new)] = new[Len(new)]
  <2>1. new \in Seq(Paragraph) /\ a \in Seq(Paragraph) /\ b \in Seq(Paragraph)
    BY <1>2, <1>4, <1>5
  <2> QED
    BY <2>1, <1>6a, Concat3, ZenonT(60)
<1>7. s = [paras |-> (a \o new) \o b, cp |-> first + Len(new) - 1]
  BY <1>1 DEF Replaced, a, b
<1>8. s.paras = (a \o new) \o b /\ s.cp = Len(a) + Len(new)
  BY <1>7, <1>4, <1>6a, <1>6b
<1>9. s \in Snapshot
  BY <1>2, <1>3, <1>6, <1>7 DEF Snapshot
<1>10. s.cp \in 1 .. Len(s.paras)
  BY <1>6a, <1>6c, <1>5, <1>6, <1>8
<1>11. s.paras[s.cp] \notin InUse
  BY <1>2, <1>6a, <1>6c, <1>6, <1>8
<1> QED
  BY <1>9, <1>10, <1>11 DEF CursorInside

(* The three ways a stack changes: push, drop the top, cut at the cap.       *)
LEMMA Pushed ==
  ASSUME NEW S, NEW stack \in Seq(S), NEW e \in S
  PROVE  /\ <<e>> \o stack \in Seq(S)
         /\ Len(<<e>> \o stack) = Len(stack) + 1
         /\ (<<e>> \o stack)[1] = e
         /\ \A i \in 1 .. Len(stack) : (<<e>> \o stack)[i + 1] = stack[i]
OBVIOUS

LEMMA Popped ==
  ASSUME NEW S, NEW stack \in Seq(S), stack # <<>>
  PROVE  /\ Head(stack) = stack[1]
         /\ stack[1] \in S
         /\ Tail(stack) \in Seq(S)
         /\ Len(stack) >= 1
         /\ Len(Tail(stack)) = Len(stack) - 1
         /\ \A i \in 1 .. Len(stack) - 1 : Tail(stack)[i] = stack[i + 1]
OBVIOUS

LEMMA CappedProperties ==
  ASSUME NEW S, NEW stack \in Seq(S)
  PROVE  /\ Capped(stack) \in Seq(S)
         /\ Len(Capped(stack)) = IF Len(stack) < STACKSIZE THEN Len(stack)
                                                           ELSE STACKSIZE - 1
         /\ \A i \in 1 .. Len(Capped(stack)) : Capped(stack)[i] = stack[i]
BY StackSizeAssumption DEF Capped

-----------------------------------------------------------------------------
(* The inductive invariant.                                                 *)
IInv == TypeOK /\ StackBound /\ CursorInDocument /\ NeighboursDiffer

LEMMA InitIInv == Init => IInv
<1> SUFFICES ASSUME Init PROVE IInv
  OBVIOUS
<1>1. PICK p \in Paragraph : doc = [paras |-> <<p>>, cp |-> 1]
  BY DEF Init, NewDocument
<1>2. undostack = <<>> /\ redostack = <<>>
  BY DEF Init
<1>3. doc \in Snapshot /\ CursorInside(doc)
  BY <1>1 DEF Snapshot, CursorInside
<1> QED
  BY <1>2, <1>3, StackSizeAssumption
     DEF IInv, TypeOK, StackBound, CursorInDocument, NeighboursDiffer

(* A document that holds a new object differs from every snapshot.          *)
LEMMA FreshDiffers ==
  ASSUME TypeOK, NEW s \in Snapshot, CursorInside(s), s.paras[s.cp] \notin InUse
  PROVE  /\ \A i \in 1 .. Len(undostack) : Differ(s, undostack[i])
         /\ \A i \in 1 .. Len(redostack) : Differ(s, redostack[i])
<1>1. ASSUME NEW t \in Snapshot, SameParagraphs(s, t),
             {t.paras[k] : k \in DOMAIN t.paras} \subseteq InUse
      PROVE  FALSE
  <2>1. s.cp \in DOMAIN t.paras /\ t.paras[s.cp] = s.paras[s.cp]
    BY <1>1 DEF SameParagraphs, CursorInside, Snapshot
  <2> QED
    BY <1>1, <2>1
<1>2. ASSUME NEW i \in 1 .. Len(undostack) PROVE Differ(s, undostack[i])
  <2>1. undostack[i] \in Snapshot
    BY DEF TypeOK
  <2>2. {undostack[i].paras[k] : k \in DOMAIN undostack[i].paras} \subseteq InUse
    <3>1. undostack[i] \in {undostack[j] : j \in DOMAIN undostack}
      BY DEF TypeOK
    <3> QED
      BY <3>1 DEF InUse
  <2> QED
    BY <1>1, <2>1, <2>2 DEF Differ
<1>3. ASSUME NEW i \in 1 .. Len(redostack) PROVE Differ(s, redostack[i])
  <2>1. redostack[i] \in Snapshot
    BY DEF TypeOK
  <2>2. {redostack[i].paras[k] : k \in DOMAIN redostack[i].paras} \subseteq InUse
    <3>1. redostack[i] \in {redostack[j] : j \in DOMAIN redostack}
      BY DEF TypeOK
    <3> QED
      BY <3>1 DEF InUse
  <2> QED
    BY <1>1, <2>1, <2>2 DEF Differ
<1> QED
  BY <1>2, <1>3

(* When there is something to redo, Checkpoint finds the document different *)
(* from the top of the undo stack, or nothing there, and forgets the rest.  *)
LEMMA CheckpointProperties ==
  ASSUME IInv, Checkpoint
  PROVE  /\ undostack' \in Seq(Snapshot)
         /\ redostack' = <<>>
         /\ Len(undostack') < STACKSIZE
         /\ \A i \in 1 .. Len(undostack') : CursorInside(undostack'[i])
         /\ \A i \in 1 .. Len(undostack') - 1 : Differ(undostack'[i], undostack'[i + 1])
<1> USE DEF IInv, TypeOK, StackBound, CursorInDocument, NeighboursDiffer
<1>1. CASE undostack # <<>> /\ SameParagraphs(doc, Head(undostack))
  <2>1. UNCHANGED <<undostack, redostack>>
    BY <1>1 DEF Checkpoint
  <2>2. redostack = <<>>
    BY <1>1, Popped DEF Differ
  <2> QED
    BY <2>1, <2>2
<1>2. CASE ~(undostack # <<>> /\ SameParagraphs(doc, Head(undostack)))
  <2> DEFINE pushed == <<SaveDocument>> \o undostack
  <2>1. SaveDocument = doc
    BY DEF SaveDocument, Snapshot
  <2>2. undostack' = Capped(pushed) /\ redostack' = <<>>
    BY <1>2 DEF Checkpoint
  <2>3. /\ pushed \in Seq(Snapshot)
        /\ Len(pushed) = Len(undostack) + 1
        /\ pushed[1] = doc
        /\ \A i \in 1 .. Len(undostack) : pushed[i + 1] = undostack[i]
    BY <2>1, Pushed
  <2> HIDE DEF pushed
  <2>4. Len(undostack) \in Nat /\ Len(undostack) < STACKSIZE
    BY StackSizeAssumption
  <2>5. \A i \in 1 .. Len(pushed) : CursorInside(pushed[i])
    <3>1. TAKE i \in 1 .. Len(pushed)
    <3>2. CASE i = 1
      BY <2>3, <3>2
    <3>3. CASE i # 1
      <4>1. i - 1 \in 1 .. Len(undostack) /\ (i - 1) + 1 = i
        BY <2>3, <2>4, <3>3
      <4>2. pushed[i] = undostack[i - 1]
        BY <2>3, <4>1
      <4> QED
        BY <4>1, <4>2
    <3> QED
      BY <3>2, <3>3
  <2>6. \A i \in 1 .. Len(pushed) - 1 : Differ(pushed[i], pushed[i + 1])
    <3>1. TAKE i \in 1 .. Len(pushed) - 1
    <3>2. CASE i = 1
      <4>1. undostack # <<>> /\ Head(undostack) = undostack[1]
        BY <2>3, <2>4, <3>2
      <4> QED
        BY <1>2, <2>3, <2>4, <3>2, <4>1 DEF Differ
    <3>3. CASE i # 1
      <4>1. /\ i - 1 \in 1 .. Len(undostack) - 1
            /\ i - 1 \in 1 .. Len(undostack)
            /\ i \in 1 .. Len(undostack)
            /\ (i - 1) + 1 = i
        BY <2>3, <2>4, <3>3
      <4>2. pushed[i] = undostack[i - 1] /\ pushed[i + 1] = undostack[i]
        BY <2>3, <4>1
      <4>3. Differ(undostack[i - 1], undostack[(i - 1) + 1])
        BY <4>1
      <4> QED
        BY <4>1, <4>2, <4>3
    <3> QED
      BY <3>2, <3>3
  <2>7. /\ Capped(pushed) \in Seq(Snapshot)
        /\ Len(Capped(pushed)) < STACKSIZE
        /\ Len(Capped(pushed)) <= Len(pushed)
        /\ \A i \in 1 .. Len(Capped(pushed)) : Capped(pushed)[i] = pushed[i]
    BY <2>3, <2>4, CappedProperties, StackSizeAssumption
  <2>8. Len(Capped(pushed)) \in Nat /\ Len(pushed) \in Nat
    BY <2>3, <2>7
  <2>9. \A i \in 1 .. Len(Capped(pushed)) : CursorInside(Capped(pushed)[i])
    <3>1. TAKE i \in 1 .. Len(Capped(pushed))
    <3>2. i \in 1 .. Len(pushed) /\ Capped(pushed)[i] = pushed[i]
      BY <2>7, <2>8
    <3> QED
      BY <2>5, <3>2
  <2>10. \A i \in 1 .. Len(Capped(pushed)) - 1 :
           Differ(Capped(pushed)[i], Capped(pushed)[i + 1])
    <3>1. TAKE i \in 1 .. Len(Capped(pushed)) - 1
    <3>2. /\ i \in 1 .. Len(Capped(pushed))
          /\ i + 1 \in 1 .. Len(Capped(pushed))
          /\ i \in 1 .. Len(pushed) - 1
      BY <2>7, <2>8
    <3> QED
      BY <2>6, <2>7, <3>2
  <2> QED
    BY <2>2, <2>7, <2>9, <2>10
<1> QED
  BY <1>1, <1>2

LEMMA CheckpointedCommandIInv ==
  ASSUME IInv, CheckpointedCommand
  PROVE  IInv'
<1>1. /\ undostack' \in Seq(Snapshot)
      /\ redostack' = <<>>
      /\ Len(undostack') < STACKSIZE
      /\ \A i \in 1 .. Len(undostack') : CursorInside(undostack'[i])
      /\ \A i \in 1 .. Len(undostack') - 1 : Differ(undostack'[i], undostack'[i + 1])
  BY CheckpointProperties DEF CheckpointedCommand
<1>2. doc' \in Snapshot /\ CursorInside(doc')
  BY EditedProperties DEF CheckpointedCommand, IInv, TypeOK, CursorInDocument
<1>3. TypeOK'
  BY <1>1, <1>2 DEF TypeOK
<1>4. CursorInDocument'
  BY <1>1, <1>2 DEF CursorInDocument
<1>5. StackBound' /\ NeighboursDiffer'
  BY <1>1 DEF StackBound, NeighboursDiffer
<1> QED
  BY <1>3, <1>4, <1>5 DEF IInv

LEMMA ChangeParagraphStyleIInv ==
  ASSUME IInv, ChangeParagraphStyle
  PROVE  IInv'
<1> USE DEF IInv
<1>1. PICK first \in 1 .. doc.cp, last \in doc.cp .. Len(doc.paras) :
        \E new \in NewObjects(first .. last) : doc' = Restyled(first, last, new)
  BY DEF ChangeParagraphStyle
<1>a. PICK new \in NewObjects(first .. last) : doc' = Restyled(first, last, new)
  BY <1>1
<1>2. UNCHANGED <<undostack, redostack>>
  BY DEF ChangeParagraphStyle
<1>3. /\ doc' \in Snapshot
      /\ CursorInside(doc')
      /\ doc'.paras[doc'.cp] \notin InUse
  <2> DEFINE ps == [i \in DOMAIN doc.paras |->
                     IF i \in first .. last THEN new[i] ELSE doc.paras[i]]
  <2>1. /\ doc.cp \in 1 .. Len(doc.paras) /\ doc.paras \in Seq(Paragraph)
        /\ Len(doc.paras) \in Nat /\ DOMAIN doc.paras = 1 .. Len(doc.paras)
    BY DEF TypeOK, Snapshot, CursorInDocument, CursorInside
  <2>2. doc' = [paras |-> ps, cp |-> doc.cp]
    BY <1>a DEF Restyled, TypeOK, Snapshot
  <2>3. \A i \in first .. last : new[i] \in Paragraph \ InUse
    BY DEF NewObjects
  <2>4. ps \in [1 .. Len(doc.paras) -> Paragraph]
    BY <2>1, <2>3
  <2>5. ps \in Seq(Paragraph) /\ Len(ps) = Len(doc.paras)
    BY <2>1, <2>4
  <2>6. ps[doc.cp] \notin InUse
    <3>1. doc.cp \in first .. last
      BY <1>1, <2>1
    <3> QED
      BY <2>1, <2>3, <3>1
  <2> HIDE DEF ps
  <2>7. doc' \in Snapshot
    BY <2>1, <2>2, <2>5 DEF Snapshot
  <2> QED
    BY <2>1, <2>2, <2>5, <2>6, <2>7 DEF CursorInside
<1>4. /\ \A i \in 1 .. Len(undostack) : Differ(doc', undostack[i])
      /\ \A i \in 1 .. Len(redostack) : Differ(doc', redostack[i])
  BY <1>3, FreshDiffers
<1>5. TypeOK' /\ StackBound' /\ CursorInDocument'
  BY <1>2, <1>3 DEF TypeOK, StackBound, CursorInDocument
<1>6. NeighboursDiffer'
  <2>1. undostack # <<>> => Differ(doc', undostack[1])
    BY <1>4 DEF TypeOK
  <2>2. Len(redostack) >= 2 => Differ(doc', redostack[1])
    BY <1>4 DEF TypeOK
  <2> QED
    BY <1>2, <2>1, <2>2 DEF NeighboursDiffer
<1> QED
  BY <1>5, <1>6

LEMMA MoveCursorIInv ==
  ASSUME IInv, MoveCursor
  PROVE  IInv'
<1> USE DEF IInv
<1>1. PICK n \in 1 .. Len(doc.paras) : doc' = [doc EXCEPT !.cp = n]
  BY DEF MoveCursor
<1>2. UNCHANGED <<undostack, redostack>>
  BY DEF MoveCursor
<1>3. doc' \in Snapshot /\ CursorInside(doc') /\ doc'.paras = doc.paras
  BY <1>1 DEF TypeOK, Snapshot, CursorInDocument, CursorInside
<1>4. TypeOK' /\ StackBound' /\ CursorInDocument'
  BY <1>2, <1>3 DEF TypeOK, StackBound, CursorInDocument
<1>5. NeighboursDiffer'
  BY <1>2, <1>3 DEF NeighboursDiffer, Differ, SameParagraphs
<1> QED
  BY <1>4, <1>5

(* Undo and Redo move one state from a stack to the other; stated once for  *)
(* any two stacks: what a move does to lengths, cursors and neighbours.     *)
LEMMA Moved ==
  ASSUME TypeOK, CursorInside(doc),
         NEW src \in Seq(Snapshot), NEW dst \in Seq(Snapshot), src # <<>>,
         \A i \in 1 .. Len(src) : CursorInside(src[i]),
         \A i \in 1 .. Len(dst) : CursorInside(dst[i]),
         doc' = [paras |-> Head(src).paras, cp |-> Head(src).cp]
  PROVE  /\ doc' = src[1] /\ doc' \in Snapshot /\ CursorInside(doc')
         /\ Tail(src) \in Seq(Snapshot) /\ Len(Tail(src)) = Len(src) - 1
         /\ \A i \in 1 .. Len(src) - 1 : Tail(src)[i] = src[i + 1]
         /\ \A i \in 1 .. Len(Tail(src)) : CursorInside(Tail(src)[i])
         /\ <<SaveDocument>> \o dst \in Seq(Snapshot) /\ Len(<<SaveDocument>> \o dst) = Len(dst) + 1
         /\ (<<SaveDocument>> \o dst)[1] = doc
         /\ \A i \in 1 .. Len(dst) : (<<SaveDocument>> \o dst)[i + 1] = dst[i]
         /\ \A i \in 1 .. Len(<<SaveDocument>> \o dst) : CursorInside((<<SaveDocument>> \o dst)[i])
<1> DEFINE tail == Tail(src)
           push == <<SaveDocument>> \o dst
<1>1. doc = SaveDocument /\ doc \in Snapshot
  BY DEF TypeOK, SaveDocument, Snapshot
<1>2. doc' = src[1] /\ src[1] \in Snapshot /\ Len(src) >= 1
  <2>1. Head(src) = src[1] /\ src[1] \in Snapshot /\ Len(src) >= 1
    BY Popped
  <2> QED
    BY <2>1 DEF Snapshot
<1>3. /\ tail \in Seq(Snapshot) /\ Len(tail) = Len(src) - 1
      /\ \A i \in 1 .. Len(src) - 1 : tail[i] = src[i + 1]
  BY Popped
<1>4. /\ push \in Seq(Snapshot) /\ Len(push) = Len(dst) + 1
      /\ push[1] = doc
      /\ \A i \in 1 .. Len(dst) : push[i + 1] = dst[i]
  BY <1>1, Pushed
<1> HIDE DEF tail, push
<1>5. \A i \in 1 .. Len(tail) : CursorInside(tail[i])
  <2>1. TAKE i \in 1 .. Len(tail)
  <2>2. i \in 1 .. Len(src) - 1 /\ i + 1 \in 1 .. Len(src)
    BY <1>3
  <2> QED
    BY <1>3, <2>2
<1>6. \A i \in 1 .. Len(push) : CursorInside(push[i])
  <2>1. TAKE i \in 1 .. Len(push)
  <2>2. i = 1 \/ (i - 1 \in 1 .. Len(dst) /\ (i - 1) + 1 = i)
    <3>1. Len(dst) \in Nat /\ i \in 1 .. Len(dst) + 1
      BY <1>4
    <3> QED
      BY <3>1
  <2>3. CASE i = 1
    <3>1. push[i] = doc
      BY <1>4, <2>3
    <3> QED
      BY <3>1
  <2>4. CASE i - 1 \in 1 .. Len(dst) /\ (i - 1) + 1 = i
    <3>1. push[i] = dst[i - 1]
      BY <1>4, <2>4
    <3> QED
      BY <2>4, <3>1
  <2> QED
    BY <2>2, <2>3, <2>4
<1>7. CursorInside(doc')
  BY <1>2
<1> QED
  BY <1>2, <1>3, <1>4, <1>5, <1>6, <1>7 DEF tail, push

LEMMA UndoIInv ==
  ASSUME IInv, Undo
  PROVE  IInv'
<1> USE DEF IInv
<1>1. /\ undostack \in Seq(Snapshot) /\ redostack \in Seq(Snapshot)
      /\ CursorInside(doc)
      /\ \A i \in 1 .. Len(undostack) : CursorInside(undostack[i])
      /\ \A i \in 1 .. Len(redostack) : CursorInside(redostack[i])
  BY DEF TypeOK, CursorInDocument
<1>2. /\ undostack # <<>>
      /\ undostack' = Tail(undostack)
      /\ redostack' = <<SaveDocument>> \o redostack
      /\ doc' = [paras |-> Head(undostack).paras, cp |-> Head(undostack).cp]
  BY DEF Undo, LoadDocument
<1>3. /\ doc' = undostack[1] /\ doc' \in Snapshot /\ CursorInside(doc')
      /\ undostack' \in Seq(Snapshot) /\ Len(undostack') = Len(undostack) - 1
      /\ \A i \in 1 .. Len(undostack) - 1 : undostack'[i] = undostack[i + 1]
      /\ \A i \in 1 .. Len(undostack') : CursorInside(undostack'[i])
      /\ redostack' \in Seq(Snapshot) /\ Len(redostack') = Len(redostack) + 1
      /\ redostack'[1] = doc
      /\ \A i \in 1 .. Len(redostack) : redostack'[i + 1] = redostack[i]
      /\ \A i \in 1 .. Len(redostack') : CursorInside(redostack'[i])
  BY <1>1, <1>2, Moved
<1>4. Len(undostack) \in Nat /\ Len(redostack) \in Nat
  BY <1>1
<1>5. TypeOK' /\ CursorInDocument'
  BY <1>3, SMTT(30) DEF TypeOK, CursorInDocument
<1>6. StackBound'
  BY <1>3, <1>4, StackSizeAssumption DEF StackBound
<1>7. \A i \in 1 .. Len(undostack') - 1 : Differ(undostack'[i], undostack'[i + 1])
  <2>1. TAKE i \in 1 .. Len(undostack') - 1
  <2>2. /\ i \in 1 .. Len(undostack) - 1
        /\ i + 1 \in 1 .. Len(undostack) - 1
    BY <1>3, <1>4
  <2>3. Differ(undostack[i + 1], undostack[(i + 1) + 1])
    BY <2>2 DEF NeighboursDiffer
  <2> QED
    BY <1>3, <2>2, <2>3
<1>8. undostack' # <<>> => Differ(doc', undostack'[1])
  <2>1. SUFFICES ASSUME undostack' # <<>> PROVE Differ(doc', undostack'[1])
    OBVIOUS
  <2>2. 1 \in 1 .. Len(undostack) - 1
    BY <1>3, <1>4, <2>1
  <2>3. Differ(undostack[1], undostack[1 + 1])
    BY <2>2 DEF NeighboursDiffer
  <2> QED
    BY <1>3, <2>2, <2>3
<1>9. Len(redostack') >= 2 => Differ(doc', redostack'[1])
  <2>1. SUFFICES ASSUME Len(redostack') >= 2 PROVE Differ(doc', redostack'[1])
    OBVIOUS
  <2>2. redostack # <<>>
    BY <1>3, <1>4, <2>1
  <2>3. Differ(doc, undostack[1])
    BY <1>2, <2>2 DEF NeighboursDiffer
  <2> QED
    BY <1>3, <2>3 DEF Differ, SameParagraphs
<1>10. \A i \in 1 .. Len(redostack') - 2 : Differ(redostack'[i], redostack'[i + 1])
  <2>1. TAKE i \in 1 .. Len(redostack') - 2
  <2>2. CASE i = 1
    <3>1. Len(redostack) >= 2 /\ 1 \in 1 .. Len(redostack)
      BY <1>3, <1>4, <2>2
    <3>2. Differ(doc, redostack[1])
      BY <3>1 DEF NeighboursDiffer
    <3> QED
      BY <1>3, <2>2, <3>1, <3>2
  <2>3. CASE i # 1
    <3>1. /\ i - 1 \in 1 .. Len(redostack) - 2
          /\ i - 1 \in 1 .. Len(redostack)
          /\ i \in 1 .. Len(redostack)
          /\ (i - 1) + 1 = i
      BY <1>3, <1>4, <2>3
    <3>2. Differ(redostack[i - 1], redostack[(i - 1) + 1])
      BY <3>1 DEF NeighboursDiffer
    <3>3. redostack'[i] = redostack[i - 1] /\ redostack'[i + 1] = redostack[i]
      BY <1>3, <3>1
    <3> QED
      BY <3>1, <3>2, <3>3
  <2> QED
    BY <2>2, <2>3
<1>11. NeighboursDiffer'
  BY <1>7, <1>8, <1>9, <1>10 DEF NeighboursDiffer
<1> QED
  BY <1>5, <1>6, <1>11

LEMMA RedoIInv ==
  ASSUME IInv, Redo
  PROVE  IInv'
<1> USE DEF IInv
<1>1. /\ undostack \in Seq(Snapshot) /\ redostack \in Seq(Snapshot)
      /\ CursorInside(doc)
      /\ \A i \in 1 .. Len(undostack) : CursorInside(undostack[i])
      /\ \A i \in 1 .. Len(redostack) : CursorInside(redostack[i])
  BY DEF TypeOK, CursorInDocument
<1>2. /\ redostack # <<>>
      /\ redostack' = Tail(redostack)
      /\ undostack' = <<SaveDocument>> \o undostack
      /\ doc' = [paras |-> Head(redostack).paras, cp |-> Head(redostack).cp]
  BY DEF Redo, LoadDocument
<1>3. /\ doc' = redostack[1] /\ doc' \in Snapshot /\ CursorInside(doc')
      /\ redostack' \in Seq(Snapshot) /\ Len(redostack') = Len(redostack) - 1
      /\ \A i \in 1 .. Len(redostack) - 1 : redostack'[i] = redostack[i + 1]
      /\ \A i \in 1 .. Len(redostack') : CursorInside(redostack'[i])
      /\ undostack' \in Seq(Snapshot) /\ Len(undostack') = Len(undostack) + 1
      /\ undostack'[1] = doc
      /\ \A i \in 1 .. Len(undostack) : undostack'[i + 1] = undostack[i]
      /\ \A i \in 1 .. Len(undostack') : CursorInside(undostack'[i])
  BY <1>1, <1>2, Moved, ZenonT(60)
<1>4. Len(undostack) \in Nat /\ Len(redostack) \in Nat
  BY <1>1
<1>5. TypeOK' /\ CursorInDocument'
  BY <1>3 DEF TypeOK, CursorInDocument
<1>6. StackBound'
  BY <1>3, <1>4, StackSizeAssumption DEF StackBound
<1>7. \A i \in 1 .. Len(undostack') - 1 : Differ(undostack'[i], undostack'[i + 1])
  <2>1. TAKE i \in 1 .. Len(undostack') - 1
  <2>2. CASE i = 1
    <3>1. undostack # <<>> /\ 1 \in 1 .. Len(undostack)
      BY <1>3, <1>4, <2>2
    <3>2. Differ(doc, undostack[1])
      BY <1>2, <3>1 DEF NeighboursDiffer
    <3> QED
      BY <1>3, <2>2, <3>1, <3>2
  <2>3. CASE i # 1
    <3>1. /\ i - 1 \in 1 .. Len(undostack) - 1
          /\ i - 1 \in 1 .. Len(undostack)
          /\ i \in 1 .. Len(undostack)
          /\ (i - 1) + 1 = i
      BY <1>3, <1>4, <2>3
    <3>2. Differ(undostack[i - 1], undostack[(i - 1) + 1])
      BY <3>1 DEF NeighboursDiffer
    <3>3. undostack'[i] = undostack[i - 1] /\ undostack'[i + 1] = undostack[i]
      BY <1>3, <3>1
    <3> QED
      BY <3>1, <3>2, <3>3
  <2> QED
    BY <2>2, <2>3
<1>8. redostack' # <<>> => Differ(doc', undostack'[1])
  <2>1. SUFFICES ASSUME redostack' # <<>> PROVE Differ(doc', undostack'[1])
    OBVIOUS
  <2>2. Len(redostack) >= 2
    BY <1>3, <1>4, <2>1
  <2>3. Differ(doc, redostack[1])
    BY <2>2 DEF NeighboursDiffer
  <2> QED
    BY <1>3, <2>3 DEF Differ, SameParagraphs
<1>9. Len(redostack') >= 2 => Differ(doc', redostack'[1])
  <2>1. SUFFICES ASSUME Len(redostack') >= 2 PROVE Differ(doc', redostack'[1])
    OBVIOUS
  <2>2. 1 \in 1 .. Len(redostack) - 2 /\ 1 \in 1 .. Len(redostack) - 1
    BY <1>3, <1>4, <2>1
  <2>3. Differ(redostack[1], redostack[1 + 1])
    BY <2>2 DEF NeighboursDiffer
  <2> QED
    BY <1>3, <2>2, <2>3
<1>10. \A i \in 1 .. Len(redostack') - 2 : Differ(redostack'[i], redostack'[i + 1])
  <2>1. TAKE i \in 1 .. Len(redostack') - 2
  <2>2. /\ i \in 1 .. Len(redostack) - 1
        /\ i + 1 \in 1 .. Len(redostack) - 1
        /\ i + 1 \in 1 .. Len(redostack) - 2
    BY <1>3, <1>4
  <2>3. Differ(redostack[i + 1], redostack[(i + 1) + 1])
    BY <2>2 DEF NeighboursDiffer
  <2> QED
    BY <1>3, <2>2, <2>3
<1>11. NeighboursDiffer'
  BY <1>7, <1>8, <1>9, <1>10 DEF NeighboursDiffer
<1> QED
  BY <1>5, <1>6, <1>11

LEMMA ReplaceDocumentIInv ==
  ASSUME IInv, ReplaceDocument
  PROVE  IInv'
<1>1. PICK p \in Paragraph : doc' = [paras |-> <<p>>, cp |-> 1]
  BY DEF ReplaceDocument, NewDocument
<1>2. undostack' = <<>> /\ redostack' = <<>>
  BY DEF ReplaceDocument
<1>3. doc' \in Snapshot /\ CursorInside(doc')
  BY <1>1 DEF Snapshot, CursorInside
<1> QED
  BY <1>2, <1>3, StackSizeAssumption
     DEF IInv, TypeOK, StackBound, CursorInDocument, NeighboursDiffer

LEMMA NextIInv == IInv /\ [Next]_vars => IInv'
<1> SUFFICES ASSUME IInv, [Next]_vars PROVE IInv'
  OBVIOUS
<1>1. CASE CheckpointedCommand
  BY <1>1, CheckpointedCommandIInv
<1>2. CASE ChangeParagraphStyle
  BY <1>2, ChangeParagraphStyleIInv
<1>3. CASE MoveCursor
  BY <1>3, MoveCursorIInv
<1>4. CASE Undo
  BY <1>4, UndoIInv
<1>5. CASE Redo
  BY <1>5, RedoIInv
<1>6. CASE ReplaceDocument
  BY <1>6, ReplaceDocumentIInv
<1>7. CASE UNCHANGED vars
  BY <1>7 DEF vars, IInv, TypeOK, StackBound, CursorInDocument, NeighboursDiffer,
              Differ, SameParagraphs, CursorInside
<1> QED
  BY <1>1, <1>2, <1>3, <1>4, <1>5, <1>6, <1>7 DEF Next

LEMMA Invariance == Spec => []IInv
<1> QED
  BY InitIInv, NextIInv, PTL DEF Spec

-----------------------------------------------------------------------------
(* The theorems.                                                            *)

(* undo.lua keeps documents and snapshots well formed.                      *)
THEOREM TypeCorrect == Spec => []TypeOK
<1>1. IInv => TypeOK
  BY DEF IInv
<1> QED
  BY <1>1, Invariance, PTL

(* Both stacks together hold fewer than STACKSIZE snapshots, although only  *)
(* Checkpoint limits one of them (undo.lua, undostack[STACKSIZE] = nil).    *)
THEOREM BoundedStacks == Spec => []StackBound
<1>1. IInv => StackBound
  BY DEF IInv
<1> QED
  BY <1>1, Invariance, PTL

(* loaddocument never leaves the cursor outside the document.               *)
THEOREM CursorSafety == Spec => []CursorInDocument
<1>1. IInv => CursorInDocument
  BY DEF IInv
<1> QED
  BY <1>1, Invariance, PTL

(* The history has no repeated neighbours but perhaps its last two states.  *)
THEOREM HistorySafety == Spec => []NeighboursDiffer
<1>1. IInv => NeighboursDiffer
  BY DEF IInv
<1> QED
  BY <1>1, Invariance, PTL

(* A checkpointed command leaves nothing to redo, also when Checkpoint      *)
(* takes its early exit and leaves the redo stack alone.                    *)
THEOREM RedoForgotten == Spec => NoRedoAfterEdit
<1>1. IInv /\ [Next]_vars => [CheckpointedCommand => redostack' = <<>>]_vars
  BY CheckpointProperties DEF CheckpointedCommand
<1> QED
  BY <1>1, Invariance, PTL DEF Spec, NoRedoAfterEdit

-----------------------------------------------------------------------------
(* The stacks implement Timeline.                                           *)

LEMMA HistoryElements ==
  ASSUME NEW past \in Seq(Snapshot), NEW present \in Snapshot, NEW future \in Seq(Snapshot)
  PROVE  /\ HistoryOf(past, present, future) \in Seq(Snapshot)
         /\ Len(HistoryOf(past, present, future)) = Len(past) + 1 + Len(future)
         /\ DOMAIN HistoryOf(past, present, future) = 1 .. (Len(past) + 1 + Len(future))
         /\ \A i \in 1 .. Len(past) :
              HistoryOf(past, present, future)[i] = past[Len(past) + 1 - i]
         /\ HistoryOf(past, present, future)[Len(past) + 1] = present
         /\ \A i \in 1 .. Len(future) :
              HistoryOf(past, present, future)[Len(past) + 1 + i] = future[i]
<1> DEFINE n == Len(past) + 1 + Len(future)
           h == HistoryOf(past, present, future)
<1>1. Len(past) \in Nat /\ Len(future) \in Nat /\ n \in Nat
  OBVIOUS
<1>2. h \in [1 .. n -> Snapshot]
  <2>1. SUFFICES ASSUME NEW i \in 1 .. n PROVE h[i] \in Snapshot
    BY DEF HistoryOf
  <2>2. CASE i <= Len(past)
    <3>1. Len(past) + 1 - i \in 1 .. Len(past)
      BY <1>1, <2>2
    <3> QED
      BY <2>2, <3>1 DEF HistoryOf
  <2>3. CASE i = Len(past) + 1
    BY <1>1, <2>3 DEF HistoryOf
  <2>4. CASE i > Len(past) + 1
    <3>1. i - Len(past) - 1 \in 1 .. Len(future)
      BY <1>1, <2>4
    <3> QED
      BY <1>1, <2>4, <3>1 DEF HistoryOf
  <2> QED
    BY <1>1, <2>2, <2>3, <2>4
<1>3. h \in Seq(Snapshot) /\ Len(h) = n
  BY <1>1, <1>2, FunctionIsSeq
<1>4. \A i \in 1 .. Len(past) : h[i] = past[Len(past) + 1 - i]
  BY <1>1 DEF HistoryOf
<1>5. h[Len(past) + 1] = present
  BY <1>1 DEF HistoryOf
<1>6. \A i \in 1 .. Len(future) : h[Len(past) + 1 + i] = future[i]
  BY <1>1 DEF HistoryOf
<1>7. DOMAIN h = 1 .. n
  BY <1>2
<1> QED
  BY <1>3, <1>4, <1>5, <1>6, <1>7

LEMMA InitRefines == Init => TL!Init
<1> SUFFICES ASSUME Init PROVE TL!Init
  OBVIOUS
<1>1. undostack = <<>> /\ redostack = <<>> /\ doc \in Snapshot
  BY InitIInv DEF Init, IInv, TypeOK
<1>2. DOMAIN History = 1 .. 1 /\ History[1] = doc /\ PastLen = 0
  BY <1>1 DEF History, HistoryOf, PastLen
<1>3. History \in [{1} -> Snapshot]
  <2>1. 1 .. 1 = {1}
    OBVIOUS
  <2> QED
    BY <1>1, <1>2, <2>1 DEF History, HistoryOf
<1> QED
  BY <1>2, <1>3 DEF TL!Init

(* A step that changes neither stack rewrites the present state.            *)
LEMMA AmendStep ==
  ASSUME TypeOK, TypeOK', UNCHANGED <<undostack, redostack>>
  PROVE  TL!Amend
<1>1. /\ undostack \in Seq(Snapshot) /\ redostack \in Seq(Snapshot)
      /\ doc \in Snapshot /\ doc' \in Snapshot
  BY DEF TypeOK
<1> DEFINE h == History
           k == History'
<1>2. k = HistoryOf(undostack, doc', redostack) /\ h = HistoryOf(undostack, doc, redostack)
  BY DEF History
<1>3. k \in Seq(Snapshot) /\ Len(k) = Len(h)
  BY <1>1, <1>2, HistoryElements
<1>4. ASSUME NEW i \in 1 .. Len(h), i # PastLen + 1
      PROVE  k[i] = h[i]
  BY <1>1, <1>2, <1>4, HistoryElements DEF HistoryOf, PastLen
<1> QED
  BY <1>3, <1>4 DEF TL!Amend, PastLen

LEMMA BackStep ==
  ASSUME TypeOK, TypeOK', Undo
  PROVE  TL!Back
<1>1. /\ undostack \in Seq(Snapshot) /\ redostack \in Seq(Snapshot)
      /\ doc \in Snapshot /\ SaveDocument = doc
  BY DEF TypeOK, SaveDocument, Snapshot
<1>2. /\ undostack' \in Seq(Snapshot) /\ redostack' \in Seq(Snapshot)
      /\ doc' \in Snapshot
  BY DEF TypeOK
<1>3. /\ Len(undostack) \in Nat /\ Len(redostack) \in Nat
      /\ Len(undostack) >= 1
      /\ Len(undostack') = Len(undostack) - 1
      /\ Len(redostack') = Len(redostack) + 1
      /\ doc' = undostack[1]
      /\ redostack'[1] = doc
      /\ \A i \in 1 .. Len(undostack) - 1 : undostack'[i] = undostack[i + 1]
      /\ \A i \in 1 .. Len(redostack) : redostack'[i + 1] = redostack[i]
  <2>1. undostack[1] \in Snapshot /\ Head(undostack) = undostack[1]
    BY <1>1, Popped DEF Undo
  <2>2. doc' = undostack[1]
    BY <2>1 DEF Undo, LoadDocument, Snapshot
  <2> QED
    BY <1>1, <2>2, Popped, Pushed DEF Undo
<1> DEFINE h == HistoryOf(undostack, doc, redostack)
           k == HistoryOf(undostack', doc', redostack')
           n == Len(undostack) + 1 + Len(redostack)
<1>4. h \in Seq(Snapshot) /\ k \in Seq(Snapshot) /\ Len(h) = n /\ Len(k) = n
  <2>1. h \in Seq(Snapshot) /\ Len(h) = n
    BY <1>1, HistoryElements
  <2>2. k \in Seq(Snapshot) /\ Len(k) = Len(undostack') + 1 + Len(redostack')
    BY <1>2, HistoryElements
  <2>3. Len(undostack') + 1 + Len(redostack') = n
    BY <1>3
  <2> QED
    BY <2>1, <2>2, <2>3
<1>5. ASSUME NEW i \in 1 .. n PROVE k[i] = h[i]
  <2>1. CASE i <= Len(undostack) - 1
    <3>1. /\ k[i] = undostack'[Len(undostack) - i]
          /\ h[i] = undostack[Len(undostack) + 1 - i]
      BY <1>3, <2>1 DEF HistoryOf
    <3>2. Len(undostack) - i \in 1 .. Len(undostack) - 1
      BY <1>3, <2>1
    <3> QED
      BY <1>3, <3>1, <3>2
  <2>2. CASE i = Len(undostack)
    BY <1>3, <2>2 DEF HistoryOf
  <2>3. CASE i = Len(undostack) + 1
    BY <1>3, <2>3 DEF HistoryOf
  <2>4. CASE i > Len(undostack) + 1
    <3>1. /\ k[i] = redostack'[i - Len(undostack)]
          /\ h[i] = redostack[i - Len(undostack) - 1]
      BY <1>3, <2>4 DEF HistoryOf
    <3>2. /\ i - Len(undostack) - 1 \in 1 .. Len(redostack)
          /\ (i - Len(undostack) - 1) + 1 = i - Len(undostack)
      BY <1>3, <2>4
    <3> QED
      BY <1>3, <3>1, <3>2
  <2> QED
    BY <1>3, <2>1, <2>2, <2>3, <2>4
<1> HIDE DEF h, k, n
<1>6. k = h
  BY <1>4, <1>5, SeqEqual
<1>7. PastLen' = PastLen - 1 /\ PastLen >= 1 /\ PastLen \in Nat
  BY <1>3 DEF PastLen
<1>8. History' = History
  BY <1>6 DEF History, h, k
<1> QED
  BY <1>7, <1>8 DEF TL!Back

LEMMA ForwardStep ==
  ASSUME TypeOK, TypeOK', Redo
  PROVE  TL!Forward
<1>1. /\ undostack \in Seq(Snapshot) /\ redostack \in Seq(Snapshot)
      /\ doc \in Snapshot /\ SaveDocument = doc
  BY DEF TypeOK, SaveDocument, Snapshot
<1>2. /\ undostack' \in Seq(Snapshot) /\ redostack' \in Seq(Snapshot)
      /\ doc' \in Snapshot
  BY DEF TypeOK
<1>3. /\ Len(undostack) \in Nat /\ Len(redostack) \in Nat
      /\ Len(redostack) >= 1
      /\ Len(redostack') = Len(redostack) - 1
      /\ Len(undostack') = Len(undostack) + 1
      /\ doc' = redostack[1]
      /\ undostack'[1] = doc
      /\ \A i \in 1 .. Len(redostack) - 1 : redostack'[i] = redostack[i + 1]
      /\ \A i \in 1 .. Len(undostack) : undostack'[i + 1] = undostack[i]
  <2>1. redostack[1] \in Snapshot /\ Head(redostack) = redostack[1]
    BY <1>1, Popped DEF Redo
  <2>2. doc' = redostack[1]
    BY <2>1 DEF Redo, LoadDocument, Snapshot
  <2> QED
    BY <1>1, <2>2, Popped, Pushed DEF Redo
<1> DEFINE h == HistoryOf(undostack, doc, redostack)
           k == HistoryOf(undostack', doc', redostack')
           n == Len(undostack) + 1 + Len(redostack)
<1>4. h \in Seq(Snapshot) /\ k \in Seq(Snapshot) /\ Len(h) = n /\ Len(k) = n
  <2>1. h \in Seq(Snapshot) /\ Len(h) = n
    BY <1>1, HistoryElements
  <2>2. k \in Seq(Snapshot) /\ Len(k) = Len(undostack') + 1 + Len(redostack')
    BY <1>2, HistoryElements
  <2>3. Len(undostack') + 1 + Len(redostack') = n
    BY <1>3
  <2> QED
    BY <2>1, <2>2, <2>3
<1>5. ASSUME NEW i \in 1 .. n PROVE k[i] = h[i]
  <2>1. CASE i <= Len(undostack)
    <3>1. /\ k[i] = undostack'[Len(undostack) + 2 - i]
          /\ h[i] = undostack[Len(undostack) + 1 - i]
      BY <1>3, <2>1 DEF HistoryOf
    <3>2. /\ Len(undostack) + 1 - i \in 1 .. Len(undostack)
          /\ (Len(undostack) + 1 - i) + 1 = Len(undostack) + 2 - i
      BY <1>3, <2>1
    <3> QED
      BY <1>3, <3>1, <3>2
  <2>2. CASE i = Len(undostack) + 1
    BY <1>3, <2>2 DEF HistoryOf
  <2>3. CASE i = Len(undostack) + 2
    <3>1. h[i] = redostack[1] /\ k[i] = doc'
      <4>1. ~(i <= Len(undostack)) /\ i # Len(undostack) + 1 /\ i - Len(undostack) - 1 = 1
        BY <1>3, <2>3
      <4>2. ~(i <= Len(undostack')) /\ i = Len(undostack') + 1
        BY <1>3, <2>3
      <4>3. i \in 1 .. Len(undostack') + 1 + Len(redostack')
        BY <1>3
      <4> QED
        BY <4>1, <4>2, <4>3 DEF HistoryOf
    <3> QED
      BY <1>3, <3>1
  <2>4. CASE i > Len(undostack) + 2
    <3>1. /\ k[i] = redostack'[i - Len(undostack) - 2]
          /\ h[i] = redostack[i - Len(undostack) - 1]
      BY <1>3, <2>4 DEF HistoryOf
    <3>2. /\ i - Len(undostack) - 2 \in 1 .. Len(redostack) - 1
          /\ (i - Len(undostack) - 2) + 1 = i - Len(undostack) - 1
      BY <1>3, <2>4
    <3> QED
      BY <1>3, <3>1, <3>2
  <2>5. \/ i <= Len(undostack) \/ i = Len(undostack) + 1
        \/ i = Len(undostack) + 2 \/ i > Len(undostack) + 2
    BY <1>3
  <2> QED
    BY <2>1, <2>2, <2>3, <2>4, <2>5
<1> HIDE DEF h, k, n
<1>6. k = h
  BY <1>4, <1>5, SeqEqual
<1>7. History' = History
  BY <1>6 DEF History, h, k
<1>8. PastLen' = PastLen + 1 /\ PastLen \in Nat
  BY <1>3 DEF PastLen
<1>9. PastLen + 1 < Len(History)
  BY <1>1, <1>3, <1>4 DEF History, PastLen, h, n
<1> QED
  BY <1>7, <1>8, <1>9 DEF TL!Forward

(* A checkpoint that pushes starts a new state after the present one.       *)
LEMMA BranchStep ==
  ASSUME TypeOK, TypeOK', StackBound, redostack' = <<>>,
         undostack' = Capped(<<SaveDocument>> \o undostack)
  PROVE  TL!Branch
<1> DEFINE pushed == <<SaveDocument>> \o undostack
           h == HistoryOf(undostack, doc, redostack)
           k == HistoryOf(undostack', doc', redostack')
           past == Len(undostack)
           drop == IF past + 1 < STACKSIZE THEN 0 ELSE past + 2 - STACKSIZE
<1>1. /\ undostack \in Seq(Snapshot) /\ redostack \in Seq(Snapshot)
      /\ doc \in Snapshot /\ SaveDocument = doc
      /\ past \in Nat /\ Len(redostack) \in Nat /\ past < STACKSIZE
  BY StackSizeAssumption DEF TypeOK, SaveDocument, Snapshot, StackBound
<1>2. /\ undostack' \in Seq(Snapshot) /\ redostack' \in Seq(Snapshot)
      /\ doc' \in Snapshot /\ Len(redostack') = 0
  BY DEF TypeOK
<1>3. /\ pushed \in Seq(Snapshot) /\ Len(pushed) = past + 1
      /\ pushed[1] = doc
      /\ \A i \in 1 .. past : pushed[i + 1] = undostack[i]
  BY <1>1, Pushed
<1> HIDE DEF pushed
<1>4. /\ Len(undostack') = past + 1 - drop
      /\ drop \in 0 .. 1
      /\ \A i \in 1 .. Len(undostack') : undostack'[i] = pushed[i]
  <2>1. undostack' = Capped(pushed)
    BY DEF pushed
  <2>2. /\ Len(Capped(pushed)) = IF Len(pushed) < STACKSIZE THEN Len(pushed)
                                                         ELSE STACKSIZE - 1
        /\ \A i \in 1 .. Len(Capped(pushed)) : Capped(pushed)[i] = pushed[i]
    BY <1>3, CappedProperties
  <2>5. \A i \in 1 .. Len(undostack') : undostack'[i] = pushed[i]
    BY <2>1, <2>2
  <2>3. CASE past + 1 < STACKSIZE
    <3>1. drop = 0 /\ Len(Capped(pushed)) = past + 1
      BY <1>1, <1>3, <2>2, <2>3
    <3> QED
      BY <1>1, <2>1, <2>5, <3>1
  <2>4. CASE ~(past + 1 < STACKSIZE)
    <3>1. past + 1 = STACKSIZE
      BY <1>1, <2>4, StackSizeAssumption
    <3>2. drop = 1 /\ Len(Capped(pushed)) = past
      BY <1>1, <1>3, <2>2, <2>4, <3>1, StackSizeAssumption
    <3> QED
      BY <1>1, <2>1, <2>5, <3>2
  <2> QED
    BY <2>3, <2>4
<1> HIDE DEF drop
<1>5. /\ k \in Seq(Snapshot) /\ Len(k) = past + 2 - drop
  <2>1. k \in Seq(Snapshot) /\ Len(k) = Len(undostack') + 1 + Len(redostack')
    BY <1>2, HistoryElements
  <2>2. Len(undostack') + 1 + Len(redostack') = past + 2 - drop
    BY <1>1, <1>2, <1>4
  <2> QED
    BY <2>1, <2>2
<1>6. ASSUME NEW i \in 1 .. past + 1 - drop
      PROVE  k[i] = h[i + drop]
  <2>1. k[i] = undostack'[past + 2 - drop - i]
    BY <1>1, <1>2, <1>4 DEF HistoryOf
  <2>2. past + 2 - drop - i \in 1 .. Len(undostack')
    BY <1>1, <1>4
  <2>3. k[i] = pushed[past + 2 - drop - i]
    BY <1>4, <2>1, <2>2
  <2>4. CASE i + drop = past + 1
    <3>1. past + 2 - drop - i = 1
      BY <1>1, <1>4, <2>4
    <3>2. h[i + drop] = doc
      BY <1>1, <2>4 DEF HistoryOf
    <3> QED
      BY <1>3, <2>3, <3>1, <3>2
  <2>5. CASE i + drop # past + 1
    <3>0. drop \in Int /\ i \in Int /\ i >= 1 /\ i <= past + 1 - drop /\ drop >= 0
      BY <1>1, <1>4
    <3>1. /\ past + 1 - (i + drop) \in 1 .. past
          /\ (past + 1 - (i + drop)) + 1 = past + 2 - drop - i
          /\ i + drop \in 1 .. past
      BY <1>1, <3>0, <2>5
    <3>2. h[i + drop] = undostack[past + 1 - (i + drop)]
      BY <1>1, <3>1 DEF HistoryOf
    <3> QED
      BY <1>3, <2>3, <3>1, <3>2
  <2> QED
    BY <2>4, <2>5
<1>7. /\ PastLen = past /\ TL!Dropped = drop /\ past \in Nat /\ drop \in Int
      /\ PastLen' + 1 = (PastLen + 1) + 1 - TL!Dropped
  <2>1. PastLen = past /\ PastLen' = Len(undostack')
    BY DEF PastLen
  <2>2. TL!Dropped = drop
    BY <1>1, <2>1, StackSizeAssumption DEF TL!Dropped, drop
  <2> QED
    BY <1>1, <1>4, <2>1, <2>2
<1>8. History' = k /\ History = h
  BY DEF History
<1> HIDE DEF h, k, past
<1>9. \A i \in 1 .. PastLen + 1 - TL!Dropped : History'[i] = History[i + TL!Dropped]
  BY <1>6, <1>7, <1>8
<1>10. History' \in Seq(Snapshot) /\ Len(History') = PastLen' + 1
  <2>1. past \in Nat /\ drop \in Int /\ PastLen = past /\ PastLen' + 1 = past + 2 - drop
    BY <1>1, <1>4, <1>7 DEF PastLen, past
  <2> QED
    BY <1>5, <1>8, <2>1
<1> QED
  BY <1>7, <1>9, <1>10 DEF TL!Branch

LEMMA RestartStep ==
  ASSUME TypeOK', ReplaceDocument
  PROVE  TL!Restart
<1>1. undostack' = <<>> /\ redostack' = <<>> /\ doc' \in Snapshot
  BY DEF ReplaceDocument, TypeOK
<1>2. History' \in [{1} -> Snapshot] /\ PastLen' + 1 = 1
  <2>1. 1 .. 1 = {1} /\ Len(undostack') = 0 /\ Len(redostack') = 0
    BY <1>1
  <2> QED
    BY <1>1, <2>1 DEF History, HistoryOf, PastLen
<1> QED
  BY <1>2 DEF TL!Restart

(* Undo and redo walk along one linear history of at most STACKSIZE states  *)
(* (undo.lua: Checkpoint, movechange).                                      *)
THEOREM Refinement == Spec => ImplementsTimeline
<1>1. Init => TL!Init
  BY InitRefines
<1>2. IInv /\ IInv' /\ [Next]_vars => [TL!Next]_(TL!vars)
  <2> SUFFICES ASSUME IInv, IInv', [Next]_vars PROVE [TL!Next]_(TL!vars)
    OBVIOUS
  <2> USE DEF IInv
  <2>1. CASE CheckpointedCommand
    <3>1. CASE undostack # <<>> /\ SameParagraphs(doc, Head(undostack))
      <4>1. UNCHANGED <<undostack, redostack>>
        BY <2>1, <3>1 DEF CheckpointedCommand, Checkpoint
      <4> QED
        BY <4>1, AmendStep DEF TL!Next
    <3>2. CASE ~(undostack # <<>> /\ SameParagraphs(doc, Head(undostack)))
      <4>1. /\ redostack' = <<>>
            /\ undostack' = Capped(<<SaveDocument>> \o undostack)
        BY <2>1, <3>2 DEF CheckpointedCommand, Checkpoint
      <4> QED
        BY <4>1, BranchStep DEF TL!Next
    <3> QED
      BY <3>1, <3>2
  <2>2. CASE ChangeParagraphStyle \/ MoveCursor
    <3>1. UNCHANGED <<undostack, redostack>>
      BY <2>2 DEF ChangeParagraphStyle, MoveCursor
    <3> QED
      BY <3>1, AmendStep DEF TL!Next
  <2>3. CASE Undo
    BY <2>3, BackStep DEF TL!Next
  <2>4. CASE Redo
    BY <2>4, ForwardStep DEF TL!Next
  <2>5. CASE ReplaceDocument
    BY <2>5, RestartStep DEF TL!Next
  <2>6. CASE UNCHANGED vars
    BY <2>6 DEF vars, TL!vars, History, HistoryOf, PastLen
  <2> QED
    BY <2>1, <2>2, <2>3, <2>4, <2>5, <2>6 DEF Next
<1> QED
  BY <1>1, <1>2, Invariance, PTL DEF Spec, ImplementsTimeline, TL!Spec
=============================================================================
