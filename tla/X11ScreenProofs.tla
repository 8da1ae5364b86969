-------------------------- MODULE X11ScreenProofs --------------------------
(* Proofs about X11Screen, for every size of window, queue and alphabet.   *)
EXTENDS X11Screen, SequenceTheorems, TLAPS

Ids == Glyphs \cup {0}

(* A buffer that is there has cells.                                        *)
LEMMA ScreenHasCells ==
  ASSUME NEW size \in Sizes PROVE Cells(size) # {}
<1>1. size \in (Nat \ {0}) \X (Nat \ {0})
  BY ScreenAssumption
<1>2. <<0, 0>> \in Cells(size)
  BY <1>1 DEF Cells
<1> QED
  BY <1>2

LEMMA NoCellsAtFirst == Cells(<<0, 0>>) = {}
BY DEF Cells

LEMMA CallocType ==
  ASSUME NEW size PROVE Calloc(size) \in [Cells(size) -> Ids]
BY DEF Calloc, Ids

-----------------------------------------------------------------------------
(* Type correctness.                                                        *)

LEMMA PushedType ==
  ASSUME TypeOK, NEW keys \in Seq(Keys)
  PROVE  /\ Pushed(keys) \in Seq(Keys)
         /\ Len(Pushed(keys)) <= QueueSize
<1> DEFINE all == queued \o keys
<1>1. all \in Seq(Keys) /\ Len(all) \in Nat
  <2>1. queued \in Seq(Keys)
    BY DEF TypeOK
  <2> QED
    BY <2>1, ConcatProperties, LenProperties
<1>2. CASE Len(all) > QueueSize
  <2>1. QueueSize \in Nat \ {0}
    BY ScreenAssumption
  <2>2. \A i \in 1..QueueSize : all[i] \in Keys
    BY <1>1, <1>2, <2>1, ElementOfSeq
  <2> HIDE DEF all
  <2>3. SubSeq(all, 1, QueueSize) \in Seq(Keys) /\ Len(SubSeq(all, 1, QueueSize)) = QueueSize
    BY <2>1, <2>2, SubSeqProperties
  <2> QED
    BY <1>2, <2>1, <2>3 DEF Pushed, all
<1>3. CASE ~(Len(all) > QueueSize)
  BY <1>1, <1>3, ScreenAssumption DEF Pushed
<1> QED
  BY <1>2, <1>3

LEMMA FittingType ==
  ASSUME NEW keys \in Seq(Keys) PROVE Fitting(keys) \in Seq(Keys)
<1>1. QueueSize \in Nat \ {0}
  BY ScreenAssumption
<1>2. CASE Len(keys) > QueueSize
  <2>1. \A i \in 1..QueueSize : keys[i] \in Keys
    BY <1>1, <1>2, ElementOfSeq, LenProperties
  <2> QED
    BY <1>1, <1>2, <2>1, SubSeqProperties DEF Fitting
<1> QED
  BY <1>2 DEF Fitting

LEMMA PaintedType ==
  ASSUME TypeOK, NEW shown \in [Cells(screen) -> Ids], NEW at
  PROVE  Painted(shown, at) \in [Cells(window.size) -> CellState]
<1> USE DEF Ids
<1>1. DOMAIN window.cells = Cells(window.size)
  BY DEF TypeOK
<1> SUFFICES ASSUME NEW c \in Cells(window.size)
             PROVE  Painted(shown, at)[c] \in CellState
  BY <1>1 DEF Painted
<1>2. window.cells[c] \in CellState
  BY DEF TypeOK
<1>3. Rendered(c, shown) => back[c] \in Ids
  BY DEF Rendered, TypeOK
<1>4. Overlaid(c, shown) => back[LeftOf(c)] \in Ids
  BY DEF Overlaid, Rendered, TypeOK
<1> QED
  BY <1>1, <1>2, <1>3, <1>4 DEF Painted, CellState

(* What redraw leaves of the variables it changes.                          *)
LEMMA RedrawType ==
  ASSUME TypeOK,
         NEW shown \in [Cells(screen) -> Ids] \cup {NoBuffer},
         NEW at, Redraw(shown, at)
  PROVE  /\ front' \in [Cells(screen) -> Ids] \cup {NoBuffer}
         /\ window'.size = window.size
         /\ window' = [size |-> window'.size, cells |-> window'.cells]
         /\ window'.cells \in [Cells(window.size) -> CellState]
<1>1. CASE Absent(shown) \/ Absent(back)
  BY <1>1 DEF Redraw, TypeOK
<1>2. CASE ~(Absent(shown) \/ Absent(back))
  <2>1. shown \in [Cells(screen) -> Ids]
    BY <1>2 DEF Absent, NoBuffer
  <2>2. Painted(shown, at) \in [Cells(window.size) -> CellState]
    BY <2>1, PaintedType
  <2>3. window' = [window EXCEPT !.cells = Painted(shown, at)]
    BY <1>2 DEF Redraw
  <2>4. window = [size |-> window.size, cells |-> window.cells]
    BY DEF TypeOK
  <2>5. window' = [size |-> window.size, cells |-> Painted(shown, at)]
    BY <2>3, <2>4
  <2>6. front' = back
    BY <1>2 DEF Redraw
  <2> QED
    BY <2>2, <2>5, <2>6 DEF TypeOK, Ids
<1> QED
  BY <1>1, <1>2

LEMMA ForgetType ==
  ASSUME TypeOK
  PROVE  Allocated(ForgetCaret(front)) \in [Cells(screen) -> Ids]
<1>1. front \in [Cells(screen) -> Ids] \cup {NoBuffer}
  BY DEF TypeOK, Ids
<1>2. CASE Absent(ForgetCaret(front))
  BY <1>2, CallocType DEF Allocated
<1>3. CASE ~Absent(ForgetCaret(front))
  <2>1. front \in [Cells(screen) -> Ids]
    BY <1>1, <1>3 DEF Absent, ForgetCaret, NoBuffer
  <2> QED
    BY <1>3, <2>1 DEF Allocated, ForgetCaret, Ids
<1> QED
  BY <1>2, <1>3

LEMMA ShowType ==
  ASSUME TypeOK, Show
  PROVE  /\ front' \in [Cells(screen) -> Ids] \cup {NoBuffer}
         /\ window'.size = window.size
         /\ window' = [size |-> window'.size, cells |-> window'.cells]
         /\ window'.cells \in [Cells(window.size) -> CellState]
         /\ caret' \in Place
<1>1. cursor \in Place
  BY DEF TypeOK
<1> QED
  BY <1>1, RedrawType, ForgetType DEF Show

LEMMA ReadingType ==
  ASSUME TypeOK, NEW type, Reading(type)
  PROVE  /\ events' \in Seq(Event)
         /\ Head(events) \in Event
         /\ Head(events).type = type
         /\ Len(events) \in Nat \ {0}
         /\ Len(events') = Len(events) - 1
         /\ \A i \in 1..Len(events') : events'[i] = events[i + 1]
         /\ queued = <<>>
<1>1. events \in Seq(Event) /\ events # <<>> /\ events' = Tail(events)
  BY DEF TypeOK, Reading
<1> HIDE DEF Event
<1> QED
  BY <1>1, HeadTailProperties, LenProperties, EmptySeq DEF Reading

LEMMA SendType ==
  ASSUME TypeOK, NEW e \in Event
  PROVE  /\ Append(events, e) \in Seq(Event)
         /\ Len(Append(events, e)) = Len(events) + 1
         /\ Append(events, e)[Len(events) + 1] = e
         /\ \A i \in 1..Len(events) : Append(events, e)[i] = events[i]
<1>1. events \in Seq(Event)
  BY DEF TypeOK
<1> HIDE DEF Event
<1> QED
  BY <1>1, AppendProperties

LEMMA EventTypes ==
  /\ \A p \in Presses : KeyPress(p) \in Event
  /\ \A size \in Sizes : ConfigureNotify(size) \in Event
  /\ Expose \in Event
BY DEF KeyPress, ConfigureNotify, Expose, Event

LEMMA TypeInit == Init => TypeOK
<1> SUFFICES ASSUME Init PROVE TypeOK
  OBVIOUS
<1> PICK size \in Sizes :
      /\ window = [size |-> size, cells |-> [c \in Cells(size) |-> Background]]
      /\ events = <<ConfigureNotify(size), Expose>>
  BY DEF Init
<1>1. events \in Seq(Event)
  BY EventTypes
<1>2. window.cells \in [Cells(window.size) -> CellState]
  BY DEF Background, CellState
<1>3. back \in [Cells(screen) -> Glyphs \cup {0}]
  BY NoCellsAtFirst DEF Init, NoBuffer
<1>4. queued \in Seq(Keys) /\ Len(queued) <= QueueSize /\ owed \in Seq(Keys)
  BY ScreenAssumption DEF Init
<1>5. cursor \in Place /\ caret \in Place
  BY DEF Init, Place
<1> QED
  BY <1>1, <1>2, <1>3, <1>4, <1>5 DEF Init, TypeOK

LEMMA TypeStep == TypeOK /\ KeysInOrder /\ [Next]_vars => TypeOK'
<1> SUFFICES ASSUME TypeOK, KeysInOrder, [Next]_vars PROVE TypeOK'
  OBVIOUS
<1> USE DEF driver, program, server
<1>1. ASSUME NEW c \in AllCells, NEW g \in Glyphs, WriteChar(c, g) PROVE TypeOK'
  <2>1. back' \in [Cells(screen) -> Ids]
    BY <1>1 DEF WriteChar, Put, TypeOK, Ids
  <2> QED
    BY <1>1, <2>1 DEF WriteChar, TypeOK, Ids
<1>2. ASSUME NEW c \in Places, NEW g \in Glyphs \ Wide, ClearArea(0, 0, c[1], c[2], g)
      PROVE  TypeOK'
  <2>1. back' \in [Cells(screen) -> Ids]
    BY <1>2 DEF ClearArea, TypeOK, Ids
  <2> QED
    BY <1>2, <2>1 DEF ClearArea, TypeOK, Ids
<1>3. ASSUME NEW c \in Places, NEW shown \in BOOLEAN, SetCursor(c[1], c[2], shown)
      PROVE  TypeOK'
  <2>1. c[1] \in Int /\ c[2] \in Int
    BY ScreenAssumption
  <2>2. cursor' \in Place
    BY <1>3, <2>1 DEF SetCursor, Place
  <2> QED
    BY <1>3, <2>2 DEF SetCursor, TypeOK
<1>4. CASE Sync
  BY <1>4, ShowType DEF Sync, TypeOK, Ids
<1>5. ASSUME NEW t \in BOOLEAN, GetChar(t) PROVE TypeOK'
  BY <1>5, ShowType DEF GetChar, TypeOK, Ids
<1>6. CASE ReadExpose
  <2>1. [c \in DOMAIN front |-> 0] \in [Cells(screen) -> Ids] \cup {NoBuffer}
    BY DEF TypeOK, NoBuffer, Ids
  <2> QED
    BY <1>6, <2>1, RedrawType, ReadingType DEF ReadExpose, TypeOK, Ids
<1>7. CASE ReadConfigureNotify
  <2>1. Head(events) \in Event /\ Head(events).type = "ConfigureNotify" /\ events' \in Seq(Event)
    BY <1>7, ReadingType DEF ReadConfigureNotify
  <2>2. Head(events).size \in Sizes
    BY <2>1 DEF Event
  <2>3. Pushed(<<RESIZE>>) \in Seq(Keys) /\ Len(Pushed(<<RESIZE>>)) <= QueueSize
    <3>1. <<RESIZE>> \in Seq(Keys)
      BY ScreenAssumption
    <3> QED
      BY <3>1, PushedType
  <2>4. owed \o <<RESIZE>> \in Seq(Keys)
    <3>1. <<RESIZE>> \in Seq(Keys)
      BY ScreenAssumption
    <3> QED
      BY <3>1, ConcatProperties DEF TypeOK
  <2>5. CASE Head(events).size = screen
    BY <1>7, <2>1, <2>5 DEF ReadConfigureNotify, TypeOK
  <2>6. CASE Head(events).size # screen
    <3>1. /\ screen' = Head(events).size
          /\ front' = NoBuffer
          /\ back' = Calloc(screen')
          /\ queued' = Pushed(<<RESIZE>>)
          /\ owed' = owed \o <<RESIZE>>
          /\ UNCHANGED <<caret, cursor, pc, timed, known, window, sent>>
      BY <1>7, <2>6 DEF ReadConfigureNotify
    <3>2. back' \in [Cells(screen') -> Glyphs \cup {0}]
      BY <3>1, CallocType DEF Ids
    <3> QED
      BY <2>1, <2>2, <2>3, <2>4, <3>1, <3>2 DEF TypeOK
  <2> QED
    BY <2>5, <2>6
<1>8. CASE ReadKeyPress
  <2>1. Head(events) \in Event /\ Head(events).type = "KeyPress" /\ events' \in Seq(Event)
    BY <1>8, ReadingType DEF ReadKeyPress
  <2>2. Head(events).keys \in Presses
    BY <2>1 DEF Event
  <2>3. Head(events).keys \in Seq(Keys)
    BY <2>2, ScreenAssumption
  <2>4. Pushed(Head(events).keys) \in Seq(Keys) /\ Len(Pushed(Head(events).keys)) <= QueueSize
    BY <2>3, PushedType
  <2>5. owed \o Fitting(Head(events).keys) \in Seq(Keys)
    BY <2>3, FittingType, ConcatProperties DEF TypeOK
  <2> QED
    BY <1>8, <2>1, <2>4, <2>5 DEF ReadKeyPress, TypeOK
<1>9. CASE Dequeue
  <2>1. /\ Len(queued) >= 1
        /\ queued' = Tail(queued)
        /\ owed' = Tail(owed)
        /\ pc' \in {"program", "getchar"}
        /\ known' \in {screen, known}
        /\ UNCHANGED <<screen, front, back, caret, cursor, timed, window, events, sent>>
    BY <1>9 DEF Dequeue, DequeueFrom
  <2>2. queued \in Seq(Keys) /\ queued # <<>> /\ owed = queued
    BY <2>1, EmptySeq DEF TypeOK, KeysInOrder
  <2>3. Tail(queued) \in Seq(Keys) /\ Len(Tail(queued)) = Len(queued) - 1 /\ Len(queued) \in Nat
    BY <2>2, HeadTailProperties, LenProperties
  <2>4. queued' \in Seq(Keys) /\ owed' \in Seq(Keys) /\ Len(queued') <= QueueSize
    BY <2>1, <2>2, <2>3, ScreenAssumption DEF TypeOK
  <2> QED
    BY <2>1, <2>4 DEF TypeOK
<1>10. CASE Timeout
  BY <1>10 DEF Timeout, TypeOK
<1>11. ASSUME NEW p \in Presses, Press(p) PROVE TypeOK'
  <2>1. events' \in Seq(Event)
    BY <1>11, SendType, EventTypes DEF Press, Send
  <2> QED
    BY <1>11, <2>1 DEF Press, Send, TypeOK
<1>12. ASSUME NEW lost \in SUBSET DOMAIN window.cells, Obscure(lost) PROVE TypeOK'
  <2>1. events' \in Seq(Event)
    BY <1>12, SendType, EventTypes DEF Obscure, Send
  <2>2. Background \in CellState
    BY DEF Background, CellState
  <2>3. /\ window'.size = window.size
        /\ window' = [size |-> window'.size, cells |-> window'.cells]
        /\ window'.cells \in [Cells(window.size) -> CellState]
    <3> DEFINE left == [c \in DOMAIN window.cells |->
                          IF c \in lost THEN Background ELSE window.cells[c]]
    <3>1. left \in [Cells(window.size) -> CellState]
      BY <2>2 DEF TypeOK
    <3>2. window' = [window EXCEPT !.cells = left]
      BY <1>12 DEF Obscure
    <3>3. window' = [size |-> window.size, cells |-> left]
      BY <3>2 DEF TypeOK
    <3> QED
      BY <3>1, <3>3
  <2> QED
    BY <1>12, <2>1, <2>3 DEF Obscure, Send, TypeOK
<1>13. ASSUME NEW size \in Sizes, Resize(size) PROVE TypeOK'
  <2>1. events' \in Seq(Event)
    <3> DEFINE first == Append(events, ConfigureNotify(size))
    <3>1. first \in Seq(Event)
      BY SendType, EventTypes
    <3>2. Append(first, Expose) \in Seq(Event)
      <4> HIDE DEF first, Event
      <4> QED
        BY <3>1, EventTypes, AppendProperties
    <3> QED
      BY <1>13, <3>2 DEF Resize, Send
  <2>2. window'.cells \in [Cells(size) -> CellState] /\ window'.size = size
        /\ window' = [size |-> window'.size, cells |-> window'.cells]
    BY <1>13 DEF Resize, Background, CellState
  <2> QED
    BY <1>13, <2>1, <2>2 DEF Resize, Send, TypeOK
<1>14. CASE UNCHANGED vars
  BY <1>14 DEF vars, TypeOK
<1> QED
  BY <1>1, <1>2, <1>3, <1>4, <1>5, <1>6, <1>7, <1>8, <1>9, <1>10, <1>11, <1>12, <1>13, <1>14
  DEF Next, Draw, AskForKey, ReadEvent, Serve

-----------------------------------------------------------------------------
(* The queue.                                                               *)

(* With an empty queue, push_key takes as many keys as fit.                 *)
LEMMA PushedOnEmpty ==
  ASSUME NEW keys \in Seq(Keys), queued = <<>> PROVE Pushed(keys) = Fitting(keys)
<1>1. queued \o keys = keys
  BY ConcatEmptySeq
<1> QED
  BY <1>1 DEF Pushed, Fitting

LEMMA OneFits == Fitting(<<RESIZE>>) = <<RESIZE>>
BY ScreenAssumption DEF Fitting

LEMMA OrderStep == TypeOK /\ KeysInOrder /\ [Next]_vars => KeysInOrder'
<1> SUFFICES ASSUME TypeOK, KeysInOrder, [Next]_vars PROVE KeysInOrder'
  OBVIOUS
<1> USE DEF KeysInOrder
<1>1. CASE ReadConfigureNotify
  <2>1. <<RESIZE>> \in Seq(Keys)
    BY ScreenAssumption
  <2>2. queued = <<>> /\ owed = <<>>
    BY <1>1 DEF ReadConfigureNotify, Reading
  <2>3. Pushed(<<RESIZE>>) = <<RESIZE>> /\ owed \o <<RESIZE>> = <<RESIZE>>
    BY <2>1, <2>2, PushedOnEmpty, OneFits, ConcatEmptySeq
  <2> QED
    BY <1>1, <2>3 DEF ReadConfigureNotify
<1>2. CASE ReadKeyPress
  <2>1. Head(events) \in Event /\ Head(events).type = "KeyPress"
    BY <1>2, ReadingType DEF ReadKeyPress
  <2>2. Head(events).keys \in Seq(Keys)
    BY <2>1, ScreenAssumption DEF Event
  <2>3. queued = <<>> /\ owed = <<>>
    BY <1>2 DEF ReadKeyPress, Reading
  <2>4. owed \o Fitting(Head(events).keys) = Fitting(Head(events).keys)
    BY <2>2, <2>3, FittingType, ConcatEmptySeq
  <2> QED
    BY <1>2, <2>2, <2>3, <2>4, PushedOnEmpty DEF ReadKeyPress
<1>3. CASE Dequeue
  BY <1>3 DEF Dequeue, DequeueFrom
<1>4. CASE UNCHANGED <<queued, owed>>
  BY <1>4
<1> QED
  BY <1>1, <1>2, <1>3, <1>4
  DEF Next, Draw, AskForKey, ReadEvent, Serve, vars, driver, program, server, WriteChar,
      ClearArea, SetCursor, Sync, GetChar, ReadExpose, Timeout, Press, Obscure, Resize

LEMMA ToldStep == TypeOK /\ ResizeIsTold /\ [Next]_vars => ResizeIsTold'
<1> SUFFICES ASSUME TypeOK, ResizeIsTold, [Next]_vars PROVE ResizeIsTold'
  OBVIOUS
<1>1. CASE ReadConfigureNotify
  <2>1. CASE Head(events).size = screen
    BY <1>1, <2>1 DEF ReadConfigureNotify, ResizeIsTold, program
  <2>2. CASE Head(events).size # screen
    <3>1. <<RESIZE>> \in Seq(Keys)
      BY ScreenAssumption
    <3>2. queued' = <<RESIZE>>
      BY <1>1, <2>2, <3>1, PushedOnEmpty, OneFits DEF ReadConfigureNotify, Reading
    <3> QED
      BY <3>2 DEF ResizeIsTold
  <2> QED
    BY <2>1, <2>2
<1>2. CASE ReadKeyPress
  <2>1. queued = <<>> /\ known' = known /\ screen' = screen
    BY <1>2 DEF ReadKeyPress, Reading, program
  <2>2. known = screen
    BY <2>1 DEF ResizeIsTold
  <2> QED
    BY <2>1, <2>2 DEF ResizeIsTold
<1>3. CASE Dequeue
  <2>1. /\ queued' = Tail(queued)
        /\ known' = IF Head(queued) = RESIZE THEN screen ELSE known
        /\ screen' = screen
        /\ Len(queued) >= 1
    BY <1>3 DEF Dequeue, DequeueFrom
  <2>2. CASE Head(queued) = RESIZE
    BY <2>1, <2>2 DEF ResizeIsTold
  <2>3. CASE Head(queued) # RESIZE /\ known # screen
    <3> PICK i \in 1..Len(queued) : queued[i] = RESIZE
      BY <2>3 DEF ResizeIsTold
    <3>1. queued \in Seq(Keys) /\ queued # <<>> /\ Len(queued) \in Nat
      BY <2>1, LenProperties, EmptySeq DEF TypeOK
    <3>2. i # 1
      BY <2>3, <3>1
    <3>3. i - 1 \in 1..Len(Tail(queued)) /\ Tail(queued)[i - 1] = queued[i]
      BY <3>1, <3>2, HeadTailProperties
    <3> QED
      BY <2>1, <3>3 DEF ResizeIsTold
  <2>4. CASE Head(queued) # RESIZE /\ known = screen
    BY <2>1, <2>4 DEF ResizeIsTold
  <2> QED
    BY <2>2, <2>3, <2>4
<1>4. CASE UNCHANGED <<queued, known, screen>>
  BY <1>4 DEF ResizeIsTold
<1> QED
  BY <1>1, <1>2, <1>3, <1>4
  DEF Next, Draw, AskForKey, ReadEvent, Serve, vars, driver, program, server, WriteChar,
      ClearArea, SetCursor, Sync, GetChar, ReadExpose, Timeout, Press, Obscure, Resize

LEMMA QueueInvariance == Spec => [](TypeOK /\ KeysInOrder /\ ResizeIsTold)
<1>1. Init => TypeOK /\ KeysInOrder /\ ResizeIsTold
  BY TypeInit DEF Init, KeysInOrder, ResizeIsTold
<1>2. TypeOK /\ KeysInOrder /\ ResizeIsTold /\ [Next]_vars
        => (TypeOK /\ KeysInOrder /\ ResizeIsTold)'
  BY TypeStep, OrderStep, ToldStep
<1> QED
  BY <1>1, <1>2, PTL DEF Spec

(* The types of the driver's state: both buffers always have the size of    *)
(* the screen, so that no index of redraw is outside either.                *)
THEOREM TypeCorrect == Spec => []TypeOK
BY QueueInvariance, PTL

(* dpy_getchar delivers the keys of each event in order, up to the size of  *)
(* the queue, whatever other events come between.                           *)
THEOREM KeysDelivered == Spec => []KeysInOrder
BY QueueInvariance, PTL

(* A change of the screen's size is announced by a key that push_key cannot *)
(* have dropped.                                                            *)
THEOREM ResizeAnnounced == Spec => []ResizeIsTold
BY QueueInvariance, PTL

-----------------------------------------------------------------------------
(* What the window shows.                                                   *)

IsConfigure(e) == e.type = "ConfigureNotify"

(* The last ConfigureNotify that waits, or else the driver, has the size of *)
(* the window.                                                              *)
SizeComing ==
  /\ (\A i \in 1..Len(events) : ~IsConfigure(events[i])) => screen = window.size
  /\ \A i \in 1..Len(events) :
       /\ IsConfigure(events[i])
       /\ \A j \in (i + 1)..Len(events) : ~IsConfigure(events[j])
       => events[i].size = window.size

(* The front buffer is right about the window.                              *)
FrontIsShown ==
  Settled => \A c \in DOMAIN front : front[c] # 0 =>
    /\ c \in DOMAIN window.cells
    /\ window.cells[c].glyph = front[c]
    /\ window.cells[c].half = 1
    /\ window.cells[c].caret <=> CaretAt(c)

(* The program waits only after what it drew was copied.                    *)
FrontIsBack == pc = "getchar" /\ ~Absent(front) => front = back

(* What a resize loses is exposed.                                          *)
ExposeFollows ==
  \A i \in 1..Len(events) : IsConfigure(events[i]) =>
    i + 1 \in 1..Len(events) /\ events[i + 1].type = "Expose"

WindowInv == SizeComing /\ ExposeFollows /\ FrontIsShown /\ FrontIsBack

LEMMA SettledSize == TypeOK /\ SizeComing /\ Settled => screen = window.size
BY DEF SizeComing, Settled, IsConfigure

(* Cells around the caret are those it has pixels in, and more.             *)
LEMMA CaretIsAround ==
  ASSUME NEW size \in (Sizes \cup {<<0, 0>>}), NEW c \in Cells(size), TypeOK,
         c \in CaretCells(caret.x, caret.y)
  PROVE  Around(c, caret)
<1>1. caret.x \in Int /\ caret.y \in Int
  BY DEF TypeOK, Place
<1>2. size[1] \in Int /\ size[2] \in Int
  BY ScreenAssumption
<1>3. PICK x \in 0..(size[1] - 1), y \in 0..(size[2] - 1) : c = <<x, y>>
  BY DEF Cells
<1> QED
  BY <1>1, <1>2, <1>3 DEF CaretCells, Around

(* redraw makes a front buffer true of the window, if it was true where     *)
(* redraw copies nothing.                                                   *)
LEMMA RedrawShows ==
  ASSUME Wide = {}, TypeOK, NEW at \in Place,
         screen = window.size,
         NEW shown \in [Cells(screen) -> Ids] \cup {NoBuffer},
         \A c \in DOMAIN shown : shown[c] # 0 /\ shown[c] = back[c] =>
            /\ window.cells[c].glyph = back[c]
            /\ window.cells[c].half = 1
            /\ ~window.cells[c].caret,
         Redraw(shown, at), caret' = at
  PROVE  \A c \in DOMAIN front' : front'[c] # 0 =>
            /\ c \in DOMAIN window'.cells
            /\ window'.cells[c].glyph = front'[c]
            /\ window'.cells[c].half = 1
            /\ window'.cells[c].caret <=> CaretAt(c)'
<1>0. DOMAIN back = Cells(screen) /\ DOMAIN window.cells = Cells(screen)
  BY DEF TypeOK
<1>1. CASE Absent(shown)
  <2>1. front' = shown
    BY <1>1 DEF Redraw
  <2> QED
    BY <1>1, <2>1 DEF Absent
<1>2. CASE ~Absent(shown)
  <2>1. shown \in [Cells(screen) -> Ids]
    BY <1>2 DEF Absent, NoBuffer
  <2>2. ~Absent(back)
    BY <1>0, <1>2, <2>1 DEF Absent
  <2>3. front' = back /\ window' = [window EXCEPT !.cells = Painted(shown, at)]
    BY <1>2, <2>2 DEF Redraw
  <2>4. window'.cells = Painted(shown, at)
    BY <2>3 DEF TypeOK
  <2> SUFFICES ASSUME NEW c \in Cells(screen), back[c] # 0
               PROVE  /\ c \in DOMAIN window'.cells
                      /\ window'.cells[c].glyph = back[c]
                      /\ window'.cells[c].half = 1
                      /\ window'.cells[c].caret <=> CaretAt(c)'
    BY <1>0, <2>3
  <2>5. ~Overlaid(c, shown)
    BY DEF Overlaid
  <2>6. Rendered(c, shown) <=> shown[c] # back[c]
    BY <2>1 DEF Rendered
  <2>7. /\ c \in DOMAIN Painted(shown, at)
        /\ Painted(shown, at)[c].glyph =
             IF Rendered(c, shown) THEN back[c] ELSE window.cells[c].glyph
        /\ Painted(shown, at)[c].half =
             IF Rendered(c, shown) THEN 1 ELSE window.cells[c].half
        /\ Painted(shown, at)[c].caret <=>
             \/ at.shown /\ c \in CaretCells(at.x, at.y)
             \/ window.cells[c].caret /\ ~Rendered(c, shown)
    BY <1>0, <2>5 DEF Painted
  <2>8. CaretAt(c)' <=> at.shown /\ c \in CaretCells(at.x, at.y)
    BY DEF CaretAt
  <2>9. CASE shown[c] # back[c]
    BY <2>4, <2>6, <2>7, <2>8, <2>9
  <2>10. CASE shown[c] = back[c]
    <3>1. /\ window.cells[c].glyph = back[c]
          /\ window.cells[c].half = 1
          /\ ~window.cells[c].caret
      BY <2>1, <2>10
    <3> QED
      BY <2>4, <2>6, <2>7, <2>8, <2>10, <3>1
  <2> QED
    BY <2>9, <2>10
<1> QED
  BY <1>1, <1>2

LEMMA RedrawFront ==
  ASSUME TypeOK, NEW shown \in [Cells(screen) -> Ids] \cup {NoBuffer}, NEW at,
         Redraw(shown, at), ~Absent(front')
  PROVE  front' = back
<1>1. CASE Absent(shown)
  BY <1>1 DEF Redraw
<1>2. CASE ~Absent(shown)
  <2>1. DOMAIN shown = Cells(screen) /\ DOMAIN back = Cells(screen)
    BY <1>2 DEF Absent, NoBuffer, TypeOK
  <2> QED
    BY <1>2, <2>1 DEF Absent, Redraw
<1> QED
  BY <1>1, <1>2

(* dpy_setcursor and dpy_sync.                                              *)
LEMMA ShowShows ==
  ASSUME Wide = {}, TypeOK, WindowInv, Show, UNCHANGED <<screen, back, events>>
  PROVE  FrontIsShown' /\ (~Absent(front') => front' = back')
<1> DEFINE shown == Allocated(ForgetCaret(front))
<1>1. shown \in [Cells(screen) -> Ids]
  BY ForgetType
<1>2. Redraw(shown, cursor) /\ caret' = cursor /\ cursor \in Place
  BY DEF Show, TypeOK
<1>3. ASSUME Settled, NEW c \in DOMAIN shown, shown[c] # 0, shown[c] = back[c]
      PROVE  /\ window.cells[c].glyph = back[c]
             /\ window.cells[c].half = 1
             /\ ~window.cells[c].caret
  <2>1. ~Absent(ForgetCaret(front))
    BY <1>3 DEF Allocated, Calloc
  <2>2. shown = ForgetCaret(front)
    BY <2>1 DEF Allocated
  <2>3. c \in DOMAIN front /\ ~Around(c, caret) /\ front[c] = back[c] /\ front[c] # 0
    BY <1>3, <2>2 DEF ForgetCaret
  <2>4. c \in Cells(screen) /\ screen \in Sizes \cup {<<0, 0>>}
    BY <1>1 DEF TypeOK
  <2>5. ~CaretAt(c)
    BY <2>3, <2>4, CaretIsAround DEF CaretAt
  <2> QED
    BY <1>3, <2>3, <2>5 DEF WindowInv, FrontIsShown
<1>4. ASSUME Settled'
      PROVE  \A c \in DOMAIN front' : front'[c] # 0 =>
               /\ c \in DOMAIN window'.cells
               /\ window'.cells[c].glyph = front'[c]
               /\ window'.cells[c].half = 1
               /\ window'.cells[c].caret <=> CaretAt(c)'
  <2>1. Settled
    BY <1>4 DEF Settled
  <2>2. screen = window.size
    BY <2>1, SettledSize DEF WindowInv
  <2> HIDE DEF shown
  <2> QED
    BY <1>1, <1>2, <1>3, <2>1, <2>2, RedrawShows
<1>5. ~Absent(front') => front' = back'
  <2> HIDE DEF shown
  <2> QED
    BY <1>1, <1>2, RedrawFront
<1> QED
  BY <1>4, <1>5 DEF FrontIsShown

(* An event leaves the queue.                                               *)
LEMMA ReadingSettles ==
  ASSUME TypeOK, NEW type, Reading(type), type # "ConfigureNotify", SizeComing,
         UNCHANGED <<screen>>, window'.size = window.size
  PROVE  SizeComing'
<1>1. /\ events' \in Seq(Event)
      /\ Len(events) \in Nat \ {0}
      /\ Len(events') = Len(events) - 1
      /\ \A i \in 1..Len(events') : events'[i] = events[i + 1]
  BY ReadingType
<1>2. ~IsConfigure(events[1])
  BY ReadingType, HeadTailProperties DEF IsConfigure, Reading, TypeOK
<1>3. ASSUME \A i \in 1..Len(events') : ~IsConfigure(events'[i])
      PROVE  \A i \in 1..Len(events) : ~IsConfigure(events[i])
  <2> TAKE i \in 1..Len(events)
  <2>1. CASE i = 1
    BY <1>2, <2>1
  <2>2. CASE i # 1
    <3>1. i - 1 \in 1..Len(events') /\ events'[i - 1] = events[i]
      BY <1>1, <2>2
    <3> QED
      BY <1>3, <3>1
  <2> QED
    BY <2>1, <2>2
<1>4. ASSUME NEW i \in 1..Len(events'), IsConfigure(events'[i]),
             \A j \in (i + 1)..Len(events') : ~IsConfigure(events'[j])
      PROVE  events'[i].size = window'.size
  <2>1. i + 1 \in 1..Len(events) /\ events'[i] = events[i + 1]
    BY <1>1
  <2>2. \A j \in ((i + 1) + 1)..Len(events) : ~IsConfigure(events[j])
    <3> TAKE j \in ((i + 1) + 1)..Len(events)
    <3>1. j - 1 \in (i + 1)..Len(events') /\ events'[j - 1] = events[j]
      BY <1>1
    <3> QED
      BY <1>4, <3>1
  <2> QED
    BY <1>4, <2>1, <2>2 DEF SizeComing
<1>5. (\A i \in 1..Len(events') : ~IsConfigure(events'[i])) => screen' = window'.size
  BY <1>3 DEF SizeComing
<1> QED
  BY <1>4, <1>5 DEF SizeComing

LEMMA ReadingKeepsOrder ==
  ASSUME TypeOK, NEW type, Reading(type), ExposeFollows
  PROVE  ExposeFollows'
<1>1. /\ Len(events) \in Nat \ {0}
      /\ Len(events') = Len(events) - 1
      /\ \A i \in 1..Len(events') : events'[i] = events[i + 1]
  BY ReadingType
<1> SUFFICES ASSUME NEW i \in 1..Len(events'), IsConfigure(events'[i])
             PROVE  i + 1 \in 1..Len(events') /\ events'[i + 1].type = "Expose"
  BY DEF ExposeFollows
<1>2. i + 1 \in 1..Len(events) /\ IsConfigure(events[i + 1])
  BY <1>1
<1>3. (i + 1) + 1 \in 1..Len(events) /\ events[(i + 1) + 1].type = "Expose"
  BY <1>2 DEF ExposeFollows
<1> QED
  BY <1>1, <1>3

LEMMA WindowInit == Init => WindowInv
<1> SUFFICES ASSUME Init PROVE WindowInv
  OBVIOUS
<1> PICK size \in Sizes :
      /\ window = [size |-> size, cells |-> [c \in Cells(size) |-> Background]]
      /\ events = <<ConfigureNotify(size), Expose>>
  BY DEF Init
<1>1. SizeComing
  <2>1. Len(events) = 2 /\ events[1] = ConfigureNotify(size) /\ events[2] = Expose
    OBVIOUS
  <2> QED
    BY <2>1 DEF SizeComing, IsConfigure, ConfigureNotify, Expose
<1>3. ExposeFollows
  <2>1. Len(events) = 2 /\ events[1] = ConfigureNotify(size) /\ events[2] = Expose
    OBVIOUS
  <2> QED
    BY <2>1 DEF ExposeFollows, IsConfigure, ConfigureNotify, Expose
<1>2. ~Settled
  BY DEF Settled, ConfigureNotify
<1> QED
  BY <1>1, <1>2, <1>3 DEF WindowInv, FrontIsShown, FrontIsBack, Init

LEMMA WindowStep ==
  ASSUME Wide = {}, TypeOK, KeysInOrder, WindowInv, [Next]_vars
  PROVE  WindowInv'
<1> USE DEF driver, program, server
<1>0. DOMAIN back = Cells(screen)
  BY DEF TypeOK
(* Drawing leaves window and front buffer alone. *)
<1>1. CASE pc = "program" /\ pc' = pc
           /\ UNCHANGED <<screen, front, caret, window, events>>
  BY <1>1 DEF WindowInv, SizeComing, ExposeFollows, FrontIsShown, FrontIsBack, Settled, CaretAt
<1>2. CASE Show /\ UNCHANGED <<screen, back, events>>
  <2>1. window'.size = window.size
    BY <1>2, ShowType
  <2>2. SizeComing'
    BY <1>2, <2>1 DEF WindowInv, SizeComing
  <2>3. ExposeFollows'
    BY <1>2 DEF WindowInv, ExposeFollows
  <2> QED
    BY <1>2, <2>2, <2>3, ShowShows DEF WindowInv, FrontIsBack
<1>3. CASE ReadExpose
  <2> DEFINE shown == [c \in DOMAIN front |-> 0]
  <2>1. shown \in [Cells(screen) -> Ids] \cup {NoBuffer}
    BY DEF TypeOK, NoBuffer, Ids
  <2>2. Redraw(shown, caret) /\ caret' = caret /\ caret \in Place /\ Reading("Expose")
        /\ UNCHANGED <<screen, back, pc>>
    BY <1>3 DEF ReadExpose, TypeOK
  <2>3. window'.size = window.size
    BY <2>1, <2>2, RedrawType
  <2>4. SizeComing'
    BY <2>2, <2>3, ReadingSettles DEF WindowInv
  <2>5. ASSUME Settled' PROVE screen = window.size
    <3>1. /\ \A i \in 1..Len(events') : events'[i].type = "KeyPress"
          /\ screen' = screen
      BY <2>2, <2>5 DEF Settled
    <3> QED
      BY <2>3, <2>4, <3>1 DEF SizeComing, IsConfigure
  <2>6. \A c \in DOMAIN shown : ~(shown[c] # 0)
    OBVIOUS
  <2> HIDE DEF shown
  <2>7. ASSUME Settled' PROVE \A c \in DOMAIN front' : front'[c] # 0 =>
               /\ c \in DOMAIN window'.cells
               /\ window'.cells[c].glyph = front'[c]
               /\ window'.cells[c].half = 1
               /\ window'.cells[c].caret <=> CaretAt(c)'
    BY <2>1, <2>2, <2>5, <2>6, <2>7, RedrawShows
  <2>8. ~Absent(front') => front' = back'
    BY <2>1, <2>2, RedrawFront
  <2> QED
    BY <2>2, <2>4, <2>7, <2>8, ReadingKeepsOrder DEF WindowInv, FrontIsShown, FrontIsBack
<1>4. CASE ReadConfigureNotify
  <2>1. /\ Reading("ConfigureNotify")
        /\ UNCHANGED <<caret, pc, window>>
        /\ IF Head(events).size = screen
           THEN UNCHANGED <<screen, front, back>>
           ELSE screen' = Head(events).size /\ front' = NoBuffer
    BY <1>4 DEF ReadConfigureNotify
  <2>2. screen' = Head(events).size
    BY <2>1
  <2>3. /\ events \in Seq(Event) /\ events # <<>> /\ Head(events) = events[1]
        /\ Len(events) \in Nat \ {0}
        /\ Len(events') = Len(events) - 1
        /\ \A i \in 1..Len(events') : events'[i] = events[i + 1]
        /\ IsConfigure(events[1])
    BY <2>1, ReadingType DEF Reading, TypeOK, IsConfigure
  <2>4. (\A i \in 1..Len(events') : ~IsConfigure(events'[i])) => screen' = window'.size
    <3> HAVE \A i \in 1..Len(events') : ~IsConfigure(events'[i])
    <3>1. \A j \in (1 + 1)..Len(events) : ~IsConfigure(events[j])
      <4> TAKE j \in (1 + 1)..Len(events)
      <4>1. j - 1 \in 1..Len(events') /\ events'[j - 1] = events[j]
        BY <2>3
      <4> QED
        BY <4>1
    <3>2. 1 \in 1..Len(events)
      BY <2>3
    <3>3. events[1].size = window.size
      BY <2>3, <3>1, <3>2 DEF WindowInv, SizeComing
    <3> QED
      BY <2>1, <2>2, <2>3, <3>3
  <2>5. ASSUME NEW i \in 1..Len(events'), IsConfigure(events'[i]),
               \A j \in (i + 1)..Len(events') : ~IsConfigure(events'[j])
        PROVE  events'[i].size = window'.size
    <3>1. i + 1 \in 1..Len(events) /\ events'[i] = events[i + 1]
      BY <2>3
    <3>2. \A j \in ((i + 1) + 1)..Len(events) : ~IsConfigure(events[j])
      <4> TAKE j \in ((i + 1) + 1)..Len(events)
      <4>1. j - 1 \in (i + 1)..Len(events') /\ events'[j - 1] = events[j]
        BY <2>3
      <4> QED
        BY <2>5, <4>1
    <3> QED
      BY <2>1, <2>5, <3>1, <3>2 DEF WindowInv, SizeComing
  <2>6. SizeComing'
    BY <2>4, <2>5 DEF SizeComing
  <2>7. ExposeFollows'
    BY <2>1, ReadingKeepsOrder DEF WindowInv
  <2>8. ~Settled'
    <3>1. 1 + 1 \in 1..Len(events) /\ events[1 + 1].type = "Expose"
      BY <2>3 DEF WindowInv, ExposeFollows
    <3>2. 1 \in 1..Len(events') /\ events'[1].type = "Expose"
      BY <2>3, <3>1
    <3> QED
      BY <3>2 DEF Settled
  <2>9. FrontIsBack'
    <3>1. CASE Head(events).size = screen
      BY <2>1, <3>1 DEF WindowInv, FrontIsBack
    <3>2. CASE Head(events).size # screen
      BY <2>1, <3>2 DEF FrontIsBack, NoBuffer, Absent
    <3> QED
      BY <3>1, <3>2
  <2> QED
    BY <2>6, <2>7, <2>8, <2>9 DEF WindowInv, FrontIsShown
<1>5. CASE ReadKeyPress
  <2>1. /\ Reading("KeyPress")
        /\ UNCHANGED <<screen, front, back, caret, pc, window>>
    BY <1>5 DEF ReadKeyPress
  <2>2. SizeComing' /\ ExposeFollows'
    BY <2>1, ReadingSettles, ReadingKeepsOrder DEF WindowInv
  <2>3. Settled' => Settled
    <3> HAVE Settled'
    <3>1. /\ Len(events) \in Nat \ {0}
          /\ Len(events') = Len(events) - 1
          /\ \A i \in 1..Len(events') : events'[i] = events[i + 1]
          /\ events[1].type = "KeyPress"
      BY <2>1, ReadingType, HeadTailProperties DEF Reading, TypeOK
    <3> SUFFICES ASSUME NEW i \in 1..Len(events) PROVE events[i].type = "KeyPress"
      BY DEF Settled
    <3>2. CASE i = 1
      BY <3>1, <3>2
    <3>3. CASE i # 1
      <4>1. i - 1 \in 1..Len(events') /\ events'[i - 1] = events[i]
        BY <3>1, <3>3
      <4> QED
        BY <4>1 DEF Settled
    <3> QED
      BY <3>2, <3>3
  <2> QED
    BY <2>1, <2>2, <2>3 DEF WindowInv, FrontIsShown, FrontIsBack, CaretAt
<1>6. CASE Dequeue \/ Timeout
  <2>1. /\ UNCHANGED <<screen, front, back, caret, window, events>>
        /\ pc = "getchar"
    BY <1>6 DEF Dequeue, DequeueFrom, Timeout
  <2> QED
    BY <2>1 DEF WindowInv, SizeComing, ExposeFollows, FrontIsShown, FrontIsBack, Settled, CaretAt
<1>7. ASSUME NEW p \in Presses, Press(p) PROVE WindowInv'
  <2>1. /\ events' = Append(events, KeyPress(p))
        /\ UNCHANGED <<screen, front, back, caret, pc, window>>
    BY <1>7 DEF Press, Send
  <2>2. /\ Len(events') = Len(events) + 1
        /\ events'[Len(events) + 1] = KeyPress(p)
        /\ \A i \in 1..Len(events) : events'[i] = events[i]
        /\ Len(events) \in Nat
    BY <2>1, SendType, EventTypes, LenProperties DEF TypeOK
  <2>3. ~IsConfigure(KeyPress(p))
    BY DEF IsConfigure, KeyPress
  <2>4. SizeComing'
    BY <2>1, <2>2, <2>3 DEF WindowInv, SizeComing
  <2>5. ExposeFollows'
    BY <2>2, <2>3 DEF WindowInv, ExposeFollows
  <2>6. Settled' => Settled
    BY <2>2 DEF Settled
  <2> QED
    BY <2>1, <2>4, <2>5, <2>6 DEF WindowInv, FrontIsShown, FrontIsBack, CaretAt
<1>8. ASSUME NEW lost \in SUBSET DOMAIN window.cells, Obscure(lost) PROVE WindowInv'
  <2>1. /\ events' = Append(events, Expose)
        /\ UNCHANGED <<screen, front, back, caret, pc>>
    BY <1>8 DEF Obscure, Send
  <2>2. /\ Len(events') = Len(events) + 1
        /\ events'[Len(events) + 1] = Expose
        /\ \A i \in 1..Len(events) : events'[i] = events[i]
        /\ Len(events) \in Nat
    BY <2>1, SendType, EventTypes, LenProperties DEF TypeOK
  <2>3. ~IsConfigure(Expose) /\ window'.size = window.size
    BY <1>8 DEF IsConfigure, Expose, Obscure, TypeOK
  <2>4. SizeComing'
    BY <2>1, <2>2, <2>3 DEF WindowInv, SizeComing
  <2>5. ExposeFollows'
    BY <2>2, <2>3 DEF WindowInv, ExposeFollows
  <2>6. ~Settled'
    BY <2>2 DEF Settled, Expose
  <2> QED
    BY <2>1, <2>4, <2>5, <2>6 DEF WindowInv, FrontIsShown, FrontIsBack
<1>9. ASSUME NEW size \in Sizes, Resize(size) PROVE WindowInv'
  <2> DEFINE first == Append(events, ConfigureNotify(size))
  <2>1. /\ events' = Append(first, Expose)
        /\ UNCHANGED <<screen, front, back, caret, pc>>
        /\ window'.size = size
    BY <1>9 DEF Resize, Send
  <2>2. /\ first \in Seq(Event)
        /\ Len(first) = Len(events) + 1
        /\ first[Len(events) + 1] = ConfigureNotify(size)
        /\ \A i \in 1..Len(events) : first[i] = events[i]
        /\ Len(events) \in Nat
    BY SendType, EventTypes, LenProperties DEF TypeOK
  <2> HIDE DEF first
  <2>3. /\ Len(events') = Len(first) + 1
        /\ events'[Len(first) + 1] = Expose
        /\ \A i \in 1..Len(first) : events'[i] = first[i]
    <3> HIDE DEF Event
    <3> QED
      BY <2>1, <2>2, EventTypes, AppendProperties
  <2> DEFINE n == Len(events)
  <2>4. /\ n \in Nat
        /\ Len(events') = n + 2
        /\ events'[n + 1] = ConfigureNotify(size)
        /\ events'[n + 2] = Expose
        /\ \A i \in 1..n : events'[i] = events[i]
    BY <2>2, <2>3
  <2>5. ~IsConfigure(Expose) /\ IsConfigure(ConfigureNotify(size))
        /\ ConfigureNotify(size).size = size /\ Expose.type = "Expose"
    BY DEF IsConfigure, Expose, ConfigureNotify
  <2> HIDE DEF n
  <2>6. SizeComing'
    <3>1. n + 1 \in 1..Len(events') /\ IsConfigure(events'[n + 1])
      BY <2>4, <2>5
    <3>2. ASSUME NEW i \in 1..Len(events'), IsConfigure(events'[i]),
                 \A j \in (i + 1)..Len(events') : ~IsConfigure(events'[j])
          PROVE  events'[i].size = window'.size
      <4>1. CASE i = n + 1
        BY <2>1, <2>4, <2>5, <4>1
      <4>2. CASE i = n + 2
        BY <2>4, <2>5, <3>2, <4>2
      <4>3. CASE i < n + 1
        <5>1. n + 1 \in (i + 1)..Len(events')
          BY <2>4, <4>3
        <5> QED
          BY <3>1, <3>2, <5>1
      <4> QED
        BY <2>4, <4>1, <4>2, <4>3
    <3> QED
      BY <3>1, <3>2 DEF SizeComing
  <2>7. ExposeFollows'
    <3> SUFFICES ASSUME NEW i \in 1..Len(events'), IsConfigure(events'[i])
                 PROVE  i + 1 \in 1..Len(events') /\ events'[i + 1].type = "Expose"
      BY DEF ExposeFollows
    <3>1. CASE i = n + 1
      BY <2>4, <2>5, <3>1
    <3>2. CASE i = n + 2
      BY <2>4, <2>5, <3>2
    <3>3. CASE i < n + 1
      <4>1. i \in 1..n /\ events'[i] = events[i]
        BY <2>4, <3>3
      <4>2. i + 1 \in 1..n /\ events[i + 1].type = "Expose"
        BY <4>1 DEF WindowInv, ExposeFollows, n
      <4> QED
        BY <2>4, <4>2
    <3> QED
      BY <2>4, <3>1, <3>2, <3>3
  <2>8. ~Settled'
    BY <2>4, <2>5 DEF Settled
  <2> QED
    BY <2>1, <2>6, <2>7, <2>8 DEF WindowInv, FrontIsShown, FrontIsBack
<1>10. CASE UNCHANGED vars
  BY <1>10 DEF vars, WindowInv, SizeComing, ExposeFollows, FrontIsShown, FrontIsBack, Settled, CaretAt
<1>11. CASE Draw \/ AskForKey
  BY <1>1, <1>2, <1>11 DEF Draw, AskForKey, WriteChar, ClearArea, SetCursor, Sync, GetChar
<1> QED
  BY <1>3, <1>4, <1>5, <1>6, <1>7, <1>8, <1>9, <1>10, <1>11 DEF Next, ReadEvent, Serve

(* Where no glyph is wide, the window shows what the program drew, whatever *)
(* the server loses, resizes and sends meanwhile, and no caret stays behind.*)
THEOREM WindowFaithful ==
  ASSUME Wide = {} PROVE Spec => []WindowShowsBuffer
<1> DEFINE Inv == TypeOK /\ KeysInOrder /\ WindowInv
<1>1. Init => Inv
  BY TypeInit, WindowInit DEF Init, KeysInOrder
<1>2. Inv /\ [Next]_vars => Inv'
  BY TypeStep, OrderStep, WindowStep
<1>3. Inv => WindowShowsBuffer
  <2> SUFFICES ASSUME Inv, pc = "getchar", Settled, ~Absent(front),
                      NEW c \in DOMAIN back, back[c] # 0
               PROVE  window.cells[c] = [glyph |-> back[c], half |-> 1, caret |-> CaretAt(c)]
    BY DEF WindowShowsBuffer
  <2>1. front = back
    BY DEF WindowInv, FrontIsBack
  <2>2. /\ c \in DOMAIN window.cells
        /\ window.cells[c].glyph = back[c]
        /\ window.cells[c].half = 1
        /\ window.cells[c].caret <=> CaretAt(c)
    BY <2>1 DEF WindowInv, FrontIsShown
  <2>3. window.cells[c] \in CellState
    BY <2>2 DEF TypeOK
  <2>4. window.cells[c].caret = CaretAt(c)
    BY <2>2, <2>3 DEF CellState, CaretAt
  <2> QED
    BY <2>2, <2>3, <2>4 DEF CellState
<1> QED
  BY <1>1, <1>2, <1>3, PTL DEF Spec

=============================================================================
