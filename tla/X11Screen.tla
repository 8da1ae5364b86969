------------------------------ MODULE X11Screen ------------------------------
(***************************************************************************)
(* The X11 driver (src/src/c/arch/unix/x11/x11.c) under the calls of       *)
(* src/src/c/screen.c.  The program draws into a back buffer; redraw()     *)
(* copies to the window the cells in which it differs from the front       *)
(* buffer, and draws the caret, which covers parts of several cells.  What *)
(* the window shows is thus a picture the driver never reads back, and     *)
(* which the X server changes by itself: parts are lost when the window is *)
(* obscured, all of it when its size changes.  Keys come as X events, each *)
(* of which may stand for several keys; they wait in queued[4].            *)
(*                                                                         *)
(* A glyph is a character with its attributes; 0 means "don't draw".  A    *)
(* buffer that is NULL is a function with no cells.  Sizes are in          *)
(* characters.  The X server is external: its actions say what it may do.  *)
(***************************************************************************)
EXTENDS Integers, Sequences, FiniteSets

CONSTANTS Glyphs,      \* glyph ids, none of them 0
          Wide,        \* those that are two cells wide
          Sizes,       \* window sizes, <<width, height>>
          Keys,        \* what getchar can return, but for a timeout
          Presses,     \* the sequences of keys one KeyPress can stand for
          ZeroWidth,   \* keys that are characters of no width
          Places,      \* where the program puts the cursor and clears to
          QueueSize,   \* sizeof(queued)/sizeof(*queued), 4 in the code
          MaxEvents    \* bound on how often the server acts

RESIZE == "KEY_RESIZE"

ASSUME ScreenAssumption ==
    /\ 0 \notin Glyphs
    /\ Wide \subseteq Glyphs
    /\ Sizes \subseteq (Nat \ {0}) \X (Nat \ {0})
    /\ RESIZE \in Keys
    /\ Presses \subseteq Seq(Keys)
    /\ ZeroWidth \subseteq Keys \ {RESIZE}
    /\ Places \subseteq Int \X Int
    /\ QueueSize \in Nat \ {0}
    /\ MaxEvents \in Nat

VARIABLES screen,      \* screenwidth and screenheight of the driver
          front,       \* frontbuffer: what the driver believes is shown
          back,        \* backbuffer: what the program has drawn
          cursor,      \* cursorx, cursory, cursorshown of screen.c
          caret,       \* the same of x11.c, where the caret was drawn last
          queued,      \* keys waiting in the driver
          pc,          \* "program", or "getchar" while dpy_getchar runs
          timed,       \* whether that call was given a timeout
          known,       \* the size the program last asked for
          window,      \* X server: the size of the window and its cells
          events,      \* X server: events not read yet
          sent,        \* X server: how often it acted, for the bound
          owed         \* history: keys of the events read, not delivered yet

driver == <<front, back, caret, queued>>
program == <<cursor, pc, timed, known>>
server == <<window, events, sent>>
vars == <<screen, front, back, cursor, caret, queued, pc, timed, known,
          window, events, sent, owed>>

Cells(size) == (0..(size[1] - 1)) \X (0..(size[2] - 1))
Calloc(size) == [c \in Cells(size) |-> 0]
NoBuffer == [c \in {} |-> 0]
Absent(buffer) == DOMAIN buffer = {}
LeftOf(c) == <<c[1] - 1, c[2]>>

-----------------------------------------------------------------------------
(* The window                                                              *)

\* A cell shows the left (1) or only half of a glyph, or the right half (2)
\* of a wide one, and perhaps pixels of a caret.
CellState == [glyph : Glyphs \cup {0}, half : {1, 2}, caret : BOOLEAN]
Background == [glyph |-> 0, half |-> 1, caret |-> FALSE]

\* The cells a caret at (x, y) has pixels in: the bar is drawn one pixel to
\* the left of the cell, its four corners above and below.
CaretCells(x, y) ==
    {<<IF x = 0 THEN 0 ELSE x - 1, y>>} \cup ({x - 1, x} \X {y - 1, y + 1})

\* dpy_setcursor: forget what is shown in the nine cells around the old caret.
Around(c, at) == /\ c[1] \in (at.x - 1)..(at.x + 1)
                 /\ c[2] \in (at.y - 1)..(at.y + 1)

\* fault: forgets only the cell of the caret
ForgetOneCell(buffer) ==
    [c \in DOMAIN buffer |->
        IF c = <<caret.x, caret.y>> THEN 0 ELSE buffer[c]]

ForgetCaret(buffer) ==
    [c \in DOMAIN buffer |-> IF Around(c, caret) THEN 0 ELSE buffer[c]]

\* redraw: copy the cells that differ, from left to right, then the caret.
Rendered(c, shown) ==
    /\ c \in DOMAIN shown
    /\ shown[c] # back[c]
    /\ back[c] # 0
Overlaid(c, shown) ==
    /\ Rendered(LeftOf(c), shown)
    /\ back[LeftOf(c)] \in Wide
Painted(shown, at) ==
    [c \in DOMAIN window.cells |->
        [glyph |-> IF Rendered(c, shown) THEN back[c]
                   ELSE IF Overlaid(c, shown) THEN back[LeftOf(c)]
                   ELSE window.cells[c].glyph,
         half  |-> IF Rendered(c, shown) THEN 1
                   ELSE IF Overlaid(c, shown) THEN 2
                   ELSE window.cells[c].half,
         caret |-> \/ at.shown /\ c \in CaretCells(at.x, at.y)
                   \/ /\ window.cells[c].caret
                      /\ ~Rendered(c, shown)
                      /\ ~Overlaid(c, shown)]]
Redraw(shown, at) ==
    IF Absent(shown) \/ Absent(back)
    THEN front' = shown /\ UNCHANGED window
    ELSE front' = back /\ window' = [window EXCEPT !.cells = Painted(shown, at)]

-----------------------------------------------------------------------------
(* The program: screen.c                                                   *)

\* sput, which clips.
Put(buffer, c, g) == [d \in DOMAIN buffer |-> IF d = c THEN g ELSE buffer[d]]

WriteChar(c, g) ==
    /\ pc = "program"
    /\ back' = IF g \in Wide THEN Put(Put(back, c, g), <<c[1] + 1, c[2]>>, 0)
                             ELSE Put(back, c, g)
    /\ UNCHANGED <<screen, front, caret, queued, program, server, owed>>

\* With g a space in the current attributes.
ClearArea(x1, y1, x2, y2, g) ==
    /\ pc = "program"
    /\ back' = [c \in DOMAIN back |->
                  IF c \in (x1..x2) \X (y1..y2) THEN g ELSE back[c]]
    /\ UNCHANGED <<screen, front, caret, queued, program, server, owed>>

\* gotoxy, showcursor, hidecursor.
SetCursor(x, y, shown) ==
    /\ pc = "program"
    /\ cursor' = [x |-> x, y |-> y, shown |-> shown]
    /\ UNCHANGED <<screen, driver, pc, timed, known, server, owed>>

\* dpy_setcursor followed by dpy_sync.
Allocated(buffer) == IF Absent(buffer) THEN Calloc(screen) ELSE buffer
Show == /\ Redraw(Allocated(ForgetCaret(front)), cursor)
        /\ caret' = cursor

Sync == /\ pc = "program"
        /\ Show
        /\ UNCHANGED <<screen, back, queued, program, events, sent, owed>>

GetChar(t) ==
    /\ pc = "program"
    /\ Show
    /\ pc' = "getchar"
    /\ timed' = t
    /\ UNCHANGED <<screen, back, queued, cursor, known, events, sent, owed>>

-----------------------------------------------------------------------------
(* dpy_getchar                                                             *)

\* push_key for each key in turn: what does not fit is dropped.
Pushed(keys) == LET all == queued \o keys
                IN  IF Len(all) > QueueSize THEN SubSeq(all, 1, QueueSize) ELSE all
Fitting(keys) ==
    IF Len(keys) > QueueSize THEN SubSeq(keys, 1, QueueSize) ELSE keys

\* fault: events are read while any are pending
ReadingAhead(type) ==
    /\ pc = "getchar"
    /\ events # <<>>
    /\ Head(events).type = type
    /\ events' = Tail(events)

\* An event is read only while no key waits.
Reading(type) ==
    /\ pc = "getchar"
    /\ queued = <<>>
    /\ events # <<>>
    /\ Head(events).type = type
    /\ events' = Tail(events)

ReadExpose ==
    /\ Reading("Expose")
    /\ Redraw([c \in DOMAIN front |-> 0], caret)
    /\ UNCHANGED <<screen, back, caret, queued, program, sent, owed>>

\* fault: keeps the front buffer
ReadConfigureKeepingFront ==
    /\ Reading("ConfigureNotify")
    /\ IF Head(events).size = screen
       THEN UNCHANGED <<screen, back, queued, owed>>
       ELSE /\ screen' = Head(events).size
            /\ back' = Calloc(screen')
            /\ queued' = Pushed(<<RESIZE>>)
            /\ owed' = owed \o <<RESIZE>>
    /\ UNCHANGED <<front, caret, program, window, sent>>

ReadConfigureNotify ==
    /\ Reading("ConfigureNotify")
    /\ IF Head(events).size = screen
       THEN UNCHANGED <<screen, front, back, queued, owed>>
       ELSE /\ screen' = Head(events).size
            /\ front' = NoBuffer
            /\ back' = Calloc(screen')
            /\ queued' = Pushed(<<RESIZE>>)
            /\ owed' = owed \o <<RESIZE>>
    /\ UNCHANGED <<caret, program, window, sent>>

ReadKeyPress ==
    /\ Reading("KeyPress")
    /\ queued' = Pushed(Head(events).keys)
    /\ owed' = owed \o Fitting(Head(events).keys)
    /\ UNCHANGED <<screen, front, back, caret, program, window, sent>>

\* screen.c's getchar drops a character of no width and waits again.
DequeueFrom(least) ==
    /\ pc = "getchar"
    /\ Len(queued) >= least
    /\ queued' = Tail(queued)
    /\ owed' = Tail(owed)
    /\ pc' = IF Head(queued) \in ZeroWidth THEN "getchar" ELSE "program"
    /\ known' = IF Head(queued) = RESIZE THEN screen ELSE known
    /\ UNCHANGED <<screen, front, back, caret, cursor, timed, server>>
\* fault: waits for one key more than it has
DequeueLater == DequeueFrom(2)
Dequeue == DequeueFrom(1)

\* poll() waits no longer; -VK_TIMEOUT is not a key of the queue.
Timeout ==
    /\ pc = "getchar"
    /\ timed
    /\ queued = <<>>
    /\ events = <<>>
    /\ pc' = "program"
    /\ UNCHANGED <<screen, driver, cursor, timed, known, server, owed>>

-----------------------------------------------------------------------------
(* The X server                                                            *)

Send(queue) == /\ sent < MaxEvents
               /\ events' = queue
               /\ sent' = sent + 1

KeyPress(p) == [type |-> "KeyPress", keys |-> p]
ConfigureNotify(size) == [type |-> "ConfigureNotify", size |-> size]
Expose == [type |-> "Expose"]

Press(p) == /\ Send(Append(events, KeyPress(p)))
            /\ UNCHANGED <<screen, driver, program, window, owed>>

\* Another window covers some cells and goes away again.
Obscure(lost) ==
    /\ window' = [window EXCEPT !.cells =
                    [c \in DOMAIN @ |-> IF c \in lost THEN Background ELSE @[c]]]
    /\ Send(Append(events, Expose))
    /\ UNCHANGED <<screen, driver, program, owed>>

\* A window without bit gravity loses its contents when it is resized.
Resize(size) ==
    /\ window' = [size |-> size, cells |-> [c \in Cells(size) |-> Background]]
    /\ Send(Append(Append(events, ConfigureNotify(size)), Expose))
    /\ UNCHANGED <<screen, driver, program, owed>>

-----------------------------------------------------------------------------
AllCells == UNION {Cells(size) : size \in Sizes}

Init ==
    /\ screen = <<0, 0>>
    /\ front = NoBuffer
    /\ back = NoBuffer
    /\ cursor = [x |-> 0, y |-> 0, shown |-> TRUE]
    /\ caret = [x |-> 0, y |-> 0, shown |-> TRUE]
    /\ queued = <<>>
    /\ pc = "program"
    /\ timed = FALSE
    /\ known = <<0, 0>>
    /\ \E size \in Sizes :
         /\ window = [size |-> size, cells |-> [c \in Cells(size) |-> Background]]
         /\ events = <<ConfigureNotify(size), Expose>>
    /\ sent = 0
    /\ owed = <<>>

Draw ==
    \/ \E c \in AllCells, g \in Glyphs : WriteChar(c, g)
    \/ \E c \in Places, g \in Glyphs \ Wide : ClearArea(0, 0, c[1], c[2], g)
    \/ \E c \in Places, shown \in BOOLEAN : SetCursor(c[1], c[2], shown)
    \/ Sync

AskForKey == \E t \in BOOLEAN : GetChar(t)

ReadEvent == ReadExpose \/ ReadConfigureNotify \/ ReadKeyPress

Serve ==
    \/ \E p \in Presses : Press(p)
    \/ \E lost \in SUBSET DOMAIN window.cells : Obscure(lost)
    \/ \E size \in Sizes : Resize(size)

Next == Draw \/ AskForKey \/ ReadEvent \/ Dequeue \/ Timeout \/ Serve

\* The event loop always asks for another key, and dpy_getchar runs until it
\* has one.  Nothing makes the user type, or a timeout come first.
Fairness == WF_vars(AskForKey) /\ WF_vars(ReadEvent) /\ WF_vars(Dequeue)

Spec == Init /\ [][Next]_vars
FairSpec == Spec /\ Fairness

-----------------------------------------------------------------------------
(* Properties                                                              *)

Place == [x : Int, y : Int, shown : BOOLEAN]
Event == [type : {"KeyPress"}, keys : Presses]
         \cup [type : {"ConfigureNotify"}, size : Sizes]
         \cup [type : {"Expose"}]

\* The types; both buffers have the size of the screen or are not there.
TypeOK ==
    /\ screen \in Sizes \cup {<<0, 0>>}
    /\ front \in [Cells(screen) -> Glyphs \cup {0}] \cup {NoBuffer}
    /\ back \in [Cells(screen) -> Glyphs \cup {0}]
    /\ cursor \in Place /\ caret \in Place
    /\ queued \in Seq(Keys) /\ Len(queued) <= QueueSize
    /\ pc \in {"program", "getchar"}
    /\ timed \in BOOLEAN
    /\ known \in Sizes \cup {<<0, 0>>}
    /\ window.size \in Sizes
    /\ window = [size |-> window.size, cells |-> window.cells]
    /\ window.cells \in [Cells(window.size) -> CellState]
    /\ events \in Seq(Event)
    /\ sent \in Nat
    /\ owed \in Seq(Keys)

\* The event queue holds nothing that the driver must draw for.
Settled == \A i \in 1..Len(events) : events[i].type = "KeyPress"

\* What the program drew is what the user sees: while the program waits for a
\* key and no lost part of the window is waiting to be drawn again, every cell
\* the program has drawn shows its glyph, and pixels of a caret exactly where
\* the caret is (redraw, dpy_setcursor, the Expose and ConfigureNotify cases
\* of dpy_getchar).
CaretAt(c) == caret.shown /\ c \in CaretCells(caret.x, caret.y)
WindowShowsBuffer ==
    pc = "getchar" /\ Settled /\ ~Absent(front)
      => \A c \in DOMAIN back : back[c] # 0
           => window.cells[c] = [glyph |-> back[c], half |-> 1, caret |-> CaretAt(c)]

\* Not so: "Draw a caret where the cursor should be" (x11.c:252), and nowhere
\* else.  On the right half of a wide character, which is never drawn by itself,
\* pixels of a caret that has moved stay.
OneCaret ==
    pc = "getchar" /\ Settled /\ ~Absent(front)
      => \A c \in DOMAIN back :
           (\/ back[c] # 0
            \/ LeftOf(c) \in DOMAIN back /\ back[LeftOf(c)] \in Wide)
           /\ window.cells[c].caret => CaretAt(c)

\* No key is lost or overtaken, but those of one event beyond the size of the
\* queue: events are read only when the queue is empty (dpy_getchar, push_key).
KeysInOrder == queued = owed

\* The screen never changes its size, and the buffers are never cleared,
\* without the program having been told or going to be: KEY_RESIZE cannot be
\* dropped.
ResizeIsTold ==
    known # screen => \E i \in 1..Len(queued) : queued[i] = RESIZE

\* Every event is read in the end and its keys are delivered, whatever the
\* server sends meanwhile and however often the call times out.
EventsAreAnswered ==
    (events # <<>> \/ queued # <<>>) ~> (events = <<>> /\ queued = <<>>)

=============================================================================
