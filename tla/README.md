# A verification project for WordGrinder

WordGrinder is a word processor for terminals. Its application logic is Lua
(`src/src/lua`); a C layer (`src/src/c`) draws the screen, reads keys, converts
UTF-8 and edits the bytes of styled words. This directory holds TLA+ models of
the logic, TLC configurations and TLAPS proofs. Line numbers below refer to
files of the repository; `lua/` stands for `src/src/lua/`, `c/` for `src/src/c/`.

- [1. The system](#1-the-system)
- [2. Modules and the code they model](#2-modules-and-the-code-they-model)
- [3. What the runs check](#3-what-the-runs-check)
- [4. What is proved](#4-what-is-proved)
- [5. Where the code does something else than it says](#5-where-the-code-does-something-else-than-it-says)
- [6. What is not modelled](#6-what-is-not-modelled)
- [7. Plan](#7-plan)

## 1. The system

One process, one thread, one user. The program waits for a key in the event
loop (`lua/main.lua:196`), runs the command bound to it to its end and waits
again. There are no locks and no messages; what makes the program hard to get
right is the shared mutable state that dozens of commands change in sequence,
commands that are built from other commands, operating system calls that fail
in the middle, events that are fired after the fact, and caches that nobody
tells about a change.

| Part | Code | State | Operations |
|---|---|---|---|
| Document set | `lua/document.lua:40-320` | the documents in order and by name, the current one; `changed`, `justchanged`, `name` | add, rename, move, delete, select, touch, clean |
| Document and paragraphs | `lua/document.lua` | paragraphs of words, the cursor `cp`, `cw`, `co`, the mark `mp`, `mw`, `mo`, `sticky_selection` | wrap, number, get marks |
| Words | `c/word.c` | none: strings with style codes in, strings out | insert, delete, apply style, next and previous character |
| Commands | `lua/navigate.lua` | the document, the clipboard | move, select, type, split, join, delete, copy, paste, style, find, replace |
| Undo | `lua/addons/undo.lua` | two stacks of snapshots in the document | checkpoint, undo, redo |
| Files | `lua/fileio.lua` | the file system | save, load, upgrade |
| Session | `lua/main.lua`, `lua/fileio.lua`, `lua/navigate.lua:630-670` | memory against disk | start, load, save, new, quit |
| Autosave, templates | `lua/addons/autosave.lua`, `templates.lua` | settings in the document set | write a copy when idle; save and start from templates |
| Document manager, scrapbook, spelling | `lua/addons/docsetman.lua`, `scrapbook.lua`, `spillchocker.lua` | documents of the set with special names, dictionary caches | |
| Import, export | `lua/import*`, `lua/export*` | none | a walk over the document with callbacks per format |
| Events | `lua/events.lua` | listeners, a batch | add, remove, fire |
| Menus | `lua/menu.lua` | menus, accelerators | look up a key, rebuild |
| Layout, drawing | `lua/document.lua:525-1000`, `lua/redraw.lua` | cached lines of every paragraph | wrap, justify, draw |
| Drivers | `c/screen.c`, `c/arch` | | keys and cells of each platform |

How they meet. A key runs a list of functions: `Checkpoint` (undo) before
`TypeWhileSelected` before a command. Commands replace immutable paragraph
objects, so undo can share them between snapshots and caches in a paragraph die
with it. Every command that changes text calls `DocumentSet:touch()`, which sets
two flags: `changed`, for the question asked before work is thrown away, and
`justchanged`, for which the event loop fires `Event.Changed`, on which words
are counted and paragraphs numbered. Saving writes the whole set through a
temporary file. The document set, the current document and the settings are
global variables that loading and resetting replace.

What makes each part correct:

- *Undo*: undo and redo walk along one line of history whatever is done in
  between, and the memory they use has a bound.
- *Saving*: whatever fails and wherever the program stops, the file system
  should hold a whole version and the user be told the truth. Where the code
  falls short of that, and only there, is what the properties say.
- *Session*: nobody loses work without having been asked.
- *Document set*: the list and the index by name agree; the selected document
  is one of them.
- *Words*: editing is exact to the character and its style, and stays inside
  the buffers.
- *Commands*: the document is a text; each command replaces what it says and
  nothing else; cursor and mark stay usable for the next command.

`PROJECT.json` lists under "hazards" where, in this code, such things could go
wrong unnoticed by the tests of `src/tests`, which run one sequence of commands
each and compare the text at the end.

## 2. Modules and the code they model

| Module | Models | Abstract specification | Instance |
|---|---|---|---|
| `UndoHistory` | `lua/addons/undo.lua` | `Timeline` | `MCUndoHistory` |
| `SaveFile` | `SaveToStream` in `lua/fileio.lua` | `AtomicFile` | `MCSaveFile` |
| `DocumentSession` | memory, disk and flags across `fileio`, `navigate`, `main`, autosave, templates | | `MCDocumentSession` |
| `DocumentSet` | `DocumentSetClass` and the commands on it | `DocumentList` | `MCDocumentSet` |
| `StyledWord`, `WordEdits` | `c/word.c` | a sequence of styled characters (`Styled`, in `WordEdits`) | `MCWordEdits` |
| `DocumentEdit` | the editing commands of `lua/navigate.lua`, extends `StyledWord` | `TextBuffer` | `MCDocumentEdit` |
| `FindReplace` | find, find next, replace then find, over `DocumentEdit` | (the text looked for, in the properties) | `MCFindReplace` |
| `LineWrap` | `wrap` and `wrapBoth` in `lua/document.lua` | | `MCLineMoves` |
| `LineMoves` | line up and line down in `lua/navigate.lua`, extends `LineWrap` | | `MCLineMoves` |
| `X11Screen` | `c/screen.c` and the X11 driver | (the window and the keys, in the properties) | `MCX11Screen` |

The `*Proofs` modules hold the theorems. Operators marked `fault:` in a comment
are what a definition would be with a plausible bug in the code; `PROJECT.json`
pairs them with the property that finds them.

**UndoHistory.** Snapshots hold paragraph objects by identity, as
`shallowequals` compares them. `CheckpointedCommand` is a key bound with
`Checkpoint` first, whose command may do nothing; the paragraph style menu and
movement are bound without it, so they change the document behind the history's
back; restyling makes new objects of all selected paragraphs. `STACKSIZE` is 500 in the code: `undostack[STACKSIZE] = nil` clears one slot.
`Timeline` says what a user expects: a line of states and a position in it.

**SaveFile.** One action per library call of `SaveToStream`, each of which may
fail, and `Stop` between any two. A file holds a version, `whole` or not. The
result of `fp:write` is overwritten by that of `fp:close` (line 151), and `fclose`
reports only what goes wrong in itself: a write can fail and the close succeed, so
`CloseSucceeds` may leave part of a version. `acked` is what the last save reported
as a success had written, `start` what a save found, `silent` whether the last save
failed to write and its close did not say so; no guard reads them. `AtomicFile` says
what a caller has to expect of a save, as one step: the new version under the name
(`Succeeds`), part of it beside the old file (`FailsEarly`), all of it beside the old
file or beside no file (`FailsLate`), or, where a failed write is not noticed, part of
it in either place (`GoesWrong`).

**DocumentSession.** A document set is its text and its autosave setting; a
save is one step, with the outcomes of `AtomicFile`: `SaveSucceeds`, `SaveFails` (the
old file stays, or its name is lost), and `SavesPart`, a file cut short whose save is
reported as a success, which loads as another set or not at all. Each command
is one step from `wait` to the `top` of the event loop, where `FireChanged`
looks at `justchanged`. `touched` and `excuse` are history variables that no
guard reads.

**DocumentSet.** The record `This` carries the fields from one method to the
next, because commands call several. `docname` outlives a document's stay in the
set, as the field `name` of the Lua object does. `TryVariant` is one turn of the
loop that looks for a free name for an imported document; `Suffixed` gives the
only variant it ever tries.

**StyledWord.** A character is one element, however many bytes it has; a style
code is one element, the set of attributes that are on. `Copy` is the function of
the same name in `word.c`: it drops codes and writes them again where a
character's style differs from what was written last. Everything else is
built from it, as in the code.

**DocumentEdit.** A command is an operator from a document to a document, and
commands that call commands are operators that apply operators; an action is a
key or menu entry. What the model does not decide it leaves open: the style hint
is any style; a move by lines or pages goes to any place `GetOffsetFromWidth` can
stop at. Paragraph styles are left out. A code bug (section 5) can leave the
cursor, or a sticky mark, behind the end of its word. `word.c` then reads past
the string, so there the model stops: no command is enabled with such a cursor,
and none that uses such a mark. That is why its configurations do not check
deadlock.

**FindReplace.** `Look` is one turn of the loop in `FindNext`: one word of the
document, and from a match on as many words as the text looked for has. The
other keys (`OtherKeys`) are `DocumentEdit`'s moves and Toggle Mark on the same document,
so that a search begins at every place a move or a replacement can leave the cursor
in, with a mark or without. Before any search there is no replacement either, and
replacing only deletes what is selected (`ReplaceBeforeFind`). A pattern's character is
one element of the word; `LastOffset` leaves out the style codes that `%c*` skips. The pattern that is built
for a word has a position capture before its `^`, which therefore holds
wherever the matcher tries: `MatchAt` is what this amounts to.

**LineWrap, LineMoves.** One step puts a word into a line, or adds one space to a
justified line, as the loops do, so that these have to be shown to end. A word is
its width and whether it ends in a full stop. `Paragraph.wrapwidth`, by which a
paragraph would know that it is wrapped already, is set nowhere, so every call
wraps anew; `LineMoves` follows the calls (`getpos`, then `GotoXPosition` in the
paragraph the cursor has moved to) and reads `lines` and `xs` as the last of them
left them. Justification loses a column with every time it goes around a line,
when the space goes after the last word: lines of the `BOTH` style need not reach
the margin.

**X11Screen.** The program draws between two calls of `getchar`; inside, events
are read one by one. The X server is external: it may take the picture of a cell
away (`Obscure`), or the whole and the size (`Resize`), at any time, and sends
events. A cell of the window has a glyph and may have pixels of the caret, which
the driver draws over neighbouring cells and never reads back: what is in
`front` is its belief about the window. `owed` is a history of the keys read.

## 3. What the runs check

| Run | Question | Bounds and why they are enough |
|---|---|---|
| `undo` | Do the stacks implement one line of history; is `STACKSIZE` a bound for both; are equal neighbours and stale redos impossible? | Four slots (500 in the code): a full stack, a trimmed one and both stacks in use occur. Seven paragraph objects, interchangeable, two in a document: full stacks of documents that share some are reached. |
| `save` | After every failure and stop: does the name hold what was last reported as saved, in which ways alone is the last whole version lost, and what has a caller to expect? | Three versions: saved, being saved, left behind. |
| `session` | Is the changed flag set whenever a set is on no file (unless a save failed or was cut short, or undo was used); is every touch announced? | Three texts, two files, one level of undo. |
| `docset` | Do list and index agree, is the selected document in the list, are names unique, do commands keep all others? | Three names, one the variant of another; three documents; one object outside. |
| `word` | Is every operation on every word that can arise exact, and do the buffers suffice? | Three characters, two attributes: a style can differ from both neighbours'. |
| `edit` | Can cursor and mark be used after every sequence of commands; is deleting, and cutting and pasting, exact; do commands do to the flat text what `TextBuffer` says? | Three symbols of text, one attribute: a split word with a character on either side, two paragraphs, a selection across them. A clipboard of one symbol, a letter or a paragraph break; the larger ones are exercised by `CutAndPaste`, on every selection. |
| `screen` | Does the window show what was drawn, do keys and changes of size arrive? | Two cells side by side or one above the other, so that the caret covers both and a resize changes both dimensions; a queue of two and an event of three keys that overflows it; two acts of the server, one of which can undo what the other did. |
| `find` | Does a search find the nearest occurrence and end; is replacing exact? | All documents of three symbols and some of four in which the text occurs twice, or only around the end; one with style codes; texts of one and of two words, a replacement that ends in a space. |
| `lines` | Is every word in one line that fits and is full; do up and down go one line; do they end? | Paragraphs of up to three words that fit, fill or exceed the line, in three styles, above and below a paragraph of one word or of five justified ones; two widths. |

The `edit` run has one constraint, `CopyIsPlain` in `MCDocumentEdit`: while there
is a copy on the clipboard no style is on, in the document or on the clipboard, and
a mark is a loose one. So styles, sticky marks and a kept copy are each there with
every command, but not together; codes that switch nothing on, which splitting
leaves behind, are there with a copy too. Symmetry is used for interchangeable
values only, and never with liveness.

Three more runs expect a violation: section 5. Type invariants are proved where
there are proofs (section 4) and not run, but for the screen's, which says that
the buffers have the size of the screen and is a property of its own.

**Fairness.** Safety needs none. Liveness is stated under weak fairness of the
code that runs once a key has been read: `Look` in `FindReplace` (the search loop
is not interrupted), the steps of a key in `LineMoves`, and in `X11Screen` the
program's next call of `getchar` and, inside it, taking a key from the queue or an
event from the connection. Nothing obliges the user to press keys, the server to
send events, or a timeout to come first.

## 4. What is proved

For every value of the constants, under their assumptions.

- `UndoHistoryProofs`: `TypeCorrect`, `BoundedStacks`, `CursorSafety`,
  `HistorySafety`, `RedoForgotten` and `Refinement` (the stacks implement
  `Timeline`). The inductive invariant adds to the properties that the two
  stacks *together* are shorter than `STACKSIZE`, which is what makes the
  limit in `Checkpoint` enough for `Undo` and `Redo`, and that what can be
  redone differs from the document, which is what makes keeping the redo stack
  in `Checkpoint` harmless.
- `SavingProofs`, of `SaveFile`: `FilesCorrect`, `NameHoldsAcked`, `NoLossInSave`,
  `Refinement` (to `AtomicFile`), with nothing assumed of the C library but that each
  call may fail. The invariant (`Progress`) says for each point of `SaveToStream` what
  the two files hold: `filename.new` part of the version until the close, and then
  exactly what the write did; `filename` what it held before, or after the remove
  perhaps nothing. From it each way a save ends is one outcome of `AtomicFile`.
- `SavingProofs`, of `DocumentSession`: `SessionCorrect`, `UnsavedExplained`, `TouchesCounted`.
  The invariant relates flags, file and history variables wherever the event
  loop is; it needs that a set in memory is on some file, has its flag, or has
  an excuse, and that a count that is behind has `justchanged` set.
- `DocumentSetProofs`: `TypeCorrect`, `IndexAgrees`, `NoneTwice`,
  `SelectionOpen`, `OthersKept`, `Refinement` (to `DocumentList`). Each method of
  `DocumentSetClass` is shown to keep one predicate of a set's fields: list and
  index find the same documents, no document is listed twice or nameless.
  Methods that select rely on a list that is not empty, methods that look for a
  position on unique names. The invariant adds that the names in the file are
  distinct and its position is one of them, which is what loading needs. From
  the same lemmas each command is a step on the list of names.

- `WordEditsProofs`: `InsertCorrect`, `DeleteCorrect`, `SplitCorrect`,
  `ApplyCorrect`, `BuffersCorrect`, `StepsCorrect`: what the run checks on words
  of three characters, for words of any length with any codes in them. Reading a
  word from the front, a code gives the style of what follows (`Read`); the heart
  is that `Copy` keeps, step by step, what has been read of the source in
  agreement with what a reader of the destination would see (`Follows`): the
  styled characters of the destination are those copied, no code in it is
  without effect, and its length exceeds what was copied by one code at most for
  each change of the source. The operations are copies of ranges glued together
  (`CopyBefore`, `CopyAll`, `CopyAfter`). The induction over the length uses sets
  of numbers and the least element of such a set (`NatMin`, `Induction`,
  `Recursion`), since a theorem with an operator as parameter cannot be used.
- `X11ScreenProofs`: `TypeCorrect`, `KeysDelivered`, `ResizeAnnounced`, and
  `WindowFaithful` where no character is wide (`Wide = {}`), for screens and queues
  of any size. The invariant says that the last ConfigureNotify that waits, or else
  the driver, has the size of the window, that an Expose follows each of them, and
  that the front buffer is right about every cell it knows whenever no event but
  keys waits.
- `LineMovesProofs`: `WordsInLines`, `WordsFit` and `NoLineTooShort` for `LineWrap`
  by itself, and, for documents of any paragraphs at any width, `OneLine`,
  `AtColumn` and, with the lines of `LineMoves`, `LinesForKeys`. The invariant of
  wrapping (`IInv`) is about all lines, the one begun included, and gives the width
  of it as what its words need; it says nothing of which words a line has, which
  the moves depend on: a key wraps the paragraph, counts lines, and wraps again
  to find its target. `FInv` adds it: filling is greedy, so the line and the
  offset of a word are a function of the paragraph and the width (`Spots`, a
  recursive function), and justifying moves words to the right in their lines only,
  the first word of a line never. Then `Sent` says in which line the place is that a
  key looks for from (by `LineOf`, proved to find the line that has the word), and
  `Landing` that both properties hold where it ends. `MovesInductive` has a lemma
  for each action, and `MovesWrap` that the moves see nothing but `LineWrap`'s steps.
- `DocumentEditProofs`: `CursorWordCorrect`, `LooseMarkCorrect`, `DeleteCorrect` and
  `CutAndPasteCorrect`, that the cursor is at a word, no paragraph is empty, a mark
  that typing would delete from is in the text, deleting a selection takes it away
  exactly, and pasting what was cut puts the text back, in documents of any size. The invariant (`WordInv`) adds that the
  paragraphs of the clipboard have words too, that all words are words, and that the
  cursor's offset is one, of whatever word (`Good`); where it is in the cursor's word
  (`Within`) a mark made there is in the text, since `RewindPastStyleBytes` goes back
  and forth over one character. What is needed of the words comes from
  `WordEditsProofs`, by `INSTANCE`. `Delete` is the hard case: between its two splits
  the second may be behind the last word of its paragraph, and leave a paragraph
  without words, but only at offset 1 and not in the first word, where nothing is
  read, and that paragraph is always among those it deletes (`SplitsRemoved`).
  For `DeleteCorrect` a document is taken apart at a place: paragraphs, a paragraph of
  words, the word, words, paragraphs (`ZipOf`), and so is its flat text (`ZipPlace`: what
  is ahead of the place, and the rest). Each command `Delete` is made of is a step on
  these parts (`SplitParagraphAt`, `Removed`, `RejoinedAt`, `RespacedAt`), and what the
  steps do to the text of a word is in the last part of `WordEditsProofs`. The start
  is looked for in what the first split left of the document (`StartFound`); where
  both ends are in one word, that a word without useless codes keeps its offsets when
  its end is cut off (`TextKept`) is what `DeleteIsExact` asks `Canonical` for.
  For `CutAndPasteCorrect` a copy is the same document without its end (`LeftOf` the
  last word) from which the beginning is taken (`RightOf` the first): its text and the
  text ahead of the selection are the text ahead of the end (`CopiedIs`, with a case
  for ends in one word, one paragraph or two). `PastedIs` says that the clipboard goes
  in between what is ahead of the cursor and the rest: the first paragraph is put
  between the halves of a word and joined to the left one, the others behind it, and
  what was pasted last is joined to the right one.

- `FindReplaceProofs`: `ReplaceCorrect`, `FoundCorrect` and `NothingMissed`, for
  documents, texts and replacements of any size. `SearchInv` adds to `WordInv` that a search is at a word.
  For `ReplaceCorrect` the words of the replacement are typed one by one
  (`TypedWords`): splitting a word puts a space in the flat text whether or not the
  text ahead of the cursor has a style (`SpacedExactly`), and inserting puts in the
  word (`TypedExactly`), so by induction the text typed is the words joined with
  spaces; before that `Delete` has taken the selection away exactly, as for
  `DeleteCorrect`. For `FoundCorrect` a pattern is shown to match text and no codes:
  what lies between two offsets has as many characters as the set of its places
  that are no codes has members (`RangeIs`), so what the pattern compares is the
  text (`MatchText`). The words found are successive words of the document
  (`ChainFound`, by induction over the words looked for), and from one to the next
  there is one space or one end of a paragraph (`HeadOn`), which is how
  `ReachesLast` counts the gaps. Of the characters the proof needs that a space and
  the end of a paragraph are none (`SearchAssumption`).
  For `NothingMissed` the invariant (`SearchedInv`) is that the search began at the
  cursor and that the text begins at no place it has been over, counted from the
  cursor around the end of the text (`Past`, `Covered`). That a step keeps it is
  `FoundHere`: a place in what is left of the word at which the text begins is one
  the pattern matches, or a code before it with the same text ahead, and the words
  behind it follow (`OccursMatched` and `OccursChain`, the converse of what
  `FoundCorrect` needs), so the search stops there or earlier. From one word to the
  next there is one place, the gap, where no text begins (`NotAtEnd`). The rest is
  arithmetic around the end of the text (`RoundFound`, `RoundStep`, `RoundDone`).

Only model-checked: that `DocumentEdit` implements `TextBuffer`, and what `X11Screen`
says of wide characters. Liveness stays with TLC, since the prover
has no fairness.

## 5. Where the code does something else than it says

Three of these have a run, whose counterexample shows the sequence of keys.

- `edit_delete`: deleting a selection inside a word that was made by splitting
  another deletes nothing (`lua/navigate.lua:918`).
- `session_failed_save`: after a save that failed, a set that is on no file
  counts as saved (`lua/fileio.lua:190`).
- `save_failed_write`: a write that fails while the close succeeds has the old file
  removed and replaced by part of the new version, where "we know the new file has
  been written correctly" (`lua/fileio.lua:151` and `156`).

The modules state these as well, with "Not so" in the comment; naming the
property in a configuration of the instance shows the counterexample:

- `PasteAtCursor` (`DocumentEdit`, with `MaxClip = 1`): pasting several paragraphs
  leaves part of the text after the cursor before them (`lua/navigate.lua:884`).
- `CursorStaysInWord` (`DocumentEdit`): deleting the character after a style code
  leaves the cursor behind the end of the word, where typing has no effect
  (`lua/navigate.lua:323`).
- `CopyTakesSelection` (`DocumentEdit`): as `edit_delete`, for copying
  (`lua/navigate.lua:833`).
- `StickyMarkInDocument` (`DocumentEdit`): edits before a mark set with
  Toggle Mark do not move it, and it can be outside the document
  (`lua/navigate.lua:714`).
- `ImportEnds` (`DocumentSet`, with `FairSpec` and no symmetry): importing when a
  name and its variant `-1` are taken never ends (`lua/import.lua:111`).
- `FoundIsWholeWords` (`FindReplace`): a text of several words matches though its
  last word is in the middle of a word, against "to make them match whole words"
  (`lua/navigate.lua:984`).
- `NotFoundIsNowhere` (`FindReplace`): the loop is to go on "until we reach the
  starting point again" (`lua/navigate.lua:1055`), but ends at the word it began
  in, and what lies in it before the cursor is not found.
- `FoundIsLoose` (`FindReplace`): a search that follows a sticky mark leaves what
  it finds selected as by Toggle Mark, and typing does not replace it
  (`lua/navigate.lua:1098`).
- `UpGoesUp` (`LineMoves`): a first word that is wider than the line has an empty
  line before it, and moving up into that leads back (`lua/document.lua:596`).
- `OneCaret` (`X11Screen`, with `Wide = {2}` and the `MCWide` sizes and places):
  pixels of a caret that has moved stay on the right half of a wide character,
  which is never drawn by itself (`c/arch/unix/x11/x11.c:193`).
- `AskedAfterUndo`, `CountIsCurrent` (`DocumentSession`): undo and redo change
  the text without touching the set, so the changed flag, the word count and
  the numbering are those of the text before (`lua/addons/undo.lua:58`).
- `OnlyMissingFilesPrime` (`DocumentSession`): a file on the command line that
  exists but cannot be loaded names the empty set too, and the next save
  replaces it (`lua/main.lua:170`).
- `AutosaveHasName` (`DocumentSession`): saving as a template takes the name of
  a set with autosave (`lua/addons/autosave.lua:20`).

## 6. What is not modelled

`PROJECT.json` lists every part with its reason. In short:

- Vendored code and tables (`c/emu`, `c/HPDF`, `c/libdoc`, `c/rtf`, `c/images`,
  `lua/lunamark`) are nine tenths of the lines under `src/` and no part of the
  program's own logic. They are called for single conversions and are out of
  scope.
- Export and import formats, drawing, forms, the status bar and the wrappers in
  `c/utils.c` and `c/filesystem.c` are formatting or plain input and output.
- Of the drivers, only the X11 one is here. The curses and Windows console drivers
  leave the picture to a library; the GDI driver has the same two buffers as the
  X11 one, under a window procedure.
- Right-aligned and centred paragraphs run the loop of `wrap` and then shift
  each line; tables, pages and paragraph numbers are left out.
- Margin modes, menus, the spelling checker's caches, settings, the export walk
  and the file format have logic a model could question; the hazards list says
  what the question is, and no module answers it.
- A method of the document set is one step, and so is putting a snapshot back into
  the document: what a listener, or an error, in the middle of one would see is not
  modelled.
- Power failures that reorder what reaches the disk are not considered.

## 7. Plan

Done, in the order of what a user would lose: undo, saving, the session, the
document set, words, editing, finding, lines, the screen.

What would come next: the user dictionary's cache against the document it came
from; what a key means after documents are renamed, moved and deleted; a document
set written and read back; the export walk; a composition of `DocumentSession` and
`UndoHistory`; and a proof that `DocumentEdit` refines `TextBuffer`.
