# Linecook in TLA+

Linecook is a line editor: a C++ library that decodes keys, edits one line with
undo, history, search, completion and yank, draws it on a terminal, and, in its
`TTYCook` layer, shares a history file between all the shells of a user.  The
modules in this directory model its logic, TLC checks them on small instances,
and TLAPS proves the main invariants for every value of the constants.

## Inventory

| component | code | state | operations | what is hard |
|---|---|---|---|---|
| history file | `ttycook.cpp` 872-1336, 1572-1584 | the files `filename`, `filename.1`, ..., the lock file; per shell: descriptor, bytes read, line count, rotate bit, buffered continuation, lines in memory | open, check, log, push, break, flush, rotate, close | shells interleave at system calls; renames under open descriptors; lock time-outs; a kill between two renames |
| line save buffers | `linesave.cpp` | an array of nodes (text, header with links and index), `off`, `max`, `idx`, `cnt`, `first` | make, find, find_lt, find_gteq, resize, sort, shrink | links and indices after a removal, gaps in the index order |
| undo | `linecook.cpp` 814-890, `dispatch.cpp` 94-178, 628-652 | a line save buffer, the line, `last_action` | push before an edit, pop, redo, revert | what is pushed depends on the action before; redo followed by an edit |
| history navigation | `history.cpp` | the history buffer and its position, the edit buffer, saved mode and action | older, newer, top, bottom, search, last word, edits | the position after a miss; edits of lines by index while the history is compressed |
| input decoding | `lineio.cpp` 116-290, `keycook.cpp` | input bytes, pending keys, put-back | next_input_char, eat_multichar, eat_input | prefixes of several sequences, put-back, an escape that may begin a key |
| loop, output, polling | `linecook.cpp` 465-651, `lineio.cpp` 385-405, 688-724, `ttycook.cpp` 1597-1704 | output buffer, error, the TTY state bits | get_line, fill_input, output_flush, poll_wait | short reads and writes, EAGAIN, time-outs, repeat counts |
| cursor and screen | `lineio.cpp` 296-500, `linecook.cpp` 282-460 | cursor position, refresh position, erase length, the terminal | move_cursor, cursor_output, erase, refresh | the position the code believes in against the one the terminal has; wide characters at the margin |
| editing and modes | `dispatch.cpp`, `linecook.h` 1204-1298 | line, cursor, mode bits, repeat state | one case for each action | modes that depend on other modes, counts at the ends of the line |
| completion | `complete.cpp` | the completion buffer, argument offsets | expand, next, previous, accept | quotes and escapes in the split, prefix of all matches |
| show window | `linecook.cpp` show_* | rows, page position | up, down, page, top, bottom | zero rows, page count at the ends |
| yank, marks, colours | `linecook.cpp`, `prompt.cpp` | yank buffer and position; marks; hash table | add, pop; set, goto; lookup | rings and tables at their limits |
| prompts, key tables, terminal modes, file completion | `prompt.cpp`, `keytable.c`, `keycook.cpp`, `ttycook.cpp` | strings, tables, termios | formatting, binding, raw and cooked mode, directory listings | mostly I/O and text |
| UTF, widths, Windows console, glob | `kewb_utf.cpp`, `xwcwidth9.cpp`, `console_vt.cpp`, `glob_cvt.h` | none | conversions | third-party, generated or another platform |

The application calls `lc_tty_get_line`; that runs the idle work of the history
file (`init_get_line`), then the loop of `State::get_line`, which decodes keys,
dispatches each action on the line, its undo, history and yank buffers, and
writes to the output buffer that `poll_wait` drains.  A finished line goes to
`lc_tty_log_history`, which appends it to the history buffer in memory and to
the file.


## Plan

The order is that of what would hurt most: lines lost by several shells, then
lines lost by the editor, then the screen, the input and the completion.

| step | modules | abstract specification | state |
|---|---|---|---|
| 1 | `HistFile`, `HistFileMC`, `HistFileProofs`, `HistStoreProofs`, `HistOrderProofs` | `HistStore`: a logged line stays in the files, once | done |
| 2 | `LineSave`, `Undo`, `UndoMC`, `UndoProofs` | `UndoStack`: the lines before and the lines undone | done |
| 3 | `HistEdit` (navigation and edits of history lines), `HistEditMC`, `HistEditProofs`, on `LineSave`; `HistSearch`, `HistSearchMC`, `HistSearchProofs`, which compose `HistEdit` and `Undo` with the search | `HistView`: each line is shown again as it was left | done |
| 4 | `Terminal`, `Screen`, `Edit`, `EditMC`, `EditProofs` | the terminal shows the line, and nothing else | done |
| 5 | `Keys`, `KeyLoop`, `KeyLoopMC` | what the key table says of the keys that were typed (`meant`) | done |
| 6 | `ShowWindow`, `Complete`, `CompleteMC`, `CompleteProofs` | | done |
| 7 | `LineSaveBuf`: links and indices in resize and shrink, against the sequences of `LineSave` | `LineSave` | to do |
| 8 | marks, colour table, prompt buffers, terminal modes | | to do |
| proofs | `HistFile`, `Undo`, `HistEdit`, `HistSearch` and `Complete`, and the three refinements; the line, the cursor and the yank buffer of `Edit` | | done |
| | what `Edit` says of the terminal, and `KeyLoop` | | to do |

One run answers one question; there are few, and each has the largest bounds
that finish in a minute or two.

## HistFile: the shared history file

**Correspondence.**  A shell is a process.  `pc[s]` is the point of its
operation between two system calls; the operations are entered by the calls of
the application (`Start` for `lc_tty_open_history`, `LogHistory`,
`PushHistory`, `BreakHistory`, `FlushHistory`, `RotateHistory`, `Release`) and
by the idle work of `init_get_line` (`IdleTick`), and every other action is one
system call with the code up to the next one:

| actions | code |
|---|---|
| `CheckStat`, `CheckOld`, `CheckRead`, `CheckReopen` | `check_history`: `fstat` and open of the name, open of `filename.1`, the read to the end, open of the new file |
| `Write`, `WriteStat` | `log_hist`: `lc_add_history` and the append, the `fstat` after it |
| `RotStat`, `RotLock`, `RotCheck`, `RotScan`, `RotShift`, `RotCur`, `RotUnlock`, `RotQuit`, `RotFail` | `rotate_history`: `stat`, lock, `stat`, the search for a free name, each rename, the unlock, the exits |
| `OpenLock`, `OpenFile`, `OpenLoad`, `OpenUnlock` | `open_history`: lock, open or create, each rotated file, the unlock |
| `Crash`, `RemoveStaleLock` | a kill anywhere; the user who removes the lock that stays |

A file is an inode, `files[i]`, with its lines; `dir` is the names, so that a
descriptor goes on meaning its inode while another shell renames it.  `fsize`,
`line_cnt`, the rotate bit, the buffered continuation and the lines in memory
are the fields of `TTYHistory` and the history buffer.

**Abstraction.**  A line is its author and a number, or blank.  A write puts
all of a line or nothing (short writes are not modelled).  The sixty seconds
between two checks of the name are the choice `late`.  `fstat` and the open of
the name in `check_history` are one step, because the condition of the first
goes on holding; the search for a free name is one step because it is made
under the lock.  With `open` in `Faults` an open of `filename` or of a rotated
file may fail; that `fstat` of an open descriptor fails is left out.
`RemoveStaleLock` acts only when no live shell holds the lock.

**Runs.**

| run | bounds | shows |
|---|---|---|
| `HistFile_crash` | 2 shells at once, 2 lines, 3 starts, 2 rotations, rotation after one line, names up to `filename.4`; writes and renames fail, shells are killed | `MutualExclusion`; `StoreSpec`: no line that reached a file leaves the files, none gets there twice, and a line for which `log_hist` returned 0 is there; `LoadedOnce`, `LoadedInOrder`: a line is in a shell's memory once and an author's lines in order, whatever renames happen between two system calls; `TypeOK` |
| `HistFile_live` | 2 lines, 2 starts, one rotation; everything but writes fails, locks time out | `OperationEnds` under weak fairness of each shell's steps; `FullFileOpen`: a shell in an automatic rotation has a full file open, which says nothing of the file that has the name by then |
| `HistFile_foreignlock` | finding | `MutualExclusion` fails when an open times out inside a rotation: "failed:" unlinks a lock that it does not hold |
| `HistFile_early` | finding; as `crash`, with 2 starts, and nothing fails | `RotatesOwnFile` fails: another shell renames the file between the decision to rotate and the first `stat` of `rotate_history`, both sizes are then those of the new file, and the new file is renamed although it is not full |

Two shells are enough for every race that the lock is for, since each rotation
or open is against one other; the foreign unlock needs a shell that leaves, so
that run starts three operations.  Two rotations reach `filename.2`, which
makes the shift loop run; two lines are enough for one to be loaded twice, or before
an earlier one, out of different files; one line fills a file (`RotateAt = 1`), which makes
automatic rotations as frequent as possible.  A failed write is counted as a line,
so `FullFileOpen` is checked where none fails.  `MaxLogs`, `MaxRotations`,
`MaxStarts`, `MaxPushes` bound how often things begin, never how they go on.

**Fairness.**  `FairSpec` has weak fairness of `Step(s)`, the system calls
inside an operation, and of nothing else: inside an operation the code never
waits for the application, and the only loop on another process,
`acquire_history_lck`, gives up after a hundred tries (`GiveUp`).  Nothing
makes a shell start an operation, makes the user remove a lock, or stops kills.

**Known deviations** that the model also shows, with no run of their own:
`log_hist` sets `fsize` past lines that other shells wrote since the last read,
also with the operations one after the other, and this shell never loads them
(`ttycook.cpp:1265`); a shell that starts between
the rename and the creation of the new file, where the lock is free, loads
nothing of the rotated files; `close_history` inside a rotation drops the
continuation that `lc_tty_push_history` buffered.

**Proved**, for any shells, lines, rotations and names: every safety property
of the runs above.

* `TypeCorrect` (`HistFileProofs`): `TypeOK` always.  It is inductive with
  `PointInv`: the descriptor is open where it is read or written, the rename
  loop is at a name that exists, a line about to be written is not blank, and
  the file that `open_history` opened exists.  One lemma for each variable
  (`DirStep`, `LocStep`, `HistStep`, ...) says that no step takes it out of its
  type.
* `LockExcludes` (`HistFileProofs`): `MutualExclusion` always, when neither
  `timeout` nor `open` is in `Faults` (`NoOpenFailure`); kills, failed writes
  and failed renames are allowed.  The invariant is that a shell past the
  creation of the lock file implies `lck`, and that `rotUndo`, from where the
  foreign lock is unlinked, is not reached.  The assumption is exactly what
  `HistFile_foreignlock` shows to be needed.
* `StoreRefined` (`HistStoreProofs`): `StoreSpec`, under `NoOpenFailure`.  The
  argument has two parts.  `NamesInv`: only the holder of the lock changes a
  name, the name it renames to is free, the names go from the youngest file to
  the oldest, and so every file keeps one; that is what makes the shift loop of
  `rotate_history` lose nothing (`NamesStep`, which rests on `LockInv`).
  `LineInv`: a line that is being logged is its author's latest, so that its
  write adds it and no other step changes the lines in the files
  (`FiledStep`), and a line that was written is in a file when `log_hist`
  reports it.
* `BeginsFull` (`HistStoreProofs`): `FullFileOpen`, when no write fails;
  locks, opens and renames may, and shells may be killed.  It holds from the
  decision up to the rename.  The invariant ties
  the three numbers of a shell, `line_cnt <= fsize <=` the length of the file,
  to the rotate bit (`CountOK`), and says that the bit is reset when a rotation
  begins and that the full file stays open in it (`PassOK`).  Which file has
  the name is another matter, where `HistFile_early` has the deviation.  A failed write is counted as a line by `log_hist`, which is why
  the assumption is needed.
* `LoadsInOrder` and `LoadsOnce` (`HistOrderProofs`): `LoadedInOrder` and
  `LoadedOnce`, under `NoOpenFailure`.  The invariant is about the positions
  that a shell is still to read (`Unread`): the files are in the order of their
  authors' lines (`FileOrder`), what is unread is beyond what the memory has of
  its author (`Ahead`), an author has no line in a file younger than the one it
  has open (`OwnOK`), and when `check_history` or `rotate_history` leaves a
  file, the name is that of a younger one (`KnowsOK`).  `UnreadStep` and
  `UnreadKept` say that no step of the shell or of another makes a line unread
  again.

## Undo: the undo buffer and who pushes to it

**Correspondence.**  `undo` is `LineSaveBuf undo`: its nodes, `off`, `idx` and
`cnt` (`max` is the end of the nodes).  An offset is the position of the node
that ends there, so 0 is no node.  `last` is `last_action` by the class that
`dispatch` tests, `mode` whether typing inserts.  `PushUndo`, `UndoLine`,
`RedoLine`, `Revert` and `Finish` are `push_undo`, `pop_undo`, `push_redo`,
`revert_undo` with the part of `dispatch` that calls them, and `reset_state`;
`Pushed` is the push of `dispatch` before an action that does not type.
`Type`, `Edit`, `Move` and `Bell` stand for all the actions of the editor with
the same options.  `LineSave` has `make`, `equals`, `find_lt`, `find_gteq`.

**Abstraction.**  A line is a value; `Stored` is what `filter_copy` makes of
it.  An edit may make any line of any other.  Recalling a history line and the
search, which push too, are in `HistSearch`.  `MaxIndex` bounds `undo.cnt`: no
line is typed or edited beyond it, and `Finish` resets it as the code does.

**The abstract specification** `UndoStack` is what a user expects: the line is
between the lines before it and the lines undone.  The refinement mapping reads
both off the buffer (`Below`, `Above`).  Four habits break the promise, and
`Habits` says which the user has: editing a line that was redone, undoing below
the first line from there, typing a line back to the saved one below it, and a
key with no binding after typing.

| run | bounds | shows |
|---|---|---|
| `Undo_stack` | 4 lines, 4 saved lines, no habits | `StackSpec`; `UndoesEdit`, `RedoesUndone`; `WellFormed`: the buffer is in order and the walk at a place from where it can go on; `WalkForgetsNone` |

Four lines let an undone line, the line before it, the line after it and the
empty line all differ; four saved lines let a walk go up and down twice before
a push cuts it.

**Known deviations** with no run: `push_redo` leaves `off` at the end of the
redone line, where the next push finds the line and records nothing, so an edit
right after a redo is not undone (`linecook.cpp:885`, habit `redoEdit`, with which
`UndoesEdit` fails); an unbound key after typing keeps the text from being pushed,
and the undo then clears it for good (`dispatch.cpp:97`, habit `bell`, with which
`RedoesUndone` fails); after a redo of the last saved line and an undo below the first, redo finds nothing (`linecook.cpp:879`, habit `redoUndo`);
text that is typed back to the saved line below it is not pushed, so the walk
ends there (habit `retype`); the zero after a double-width character comes back
from undo as a space (`linesave.cpp:109`); the first undo after typing shows no
change, since the line has just been pushed (`dispatch.cpp:129`).

**Proved** (`UndoProofs`), for any lines, any `Stored` and all habits, from
`UndoAssumption` alone:

* `UndoTypeCorrect` and `BufferWellFormed`, by the invariant `Inv`, which is
  `TypeOK /\ WellFormed` and is inductive as it stands: a push cuts at `off`
  and adds one node above all indices (`CutAndMake`, `PushKeeps`), a walk ends
  at a saved index or at 0 (`WalkGood`, `BottomGood`).
* `WalkingForgetsNone`: from `Placed`, at the end of the walk nothing is above
  `off`, so the push that `pop_undo` makes there cuts nothing.

With `StoresAsIs`, that is `Stored` is the identity (the run has it so, and
`filter_copy` is the identity on a line without zeros):

* `UndoBringsBack` (`UndoesEdit`), when no redone line is edited: `EditInv`
  adds to `Inv` where `off` can be for a walk at a saved line (`Place`), and that
  an edit has its line saved right below the walk (`SavedBelow`).
* `RedoBringsBack` (`RedoesUndone`), for a user without the habits (`Careful`):
  `WalkInv` says that the walk is at its end or at the saved line that is shown
  (`Settled`), that no two neighbours are the same line (`Distinct`, without
  which an edit after an undo could find its line at `off` and push nothing),
  and what typing, an edit and an undo leave behind. `UndoMoves`, `RedoMoves`
  and `RevertMoves` say where each key takes the walk.
* `StackRefined`, under `Careful`: `Undo` implements
  `UndoStack`. `Shows(u, l, p, f)` is the refinement mapping as a relation:
  the line `l` stands at the end or at a saved line, with the texts `p` below
  and `f` above it. `PushedShows` gives it for the state each action begins
  with, `UndoShown`, `RedoShown`, `RevertShown`, `TypeShown` and `EditShown`
  match each action with a step of the stack, and the `Texts...` lemmas say
  how stretches of saved lines grow, shrink and meet.

The two assumptions are needed: the run fails with any one of the habits, and
each is a deviation listed above.

## HistEdit: the walk over the history and its edits

**Correspondence.**  `hist` is the history buffer, `at` and `off` are
`hist.idx` and `hist.off`, and `edit` is the buffer of edits, nodes in the
order of their making, with the index of the history line they are over (0 is
the new line).  `Move(i, o)` is `history_move`: `Find` of the line,
`save_hist_edit` (`SaveEdit`) of the one that is left, `display_history_line`
(`Show`) of the one that is gone to.  The walks differ in the `i` and `o` that
they pass: the keys of the editor with and without the window of the history
(`Pages` is any page it may show).  `Jump` shows a line without saving the one
it leaves, as `display_history_index` and the marks do.  `HistArg` is
`get_hist_arg`; `HistoryLine` is the interface that reads a line of the history
and moves `hist.off` with it; `PushHistory` is the call of the idle work, in
the middle of an edit.

**Abstraction.**  The history is compressed before it is used, so an index is a
position.  The words that the argument keys insert are any text.  A `Find` from
offset 0 reads before the buffer, and the line it shows is then any line.

**The abstract specification** `HistView` has a view of each line, which an edit
changes and a walk shows again, and which a finished line sets back to the log.
Its `view` is the mapping of `Show` over the buffer of edits, with the line on
the screen at `at`.  Four habits break it: emptying a line whose edit is saved,
or filling one that was saved empty (`emptied`); a move that stays at the new
line (`stay`); a jump from an unsaved edit (`jump`); the arguments of older
lines (`lastArg`).

| run | bounds | shows |
|---|---|---|
| `HistEdit_walk` | the empty line and 2 others, 3 lines of history, no habits | `ViewSpec`; `OneEditEach`: no line has two edits; `Anchored`: with a line in the history `find` always has a node to start from; `TypeOK` |

Three lines have one in the middle and both ends, so edits can be made, removed
and replaced in every order of the buffer; two texts are enough to tell an
edit, the line it is over and a neighbour's edit apart, and are interchangeable
(`SYMMETRY`).  `MaxHist` bounds only how many lines are logged.

**Known deviations** with no run: the length of an edit that was emptied, and
so removed, is written into the node before it, another line's edit
(`history.cpp:302`, habit `emptied`), and an edit that was saved empty keeps its
node when the line is again as in the history, and is shown the next time
(`history.cpp:285`, `linesave.cpp:523`, the same habit); a walk over the arguments past the oldest line
leaves `hist.off` 0, and the next move reads before the buffer
(`history.cpp:358`); a move that stays at the new line clears what was typed
there and saves it nowhere (`history.cpp:505`); a jump drops the unsaved edit
of the line it leaves; the argument keys move `hist.idx` under the line on the
screen, which is then saved as an edit of another entry.

**Proved** (`HistEditProofs`), for any lines and any length of the history:

* `HistEditTypeCorrect` and `EditsAreUnique`, with all habits, by an invariant
  that is their conjunction.  `MakeEdit`, `RetextEdit` and `RemoveEdit` say what
  each change of the buffer does to what `Scan` finds, `SaveKeeps` puts them
  together for `save_hist_edit`, and `WalkMoves` reduces the five walks to
  `Move`.  Uniqueness needs `Scan` to find an edit whenever there is one; then
  `SaveEdit` never makes a second.
* `AlwaysAnchored`, when `lastArg` is not among the habits.
* `WalkKeepsViews`: `HistEdit` implements `HistView`, when there are no habits
  and lines are stored as they are.  Every step is an `Edit`, `Walk`, `Log` or
  `Finish` of `HistView` or a stutter (`ViewStep`); the invariants above make
  `Move` show the one edit of the line that it goes to.

## HistSearch: the search, in the middle of undo and the walk

**Correspondence.**  The module instantiates `Undo` and `HistEdit` over the same
variables and adds `search` (the term, the direction, the mode and the action
that were saved).  `Editing`, `Walking` and `PushHistory` are steps of those
modules, with the push of `dispatch` before a walk.  The rest are the search
keys:

| actions | code |
|---|---|
| `StartSearch`, `TypeTerm` | the key that clears the line and types the slash, after a push (`Begun`); the keys that enter the term |
| `FinishTerm`, `SearchNext`, `SearchAgain`, `HistComplete` | the ways into `do_search`: return, `n` and `N`, the search key pressed twice, the completion from the history |
| `DoSearch` | `do_search`: a new term starts at an end of the history, an old one goes on from the line, lines that repeat the one at `hist.off` are skipped; it ends in `ShowSearch` or `CancelSearch` |
| `CancelTerm` | escape, cancel, and the backspace over the slash |

`sought` is a history variable: the line on the new line when the first search
took it away.

**Abstraction.**  Which lines contain a term is the constant `Matches`.  The
loop of `do_search` over lines that repeat each other is its result: the nearest
line that differs, or the end that it reaches.  An inline search shows any line
that is not empty.  A term of which the slash was erased, too, counts as the slash.  Undo, argument keys and jumps while a term is entered are
left out.  A search key while a term is entered is modelled as `SearchAgain`
only: that the inline search key then begins an inline search is left out.

The guards leave out, as habits: a search from an edited line of the history
(`fromEdit`), one that ends beyond the last line (`beyond`), the search key
while the term of a search from the new line is entered (`again`); and a search
right after a redo, which pushes nothing (`redoEdit` of `Undo`).

| run | bounds | shows |
|---|---|---|
| `HistSearch_term` | the empty line and 2 others, one term that both contain, 2 lines of history, 2 saved lines, 1 edit, no habits | `TermsNotPushed`: no term is among the saved lines; `MissBringsBack`: a search that fails or is cancelled brings back the line that it took away; `UndoesSearch`: so does an undo after one that found a line; `TypeOK`: the line is a term exactly in search mode |

Two lines of history that both match, and the same two on the new line, let a
search find, skip, go on, run out and turn round; two saved lines let one lie
below the line that a search pushes.  The terms that match one line only are the
lines themselves, which `HistComplete` searches for.  The two lines are
interchangeable.  `VIEW Seen` leaves out the variables that no step and no
property reads: the line before the last action, of the last action all but
whether it typed or searched on, and the saved mode outside of search mode.
`MaxIndex`, `MaxHist`, `MaxEdits` bound the pushes, the logged lines and the
edits.

**Proved** (`HistSearchProofs`), for any lines, terms and matches and a history
of any length, when `again` is not among the habits:

* `SearchTypeCorrect` and `NoTermPushed`, by `TypeInv`: the line is a term in
  search mode and one of the lines outside of it, and the saved lines are lines.
  A search key pushes the line that it finds on the new line; `again` is the one
  case in which that is a term. `SearchesEnd` reduces the four ways into
  `do_search` to its two ends: a line of the history (`FoundFrom`) or
  `cancel_search` (`Missed`); `SearchEnds` has the arithmetic of the loop.
* `MissReturns` and `UndoReturnsSought`, when lines are stored as they are, by
  `SoughtInv`: the line that a search took away is saved right below the walk,
  until the search is cancelled or a line is edited.

What the buffer and the walk do is not proved again: the module instantiates
`UndoProofs` and `HistEditProofs` with the constants that `HistSearch` gives
`Undo` and `HistEdit` (`L` and `W`), and once more for the cleared line with
which `cancel_search` pushes (`C` and `Q`); the `...Same` lemmas say that the
operations are the same.

**Known deviations** with no run: the search key pressed while the term of a
search from the new line is entered pushes that term to the undo buffer
(`dispatch.cpp:115`, habit `again`, with which `TermsNotPushed` fails); a search from an edited line of the history
pushes nothing, and a miss then brings back the line below (`dispatch.cpp:128`);
a search that ends beyond the last line leaves `hist.off` 0
(`history.cpp:121`), where the next move reads before the buffer; searches that
go on missing walk down the saved lines, one for each miss; the search key
pressed twice drops the term that was typed and searches for the last one; the
inline action stays after its search and applies to the next completion from
the history.

## Terminal, Screen, Edit: the line and what is seen of it

**Correspondence.**  `Terminal` is external: a window of `Cols` columns with the
cursor that stays in the last column until the next character wraps, the moves,
erasures and line feeds that the `ANSI_` sequences of `linecook.h` ask for, and
characters of two columns of which a half that is overwritten takes the other
with it.  `Screen` has what `State` keeps of it in a record `d` with the terminal
`d.t`, which no operator reads to decide anything, as the code cannot:

| operators | code |
|---|---|
| `MoveCursor`, `MoveCursorBack`, `MoveCursorFwd`, `CursorOutput`, `EraseHere`, `CursorEraseEol` | the functions of these names in `lineio.cpp` |
| `ShowRightPrompt`, `ClearRightPrompt`, `OutputRightPrompt` | the right prompt, with the name of the mode, the bell in its place and the line that covers it (`prompt.cpp`) |
| `RefreshLine`, `RefreshVisual`, `OutputShow`, `ShowClear`, `ErasePrompt` | redrawing, the show window and its removal (`linecook.cpp`) |
| `Waiting` | what `do_get_line` draws when it has no more input: padding before a wide character at the margin, the window, the right prompt, the cursor in command mode |

`Edit` has one action for each kind of key of `dispatch`, which sets the line,
the modes and the yank buffer, and lists the drawing commands in the order of
the code; `Step` performs them.  `Wait` is the idle end of `do_get_line`, which
comes after each key or after several that were read at once.  `Finish`,
`Interrupt`, `Suspend` and `ClearLine` leave the line and `Resume` and
`NextLine` come back to it.

**Abstraction.**  The prompt is one column of a row of its own.  Digits, brackets and case are not
in the line: what depends on them may go anywhere.  Only the last row of the
terminal's window is modelled as a place to begin, where each new row scrolls.
Undo and history bring back any line of `Restored`.  Left out are the wide
character that is typed in replace mode at the end of a line
(`dispatch.cpp:190`), also with the habit `replaceEnd`, and that `reset_yank`
gives back a large yank buffer (`linecook.cpp:1331`), which `Finish` would call.

**Runs.**

| run | bounds | shows |
|---|---|---|
| `Edit_screen` | 3 columns, lines up to 4, a right prompt, a window of one row | `ScreenTrue`: the terminal shows the prompt, the line and nothing that was there before, and its cursor is where `cursor_pos` says; `CleanRow`: the line that is returned leaves a row with nothing on it; `WindowBelow`: while the loop waits the window is whole and right below the line, with nothing left where it was; `RightTrue`: the right prompt is on the last row and names the mode |
| `Edit_words` | 8 columns, lines up to 4 of a letter, a break and a wide character, which stay in the row of the prompt | `AtBoundary`: no action leaves the cursor inside a wide character, or half of one in the line; `OnCharacter`: in command mode it ends on a character; `ScreenTrue` with characters of two columns, which are drawn over, moved and erased, and of which no half stays |
| `Edit_yank` | lines up to 3, 2 texts in the buffer | `PasteRestores`: a paste where the text was killed brings the line back; `PastedApart`: a chain of pops leaves only the text it ends at; `TypeOK` |

With three columns a line of four has two rows with the prompt, and typing,
deleting and restoring cross the margin both ways, also to a row that is exactly
full.  Wide characters are in lines of one row only: at the margin the code goes
wrong (below), and the padding that it puts before one there is in no run.  The
kill of a wide character is allowed in `Edit_words`, where nothing pastes it.
A view for each run leaves out the variables that neither its properties
nor its keys depend on.  `MaxLen`, `MaxYank` and `MaxShown` bound what grows.

**Proved** in `EditProofs`, for a terminal of any size, with or without a right
prompt, and for any keys and bounds, when the user has none of the habits
`replaceEnd`, `onWide`, `killWide` and `lateYank` (`Careful`); the other habits
are allowed: they disturb the screen only, and `killPopped` the last theorem:

| theorem | states | assumes besides |
|---|---|---|
| `CursorAtBoundary` | `AtBoundary` | |
| `CommandOnCharacter` | `OnCharacter` | |
| `OnlyPastedIsReplaced` | `PastedApart` | |
| `KilledComesBack` | `PasteRestores` | not `killPopped` |

Of the constants they assume `EditAssumption`, by which in each line of `Restored`
every wide character has its half, and the cursor is at a character or at the
end.  What the code saves is such a line when it has no wide characters; with
them it is not, as `filter_copy` makes blanks of the halves (`linesave.cpp:109`),
so wide characters that are saved and restored are left out, as they are of the
yank buffer (`killWide`).

`AtBoundary` is not inductive: the keys act on the line through the screen, the
yank buffer and the place that is marked.  `IInv` adds that the screen has a
cursor over the line, or remembers where it goes back to while others write
(`Placed`, for `cursor_pos`, `refresh_pos` and the padding); that the marked
place is a character's (`Marked`), since a selection is killed from it; that the
yank buffer holds texts without wide characters, and its two indices are in it
(`Ringed`); that what was pasted is in the line, between the parts of the line
before (`PastedIn`); and that the line before a kill is the line with the last
text of the buffer put back (`Killed`), which no property says until a paste.

The proof has four layers.  `Paired` lines are closed under slices, joining,
cutting and inserting (`CutPaired`, `InsertedPaired`), and the widths and the
searches for words lead from one `Edge` to another (`NextEdge`, `WordsEdge`).
`Goes` says where each operator of `Screen` leaves the cursor and that it keeps
the rest of what `State` knows; `Redrawn` says it of a refresh, which may leave
the cursor at either end of the line, and `Over` of a cursor that is over the
line.  Then `Draw` of the lists of commands that occur (`OverPut`, `OverTo` and
the others) is worked out step by step, and there is one lemma per action, which
meets the cursor that the line needs with the one that the drawing leaves.  That
these are the same is the point of the proof: the code moves the line and the
cursor in two different ways.

What the terminal shows (`ScreenTrue`, `CleanRow`, `WindowBelow`, `RightTrue`) and `TypeOK`, which bounds the rows, are only model-checked: they need the contents
of `d.t`, of which the proof uses nothing.

**Known deviations**, each a member of `HabitKinds` that the runs leave out
(`Edit_words` allows `killWide`).  Allowing one makes a run fail: `onWide` breaks
`AtBoundary`, `rowsBelow` breaks `CleanRow`, `windowBehind` breaks `WindowBelow`
and `killPopped` breaks `PasteRestores`.

* `killWide`: `filter_copy` (`linecook.h:1417`) stores a blank for the second
  half of a wide character, so a paste of one is a column longer.  The same
  happens to a line that undo or the history saves; `Restored` has none with
  wide characters.
* `replaceEnd`: in replace mode at the end of the line, and with `r` on the
  empty one, the character is drawn and `edited_len` does not grow
  (`dispatch.cpp:187`).
* `onWide`: `a`, the last column in command mode and the end of a word go
  forward by one column, into a wide character.
* `rowsBelow`: the line feeds at the end of a line count columns to the end of
  the line, not rows (`dispatch.cpp:248`, `281`), so output overwrites a row.
* `redrawStart`: a refresh does not move back when the cursor was at the start
  of the line (`linecook.cpp:316`).
* `awayRows`: after ctrl-z, or output of the application, on a line of several
  rows the prompt is drawn rows too high.
* `windowBehind`: keys that were read at once and move the end of the line to
  another row leave rows of the show window (`lineio.cpp:602` passes rows of the
  screen for rows of the window).
* `rightBehind`: a deletion that ends the line on the row above its right prompt
  leaves the prompt there.
* `killPopped`, `lateYank`: a kill is compared with the text that was popped to,
  not with the last one; a yank that finds nothing takes the place of an earlier
  paste for the one to replace (`dispatch.cpp:799`).

With no habit, since the bounds leave them out (`Edit_words` has one row and no
right prompt): a wide character sent to the last column wraps, and the `\r\n` after
it goes a row too far (`lineio.cpp:468`), so the refresh with the padded prompt,
which is there for that case (`linecook.cpp:540`), draws a row too low and leaves
the first prompt above; the deletion of a wide character that straddles two rows
erases on the cursor's row only (`dispatch.cpp:311`); and where the right prompt is
drawn over, or cleared from, the middle of a wide character, the cursor is not
where the code takes it to be (`prompt.cpp:1297`).  And in no part of the model: a
search or refresh in visual
mode erases until the next idle; `show_line` moves the text of a completion
wider than the window by the wrong distance (`linecook.cpp:1286`); a mark that
is set again is not counted in `mark_upd` (`linecook.cpp:1421`).

## Keys, KeyLoop: from bytes to actions and output

**Correspondence.**  `Keys` is `eat_input` with the tables it walks: `Recipes`
the table with what `bindkey` adds, `SingleOf` and `MultiOf` what a character
and a sequence mean in a mode, `EatNext`, `Multi`, `Single`, `Putback` and
`EatPutback` the branches of `eat_input` and `eat_multichar`.  `KeyLoop` is the
loop around it:

| actions | code |
|---|---|
| `Type`, `Arrive` | the user, who types a key, and the rest of its bytes, which come later |
| `Drain` | the terminal, which takes what it had no room for |
| `Process`, `RepeatAction`, `NoInput` | a turn of `do_get_line`: eat a key and dispatch it, dispatch it again for its count, or go back to wait |
| `Poll`, `Timeout`, `Execute` | the calls of `poll_wait` and `lc_tty_get_line`, and the application that goes on with the next line |

`meant` is a history variable with its own reading of the keys: `Meaning` looks a
whole key up in the table, `Pair` says when two keys are none together, `Mean`
applies the count and the last repeatable action.  `Process` must perform what
is at its front, and sets `meant` to `Wrong` if it does not.

**Abstraction.**  An action is its name and, if it takes one, its character; of
what it does, only the mode it enters is kept.  Every action draws `Drawn`
bytes.  The action, the last one and the character are kept only as far as they
are looked at again (`KeptAs`, `KeptChar`, `NoAction`).  A key comes while the
loop waits or has read all there is (`Comes`); an escape sequence comes whole,
except in emacs mode with nothing before it; and the user waits for the effect
of a macro, and after an escape that begins nothing.  The table has one entry of
each kind (`KeyLoopMC`).

**Run** `KeyLoop_keys`: fifteen keys, two of them pairs that are put back, in
three modes, with a macro bound and unbound, two actions ahead (`MaxAhead`), and
a terminal that takes one byte before it blocks (`Space`).  `AsMeant`: every key
does what the table says, with its count, character and repetition, in whatever
parts it comes; `AllEaten`: when the loop waits for a key nothing that came is
left unless it may still become one; `TypeOK`; and `Answered`: everything that
was typed, unless it was put back, is performed and its output gets out.  One
byte of room makes every flush of two be cut, and two actions ahead put a key
behind one that was put back.

**Fairness.**  `Arrive` is weakly fair (a key that began to come comes) and
`Drain` strongly, because it is enabled only while `poll_wait` waits for the
terminal: a terminal that is read goes on being read.  The calls of the library
are weakly fair together: `Runs` is when one of them has something to do, and
`Called` that it was made.  This is the loop of any application of the library
(`src/test/example.c`).  Nothing makes the user type or a time-out happen.

**Known deviations**, outside `Habits`: `zeroArg`, a `0` as the
character of an action with a count becomes a digit (`dispatch.cpp:90`), so `3r0`
does not replace; `countNone`, the count of a repetition of nothing is left over;
`macroAfterArg`, a macro after an action with a character gives `.` the macro's
key for it (`linecook.cpp:618`).  And with no habit: keys that were put back wait
for the next key when no input is left, since `input_available` does not count
them (`lineio.cpp:376`), and never begin a sequence; a character for an action,
when it is put back, takes the second pending key and drops the rest; the keys
of a macro go behind what was typed ahead (`keycook.cpp:276`), and a macro that
types its own key never ends; a macro's index is eight bits; `fill_input` takes a
read error and the end of input for no input (`lineio.cpp:399`); a key longer
than the pending buffer (`lineio.cpp:147`); input that is no UTF-8 ends
`get_line` with an error; after a poll that timed out `TTYS_POLL_OUT` stays set.

## ShowWindow, Complete: completion and the window below the line

**Correspondence.**  `ShowWindow` has the pages: `w` is `show_mode`, `show_pg`,
`show_start` and `show_end`, and each list is known by its count and its marked
line; `ShowSave`, `ShowLsb` and the functions of paging are one operator each.
`Complete` has the line, the term in it (`complete_off`, `complete_len`,
`complete_has_quote`, `complete_type`), the candidates (`comp`, with `comp.off`
and `comp.idx` as `at` and `idx`), and the window:

| actions | code |
|---|---|
| `StartCompletion` | TAB and the `SHOW_` keys: `init_completion_term` finds the argument at the cursor (`Args`, `Opening`, `Closing` are `get_complete_args`), and `LINE_STATUS_COMPLETE` is returned |
| `CompleteTerm`, `CompleteHistory`, `CompleteHelp` | `completion_get_line`, with the candidates that the application added or that `fill_completions` calls back for, and `tab_first_completion` (`TabFirst`) |
| `TabNext`, `GoRight`, `InsertChar` | `tab_next_completion`, `completion_accept`, `completion_update` |
| `SelectCandidate`, `SelectEntry`, `GotoEntry` | the selection in the window, of a candidate or of a line of the history |
| `Page`, `PageHistory`, `ShowKeys`, `Clear`, `TabAcceptHistory` | the pages of whatever the window shows |

What changes the line, the cursor, the term and the candidates is a function of
an edit `e` of the four (`Put`, `Reset`, `TabFirst`, `Accept`, `Update`); the
actions say what the window does with it.

**Abstraction.**  Letters have no case; terms have no directories and no globs;
candidates have no quotes or backslashes.  All lines of the history are alike,
since the edits and the lines of each are in `HistEdit`.  The
number of lines of the window is constant.  When no candidate is left, the term
is not looked at again and is reset, which the code does not always do.  The
windows of the undo and yank buffers, which only show, are left out.

**Run** `Complete_tab`: a window of two lines, candidates that share prefixes and
one with a space in it, lists of none, one, two and two pages (with one
candidate twice), three lines of history, three pages of keys, a help text of
two pages; two characters are typed or completed (`MaxLen`), and none but the
help once keys or help were paged (`Longest`).

* `OnlyTheTerm`: a completion, and a character typed at the end of its term,
  changes nothing before or behind the term, and leaves the cursor between what
  it put in and what is behind.
* `AsSelected`: the line has the candidate that is selected, as it is after
  TAB, quoted when it is accepted; a character narrows the candidates to those
  that begin with the term, and the only one left is put in.
* `MarkedShown`: what a key selects is in the window.
* `NothingSkipped`: a page begins at most one line after the one before, and
  paging goes on to the end of the list.
* `TypeOK`: the term is in the line and the window in its list.

Two pages and a page that is not full are needed to tell the pages counted from
the end from those counted from the start; two characters, quotes and spaces
among them, make terms in front of and behind the one that is completed.

**Known deviations**, each a member of `HabitKinds`:

* `afterQuoted`: `get_complete_args` joins a quoted argument and then writes all
  the arguments that follow it over it (`complete.cpp:207`, where `i` should be
  `k`), so the one at the cursor is lost.
* `typeBeyond`: `completion_update` searches from `comp.off`, which selecting
  has moved, and misses the candidates before it (`complete.cpp:673`); `AsSelected`
  fails with it.
* `typeOther`, `typeInside`: a character typed when the selection is as long as
  the term, or with the cursor before the end of the term, accepts the selection
  over it, and `move_cursor_fwd` may then go past the end of the line
  (`complete.cpp:683`).
* `upAtNone`: after a second TAB that finds nothing `comp.off` is 0
  (`complete.cpp:506`; line 516 was to set it and is not reached), so the
  selection is shown and accepted as nothing.
* `upOffPage`: after TAB has moved past the page, the window begins at the
  selection while `show_pg` is its page, and going up skips lines.
* `helpAgain`, `helpOver`: help that is shown again begins at the page of
  another window (`keycook.cpp:617`); `SHOW_HELP` does not reset candidates of an
  earlier completion, which are then copied as the help text
  (`dispatch.cpp:916`).

TAB on a partial match puts in as much as the candidates agree on, and so drops
the characters of the term that none of them has; `OnlyTheTerm` allows that.

**Proved** in `CompleteProofs`, for any window height, letters, candidates,
help texts, history and keys, and any bound of the line.  All five theorems
assume `TypesInTerm`: none of the habits `typeBeyond`, `typeOther` and
`typeInside`, after which the cursor may leave the line.

| theorem | states | assumes besides |
|---|---|---|
| `TypeCorrect` | `TypeOK` | |
| `TermReplaced` | `OnlyTheTerm` | |
| `SelectionShown` | `MarkedShown` | neither `upAtNone` nor `upOffPage` |
| `NoLineSkipped` | `NothingSkipped` | neither `upOffPage` nor `helpAgain` |
| `SelectionTaken` | `AsSelected` | not `upAtNone` |

`TypeOK` is not inductive: that a term is in its line must also hold between TAB
and the answer of the application, and a window that outlives the completion
must fit another list.  `IInv` adds that: `InShape` types the state, with the
selection within the candidates; `TermPlaced` keeps the term in the line while
it is completed or asked for; `Apart` says that these two exclude each other;
`Listing` says that a window shows lines of the list that `show_mode` names.
Three more invariants serve the action properties: `Turning` (the window begins
where its page does, or, of candidates, within it), without which a page key
could skip lines; `Found` (a selection comes with a `comp.off`), without which
the window would not follow it and TAB and accepting would put in nothing; and `Starting` (which keys ask for a
completion).

The proof has three layers.  Lemmas about the operators come first: `ShowSave`,
`ShowLsb` and the paging functions with their arithmetic, `cmpls` as an order
(`LessOrders`), what `Agree` and `FindPrefix` return (`FoundIs`), and then what
`Put`, `Accept`, `Narrow` and `TabFirst` do to a sound edit.  Then there is one lemma
per action for `IInv` and `Turning`.  `OnlyTheTerm` rests on `Around`,
which says that a line begins and ends as another one does: `TypedPut` composes
two of them, the character that is inserted and the replacement of the term.
For `AsSelected`, `FittingFound` says that `FindPrefix` returns, of the candidates
that a text begins, the first, their number and what they have in common, and
`NarrowedIs` what `completion_update` makes of that; that no candidate before
`comp.off` fits is the guard that only `typeBeyond` lifts.

## What stays with TLC, and what is not modelled

Of `Edit`, `ScreenTrue`, `CleanRow`, `WindowBelow`, `RightTrue` and `TypeOK` are
model-checked, not proved: they say what is in each cell of the terminal, or how many
rows it used (`d.t.bottom`, `d.erase`), and need rows and columns, the quotient and the
remainder of the cursor by a constant `Cols` that is not fixed, through every drawing
operator; the SMT solver does not do that arithmetic. The proofs of `EditProofs`
keep to `d.pos`, which is linear. Of `KeyLoop`, `AsMeant`, `AllEaten` and `TypeOK` are
model-checked, not proved: that keys become the actions they mean is an induction over
the characters of the input (`CharsOf`, `After`, `FlattenSeq`), and the bound of the
counts in its `TypeOK` rests on it.
`OperationEnds` and `Answered` stay with TLC, since liveness and `ENABLED` are out
of the prover's reach.

Not modelled: marks, the colour table, prompt expansion and terminal modes,
which the plan has left; the conversions and tables of other authors, the
Windows console, the directory listings and the test programs are not planned.
Of the parts that are modelled: globs, the search and visual tables of keys, the
windows of undo and yank, keys that change the size of the window, and changes
of the terminal's size.
