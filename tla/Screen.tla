------------------------------- MODULE Screen -------------------------------
(***************************************************************************)
(* How the line gets to the terminal: the cursor and the output of         *)
(* src/src/lineio.cpp, the right prompt of src/src/prompt.cpp, and the     *)
(* refresh of src/src/linecook.cpp.                                        *)
(*                                                                         *)
(* What State keeps of the screen is a record: pos (cursor_pos), erase     *)
(* (erase_len), needed (right_prompt_needed), refresh (refresh_needed),    *)
(* back (refresh_pos), bell (bell_cnt), right (r_prompt), shown and start  *)
(* (show_rows and show_row_start), was (save_edited_len), pad              *)
(* (prompt.pad_cols), with the terminal t, which State never reads.        *)
(*                                                                         *)
(* The prompt is one column of a row of its own.  A right prompt is one    *)
(* column, and shows the name of the mode.  The rows of the show window    *)
(* are full.                                                               *)
(***************************************************************************)
EXTENDS Terminal

CONSTANT HasRight \* whether there is a right prompt

ASSUME ScreenAssumption == HasRight \in BOOLEAN

Sign   == "$" \* the prompt
Shown  == "s" \* what the show window is filled with
NoName == "none"

Prompt(d)  == 1 + d.pad
Off(d)     == d.pos - Prompt(d)
RowOf(pos) == pos \div Cols
NextRow(d, line) == RowOf(Prompt(d) + Len(line)) + 1

-----------------------------------------------------------------------------
(* move_cursor: first over the rows, then over the columns.                *)
MoveCursor(d, pos) ==
  LET rows == RowOf(pos) - RowOf(d.pos)
      cols == (pos % Cols) - (d.pos % Cols)
      t == IF rows > 0 THEN Down(d.t, rows) ELSE Up(d.t, -rows)
  IN [d EXCEPT !.pos = pos, !.t = IF cols > 0 THEN Right(t, cols) ELSE Left(t, -cols)]

(* move_cursor_back(1) crosses to the end of the row above in its own way, *)
(* and move_cursor_fwd(1) to the start of the row below.                   *)
MoveCursorBack(d, n) ==
  CASE n = 0 \/ d.pos = 0 -> d
    [] n = 1 /\ d.pos > 0 /\ d.pos % Cols = 0 ->
         [d EXCEPT !.pos = @ - 1, !.t = Right(Up(@, 1), Cols - 1)]
    [] OTHER -> MoveCursor(d, d.pos - n)

MoveCursorFwd(d, n) ==
  IF n = 1 /\ (d.pos + 1) % Cols = 0
    THEN [d EXCEPT !.pos = @ + 1, !.t = Down(Return(@), 1)]
    ELSE MoveCursor(d, d.pos + n)

(* cursor_output: where a row is full, the terminal is sent to the next.   *)
CursorOutput(d, cells) ==
  LET f[i \in 0 .. Len(cells)] ==
        IF i = 0 THEN d
        ELSE LET e == f[i - 1]
                 ends == (e.pos + 1) % Cols = 0
                 t == Printed(e.t, cells[i])
             IN [e EXCEPT !.pos = @ + 1, !.t = IF ends THEN Feed(Return(t)) ELSE t,
                          !.needed = @ \/ ends]
  IN f[Len(cells)]

Extend(d, n) == [d EXCEPT !.erase = Most(@, n)]

(* erase_eol_with_right_prompt                                             *)
EraseHere(d) == [d EXCEPT !.t = EraseToEnd(@), !.needed = TRUE]

(* Mutant: only the row of the cursor is erased.                           *)
CursorEraseEolHere(d, n) == [EraseHere(d) EXCEPT !.erase = n]

(* cursor_erase_eol: with every row below that the line ever reached.      *)
CursorEraseEol(d, n) ==
  LET rows == RowOf(Prompt(d) + d.erase) - RowOf(d.pos)
      f[i \in 0 .. Most(0, rows)] ==
        IF i = 0 THEN EraseToEnd(d.t) ELSE EraseRow(Down(f[i - 1], 1))
  IN [d EXCEPT !.t = IF rows > 0 THEN Up(f[rows], rows) ELSE f[0],
               !.needed = TRUE, !.erase = n]

-----------------------------------------------------------------------------
(* The right prompt: a column on the last row of the line.                 *)
RightAt(d, line) == NextRow(d, line) * Cols - 2

PutAt(d, pos, char) ==
  LET e == MoveCursor(d, pos) IN
  MoveCursor([e EXCEPT !.t = Printed(@, char), !.pos = @ + 1], d.pos)

(* Mutant: where the line reaches, it is taken to have covered it.         *)
ClearRightPromptCovered(d, line) ==
  IF RightAt(d, line) - Prompt(d) < Len(line) THEN d ELSE PutAt(d, RightAt(d, line), Blank)

ClearRightPrompt(d, line) ==
  LET at == RightAt(d, line)
      j == at - Prompt(d)
  IN PutAt(d, at, IF j < Len(line) THEN line[j + 1] ELSE Blank)

ShowRightPrompt(d, line, name) ==
  IF d.pos >= RightAt(d, line) THEN ClearRightPrompt(d, line)
                               ELSE PutAt(d, RightAt(d, line), name)

(* output_right_prompt, which takes the name of the mode; a bell that is   *)
(* over is first cleared.                                                  *)
WithoutRightPrompt(d, line) == [ClearRightPrompt(d, line) EXCEPT !.right = NoName]

RightPromptOf(d, line, name, clear) ==
  LET other == d.right # NoName /\ d.right # name
      e == IF other THEN WithoutRightPrompt(d, line) ELSE d
  IN IF clear THEN WithoutRightPrompt(d, line)
              ELSE [ShowRightPrompt(e, line, name) EXCEPT !.right = name]

BellOver(d, line) ==
  IF d.bell = 1 THEN [ClearRightPrompt(d, line) EXCEPT !.bell = 0] ELSE d

OutputRightPrompt(d, line, mode, clear) ==
  IF HasRight
    THEN RightPromptOf(BellOver(d, line), line, IF d.bell = 2 THEN "ouch" ELSE mode, clear)
    ELSE [d EXCEPT !.bell = IF @ = 1 THEN 0 ELSE @]

-----------------------------------------------------------------------------
OutputPrompt(d) ==
  LET f[i \in 0 .. d.pad] == IF i = 0 THEN Printed(d.t, Sign) ELSE Printed(f[i - 1], Blank)
  IN [d EXCEPT !.t = f[d.pad], !.pos = Prompt(d)]

(* The prompt of every second, when it shows the time.                     *)
PromptAgain(d) == MoveCursor(OutputPrompt(MoveCursor(d, 0)), d.pos)

(* refresh_visual_line: the line is output in three parts.                 *)
RefreshVisual(d, line) ==
  MoveCursor(CursorOutput(MoveCursor(d, Prompt(d)), line), d.pos)

VisualFollows(d, line, visual) == IF visual THEN RefreshVisual(d, line) ELSE d

(* refresh_line, with what draws below the line; a cursor that was at the  *)
(* start of the line stays where the drawing leaves it.                    *)
LineOutput(d, line, visual) ==
  IF line = <<>> THEN d
  ELSE IF visual THEN RefreshVisual(d, line) ELSE CursorOutput(d, line)

BackTo(d, pos) == IF pos > Prompt(d) THEN MoveCursor(d, pos) ELSE d

PromptAndLine(d, line, visual) ==
  LineOutput(OutputPrompt(MoveCursor(CursorEraseEol([d EXCEPT !.back = 0], Len(line)), 0)),
             line, visual)

RefreshAnd(d, line, visual, Below(_)) ==
  BackTo(Below([PromptAndLine(d, line, visual) EXCEPT !.erase = d.erase]),
         IF d.back # 0 THEN d.back ELSE d.pos)

(* show_clear_lines: rows counted from the one below the line.             *)
ShowClearLines(d, line, from, to) ==
  LET f[i \in from .. to] ==
        IF i = from THEN d
        ELSE LET e == MoveCursor(f[i - 1], (NextRow(d, line) + i - 1) * Cols)
             IN [e EXCEPT !.t = EraseRow(@)]
  IN IF from >= to THEN d ELSE MoveCursor(f[to], d.pos)

(* output_show, the window below the line.                                 *)
RowDown(d) == [d EXCEPT !.t = Feed(Return(@)), !.pos = (RowOf(@) + 1) * Cols]

BelowLine(d, line) ==
  RowDown(MoveCursor(CursorEraseEol(MoveCursor(d, Prompt(d) + Len(line)), Len(line)),
                     NextRow(d, line) * Cols - 1))

ShowWindow(d, line) ==
  MoveCursor([CursorOutput(BelowLine(d, line), [i \in 1 .. d.shown * Cols |-> Shown])
                EXCEPT !.erase = Len(line)],
             d.pos)

(* output_show: when the line took fewer rows than it did, the rows that   *)
(* the window leaves are cleared, and all is drawn again.                  *)
OutputShow(d, line, visual) ==
  LET row == NextRow(d, line)
      e == [d EXCEPT !.start = row]
  IN CASE d.shown = 0 -> d
       [] d.shown > 0 /\ row >= d.start -> ShowWindow(e, line)
       [] OTHER -> RefreshAnd(ShowClearLines(e, line, row - 1 + d.shown, d.start + d.shown),
                              line, visual, LAMBDA g : ShowWindow(g, line))

RefreshLine(d, line, visual) ==
  RefreshAnd(d, line, visual,
             LAMBDA g : IF d.shown > 0 THEN OutputShow(g, line, visual)
                        ELSE CursorEraseEol(g, Len(line)))

ShowClear(d, line, visual) ==
  LET end == Prompt(d) + Len(line) IN
  RefreshLine([d EXCEPT !.erase = Len(line) + (Cols - (end % Cols)) + d.shown * Cols,
                        !.shown = 0, !.start = 0], line, visual)

(* erase_prompt                                                            *)
ErasePrompt(d, line) ==
  LET e == CursorEraseEol(MoveCursor(d, 0), Len(line)) IN
  [e EXCEPT !.t = EraseRow(@), !.refresh = TRUE]

(* output_newline                                                          *)
Newline(d, count) ==
  LET f[i \in 1 .. count] == IF i = 1 THEN Feed(Return(d.t)) ELSE Feed(f[i - 1])
  IN [d EXCEPT !.t = f[count]]

-----------------------------------------------------------------------------
(* do_get_line, before it waits for input: as many columns after the       *)
(* prompt as it takes that no wide character is at the end of a row.       *)
Overflows(line, start) ==
  \E j \in 1 .. Len(line) :
    j >= start /\ (j - start) % Cols = 0 /\ line[j] = Wide

PadFor(line) ==
  LET fits == {p \in 0 .. Cols - 2 : ~Overflows(line, Cols - (1 + p))} IN
  IF Len(line) + 1 < Cols \/ fits = {} THEN 0
  ELSE CHOOSE p \in fits : \A q \in fits : p <= q

Padded(d, line, visual) ==
  LET pad == PadFor(line)
      e == [d EXCEPT !.pad = pad, !.erase = @ + pad - d.pad, !.refresh = FALSE]
      again == d.refresh \/ Len(line) + 1 < Cols \/ pad # d.pad
      f == RefreshLine(MoveCursor(e, 0), line, visual)
  IN IF ~(Len(line) + Prompt(d) >= Cols - 1 \/ d.pad # 0) THEN d
     ELSE IF again THEN MoveCursor(f, d.pos + pad - d.pad) ELSE [d EXCEPT !.pad = pad]

(* Mutant: the window stays where it was.                                  *)
ShowFollowsNot(d, line, visual) == [d EXCEPT !.was = Len(line)]

ShowFollows(d, line, visual) ==
  LET moved == RowOf(d.was + Prompt(d)) # RowOf(Len(line) + Prompt(d))
      e == IF moved /\ d.shown > 0 THEN OutputShow(d, line, visual) ELSE d
  IN [e EXCEPT !.was = Len(line)]

RightPromptFollows(d, line, mode) ==
  IF d.needed THEN [OutputRightPrompt(d, line, mode, FALSE) EXCEPT !.needed = FALSE]
              ELSE d

(* What do_get_line does before it waits, up to the cursor of the command  *)
(* mode, which is in Edit.                                                 *)
Waiting(d, line, mode, visual) ==
  RightPromptFollows(VisualFollows(ShowFollows(Padded(d, line, visual), line, visual),
                                   line, visual),
                     line, mode)

(* Before the prompt is output.                                            *)
FreshScreen(t) ==
  [t |-> t, pos |-> 0, erase |-> 0, needed |-> TRUE, refresh |-> FALSE,
   back |-> 0, bell |-> 0, right |-> NoName, shown |-> 0, start |-> 0,
   was |-> 0, pad |-> 0]

=============================================================================
