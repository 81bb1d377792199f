------------------------------- MODULE EditMC -------------------------------
(* Edit for TLC, three times: a line of several rows with the screen; a    *)
(* line of one row with wide characters and breaks, in all modes; and the  *)
(* yank buffer.                                                            *)
EXTENDS Edit

ScreenKeys ==
  {"INSERT_CHAR", "VI_REPLACE_CHAR", "BACKSPACE", "DELETE_CHAR", "GOTO_BOL", "GOTO_EOL",
   "GO_LEFT", "GO_RIGHT", "TRANSPOSE", "INCR_NUMBER", "ERASE_EOL", "ERASE_BOL", "UNDO",
   "VI_ESC", "VI_APPEND", "REDRAW_LINE", "SHOW", "SHOW_CLEAR", "FINISH_LINE",
   "SUSPEND", "CLEAR_LINE", "TIME"}
WordKeys ==
  {"INSERT_CHAR", "VI_REPLACE_CHAR", "BACKSPACE", "DELETE_CHAR", "VI_CHANGE_CHAR",
   "GOTO_BOL", "GOTO_EOL", "GO_LEFT", "GO_RIGHT", "GOTO_PREV_WORD", "GOTO_NEXT_WORD",
   "VI_GOTO_PREV_WORD", "VI_GOTO_NEXT_WORD", "GOTO_ENDOF_WORD", "FIND", "TILL",
   "MATCH_PAREN", "CASE_WORD", "FLIP_CASE", "TRANSPOSE", "TRANSPOSE_WORDS",
   "INCR_NUMBER", "ERASE_EOL", "ERASE_BOL", "ERASE_PREV_WORD", "ERASE_NEXT_WORD",
   "VI_ERASE_NEXT_WORD", "VI_CHANGE_WORD", "VI_CHANGE_LINE", "VI_CHANGE_BOL",
   "VI_CHANGE_EOL", "YANK_BOL", "YANK_EOL", "YANK_WORD", "VISUAL_MARK", "VISUAL_CHANGE",
   "VISUAL_DELETE", "VISUAL_YANK", "VI_ESC", "VI_MODE", "VI_INSERT", "VI_APPEND",
   "VI_APPEND_EOL", "VI_INSERT_BOL", "VI_REPLACE", "REPLACE_MODE", "UNDO",
   "FINISH_LINE", "INTERRUPT", "SUSPEND"}
YankKeys ==
  {"INSERT_CHAR", "GO_LEFT", "GO_RIGHT", "ERASE_LINE", "ERASE_EOL", "ERASE_BOL", "VI_ESC",
   "YANK_LINE", "PASTE_INSERT", "PASTE_APPEND", "YANK_POP", "YANK_ARG"}
Long == {<<<<>>, 0>>, <<<<"x", "x", "x", "x">>, 1>>}
Mixed == {<<<<"x", Blank, "/">>, 1>>}
Short == {<<<<"/">>, 1>>}
BreaksAll == {"/", Blank}

(* Without what the screen does not depend on.                             *)
Drawn == <<line, mode, replace, d, done>>

(* Without what only a yank, the window or the right prompt depends on.    *)
(* The line stays in its row, so that of erase_len the row counts.         *)
InOneRow ==
  <<line, mode, replace, visual, IF visual THEN voff ELSE 0, d.t, d.pos, d.back, d.refresh,
    RowOf(Prompt(d) + d.erase), done>>

(* Without what only the screen depends on.                                *)
Yanks ==
  <<line, mode, d.pos, yank, last,
    IF last = "paste" THEN pasted ELSE [pasted EXCEPT !.start = 0, !.size = Least(1, @)],
    done, before>>
=============================================================================
