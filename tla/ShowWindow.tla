----------------------------- MODULE ShowWindow -----------------------------
(***************************************************************************)
(* The show window below the line, and the page of a list that it shows    *)
(* (src/src/linecook.cpp).                                                 *)
(*                                                                         *)
(* A window is a record: mode (show_mode), pg (show_pg, from the last page *)
(* back to the first), start and end (show_start and show_end, the indices *)
(* of its first and last line).  A list is known by its cnt and by its     *)
(* idx, the line that is marked; its indices run from 1 to cnt.  How a     *)
(* line is laid out, and where it is drawn, is left out (Screen has that). *)
(***************************************************************************)
EXTENDS Integers, FiniteSetsExt

CONSTANT Lines \* show_lines, which keys that change it leave alone here

ASSUME LinesAssumption == Lines \in Nat \ {0}

NoWindow == [mode |-> "none", pg |-> 0, start |-> 0, end |-> 0]

(* show_clear.  start and end are not looked at again, pg is (show_help).  *)
ShowClear(w) == [NoWindow EXCEPT !.pg = w.pg]

PgCount(cnt) == (cnt + Lines - 1) \div Lines

(* pgnum: the page of the marked line.                                     *)
PgNum(cnt, idx) ==
  CASE cnt = 0        -> 0
    [] idx \in 1 .. cnt -> (cnt - idx) \div Lines
    [] OTHER          -> PgCount(cnt)

(* Mutant: a page that the list does not fill ends behind the list.        *)
ShowSaveOver(w, cnt, first) ==
  IF first > cnt THEN w
  ELSE [w EXCEPT !.start = Max({1, first}), !.end = Max({1, first}) + Lines - 1]

(* show_save, from the line at first or the one after it, if there is one. *)
ShowSave(w, cnt, first) ==
  IF first > cnt THEN w
  ELSE LET start == Max({1, first})
       IN [w EXCEPT !.start = start, !.end = Min({cnt, start + Lines - 1})]

(* Mutant: the line before the page is its first.                          *)
FirstOfBefore(cnt, pg) == Max({1, cnt - (pg + 1) * Lines})

(* show_lsb: the page pg, of which the first in the list is filled up.     *)
FirstOf(cnt, pg) == Max({1, cnt - (pg + 1) * Lines + 1})

ShowLsb(w, mode, cnt) ==
  IF cnt = 0 THEN [w EXCEPT !.mode = "none"]
  ELSE ShowSave([w EXCEPT !.mode = mode], cnt, FirstOf(cnt, w.pg))

(* show_X_next_page, _prev_page, _start and _end of a list X.              *)
NextPage(w, mode, cnt) == ShowLsb([w EXCEPT !.pg = Max({0, @ - 1})], mode, cnt)
PrevPage(w, mode, cnt) ==
  ShowLsb([w EXCEPT !.pg = IF @ < PgCount(cnt) - 1 THEN @ + 1 ELSE @], mode, cnt)
StartPage(w, mode, cnt) == ShowLsb([w EXCEPT !.pg = PgCount(cnt) - 1], mode, cnt)
EndPage(w, mode, cnt) == ShowLsb([w EXCEPT !.pg = 0], mode, cnt)

Paged(how, w, mode, cnt) ==
  CASE how = "next"  -> NextPage(w, mode, cnt)
    [] how = "prev"  -> PrevPage(w, mode, cnt)
    [] how = "start" -> StartPage(w, mode, cnt)
    [] how = "end"   -> EndPage(w, mode, cnt)

(* show_history_index                                                      *)
ShowHistoryIndex(w, cnt, idx) ==
  IF idx = 0 \/ idx >= cnt THEN EndPage(w, "history", cnt)
  ELSE ShowLsb([w EXCEPT !.pg = PgNum(cnt, idx)], "history", cnt)

(* show_completion_index, which starts the window at the marked line.      *)
ShowCompletionIndex(w, cnt, idx) ==
  LET pg == IF idx = 0 THEN Max({0, PgCount(cnt) - 1}) ELSE PgNum(cnt, idx)
  IN ShowSave([w EXCEPT !.mode = "completion", !.pg = pg], cnt, idx)

(* show_update finds the line to mark.                                     *)
Shows(w, idx) == idx \in w.start .. w.end

(* The window is the page pg, as it is not after show_completion_index.    *)
OnPage(w, cnt) == w.start = FirstOf(cnt, w.pg)
=============================================================================
