-------------------------------- MODULE Edit --------------------------------
(***************************************************************************)
(* The line and what the keys do to it (State::dispatch of                 *)
(* src/src/dispatch.cpp): typing and replacing, moves, words, kills and    *)
(* the yank buffer, transposition, the modes of emacs and vi, the visual   *)
(* selection, and the end of the line, each with what it draws (Screen).   *)
(*                                                                         *)
(* line is line[] up to edited_len; a character of two columns is followed *)
(* by a Half.  Off(d), from 0, is the cursor in it.  Digits, brackets and  *)
(* the case of letters are not in the line: what depends on them takes any *)
(* place, or leaves the line as it is.                                     *)
(***************************************************************************)
EXTENDS Screen

CONSTANTS Chars,    \* what is typed
          Breaks,   \* the word break characters among them, with the space
          Keys,     \* the actions whose keys are pressed
          Restored, \* what undo and history bring back: <<line, cursor>>
          MaxLen,   \* bound: the columns of the line
          MaxYank,  \* bound: texts in the yank buffer
          MaxShown, \* bound: rows of the show window
          Habits    \* what else the user does, a subset of HabitKinds

(* Typing in replace mode at the end of the line, or replacing a character *)
(* of the empty line; the moves by one column, and to the last one, at a   *)
(* wide character; the kill of a wide character; the end of the line, or   *)
(* ctrl-z, typed where the columns to the end of the line are not the rows *)
(* to it; ctrl-z, and output of others, while the line, or the window      *)
(* below it, takes more than a row; deleting so that the line ends on the  *)
(* row above its right prompt; redrawing at the start of the line; a key   *)
(* read together with one that moved the end of the line to another row,   *)
(* while or just before the show window is there, and clearing none;       *)
(* killing what the yank buffer was popped to; a yank that finds nothing,  *)
(* later than a paste.                                                     *)
HabitKinds ==
  {"replaceEnd", "onWide", "killWide", "rowsBelow", "awayRows", "rightBehind", "redrawStart",
   "windowBehind", "killPopped", "lateYank"}

(* What line[] holds: a Half is always after its character, which is never *)
(* without it.                                                             *)
Glyphs == {"x", "/", Blank, Wide, Half}
Lines  == Seq(Glyphs)
Paired(s) ==
  /\ s \in Lines
  /\ \A i \in 1 .. Len(s) : s[i] = Half <=> i > 1 /\ s[i - 1] = Wide
  /\ \A i \in 1 .. Len(s) : s[i] = Wide => i < Len(s)

(* A place where a character begins, or the end of the line.               *)
Edge(s, i) == i \in 0 .. Len(s) /\ (i < Len(s) => s[i + 1] # Half)

(* What is saved and restored has its characters whole: that a line with   *)
(* wide ones is saved without their halves, which filter_copy makes        *)
(* blanks, is left out.                                                    *)
ASSUME EditAssumption ==
  /\ Chars \subseteq {"x", "/", Blank, Wide}
  /\ Blank \in Breaks /\ Breaks \subseteq {"/", Blank}
  /\ MaxLen \in Nat /\ MaxYank \in Nat /\ MaxShown \in Nat
  /\ Habits \subseteq HabitKinds
  /\ \A r \in Restored : Paired(r[1]) /\ Edge(r[1], r[2])
  /\ Rows > RowOf(MaxLen + Cols) + 2 + MaxShown

VARIABLES
  line,    \* line[0 .. edited_len)
  mode,    \* "emacs", "insert", "command"
  replace, \* REPLACE_MODE
  visual,  \* VISUAL_MODE
  voff,    \* visual_off
  d,       \* the screen
  drawn,   \* history variable: what the last key drew
  yank,    \* ring, and off and idx: the last one found, and where pop goes on
  pasted,  \* last_yank_start and last_yank_size
  last,    \* the action before: "paste", or "other"
  done,    \* "exec": the line is returned; "away": others write; or "no"
  before   \* history variable: the line before a kill, with where the text
           \* was, and the line before what was pasted

modes == <<mode, replace, visual, voff>>
vars == <<line, modes, d, drawn, yank, pasted, last, done, before>>

off  == Off(d)
End  == Len(line)
Name == IF visual THEN "visual" ELSE mode
Slice(s, from, to) == SubSeq(s, from + 1, to)  \* s[from .. to)
Here(i) == line[i + 1]

(* char_width_next and char_width_back                                     *)
WidthNext(i) == IF i + 1 < End /\ Here(i + 1) = Half THEN 2 ELSE 1
WidthBack(i) == IF i > 1 /\ Here(i - 1) = Half THEN 2 ELSE 1

Cells(char) == IF char = Wide THEN <<Wide, Half>> ELSE <<char>>

-----------------------------------------------------------------------------
(* Drawing: the commands of an action, one after the other.                *)
To(n)     == [op |-> "to",   n |-> n]  \* move_cursor to the offset n
Back(n)   == [op |-> "back", n |-> n]
Fwd(n)    == [op |-> "fwd",  n |-> n]
Put(s)    == [op |-> "put",  s |-> s]
Clear     == [op |-> "clear"]          \* to the end of the row
ClearAll(n) == [op |-> "all", n |-> n] \* the rows below too; edited_len is n
Grow(n)   == [op |-> "grow", n |-> n]  \* extend
Bell      == [op |-> "bell"]
Ask       == [op |-> "ask"]            \* for the right prompt
All       == [op |-> "line", s |-> line] \* refresh_visual_line

Step(e, c) ==
  CASE c.op = "to"    -> MoveCursor(e, Prompt(e) + c.n)
    [] c.op = "back"  -> MoveCursorBack(e, c.n)
    [] c.op = "fwd"   -> MoveCursorFwd(e, c.n)
    [] c.op = "put"   -> CursorOutput(e, c.s)
    [] c.op = "clear" -> EraseHere(e)
    [] c.op = "all"   -> CursorEraseEol(e, c.n)
    [] c.op = "grow"  -> Extend(e, c.n)
    [] c.op = "bell"  -> [e EXCEPT !.bell = IF HasRight THEN 2 ELSE 0, !.needed = TRUE]
    [] c.op = "ask"   -> [e EXCEPT !.needed = TRUE]
    [] c.op = "line"  -> RefreshVisual(e, c.s)

Draw(e, cmds) ==
  LET f[i \in 0 .. Len(cmds)] == IF i = 0 THEN e ELSE Step(f[i - 1], cmds[i])
  IN f[Len(cmds)]

-----------------------------------------------------------------------------
(* Words: skip_next_space and the others, on line[] from i on, or back     *)
(* from i.                                                                 *)
Space == {Blank}
Break == Breaks
Word  == {"x", "/", Wide, Half} \ Breaks

SkipNext(skip, i) ==
  CHOOSE k \in i .. Most(i, End) :
    /\ \A j \in i .. k - 1 : Here(j) \in skip
    /\ k < End => Here(k) \notin skip
SkipPrev(skip, i) ==
  CHOOSE k \in 0 .. i :
    /\ \A j \in k .. i - 1 : Here(j) \in skip
    /\ k > 0 => Here(k - 1) \notin skip

NextBreakWord(i) == IF i < End /\ Here(i) \in Break THEN SkipNext(Break, i) ELSE SkipNext(Word, i)
PrevBreakWord(i) == IF i > 0 /\ Here(i - 1) \in Break THEN SkipPrev(Break, i) ELSE SkipPrev(Word, i)

PrevWord(i) ==
  IF i > 0 /\ Here(i - 1) \in Break THEN SkipPrev(Word, SkipPrev(Break, i))
                                 ELSE PrevBreakWord(SkipPrev(Space, i))
PrevWordStart(i) == PrevBreakWord(SkipPrev(Space, i))
NextWord(i) ==
  IF i < End /\ Here(i) \in Break THEN SkipNext(Word, SkipNext(Break, i))
                               ELSE NextBreakWord(SkipNext(Space, i))
NextWordStart(i) == SkipNext(Space, NextBreakWord(i))
NextWordEnd(i) == IF i < End THEN SkipNext(Word, SkipNext(Space, i + 1)) - 1 ELSE i

-----------------------------------------------------------------------------
(* The keys: in which modes the tables bind an action.                     *)
Moving  == {"emacs", "insert", "command", "visual"}
ViMoving == {"command", "visual"}
Editing == {"emacs", "insert", "command"}
Bound(a) ==
  CASE a \in {"GOTO_BOL", "GO_LEFT", "GOTO_EOL", "GO_RIGHT", "GOTO_PREV_WORD",
              "GOTO_NEXT_WORD", "FIND", "VISUAL_MARK", "VI_ESC", "REDRAW_LINE",
              "SHOW", "SHOW_CLEAR", "FINISH_LINE", "INTERRUPT", "SUSPEND"} -> Moving
    [] a \in {"VI_GOTO_PREV_WORD", "VI_GOTO_NEXT_WORD", "GOTO_ENDOF_WORD", "TILL",
              "MATCH_PAREN"} -> ViMoving
    [] a \in {"INSERT_CHAR", "TRANSPOSE", "REPLACE_MODE"} -> {"emacs", "insert"}
    [] a \in {"DELETE_CHAR", "BACKSPACE", "ERASE_BOL", "ERASE_EOL", "ERASE_PREV_WORD",
              "ERASE_NEXT_WORD", "TRANSPOSE_WORDS", "CASE_WORD", "PASTE_INSERT",
              "YANK_POP", "YANK_ARG", "UNDO", "VI_MODE"} -> Editing
    [] a \in {"VISUAL_CHANGE", "VISUAL_DELETE", "VISUAL_YANK"} -> {"visual"}
    [] OTHER -> {"command"}

(* The show window, or its place, has followed the line.                   *)
InPlace ==
  RowOf(d.was + Prompt(d)) = RowOf(End + Prompt(d)) \/ "windowBehind" \in Habits

Pressed(a) ==
  /\ a \in Keys /\ Name \in Bound(a) /\ done = "no" /\ ~d.refresh
  /\ d.shown > 0 => InPlace

(* What an action leaves the line, and what it draws.                      *)
Becomes(new, cmds) ==
  /\ Len(new) <= MaxLen
  /\ line' = new
  /\ drawn' = cmds
  /\ last' = "other"
Draws(cmds) == Becomes(line, cmds)

(* set_vi_insert_mode and the others, which also ask for the right prompt. *)
SetMode(m) == mode' = m /\ replace' = FALSE /\ visual' = FALSE /\ voff' = voff
InMode == UNCHANGED modes
Kept == UNCHANGED <<yank, pasted, done>>

AtColumn(i) == WidthNext(i) = 2 => "onWide" \in Habits

-----------------------------------------------------------------------------
(* INSERT_CHAR, not in replace mode.                                       *)
Insert(c) ==
  LET s == Cells(c)
      new == Slice(line, 0, off) \o s \o Slice(line, off, End)
  IN /\ Pressed("INSERT_CHAR") /\ ~replace
     /\ Becomes(new, IF off >= End THEN <<Grow(off + Len(s)), Put(s)>>
                     ELSE <<Grow(Len(new)), Put(Slice(new, off, Len(new))), Back(End - off)>>)
     /\ InMode /\ Kept

(* Mutant: nothing is erased where a narrow character replaces a wide one. *)
OverwriteLeaves(c, back) ==
  LET s == Cells(c)
      w == Len(s)
      x == WidthNext(off)
      new == Slice(line, 0, off) \o s \o Slice(line, off + x, End)
  IN IF off >= End THEN Becomes(line, <<Put(<<c>>), Back(IF back THEN w ELSE 0)>>)
     ELSE Becomes(new, <<Grow(Len(new)), Put(Slice(new, off, Len(new))),
                         Back(End - (off + x) + (IF back THEN w ELSE 0))>>)

(* A character in the place of another: INSERT_CHAR in replace mode, and   *)
(* VI_REPLACE_CHAR, which goes back to it.  At the end it is drawn, but    *)
(* the line is not longer.                                                 *)
Overwrite(c, back) ==
  LET s == Cells(c)
      w == Len(s)
      x == WidthNext(off)
      new == Slice(line, 0, off) \o s \o Slice(line, off + x, End)
      size == End - (off + x) + w
  IN CASE off >= End -> Becomes(line, <<Put(<<c>>), Back(IF back THEN w ELSE 0)>>)
       [] off < End /\ w = x -> Becomes(new, <<Put(s), Back(IF back THEN w ELSE 0)>>)
       [] OTHER ->
            Becomes(new, <<Grow(Len(new)), Put(Slice(new, off, Len(new)))>>
                         \o (IF w < x THEN <<ClearAll(Len(new))>> ELSE <<>>)
                         \o <<Back(size - (IF back THEN 0 ELSE w))>>)

MayOverwrite(c) == off >= End => "replaceEnd" \in Habits /\ c # Wide

Replace(c) ==
  /\ \/ Pressed("INSERT_CHAR") /\ replace /\ MayOverwrite(c) /\ Overwrite(c, FALSE)
     \/ Pressed("VI_REPLACE_CHAR") /\ MayOverwrite(c) /\ Overwrite(c, TRUE)
  /\ InMode /\ Kept

-----------------------------------------------------------------------------
(* The line may end on the row above its right prompt.                     *)
ShrinksTo(len) ==
  d.right # NoName /\ RowOf(Prompt(d) + len) # RowOf(Prompt(d) + End) => "rightBehind" \in Habits

(* The end of BACKSPACE and DELETE_CHAR: the character at i is deleted.    *)
DeleteAt(i, w, back) ==
  LET new == Slice(line, 0, i) \o Slice(line, i + w, End) IN
  Becomes(new, <<Back(back), Put(Slice(new, i, Len(new))), Clear, Back(Len(new) - i)>>)

Backspace ==
  /\ Pressed("BACKSPACE") /\ ShrinksTo(End - WidthBack(off))
  /\ IF off > 0 THEN DeleteAt(off - WidthBack(off), WidthBack(off), WidthBack(off))
                ELSE Draws(<<>>)
  /\ InMode /\ Kept

Delete ==
  /\ \/ /\ Pressed("DELETE_CHAR") /\ InMode /\ ShrinksTo(End - WidthNext(off))
        /\ IF off < End THEN DeleteAt(off, WidthNext(off), 0) ELSE Draws(<<>>)
     \/ /\ Pressed("VI_CHANGE_CHAR") /\ SetMode("insert") /\ ShrinksTo(End - WidthNext(off))
        /\ IF off < End THEN DeleteAt(off, WidthNext(off), 0) ELSE Draws(<<Ask>>)
  /\ Kept

-----------------------------------------------------------------------------
LeftOne == IF off > 0 THEN <<Back(WidthBack(off))>> ELSE <<>>
RightOne == IF off < End THEN <<Fwd(WidthNext(off))>> ELSE <<>>

(* GOTO_EOL: in command mode to the last column.                           *)
ToEol ==
  IF mode # "command" THEN <<Fwd(End - off)>>
  ELSE IF off + 1 < End THEN <<Fwd(End - (off + 1))>> ELSE <<>>

Move ==
  /\ \/ Pressed("GOTO_BOL") /\ Draws(IF off # 0 THEN <<To(0)>> ELSE <<>>)
     \/ /\ Pressed("GOTO_EOL")
        /\ mode = "command" /\ WidthBack(End) = 2 => "onWide" \in Habits
        /\ Draws(ToEol)
     \/ Pressed("GO_LEFT") /\ Draws(LeftOne)
     \/ Pressed("GO_RIGHT") /\ Draws(RightOne)
  /\ InMode /\ Kept

MoveWord ==
  /\ \/ Pressed("GOTO_PREV_WORD") /\ Draws(<<Back(off - PrevWord(off))>>)
     \/ Pressed("VI_GOTO_PREV_WORD") /\ Draws(<<Back(off - PrevWordStart(off))>>)
     \/ Pressed("GOTO_NEXT_WORD") /\ Draws(<<Fwd(NextWord(off) - off)>>)
     \/ Pressed("VI_GOTO_NEXT_WORD") /\ Draws(<<Fwd(NextWordStart(off) - off)>>)
     \/ /\ Pressed("GOTO_ENDOF_WORD")
        /\ off < End /\ Here(NextWordEnd(off)) = Half => "onWide" \in Habits
        /\ Draws(<<Fwd(NextWordEnd(off) - off)>>)
  /\ InMode /\ Kept

(* FIND_NEXT_CHAR and TILL_NEXT_CHAR, and their repetition.                *)
FoundNext(c, till) ==
  LET at == {i \in off + 1 .. End - 1 : Here(i) = c}
      i == CHOOSE k \in at : \A m \in at : k <= m
  IN IF at = {} THEN <<Bell>> ELSE <<To(IF till THEN i - WidthBack(i) ELSE i)>>

FoundPrev(c, till) ==
  LET at == {i \in 0 .. off - 1 : Here(i) = c}
      i == CHOOSE k \in at : \A m \in at : m <= k
  IN IF at = {} THEN <<Bell>> ELSE <<To(IF till THEN i + WidthNext(i) ELSE i)>>

Find(c) ==
  /\ \E till \in BOOLEAN :
       /\ Pressed(IF till THEN "TILL" ELSE "FIND")
       /\ Draws(FoundNext(c, till)) \/ Draws(FoundPrev(c, till))
  /\ InMode /\ Kept

(* MATCH_PAREN: to a bracket, to an end of the line when none matches, or  *)
(* nowhere.                                                                *)
MatchParen ==
  /\ Pressed("MATCH_PAREN")
  /\ \/ /\ off < End
        /\ \E p \in {0, End} \cup {i \in 0 .. End - 1 : Here(i) = "x"} :
             p # off /\ Draws(<<To(p)>>)
     \/ Draws(<<Bell>>)
  /\ InMode /\ Kept

-----------------------------------------------------------------------------
(* LOWERCASE_WORD and the others: the word is output again, and the cursor *)
(* goes after it.                                                          *)
CaseWord ==
  LET word == SkipNext(Space, off)
      end  == NextBreakWord(word)
  IN /\ Pressed("CASE_WORD")
     /\ Draws(IF word < End THEN <<Put(Slice(line, off, end))>> ELSE <<Bell>>)
     /\ InMode /\ Kept

FlipCase ==
  /\ Pressed("FLIP_CASE")
  /\ Draws(IF off >= End THEN <<>>
           ELSE IF WidthNext(off) = 1 THEN <<Put(<<Here(off)>>)>> ELSE <<Fwd(2)>>)
  /\ InMode /\ Kept

(* Mutant: the second part is taken to be as long as the first.            *)
SwapEven(a, aEnd, b, bEnd) ==
  LET new == Slice(line, 0, a) \o Slice(line, b, b + aEnd - a)
             \o Slice(line, aEnd, b) \o Slice(line, a, aEnd) \o Slice(line, b + aEnd - a, End)
  IN IF a < aEnd /\ b < bEnd /\ aEnd <= b
       THEN Becomes(new, <<To(a), Put(Slice(new, a, bEnd))>>)
       ELSE Draws(<<Bell>>)

(* The parts [a, aEnd) and [b, bEnd) of the line change places.            *)
Swap(a, aEnd, b, bEnd) ==
  LET new == Slice(line, 0, a) \o Slice(line, b, bEnd) \o Slice(line, aEnd, b)
             \o Slice(line, a, aEnd) \o Slice(line, bEnd, End)
  IN IF a < aEnd /\ b < bEnd /\ aEnd <= b
       THEN Becomes(new, <<To(a), Put(Slice(new, a, bEnd))>>)
       ELSE Draws(<<Bell>>)

Transpose ==
  /\ \/ LET b == IF off > 0 THEN off - WidthBack(off) ELSE off
            a == IF b > 0 THEN b - WidthBack(b) ELSE b
        IN Pressed("TRANSPOSE") /\ Swap(a, b, b, off)
     \/ LET b == IF off > 0 /\ Here(off - 1) \notin Space THEN PrevWord(off) ELSE off
            a == PrevWord(b)
        IN Pressed("TRANSPOSE_WORDS") /\ Swap(a, NextWord(a), b, NextWord(b))
  /\ InMode /\ Kept

(* INCR_NUMBER and DECR_NUMBER at a number from i to k: it takes as many   *)
(* columns as before, or one more.                                         *)
IncrDecr ==
  /\ Pressed("INCR_NUMBER")
  /\ \/ off >= End /\ Draws(<<>>)
     \/ off < End /\ Draws(<<Bell>>)
     \/ \E i \in 0 .. off, k \in off + 1 .. End :
          LET new == Slice(line, 0, i) \o <<"x">> \o Slice(line, i, End)
              size == End - i
          IN /\ \A j \in i .. k - 1 : Here(j) = "x"
             /\ \/ Draws(<<Back(off - i), Put(Slice(line, i, k)), Back(k - off)>>)
                \/ Becomes(new, <<Grow(End + 1), Back(off - i), Put(Slice(new, i, End + 1)),
                                  Back(size - (off - i) + 1)>>)
  /\ InMode /\ Kept

-----------------------------------------------------------------------------
(* The yank buffer.  filter_copy stores a blank for a Half.                *)
Stored(s) == [i \in 1 .. Len(s) |-> IF s[i] = Half THEN Blank ELSE s[i]]

(* Mutant: any text as long as the last one is left out.                   *)
AddYankLength(s) ==
  IF s = <<>> \/ (yank.off # 0 /\ Len(yank.ring[yank.off]) = Len(s)) THEN yank
  ELSE [ring |-> Append(yank.ring, Stored(s)), off |-> Len(yank.ring) + 1,
        idx |-> Len(yank.ring) + 2]

(* add_yank, which leaves out what it found last.                          *)
AddYank(s) ==
  IF s = <<>> \/ (yank.off # 0 /\ yank.ring[yank.off] = s) THEN yank
  ELSE [ring |-> Append(yank.ring, Stored(s)), off |-> Len(yank.ring) + 1,
        idx |-> Len(yank.ring) + 2]

Yanked(s) ==
  /\ Len(AddYank(s).ring) <= MaxYank
  /\ (\E i \in 1 .. Len(s) : s[i] = Wide) => "killWide" \in Habits
  /\ (AddYank(s) = yank /\ yank.off # Len(yank.ring)) => s = <<>> \/ "killPopped" \in Habits
  /\ yank' = AddYank(s)

(* get_yank_pop: the one before idx, or none, and then from the last.      *)
Popped == [yank EXCEPT !.off = yank.idx - 1, !.idx = yank.idx - 1]
PoppedOutBeyond == [yank EXCEPT !.idx = Len(yank.ring) + 2] \* mutant
PoppedOut == [yank EXCEPT !.idx = Len(yank.ring) + 1]

(* The part [from, to) of the line is killed.                              *)
KillRange(from, to, cmds) ==
  LET new == Slice(line, 0, from) \o Slice(line, to, End) IN
  IF from = to THEN Draws(cmds)
  ELSE Becomes(new, <<To(from), Put(Slice(new, from, Len(new))), ClearAll(Len(new)), To(from)>>)

Kill(from, to) == Yanked(Slice(line, from, to)) /\ KillRange(from, to, <<>>)
Change(from, to) ==
  SetMode("insert") /\ Yanked(Slice(line, from, to)) /\ KillRange(from, to, <<Ask>>)

EraseBol == Pressed("ERASE_BOL") /\ InMode /\ Kill(0, off)

EraseEol ==
  /\ Pressed("ERASE_EOL")
  /\ Yanked(Slice(line, off, End))
  /\ IF off = End THEN Draws(<<>>)
     ELSE Becomes(Slice(line, 0, off),
                  <<ClearAll(off)>> \o (IF mode = "command" THEN LeftOne ELSE <<>>))
  /\ InMode
  /\ UNCHANGED <<pasted, done>>

EraseLine ==
  \/ Pressed("ERASE_LINE") /\ InMode /\ Kill(0, End)
  \/ Pressed("VI_CHANGE_LINE") /\ Change(0, End)

ErasePrevWord ==
  LET start == PrevWord(off) IN
  /\ Pressed("ERASE_PREV_WORD")
  /\ IF start # off THEN Kill(start, off) ELSE Draws(<<Bell>>) /\ UNCHANGED yank
  /\ InMode

EraseNextWord ==
  \/ Pressed("ERASE_NEXT_WORD") /\ InMode /\ Kill(off, NextWord(off))
  \/ Pressed("VI_ERASE_NEXT_WORD") /\ InMode /\ Kill(off, NextWordStart(off))
  \/ Pressed("VI_CHANGE_WORD") /\ Change(off, NextWord(off))
  \/ Pressed("VI_CHANGE_EOL") /\ Change(off, End)
  \/ Pressed("VI_CHANGE_BOL") /\ Change(0, off)

(* visual_bounds                                                           *)
VisualBounds ==
  LET end == Most(off, voff) IN
  [from |-> Least(off, voff), to |-> IF end < End THEN end + WidthNext(end) ELSE end]

EraseVisual ==
  LET from == VisualBounds.from
      to   == VisualBounds.to
  IN \/ Pressed("VISUAL_CHANGE") /\ Change(from, to)
     \/ /\ Pressed("VISUAL_DELETE")
        /\ visual' = FALSE /\ UNCHANGED <<mode, replace, voff>>
        /\ Yanked(Slice(line, from, to)) /\ KillRange(from, to, <<Ask>>)

KillKey ==
  /\ EraseBol \/ EraseLine \/ ErasePrevWord \/ EraseNextWord \/ EraseVisual
  /\ UNCHANGED <<pasted, done>>

(* YANK_LINE and the others leave the line as it is.                       *)
YankKey ==
  /\ \/ Pressed("YANK_BOL") /\ Yanked(Slice(line, 0, off)) /\ Draws(<<>>) /\ InMode
     \/ Pressed("YANK_EOL") /\ Yanked(Slice(line, off, End)) /\ Draws(<<>>) /\ InMode
     \/ Pressed("YANK_LINE") /\ Yanked(line) /\ Draws(<<>>) /\ InMode
     \/ Pressed("YANK_WORD") /\ Yanked(Slice(line, off, NextWord(off))) /\ Draws(<<>>) /\ InMode
     \/ /\ Pressed("VISUAL_YANK")
        /\ Yanked(Slice(line, VisualBounds.from, VisualBounds.to))
        /\ Draws(<<To(VisualBounds.from), Ask, All>>)
        /\ visual' = FALSE /\ UNCHANGED <<mode, replace, voff>>
  /\ UNCHANGED <<pasted, done>>

-----------------------------------------------------------------------------
(* The text is put at the offset i, and the cursor after it.               *)
Inserted(base, i, s) == Slice(base, 0, i) \o s \o Slice(base, i, Len(base))
DrawInserted(new, i, s) ==
  <<Grow(Len(new)), Put(Slice(new, i, Len(new))), ClearAll(Len(new)), To(i + Len(s))>>

PasteAt(after) == IF after /\ off < End THEN off + WidthNext(off) ELSE off

NotLate == last # "paste" /\ pasted.size > 0 => "lateYank" \in Habits

(* PASTE_INSERT and PASTE_APPEND: the last text of the yank buffer.        *)
Paste ==
  LET n == Len(yank.ring) IN
  /\ \E after \in BOOLEAN :
       LET i == PasteAt(after)
           s == yank.ring[n]
           new == Inserted(line, i, s)
       IN /\ Pressed(IF after THEN "PASTE_APPEND" ELSE "PASTE_INSERT")
          /\ n = 0 => NotLate
          /\ IF n = 0 THEN line' = line /\ drawn' = <<Bell>> /\ UNCHANGED <<yank, pasted>>
             ELSE /\ Len(new) <= MaxLen
                  /\ line' = new
                  /\ drawn' = <<Fwd(i - off)>> \o DrawInserted(new, i, s)
                  /\ yank' = [yank EXCEPT !.idx = n]
                  /\ pasted' = [start |-> i, size |-> Len(s)]
  /\ last' = "paste"
  /\ InMode /\ UNCHANGED done

(* Mutant: what was pasted is replaced, whatever was done since.           *)
AgainAnyTime ==
  /\ pasted.size > 0 /\ pasted.start + pasted.size <= End
  /\ off = pasted.start + pasted.size

(* Whether YANK_POP and the others take the place of what was pasted.      *)
Again ==
  /\ last = "paste"
  /\ pasted.size > 0 /\ pasted.start + pasted.size <= End
  /\ off = pasted.start + pasted.size

(* YANK_POP, YANK_LAST_ARG and YANK_NTH_ARG: the text s, or none, in the   *)
(* place of what was pasted before.                                        *)
Substitute(found, s) ==
  LET i == IF Again THEN pasted.start ELSE off
      base == Slice(line, 0, i) \o Slice(line, off, End)
      new == Inserted(base, i, s)
      back == IF Again THEN <<Back(pasted.size)>> ELSE <<>>
  IN /\ ~found => NotLate
     /\ IF found
          THEN /\ Len(new) <= MaxLen
               /\ line' = new
               /\ drawn' = back \o DrawInserted(new, i, s)
               /\ pasted' = [start |-> i, size |-> Len(s)]
          ELSE /\ line' = base
               /\ drawn' = IF Again THEN back \o <<Put(Slice(base, i, Len(base))),
                                                   ClearAll(Len(base)),
                                                   Back(Len(base) - i), Bell>>
                            ELSE <<Bell>>
               /\ pasted' = IF last = "paste" THEN [start |-> 0, size |-> 0] ELSE pasted
     /\ last' = "paste"
     /\ InMode /\ UNCHANGED done

YankPop ==
  /\ Pressed("YANK_POP")
  /\ IF yank.idx > 1 THEN yank' = Popped /\ Substitute(TRUE, yank.ring[yank.idx - 1])
                     ELSE yank' = PoppedOut /\ Substitute(FALSE, <<>>)

YankArg ==
  /\ Pressed("YANK_ARG")
  /\ \/ Substitute(FALSE, <<>>)
     \/ \E r \in Restored : r[1] # <<>> /\ Substitute(TRUE, r[1])
  /\ UNCHANGED yank

-----------------------------------------------------------------------------
(* UNDO, REDO, REVERT and the walks over the history: restore_save.        *)
Restore(r) ==
  /\ Pressed("UNDO")
  /\ Becomes(r[1], <<Grow(Len(r[1])), To(0), Put(r[1]), ClearAll(Len(r[1])), To(r[2])>>)
  /\ InMode /\ Kept

(* The keys that only change the mode, with where the cursor goes.         *)
InsertMode ==
  /\ \/ Pressed("VI_INSERT") /\ Draws(<<Ask>>)
     \/ /\ Pressed("VI_APPEND") /\ AtColumn(off)
        /\ Draws(<<Ask>> \o IF off < End THEN <<Fwd(1)>> ELSE <<>>)
     \/ Pressed("VI_APPEND_EOL") /\ Draws(<<Ask, Fwd(End - off)>>)
     \/ Pressed("VI_INSERT_BOL") /\ Draws(<<Ask, Back(off)>>)
  /\ SetMode("insert") /\ Kept

ReplaceMode ==
  /\ \/ /\ Pressed("VI_REPLACE")
        /\ mode' = "insert" /\ replace' = TRUE /\ visual' = FALSE /\ voff' = voff
     \/ /\ Pressed("REPLACE_MODE")
        /\ replace' = ~replace /\ UNCHANGED <<mode, visual, voff>>
  /\ Draws(<<Ask>>) /\ Kept

ViMode ==
  /\ Pressed("VI_MODE")
  /\ SetMode(IF mode = "emacs" THEN "insert" ELSE "emacs")
  /\ Draws(<<Ask>>) /\ Kept

(* The cursor of the insert mode is after a character, that of the command *)
(* mode on it.                                                             *)
ViEsc ==
  /\ Pressed("VI_ESC") /\ ~visual
  /\ IF mode = "emacs" THEN SetMode("emacs") /\ Draws(<<Ask>>)
     ELSE /\ SetMode("command")
          /\ Draws((IF mode = "insert" THEN LeftOne ELSE <<>>) \o <<Ask>>)
  /\ Kept

Visual ==
  /\ \/ /\ (Pressed("VISUAL_MARK") \/ Pressed("VI_ESC")) /\ visual
        /\ visual' = FALSE /\ voff' = voff
        /\ Draws(<<Ask, All>>)
     \/ /\ Pressed("VISUAL_MARK") /\ ~visual
        /\ visual' = TRUE /\ voff' = off
        /\ Draws(<<Ask>>)
  /\ UNCHANGED <<mode, replace>> /\ Kept

-----------------------------------------------------------------------------
RedrawAllowed == off = 0 /\ line # <<>> => "redrawStart" \in Habits

Redraw ==
  /\ Pressed("REDRAW_LINE") /\ RedrawAllowed
  /\ d' = RefreshLine(d, line, visual)
  /\ last' = "other"
  /\ UNCHANGED line /\ InMode /\ Kept

Cleared(e) == IF e.shown > 0 THEN ShowClear(e, line, visual) ELSE e

(* SHOW_UNDO and the others, with a window of k rows; SHOW_CLEAR.          *)
Show ==
  /\ RedrawAllowed /\ InPlace
  /\ \/ /\ Pressed("SHOW")
        /\ \E k \in 1 .. MaxShown :
             d' = OutputShow([Cleared(d) EXCEPT !.shown = k], line, visual)
     \/ /\ Pressed("SHOW_CLEAR")
        /\ d.shown = 0 => "windowBehind" \in Habits
        /\ d' = ShowClear(d, line, visual)
  /\ last' = "other"
  /\ UNCHANGED line /\ InMode /\ Kept

(* What the end of the line and ctrl-z do to the screen.                   *)
LeaveLine(e) == OutputRightPrompt(VisualFollows(Cleared(e), line, visual), line, mode, TRUE)

(* The rows from the cursor to the end of the line, and as they are        *)
(* counted.                                                                *)
RowsBelow == RowOf(Prompt(d) + End) - RowOf(d.pos)
RowsCounted == (End - off) \div Cols

(* Mutant: the cursor goes to the next row.                                *)
NewlineOne(e) == Newline(e, 1)

NewlineBelow(e) == Newline(e, RowsCounted + 1)

Interrupted(e, a) ==
  IF a = "INTERRUPT" THEN [e EXCEPT !.t = Printed(Printed(@, "^"), "^")] ELSE e

(* FINISH_LINE and INTERRUPT: the line is returned; reset_state, of which  *)
(* the line and the screen follow when the next prompt is output.          *)
Finish ==
  /\ \E a \in {"FINISH_LINE", "INTERRUPT"} :
       Pressed(a) /\ d' = NewlineBelow(Interrupted(LeaveLine(d), a))
  /\ RedrawAllowed
  /\ RowsBelow # RowsCounted => "rowsBelow" \in Habits
  /\ done' = "exec"
  /\ SetMode(IF mode = "emacs" THEN "emacs" ELSE "insert")
  /\ pasted' = [start |-> 0, size |-> 0]
  /\ yank' = [yank EXCEPT !.idx = IF yank.ring = <<>> THEN 0 ELSE Len(yank.ring) + 1]
  /\ last' = "other"
  /\ UNCHANGED line

(* The prompt of the next line.                                            *)
NextLine ==
  /\ done = "exec"
  /\ line' = <<>> /\ done' = "no" /\ voff' = 0
  /\ d' = [OutputPrompt(FreshScreen(Window)) EXCEPT !.bell = d.bell]
  /\ UNCHANGED <<mode, replace, visual, yank, pasted, last>>

OneRow == RowOf(Prompt(d) + Most(End, d.erase)) = 0

Suspend ==
  /\ Pressed("SUSPEND") /\ RedrawAllowed
  /\ RowsBelow # RowsCounted => "rowsBelow" \in Habits
  /\ OneRow \/ "awayRows" \in Habits
  /\ d' = [NewlineBelow(LeaveLine(d)) EXCEPT !.refresh = TRUE]
  /\ done' = "away" /\ visual' = FALSE
  /\ last' = "other"
  /\ UNCHANGED <<line, mode, replace, voff, yank, pasted>>

-----------------------------------------------------------------------------
(* clear_line, called for output of others above the line.                 *)
ClearLine ==
  /\ "CLEAR_LINE" \in Keys /\ done = "no" /\ ~d.refresh
  /\ (OneRow /\ d.shown = 0) \/ "awayRows" \in Habits
  /\ d' = ErasePrompt([d EXCEPT !.back = d.pos], line)
  /\ done' = "away"
  /\ UNCHANGED <<line, modes, yank, pasted, last>>

(* The shell or the program wrote below, and the line goes on there.       *)
Resume ==
  /\ done = "away"
  /\ d' = [RefreshLine([d EXCEPT !.t = Window], line, visual) EXCEPT !.refresh = FALSE]
  /\ done' = "no"
  /\ UNCHANGED <<line, modes, yank, pasted, last>>

(* Mutant: the cursor of the command mode stays after the line.            *)
OnLastNever(e) == e

(* At the end of the line, the cursor of the command mode goes back to the *)
(* last character.                                                         *)
OnLast(e) ==
  IF mode = "command" /\ line # <<>> /\ e.pos = Prompt(e) + End
    THEN MoveCursorBack(e, WidthBack(End)) ELSE e

(* No more input: what do_get_line does before it waits.                   *)
Wait ==
  /\ done = "no"
  /\ d' = OnLast(Waiting(d, line, Name, visual))
  /\ d' # d
  /\ UNCHANGED <<line, modes, yank, pasted, last, done>>

(* get_line after a second with a time in the prompt, or after the bell.   *)
Tick ==
  /\ done = "no"
  /\ \/ "TIME" \in Keys /\ d' = PromptAgain(d)
     \/ d.bell # 0 /\ d' = [d EXCEPT !.bell = 1, !.needed = TRUE]
  /\ UNCHANGED <<line, modes, yank, pasted, last, done>>

-----------------------------------------------------------------------------
Nothing == [line |-> <<>>, at |-> -1, base |-> <<>>]

(* The line is remembered until the next step, what was pasted into until  *)
(* another key.                                                            *)
Remember(at, base) ==
  before' = [line |-> IF at >= 0 /\ line' # line THEN line ELSE <<>>,
             at   |-> IF line' # line THEN at ELSE -1,
             base |-> IF last' = "paste" THEN base ELSE <<>>]

Init ==
  /\ line = <<>>
  /\ mode \in {"emacs", "insert"}
  /\ replace = FALSE /\ visual = FALSE /\ voff = 0
  /\ d = OutputPrompt(FreshScreen(Window))
  /\ yank = [ring |-> <<>>, off |-> 0, idx |-> 0]
  /\ pasted = [start |-> 0, size |-> 0]
  /\ last = "other" /\ done = "no"
  /\ before = Nothing /\ drawn = <<>>

Typing ==
  \/ \E c \in Chars : Insert(c) \/ Replace(c) \/ Find(c)
  \/ Backspace \/ Delete
  \/ Move \/ MoveWord \/ MatchParen
  \/ CaseWord \/ FlipCase \/ Transpose \/ IncrDecr
  \/ YankKey
  \/ \E r \in Restored : Restore(r)
  \/ InsertMode \/ ReplaceMode \/ ViMode \/ ViEsc \/ Visual

Drawing ==
  \/ Redraw \/ Show \/ Finish \/ NextLine \/ Suspend
  \/ ClearLine \/ Resume \/ Wait \/ Tick

Key ==
  \/ EraseEol /\ Remember(off, <<>>)
  \/ Paste /\ Remember(-1, IF yank.ring = <<>> THEN before.base ELSE line)
  \/ (YankPop \/ YankArg) /\ Remember(-1, IF Again THEN before.base ELSE line)
  \/ Typing /\ Remember(-1, before.base)

Next ==
  \/ KillKey /\ d' = Draw(d, drawn') /\ Remember(Off(d'), <<>>)
  \/ Key /\ d' = Draw(d, drawn')
  \/ Drawing /\ drawn' = <<>> /\ Remember(-1, before.base)

Spec == Init /\ [][Next]_vars
-----------------------------------------------------------------------------
(* Type correctness: the line is of characters, the cursor of a mode.      *)
TypeOK ==
  /\ line \in Seq({"x", "/", Blank, Wide, Half}) /\ End <= MaxLen
  /\ mode \in Editing /\ replace \in BOOLEAN /\ visual \in BOOLEAN /\ voff \in 0 .. MaxLen
  /\ d.pos \in 0 .. MaxLen + Cols /\ d.erase \in 0 .. Rows * Cols
  /\ d.bell \in 0 .. 2 /\ d.pad < Cols /\ d.shown \in 0 .. MaxShown
  /\ d.needed \in BOOLEAN /\ d.refresh \in BOOLEAN /\ d.t.bottom < Rows
  /\ Len(yank.ring) <= MaxYank /\ yank.off <= Len(yank.ring)
  /\ yank.idx \in 0 .. Len(yank.ring) + 1
  /\ last \in {"paste", "other"} /\ done \in {"no", "exec", "away"}

(* The cursor is in the line, and never between the two columns of a       *)
(* character; a Half is always after its character.  Every action takes    *)
(* the width of a character from the columns next to it.                   *)
AtBoundary ==
  /\ done = "no" /\ ~d.refresh =>
       off \in 0 .. End /\ (off < End => Here(off) # Half)
  /\ \A i \in 1 .. End : line[i] = Half <=> i > 1 /\ line[i - 1] = Wide

Names == {"ouch", "visual"} \cup Editing

(* The terminal shows the prompt and the line, but for what the right      *)
(* prompt covers, and nothing of what was there before; its cursor is      *)
(* where State takes it to be.                                             *)
ScreenTrue ==
  LET end == Prompt(d) + End IN
  done = "no" /\ ~d.refresh =>
    /\ d.t.row = RowOf(d.pos) /\ d.t.col = d.pos % Cols
    /\ At(d.t, 0) = Sign
    /\ \A p \in Prompt(d) .. Rows * Cols - 1 :
         \/ p < end /\ At(d.t, p) = Here(p - Prompt(d))
         \/ p >= end /\ At(d.t, p) = Blank
         \/ At(d.t, p) \in Names
         \/ d.shown > 0 /\ p >= end /\ At(d.t, p) = Shown

(* At rest the show window is whole, right below the line, and nothing is  *)
(* left of where it was.                                                   *)
WindowBelow ==
  [][Wait /\ d.shown > 0 =>
       \A p \in NextRow(d', line) * Cols .. Rows * Cols - 1 :
         At(d'.t, p) = IF RowOf(p) < NextRow(d', line) + d.shown THEN Shown ELSE Blank]_vars

(* At rest a right prompt is only on the last row of the line, and says in *)
(* which mode the next key will be taken, or that the last one rang the    *)
(* bell.                                                                   *)
RightTrue ==
  [][Wait => \A p \in Places :
       At(d'.t, p) \in Names =>
         /\ p = RightAt(d', line)
         /\ At(d'.t, p) = IF d'.bell # 0 THEN "ouch" ELSE Name]_vars

(* At rest the cursor of the command mode is on a character.               *)
OnCharacter == [][Wait /\ mode = "command" /\ line # <<>> => Off(d') < End]_vars

(* The line that is returned leaves the terminal at the start of a row     *)
(* with nothing of it below: "send cursor to the next line, which may be   *)
(* multiple rows".                                                         *)
CleanRow ==
  done = "exec" =>
    d.t.col = 0 /\ \A p \in d.t.row * Cols .. Rows * Cols - 1 : At(d.t, p) = Blank

(* What a kill takes away, a paste where it was brings back.               *)
PasteRestores ==
  [][before.at >= 0 /\ Paste /\ pasted'.start = before.at => line' = before.line]_vars

(* However often a yank takes the place of the one before, without it the  *)
(* line is the one it was first pasted into.                               *)
PastedApart ==
  last = "paste" /\ pasted.size > 0 =>
    Slice(line, 0, pasted.start) \o Slice(line, pasted.start + pasted.size, End) = before.base

=============================================================================
