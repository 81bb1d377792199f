------------------------------ MODULE HistEdit ------------------------------
(***************************************************************************)
(* The walk over the history and the edits of its lines                    *)
(* (src/src/history.cpp): history_older, history_newer, history_top,       *)
(* history_middle, history_bottom, display_history_index, the marks of vi  *)
(* in the history, get_hist_arg, push_history, and save_hist_edit with its *)
(* buffer of edits.  The search is in HistSearch.                          *)
(***************************************************************************)
EXTENDS LineSave

CONSTANTS Lines,   \* the texts of the line
          Empty,   \* the line of length zero
          Stored,  \* filter_copy: what make stores of a line
          MaxHist, \* bound: lines in the history
          Habits   \* what else the user does, a subset of HabitKinds

(* Emptying a line of which an edit is saved, or that was empty; a move    *)
(* that stays at the new line; a jump that leaves an unsaved edit; the     *)
(* arguments of older and older lines.                                     *)
HabitKinds == {"emptied", "stay", "jump", "lastArg"}

ASSUME HistEditAssumption ==
  /\ Empty \in Lines
  /\ Stored \in [Lines -> Lines]
  /\ MaxHist \in Nat
  /\ Habits \subseteq HabitKinds

VARIABLES
  line,  \* line[ 0 .. edited_len - 1 ]
  hist,  \* the lines of the history; their index is their position
  at,    \* hist.idx, 0 at the new line
  off,   \* hist.off, the node from which find starts
  edit   \* the buffer of edits: nodes in the order of their making

vars == <<line, hist, at, off, edit>>

Init ==
  /\ line = Empty
  /\ hist \in UNION {[1 .. n -> Lines \ {Empty}] : n \in 0 .. MaxHist}
  /\ \A k \in 1 .. Len(hist) - 1 : hist[k] # hist[k + 1]
  /\ at = 0
  /\ off = Len(hist)
  /\ edit = <<>>

-----------------------------------------------------------------------------
(* display_history_line: the edit of the line, or the line; the new line   *)
(* is cleared when it has no edit.                                         *)
Show(edits, i) ==
  LET e == Scan(edits, i)
  IN  IF e # 0 THEN edits[e].text ELSE IF i # 0 THEN hist[i] ELSE Empty

(* The edit at e is removed; resize moves its offset to the node before,   *)
(* and that node (memory before the buffer, if there is none) gets length  *)
(* zero.                                                                   *)
EmptyEdit(e) ==
  LET edits == Remove(edit, e)
  IN  IF e = 1 THEN edits ELSE Retext(edits, e - 1, Empty)

(* Mutant: save_hist_edit does not look for the edit of the line.          *)
SaveEditAgain(i, o) ==
  IF i # 0 /\ Find(hist, o, i) # 0 /\ hist[i] = line THEN edit
  ELSE Make(edit, Stored[line], i)

(* save_hist_edit, with hist.off at o: the edit of line i goes when the    *)
(* line is again as in the history (a node of length zero stays), and is   *)
(* changed or made otherwise.                                              *)
SaveEdit(i, o) ==
  LET e == Scan(edit, i)
      asLogged == i # 0 /\ Find(hist, o, i) # 0 /\ hist[i] = line
      wasEmpty == e # 0 /\ edit[e].text = Empty
  IN  IF asLogged
      THEN IF e = 0 \/ wasEmpty THEN edit ELSE Remove(edit, e)
      ELSE IF e = 0 THEN Make(edit, Stored[line], i)
      ELSE IF line = Empty /\ ~wasEmpty THEN EmptyEdit(e)
      ELSE Retext(edit, e, line)

(* The user leaves line i in a way that resize can save.                   *)
Plain(i) ==
  LET e == Scan(edit, i)
  IN  e # 0 /\ line # edit[e].text => Empty \notin {line, edit[e].text}

(* Mutant: history_move saves only the lines of the history.               *)
MoveForgetsNew(i, o) ==
  LET new == IF i = 0 THEN o ELSE Find(hist, o, i)
      saved == IF at = 0 THEN edit ELSE SaveEdit(at, new)
  IN  /\ i = 0 /\ at = 0 /\ line # Show(edit, 0) => "stay" \in Habits
      /\ at # 0 /\ ~Plain(at) => "emptied" \in Habits
      /\ at' = i
      /\ off' = new
      /\ edit' = saved
      /\ line' \in IF i # 0 /\ new = 0 THEN Lines ELSE {Show(saved, i)}
      /\ UNCHANGED hist

(* history_move to line i, where find starts at o.  The line that is left  *)
(* is saved first, unless the walk stays at the new line; without a node   *)
(* to start from, what is shown comes from before the buffer.              *)
Move(i, o) ==
  LET new == IF i = 0 THEN o ELSE Find(hist, o, i)
      stays == i = 0 /\ at = 0
      saved == IF stays THEN edit ELSE SaveEdit(at, new)
  IN  /\ stays /\ line # Show(edit, 0) => "stay" \in Habits
      /\ ~stays /\ ~Plain(at) => "emptied" \in Habits
      /\ at' = i
      /\ off' = new
      /\ edit' = saved
      /\ line' \in IF i # 0 /\ new = 0 THEN Lines ELSE {Show(saved, i)}
      /\ UNCHANGED hist

-----------------------------------------------------------------------------
(* The window that shows a page of the history, when it is open: its first *)
(* and last line.                                                          *)
Pages == {w \in Positions(hist) \X Positions(hist) : w[1] <= w[2]}
OffPage(w) == at \notin w[1] .. w[2]

(* history_older: from the new line to the last one of the history; a line *)
(* that is not on the page moves onto it.                                  *)
OlderLine == Move(IF at = 0 THEN Len(hist) ELSE at - 1, off)
HistoryOlder ==
  \/ OlderLine
  \/ \E w \in Pages : Move(IF OffPage(w) THEN w[2] ELSE at - 1, off)

(* Mutant: idx is compared with cnt before it is incremented.              *)
NewerLinePast(i) == IF i <= Len(hist) + 1 THEN Move(i, off) ELSE Move(0, off)

(* history_newer: beyond the last line is the new line.                    *)
NewerLine(i) ==
  IF i \in Positions(hist) THEN Move(i, IF i = 1 THEN 1 ELSE off)
                           ELSE Move(0, off)
HistoryNewer ==
  \/ NewerLine(at + 1)
  \/ \E w \in Pages : NewerLine(IF OffPage(w) THEN w[1] ELSE at + 1)

(* history_top, history_middle and history_bottom.                         *)
HistoryTop == NewerLine(at + 1) \/ \E w \in Pages : Move(w[1], off)
HistoryMiddle ==
  \/ Move(Len(hist) \div 2, off)
  \/ \E w \in Pages : Move((w[1] + w[2]) \div 2, off)
HistoryBottom == OlderLine \/ \E w \in Pages : Move(w[2], off)

(* A jump shows another line without saving the one it leaves.             *)
Jump(i) ==
  /\ line # Show(edit, at) => "jump" \in Habits
  /\ at' = i
  /\ line' = Show(edit, i)
  /\ UNCHANGED <<hist, edit>>

(* display_history_index.                                                  *)
GotoEntry == \E i \in Positions(hist) : Jump(i) /\ off' = i

(* ACTION_VI_GOTO_MARK of a mark in the history.                           *)
GotoMark == \E i \in Positions(hist) : Jump(i) /\ UNCHANGED off

(* ACTION_YANK_LAST_ARG and ACTION_YANK_NTH_ARG: get_hist_arg moves in the *)
(* history and the line stays, with a word of the other line inserted or   *)
(* the word inserted before taken out.                                     *)
HistArg ==
  /\ hist # <<>>
  /\ \E nth \in BOOLEAN :
       LET i == IF at = 0 THEN Len(hist) ELSE IF nth THEN at ELSE at - 1
       IN  /\ i # at => "lastArg" \in Habits
           /\ at' = i
           /\ off' = Find(hist, off, i)
  /\ line' \in Lines
  /\ UNCHANGED <<hist, edit>>

(* lc_history_line_length and lc_history_line_copy, called while a line is *)
(* edited, move hist.off to the line they are asked for.                   *)
HistoryLine ==
  /\ \E i \in Positions(hist) : off' = Find(hist, off, i)
  /\ off' # 0
  /\ UNCHANGED <<line, hist, at, edit>>

(* The other actions of the editor.                                        *)
EditLine == line' \in Lines /\ UNCHANGED <<hist, at, off, edit>>

(* Mutant: add_history leaves hist.off, in an empty history too.           *)
PushHistoryKeepsOff ==
  /\ Len(hist) < MaxHist
  /\ \E l \in Lines \ {Empty} :
       hist' = IF hist # <<>> /\ hist[Len(hist)] = l THEN hist
               ELSE Append(hist, Stored[l])
  /\ UNCHANGED <<line, at, off, edit>>

(* push_history of a line that was logged here or in another shell, in an  *)
(* idle period of the editing as well.                                     *)
PushHistory ==
  /\ Len(hist) < MaxHist
  /\ \E l \in Lines \ {Empty} :
       hist' = IF hist # <<>> /\ hist[Len(hist)] = l THEN hist
               ELSE Append(hist, Stored[l])
  /\ off' = Len(hist')
  /\ UNCHANGED <<line, at, edit>>

(* reset_state.                                                            *)
Finish ==
  /\ line' = Empty
  /\ at' = 0
  /\ off' = Len(hist)
  /\ edit' = <<>>
  /\ UNCHANGED hist

Walk == \/ HistoryOlder \/ HistoryNewer
        \/ HistoryTop \/ HistoryMiddle \/ HistoryBottom

Next == \/ Walk \/ GotoEntry \/ GotoMark \/ HistArg \/ HistoryLine
        \/ EditLine \/ PushHistory \/ Finish

Spec == Init /\ [][Next]_vars
-----------------------------------------------------------------------------
(* Properties.                                                             *)

EditNode == [text : Lines, index : Nat]

TypeOK ==
  /\ line \in Lines
  /\ hist \in Seq(Lines)
  /\ at \in 0 .. Len(hist)
  /\ off \in 0 .. Len(hist)
  /\ edit \in Seq(EditNode)

(* "History edits, one entry for every edit": no line has two, and each    *)
(* is of a line of the history or of the new line.                         *)
OneEditEach ==
  /\ \A j, k \in Positions(edit) : edit[j].index = edit[k].index => j = k
  /\ \A k \in Positions(edit) : edit[k].index <= Len(hist)

(* With a line in the history, find has a node to start from, so that the  *)
(* next move finds the line it goes to and reads nothing before the buffer. *)
Anchored == hist # <<>> => off # 0

(* The views of the lines as the user left them.                           *)
View == INSTANCE HistView
          WITH view <- [i \in 0 .. Len(hist) |->
                         IF i = at THEN line ELSE Show(edit, i)],
               log <- hist
ViewSpec == View!Spec
=============================================================================
