-------------------------------- MODULE Undo --------------------------------
(***************************************************************************)
(* Undo, redo and revert (push_undo, pop_undo, push_redo and revert_undo   *)
(* of src/src/linecook.cpp; the part of src/src/dispatch.cpp that decides  *)
(* which actions push).  The actions of the editor are classed by what     *)
(* they do to undo; search and history are not here.                       *)
(***************************************************************************)
EXTENDS LineSave

CONSTANTS Lines,    \* the texts of the line
          Empty,    \* the line of length zero
          Stored,   \* filter_copy: what make stores of a line
          MaxIndex, \* bound: no line changes beyond this undo.cnt
          Habits    \* what else the user does, a subset of HabitKinds

(* An edit of a line that was redone, an undo below the first line from    *)
(* there, typing a line back to the saved line below it, a key with no     *)
(* binding after typing.                                                   *)
HabitKinds == {"redoEdit", "redoUndo", "retype", "bell"}

ASSUME UndoAssumption ==
  /\ Empty \in Lines
  /\ Stored \in [Lines -> Lines]
  /\ MaxIndex \in Nat
  /\ Habits \subseteq HabitKinds

VARIABLES
  line,  \* line[ 0 .. edited_len - 1 ]
  undo,  \* the buffer: nodes, off, idx, cnt
  last,  \* last_action, by its class
  mode,  \* "insert" (emacs and vi insert) or "command"
  from   \* history variable: the line before the last action

vars == <<line, undo, last, mode, from>>

Classes == {"none", "type", "edit", "move", "bell", "undo", "redo", "revert"}

NoUndo == [nodes |-> <<>>, off |-> 0, idx |-> 0, cnt |-> 0]

Init ==
  /\ line = Empty
  /\ undo = NoUndo
  /\ last = "none"
  /\ mode = "insert"
  /\ from = Empty

-----------------------------------------------------------------------------
(* Mutant: undo.max is not moved down to undo.off before the make.         *)
PushUndoKeepsAbove(u) ==
  IF Equals(u.nodes, u.off, line) THEN u
  ELSE [nodes |-> Make(u.nodes, Stored[line], u.cnt + 1),
        off |-> Len(u.nodes) + 1, idx |-> u.cnt + 2, cnt |-> u.cnt + 1]

(* Mutant: undo.idx is the index of the saved line, not the next one.      *)
PushUndoIdxLow(u) ==
  IF Equals(u.nodes, u.off, line) THEN u
  ELSE [nodes |-> Make(SubSeq(u.nodes, 1, u.off), Stored[line], u.cnt + 1),
        off |-> u.off + 1, idx |-> u.cnt + 1, cnt |-> u.cnt + 1]

(* push_undo: what lies above off is cut off, unless the line is saved     *)
(* there already.                                                          *)
PushUndo(u) ==
  IF Equals(u.nodes, u.off, line) THEN u
  ELSE [nodes |-> Make(SubSeq(u.nodes, 1, u.off), Stored[line], u.cnt + 1),
        off |-> u.off + 1, idx |-> u.cnt + 2, cnt |-> u.cnt + 1]

(* An action that does not edit pushes what was typed before it.           *)
Pushed == IF last = "type" /\ mode = "insert" THEN PushUndo(undo) ELSE undo

(* The walk over the saved lines is at its end, where lines are added.     *)
AtEnd == undo.idx > undo.cnt

(* A redo left off at its line, and not below it as an undo does.          *)
OffAhead == undo.off > 0 /\ undo.nodes[undo.off].index >= undo.idx

Acts(class) == last' = class /\ from' = line

-----------------------------------------------------------------------------
(* ACTION_INSERT_CHAR does not push.                                       *)
Type ==
  /\ mode = "insert" /\ undo.cnt < MaxIndex
  /\ \E l \in Lines \ {Empty} :
       /\ Equals(undo.nodes, undo.off, l) => AtEnd \/ "retype" \in Habits
       /\ line' = l
  /\ Acts("type")
  /\ UNCHANGED <<undo, mode>>

(* An action with OPT_UNDO; some of vi's begin to insert.                  *)
Edit ==
  /\ undo.cnt < MaxIndex
  /\ OffAhead => "redoEdit" \in Habits
  /\ undo' = PushUndo(undo)
  /\ line' \in Lines
  /\ Acts("edit")
  /\ mode' \in {mode, "insert"}

(* An action that moves in the line, or changes the mode.                  *)
Move ==
  /\ undo' = Pushed
  /\ Acts("move")
  /\ mode' \in {"insert", "command"}
  /\ UNCHANGED line

(* ACTION_BELL: a key with no binding; it does not push.                   *)
Bell ==
  /\ last = "type" => "bell" \in Habits
  /\ Acts("bell")
  /\ UNCHANGED <<line, undo, mode>>

(* The walk moves to n, the buffer stays.                                  *)
WalkTo(u, n, i) == [nodes |-> u.nodes, off |-> n, idx |-> i, cnt |-> u.cnt]

(* A NULL from the buffer clears the line below the first saved line, and  *)
(* rings the bell elsewhere.                                               *)
NothingSaved(u) ==
  /\ undo' = u
  /\ line' = IF u.idx = 0 THEN Empty ELSE line

(* Mutant: pop_undo saves the line at every undo.                          *)
SaveTopAlways(u) == PushUndo(u)

(* Mutant: pop_undo does not save the line it leaves.                      *)
SaveTopNever(u) == u

(* The line that the first undo leaves is saved, to be redone.             *)
SaveTop(u) == IF u.idx > u.cnt THEN PushUndo(u) ELSE u

(* ACTION_UNDO, pop_undo.                                                  *)
UndoLine ==
  LET u == Pushed
      v == SaveTop(u)
  IN  /\ \E k \in 0 .. Len(u.nodes) :
           /\ FindLt(u.nodes, u.idx, k)
           /\ \/ /\ k = 0
                 /\ OffAhead => "redoUndo" \in Habits
                 /\ NothingSaved(WalkTo(u, u.off, 0))
              \/ /\ k > 0
                 /\ undo' = WalkTo(v, k - 1, v.nodes[k].index)
                 /\ line' = v.nodes[k].text
      /\ Acts("undo")
      /\ UNCHANGED mode

(* ACTION_REDO, push_redo.                                                 *)
RedoLine ==
  LET u == Pushed
  IN  /\ \/ u.off = Len(u.nodes) /\ NothingSaved(u)
         \/ /\ u.off # Len(u.nodes)
            /\ \E k \in 0 .. Len(u.nodes) :
                 /\ FindGteq(u.nodes, u.idx + 1, k)
                 /\ \/ k = 0 /\ NothingSaved(u)
                    \/ /\ k > 0
                       /\ undo' = WalkTo(u, k, u.nodes[k].index)
                       /\ line' = u.nodes[k].text
      /\ Acts("redo")
      /\ UNCHANGED mode

(* Mutant: revert_undo leaves idx where it was.                            *)
RevertKeepsIdx ==
  LET u == Pushed
  IN  /\ \/ u.nodes = <<>> /\ NothingSaved(u)
         \/ /\ u.nodes # <<>>
            /\ undo' = WalkTo(u, 0, u.idx)
            /\ line' = u.nodes[1].text
      /\ Acts("revert")
      /\ UNCHANGED mode

(* ACTION_REVERT, revert_undo.                                             *)
Revert ==
  LET u == Pushed
  IN  /\ \/ u.nodes = <<>> /\ NothingSaved(u)
         \/ /\ u.nodes # <<>>
            /\ undo' = WalkTo(u, 0, u.nodes[1].index)
            /\ line' = u.nodes[1].text
      /\ Acts("revert")
      /\ UNCHANGED mode

(* Mutant: the reset of the buffer leaves off.                             *)
FinishKeepsOff ==
  /\ line' = Empty
  /\ undo' = [NoUndo EXCEPT !.off = undo.off]
  /\ Acts("none")
  /\ mode' = "insert"

(* ACTION_FINISH_LINE and ACTION_INTERRUPT: reset_state.                   *)
Finish ==
  /\ line' = Empty
  /\ undo' = NoUndo
  /\ Acts("none")
  /\ mode' = "insert"

Next == \/ Type \/ Edit \/ Move \/ Bell
        \/ UndoLine \/ RedoLine \/ Revert \/ Finish

Spec == Init /\ [][Next]_vars
-----------------------------------------------------------------------------
(* Properties.                                                             *)

Node == [text : Lines, index : Nat]
UndoBuffer == [nodes : Seq(Node), off : Nat, idx : Nat, cnt : Nat]

TypeOK ==
  /\ line \in Lines
  /\ undo \in UndoBuffer
  /\ undo.off <= Len(undo.nodes)
  /\ last \in Classes
  /\ mode \in {"insert", "command"}
  /\ from \in Lines

(* The saved lines are in the order of their indices, none above cnt, so   *)
(* that find_lt and find_gteq end and find a neighbour.                    *)
Sorted(u) ==
  /\ Ascending(u.nodes)
  /\ \A k \in Positions(u.nodes) : u.nodes[k].index \in 1 .. u.cnt

(* The walk is at a saved line, below all of them or at the end, and then  *)
(* there is nothing above off for the next push to cut off.                *)
Placed(u) ==
  /\ u.idx \in {0, u.cnt + 1}
       \cup {u.nodes[k].index : k \in Positions(u.nodes)}
  /\ u.idx > u.cnt => u.off = Len(u.nodes)

WellFormed == Sorted(undo) /\ Placed(undo)

Texts(m, n) == [k \in 1 .. n - m + 1 |-> undo.nodes[m + k - 1].text]

(* The saved lines before and after the line.  At the end, and after       *)
(* typing, the next push cuts above off; a line saved there is not before  *)
(* itself.                                                                 *)
Growing == last = "type" \/ AtEnd
Below == CHOOSE k \in 0 .. Len(undo.nodes) :
           IF Growing
           THEN k = undo.off - (IF Equals(undo.nodes, undo.off, line)
                                THEN 1 ELSE 0)
           ELSE FindLt(undo.nodes, undo.idx, k)
Above == CHOOSE k \in 0 .. Len(undo.nodes) :
           FindLt(undo.nodes, undo.idx + 1, k)

Stack == INSTANCE UndoStack
           WITH past <- Texts(1, Below),
                future <- IF Growing THEN <<>>
                          ELSE Texts(Above + 1, Len(undo.nodes))
StackSpec == Stack!Spec

(* "Undo last edit": an undo right after an edit brings back the line that *)
(* was edited.                                                             *)
UndoesEdit == [][UndoLine /\ last = "edit" => line' = from]_vars

(* "Redo edit that was undone": a redo right after an undo brings back the *)
(* line that was undone.                                                   *)
RedoesUndone ==
  [][RedoLine /\ last = "undo" /\ line # from => line' = from]_vars

(* Walking over the saved lines forgets none of them; only what is typed   *)
(* or edited in between cuts off what was undone.                          *)
WalkForgetsNone ==
  [][(UndoLine \/ RedoLine \/ Revert) /\ last # "type"
       => /\ Len(undo.nodes) <= Len(undo'.nodes)
          /\ \A k \in Positions(undo.nodes) : undo'.nodes[k] = undo.nodes[k]]_vars
=============================================================================
