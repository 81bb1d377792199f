----------------------------- MODULE HistSearch -----------------------------
(***************************************************************************)
(* The search in the history (do_search, show_search and cancel_search of  *)
(* src/src/history.cpp, the search actions of src/src/dispatch.cpp) with   *)
(* what it is in the middle of: the undo buffer, to which it pushes the    *)
(* line it takes away and from which it brings it back (Undo), and the     *)
(* walk over the history with its edits (HistEdit).                        *)
(***************************************************************************)
EXTENDS LineSave

CONSTANTS Lines,    \* the texts of the line
          Terms,    \* the texts of the line in search mode, from the '/' on
          Empty,    \* the line of length zero
          Slash,    \* the '/' or '?' alone
          Stored,   \* filter_copy: what make stores of a line
          Matches,  \* Matches[t]: the lines that contain term t
          MaxIndex, \* bound: no line changes beyond this undo.cnt
          MaxHist,  \* bound: lines in the history
          MaxEdits, \* bound: edits of history lines at a time
          Habits    \* what else the user does, a subset of HabitKinds

Texts == Lines \cup Terms

(* A search from an edited line of the history; one that ends beyond the   *)
(* last line of the history; a search key while the term of a search from  *)
(* the new line is entered.                                                *)
HabitKinds == {"fromEdit", "beyond", "again"}

ASSUME HistSearchAssumption ==
  /\ Empty \in Lines /\ Slash \in Terms
  /\ Lines \cap Terms = {}
  /\ Stored \in [Texts -> Texts] /\ \A l \in Lines : Stored[l] \in Lines
  /\ Matches \in [Texts -> SUBSET Lines]
  /\ Matches[Empty] = {} /\ Matches[Slash] = {}
  /\ MaxIndex \in Nat /\ MaxHist \in Nat /\ MaxEdits \in Nat
  /\ Habits \subseteq HabitKinds

VARIABLES
  line, undo, last, mode, from, \* as in Undo, with a mode "search"
  hist, at, off, edit,          \* as in HistEdit
  search,  \* search_buf, search_direction, save_mode, save_action
  sought   \* history variable: the line that the search took away from the
           \* new line, or Slash

undoing == <<undo, last, mode, from>>
history == <<hist, at, off, edit>>
vars == <<line, undoing, history, search, sought>>

U == INSTANCE Undo WITH Lines <- Texts, Habits <- {}
Cleared == INSTANCE Undo WITH Lines <- Texts, Habits <- {}, line <- Empty
H == INSTANCE HistEdit
       WITH Habits <- {}, Stored <- [l \in Lines |-> Stored[l]]

Init ==
  /\ U!Init
  /\ hist \in UNION {[1 .. n -> Lines \ {Empty}] : n \in 0 .. MaxHist}
  /\ \A k \in 1 .. Len(hist) - 1 : hist[k] # hist[k + 1]
  /\ at = 0 /\ off = Len(hist) /\ edit = <<>>
  /\ search = [term |-> Empty, dir |-> 1, saved |-> "insert", inline |-> FALSE]
  /\ sought = Slash

Searching == mode = "search"
Acts(class) == last' = class /\ from' = line

-----------------------------------------------------------------------------
(* The actions of the other modules, outside of search mode.               *)
Editing ==
  /\ ~Searching
  /\ U!Type \/ U!Edit \/ U!Move \/ U!UndoLine \/ U!RedoLine
  /\ line' \in Lines
  /\ sought' = Slash
  /\ UNCHANGED <<history, search>>

(* PREV_ITEM and the other walks; what was typed is pushed first.          *)
Walking ==
  /\ ~Searching
  /\ H!Walk /\ Len(edit') <= MaxEdits
  /\ undo' = U!Pushed
  /\ Acts("move")
  /\ sought' = Slash
  /\ UNCHANGED <<mode, search>>

(* ACTION_FINISH_LINE, not in search mode, and ACTION_INTERRUPT; the       *)
(* term and the direction stay for the next line.                          *)
Finish ==
  /\ U!Finish
  /\ H!Finish
  /\ search' = [search EXCEPT !.saved = "insert", !.inline = FALSE]
  /\ sought' = Slash

-----------------------------------------------------------------------------
(* Mutant: the search does not push the line that it takes away.           *)
BegunNever == undo

(* Mutant: a search that goes on pushes the line that it found.            *)
BegunAlways == IF Searching THEN undo ELSE U!PushUndo(undo)

(* dispatch, before a search action: the line is pushed, whatever came     *)
(* before, when the search does not start from a line of the history.      *)
Begun == IF at = 0 THEN U!PushUndo(undo) ELSE undo

(* The line that a search takes away from the new line.                    *)
Taken == IF at = 0 /\ ~Searching THEN line ELSE sought

(* The search takes away no edit that nothing else holds.                  *)
MayTake ==
  /\ undo.cnt < MaxIndex
  /\ at = 0 => ~U!OffAhead
  /\ at # 0 /\ line # H!Show(edit, at) => "fromEdit" \in Habits

(* '/', '?', ctrl-r, ctrl-s, meta-s: the line is cleared and the term is   *)
(* typed.                                                                  *)
StartSearch ==
  /\ ~Searching /\ MayTake
  /\ undo' = Begun
  /\ line' = Slash
  /\ mode' = "search"
  /\ \E dir \in {1, -1}, inline \in BOOLEAN :
       /\ inline => dir = 1
       /\ search' = [term |-> search.term, dir |-> dir, saved |-> mode,
                     inline |-> inline]
  /\ Acts("type")
  /\ sought' = Taken
  /\ UNCHANGED history

(* Typing and editing in search mode push nothing.                         *)
TypeTerm ==
  /\ Searching
  /\ line' \in Terms
  /\ last' \in {"type", "edit"} /\ from' = line
  /\ UNCHANGED <<undo, mode, history, search, sought>>

-----------------------------------------------------------------------------
(* pop_undo and peek_undo find nothing.                                   *)
NothingPushed(u) == FindLt(u.nodes, u.idx, 0)

(* Mutant: cancel_search does not clear the search mode.                   *)
CancelSearchStays(u, m) ==
  /\ \/ NothingPushed(u) /\ undo' = U!WalkTo(u, u.off, 0) /\ line' = Empty
     \/ \E k \in Positions(u.nodes) :
          /\ FindLt(u.nodes, u.idx, k)
          /\ undo' = U!WalkTo(Cleared!SaveTop(u), k - 1, u.nodes[k].index)
          /\ line' = u.nodes[k].text
  /\ UNCHANGED mode

(* Mutant: cancel_search pops before it clears the line.                   *)
CancelSearchLate(u, m) ==
  /\ \/ NothingPushed(u) /\ undo' = U!WalkTo(u, u.off, 0) /\ line' = Empty
     \/ \E k \in Positions(u.nodes) :
          /\ FindLt(u.nodes, u.idx, k)
          /\ undo' = U!WalkTo(U!SaveTop(u), k - 1, u.nodes[k].index)
          /\ line' = u.nodes[k].text
  /\ mode' = m

(* cancel_search: the line is cleared and pop_undo brings one back, after  *)
(* a push of the cleared line.  m is the mode to go back to.               *)
CancelSearch(u, m) ==
  /\ \/ NothingPushed(u) /\ undo' = U!WalkTo(u, u.off, 0) /\ line' = Empty
     \/ \E k \in Positions(u.nodes) :
          /\ FindLt(u.nodes, u.idx, k)
          /\ undo' = U!WalkTo(Cleared!SaveTop(u), k - 1, u.nodes[k].index)
          /\ line' = u.nodes[k].text
  /\ mode' = m

(* show_search of line k: alone, or inserted into the line that was pushed *)
(* last.                                                                   *)
ShowSearch(u, k, s) ==
  /\ at' = k /\ off' = k
  /\ undo' = u
  /\ line' \in IF s.inline /\ ~NothingPushed(u) THEN Lines \ {Empty}
               ELSE {H!Show(edit, k)}
  /\ mode' = s.saved

(* find_substr from node o: the lines that match, older (1) or newer.      *)
Ahead(o, d) == IF o = 0 THEN {} ELSE IF d = 1 THEN 1 .. o ELSE o .. Len(hist)
Nearest(ks, d) == CHOOSE k \in ks : \A j \in ks : d * j <= d * k
Farthest(ks, d) == Nearest(ks, -d)

(* do_search with the settings s, for text or, when there is none, for the *)
(* last term; d is the direction.  A search that goes on from a line skips *)
(* the lines that are the same as the one at hist.off.                     *)
DoSearch(u, text, s, d) ==
  LET renewed == text \notin {Empty, Slash}
      term == IF renewed THEN text ELSE s.term
      goesOn == ~renewed /\ at # 0
      start == IF goesOn THEN Find(hist, off, at - d)
               ELSE IF d = 1 \/ hist = <<>> THEN Len(hist) ELSE 1
      hits == {k \in Ahead(start, d) : hist[k] \in Matches[term]}
      fresh == {k \in hits : goesOn /\ off # 0 => hist[k] # hist[off]}
      end == IF hits = {} THEN start
             ELSE IF goesOn THEN Find(hist, off, Farthest(hits, d) - d)
             ELSE start
  IN  /\ search' = [term |-> term, dir |-> s.dir, saved |-> s.saved,
                    inline |-> s.inline]
      /\ \/ /\ fresh # {}
            /\ ShowSearch(u, Nearest(fresh, d), s)
            /\ sought' = Taken
         \/ /\ fresh = {}
            /\ hist # <<>> /\ end = 0 => "beyond" \in Habits
            /\ at' = IF renewed THEN 0
                     ELSE IF hits = {} THEN at ELSE Farthest(hits, d)
            /\ off' = end
            /\ CancelSearch(u, s.saved)
            /\ sought' = Slash
      /\ UNCHANGED <<hist, edit>>

(* ACTION_FINISH_LINE in search mode.                                      *)
FinishTerm ==
  /\ Searching
  /\ DoSearch(undo, line, search, search.dir)
  /\ Acts("move")

(* The settings of a search outside of search mode, which goes back to the *)
(* mode it is in.                                                          *)
Here == [term |-> search.term, dir |-> search.dir, saved |-> mode,
         inline |-> search.inline]

(* ACTION_SEARCH_NEXT and ACTION_SEARCH_NEXT_REV: 'n' and 'N'.             *)
SearchNext ==
  /\ mode = "command" /\ MayTake
  /\ \/ DoSearch(Begun, Empty, Here, search.dir) /\ Acts("search")
     \/ DoSearch(Begun, Empty, Here, -search.dir) /\ Acts("move")

(* ctrl-r or ctrl-s while a term is entered: the term is erased, and the   *)
(* search is the one for the last term.                                    *)
SearchAgain ==
  /\ Searching /\ undo.cnt < MaxIndex
  /\ at = 0 => "again" \in Habits
  /\ \/ DoSearch(Begun, Empty, search, search.dir) /\ Acts("search")
     \/ DoSearch(Begun, Empty, search, -search.dir) /\ Acts("move")

(* ACTION_HISTORY_COMPLETE: a search for the line; the next one after it   *)
(* or after a SEARCH_NEXT goes on with the last term.                      *)
HistComplete ==
  /\ ~Searching /\ MayTake
  /\ \/ last = "search" /\ DoSearch(Begun, Empty, Here, search.dir)
     \/ last # "search" /\ DoSearch(Begun, line, [Here EXCEPT !.dir = 1], 1)
  /\ Acts("search")

(* ACTION_VI_ESC, ACTION_CANCEL_SEARCH, and ACTION_BACKSPACE of the slash. *)
CancelTerm ==
  /\ Searching
  /\ CancelSearch(undo, search.saved)
  /\ Acts("move")
  /\ sought' = Slash
  /\ UNCHANGED <<history, search>>

(* A line is logged here or in another shell.                              *)
PushHistory ==
  /\ H!PushHistory
  /\ UNCHANGED <<undoing, search, sought>>

Next == \/ Editing \/ Walking \/ Finish \/ PushHistory
        \/ StartSearch \/ TypeTerm \/ CancelTerm
        \/ FinishTerm \/ SearchNext \/ SearchAgain \/ HistComplete

Spec == Init /\ [][Next]_vars
-----------------------------------------------------------------------------
(* Properties.                                                             *)

TypeOK ==
  /\ line \in IF Searching THEN Terms ELSE Lines
  /\ undo \in U!UndoBuffer /\ undo.off <= Len(undo.nodes)
  /\ last \in U!Classes \cup {"search"}
  /\ mode \in {"insert", "command", "search"}
  /\ hist \in Seq(Lines) /\ edit \in Seq(H!EditNode)
  /\ at \in 0 .. Len(hist) /\ off \in 0 .. Len(hist)
  /\ search \in [term : Texts, dir : {1, -1}, saved : {"insert", "command"},
                 inline : BOOLEAN]

(* "While a search is being entered, no undos are pushed": no term gets    *)
(* among the lines that undo and a cancelled search bring back (dispatch). *)
TermsNotPushed == \A k \in Positions(undo.nodes) : undo.nodes[k].text \in Lines

(* A search that finds nothing, or that is cancelled, brings back the line *)
(* that was on the new line when the first search took it away             *)
(* (cancel_search).                                                        *)
Searches == FinishTerm \/ SearchNext \/ SearchAgain \/ HistComplete
MissBringsBack ==
  [][(Searches \/ CancelTerm) /\ sought' = Slash /\ Taken # Slash
       => line' = Taken]_vars

(* An undo right after a search that found a line brings back the line     *)
(* that the first search took away.                                        *)
UndoesSearch ==
  [][Editing /\ U!UndoLine /\ sought # Slash => line' = sought]_vars
=============================================================================
