-------------------------- MODULE HistSearchProofs --------------------------
(***************************************************************************)
(* What is proved of HistSearch, for any lines, terms and matches and a    *)
(* history of any length, as long as no search key is pressed while the    *)
(* term of a search from the new line is entered ("again"): the search is  *)
(* well typed with the undo buffer and the walk that it is in the middle   *)
(* of, no term gets into the undo buffer; and when lines are stored as     *)
(* they are, a search that finds nothing or is cancelled, and an undo      *)
(* after one that found a line, bring back the line that it took away.     *)
(* The facts about the undo buffer and the walk are those of UndoProofs    *)
(* and HistEditProofs, with the constants that the search gives them.      *)
(***************************************************************************)
EXTENDS HistSearch, SequenceTheorems, WellFoundedInduction, TLAPS

(* The undo buffer outside of search mode, where all lines are in Lines;   *)
(* the same while cancel_search has cleared the line; and the walk.        *)
L == INSTANCE UndoProofs WITH Habits <- {}, Stored <- [l \in Lines |-> Stored[l]]
C == INSTANCE UndoProofs
       WITH Habits <- {}, Stored <- [l \in Lines |-> Stored[l]], line <- Empty
W == INSTANCE HistEditProofs
       WITH Habits <- {}, Stored <- [l \in Lines |-> Stored[l]]
Q == INSTANCE HistEditProofs
       WITH Habits <- {}, Stored <- [l \in Lines |-> Stored[l]], line <- Empty

(* What the instances assume of their constants.                           *)
LEMMA Instances ==
  L!UndoAssumption /\ C!UndoAssumption /\ W!HistEditAssumption /\ Q!HistEditAssumption
BY HistSearchAssumption
   DEF L!UndoAssumption, C!UndoAssumption, W!HistEditAssumption, Q!HistEditAssumption

-----------------------------------------------------------------------------
(* The operations of the search are those of the instances.                *)

LEMMA PushSame ==
  ASSUME NEW u, line \in Lines
  PROVE  U!PushUndo(u) = L!PushUndo(u)
<1>1. [l \in Lines |-> Stored[l]][line] = Stored[line]
  OBVIOUS
<1> QED BY <1>1 DEF U!PushUndo, L!PushUndo, U!Equals, L!Equals, U!Make, L!Make

LEMMA ClearedSame ==
  ASSUME NEW u
  PROVE  Cleared!SaveTop(u) = C!SaveTop(u)
<1>1. [l \in Lines |-> Stored[l]][Empty] = Stored[Empty]
  BY HistSearchAssumption
<1>2. Cleared!PushUndo(u) = C!PushUndo(u)
  BY <1>1 DEF Cleared!PushUndo, C!PushUndo, Cleared!Equals, C!Equals, Cleared!Make, C!Make
<1> QED BY <1>2 DEF Cleared!SaveTop, C!SaveTop

LEMMA WalkToSame ==
  ASSUME NEW u, NEW n, NEW i
  PROVE  /\ U!WalkTo(u, n, i) = L!WalkTo(u, n, i)
         /\ U!WalkTo(u, n, i) = C!WalkTo(u, n, i)
BY DEF U!WalkTo, L!WalkTo, C!WalkTo

LEMMA GoodSame ==
  ASSUME NEW u
  PROVE  /\ L!Good(u) <=> C!Good(u)
         /\ L!Place(u) <=> C!Place(u)
BY DEF L!Good, C!Good, L!UndoBuffer, C!UndoBuffer, L!Node, C!Node, L!Sorted, C!Sorted,
       L!Ascending, C!Ascending, L!Positions, C!Positions, L!Placed, C!Placed,
       L!Place, C!Place

LEMMA PushedSame ==
  ASSUME line \in Lines
  PROVE  U!Pushed = L!Pushed
BY PushSame DEF U!Pushed, L!Pushed

LEMMA UndoSame ==
  ASSUME line \in Lines, U!UndoLine
  PROVE  L!UndoLine
<1>1. U!Pushed = L!Pushed
  BY PushedSame
<1>2. \A u : U!SaveTop(u) = L!SaveTop(u)
  BY PushSame DEF U!SaveTop, L!SaveTop
<1> QED BY <1>1, <1>2, WalkToSame
        DEF U!UndoLine, L!UndoLine, U!FindLt, L!FindLt, U!Positions, L!Positions,
            U!NothingSaved, L!NothingSaved, U!OffAhead, L!OffAhead, U!Acts, L!Acts

LEMMA RedoSame ==
  ASSUME line \in Lines, U!RedoLine
  PROVE  L!RedoLine
<1>1. U!Pushed = L!Pushed
  BY PushedSame
<1> QED BY <1>1, WalkToSame
        DEF U!RedoLine, L!RedoLine, U!FindGteq, L!FindGteq, U!Positions, L!Positions,
            U!NothingSaved, L!NothingSaved, U!Acts, L!Acts

LEMMA ShowSame ==
  ASSUME NEW nodes, NEW i
  PROVE  H!Show(nodes, i) = W!Show(nodes, i)
BY DEF H!Show, W!Show, H!Scan, W!Scan, H!Positions, W!Positions

LEMMA MoveSame ==
  ASSUME NEW i, NEW o
  PROVE  H!Move(i, o) <=> W!Move(i, o)
<1>1. \A j : H!Scan(edit, j) = W!Scan(edit, j)
  BY DEF H!Scan, W!Scan, H!Positions, W!Positions
<1>2. \A e, r : H!Find(e, r, i) = W!Find(e, r, i) /\ H!Find(e, r, at) = W!Find(e, r, at)
  BY DEF H!Find, W!Find, H!Positions, W!Positions
<1>3. \A nodes, k, t : /\ H!Retext(nodes, k, t) = W!Retext(nodes, k, t)
                       /\ H!Remove(nodes, k) = W!Remove(nodes, k)
                       /\ H!Make(nodes, t, k) = W!Make(nodes, t, k)
  BY DEF H!Retext, W!Retext, H!Remove, W!Remove, H!Make, W!Make, H!Positions, W!Positions
<1>4. \A e : H!EmptyEdit(e) = W!EmptyEdit(e)
  BY <1>3 DEF H!EmptyEdit, W!EmptyEdit
<1>5. \A r : H!SaveEdit(at, r) = W!SaveEdit(at, r)
  BY <1>1, <1>2, <1>3, <1>4 DEF H!SaveEdit, W!SaveEdit
<1>6. H!Plain(at) <=> W!Plain(at)
  BY <1>1 DEF H!Plain, W!Plain
<1> QED BY <1>2, <1>5, <1>6, ShowSame DEF H!Move, W!Move

LEMMA WalkSame ==
  ASSUME H!Walk
  PROVE  W!Walk
<1>1. H!Pages = W!Pages /\ \A w : H!OffPage(w) <=> W!OffPage(w)
  BY DEF H!Pages, W!Pages, H!OffPage, W!OffPage, H!Positions, W!Positions
<1>2. \A i : H!NewerLine(i) <=> W!NewerLine(i)
  BY MoveSame DEF H!NewerLine, W!NewerLine, H!Positions, W!Positions
<1>3. H!OlderLine <=> W!OlderLine
  BY MoveSame DEF H!OlderLine, W!OlderLine
<1>4. H!HistoryOlder => W!HistoryOlder
  BY <1>1, <1>3, MoveSame DEF H!HistoryOlder, W!HistoryOlder
<1>5. H!HistoryNewer => W!HistoryNewer
  BY <1>1, <1>2 DEF H!HistoryNewer, W!HistoryNewer
<1>6. H!HistoryTop => W!HistoryTop
  BY <1>1, <1>2, MoveSame DEF H!HistoryTop, W!HistoryTop
<1>7. H!HistoryMiddle => W!HistoryMiddle
  BY <1>1, MoveSame DEF H!HistoryMiddle, W!HistoryMiddle
<1>8. H!HistoryBottom => W!HistoryBottom
  BY <1>1, <1>3, MoveSame DEF H!HistoryBottom, W!HistoryBottom
<1> QED BY <1>4, <1>5, <1>6, <1>7, <1>8 DEF H!Walk, W!Walk

LEMMA LogSame ==
  ASSUME H!PushHistory
  PROVE  Q!PushHistory
<1>1. \A l \in Lines : [k \in Lines |-> Stored[k]][l] = Stored[l]
  OBVIOUS
<1> QED BY <1>1 DEF H!PushHistory, Q!PushHistory

-----------------------------------------------------------------------------
(* find_substr.                                                            *)

(* A set of numbers has a least one.                                       *)
LEMMA Least ==
  ASSUME NEW S \in SUBSET Nat, S # {}
  PROVE  \E k \in S : \A j \in S : k <= j
<1> DEFINE R == OpToRel(<, Nat)
<1>1. IsWellFoundedOn(R, Nat)
  BY NatLessThanWellFounded
<1>2. \A j, k \in S : j < k => <<j, k>> \in R
  BY DEF OpToRel
<1> HIDE DEF R
<1>3. PICK k \in S : \A j \in S : ~(<<j, k>> \in R)
  BY <1>1, WFMin
<1>4. \A j \in S : j \in Nat
  OBVIOUS
<1>5. \A j \in S : ~(j < k)
  BY <1>2, <1>3
<1> QED BY <1>4, <1>5


(* The nearest of the lines that match, in either direction, is one.       *)
LEMMA NearestIn ==
  ASSUME NEW n \in Nat, NEW S \in SUBSET (1 .. n), S # {}, NEW d \in {1, -1}
  PROVE  Nearest(S, d) \in S
<1>1. \E k \in S : \A j \in S : d * j <= d * k
  <2>1. CASE d = 1
    <3> DEFINE T == {n - k : k \in S}
    <3>1. T \in SUBSET Nat /\ T # {}
      <4>1. \A k \in S : k \in 1 .. n /\ n - k \in Nat
        OBVIOUS
      <4> QED BY <4>1
    <3>2. PICK m \in T : \A j \in T : m <= j
      BY <3>1, Least, Zenon
    <3>3. PICK k \in S : m = n - k
      BY <3>2
    <3>4. \A j \in S : n - j \in T
      OBVIOUS
    <3>5. \A j \in S : j <= k
      BY <3>2, <3>3, <3>4
    <3> QED BY <2>1, <3>3, <3>5
  <2>2. CASE d = -1
    <3>1. S \in SUBSET Nat
      OBVIOUS
    <3>2. PICK k \in S : \A j \in S : k <= j
      BY <3>1, Least, Zenon
    <3> QED BY <2>2, <3>2
  <2> QED BY <2>1, <2>2
<1> QED BY <1>1 DEF Nearest

(* find from a node finds a line of the history or nothing.                *)
LEMMA FindWithin ==
  ASSUME NEW n \in Nat, Len(hist) = n, NEW o, NEW i
  PROVE  Find(hist, o, i) \in 0 .. n
BY DEF Find, Positions

(* The lines ahead of a node are lines of the history.                     *)
LEMMA AheadWithin ==
  ASSUME NEW n \in Nat, Len(hist) = n, NEW o \in 0 .. n, NEW d \in {1, -1}
  PROVE  Ahead(o, d) \in SUBSET (1 .. n)
BY DEF Ahead

-----------------------------------------------------------------------------
(* Types, with a good buffer of lines and at most one edit of each line.   *)
Settings == [term : Texts, dir : {1, -1}, saved : {"insert", "command"},
             inline : BOOLEAN]

Walked ==
  /\ hist \in Seq(Lines)
  /\ W!Edits(edit, Len(hist))
  /\ at \in 0 .. Len(hist) /\ off \in 0 .. Len(hist)

TypeInv ==
  /\ line \in IF Searching THEN Terms ELSE Lines
  /\ L!Good(undo)
  /\ last \in U!Classes \cup {"search"}
  /\ mode \in {"insert", "command", "search"}
  /\ Walked
  /\ search \in Settings

LEMMA TypeInvGives == TypeInv => TypeOK /\ TermsNotPushed
<1> SUFFICES ASSUME TypeInv PROVE TypeOK /\ TermsNotPushed
  OBVIOUS
<1>1. undo \in L!UndoBuffer /\ undo.off <= Len(undo.nodes) /\ undo.nodes \in Seq(L!Node)
  BY DEF TypeInv, L!Good, L!UndoBuffer
<1>2. L!Node \subseteq U!Node
  BY DEF L!Node, U!Node, Texts
<1>3. undo.nodes \in Seq(U!Node)
  BY <1>1, <1>2, SeqMonotonic
<1>4. undo \in U!UndoBuffer
  BY <1>1, <1>3 DEF L!UndoBuffer, U!UndoBuffer
<1>5. edit \in Seq(H!EditNode)
  BY DEF TypeInv, Walked, W!Edits, W!EditNode, H!EditNode
<1>6. TypeOK
  BY <1>1, <1>4, <1>5 DEF TypeInv, TypeOK, Settings, Walked
<1>7. TermsNotPushed
  <2>1. \A k \in 1 .. Len(undo.nodes) : undo.nodes[k] \in L!Node
    BY <1>1, ElementOfSeq
  <2> QED BY <2>1 DEF TermsNotPushed, Positions, L!Node
<1> QED BY <1>6, <1>7

(* The walk outside of search mode.                                        *)
LEMMA WalkInv ==
  ASSUME Walked
  PROVE  /\ line \in Lines => W!Inv
         /\ Q!Inv
         /\ Len(hist) \in Nat
<1>1. Empty \in Lines
  BY HistSearchAssumption
<1>2. Len(hist) \in Nat
  BY LenProperties DEF Walked
<1>3. line \in Lines => W!Inv
  BY DEF Walked, W!Inv, W!TypeOK, W!OneEditEach, W!Edits, W!Positions, Positions
<1>4. Q!Inv
  BY <1>1 DEF Walked, Q!Inv, Q!TypeOK, Q!OneEditEach, W!Edits, W!Positions, Q!Positions,
              W!EditNode, Q!EditNode
<1> QED BY <1>2, <1>3, <1>4

LEMMA WalkingKeeps ==
  ASSUME Walked, line \in Lines, H!Walk
  PROVE  Walked' /\ line' \in Lines
<1>1. W!Inv /\ W!Next
  BY WalkInv, WalkSame DEF W!Next
<1>2. W!Inv'
  BY <1>1, W!InvInductive, Instances
<1> QED BY <1>2 DEF Walked, W!Inv, W!TypeOK, W!OneEditEach, W!Edits, W!Positions

LEMMA LoggingKeeps ==
  ASSUME Walked, H!PushHistory
  PROVE  Walked'
<1>1. Q!Inv /\ Q!Next
  BY WalkInv, LogSame DEF Q!Next
<1>2. Q!Inv'
  BY <1>1, Q!InvInductive, Instances
<1> QED BY <1>2 DEF Walked, Q!Inv, Q!TypeOK, Q!OneEditEach, W!Edits, W!Positions, Q!Positions,
                    W!EditNode, Q!EditNode

(* What is shown of a line is a line.                                      *)
LEMMA ShowLines ==
  ASSUME Walked, NEW k \in 0 .. Len(hist)
  PROVE  H!Show(edit, k) \in Lines
BY W!ShownLines, W!ShowShown, ShowSame, Instances DEF Walked
-----------------------------------------------------------------------------
(* The operations keep the types.                                          *)

(* Before a search action a line is pushed that is on the new line, and    *)
(* never a term.                                                           *)
LEMMA BegunGood ==
  ASSUME "again" \notin Habits, TypeInv, Searching => at # 0
  PROVE  L!Good(Begun)
<1>1. CASE at = 0
  <2>1. line \in Lines /\ Begun = L!PushUndo(undo)
    BY <1>1, PushSame DEF TypeInv, Begun
  <2> QED BY <2>1, L!PushKeeps, Instances DEF TypeInv
<1>2. CASE at # 0
  BY <1>2 DEF TypeInv, Begun
<1> QED BY <1>1, <1>2

(* cancel_search brings back a line, or the empty one.                     *)
LEMMA CancelKeeps ==
  ASSUME NEW u, L!Good(u), NEW m, CancelSearch(u, m)
  PROVE  L!Good(undo') /\ L!Place(undo') /\ line' \in Lines /\ mode' = m
<1>1. mode' = m
  BY DEF CancelSearch
<1>2. CASE undo' = U!WalkTo(u, u.off, 0) /\ line' = Empty
  <2>1. L!Good(L!WalkTo(u, u.off, 0))
    BY L!BottomGood, Instances
  <2>2. L!Place(L!WalkTo(u, u.off, 0))
    BY DEF L!Place, L!WalkTo
  <2> QED BY <1>1, <1>2, <2>1, <2>2, WalkToSame, HistSearchAssumption
<1>3. ASSUME NEW k \in Positions(u.nodes),
             undo' = U!WalkTo(Cleared!SaveTop(u), k - 1, u.nodes[k].index),
             line' = u.nodes[k].text
      PROVE  L!Good(undo') /\ L!Place(undo') /\ line' \in Lines
  <2>1. PICK v : v = C!SaveTop(u)
    OBVIOUS
  <2>2. Empty \in Lines /\ C!Good(u)
    BY GoodSame, HistSearchAssumption
  <2>3. /\ L!Good(v) /\ Len(u.nodes) <= Len(v.nodes)
        /\ \A j \in Positions(u.nodes) : v.nodes[j] = u.nodes[j]
    <3>1. /\ C!Good(v) /\ Len(u.nodes) <= Len(v.nodes)
          /\ \A j \in C!Positions(u.nodes) : v.nodes[j] = u.nodes[j]
      BY <2>1, <2>2, C!SaveTopKeeps, Instances
    <3> QED BY <3>1, GoodSame DEF C!Positions, Positions
  <2>4. Len(u.nodes) \in Nat /\ Len(v.nodes) \in Nat
    BY <2>3, LenProperties DEF L!Good, L!UndoBuffer
  <2>5. k \in L!Positions(v.nodes) /\ k - 1 \in {k - 1, k} /\ v.nodes[k] = u.nodes[k]
    BY <2>3, <2>4 DEF L!Positions, Positions
  <2>6. undo' = L!WalkTo(v, k - 1, v.nodes[k].index) /\ line' = v.nodes[k].text
    BY <1>3, <2>1, <2>5, ClearedSame, WalkToSame
  <2> QED BY <2>3, <2>5, <2>6, L!WalkGood, L!WalkPlaced, Instances
<1> QED BY <1>1, <1>2, <1>3 DEF CancelSearch

(* How a search ends: with a line of the history and the buffer as it was, *)
(* or cancelled.                                                           *)
FoundFrom(u, m) ==
  /\ undo' = u /\ line' \in Lines /\ mode' = m
  /\ at' # 0 /\ sought' = Taken
Missed(u, m) == CancelSearch(u, m) /\ sought' = Slash

LEMMA SearchEnds ==
  ASSUME TypeInv, NEW u, NEW text \in Texts, NEW s \in Settings, NEW d \in {1, -1},
         DoSearch(u, text, s, d)
  PROVE  /\ Walked' /\ search' \in Settings
         /\ FoundFrom(u, s.saved) \/ Missed(u, s.saved)
<1> DEFINE renewed == text \notin {Empty, Slash}
           term == IF renewed THEN text ELSE s.term
           goesOn == ~renewed /\ at # 0
           start == IF goesOn THEN Find(hist, off, at - d)
                    ELSE IF d = 1 \/ hist = <<>> THEN Len(hist) ELSE 1
           hits == {k \in Ahead(start, d) : hist[k] \in Matches[term]}
           fresh == {k \in hits : goesOn /\ off # 0 => hist[k] # hist[off]}
           end == IF hits = {} THEN start
                  ELSE IF goesOn THEN Find(hist, off, Farthest(hits, d) - d)
                  ELSE start
<1>1. /\ search' = [term |-> term, dir |-> s.dir, saved |-> s.saved,
                    inline |-> s.inline]
      /\ \/ /\ fresh # {}
            /\ ShowSearch(u, Nearest(fresh, d), s)
            /\ sought' = Taken
         \/ /\ fresh = {}
            /\ at' = IF renewed THEN 0
                     ELSE IF hits = {} THEN at ELSE Farthest(hits, d)
            /\ off' = end
            /\ CancelSearch(u, s.saved)
            /\ sought' = Slash
      /\ hist' = hist /\ edit' = edit
  BY DEF DoSearch
<1>2. search' \in Settings
  BY <1>1 DEF Settings
<1>3. PICK n \in Nat : Len(hist) = n
  BY WalkInv DEF TypeInv
<1>4. start \in 0 .. n
  <2>1. hist # <<>> => n > 0
    BY <1>3, EmptySeq DEF TypeInv, Walked
  <2>2. Find(hist, off, at - d) \in 0 .. n
    BY <1>3, FindWithin
  <2> QED BY <1>3, <2>1, <2>2
<1>5. Ahead(start, d) \in SUBSET (1 .. n)
  BY <1>3, <1>4, AheadWithin
<1>6. fresh \subseteq hits /\ hits \in SUBSET (1 .. n) /\ fresh \in SUBSET (1 .. n)
  BY <1>5
<1>7. hits # {} => Farthest(hits, d) \in 1 .. n
  <2>1. -d \in {1, -1}
    OBVIOUS
  <2> QED BY <1>6, <2>1, NearestIn DEF Farthest
<1>8. end \in 0 .. n
  BY <1>3, <1>4, FindWithin
<1> HIDE DEF renewed, term, goesOn, start, hits, fresh, end
<1>9. CASE fresh # {} /\ ShowSearch(u, Nearest(fresh, d), s) /\ sought' = Taken
  <2>1. PICK k \in 1 .. n : k = Nearest(fresh, d)
    BY <1>6, <1>9, NearestIn
  <2>2. /\ at' = k /\ off' = k /\ undo' = u /\ mode' = s.saved
        /\ line' \in Lines \/ line' = H!Show(edit, k)
    BY <1>9, <2>1 DEF ShowSearch
  <2>3. line' \in Lines
    BY <1>3, <2>1, <2>2, ShowLines DEF TypeInv
  <2>4. Walked'
    BY <1>1, <1>3, <2>1, <2>2 DEF TypeInv, Walked
  <2>5. at' # 0
    BY <2>1, <2>2
  <2> QED BY <1>2, <1>9, <2>2, <2>3, <2>4, <2>5 DEF FoundFrom
<1>10. CASE /\ at' = IF renewed THEN 0
                     ELSE IF hits = {} THEN at ELSE Farthest(hits, d)
            /\ off' = end
            /\ CancelSearch(u, s.saved)
            /\ sought' = Slash
  <2>1. at' \in 0 .. n /\ off' \in 0 .. n
    <3>1. at \in 0 .. n /\ 1 .. n \subseteq 0 .. n /\ 0 \in 0 .. n
      BY <1>3 DEF TypeInv, Walked
    <3> QED BY <1>7, <1>8, <1>10, <3>1
  <2>2. Walked'
    BY <1>1, <1>3, <2>1 DEF TypeInv, Walked
  <2> QED BY <1>2, <1>10, <2>2 DEF Missed
<1> QED BY <1>1, <1>9, <1>10
(* The buffer from which a search goes on: the line on the new line is     *)
(* pushed.                                                                 *)
Pushing == at = 0 /\ ~Searching
Base == IF Pushing THEN L!PushUndo(undo) ELSE undo

(* Every search ends in one of the two ways.                               *)
SearchEnded ==
  /\ Walked' /\ search' \in Settings
  /\ last' \in {"move", "search"}
  /\ L!Good(Base) /\ (Pushing => ~L!OffAhead)
  /\ \E m \in {"insert", "command"} : FoundFrom(Base, m) \/ Missed(Base, m)

LEMMA SearchesEnd ==
  ASSUME "again" \notin Habits, TypeInv, Searches
  PROVE  SearchEnded
<1>1. /\ search \in Settings /\ search.dir \in {1, -1} /\ -search.dir \in {1, -1}
      /\ search.saved \in {"insert", "command"}
  BY DEF TypeInv, Settings
<1>2. Empty \in Texts /\ line \in Texts
  BY HistSearchAssumption DEF TypeInv, Texts
<1>3. ASSUME ~Searching \/ at # 0
      PROVE  L!Good(Begun) /\ Begun = Base
  <2>1. L!Good(Begun)
    BY <1>3, BegunGood
  <2>2. line \in Lines \/ Searching
    BY DEF TypeInv
  <2> QED BY <1>3, <2>1, <2>2, PushSame DEF Begun, Base, Pushing
<1>4. MayTake /\ Pushing => ~L!OffAhead
  BY DEF MayTake, Pushing, U!OffAhead, L!OffAhead
<1>5. ASSUME ~Searching
      PROVE  /\ Here \in Settings /\ [Here EXCEPT !.dir = 1] \in Settings
             /\ Here.saved \in {"insert", "command"}
             /\ [Here EXCEPT !.dir = 1].saved \in {"insert", "command"}
  BY <1>1, <1>5 DEF Here, Settings, TypeInv, Searching
<1>6. CASE FinishTerm
  <2>1. Searching /\ DoSearch(undo, line, search, search.dir) /\ last' = "move"
    BY <1>6 DEF FinishTerm, Acts
  <2>2. Base = undo /\ ~Pushing /\ L!Good(undo)
    BY <2>1 DEF Base, Pushing, TypeInv
  <2>3. /\ Walked' /\ search' \in Settings
        /\ FoundFrom(Base, search.saved) \/ Missed(Base, search.saved)
    BY <1>1, <1>2, <2>1, <2>2, SearchEnds
  <2> QED BY <1>1, <2>1, <2>2, <2>3 DEF SearchEnded
<1>7. CASE SearchNext
  <2>1. /\ ~Searching /\ MayTake /\ last' \in {"move", "search"}
        /\ \E d \in {1, -1} : DoSearch(Begun, Empty, Here, d)
    BY <1>1, <1>7 DEF SearchNext, Searching, Acts
  <2>2. /\ Walked' /\ search' \in Settings
        /\ FoundFrom(Base, Here.saved) \/ Missed(Base, Here.saved)
    BY <1>2, <1>3, <1>5, <2>1, SearchEnds
  <2> QED BY <1>3, <1>4, <1>5, <2>1, <2>2 DEF SearchEnded
<1>8. CASE SearchAgain
  <2>1. /\ Searching /\ at # 0 /\ last' \in {"move", "search"}
        /\ \E d \in {1, -1} : DoSearch(Begun, Empty, search, d)
    BY <1>1, <1>8 DEF SearchAgain, Acts
  <2>2. /\ Walked' /\ search' \in Settings
        /\ FoundFrom(Base, search.saved) \/ Missed(Base, search.saved)
    BY <1>1, <1>2, <1>3, <2>1, SearchEnds
  <2>3. ~Pushing
    BY <2>1 DEF Pushing
  <2> QED BY <1>1, <1>3, <2>1, <2>2, <2>3 DEF SearchEnded
<1>9. CASE HistComplete
  <2>1. /\ ~Searching /\ MayTake /\ last' \in {"move", "search"}
        /\ \/ DoSearch(Begun, Empty, Here, search.dir)
           \/ DoSearch(Begun, line, [Here EXCEPT !.dir = 1], 1)
    BY <1>9 DEF HistComplete, Acts
  <2>2. 1 \in {1, -1}
    OBVIOUS
  <2>3. /\ Walked' /\ search' \in Settings
        /\ \E m \in {"insert", "command"} : FoundFrom(Base, m) \/ Missed(Base, m)
    <3>1. CASE DoSearch(Begun, Empty, Here, search.dir)
      BY <1>1, <1>2, <1>3, <1>5, <2>1, <3>1, SearchEnds
    <3>2. CASE DoSearch(Begun, line, [Here EXCEPT !.dir = 1], 1)
      BY <1>2, <1>3, <1>5, <2>1, <2>2, <3>2, SearchEnds
    <3> QED BY <2>1, <3>1, <3>2
  <2> QED BY <1>3, <1>4, <2>1, <2>3 DEF SearchEnded
<1> QED BY <1>6, <1>7, <1>8, <1>9 DEF Searches

(* The actions of Undo outside of search mode.                             *)
LEMMA EditingKeeps ==
  ASSUME TypeInv, Editing
  PROVE  L!Good(undo') /\ last' \in U!Classes /\ mode' \in {"insert", "command"}
<1>1. line \in Lines /\ L!Good(undo) /\ mode \in {"insert", "command"}
  BY DEF Editing, TypeInv, Searching
<1>2. CASE U!Type
  BY <1>1, <1>2 DEF U!Type, U!Acts, U!Classes
<1>3. CASE U!Edit
  <2>1. undo' = L!PushUndo(undo)
    BY <1>1, <1>3, PushSame DEF U!Edit
  <2> QED BY <1>1, <1>3, <2>1, L!PushKeeps, Instances DEF U!Edit, U!Acts, U!Classes
<1>4. CASE U!Move
  <2>1. undo' = L!Pushed
    BY <1>1, <1>4, PushedSame DEF U!Move
  <2> QED BY <1>1, <1>4, <2>1, L!PushedGood, Instances DEF U!Move, U!Acts, U!Classes
<1>5. CASE U!UndoLine
  <2>1. L!Good(undo')
    BY <1>1, <1>5, UndoSame, L!UndoStep, Instances
  <2> QED BY <1>1, <1>5, <2>1 DEF U!UndoLine, U!Acts, U!Classes
<1>6. CASE U!RedoLine
  <2>1. L!Good(undo')
    BY <1>1, <1>6, RedoSame, L!RedoStep, Instances
  <2> QED BY <1>1, <1>6, <2>1 DEF U!RedoLine, U!Acts, U!Classes
<1> QED BY <1>2, <1>3, <1>4, <1>5, <1>6 DEF Editing

(* No action breaks the types.                                             *)
LEMMA TypeInvStep ==
  ASSUME "again" \notin Habits, TypeInv, [Next]_vars
  PROVE  TypeInv'
<1>1. /\ L!Good(undo) /\ Walked /\ search \in Settings
      /\ last \in U!Classes \cup {"search"} /\ Slash \in Terms /\ Empty \in Lines
      /\ mode \in {"insert", "command", "search"}
      /\ Searching \/ line \in Lines
      /\ {"move", "type", "edit", "none"} \subseteq U!Classes
  BY HistSearchAssumption DEF TypeInv, U!Classes
<1>2. UNCHANGED history => Walked'
  BY <1>1 DEF history, Walked
<1>3. CASE Editing
  <2>1. L!Good(undo') /\ last' \in U!Classes /\ mode' \in {"insert", "command"}
    BY <1>3, EditingKeeps
  <2>2. Walked' /\ search' = search /\ line' \in Lines
    BY <1>2, <1>3 DEF Editing
  <2> QED BY <1>1, <2>1, <2>2 DEF TypeInv, Searching
<1>4. CASE Walking
  <2>1. line \in Lines /\ mode \in {"insert", "command"}
    BY <1>1, <1>4 DEF Walking, Searching
  <2>2. Walked' /\ line' \in Lines
    BY <1>1, <1>4, <2>1, WalkingKeeps DEF Walking
  <2>3. L!Good(undo')
    <3>1. undo' = L!Pushed
      BY <1>4, <2>1, PushedSame DEF Walking
    <3> QED BY <1>1, <2>1, <3>1, L!PushedGood, Instances
  <2>4. last' = "move" /\ mode' = mode /\ search' = search
    BY <1>4 DEF Walking, Acts
  <2> QED BY <1>1, <2>1, <2>2, <2>3, <2>4 DEF TypeInv, Searching
<1>5. CASE Finish
  <2>1. line' = Empty /\ undo' = L!NoUndo /\ last' = "none" /\ mode' = "insert"
    BY <1>5 DEF Finish, U!Finish, U!NoUndo, L!NoUndo, U!Acts
  <2>2. L!Good(undo')
    BY <2>1, L!EmptyGood, Instances
  <2>3. hist' = hist /\ at' = 0 /\ off' = Len(hist) /\ edit' = <<>>
    BY <1>5 DEF Finish, H!Finish
  <2>4. Walked'
    <3>1. W!Edits(<<>>, Len(hist))
      BY EmptySeq DEF W!Edits, W!Positions
    <3> QED BY <1>1, <2>3, <3>1, WalkInv DEF Walked
  <2>5. search' \in Settings
    BY <1>1, <1>5 DEF Finish, Settings
  <2> QED BY <1>1, <2>1, <2>2, <2>4, <2>5 DEF TypeInv, Searching
<1>6. CASE PushHistory
  <2>1. Walked'
    BY <1>1, <1>6, LoggingKeeps DEF PushHistory
  <2>2. line' = line /\ undo' = undo /\ last' = last /\ mode' = mode /\ search' = search
    BY <1>6 DEF PushHistory, H!PushHistory, undoing
  <2> QED BY <1>1, <2>1, <2>2 DEF TypeInv, Searching
<1>7. CASE StartSearch
  <2>1. /\ line' = Slash /\ mode' = "search" /\ last' = "type" /\ undo' = Begun
        /\ ~Searching /\ mode \in {"insert", "command"} /\ UNCHANGED history
    BY <1>1, <1>7 DEF StartSearch, Acts, Searching
  <2>2. L!Good(undo')
    BY <2>1, BegunGood
  <2>3. search' \in Settings
    BY <1>1, <1>7, <2>1 DEF StartSearch, Settings
  <2> QED BY <1>1, <1>2, <2>1, <2>2, <2>3 DEF TypeInv, Searching
<1>8. CASE TypeTerm
  <2>1. /\ line' \in Terms /\ mode' = "search" /\ last' \in {"type", "edit"}
        /\ UNCHANGED <<undo, history, search>>
    BY <1>8 DEF TypeTerm, Searching
  <2> QED BY <1>1, <1>2, <2>1 DEF TypeInv, Searching
<1>9. CASE CancelTerm
  <2>1. CancelSearch(undo, search.saved) /\ last' = "move" /\ UNCHANGED <<history, search>>
    BY <1>9 DEF CancelTerm, Acts
  <2>2. L!Good(undo') /\ line' \in Lines /\ mode' = search.saved
    BY <1>1, <2>1, CancelKeeps
  <2>3. search.saved \in {"insert", "command"}
    BY <1>1 DEF Settings
  <2> QED BY <1>1, <1>2, <2>1, <2>2, <2>3 DEF TypeInv, Searching
<1>10. CASE Searches
  <2>1. SearchEnded
    BY <1>10, SearchesEnd
  <2>2. L!Good(undo') /\ line' \in Lines /\ mode' \in {"insert", "command"}
    BY <2>1, CancelKeeps DEF SearchEnded, FoundFrom, Missed
  <2> QED BY <1>1, <2>1, <2>2 DEF TypeInv, Searching, SearchEnded
<1>11. CASE UNCHANGED vars
  BY <1>1, <1>2, <1>11 DEF vars, undoing, TypeInv, Searching
<1> QED BY <1>3, <1>4, <1>5, <1>6, <1>7, <1>8, <1>9, <1>10, <1>11 DEF Next, Searches
(* The walk and the buffer at the start.                                   *)
LEMMA TypeInvStarts == Init => TypeInv
<1> SUFFICES ASSUME Init PROVE TypeInv
  OBVIOUS
<1>1. /\ line = Empty /\ undo = L!NoUndo /\ last = "none" /\ mode = "insert"
      /\ at = 0 /\ off = Len(hist) /\ edit = <<>> /\ search \in Settings
  BY HistSearchAssumption DEF Init, U!Init, U!NoUndo, L!NoUndo, Settings, Texts
<1>2. L!Good(undo)
  BY <1>1, L!EmptyGood, Instances
<1>3. Walked
  <2>1. PICK n \in Nat : hist \in [1 .. n -> Lines \ {Empty}]
    BY HistSearchAssumption DEF Init
  <2>2. hist \in Seq(Lines)
    BY <2>1
  <2>3. W!Edits(<<>>, Len(hist)) /\ Len(hist) \in Nat
    BY <2>2, EmptySeq, LenProperties DEF W!Edits, W!Positions
  <2> QED BY <1>1, <2>2, <2>3 DEF Walked
<1> QED BY <1>1, <1>2, <1>3, HistSearchAssumption DEF TypeInv, Searching, U!Classes

(* The search is well typed with the undo buffer and the walk over the     *)
(* history that it is in the middle of: whatever ends it, the line is one  *)
(* of the line's and not a term, and the positions are in the history.     *)
THEOREM SearchTypeCorrect ==
  ASSUME "again" \notin Habits
  PROVE  Spec => []TypeOK
<1>1. Init => TypeInv
  BY TypeInvStarts
<1>2. TypeInv /\ [Next]_vars => TypeInv'
  BY TypeInvStep
<1> QED BY <1>1, <1>2, TypeInvGives, PTL DEF Spec

(* "While a search is being entered, no undos are pushed": whatever the    *)
(* user does but the search key in a term, no term of a search gets among  *)
(* the lines that undo and a cancelled search bring back.                  *)
THEOREM NoTermPushed ==
  ASSUME "again" \notin Habits
  PROVE  Spec => []TermsNotPushed
<1>1. Init => TypeInv
  BY TypeInvStarts
<1>2. TypeInv /\ [Next]_vars => TypeInv'
  BY TypeInvStep
<1> QED BY <1>1, <1>2, TypeInvGives, PTL DEF Spec

-----------------------------------------------------------------------------
(* What a search took away.                                                *)

(* filter_copy stores every line as it is.                                 *)
StoresAsIs == \A l \in Lines : Stored[l] = l

(* The line that a search took away is saved right below the walk over the *)
(* saved lines, until the search is cancelled or the line is edited.       *)
SoughtInv ==
  /\ L!Place(undo)
  /\ sought # Slash => /\ Searching \/ (at # 0 /\ last # "type")
                       /\ L!SavedBelow(undo, sought)

(* The buffer from which a search goes on has the line that it takes away  *)
(* below the walk.                                                         *)
LEMMA BaseHolds ==
  ASSUME StoresAsIs, TypeInv, SoughtInv, Pushing => ~L!OffAhead
  PROVE  L!Place(Base) /\ (Taken # Slash => L!SavedBelow(Base, Taken))
<1>1. CASE Pushing
  <2>1. line \in Lines /\ L!Good(undo) /\ L!Place(undo) /\ ~L!OffAhead
    BY <1>1 DEF TypeInv, SoughtInv, Pushing
  <2>2. Base = L!PushUndo(undo) /\ Taken = line
    BY <1>1 DEF Base, Taken, Pushing
  <2>3. [l \in Lines |-> Stored[l]][line] = line
    BY <2>1 DEF StoresAsIs
  <2> QED BY <2>1, <2>2, <2>3, L!PushSaves, L!PushPlaced, Instances
<1>2. CASE ~Pushing
  BY <1>2 DEF Base, Taken, Pushing, SoughtInv
<1> QED BY <1>1, <1>2

(* The place of the walk over the saved lines outside of search mode.      *)
LEMMA EditingPlaced ==
  ASSUME TypeInv, L!Place(undo), Editing
  PROVE  L!Place(undo')
<1>1. line \in Lines /\ L!Good(undo)
  BY DEF Editing, TypeInv, Searching
<1>2. U!Type => L!Place(undo')
  BY DEF U!Type
<1>3. U!Edit => L!Place(undo')
  BY <1>1, PushSame, L!PushPlaced, Instances DEF U!Edit
<1>4. CASE U!Move
  <2>1. undo' = L!Pushed
    BY <1>1, <1>4, PushedSame DEF U!Move
  <2> QED BY <1>1, <2>1, L!PushPlaced, Instances DEF L!Pushed
<1>5. U!UndoLine => L!Place(undo')
  BY <1>1, UndoSame, L!UndoPlaced, Instances
<1>6. U!RedoLine => L!Place(undo')
  BY <1>1, RedoSame, L!RedoPlaced, Instances
<1> QED BY <1>2, <1>3, <1>4, <1>5, <1>6 DEF Editing

(* No action takes away what a search took away before.                    *)
LEMMA SoughtInvStep ==
  ASSUME "again" \notin Habits, StoresAsIs, TypeInv, SoughtInv, [Next]_vars
  PROVE  SoughtInv'
<1>1. L!Good(undo) /\ L!Place(undo)
  BY DEF TypeInv, SoughtInv
<1>2. CASE Editing
  <2>1. sought' = Slash
    BY <1>2 DEF Editing
  <2> QED BY <1>1, <1>2, <2>1, EditingPlaced DEF SoughtInv
<1>3. CASE Walking
  <2>1. line \in Lines /\ sought' = Slash /\ undo' = U!Pushed
    BY <1>3 DEF Walking, TypeInv, Searching
  <2>2. undo' = L!Pushed
    BY <2>1, PushedSame
  <2>3. L!Place(L!Pushed)
    BY <1>1, <2>1, L!PushPlaced, Instances DEF L!Pushed
  <2> QED BY <2>1, <2>2, <2>3 DEF SoughtInv
<1>4. CASE Finish
  <2>1. sought' = Slash /\ undo' = L!NoUndo
    BY <1>4 DEF Finish, U!Finish, U!NoUndo, L!NoUndo
  <2> QED BY <2>1 DEF SoughtInv, L!Place, L!NoUndo
<1>5. CASE PushHistory
  BY <1>5 DEF PushHistory, H!PushHistory, undoing, SoughtInv, Searching
<1>6. CASE StartSearch
  <2>1. Begun = Base /\ (Pushing => ~L!OffAhead)
    <3>1. ~Searching /\ line \in Lines /\ MayTake
      BY <1>6 DEF StartSearch, TypeInv
    <3> QED BY <3>1, PushSame DEF Begun, Base, Pushing, MayTake, U!OffAhead, L!OffAhead
  <2>2. undo' = Base /\ sought' = Taken /\ mode' = "search"
    BY <1>6, <2>1 DEF StartSearch
  <2>3. L!Place(Base) /\ (Taken # Slash => L!SavedBelow(Base, Taken))
    BY <2>1, BaseHolds
  <2>4. Searching'
    BY <2>2 DEF Searching
  <2> QED BY <2>2, <2>3, <2>4 DEF SoughtInv
<1>7. CASE TypeTerm
  <2>1. undo' = undo /\ sought' = sought
    BY <1>7 DEF TypeTerm
  <2>2. Searching'
    BY <1>7 DEF TypeTerm, Searching
  <2> QED BY <2>1, <2>2 DEF SoughtInv
<1>8. CASE CancelTerm
  <2>1. CancelSearch(undo, search.saved) /\ sought' = Slash
    BY <1>8 DEF CancelTerm
  <2> QED BY <1>1, <2>1, CancelKeeps DEF SoughtInv
<1>9. CASE Searches
  <2>1. SearchEnded
    BY <1>9, SearchesEnd
  <2>2. PICK m \in {"insert", "command"} : FoundFrom(Base, m) \/ Missed(Base, m)
    BY <2>1 DEF SearchEnded
  <2>3. CASE FoundFrom(Base, m)
    <3>1. L!Place(Base) /\ (Taken # Slash => L!SavedBelow(Base, Taken))
      BY <2>1, BaseHolds DEF SearchEnded
    <3>2. undo' = Base /\ sought' = Taken /\ at' # 0 /\ last' # "type"
      BY <2>1, <2>3 DEF SearchEnded, FoundFrom
    <3> QED BY <3>1, <3>2 DEF SoughtInv
  <2>4. CASE Missed(Base, m)
    <3>1. L!Place(undo') /\ sought' = Slash
      BY <2>1, <2>4, CancelKeeps DEF SearchEnded, Missed
    <3> QED BY <3>1 DEF SoughtInv
  <2> QED BY <2>2, <2>3, <2>4
<1>10. CASE UNCHANGED vars
  BY <1>10 DEF vars, undoing, history, SoughtInv, Searching
<1> QED BY <1>2, <1>3, <1>4, <1>5, <1>6, <1>7, <1>8, <1>9, <1>10 DEF Next, Searches

(* At the start nothing is saved and nothing was taken away.               *)
LEMMA SoughtInvStarts == Init => SoughtInv
BY DEF Init, SoughtInv, U!Init, U!NoUndo, L!Place

(* A cancelled search brings back what lies below the walk.                *)
LEMMA CancelReturns ==
  ASSUME NEW u, L!Good(u), L!Place(u), NEW l, L!SavedBelow(u, l),
         NEW m, CancelSearch(u, m)
  PROVE  line' = l
<1>1. \A k : FindLt(u.nodes, u.idx, k) <=> L!FindLt(u.nodes, u.idx, k)
  BY DEF FindLt, L!FindLt, Positions, L!Positions
<1>2. ASSUME NEW k, FindLt(u.nodes, u.idx, k)
      PROVE  k \in 1 .. Len(u.nodes) /\ u.nodes[k].text = l
  BY <1>1, <1>2, L!FindsBelow, Instances DEF L!Positions
<1>3. ~NothingPushed(u)
  BY <1>2 DEF NothingPushed
<1> QED BY <1>2, <1>3 DEF CancelSearch

(* A search that finds nothing, or that is cancelled, brings back the line *)
(* that was on the new line when the first search took it away (pop_undo   *)
(* in cancel_search), however often the user searched on and whatever was  *)
(* typed for a term, and also when other shells logged lines meanwhile.    *)
THEOREM MissReturns ==
  ASSUME "again" \notin Habits, StoresAsIs
  PROVE  Spec => MissBringsBack
<1> DEFINE Ends == (Searches \/ CancelTerm) /\ sought' = Slash /\ Taken # Slash
<1>1. Init => TypeInv /\ SoughtInv
  BY TypeInvStarts, SoughtInvStarts
<1>2. TypeInv /\ SoughtInv /\ [Next]_vars => TypeInv' /\ SoughtInv'
  BY TypeInvStep, SoughtInvStep
<1>3. ASSUME TypeInv, SoughtInv, Ends
      PROVE  line' = Taken
  <2>1. CASE CancelTerm
    <3>1. CancelSearch(undo, search.saved) /\ Taken = sought
      BY <2>1 DEF CancelTerm, Taken
    <3>2. L!Good(undo) /\ L!Place(undo) /\ L!SavedBelow(undo, Taken)
      BY <1>3, <3>1 DEF TypeInv, SoughtInv
    <3> QED BY <3>1, <3>2, CancelReturns
  <2>2. CASE Searches
    <3>1. SearchEnded
      BY <1>3, <2>2, SearchesEnd
    <3>2. PICK m \in {"insert", "command"} : Missed(Base, m)
      BY <1>3, <3>1 DEF SearchEnded, FoundFrom
    <3>3. L!Good(Base) /\ L!Place(Base) /\ L!SavedBelow(Base, Taken)
      BY <1>3, <3>1, BaseHolds DEF SearchEnded
    <3> QED BY <3>2, <3>3, CancelReturns DEF Missed
  <2> QED BY <1>3, <2>1, <2>2
<1>4. TypeInv /\ SoughtInv => [Ends => line' = Taken]_vars
  BY <1>3
<1> QED BY <1>1, <1>2, <1>4, PTL DEF Spec, MissBringsBack

(* An undo right after a search that found a line brings back the line     *)
(* that the first search took away.                                        *)
THEOREM UndoReturnsSought ==
  ASSUME "again" \notin Habits, StoresAsIs
  PROVE  Spec => UndoesSearch
<1>1. Init => TypeInv /\ SoughtInv
  BY TypeInvStarts, SoughtInvStarts
<1>2. TypeInv /\ SoughtInv /\ [Next]_vars => TypeInv' /\ SoughtInv'
  BY TypeInvStep, SoughtInvStep
<1>3. ASSUME TypeInv, SoughtInv, Editing, U!UndoLine, sought # Slash
      PROVE  line' = sought
  <2>1. /\ line \in Lines /\ L!Good(undo) /\ last # "type"
        /\ L!Place(undo) /\ L!SavedBelow(undo, sought)
    BY <1>3 DEF Editing, TypeInv, SoughtInv, Searching
  <2>2. L!UndoLine /\ L!Pushed = undo
    BY <1>3, <2>1, UndoSame DEF L!Pushed
  <2> QED BY <2>1, <2>2, L!UndoReturns, Instances
<1>4. TypeInv /\ SoughtInv
        => [Editing /\ U!UndoLine /\ sought # Slash => line' = sought]_vars
  BY <1>3
<1> QED BY <1>1, <1>2, <1>4, PTL DEF Spec, UndoesSearch
=============================================================================
