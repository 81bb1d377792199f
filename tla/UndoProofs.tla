----------------------------- MODULE UndoProofs -----------------------------
(***************************************************************************)
(* What is proved of Undo, for any set of lines: whatever filter_copy      *)
(* stores and whatever the user does, the buffer is well typed and well    *)
(* formed, and walking over the saved lines forgets none of them; an undo  *)
(* brings back the line that was edited, when lines are stored as they are *)
(* and no line that was redone is edited; and without the other habits a   *)
(* redo brings back the line that was undone.  And Undo implements         *)
(* UndoStack.                                                              *)
(***************************************************************************)
EXTENDS Undo, SequenceTheorems, TLAPS

(* A buffer that push_undo, pop_undo and push_redo can work on.            *)
Good(u) ==
  /\ u \in UndoBuffer
  /\ u.off <= Len(u.nodes)
  /\ Sorted(u)
  /\ Placed(u)

Inv == TypeOK /\ WellFormed

(* The first n elements of a sequence.                                     *)
LEMMA Prefix ==
  ASSUME NEW S, NEW seq \in Seq(S), NEW n \in 0 .. Len(seq)
  PROVE  /\ SubSeq(seq, 1, n) \in Seq(S)
         /\ Len(SubSeq(seq, 1, n)) = n
         /\ \A k \in 1 .. n : SubSeq(seq, 1, n)[k] = seq[k]
<1>1. n \in Int /\ 1 \in Int /\ n - 1 + 1 = n /\ \A k \in 1 .. n : 1 + k - 1 = k
  OBVIOUS
<1>2. \A k \in 1 .. n : seq[k] \in S
  BY ElementOfSeq
<1>3. \A k \in 1 .. n - 1 + 1 : SubSeq(seq, 1, n)[k] = seq[1 + k - 1]
  BY <1>1, <1>2, SubSeqProperties
<1>4. Len(SubSeq(seq, 1, n)) = IF 1 <= n THEN n - 1 + 1 ELSE 0
  BY <1>1, <1>2, SubSeqProperties
<1>5. SubSeq(seq, 1, n) \in Seq(S)
  BY <1>1, <1>2, SubSeqProperties
<1> QED BY <1>1, <1>3, <1>4, <1>5

(* s holds the first n nodes of u and a new one, in the order of indices.  *)
MadeAfter(s, u, n, text) ==
  /\ s \in Seq(Node)
  /\ Len(s) = n + 1
  /\ \A k \in 1 .. n : s[k] = u.nodes[k]
  /\ s[n + 1] = [text |-> text, index |-> u.cnt + 1]
  /\ Ascending(s)
  /\ \A k \in Positions(s) : s[k].index \in 1 .. u.cnt + 1

(* What make adds after the first n nodes of a sorted buffer: the nodes    *)
(* below stay, the new one is the last, and the order holds.               *)
LEMMA CutAndMake ==
  ASSUME NEW u \in UndoBuffer, NEW n \in 0 .. Len(u.nodes),
         NEW text \in Lines, NEW s,
         Sorted(u), s = Make(SubSeq(u.nodes, 1, n), text, u.cnt + 1)
  PROVE  MadeAfter(s, u, n, text)
<1> DEFINE cut == SubSeq(u.nodes, 1, n)
           new == [text |-> text, index |-> u.cnt + 1]
<1>1. u.nodes \in Seq(Node) /\ u.cnt \in Nat
  BY DEF UndoBuffer
<1>2. u.nodes \in Seq(Node) /\ n \in 0 .. Len(u.nodes)
  BY <1>1
<1>3. /\ cut \in Seq(Node)
      /\ Len(cut) = n
      /\ \A k \in 1 .. n : cut[k] = u.nodes[k]
  BY <1>2, Prefix
<1>4. new \in Node
  BY <1>1 DEF Node
<1>5. /\ s \in Seq(Node)
      /\ Len(s) = n + 1
      /\ \A k \in 1 .. n : s[k] = cut[k]
      /\ s[n + 1] = new
  BY <1>3, <1>4, AppendProperties DEF Make
<1>6. \A k \in 1 .. n : u.nodes[k].index \in 1 .. u.cnt
  BY DEF Sorted, Positions
<1>7. \A k \in 1 .. n : s[k] = u.nodes[k]
  BY <1>3, <1>5
<1>8. \A k \in 1 .. n + 1 : s[k].index \in 1 .. u.cnt + 1
  BY <1>1, <1>5, <1>6, <1>7, SMTT(30)
<1>9. Ascending(s)
  <2> SUFFICES ASSUME NEW j \in 1 .. n + 1, NEW k \in 1 .. n + 1, j < k
               PROVE  s[j].index < s[k].index
    BY <1>5 DEF Ascending, Positions
  <2>1. CASE k = n + 1
    <3>1. j \in 1 .. n /\ u.nodes[j].index \in 1 .. u.cnt
      BY <2>1, <1>6
    <3>2. s[j] = u.nodes[j]
      BY <3>1, <1>7
    <3>3. s[k].index = u.cnt + 1
      BY <2>1, <1>5
    <3> QED BY <3>1, <3>2, <3>3, <1>1
  <2>2. CASE k # n + 1
    BY <2>2, <1>7 DEF Sorted, Ascending, Positions
  <2> QED BY <2>1, <2>2
<1> QED BY <1>5, <1>7, <1>8, <1>9 DEF MadeAfter, Positions

(* push_undo keeps a buffer good, leaves the walk at the end if it was     *)
(* there, and then only adds to the nodes.                                 *)
LEMMA PushKeeps ==
  ASSUME line \in Lines, NEW u, Good(u)
  PROVE  /\ Good(PushUndo(u))
         /\ u.off = Len(u.nodes) =>
              /\ Len(u.nodes) <= Len(PushUndo(u).nodes)
              /\ \A k \in Positions(u.nodes) :
                   PushUndo(u).nodes[k] = u.nodes[k]
<1>1. CASE Equals(u.nodes, u.off, line)
  BY <1>1 DEF PushUndo
<1>2. CASE ~ Equals(u.nodes, u.off, line)
  <2> DEFINE v == PushUndo(u)
  <2>0. PICK s : s = Make(SubSeq(u.nodes, 1, u.off), Stored[line], u.cnt + 1)
    OBVIOUS
  <2>1. v = [nodes |-> s, off |-> u.off + 1, idx |-> u.cnt + 2,
             cnt |-> u.cnt + 1]
    BY <1>2, <2>0 DEF PushUndo
  <2>2. /\ u \in UndoBuffer /\ Sorted(u)
        /\ u.off \in 0 .. Len(u.nodes) /\ u.cnt \in Nat
        /\ Stored[line] \in Lines
    BY UndoAssumption DEF Good, UndoBuffer
  <2>3. /\ s \in Seq(Node)
        /\ Len(s) = u.off + 1
        /\ \A k \in 1 .. u.off : s[k] = u.nodes[k]
        /\ Ascending(s)
        /\ \A k \in Positions(s) : s[k].index \in 1 .. u.cnt + 1
    <3>1. MadeAfter(s, u, u.off, Stored[line])
      BY <2>0, <2>2, CutAndMake, Zenon
    <3> QED BY <3>1 DEF MadeAfter
  <2> HIDE DEF v
  <2>4. v \in UndoBuffer /\ v.off = Len(v.nodes)
    BY <2>1, <2>2, <2>3 DEF UndoBuffer
  <2>5. Sorted(v)
    BY <2>1, <2>3 DEF Sorted
  <2>6. Placed(v)
    BY <2>1, <2>2, <2>3 DEF Placed
  <2>7. u.off = Len(u.nodes) =>
          /\ Len(u.nodes) <= Len(v.nodes)
          /\ \A k \in Positions(u.nodes) : v.nodes[k] = u.nodes[k]
    BY <2>1, <2>2, <2>3 DEF Positions
  <2>8. Good(v)
    BY <2>2, <2>4, <2>5, <2>6 DEF Good, UndoBuffer
  <2> QED BY <2>7, <2>8 DEF v
<1> QED BY <1>1, <1>2

(* The walk goes to a saved line.                                          *)
LEMMA WalkGood ==
  ASSUME NEW u, Good(u), NEW k \in Positions(u.nodes), NEW n \in {k - 1, k}
  PROVE  /\ Good(WalkTo(u, n, u.nodes[k].index))
         /\ u.nodes[k].text \in Lines
<1> DEFINE v == WalkTo(u, n, u.nodes[k].index)
<1>1. /\ u \in UndoBuffer /\ u.nodes \in Seq(Node) /\ u.cnt \in Nat
      /\ k \in 1 .. Len(u.nodes)
  BY DEF Good, UndoBuffer, Positions
<1>2. u.nodes[k] \in Node
  BY <1>1, ElementOfSeq
<1>3. u.nodes[k].index \in 1 .. u.cnt
  BY DEF Good, Sorted
<1>4. /\ v \in UndoBuffer /\ v.nodes = u.nodes /\ v.cnt = u.cnt
      /\ v.off = n /\ v.idx = u.nodes[k].index
  BY <1>1, <1>2 DEF UndoBuffer, Node, WalkTo
<1>5. Sorted(v)
  BY <1>4 DEF Good, Sorted
<1>6. Placed(v)
  BY <1>1, <1>3, <1>4 DEF Placed
<1>7. v.off <= Len(v.nodes)
  BY <1>1, <1>4
<1>8. Good(v)
  BY <1>4, <1>5, <1>6, <1>7 DEF Good
<1> QED BY <1>2, <1>8 DEF Node

(* What an action that does not edit pushes.                               *)
LEMMA PushedGood ==
  ASSUME Good(undo), line \in Lines
  PROVE  Good(Pushed)
BY PushKeeps DEF Pushed

LEMMA InvGood ==
  ASSUME Inv
  PROVE  Good(undo) /\ Good(Pushed) /\ TypeOK /\ line \in Lines
<1>1. Good(undo) /\ TypeOK /\ line \in Lines
  BY DEF Inv, TypeOK, WellFormed, Good
<1> QED BY <1>1, PushedGood

(* pop_undo saves the line it leaves at the end of the walk, where nothing *)
(* is cut off.                                                             *)
LEMMA SaveTopKeeps ==
  ASSUME line \in Lines, NEW u, Good(u)
  PROVE  /\ Good(SaveTop(u))
         /\ Len(u.nodes) <= Len(SaveTop(u).nodes)
         /\ \A k \in Positions(u.nodes) : SaveTop(u).nodes[k] = u.nodes[k]
<1>1. CASE u.idx > u.cnt
  <2>1. u.off = Len(u.nodes)
    BY <1>1 DEF Good, Placed
  <2>2. SaveTop(u) = PushUndo(u)
    BY <1>1 DEF SaveTop
  <2> QED BY <2>1, <2>2, PushKeeps
<1>2. CASE ~ (u.idx > u.cnt)
  <2>1. SaveTop(u) = u
    BY <1>2 DEF SaveTop
  <2>2. Len(u.nodes) \in Nat
    BY DEF Good, UndoBuffer
  <2> QED BY <2>1, <2>2
<1> QED BY <1>1, <1>2

(* A good buffer under the line and the last action keeps the invariant.   *)
LEMMA InvFromGood ==
  ASSUME Good(undo'), line' \in Lines, last' \in Classes, from' \in Lines,
         mode' \in {"insert", "command"}
  PROVE  Inv'
BY DEF Inv, TypeOK, WellFormed, Good

(* Where the buffer has nothing to give, it stays good.                    *)
LEMMA NothingGood ==
  ASSUME line \in Lines, NEW u, Good(u), NothingSaved(u)
  PROVE  Good(undo') /\ line' \in Lines
BY UndoAssumption DEF NothingSaved

(* The walk below all the saved lines.                                     *)
LEMMA BottomGood ==
  ASSUME NEW u, Good(u)
  PROVE  Good(WalkTo(u, u.off, 0))
<1>1. /\ u \in UndoBuffer /\ u.nodes \in Seq(Node) /\ u.cnt \in Nat
      /\ u.off \in Nat
  BY DEF Good, UndoBuffer
<1> DEFINE v == WalkTo(u, u.off, 0)
<1>2. /\ v.nodes = u.nodes /\ v.off = u.off /\ v.idx = 0 /\ v.cnt = u.cnt
      /\ v \in UndoBuffer
  BY <1>1 DEF WalkTo, UndoBuffer
<1> HIDE DEF v
<1>3. Good(v)
  BY <1>1, <1>2 DEF Good, Sorted, Placed
<1> QED BY <1>3 DEF v

(* An undo goes to a saved line of a good buffer, or below them.           *)
LEMMA UndoStep ==
  ASSUME Good(undo), line \in Lines, UndoLine
  PROVE  Good(undo') /\ line' \in Lines
<1> DEFINE u == Pushed
           v == SaveTop(u)
<1>1. Good(u)
  BY PushedGood
<1>2. /\ Good(v)
      /\ Len(u.nodes) <= Len(v.nodes)
  BY <1>1, SaveTopKeeps
<1>3. PICK k \in 0 .. Len(u.nodes) :
        \/ k = 0 /\ NothingSaved(WalkTo(u, u.off, 0))
        \/ /\ k > 0
           /\ undo' = WalkTo(v, k - 1, v.nodes[k].index)
           /\ line' = v.nodes[k].text
  BY DEF UndoLine
<1>4. Len(u.nodes) \in Nat /\ Len(v.nodes) \in Nat
  BY <1>1, <1>2 DEF Good, UndoBuffer
<1> HIDE DEF u, v
<1>5. CASE k = 0
  BY <1>1, <1>3, <1>5, BottomGood, NothingGood
<1>6. CASE k > 0
  <2>1. k \in Positions(v.nodes) /\ k - 1 \in {k - 1, k}
    BY <1>2, <1>4, <1>6 DEF Positions
  <2>2. Good(WalkTo(v, k - 1, v.nodes[k].index)) /\ v.nodes[k].text \in Lines
    BY <1>2, <2>1, WalkGood
  <2> QED BY <1>3, <1>6, <2>2
<1> QED BY <1>5, <1>6

(* A redo goes to a saved line of a good buffer, or stays.                 *)
LEMMA RedoStep ==
  ASSUME Good(undo), line \in Lines, RedoLine
  PROVE  Good(undo') /\ line' \in Lines
<1> DEFINE u == Pushed
<1>1. Good(u)
  BY PushedGood
<1>2. \/ NothingSaved(u)
      \/ \E k \in 0 .. Len(u.nodes) :
           /\ k > 0
           /\ undo' = WalkTo(u, k, u.nodes[k].index)
           /\ line' = u.nodes[k].text
  BY DEF RedoLine
<1>3. Len(u.nodes) \in Nat
  BY <1>1 DEF Good, UndoBuffer
<1> HIDE DEF u
<1>4. CASE NothingSaved(u)
  BY <1>1, <1>4, NothingGood
<1>5. CASE ~NothingSaved(u)
  <2>1. PICK k \in 0 .. Len(u.nodes) :
          /\ k > 0
          /\ undo' = WalkTo(u, k, u.nodes[k].index)
          /\ line' = u.nodes[k].text
    BY <1>2, <1>5
  <2>2. k \in Positions(u.nodes) /\ k \in {k - 1, k}
    BY <1>3, <2>1 DEF Positions
  <2>3. Good(WalkTo(u, k, u.nodes[k].index)) /\ u.nodes[k].text \in Lines
    BY <1>1, <2>2, WalkGood
  <2> QED BY <2>1, <2>3
<1> QED BY <1>4, <1>5

(* A revert goes to the first saved line.                                  *)
LEMMA RevertStep ==
  ASSUME Good(undo), line \in Lines, Revert
  PROVE  Good(undo') /\ line' \in Lines
<1> DEFINE u == Pushed
<1>1. Good(u)
  BY PushedGood
<1>2. \/ NothingSaved(u)
      \/ /\ u.nodes # <<>>
         /\ undo' = WalkTo(u, 0, u.nodes[1].index)
         /\ line' = u.nodes[1].text
  BY DEF Revert
<1>3. u.nodes \in Seq(Node)
  BY <1>1 DEF Good, UndoBuffer
<1> HIDE DEF u
<1>4. CASE NothingSaved(u)
  BY <1>1, <1>4, NothingGood
<1>5. CASE ~NothingSaved(u)
  <2>1. 1 \in Positions(u.nodes) /\ 0 \in {1 - 1, 1}
    BY <1>2, <1>3, <1>5, EmptySeq DEF Positions
  <2>2. Good(WalkTo(u, 0, u.nodes[1].index)) /\ u.nodes[1].text \in Lines
    BY <1>1, <2>1, WalkGood
  <2> QED BY <1>2, <1>5, <2>2
<1> QED BY <1>4, <1>5

(* The buffer starts empty.                                                *)
LEMMA EmptyGood == Good(NoUndo)
<1>1. NoUndo \in UndoBuffer /\ NoUndo.nodes = <<>>
  BY DEF NoUndo, UndoBuffer
<1>2. Len(NoUndo.nodes) = 0
  BY <1>1
<1> QED BY <1>1, <1>2 DEF NoUndo, Good, Sorted, Placed, Ascending, Positions

(* The invariant holds at the start and across every action.               *)
LEMMA InvInductive ==
  /\ Init => Inv
  /\ Inv /\ [Next]_vars => Inv'
<1>1. Init => Inv
  BY EmptyGood, UndoAssumption
     DEF Init, Inv, TypeOK, WellFormed, Good, Classes
<1>2. ASSUME Inv, [Next]_vars PROVE Inv'
  <2>1. /\ Good(undo) /\ Good(Pushed) /\ Good(PushUndo(undo))
        /\ line \in Lines /\ from \in Lines /\ mode \in {"insert", "command"}
        /\ last \in Classes
    BY <1>2, InvGood, PushKeeps DEF Inv, TypeOK
  <2>2. CASE Type
    BY <2>1, <2>2, InvFromGood DEF Type, Acts, Classes
  <2>3. CASE Edit
    BY <2>1, <2>3, InvFromGood DEF Edit, Acts, Classes
  <2>4. CASE Move
    BY <2>1, <2>4, InvFromGood DEF Move, Acts, Classes
  <2>5. CASE Bell
    BY <2>1, <2>5, InvFromGood DEF Bell, Acts, Classes
  <2>6. CASE UndoLine
    <3>1. Good(undo') /\ line' \in Lines
      BY <2>1, <2>6, UndoStep
    <3>2. mode' = mode /\ last' = "undo" /\ from' = line
      BY <2>6 DEF UndoLine, Acts
    <3> QED BY <2>1, <3>1, <3>2, InvFromGood DEF Classes
  <2>7. CASE RedoLine
    <3>1. Good(undo') /\ line' \in Lines
      BY <2>1, <2>7, RedoStep
    <3>2. mode' = mode /\ last' = "redo" /\ from' = line
      BY <2>7 DEF RedoLine, Acts
    <3> QED BY <2>1, <3>1, <3>2, InvFromGood DEF Classes
  <2>8. CASE Revert
    <3>1. Good(undo') /\ line' \in Lines
      BY <2>1, <2>8, RevertStep
    <3>2. mode' = mode /\ last' = "revert" /\ from' = line
      BY <2>8 DEF Revert, Acts
    <3> QED BY <2>1, <3>1, <3>2, InvFromGood DEF Classes
  <2>9. CASE Finish
    BY <2>1, <2>9, EmptyGood, UndoAssumption, InvFromGood
       DEF Finish, Acts, Classes
  <2>10. CASE UNCHANGED vars
    BY <1>2, <2>10 DEF vars, Inv, TypeOK, WellFormed
  <2> QED BY <1>2, <2>2, <2>3, <2>4, <2>5, <2>6, <2>7, <2>8, <2>9, <2>10
          DEF Next
<1> QED BY <1>1, <1>2

(* The editor's line, its saved lines and the place of the walk among them *)
(* stay well typed: off never points beyond the last saved line.           *)
THEOREM UndoTypeCorrect == Spec => []TypeOK
<1>1. Inv => TypeOK
  BY DEF Inv
<1> QED BY <1>1, InvInductive, PTL DEF Spec

(* The saved lines stay in the order of their indices, the walk at one of  *)
(* them, below them or at the end: pop_undo and push_redo find a neighbour *)
(* and a push at the end cuts nothing off.                                 *)
THEOREM BufferWellFormed == Spec => []WellFormed
<1>1. Inv => WellFormed
  BY DEF Inv
<1> QED BY <1>1, InvInductive, PTL DEF Spec

(* No undo, redo or revert takes a saved line away, unless typing came     *)
(* before it.                                                              *)
THEOREM WalkingForgetsNone == Spec => WalkForgetsNone
<1> DEFINE Kept == /\ Len(undo.nodes) <= Len(undo'.nodes)
                   /\ \A k \in Positions(undo.nodes) :
                        undo'.nodes[k] = undo.nodes[k]
           Walks == (UndoLine \/ RedoLine \/ Revert) /\ last # "type"
<1>1. ASSUME Inv, Walks PROVE Kept
  <2>1. Pushed = undo /\ Good(undo) /\ line \in Lines
    BY <1>1, InvGood DEF Pushed, Inv
  <2>2. undo'.nodes = undo.nodes \/ undo'.nodes = SaveTop(undo).nodes
    BY <1>1, <2>1 DEF UndoLine, RedoLine, Revert, NothingSaved, WalkTo
  <2>3. Len(undo.nodes) \in Nat
    BY <2>1 DEF Good, UndoBuffer
  <2>4. /\ Len(undo.nodes) <= Len(SaveTop(undo).nodes)
        /\ \A k \in Positions(undo.nodes) :
             SaveTop(undo).nodes[k] = undo.nodes[k]
    BY <2>1, SaveTopKeeps
  <2> QED BY <2>2, <2>3, <2>4
<1>2. Inv => [Walks => Kept]_vars
  BY <1>1
<1> QED BY <1>2, InvInductive, PTL DEF Spec, WalkForgetsNone

(* filter_copy stores every line as it is.                                 *)
StoresAsIs == Stored = [l \in Lines |-> l]

(* The walk is at its end, below all saved lines or at one of them, where  *)
(* off is below it after an undo and at it after a redo.                   *)
Place(u) ==
  \/ u.idx > u.cnt /\ u.off = Len(u.nodes)
  \/ u.idx = 0
  \/ \E q \in Positions(u.nodes) : u.idx = u.nodes[q].index /\ u.off \in {q - 1, q}

(* The line l is saved right below the walk.                               *)
SavedBelow(u, l) ==
  /\ u.off > 0 /\ u.nodes[u.off].text = l
  /\ u.nodes[u.off].index < u.idx

(* After an edit the line it edited is the one saved below the walk.       *)
EditInv == Place(undo) /\ (last = "edit" => SavedBelow(undo, from))

(* What push_undo makes of a good buffer: nothing, if the line is saved at *)
(* off, or the line saved at the end of what was below off.                *)
LEMMA PushIs ==
  ASSUME line \in Lines, NEW u, Good(u)
  PROVE  \/ Equals(u.nodes, u.off, line) /\ PushUndo(u) = u
         \/ /\ ~Equals(u.nodes, u.off, line)
            /\ PushUndo(u).off = u.off + 1 /\ Len(PushUndo(u).nodes) = u.off + 1
            /\ PushUndo(u).cnt = u.cnt + 1 /\ PushUndo(u).idx = u.cnt + 2
            /\ \A k \in 1 .. u.off : PushUndo(u).nodes[k] = u.nodes[k]
            /\ PushUndo(u).nodes[u.off + 1] = [text |-> Stored[line], index |-> u.cnt + 1]
<1>1. CASE Equals(u.nodes, u.off, line)
  BY <1>1 DEF PushUndo
<1>2. CASE ~ Equals(u.nodes, u.off, line)
  <2>0. PICK s : s = Make(SubSeq(u.nodes, 1, u.off), Stored[line], u.cnt + 1)
    OBVIOUS
  <2>1. PushUndo(u) = [nodes |-> s, off |-> u.off + 1, idx |-> u.cnt + 2, cnt |-> u.cnt + 1]
    BY <1>2, <2>0 DEF PushUndo
  <2>2. /\ u \in UndoBuffer /\ Sorted(u)
        /\ u.off \in 0 .. Len(u.nodes) /\ Stored[line] \in Lines
    BY UndoAssumption DEF Good, UndoBuffer
  <2>3. MadeAfter(s, u, u.off, Stored[line])
    BY <2>0, <2>2, CutAndMake, Zenon
  <2> QED BY <1>2, <2>1, <2>3 DEF MadeAfter
<1> QED BY <1>1, <1>2

(* The numbers of a good buffer.                                           *)
LEMMA GoodNumbers ==
  ASSUME NEW u, Good(u)
  PROVE  /\ u.off \in 0 .. Len(u.nodes) /\ Len(u.nodes) \in Nat
         /\ u.idx \in Nat /\ u.cnt \in Nat
         /\ \A k \in Positions(u.nodes) :
              /\ u.nodes[k].index \in 1 .. u.cnt /\ u.nodes[k].text \in Lines
              /\ \A j \in Positions(u.nodes) : j < k => u.nodes[j].index < u.nodes[k].index
         /\ \A k : k \in Positions(u.nodes) <=> k \in Nat /\ 0 < k /\ k <= Len(u.nodes)
<1>1. /\ u.nodes \in Seq(Node) /\ u.off \in Nat /\ u.idx \in Nat /\ u.cnt \in Nat
      /\ u.off <= Len(u.nodes) /\ Sorted(u)
  BY DEF Good, UndoBuffer
<1>2. Len(u.nodes) \in Nat
  BY <1>1
<1>3. \A k \in Positions(u.nodes) : u.nodes[k].text \in Lines
  <2>1. \A k \in 1 .. Len(u.nodes) : u.nodes[k] \in Node
    BY <1>1, ElementOfSeq
  <2> QED BY <2>1 DEF Positions, Node
<1>4. \A k : k \in Positions(u.nodes) <=> k \in Nat /\ 0 < k /\ k <= Len(u.nodes)
  BY <1>2 DEF Positions
<1> QED BY <1>1, <1>2, <1>3, <1>4 DEF Sorted, Ascending

(* The line that is saved right below the walk is the one that an undo and *)
(* a cancelled search find.                                                *)
LEMMA FindsBelow ==
  ASSUME NEW u, Good(u), Place(u), NEW l, SavedBelow(u, l),
         NEW k, FindLt(u.nodes, u.idx, k)
  PROVE  k = u.off /\ k \in Positions(u.nodes) /\ u.nodes[k].text = l
<1>1. /\ u.off \in Positions(u.nodes) /\ u.off <= Len(u.nodes) /\ Len(u.nodes) \in Nat
      /\ k \in 0 .. Len(u.nodes) /\ u.off \in Nat
  BY GoodNumbers DEF SavedBelow, FindLt
<1>2. u.off <= k
  BY <1>1 DEF SavedBelow, FindLt
<1>3. k <= u.off
  <2>1. CASE u.off = Len(u.nodes)
    BY <1>1, <2>1
  <2>2. ASSUME NEW q \in Positions(u.nodes), u.idx = u.nodes[q].index,
               u.off \in {q - 1, q}
        PROVE  k <= u.off
    <3>1. u.nodes[q].index \in Nat /\ q \in Nat
      BY GoodNumbers
    <3>2. u.off # q
      BY <2>2, <3>1 DEF SavedBelow
    <3>3. ~(q <= k)
      BY <2>2, <3>1 DEF FindLt
    <3> QED BY <1>1, <2>2, <3>1, <3>2, <3>3
  <2>3. u.idx # 0
    BY <1>1, GoodNumbers DEF SavedBelow
  <2> QED BY <2>1, <2>2, <2>3 DEF Place
<1> QED BY <1>1, <1>2, <1>3 DEF SavedBelow

(* A push leaves the line saved right below the walk, unless a redo left   *)
(* off at it.                                                              *)
LEMMA PushSaves ==
  ASSUME line \in Lines, Stored[line] = line, Good(undo), ~OffAhead
  PROVE  SavedBelow(PushUndo(undo), line)
<1>1. undo.off \in 0 .. Len(undo.nodes) /\ Len(undo.nodes) \in Nat /\ undo.cnt \in Nat
  BY GoodNumbers
<1>2. CASE PushUndo(undo) = undo /\ undo.off > 0 /\ undo.nodes[undo.off].text = line
  <2>1. undo.nodes[undo.off].index < undo.idx
    BY <1>2, GoodNumbers DEF OffAhead
  <2> QED BY <1>2, <2>1 DEF SavedBelow
<1>3. CASE /\ PushUndo(undo).off = undo.off + 1 /\ PushUndo(undo).idx = undo.cnt + 2
           /\ PushUndo(undo).nodes[undo.off + 1] = [text |-> line, index |-> undo.cnt + 1]
  BY <1>1, <1>3 DEF SavedBelow
<1> QED BY <1>2, <1>3, PushIs DEF Equals

(* An undo that pushes nothing brings back the line saved below the walk.  *)
LEMMA UndoReturns ==
  ASSUME Good(undo), Place(undo), line \in Lines, NEW l, SavedBelow(undo, l),
         Pushed = undo, UndoLine
  PROVE  line' = l
<1> DEFINE v == SaveTop(undo)
<1>1. PICK k \in 0 .. Len(undo.nodes) :
        /\ FindLt(undo.nodes, undo.idx, k)
        /\ k > 0 => line' = v.nodes[k].text
  BY DEF UndoLine
<1>2. k \in Positions(undo.nodes) /\ undo.nodes[k].text = l
  BY <1>1, FindsBelow
<1>3. k > 0 /\ v.nodes[k] = undo.nodes[k]
  BY <1>2, SaveTopKeeps DEF Positions
<1> HIDE DEF v
<1> QED BY <1>1, <1>2, <1>3

(* The place of the walk is kept by a push and by the walk to a saved line. *)
LEMMA PushPlaced ==
  ASSUME line \in Lines, NEW u, Good(u), Place(u)
  PROVE  Place(PushUndo(u)) /\ Place(SaveTop(u))
<1>1. PushUndo(u) = u \/ /\ PushUndo(u).off = Len(PushUndo(u).nodes)
                         /\ PushUndo(u).cnt = u.cnt + 1 /\ PushUndo(u).idx = u.cnt + 2
  BY PushIs
<1>2. u.cnt \in Nat
  BY GoodNumbers
<1>3. Place(PushUndo(u))
  BY <1>1, <1>2 DEF Place
<1> QED BY <1>3 DEF SaveTop

LEMMA WalkPlaced ==
  ASSUME NEW u, NEW q \in Positions(u.nodes), NEW n \in {q - 1, q}
  PROVE  Place(WalkTo(u, n, u.nodes[q].index))
BY DEF WalkTo, Place

LEMMA UndoPlaced ==
  ASSUME Good(undo), Place(undo), line \in Lines, UndoLine
  PROVE  Place(undo')
<1> DEFINE u == Pushed
           v == SaveTop(u)
<1>1. Good(u) /\ Place(v)
  BY PushedGood, PushPlaced DEF Pushed
<1>2. PICK k \in 0 .. Len(u.nodes) :
        \/ k = 0 /\ undo' = WalkTo(u, u.off, 0)
        \/ k > 0 /\ undo' = WalkTo(v, k - 1, v.nodes[k].index)
  BY DEF UndoLine, NothingSaved
<1>3. Good(v) /\ Len(u.nodes) <= Len(v.nodes) /\ Len(u.nodes) \in Nat
  BY <1>1, SaveTopKeeps, GoodNumbers
<1>4. Place(WalkTo(u, u.off, 0))
  BY DEF WalkTo, Place
<1> HIDE DEF u, v
<1>5. k > 0 => k \in Positions(v.nodes) /\ k - 1 \in {k - 1, k}
  <2>1. Len(v.nodes) \in Nat
    BY <1>3, GoodNumbers
  <2> QED BY <1>3, <2>1 DEF Positions
<1> QED BY <1>2, <1>4, <1>5, WalkPlaced

LEMMA RedoPlaced ==
  ASSUME Good(undo), Place(undo), line \in Lines, RedoLine
  PROVE  Place(undo')
<1> DEFINE u == Pushed
<1>1. Good(u) /\ Place(u)
  BY PushedGood, PushPlaced DEF Pushed
<1>2. \/ undo' = u
      \/ \E k \in 0 .. Len(u.nodes) : k > 0 /\ undo' = WalkTo(u, k, u.nodes[k].index)
  BY DEF RedoLine, NothingSaved
<1>3. \A k \in 0 .. Len(u.nodes) : k > 0 => k \in Positions(u.nodes) /\ k \in {k - 1, k}
  BY <1>1, GoodNumbers
<1> HIDE DEF u
<1> QED BY <1>1, <1>2, <1>3, WalkPlaced

(* The line that was edited stays below the walk until the next action.    *)
LEMMA EditInvStep ==
  ASSUME StoresAsIs, "redoEdit" \notin Habits, Inv, EditInv, [Next]_vars
  PROVE  EditInv'
<1>1. Good(undo) /\ Good(Pushed) /\ Place(undo) /\ line \in Lines
  BY InvGood DEF EditInv
<1>2. Place(Pushed)
  BY <1>1, PushPlaced DEF Pushed
<1>3. CASE Type \/ Bell
  BY <1>3 DEF Type, Bell, Acts, EditInv
<1>4. CASE Edit
  <2>1. undo' = PushUndo(undo) /\ ~OffAhead /\ from' = line
    BY <1>4 DEF Edit, Acts
  <2>2. Stored[line] = line
    BY <1>1 DEF StoresAsIs
  <2>3. SavedBelow(undo', from')
    BY <1>1, <2>1, <2>2, PushSaves
  <2>4. Place(undo')
    BY <1>1, <2>1, PushPlaced
  <2> QED BY <2>3, <2>4 DEF EditInv
<1>5. CASE Move
  BY <1>2, <1>5 DEF Move, Acts, EditInv
<1>6. CASE UndoLine
  <2>1. last' = "undo"
    BY <1>6 DEF UndoLine, Acts
  <2> QED BY <1>1, <1>6, <2>1, UndoPlaced DEF EditInv
<1>7. CASE RedoLine
  <2>1. last' = "redo"
    BY <1>7 DEF RedoLine, Acts
  <2> QED BY <1>1, <1>7, <2>1, RedoPlaced DEF EditInv
<1>8. CASE Revert
  <2> DEFINE u == Pushed
  <2>1. last' = "revert"
    BY <1>8 DEF Revert, Acts
  <2>2. \/ undo' = u
        \/ u.nodes # <<>> /\ undo' = WalkTo(u, 0, u.nodes[1].index)
    BY <1>8 DEF Revert, NothingSaved
  <2>3. u.nodes # <<>> => 1 \in Positions(u.nodes) /\ 0 \in {1 - 1, 1}
    BY <1>1, EmptySeq DEF Good, UndoBuffer, Positions
  <2>4. Place(u)
    BY <1>2
  <2> HIDE DEF u
  <2>5. Place(undo')
    BY <2>2, <2>3, <2>4, WalkPlaced
  <2> QED BY <2>1, <2>5 DEF EditInv
<1>9. CASE Finish
  BY <1>9 DEF Finish, Acts, EditInv, Place, NoUndo
<1>10. CASE UNCHANGED vars
  BY <1>10 DEF vars, EditInv
<1> QED BY <1>3, <1>4, <1>5, <1>6, <1>7, <1>8, <1>9, <1>10 DEF Next

(* "Undo last edit": an undo right after an edit brings back the line that *)
(* was edited (pop_undo saves the line that it leaves, push_undo saved the *)
(* one before it), whatever the user did before, as long as filter_copy    *)
(* stores lines as they are and no line that was redone is edited.         *)
THEOREM UndoBringsBack ==
  ASSUME StoresAsIs, "redoEdit" \notin Habits
  PROVE  Spec => UndoesEdit
<1>1. Init => EditInv
  BY DEF Init, EditInv, Place, NoUndo
<1>2. Inv /\ EditInv /\ [Next]_vars => EditInv'
  BY EditInvStep
<1>3. ASSUME Inv, EditInv, UndoLine, last = "edit"
      PROVE  line' = from
  <2>1. Pushed = undo /\ Good(undo) /\ line \in Lines
    BY <1>3, InvGood DEF Pushed
  <2>2. Place(undo) /\ SavedBelow(undo, from)
    BY <1>3 DEF EditInv
  <2> QED BY <1>3, <2>1, <2>2, UndoReturns
<1>4. Inv /\ EditInv => [UndoLine /\ last = "edit" => line' = from]_vars
  BY <1>3
<1> QED BY <1>1, <1>2, <1>4, InvInductive, PTL DEF Spec, UndoesEdit

-----------------------------------------------------------------------------
(* The walk stands at the saved line q - off below it after an undo, at it *)
(* after a redo -, or below all of them.                                   *)
WalkAt(u, q) ==
  \/ q = 0 /\ u.idx = 0 /\ u.off = 0
  \/ q \in Positions(u.nodes) /\ u.idx = u.nodes[q].index /\ u.off \in {q - 1, q}

(* The walk is at its end, above the last saved line.                      *)
EndAt(u) == u.idx = u.cnt + 1 /\ u.off = Len(u.nodes) /\ u.off > 0

TextAt(u, q) == IF q = 0 THEN Empty ELSE u.nodes[q].text

(* The walk is at its end, or the line l is the one that it stands at.     *)
Settled(u, l) ==
  \/ EndAt(u)
  \/ \E q \in 0 .. Len(u.nodes) : WalkAt(u, q) /\ l = TextAt(u, q)

(* No line is saved twice in a row.                                        *)
Distinct(u) ==
  \A j, k \in Positions(u.nodes) : k = j + 1 => u.nodes[j].text # u.nodes[k].text

WalkInv ==
  /\ Distinct(undo)
  /\ last # "type" => Settled(undo, line)
  /\ last = "type" =>
       /\ mode = "insert"
       /\ \E l \in Lines : Settled(undo, l)
       /\ Equals(undo.nodes, undo.off, line) => EndAt(undo)
  /\ last = "edit" => EndAt(undo)
  /\ last = "undo" /\ line # from =>
       \E q \in 0 .. Len(undo.nodes) - 1 :
         WalkAt(undo, q) /\ undo.off # Len(undo.nodes) /\ undo.nodes[q + 1].text = from

(* The user has none of the habits, and filter_copy stores lines as they   *)
(* are.                                                                    *)
Careful == StoresAsIs /\ Habits = {}

(* The numbers of a walk that stands at a saved line or below all.         *)
LEMMA WalkNumbers ==
  ASSUME NEW u, Good(u), NEW q \in 0 .. Len(u.nodes), WalkAt(u, q)
  PROVE  /\ ~EndAt(u) /\ u.idx <= u.cnt
         /\ u.off \in {0, q - 1, q}
         /\ q > 0 => /\ u.off \in {q - 1, q} /\ u.idx = u.nodes[q].index
                     /\ u.idx > 0 /\ q \in Positions(u.nodes)
         /\ q = 0 => u.idx = 0 /\ u.off = 0
<1>1. /\ u.off \in 0 .. Len(u.nodes) /\ Len(u.nodes) \in Nat /\ u.cnt \in Nat /\ u.idx \in Nat
      /\ \A k \in Positions(u.nodes) : u.nodes[k].index \in 1 .. u.cnt
      /\ \A k : k \in Positions(u.nodes) <=> k \in Nat /\ 0 < k /\ k <= Len(u.nodes)
  BY GoodNumbers
<1>2. CASE q = 0
  BY <1>1, <1>2 DEF WalkAt, EndAt
<1>3. CASE q > 0
  <2>1. q \in Positions(u.nodes) /\ u.idx = u.nodes[q].index /\ u.off \in {q - 1, q}
    BY <1>1, <1>3 DEF WalkAt
  <2> QED BY <1>1, <1>3, <2>1 DEF EndAt
<1> QED BY <1>2, <1>3

(* What a push of the line leaves, when nothing or something was typed.    *)
LEMMA PushSettles ==
  ASSUME StoresAsIs, line \in Lines, NEW u, Good(u), Distinct(u),
         Equals(u.nodes, u.off, line) => EndAt(u)
  PROVE  /\ EndAt(PushUndo(u)) /\ Distinct(PushUndo(u))
         /\ Equals(PushUndo(u).nodes, PushUndo(u).off, line)
<1>1. Stored[line] = line
  BY DEF StoresAsIs
<1>2. CASE Equals(u.nodes, u.off, line)
  BY <1>2 DEF PushUndo
<1>3. CASE ~Equals(u.nodes, u.off, line)
  <2> DEFINE v == PushUndo(u)
  <2>1. /\ v.off = u.off + 1 /\ Len(v.nodes) = u.off + 1
        /\ v.cnt = u.cnt + 1 /\ v.idx = u.cnt + 2
        /\ \A k \in 1 .. u.off : v.nodes[k] = u.nodes[k]
        /\ v.nodes[u.off + 1] = [text |-> line, index |-> u.cnt + 1]
    BY <1>1, <1>3, PushIs
  <2>2. u.off \in Nat /\ u.off <= Len(u.nodes) /\ Len(u.nodes) \in Nat /\ u.cnt \in Nat
    BY GoodNumbers
  <2> HIDE DEF v
  <2>3. EndAt(v)
    BY <2>1, <2>2 DEF EndAt
  <2>4. ASSUME NEW j \in Positions(v.nodes), NEW k \in Positions(v.nodes), k = j + 1
        PROVE  v.nodes[j].text # v.nodes[k].text
    <3>1. j \in 1 .. u.off /\ v.nodes[j] = u.nodes[j]
      BY <2>1, <2>2, <2>4 DEF Positions
    <3>2. CASE k = u.off + 1
      <4>1. j = u.off /\ u.off > 0
        BY <2>2, <2>4, <3>1, <3>2
      <4> QED BY <1>3, <2>1, <3>1, <3>2, <4>1 DEF Equals
    <3>3. CASE k # u.off + 1
      <4>1. k \in 1 .. u.off /\ v.nodes[k] = u.nodes[k]
        BY <2>1, <2>2, <2>4, <3>3 DEF Positions
      <4>2. j \in Positions(u.nodes) /\ k \in Positions(u.nodes)
        BY <2>2, <3>1, <4>1 DEF Positions
      <4> QED BY <2>4, <3>1, <4>1, <4>2 DEF Distinct
    <3> QED BY <3>2, <3>3
  <2>5. Equals(v.nodes, v.off, line)
    BY <2>1, <2>2 DEF Equals
  <2> QED BY <2>3, <2>4, <2>5 DEF Distinct, v
<1> QED BY <1>2, <1>3

(* What an action that does not edit begins with.                          *)
LEMMA PushedSettled ==
  ASSUME Careful, Inv, WalkInv
  PROVE  /\ Good(Pushed) /\ Distinct(Pushed) /\ Settled(Pushed, line)
         /\ last # "type" => Pushed = undo
<1>1. Good(Pushed) /\ Good(undo) /\ line \in Lines
  BY InvGood DEF Inv
<1>2. CASE last = "type"
  <2>1. Pushed = PushUndo(undo)
    BY <1>2 DEF WalkInv, Pushed
  <2>2. Equals(undo.nodes, undo.off, line) => EndAt(undo)
    BY <1>2 DEF WalkInv
  <2> QED BY <1>1, <1>2, <2>1, <2>2, PushSettles DEF Careful, WalkInv, Settled
<1>3. CASE last # "type"
  BY <1>1, <1>3 DEF Pushed, WalkInv
<1> QED BY <1>2, <1>3

(* What SaveTop adds at the end of the walk.                               *)
LEMMA TopSaved ==
  ASSUME StoresAsIs, line \in Lines, NEW u, Good(u), EndAt(u), ~Equals(u.nodes, u.off, line)
  PROVE  /\ Len(SaveTop(u).nodes) = u.off + 1
         /\ SaveTop(u).nodes[u.off + 1].text = line
<1>1. Stored[line] = line
  BY DEF StoresAsIs
<1>2. u.cnt \in Nat /\ SaveTop(u) = PushUndo(u)
  BY GoodNumbers DEF EndAt, SaveTop
<1>3. /\ Len(PushUndo(u).nodes) = u.off + 1
      /\ PushUndo(u).nodes[u.off + 1] = [text |-> Stored[line], index |-> u.cnt + 1]
  BY PushIs
<1> QED BY <1>1, <1>2, <1>3

(* Where an undo takes the walk.                                           *)
Stays(u) == undo' = u /\ line' = line

UndoFromEnd(u) ==
  /\ EndAt(u) /\ WalkAt(undo', u.off)
  /\ \A k \in Positions(u.nodes) : undo'.nodes[k] = u.nodes[k]
  /\ line' = u.nodes[u.off].text
  /\ \/ line' = line /\ Len(undo'.nodes) = u.off
     \/ /\ line' # line
        /\ Len(undo'.nodes) = u.off + 1 /\ undo'.nodes[u.off + 1].text = line

UndoFromLine(u) ==
  \E q \in Positions(u.nodes) :
    /\ WalkAt(u, q) /\ line = u.nodes[q].text
    /\ WalkAt(undo', q - 1) /\ line' = TextAt(u, q - 1)
    /\ undo'.nodes = u.nodes /\ undo'.off # Len(u.nodes)

(* An undo goes from the end of the walk to the last saved line, from      *)
(* there to the one below, and stays below the first.                      *)
LEMMA UndoMoves ==
  ASSUME Careful, Inv, WalkInv, UndoLine
  PROVE  UndoFromEnd(Pushed) \/ UndoFromLine(Pushed) \/ Stays(Pushed)
<1> DEFINE u == Pushed
           v == SaveTop(u)
<1>1. /\ Good(u) /\ Distinct(u) /\ Settled(u, line) /\ line \in Lines /\ StoresAsIs
      /\ last # "type" => u = undo
  BY PushedSettled, InvGood DEF Careful
<1>2. /\ Good(v) /\ Len(u.nodes) <= Len(v.nodes)
      /\ \A k \in Positions(u.nodes) : v.nodes[k] = u.nodes[k]
  BY <1>1, SaveTopKeeps
<1>3. PICK k \in 0 .. Len(u.nodes) :
        /\ FindLt(u.nodes, u.idx, k)
        /\ \/ /\ k = 0 /\ ~OffAhead
              /\ undo' = WalkTo(u, u.off, 0)
              /\ line' = IF undo'.idx = 0 THEN Empty ELSE line
           \/ /\ k > 0
              /\ undo' = WalkTo(v, k - 1, v.nodes[k].index)
              /\ line' = v.nodes[k].text
  BY DEF UndoLine, NothingSaved, Careful
<1>4. /\ u.off \in 0 .. Len(u.nodes) /\ Len(u.nodes) \in Nat /\ Len(v.nodes) \in Nat
      /\ u.idx \in Nat /\ u.cnt \in Nat
      /\ \A j \in Positions(u.nodes) :
           /\ u.nodes[j].index \in 1 .. u.cnt
           /\ \A i \in Positions(u.nodes) : i < j => u.nodes[i].index < u.nodes[j].index
      /\ \A j : j \in Positions(u.nodes) <=> j \in Nat /\ 0 < j /\ j <= Len(u.nodes)
  BY <1>1, <1>2, GoodNumbers
<1>5. \A j \in Positions(u.nodes) : j <= k <=> u.nodes[j].index < u.idx
  BY <1>3 DEF FindLt
<1> HIDE DEF u, v
<1>6. CASE EndAt(u)
  <2>1. k = u.off /\ k > 0 /\ k = Len(u.nodes) /\ k \in Positions(u.nodes)
    <3>1. u.idx = u.cnt + 1 /\ u.off = Len(u.nodes) /\ u.off \in Positions(u.nodes)
      BY <1>4, <1>6 DEF EndAt
    <3>2. u.nodes[u.off].index < u.idx
      BY <1>4, <3>1
    <3>3. u.off <= k
      BY <1>5, <3>1, <3>2
    <3> QED BY <1>4, <3>1, <3>3
  <2>2. undo' = WalkTo(v, k - 1, v.nodes[k].index) /\ line' = u.nodes[k].text
    BY <1>2, <1>3, <2>1
  <2>3. undo'.nodes = v.nodes /\ undo'.idx = v.nodes[k].index /\ undo'.off = k - 1
    BY <2>2 DEF WalkTo
  <2>4. WalkAt(undo', k)
    BY <1>2, <1>4, <2>1, <2>3 DEF WalkAt, Positions
  <2>5. CASE Equals(u.nodes, u.off, line)
    <3>1. v = u
      BY <2>5 DEF v, SaveTop, PushUndo
    <3> QED BY <1>2, <1>6, <2>1, <2>2, <2>3, <2>4, <2>5, <3>1 DEF UndoFromEnd, Equals, u
  <2>6. CASE ~Equals(u.nodes, u.off, line)
    <3>1. Len(v.nodes) = u.off + 1 /\ v.nodes[u.off + 1].text = line
      BY <1>1, <1>6, <2>6, TopSaved DEF v
    <3>2. line' # line
      BY <2>1, <2>2, <2>6 DEF Equals
    <3> QED BY <1>2, <1>6, <2>1, <2>2, <2>3, <2>4, <3>1, <3>2 DEF UndoFromEnd, u
  <2> QED BY <2>5, <2>6
<1>7. ASSUME NEW q \in 0 .. Len(u.nodes), WalkAt(u, q), line = TextAt(u, q)
      PROVE  UndoFromLine(u) \/ Stays(u)
  <2>1. /\ ~EndAt(u) /\ u.idx <= u.cnt
        /\ q > 0 => /\ u.off \in {q - 1, q} /\ u.idx = u.nodes[q].index
                    /\ q \in Positions(u.nodes)
        /\ q = 0 => u.idx = 0 /\ u.off = 0
    BY <1>1, <1>7, WalkNumbers
  <2>2. v = u
    BY <1>4, <2>1 DEF v, SaveTop
  <2>3. CASE q = 0
    <3>1. k = 0
      <4>1. ASSUME k > 0 PROVE FALSE
        BY <1>4, <1>5, <2>1, <2>3, <4>1
      <4> QED BY <1>3, <1>4, <4>1
    <3>2. undo' = WalkTo(u, u.off, 0) /\ line' = Empty /\ u.idx = 0
      BY <1>3, <2>1, <2>3, <3>1 DEF WalkTo
    <3>3. undo' = u
      BY <1>1, <3>2 DEF Good, UndoBuffer, WalkTo
    <3> QED BY <1>7, <2>3, <3>2, <3>3 DEF Stays, TextAt
  <2>4. CASE q > 0
    <3>1. k = q - 1
      <4>1. ~(q <= k)
        BY <1>4, <1>5, <2>1, <2>4
      <4>2. ASSUME k < q - 1 PROVE FALSE
        <5>1. q - 1 \in Positions(u.nodes) /\ q - 1 < q
          BY <1>3, <1>4, <2>1, <4>2
        <5>2. u.nodes[q - 1].index < u.nodes[q].index
          BY <1>4, <2>1, <2>4, <5>1
        <5> QED BY <1>5, <2>1, <2>4, <4>2, <5>1, <5>2
      <4> QED BY <1>3, <1>4, <4>1, <4>2
    <3>2. CASE k = 0
      <4>1. q = 1 /\ ~OffAhead
        BY <1>3, <3>1, <3>2
      <4>2. u = undo
        <5>1. CASE last = "type"
          <6>1. u = PushUndo(undo) /\ (Equals(undo.nodes, undo.off, line) => EndAt(undo))
            BY <5>1 DEF WalkInv, u, Pushed
          <6>2. EndAt(u)
            BY <1>1, <6>1, PushSettles, InvGood DEF WalkInv
          <6> QED BY <2>1, <6>2
        <5> QED BY <1>1, <5>1
      <4>3. u.off = 0
        BY <1>4, <2>1, <2>4, <4>1, <4>2 DEF OffAhead
      <4>4. undo'.nodes = u.nodes /\ undo'.off = 0 /\ undo'.idx = 0 /\ line' = Empty
        BY <1>3, <3>2, <4>3 DEF WalkTo
      <4>5. WalkAt(undo', 0) /\ line' = TextAt(u, 0)
        BY <4>4 DEF WalkAt, TextAt
      <4>6. Len(u.nodes) # 0
        BY <1>4, <2>1, <4>1
      <4> QED BY <1>7, <2>1, <4>1, <4>4, <4>5, <4>6 DEF UndoFromLine, TextAt
    <3>3. CASE k > 0
      <4>1. undo' = WalkTo(u, k - 1, u.nodes[k].index) /\ line' = u.nodes[k].text
        BY <1>3, <2>2, <3>3
      <4>2. /\ undo'.nodes = u.nodes /\ undo'.off = k - 1
            /\ undo'.idx = u.nodes[k].index
        BY <4>1 DEF WalkTo
      <4>3. k \in Positions(u.nodes)
        BY <1>3, <1>4, <3>3
      <4>4. WalkAt(undo', q - 1) /\ line' = TextAt(u, q - 1)
        BY <3>1, <3>3, <4>1, <4>2, <4>3 DEF WalkAt, TextAt
      <4>5. undo'.off # Len(u.nodes)
        BY <1>3, <1>4, <3>3, <4>2
      <4>6. line = u.nodes[q].text
        BY <1>7, <2>4 DEF TextAt
      <4> QED BY <1>7, <2>1, <2>4, <4>2, <4>4, <4>5, <4>6 DEF UndoFromLine
    <3> QED BY <1>3, <3>2, <3>3
  <2> QED BY <2>3, <2>4
<1> QED BY <1>1, <1>6, <1>7 DEF Settled, u

RedoFromLine(u) ==
  \E q \in 0 .. Len(u.nodes) - 1 :
    /\ WalkAt(u, q) /\ line = TextAt(u, q)
    /\ WalkAt(undo', q + 1) /\ line' = u.nodes[q + 1].text
    /\ undo'.nodes = u.nodes

(* A redo goes to the saved line above, and stays at the last one and at   *)
(* the end of the walk.                                                    *)
LEMMA RedoMoves ==
  ASSUME Careful, Inv, WalkInv, RedoLine
  PROVE  /\ RedoFromLine(Pushed) \/ Stays(Pushed)
         /\ \A q \in 0 .. Len(Pushed.nodes) - 1 :
              WalkAt(Pushed, q) /\ Pushed.off # Len(Pushed.nodes)
                => line' = Pushed.nodes[q + 1].text
<1> DEFINE u == Pushed
<1>1. Good(u) /\ Settled(u, line)
  BY PushedSettled
<1>2. /\ u.off \in 0 .. Len(u.nodes) /\ Len(u.nodes) \in Nat
      /\ u.idx \in Nat /\ u.cnt \in Nat
      /\ \A j \in Positions(u.nodes) :
           /\ u.nodes[j].index \in 1 .. u.cnt
           /\ \A i \in Positions(u.nodes) : i < j => u.nodes[i].index < u.nodes[j].index
      /\ \A j : j \in Positions(u.nodes) <=> j \in Nat /\ 0 < j /\ j <= Len(u.nodes)
  BY <1>1, GoodNumbers
<1>3. \/ u.off = Len(u.nodes) /\ NothingSaved(u)
      \/ /\ u.off # Len(u.nodes)
         /\ \E k \in 0 .. Len(u.nodes) :
              /\ FindGteq(u.nodes, u.idx + 1, k)
              /\ \/ k = 0 /\ NothingSaved(u)
                 \/ /\ k > 0
                    /\ undo' = WalkTo(u, k, u.nodes[k].index)
                    /\ line' = u.nodes[k].text
  BY DEF RedoLine
<1> HIDE DEF u
<1>4. ASSUME NothingSaved(u) PROVE Stays(u)
  <2>1. CASE EndAt(u)
    BY <1>2, <1>4, <2>1 DEF EndAt, NothingSaved, Stays
  <2>2. ASSUME NEW q \in 0 .. Len(u.nodes), WalkAt(u, q), line = TextAt(u, q)
        PROVE  Stays(u)
    <3>1. q > 0 => u.idx # 0
      BY <1>1, <1>2, <2>2, WalkNumbers
    <3> QED BY <1>4, <2>2, <3>1 DEF NothingSaved, Stays, TextAt
  <2> QED BY <1>1, <2>1, <2>2 DEF Settled
<1>5. ASSUME u.off # Len(u.nodes), NEW k \in 0 .. Len(u.nodes),
             FindGteq(u.nodes, u.idx + 1, k),
             NEW q \in 0 .. Len(u.nodes), WalkAt(u, q)
      PROVE  IF q = Len(u.nodes) THEN k = 0 ELSE k = q + 1
  <2>1. \A j \in Positions(u.nodes) : u.nodes[j].index >= u.idx + 1 <=> k # 0 /\ j >= k
    BY <1>5 DEF FindGteq
  <2>2. /\ q > 0 => u.idx = u.nodes[q].index /\ q \in Positions(u.nodes)
        /\ q = 0 => u.idx = 0
    BY <1>1, <1>5, WalkNumbers
  <2>3. ASSUME NEW j \in Positions(u.nodes)
        PROVE  j > q <=> u.nodes[j].index >= u.idx + 1
    <3>0. j \in Nat /\ q \in Nat /\ u.nodes[j].index \in Nat /\ u.nodes[j].index > 0
      BY <1>2, <2>3
    <3>1. CASE q = 0
      BY <1>2, <2>2, <3>0, <3>1
    <3>2. CASE q > 0
      <4>1. q \in Positions(u.nodes) /\ u.nodes[q].index \in Nat /\ u.idx = u.nodes[q].index
        BY <1>2, <2>2, <3>2
      <4>2. CASE j > q
        <5>1. u.nodes[q].index < u.nodes[j].index
          BY <1>2, <2>3, <4>1, <4>2
        <5> QED BY <3>0, <4>1, <4>2, <5>1
      <4>3. CASE j = q
        BY <3>0, <4>1, <4>3
      <4>4. CASE j < q
        <5>1. u.nodes[j].index < u.nodes[q].index
          BY <1>2, <2>3, <4>1, <4>4
        <5> QED BY <3>0, <4>1, <4>4, <5>1
      <4> QED BY <3>0, <4>2, <4>3, <4>4
    <3> QED BY <3>0, <3>1, <3>2
  <2>4. \A j \in Positions(u.nodes) : j > q <=> k # 0 /\ j >= k
    BY <2>1, <2>3
  <2>5. k > 0 => k \in Positions(u.nodes)
    BY <1>2, <1>5
  <2>6. q # Len(u.nodes) => q + 1 \in Positions(u.nodes)
    BY <1>2, <1>5
  <2>7. k \in Nat /\ q \in Nat /\ (k > 0 => k <= Len(u.nodes)) /\ q <= Len(u.nodes)
    BY <1>2, <1>5
  <2>8. CASE q = Len(u.nodes)
    <3>1. ASSUME k > 0 PROVE FALSE
      <4>1. k > q
        BY <2>4, <2>5, <2>7, <3>1
      <4> QED BY <1>2, <2>7, <2>8, <4>1, <3>1
    <3> QED BY <2>7, <2>8, <3>1
  <2>9. CASE q # Len(u.nodes)
    <3>1. k # 0 /\ q + 1 >= k
      BY <2>4, <2>6, <2>7, <2>9
    <3>2. k > q
      BY <2>4, <2>5, <2>7, <3>1
    <3> QED BY <2>7, <2>9, <3>1, <3>2
  <2> QED BY <2>8, <2>9
<1>6. ASSUME NEW q \in 0 .. Len(u.nodes) - 1, WalkAt(u, q), u.off # Len(u.nodes)
      PROVE  /\ undo' = WalkTo(u, q + 1, u.nodes[q + 1].index)
             /\ line' = u.nodes[q + 1].text
  <2>1. q \in 0 .. Len(u.nodes) /\ q # Len(u.nodes) /\ q + 1 # 0
    BY <1>2, <1>6
  <2>2. PICK k \in 0 .. Len(u.nodes) :
          /\ FindGteq(u.nodes, u.idx + 1, k)
          /\ \/ k = 0
             \/ /\ undo' = WalkTo(u, k, u.nodes[k].index)
                /\ line' = u.nodes[k].text
    BY <1>3, <1>6
  <2>3. k = q + 1
    BY <1>5, <1>6, <2>1, <2>2
  <2> QED BY <2>1, <2>2, <2>3
<1>7. ASSUME ~NothingSaved(u)
      PROVE  RedoFromLine(u)
  <2>1. u.off # Len(u.nodes) /\ ~EndAt(u)
    BY <1>3, <1>7 DEF EndAt
  <2>2. PICK q \in 0 .. Len(u.nodes) : WalkAt(u, q) /\ line = TextAt(u, q)
    BY <1>1, <2>1 DEF Settled
  <2>3. PICK k \in 0 .. Len(u.nodes) : FindGteq(u.nodes, u.idx + 1, k) /\ k > 0
    BY <1>3, <1>7
  <2>4. q \in 0 .. Len(u.nodes) - 1 /\ q + 1 \in Positions(u.nodes) /\ q + 1 \in Nat
    <3>1. q # Len(u.nodes)
      BY <1>5, <2>1, <2>2, <2>3
    <3> QED BY <1>2, <2>2, <3>1
  <2>5. undo' = WalkTo(u, q + 1, u.nodes[q + 1].index) /\ line' = u.nodes[q + 1].text
    BY <1>6, <2>1, <2>2, <2>4
  <2>6. undo'.nodes = u.nodes /\ WalkAt(undo', q + 1)
    BY <2>4, <2>5 DEF WalkTo, WalkAt
  <2> QED BY <2>2, <2>4, <2>5, <2>6 DEF RedoFromLine
<1> QED BY <1>4, <1>6, <1>7 DEF u

RevertToFirst(u) ==
  /\ u.nodes # <<>>
  /\ WalkAt(undo', 1) /\ undo'.off = 0
  /\ undo'.nodes = u.nodes /\ line' = u.nodes[1].text

(* A revert goes to the first saved line.                                  *)
LEMMA RevertMoves ==
  ASSUME Careful, Inv, WalkInv, Revert
  PROVE  RevertToFirst(Pushed) \/ Stays(Pushed)
<1> DEFINE u == Pushed
<1>1. Good(u) /\ Settled(u, line)
  BY PushedSettled
<1>2. \/ u.nodes = <<>> /\ NothingSaved(u)
      \/ /\ u.nodes # <<>>
         /\ undo' = WalkTo(u, 0, u.nodes[1].index)
         /\ line' = u.nodes[1].text
  BY DEF Revert
<1>3. /\ u.off \in 0 .. Len(u.nodes) /\ u.nodes \in Seq(Node)
      /\ \A j : j \in Positions(u.nodes) <=> j \in Nat /\ 0 < j /\ j <= Len(u.nodes)
  BY <1>1, GoodNumbers DEF Good, UndoBuffer
<1> HIDE DEF u
<1>4. CASE u.nodes = <<>>
  <2>1. Len(u.nodes) = 0
    BY <1>4
  <2>2. line = Empty
    BY <1>1, <1>3, <2>1 DEF Settled, EndAt, TextAt
  <2> QED BY <1>2, <1>4, <2>2 DEF NothingSaved, Stays, u
<1>5. CASE u.nodes # <<>>
  <2>1. 1 \in Positions(u.nodes) /\ 0 \in {1 - 1, 1}
    BY <1>3, <1>5, EmptySeq
  <2> QED BY <1>2, <1>5, <2>1 DEF RevertToFirst, WalkTo, WalkAt, u
<1> QED BY <1>4, <1>5

(* The buffer starts with the walk below all saved lines, of which there   *)
(* are none.                                                               *)
LEMMA NoUndoSettled == Distinct(NoUndo) /\ Settled(NoUndo, Empty)
<1>1. NoUndo.nodes = <<>> /\ NoUndo.idx = 0 /\ NoUndo.off = 0
  BY DEF NoUndo
<1>2. Len(NoUndo.nodes) = 0
  BY <1>1
<1>3. 0 \in 0 .. Len(NoUndo.nodes) /\ Positions(NoUndo.nodes) = {}
  BY <1>2 DEF Positions
<1> QED BY <1>1, <1>3 DEF Distinct, Settled, WalkAt, TextAt

(* An edit finds its line saved at off only at the end of the walk.        *)
LEMMA EditAtEnd ==
  ASSUME Careful, Inv, WalkInv, Edit
  PROVE  Equals(undo.nodes, undo.off, line) => EndAt(undo)
<1>0. Good(undo) /\ ~OffAhead
  BY InvGood DEF Edit, Careful
<1>1. CASE last = "type"
  BY <1>1 DEF WalkInv
<1>2. ASSUME NEW q \in 0 .. Len(undo.nodes), WalkAt(undo, q), line = TextAt(undo, q)
      PROVE  ~Equals(undo.nodes, undo.off, line)
  <2>1. /\ q > 0 => /\ undo.off \in {q - 1, q} /\ undo.idx = undo.nodes[q].index
                    /\ q \in Positions(undo.nodes)
        /\ q = 0 => undo.off = 0
    BY <1>0, <1>2, WalkNumbers
  <2>2. CASE undo.off = 0
    BY <2>2 DEF Equals
  <2>3. CASE undo.off # 0
    <3>1. /\ undo.off \in Positions(undo.nodes) /\ undo.off > 0
          /\ undo.nodes[undo.off].index \in Nat
          /\ q > 0 => undo.nodes[q].index \in Nat
          /\ q > 0
      BY <1>0, <2>1, <2>3, GoodNumbers
    <3>2. undo.nodes[undo.off].index < undo.idx
      BY <1>0, <2>1, <3>1 DEF OffAhead
    <3>3. undo.off # q
      BY <2>1, <3>1, <3>2
    <3>4. q = undo.off + 1
      BY <2>1, <3>1, <3>3
    <3> QED BY <1>0, <1>2, <2>1, <3>1, <3>4 DEF WalkInv, Distinct, TextAt, Equals
  <2> QED BY <2>2, <2>3
<1> QED BY <1>1, <1>2 DEF WalkInv, Settled

(* Where the walk stands is kept by every action of a careful user.        *)
LEMMA WalkInvStep ==
  ASSUME Careful, Inv, WalkInv, [Next]_vars
  PROVE  WalkInv'
<1> DEFINE u == Pushed
<1>1. /\ Good(u) /\ Distinct(u) /\ Settled(u, line) /\ line \in Lines /\ Good(undo)
      /\ last # "type" => u = undo
  BY PushedSettled, InvGood DEF Inv
<1>2. ASSUME NEW w, w = u, undo' = w, line' = line, from' = line,
             last' \in {"move", "undo", "redo", "revert"}
      PROVE  WalkInv'
  BY <1>1, <1>2 DEF WalkInv
<1>3. CASE Type
  <2>1. /\ undo' = undo /\ last' = "type" /\ mode' = "insert" /\ line' \in Lines
        /\ Equals(undo.nodes, undo.off, line') => undo.idx > undo.cnt
    BY <1>3 DEF Type, Acts, AtEnd, Careful
  <2>2. PICK l \in Lines : Settled(undo, l)
    BY <1>1 DEF WalkInv
  <2>3. undo.idx > undo.cnt => EndAt(undo)
    <3>1. ASSUME NEW q \in 0 .. Len(undo.nodes), WalkAt(undo, q)
          PROVE  ~(undo.idx > undo.cnt)
      BY <1>1, <3>1, WalkNumbers, GoodNumbers
    <3> QED BY <2>2, <3>1 DEF Settled
  <2> QED BY <2>1, <2>2, <2>3 DEF WalkInv
<1>4. CASE Edit
  <2>1. undo' = PushUndo(undo) /\ ~OffAhead /\ last' = "edit"
    BY <1>4 DEF Edit, Acts, Careful
  <2>2. Equals(undo.nodes, undo.off, line) => EndAt(undo)
    BY <1>4, EditAtEnd
  <2>3. EndAt(PushUndo(undo)) /\ Distinct(PushUndo(undo))
    BY <1>1, <2>2, PushSettles DEF WalkInv, Careful
  <2> QED BY <2>1, <2>3 DEF WalkInv, Settled
<1>5. CASE Move
  BY <1>2, <1>5 DEF Move, Acts
<1>6. CASE Bell
  <2>1. last # "type" /\ undo' = undo /\ line' = line /\ last' = "bell"
    BY <1>6 DEF Bell, Acts, Careful
  <2> QED BY <2>1 DEF WalkInv
<1>7. CASE UndoLine
  <2>1. last' = "undo" /\ from' = line
    BY <1>7 DEF UndoLine, Acts
  <2>2. /\ Len(u.nodes) \in Nat
        /\ \A j : j \in Positions(u.nodes) <=> j \in Nat /\ 0 < j /\ j <= Len(u.nodes)
    BY <1>1, GoodNumbers
  <2> HIDE DEF u
  <2>3. CASE UndoFromEnd(u)
    <3>1. /\ WalkAt(undo', u.off) /\ u.off = Len(u.nodes) /\ u.off > 0
          /\ \A k \in Positions(u.nodes) : undo'.nodes[k] = u.nodes[k]
          /\ line' = u.nodes[u.off].text
          /\ \/ line' = line /\ Len(undo'.nodes) = u.off
             \/ /\ line' # line
                /\ Len(undo'.nodes) = u.off + 1 /\ undo'.nodes[u.off + 1].text = line
      BY <2>3 DEF UndoFromEnd, EndAt
    <3>2. u.off \in Positions(u.nodes) /\ u.off \in Nat
      BY <2>2, <3>1
    <3>3. Distinct(undo')
      <4> SUFFICES ASSUME NEW j \in Positions(undo'.nodes), NEW k \in Positions(undo'.nodes),
                          k = j + 1
                   PROVE  undo'.nodes[j].text # undo'.nodes[k].text
        BY DEF Distinct
      <4>0. /\ j \in Nat /\ k \in Nat /\ 0 < j /\ Len(undo'.nodes) \in {u.off, u.off + 1}
            /\ k <= Len(undo'.nodes)
        BY <3>1, <3>2 DEF Positions
      <4>1. j \in Positions(u.nodes) /\ undo'.nodes[j] = u.nodes[j]
        BY <2>2, <3>1, <3>2, <4>0
      <4>2. CASE k = u.off + 1
        <5>1. j = u.off /\ line' # line
          BY <3>1, <3>2, <4>0, <4>2
        <5> QED BY <3>1, <4>1, <4>2, <5>1
      <4>3. CASE k # u.off + 1
        <5>1. k \in Positions(u.nodes) /\ undo'.nodes[k] = u.nodes[k]
          BY <2>2, <3>1, <3>2, <4>0, <4>3
        <5> QED BY <1>1, <4>1, <5>1 DEF Distinct
      <4> QED BY <4>2, <4>3
    <3>4. u.off \in 0 .. Len(undo'.nodes) /\ line' = (undo'.nodes[u.off]).text
      BY <3>1, <3>2
    <3>5. Settled(undo', line')
      BY <3>1, <3>4 DEF Settled, TextAt
    <3>6. line' # line =>
            /\ u.off \in 0 .. Len(undo'.nodes) - 1
            /\ undo'.off # Len(undo'.nodes)
            /\ undo'.nodes[u.off + 1].text = line
      BY <3>1, <3>2 DEF WalkAt
    <3> QED BY <2>1, <3>1, <3>3, <3>5, <3>6 DEF WalkInv
  <2>4. CASE UndoFromLine(u)
    <3>1. PICK q \in Positions(u.nodes) :
            /\ WalkAt(u, q) /\ line = u.nodes[q].text
            /\ WalkAt(undo', q - 1) /\ line' = TextAt(u, q - 1)
            /\ undo'.nodes = u.nodes /\ undo'.off # Len(u.nodes)
      BY <2>4 DEF UndoFromLine
    <3>2. /\ q - 1 \in 0 .. Len(undo'.nodes) /\ q - 1 \in 0 .. Len(undo'.nodes) - 1
          /\ q - 1 + 1 = q
      BY <2>2, <3>1
    <3>3. Settled(undo', line') /\ Distinct(undo')
      BY <1>1, <3>1, <3>2 DEF Settled, TextAt, Distinct
    <3> QED BY <2>1, <3>1, <3>2, <3>3 DEF WalkInv
  <2>5. CASE Stays(u)
    BY <1>2, <2>1, <2>5 DEF Stays
  <2> QED BY <1>7, <2>3, <2>4, <2>5, UndoMoves DEF u
<1>8. CASE RedoLine
  <2>1. last' = "redo" /\ from' = line
    BY <1>8 DEF RedoLine, Acts
  <2>2. Len(u.nodes) \in Nat
    BY <1>1, GoodNumbers
  <2> HIDE DEF u
  <2>3. CASE RedoFromLine(u)
    <3>1. PICK q \in 0 .. Len(u.nodes) - 1 :
            /\ WalkAt(undo', q + 1) /\ line' = u.nodes[q + 1].text
            /\ undo'.nodes = u.nodes
      BY <2>3 DEF RedoFromLine
    <3>2. q + 1 \in 0 .. Len(undo'.nodes) /\ q + 1 # 0
      BY <2>2, <3>1
    <3>3. Settled(undo', line') /\ Distinct(undo')
      BY <1>1, <3>1, <3>2 DEF Settled, TextAt, Distinct
    <3> QED BY <2>1, <3>3 DEF WalkInv
  <2>4. CASE Stays(u)
    BY <1>2, <2>1, <2>4 DEF Stays
  <2> QED BY <1>8, <2>3, <2>4, RedoMoves DEF u
<1>9. CASE Revert
  <2>1. last' = "revert" /\ from' = line
    BY <1>9 DEF Revert, Acts
  <2>2. Len(u.nodes) \in Nat
    BY <1>1, GoodNumbers
  <2> HIDE DEF u
  <2>3. CASE RevertToFirst(u)
    <3>1. /\ WalkAt(undo', 1) /\ line' = u.nodes[1].text /\ undo'.nodes = u.nodes
      BY <2>3 DEF RevertToFirst
    <3>2. 1 \in 0 .. Len(undo'.nodes)
      BY <2>2, <3>1 DEF WalkAt, Positions
    <3>3. Settled(undo', line') /\ Distinct(undo')
      BY <1>1, <3>1, <3>2 DEF Settled, TextAt, Distinct
    <3> QED BY <2>1, <3>3 DEF WalkInv
  <2>4. CASE Stays(u)
    BY <1>2, <2>1, <2>4 DEF Stays
  <2> QED BY <1>9, <2>3, <2>4, RevertMoves DEF u
<1>10. CASE Finish
  BY <1>10, NoUndoSettled DEF Finish, Acts, WalkInv
<1>11. CASE UNCHANGED vars
  BY <1>11 DEF vars, WalkInv
<1> QED BY <1>3, <1>4, <1>5, <1>6, <1>7, <1>8, <1>9, <1>10, <1>11 DEF Next

(* "Redo edit that was undone": a redo right after an undo brings back the *)
(* line that was undone, whatever a user without the habits did before.    *)
THEOREM RedoBringsBack ==
  ASSUME Careful
  PROVE  Spec => RedoesUndone
<1>1. Init => WalkInv
  BY NoUndoSettled DEF Init, WalkInv
<1>2. Inv /\ WalkInv /\ [Next]_vars => WalkInv'
  BY WalkInvStep
<1>3. ASSUME Inv, WalkInv, RedoLine, last = "undo", line # from
      PROVE  line' = from
  <2>1. Pushed = undo
    BY <1>3 DEF Pushed
  <2> QED BY <1>3, <2>1, RedoMoves DEF WalkInv
<1>4. Inv /\ WalkInv => [RedoLine /\ last = "undo" /\ line # from => line' = from]_vars
  BY <1>3
<1> QED BY <1>1, <1>2, <1>4, InvInductive, PTL DEF Spec, RedoesUndone

-----------------------------------------------------------------------------
(* Undo implements UndoStack: every action of a user without the habits    *)
(* maps to a step of the stack, or to none, when filter_copy stores lines  *)
(* as they are.                                                            *)

(* The texts of the saved lines from m to n of a buffer.                   *)
TextsOf(u, m, n) == [k \in 1 .. n - m + 1 |-> u.nodes[m + k - 1].text]

(* What undo promises of the line l between the lines p that it was and    *)
(* the lines f that were undone, in terms of the buffer.                   *)
Shows(u, l, p, f) ==
  \/ /\ EndAt(u) /\ f = <<>>
     /\ p = TextsOf(u, 1, IF Equals(u.nodes, u.off, l) THEN u.off - 1 ELSE u.off)
  \/ \E q \in 0 .. Len(u.nodes) :
       /\ WalkAt(u, q) /\ l = TextAt(u, q)
       /\ p = TextsOf(u, 1, IF q = 0 THEN 0 ELSE q - 1)
       /\ f = TextsOf(u, q + 1, Len(u.nodes))

Past == Texts(1, Below)
Future == IF Growing THEN <<>> ELSE Texts(Above + 1, Len(undo.nodes))

(* The texts of a stretch of saved lines are a sequence of lines.          *)
LEMMA TextsSeq ==
  ASSUME NEW u, Good(u), NEW m \in 1 .. Len(u.nodes) + 1, NEW n \in m - 1 .. Len(u.nodes)
  PROVE  /\ TextsOf(u, m, n) \in Seq(Lines)
         /\ Len(TextsOf(u, m, n)) = n - m + 1
         /\ \A k \in 1 .. n - m + 1 : TextsOf(u, m, n)[k] = u.nodes[m + k - 1].text
<1>1. Len(u.nodes) \in Nat /\ \A k \in Positions(u.nodes) : u.nodes[k].text \in Lines
  BY GoodNumbers
<1>2. n - m + 1 \in Nat /\ m \in Int /\ n \in Int
  BY <1>1
<1>3. \A k \in 1 .. n - m + 1 : u.nodes[m + k - 1].text \in Lines
  BY <1>1, <1>2 DEF Positions
<1>4. TextsOf(u, m, n) \in [1 .. n - m + 1 -> Lines]
  BY <1>3 DEF TextsOf
<1>5. TextsOf(u, m, n) \in Seq(Lines)
  BY <1>2, <1>4, SeqDef, Zenon
<1>6. Len(TextsOf(u, m, n)) = n - m + 1
  BY <1>2, <1>4, <1>5
<1> QED BY <1>5, <1>6 DEF TextsOf

(* No texts, from buffers of whatever kind.                                *)
LEMMA TextsNone ==
  ASSUME NEW u, Good(u), NEW m \in 1 .. Len(u.nodes) + 1
  PROVE  TextsOf(u, m, m - 1) = <<>>
<1>1. Len(u.nodes) \in Nat /\ m \in Int /\ m - 1 \in m - 1 .. Len(u.nodes) /\ m - 1 - m + 1 = 0
  BY GoodNumbers
<1>2. TextsOf(u, m, m - 1) \in Seq(Lines) /\ Len(TextsOf(u, m, m - 1)) = 0
  BY <1>1, TextsSeq
<1> QED BY <1>2, EmptySeq

(* One more text at the end, and one less.                                 *)
LEMMA TextsAppend ==
  ASSUME NEW u, Good(u), NEW m \in 1 .. Len(u.nodes), NEW n \in m .. Len(u.nodes)
  PROVE  /\ TextsOf(u, m, n) = Append(TextsOf(u, m, n - 1), u.nodes[n].text)
         /\ TextsOf(u, m, n) # <<>>
         /\ Len(TextsOf(u, m, n)) = n - m + 1
         /\ TextsOf(u, m, n)[n - m + 1] = u.nodes[n].text
         /\ SubSeq(TextsOf(u, m, n), 1, n - m) = TextsOf(u, m, n - 1)
<1> DEFINE s == TextsOf(u, m, n - 1)
           t == TextsOf(u, m, n)
           x == u.nodes[n].text
<1>1. /\ Len(u.nodes) \in Nat /\ m \in Nat /\ n \in Nat /\ m <= n /\ m > 0
      /\ m \in 1 .. Len(u.nodes) + 1 /\ n \in m - 1 .. Len(u.nodes)
      /\ n - 1 \in m - 1 .. Len(u.nodes) /\ n - 1 - m + 1 = n - m /\ n - m \in Nat
      /\ n \in Positions(u.nodes)
  BY GoodNumbers DEF Positions
<1>2. x \in Lines
  BY <1>1, GoodNumbers
<1>3. /\ s \in Seq(Lines) /\ Len(s) = n - m
      /\ \A k \in 1 .. n - m : s[k] = u.nodes[m + k - 1].text
  BY <1>1, TextsSeq
<1>4. /\ t \in Seq(Lines) /\ Len(t) = n - m + 1
      /\ \A k \in 1 .. n - m + 1 : t[k] = u.nodes[m + k - 1].text
  BY <1>1, TextsSeq
<1> HIDE DEF s, t
<1>5. t[n - m + 1] = x
  <2>1. n - m + 1 \in 1 .. n - m + 1 /\ m + (n - m + 1) - 1 = n
    BY <1>1
  <2> QED BY <1>4, <2>1
<1>6. t = Append(s, x)
  <2> DEFINE a == Append(s, x)
  <2>1. /\ a \in Seq(Lines) /\ Len(a) = n - m + 1
        /\ \A k \in 1 .. n - m : a[k] = s[k]
        /\ a[n - m + 1] = x
    <3> HIDE DEF x
    <3>1. /\ a \in Seq(Lines) /\ Len(a) = Len(s) + 1
          /\ \A k \in 1 .. Len(s) : a[k] = s[k]
          /\ a[Len(s) + 1] = x
      BY <1>2, <1>3, AppendProperties
    <3> QED BY <1>3, <3>1
  <2> HIDE DEF a, x
  <2>2. \A k \in 1 .. Len(t) : t[k] = a[k]
    <3>1. ASSUME NEW k \in 1 .. n - m PROVE t[k] = a[k]
      BY <1>1, <1>3, <1>4, <2>1
    <3> QED BY <1>1, <1>4, <1>5, <2>1, <3>1
  <2>3. t = a
    BY <1>4, <2>1, <2>2, SeqEqual
  <2> QED BY <2>3 DEF a
<1>7. SubSeq(t, 1, n - m) = s
  <2>1. /\ SubSeq(t, 1, n - m) \in Seq(Lines)
        /\ Len(SubSeq(t, 1, n - m)) = n - m
        /\ \A k \in 1 .. n - m : SubSeq(t, 1, n - m)[k] = t[k]
    BY <1>1, <1>4, Prefix
  <2>2. \A k \in 1 .. n - m : t[k] = s[k]
    BY <1>1, <1>3, <1>4
  <2> QED BY <1>3, <2>1, <2>2, SeqEqual
<1>8. t # <<>>
  BY <1>1, <1>4, EmptySeq
<1> QED BY <1>4, <1>5, <1>6, <1>7, <1>8 DEF s, t, x

(* One more text in front, and one less.                                   *)
LEMMA TextsCons ==
  ASSUME NEW u, Good(u), NEW m \in 1 .. Len(u.nodes), NEW n \in m .. Len(u.nodes)
  PROVE  /\ TextsOf(u, m, n) = <<u.nodes[m].text>> \o TextsOf(u, m + 1, n)
         /\ TextsOf(u, m, n) # <<>>
         /\ TextsOf(u, m, n)[1] = u.nodes[m].text
         /\ Head(TextsOf(u, m, n)) = u.nodes[m].text
         /\ Tail(TextsOf(u, m, n)) = TextsOf(u, m + 1, n)
<1> DEFINE s == TextsOf(u, m + 1, n)
           t == TextsOf(u, m, n)
           x == u.nodes[m].text
<1>1. /\ Len(u.nodes) \in Nat /\ m \in Nat /\ n \in Nat /\ m <= n /\ m > 0
      /\ m \in 1 .. Len(u.nodes) + 1 /\ n \in m - 1 .. Len(u.nodes)
      /\ m + 1 \in 1 .. Len(u.nodes) + 1 /\ n \in m + 1 - 1 .. Len(u.nodes)
      /\ n - (m + 1) + 1 = n - m /\ n - m \in Nat
      /\ m \in Positions(u.nodes)
  BY GoodNumbers DEF Positions
<1>2. x \in Lines
  BY <1>1, GoodNumbers
<1>3. /\ s \in Seq(Lines) /\ Len(s) = n - m
      /\ \A k \in 1 .. n - m : s[k] = u.nodes[m + 1 + k - 1].text
  <2>1. /\ s \in Seq(Lines) /\ Len(s) = n - (m + 1) + 1
        /\ \A k \in 1 .. n - (m + 1) + 1 : s[k] = u.nodes[m + 1 + k - 1].text
    <3>1. PICK c : c = m + 1
      OBVIOUS
    <3>2. c \in 1 .. Len(u.nodes) + 1 /\ n \in c - 1 .. Len(u.nodes)
      BY <1>1, <3>1
    <3>3. /\ TextsOf(u, c, n) \in Seq(Lines) /\ Len(TextsOf(u, c, n)) = n - c + 1
          /\ \A k \in 1 .. n - c + 1 : TextsOf(u, c, n)[k] = u.nodes[c + k - 1].text
      BY <3>2, TextsSeq
    <3> QED BY <3>1, <3>3
  <2> QED BY <1>1, <2>1
<1>4. /\ t \in Seq(Lines) /\ Len(t) = n - m + 1
      /\ \A k \in 1 .. n - m + 1 : t[k] = u.nodes[m + k - 1].text
  BY <1>1, TextsSeq
<1> HIDE DEF s, t
<1>5. t[1] = x
  <2>1. 1 \in 1 .. n - m + 1 /\ m + 1 - 1 = m
    BY <1>1
  <2> QED BY <1>4, <2>1
<1>6. \A k \in 1 .. n - m : t[k + 1] = s[k]
  <2> TAKE k \in 1 .. n - m
  <2>1. k + 1 \in 1 .. n - m + 1 /\ m + (k + 1) - 1 = m + 1 + k - 1
    BY <1>1
  <2> QED BY <1>3, <1>4, <2>1
<1>7. t # <<>>
  BY <1>1, <1>4, EmptySeq
<1>8. Tail(t) = s
  <2>1. Tail(t) \in Seq(Lines) /\ Len(Tail(t)) = n - m
        /\ \A k \in 1 .. n - m : Tail(t)[k] = t[k + 1]
    BY <1>1, <1>4, <1>7, HeadTailProperties
  <2> QED BY <1>3, <1>6, <2>1, SeqEqual
<1>9. Head(t) = x
  BY <1>4, <1>5, <1>7
<1>10. t = <<x>> \o s
  <2> DEFINE a == <<x>>
  <2> HIDE DEF x
  <2>1. a \in Seq(Lines) /\ Len(a) = 1 /\ a[1] = x
    BY <1>2
  <2>2. /\ a \o s \in Seq(Lines) /\ Len(a \o s) = 1 + (n - m)
        /\ \A k \in 1 .. 1 + (n - m) : (a \o s)[k] = IF k <= 1 THEN a[k] ELSE s[k - 1]
    BY <1>3, <2>1, ConcatProperties
  <2>3. \A k \in 1 .. Len(t) : t[k] = (a \o s)[k]
    <3> SUFFICES ASSUME NEW k \in 1 .. n - m + 1 PROVE t[k] = (a \o s)[k]
      BY <1>4
    <3>1. k \in Nat /\ (a \o s)[k] = IF k <= 1 THEN a[k] ELSE s[k - 1]
      BY <1>1, <2>2
    <3>2. CASE k = 1
      BY <1>5, <2>1, <3>1, <3>2
    <3>3. CASE k # 1
      <4>1. k - 1 \in 1 .. n - m /\ k - 1 + 1 = k /\ ~(k <= 1)
        BY <1>1, <3>1, <3>3
      <4>2. t[k] = s[k - 1]
        BY <1>6, <4>1
      <4> QED BY <3>1, <4>1, <4>2
    <3> QED BY <3>2, <3>3
  <2>4. Len(t) = Len(a \o s)
    BY <1>1, <1>4, <2>2
  <2>5. t = a \o s
    BY <1>4, <2>2, <2>3, <2>4, SeqEqual
  <2> QED BY <2>5
<1> QED BY <1>5, <1>7, <1>8, <1>9, <1>10 DEF s, t, x

(* The same at the first saved line.                                       *)
LEMMA TextsFirst ==
  ASSUME NEW u, Good(u), NEW n \in 1 .. Len(u.nodes)
  PROVE  /\ TextsOf(u, 1, n) # <<>>
         /\ TextsOf(u, 1, n)[1] = u.nodes[1].text
         /\ Head(TextsOf(u, 1, n)) = u.nodes[1].text
         /\ Tail(TextsOf(u, 1, n)) = TextsOf(u, 2, n)
<1>1. PICK m : m = 1
  OBVIOUS
<1>2. m \in 1 .. Len(u.nodes) /\ n \in m .. Len(u.nodes) /\ m + 1 = 2
  BY <1>1, GoodNumbers
<1>3. /\ TextsOf(u, m, n) # <<>>
      /\ TextsOf(u, m, n)[1] = u.nodes[m].text
      /\ Head(TextsOf(u, m, n)) = u.nodes[m].text
      /\ Tail(TextsOf(u, m, n)) = TextsOf(u, m + 1, n)
  BY <1>2, TextsCons
<1> QED BY <1>1, <1>2, <1>3

(* Two stretches that meet.                                                *)
LEMMA TextsJoin ==
  ASSUME NEW u, Good(u), NEW m \in 1 .. Len(u.nodes) + 1,
         NEW k \in m - 1 .. Len(u.nodes), NEW n \in k .. Len(u.nodes)
  PROVE  TextsOf(u, m, k) \o TextsOf(u, k + 1, n) = TextsOf(u, m, n)
<1> DEFINE s == TextsOf(u, m, k)
           t == TextsOf(u, k + 1, n)
           j == TextsOf(u, m, n)
<1>1. /\ Len(u.nodes) \in Nat /\ m \in Nat /\ n \in Nat /\ k \in Nat /\ m > 0
      /\ k + 1 \in 1 .. Len(u.nodes) + 1 /\ n \in k + 1 - 1 .. Len(u.nodes)
      /\ n \in m - 1 .. Len(u.nodes)
      /\ k - m + 1 \in Nat /\ n - (k + 1) + 1 \in Nat
      /\ (k - m + 1) + (n - (k + 1) + 1) = n - m + 1
  BY GoodNumbers
<1>2. /\ s \in Seq(Lines) /\ Len(s) = k - m + 1
      /\ \A i \in 1 .. k - m + 1 : s[i] = u.nodes[m + i - 1].text
  BY <1>1, TextsSeq
<1>3. /\ t \in Seq(Lines) /\ Len(t) = n - (k + 1) + 1
      /\ \A i \in 1 .. n - (k + 1) + 1 : t[i] = u.nodes[k + 1 + i - 1].text
  <2>1. PICK c : c = k + 1
    OBVIOUS
  <2>2. c \in 1 .. Len(u.nodes) + 1 /\ n \in c - 1 .. Len(u.nodes)
    BY <1>1, <2>1
  <2>3. /\ TextsOf(u, c, n) \in Seq(Lines) /\ Len(TextsOf(u, c, n)) = n - c + 1
        /\ \A i \in 1 .. n - c + 1 : TextsOf(u, c, n)[i] = u.nodes[c + i - 1].text
    BY <2>2, TextsSeq
  <2> QED BY <2>1, <2>3
<1>4. /\ j \in Seq(Lines) /\ Len(j) = n - m + 1
      /\ \A i \in 1 .. n - m + 1 : j[i] = u.nodes[m + i - 1].text
  BY <1>1, TextsSeq
<1> HIDE DEF s, t, j
<1>5. /\ s \o t \in Seq(Lines) /\ Len(s \o t) = Len(s) + Len(t)
      /\ \A i \in 1 .. Len(s) + Len(t) :
           (s \o t)[i] = IF i <= Len(s) THEN s[i] ELSE t[i - Len(s)]
  BY <1>2, <1>3, ConcatProperties
<1>6. Len(s) + Len(t) = n - m + 1
  BY <1>1, <1>2, <1>3
<1>7. ASSUME NEW i \in 1 .. n - m + 1
      PROVE  (s \o t)[i] = j[i]
  <2>1. CASE i <= Len(s)
    <3>1. i \in 1 .. k - m + 1
      BY <1>1, <1>2, <2>1
    <3> QED BY <1>2, <1>4, <1>5, <1>6, <2>1, <3>1
  <2>2. CASE ~(i <= Len(s))
    <3>1. i - Len(s) \in 1 .. n - (k + 1) + 1 /\ k + 1 + (i - Len(s)) - 1 = m + i - 1
      BY <1>1, <1>2, <2>2
    <3>2. t[i - Len(s)] = u.nodes[m + i - 1].text
      BY <1>3, <3>1
    <3> QED BY <1>4, <1>5, <1>6, <2>2, <3>2
  <2> QED BY <2>1, <2>2
<1>8. s \o t = j
  BY <1>4, <1>5, <1>6, <1>7, SeqEqual
<1> QED BY <1>8 DEF s, t, j

(* The texts are the same where the nodes are.                             *)
LEMMA TextsSame ==
  ASSUME NEW u, NEW v, NEW m \in Nat, NEW n \in Nat,
         \A k \in m .. n : u.nodes[k] = v.nodes[k]
  PROVE  TextsOf(u, m, n) = TextsOf(v, m, n)
<1>1. \A k \in 1 .. n - m + 1 : m + k - 1 \in m .. n
  OBVIOUS
<1>2. \A k \in 1 .. n - m + 1 : u.nodes[m + k - 1].text = v.nodes[m + k - 1].text
  BY <1>1
<1> QED BY <1>2, Zenon DEF TextsOf

(* The saved lines below the walk and up to it, for find_lt.               *)
LEMMA WalkFinds ==
  ASSUME NEW u, Good(u), NEW q \in 0 .. Len(u.nodes), WalkAt(u, q),
         NEW k \in 0 .. Len(u.nodes)
  PROVE  /\ FindLt(u.nodes, u.idx, k) <=> k = (IF q = 0 THEN 0 ELSE q - 1)
         /\ FindLt(u.nodes, u.idx + 1, k) <=> k = q
<1>1. /\ Len(u.nodes) \in Nat /\ u.idx \in Nat /\ k \in Nat /\ q \in Nat
      /\ k <= Len(u.nodes) /\ q <= Len(u.nodes)
      /\ \A j \in Positions(u.nodes) :
           /\ u.nodes[j].index \in Nat /\ u.nodes[j].index > 0
           /\ \A i \in Positions(u.nodes) : i < j => u.nodes[i].index < u.nodes[j].index
      /\ \A j : j \in Positions(u.nodes) <=> j \in Nat /\ 0 < j /\ j <= Len(u.nodes)
  BY GoodNumbers
<1>2. /\ q > 0 => u.idx = u.nodes[q].index /\ q \in Positions(u.nodes)
      /\ q = 0 => u.idx = 0
  BY WalkNumbers
<1>3. ASSUME NEW j \in Positions(u.nodes)
      PROVE  /\ u.nodes[j].index < u.idx <=> j < q
             /\ u.nodes[j].index < u.idx + 1 <=> j <= q
  <2>1. j \in Nat /\ 0 < j /\ u.nodes[j].index \in Nat /\ u.nodes[j].index > 0
    BY <1>1
  <2>2. CASE q = 0
    BY <1>1, <1>2, <2>1, <2>2
  <2>3. CASE q > 0
    <3>1. u.idx = u.nodes[q].index /\ q \in Positions(u.nodes)
      BY <1>2, <2>3
    <3>2. /\ j < q => u.nodes[j].index < u.idx
          /\ q < j => u.idx < u.nodes[j].index
      BY <1>1, <3>1
    <3>3. j = q => u.nodes[j].index = u.idx
      BY <3>1
    <3> QED BY <1>1, <2>1, <3>2, <3>3
  <2> QED BY <1>1, <2>2, <2>3
<1>4. FindLt(u.nodes, u.idx, k) <=> \A j \in Positions(u.nodes) : j <= k <=> j < q
  BY <1>3 DEF FindLt
<1>5. FindLt(u.nodes, u.idx + 1, k) <=> \A j \in Positions(u.nodes) : j <= k <=> j <= q
  BY <1>3 DEF FindLt
<1>6. (\A j \in Positions(u.nodes) : j <= k <=> j <= q) <=> k = q
  <2>1. ASSUME k < q PROVE q \in Positions(u.nodes) /\ ~(q <= k) /\ q <= q
    BY <1>1, <2>1
  <2>2. ASSUME q < k PROVE k \in Positions(u.nodes) /\ ~(k <= q) /\ k <= k
    BY <1>1, <2>2
  <2> QED BY <1>1, <2>1, <2>2
<1>7. (\A j \in Positions(u.nodes) : j <= k <=> j < q) <=> k = (IF q = 0 THEN 0 ELSE q - 1)
  <2>1. CASE q = 0
    <3>1. ASSUME k > 0 PROVE k \in Positions(u.nodes) /\ ~(k < q) /\ k <= k
      BY <1>1, <2>1, <3>1
    <3> QED BY <1>1, <2>1, <3>1
  <2>2. CASE q > 0
    <3>1. ASSUME k < q - 1 PROVE q - 1 \in Positions(u.nodes) /\ ~(q - 1 <= k) /\ q - 1 < q
      BY <1>1, <3>1
    <3>2. ASSUME q - 1 < k PROVE k \in Positions(u.nodes) /\ ~(k < q) /\ k <= k
      BY <1>1, <2>2, <3>2
    <3> QED BY <1>1, <2>2, <3>1, <3>2
  <2> QED BY <1>1, <2>1, <2>2
<1> QED BY <1>4, <1>5, <1>6, <1>7

(* The walk stands at one place.                                           *)
LEMMA WalkUnique ==
  ASSUME NEW u, Good(u), NEW q \in 0 .. Len(u.nodes), NEW r \in 0 .. Len(u.nodes),
         WalkAt(u, q), WalkAt(u, r)
  PROVE  q = r
<1>1. FindLt(u.nodes, u.idx + 1, q)
  BY WalkFinds
<1> QED BY <1>1, WalkFinds

(* Where new lines are added, the lines before are those below off.        *)
LEMMA GrowingIs ==
  ASSUME Good(undo), Growing
  PROVE  /\ Past = TextsOf(undo, 1, IF Equals(undo.nodes, undo.off, line)
                                    THEN undo.off - 1 ELSE undo.off)
         /\ Future = <<>>
<1> DEFINE n == undo.off - (IF Equals(undo.nodes, undo.off, line) THEN 1 ELSE 0)
<1>1. n \in 0 .. Len(undo.nodes)
  <2>1. undo.off \in 0 .. Len(undo.nodes)
    BY GoodNumbers
  <2> QED BY <2>1 DEF Equals
<1>2. Below = n
  BY <1>1 DEF Below
<1>3. n = IF Equals(undo.nodes, undo.off, line) THEN undo.off - 1 ELSE undo.off
  BY <1>1, GoodNumbers
<1> HIDE DEF n
<1> QED BY <1>2, <1>3 DEF Past, Future, Texts, TextsOf

(* What the buffer shows are the lines of the abstract stack.              *)
LEMMA ShownIs ==
  ASSUME Good(undo), last # "type", NEW p, NEW f, Shows(undo, line, p, f)
  PROVE  Past = p /\ Future = f
<1>1. undo.cnt \in Nat /\ undo.idx \in Nat
  BY GoodNumbers
<1>2. CASE /\ EndAt(undo) /\ f = <<>>
           /\ p = TextsOf(undo, 1, IF Equals(undo.nodes, undo.off, line)
                                   THEN undo.off - 1 ELSE undo.off)
  <2>1. Growing
    BY <1>1, <1>2 DEF EndAt, Growing, AtEnd
  <2> QED BY <1>2, <2>1, GrowingIs
<1>3. ASSUME NEW q \in 0 .. Len(undo.nodes), WalkAt(undo, q),
             p = TextsOf(undo, 1, IF q = 0 THEN 0 ELSE q - 1),
             f = TextsOf(undo, q + 1, Len(undo.nodes))
      PROVE  Past = p /\ Future = f
  <2>1. ~Growing
    BY <1>1, <1>3, WalkNumbers DEF Growing, AtEnd
  <2> DEFINE b == IF q = 0 THEN 0 ELSE q - 1
  <2>2. b \in 0 .. Len(undo.nodes)
    BY <1>3, GoodNumbers
  <2> HIDE DEF b
  <2>3. \A k \in 0 .. Len(undo.nodes) : /\ FindLt(undo.nodes, undo.idx, k) <=> k = b
                                        /\ FindLt(undo.nodes, undo.idx + 1, k) <=> k = q
    BY <1>3, WalkFinds DEF b
  <2>4. Below = b
    BY <2>1, <2>2, <2>3 DEF Below
  <2>5. Above = q
    BY <1>3, <2>3 DEF Above
  <2> QED BY <1>3, <2>1, <2>4, <2>5 DEF Past, Future, Texts, TextsOf, b
<1> QED BY <1>2, <1>3 DEF Shows

(* A push leaves below off what was below the line that it saved.          *)
LEMMA PushTexts ==
  ASSUME line \in Lines, NEW u, Good(u)
  PROVE  TextsOf(u, 1, IF Equals(u.nodes, u.off, line) THEN u.off - 1 ELSE u.off)
           = TextsOf(PushUndo(u), 1, PushUndo(u).off - 1)
<1>1. CASE Equals(u.nodes, u.off, line)
  BY <1>1 DEF PushUndo
<1>2. CASE ~Equals(u.nodes, u.off, line)
  <2>1. /\ PushUndo(u).off = u.off + 1
        /\ \A k \in 1 .. u.off : PushUndo(u).nodes[k] = u.nodes[k]
    BY <1>2, PushIs
  <2>2. u.off \in Nat /\ PushUndo(u).off - 1 = u.off /\ 1 \in Nat
    BY <2>1, GoodNumbers
  <2>3. TextsOf(u, 1, u.off) = TextsOf(PushUndo(u), 1, u.off)
    <3>1. \A k \in 1 .. u.off : u.nodes[k] = PushUndo(u).nodes[k]
      BY <2>1
    <3> QED BY <2>2, <3>1, TextsSame, Zenon
  <2> QED BY <1>2, <2>2, <2>3
<1> QED BY <1>1, <1>2

(* What the buffer shows at the next action, after its push.               *)
LEMMA PushedShows ==
  ASSUME Careful, Inv, WalkInv
  PROVE  Shows(Pushed, line, Past, Future)
<1>1. Good(undo) /\ Good(Pushed) /\ line \in Lines
  BY InvGood DEF Inv
<1>2. CASE last # "type"
  <2>1. Settled(undo, line) /\ Pushed = undo
    BY <1>2 DEF WalkInv, Pushed
  <2>2. \E p, f : Shows(undo, line, p, f)
    BY <2>1 DEF Settled, Shows
  <2> QED BY <1>1, <1>2, <2>1, <2>2, ShownIs
<1>3. CASE last = "type"
  <2>1. /\ Pushed = PushUndo(undo) /\ Growing
        /\ Equals(undo.nodes, undo.off, line) => EndAt(undo)
    BY <1>3 DEF WalkInv, Pushed, Growing
  <2>2. EndAt(Pushed) /\ Equals(Pushed.nodes, Pushed.off, line)
    BY <1>1, <2>1, PushSettles DEF WalkInv, Careful
  <2>3. /\ Past = TextsOf(undo, 1, IF Equals(undo.nodes, undo.off, line)
                                   THEN undo.off - 1 ELSE undo.off)
        /\ Future = <<>>
    BY <1>1, <2>1, GrowingIs
  <2>4. Past = TextsOf(Pushed, 1, Pushed.off - 1)
    BY <1>1, <2>1, <2>3, PushTexts
  <2> QED BY <2>2, <2>3, <2>4 DEF Shows
<1> QED BY <1>2, <1>3

(* The lines before an edit, for the two ends of what an edit does.        *)
LEMMA EditTexts ==
  ASSUME Careful, Inv, WalkInv, Edit
  PROVE  Past = TextsOf(undo, 1, IF Equals(undo.nodes, undo.off, line)
                                 THEN undo.off - 1 ELSE undo.off)
<1>1. Good(undo)
  BY InvGood
<1>2. ASSUME NEW q \in 0 .. Len(undo.nodes), WalkAt(undo, q), line = TextAt(undo, q),
             last # "type"
      PROVE  Past = TextsOf(undo, 1, IF Equals(undo.nodes, undo.off, line)
                                     THEN undo.off - 1 ELSE undo.off)
  <2>1. Past = TextsOf(undo, 1, IF q = 0 THEN 0 ELSE q - 1)
    <3>1. \E f : Shows(undo, line, TextsOf(undo, 1, IF q = 0 THEN 0 ELSE q - 1), f)
      BY <1>2 DEF Shows
    <3> QED BY <1>1, <1>2, <3>1, ShownIs
  <2>2. ~EndAt(undo) /\ ~OffAhead
    BY <1>1, <1>2, WalkNumbers DEF Edit, Careful
  <2>3. ~Equals(undo.nodes, undo.off, line)
    BY <2>2, EditAtEnd
  <2>4. undo.off = IF q = 0 THEN 0 ELSE q - 1
    <3>1. /\ q > 0 => /\ undo.off \in {q - 1, q} /\ undo.idx = undo.nodes[q].index
                      /\ q \in Positions(undo.nodes) /\ undo.nodes[q].index \in Nat
          /\ q = 0 => undo.off = 0
          /\ q \in Nat
      BY <1>1, <1>2, WalkNumbers, GoodNumbers
    <3> QED BY <2>2, <3>1 DEF OffAhead
  <2> QED BY <2>1, <2>3, <2>4
<1>3. ASSUME Growing
      PROVE  Past = TextsOf(undo, 1, IF Equals(undo.nodes, undo.off, line)
                                     THEN undo.off - 1 ELSE undo.off)
  BY <1>1, <1>3, GrowingIs
<1>4. EndAt(undo) => Growing
  BY <1>1, GoodNumbers DEF EndAt, Growing, AtEnd
<1> QED BY <1>2, <1>3, <1>4 DEF WalkInv, Settled, Growing

(* The line l is the saved line q, between those below and those above.    *)
AtSaved(u, l, p, f, q) ==
  /\ q \in Positions(u.nodes) /\ l = u.nodes[q].text
  /\ p = TextsOf(u, 1, q - 1) /\ f = TextsOf(u, q + 1, Len(u.nodes))

(* The line l is above all the saved lines.                                *)
AboveSaved(u, l, p, f) ==
  /\ Len(u.nodes) > 0 /\ ~Equals(u.nodes, Len(u.nodes), l)
  /\ p = TextsOf(u, 1, Len(u.nodes)) /\ f = <<>>

(* The line l is the empty line below all the saved lines.                 *)
BelowSaved(u, l, p, f) ==
  l = Empty /\ p = <<>> /\ f = TextsOf(u, 1, Len(u.nodes))

(* The three kinds of places that the buffer shows.                        *)
LEMMA ShowsCases ==
  ASSUME NEW u, Good(u), NEW l, NEW p, NEW f, Shows(u, l, p, f)
  PROVE  /\ \/ AboveSaved(u, l, p, f) /\ EndAt(u)
            \/ BelowSaved(u, l, p, f) /\ WalkAt(u, 0)
            \/ \E q \in Positions(u.nodes) : /\ AtSaved(u, l, p, f, q)
                                             /\ EndAt(u) \/ WalkAt(u, q)
         /\ EndAt(u) /\ Equals(u.nodes, u.off, l) => AtSaved(u, l, p, f, u.off)
         /\ EndAt(u) /\ ~Equals(u.nodes, u.off, l) => AboveSaved(u, l, p, f)
         /\ \A q \in 0 .. Len(u.nodes) : WalkAt(u, q) =>
              IF q = 0 THEN BelowSaved(u, l, p, f) ELSE AtSaved(u, l, p, f, q)
<1>1. /\ Len(u.nodes) \in Nat /\ u.off \in 0 .. Len(u.nodes)
      /\ \A j : j \in Positions(u.nodes) <=> j \in Nat /\ 0 < j /\ j <= Len(u.nodes)
  BY GoodNumbers
<1>2. /\ Len(u.nodes) + 1 \in 1 .. Len(u.nodes) + 1 /\ 1 \in 1 .. Len(u.nodes) + 1
      /\ Len(u.nodes) + 1 - 1 = Len(u.nodes) /\ 1 - 1 = 0
  BY <1>1
<1>3. TextsOf(u, Len(u.nodes) + 1, Len(u.nodes)) = <<>> /\ TextsOf(u, 1, 0) = <<>>
  BY <1>2, TextsNone
<1>4. ASSUME EndAt(u), Equals(u.nodes, u.off, l)
      PROVE  AtSaved(u, l, p, f, u.off) /\ u.off \in Positions(u.nodes)
  <2>1. \A q \in 0 .. Len(u.nodes) : ~WalkAt(u, q)
    BY <1>4, WalkNumbers
  <2>2. f = <<>> /\ p = TextsOf(u, 1, u.off - 1)
    BY <1>4, <2>1 DEF Shows
  <2>3. u.off = Len(u.nodes) /\ u.off \in Positions(u.nodes) /\ l = u.nodes[u.off].text
    BY <1>1, <1>4 DEF EndAt, Equals
  <2> QED BY <1>3, <2>2, <2>3 DEF AtSaved
<1>5. ASSUME EndAt(u), ~Equals(u.nodes, u.off, l)
      PROVE  AboveSaved(u, l, p, f)
  <2>1. \A q \in 0 .. Len(u.nodes) : ~WalkAt(u, q)
    BY <1>5, WalkNumbers
  <2>2. f = <<>> /\ p = TextsOf(u, 1, u.off)
    BY <1>5, <2>1 DEF Shows
  <2>3. u.off = Len(u.nodes) /\ Len(u.nodes) > 0
    BY <1>5 DEF EndAt
  <2> QED BY <1>5, <2>2, <2>3 DEF AboveSaved
<1>6. ASSUME NEW q \in 0 .. Len(u.nodes), WalkAt(u, q)
      PROVE  IF q = 0 THEN BelowSaved(u, l, p, f) ELSE AtSaved(u, l, p, f, q)
  <2>1. PICK r \in 0 .. Len(u.nodes) :
          /\ WalkAt(u, r) /\ l = TextAt(u, r)
          /\ p = TextsOf(u, 1, IF r = 0 THEN 0 ELSE r - 1)
          /\ f = TextsOf(u, r + 1, Len(u.nodes))
    BY <1>6, WalkNumbers DEF Shows
  <2>2. r = q
    BY <1>6, <2>1, WalkUnique
  <2>3. CASE q = 0
    BY <1>3, <2>1, <2>2, <2>3 DEF BelowSaved, TextAt
  <2>4. CASE q # 0
    <3>1. q \in Positions(u.nodes)
      BY <1>1, <2>4
    <3> QED BY <2>1, <2>2, <2>4, <3>1 DEF AtSaved, TextAt
  <2> QED BY <2>3, <2>4
<1>7. CASE EndAt(u)
  BY <1>4, <1>5, <1>6, <1>7
<1>8. CASE ~EndAt(u)
  <2>1. PICK q \in 0 .. Len(u.nodes) : WalkAt(u, q)
    BY <1>8 DEF Shows
  <2>2. q # 0 => q \in Positions(u.nodes)
    BY <1>1, <2>1
  <2> QED BY <1>4, <1>5, <1>6, <1>8, <2>1, <2>2
<1> QED BY <1>4, <1>5, <1>6, <1>7, <1>8

(* A walk that stands at a saved line shows it.                            *)
LEMMA ShowsWalk ==
  ASSUME NEW u, NEW q \in Positions(u.nodes), Len(u.nodes) \in Nat, WalkAt(u, q)
  PROVE  Shows(u, u.nodes[q].text, TextsOf(u, 1, q - 1), TextsOf(u, q + 1, Len(u.nodes)))
<1>1. q \in 0 .. Len(u.nodes) /\ q # 0
  BY DEF Positions
<1> QED BY <1>1 DEF Shows, TextAt

(* What the stack makes of the line l and the lines p and f before and     *)
(* after it in an undo, a redo and a revert, or it stays.                  *)
Kept(l, p, f, l2, p2, f2) == l2 = l /\ p2 = p /\ f2 = f

Undone(l, p, f, l2, p2, f2) ==
  /\ \/ p # <<>> /\ l2 = p[Len(p)] /\ p2 = SubSeq(p, 1, Len(p) - 1)
     \/ p = <<>> /\ l2 = Empty /\ p2 = p
  /\ f2 = <<l>> \o f

Redone(l, p, f, l2, p2, f2) ==
  /\ f # <<>> /\ l2 = Head(f) /\ f2 = Tail(f)
  /\ \/ p2 = Append(p, l)
     \/ p = <<>> /\ l = Empty /\ p2 = p

Reverted(l, p, f, l2, p2, f2) ==
  /\ p # <<>> /\ l2 = p[1] /\ p2 = <<>>
  /\ \/ f2 = Tail(p) \o f
     \/ f2 = Tail(p) \o <<l>> \o f

(* An undo moves the line that it leaves to those that are undone.         *)
LEMMA UndoShown ==
  ASSUME Careful, Inv, WalkInv, UndoLine, Good(Pushed), Good(undo'),
         NEW p, NEW f, Shows(Pushed, line, p, f)
  PROVE  \E p2, f2 : /\ Shows(undo', line', p2, f2)
                     /\ Kept(line, p, f, line', p2, f2) \/ Undone(line, p, f, line', p2, f2)
<1> DEFINE u == Pushed
<1>1. /\ Good(u) /\ Len(u.nodes) \in Nat
      /\ \A j : j \in Positions(u.nodes) <=> j \in Nat /\ 0 < j /\ j <= Len(u.nodes)
  BY GoodNumbers
<1>2. /\ Len(undo'.nodes) \in Nat
      /\ \A j : j \in Positions(undo'.nodes) <=> j \in Nat /\ 0 < j /\ j <= Len(undo'.nodes)
  BY GoodNumbers
<1>3. Shows(u, line, p, f)
  OBVIOUS
<1>4. UndoFromEnd(u) \/ UndoFromLine(u) \/ Stays(u)
  BY UndoMoves
<1> HIDE DEF u
<1>5. CASE Stays(u)
  BY <1>3, <1>5 DEF Stays, Kept
<1>6. CASE UndoFromEnd(u)
  <2> DEFINE n == u.off
             p2 == TextsOf(undo', 1, n - 1)
             f2 == TextsOf(undo', n + 1, Len(undo'.nodes))
  <2>1. /\ EndAt(u) /\ WalkAt(undo', n) /\ n = Len(u.nodes) /\ n > 0
        /\ \A k \in Positions(u.nodes) : undo'.nodes[k] = u.nodes[k]
        /\ line' = u.nodes[n].text
        /\ \/ line' = line /\ Len(undo'.nodes) = n
           \/ /\ line' # line
              /\ Len(undo'.nodes) = n + 1 /\ undo'.nodes[n + 1].text = line
    BY <1>6 DEF UndoFromEnd, EndAt
  <2>2. /\ n \in Nat /\ n \in Positions(u.nodes) /\ n \in Positions(undo'.nodes)
        /\ n - 1 \in Nat /\ 1 \in Nat
    BY <1>1, <1>2, <2>1
  <2> HIDE DEF n
  <2>3. line' = (undo'.nodes[n]).text
    BY <2>1, <2>2
  <2>4. Shows(undo', line', p2, f2)
    <3> DEFINE v == undo'
    <3>1. n \in Positions(v.nodes) /\ Len(v.nodes) \in Nat /\ WalkAt(v, n)
      BY <1>2, <2>1, <2>2
    <3> HIDE DEF v
    <3>2. Shows(v, v.nodes[n].text, TextsOf(v, 1, n - 1), TextsOf(v, n + 1, Len(v.nodes)))
      BY <3>1, ShowsWalk
    <3> QED BY <2>3, <3>2 DEF v
  <2>5. p2 = TextsOf(u, 1, n - 1)
    <3>1. \A k \in 1 .. n - 1 : k \in Positions(u.nodes)
      BY <1>1, <2>1, <2>2
    <3> QED BY <2>1, <2>2, <3>1, TextsSame
  <2>6. CASE line' = line
    <3>1. AtSaved(u, line, p, f, n)
      <4>1. Equals(u.nodes, u.off, line)
        BY <2>1, <2>6 DEF Equals, n
      <4> QED BY <1>1, <1>3, <2>1, <4>1, ShowsCases DEF n
    <3>2. Len(undo'.nodes) = n
      BY <1>2, <2>1, <2>6, <2>3
    <3>3. f = TextsOf(u, n + 1, n) /\ p2 = p /\ n + 1 - 1 = n
      BY <2>1, <2>2, <2>5, <3>1 DEF AtSaved
    <3>4. f = <<>>
      <4>1. n + 1 \in 1 .. Len(u.nodes) + 1
        BY <2>1, <2>2
      <4>2. PICK c : c = n + 1
        OBVIOUS
      <4>3. TextsOf(u, c, c - 1) = <<>>
        BY <1>1, <4>1, <4>2, TextsNone
      <4>4. c - 1 = n
        BY <2>2, <4>2
      <4> QED BY <3>3, <4>2, <4>3, <4>4
    <3>5. f2 = <<>>
      <4>1. n + 1 \in 1 .. Len(undo'.nodes) + 1
        BY <2>2, <3>2
      <4> QED BY <3>2, <3>3, <4>1, TextsNone
    <3> QED BY <2>4, <2>6, <3>3, <3>4, <3>5 DEF Kept
  <2>7. CASE line' # line
    <3>1. AboveSaved(u, line, p, f)
      <4>1. ~Equals(u.nodes, u.off, line)
        BY <2>1, <2>7 DEF Equals, n
      <4> QED BY <1>1, <1>3, <2>1, <4>1, ShowsCases
    <3>2. p = TextsOf(u, 1, n) /\ f = <<>>
      BY <2>1, <3>1 DEF AboveSaved
    <3>3. /\ p # <<>> /\ Len(p) = n /\ p[n] = u.nodes[n].text
          /\ SubSeq(p, 1, n - 1) = p2
      <4>1. 1 \in 1 .. Len(u.nodes) /\ n \in 1 .. Len(u.nodes) /\ n - 1 + 1 = n
        BY <1>1, <2>1, <2>2
      <4> QED BY <1>1, <2>5, <3>2, <4>1, TextsAppend
    <3>4. f2 = <<line>> \o f
      <4> DEFINE v == undo'
      <4>1. /\ Len(v.nodes) = n + 1 /\ v.nodes[n + 1].text = line
            /\ n + 1 \in 1 .. Len(v.nodes) /\ n + 1 \in n + 1 .. Len(v.nodes)
            /\ n + 2 \in 1 .. Len(v.nodes) + 1 /\ n + 1 + 1 = n + 2 /\ n + 2 - 1 = n + 1
        BY <2>1, <2>2, <2>7
      <4>2. Good(v)
        OBVIOUS
      <4> HIDE DEF v
      <4>3. TextsOf(v, n + 1, n + 1) = <<line>> \o TextsOf(v, n + 1 + 1, n + 1)
        BY <4>1, <4>2, TextsCons
      <4>4. TextsOf(v, n + 2, n + 1) = <<>>
        BY <4>1, <4>2, TextsNone
      <4> QED BY <3>2, <4>1, <4>3, <4>4 DEF v
    <3> QED BY <2>1, <2>4, <3>3, <3>4 DEF Undone
  <2> QED BY <2>6, <2>7
<1>7. CASE UndoFromLine(u)
  <2>1. PICK q \in Positions(u.nodes) :
          /\ WalkAt(u, q) /\ line = u.nodes[q].text
          /\ WalkAt(undo', q - 1) /\ line' = TextAt(u, q - 1)
          /\ undo'.nodes = u.nodes
    BY <1>7 DEF UndoFromLine
  <2>2. /\ q \in Nat /\ q # 0 /\ q \in 0 .. Len(u.nodes) /\ q - 1 \in 0 .. Len(undo'.nodes)
        /\ q - 1 + 1 = q /\ q \in 1 .. Len(u.nodes) /\ Len(u.nodes) \in q .. Len(u.nodes)
    BY <1>1, <2>1
  <2>3. AtSaved(u, line, p, f, q)
    BY <1>1, <1>3, <2>1, <2>2, ShowsCases
  <2>4. p = TextsOf(u, 1, q - 1) /\ f = TextsOf(u, q + 1, Len(u.nodes))
    BY <2>3 DEF AtSaved
  <2> DEFINE b == IF q - 1 = 0 THEN 0 ELSE q - 1 - 1
             p2 == TextsOf(u, 1, b)
             f2 == TextsOf(u, q, Len(u.nodes))
  <2>5. Shows(undo', line', p2, f2)
    <3>1. p2 = TextsOf(undo', 1, b) /\ f2 = TextsOf(undo', q - 1 + 1, Len(undo'.nodes))
      BY <2>1, <2>2 DEF TextsOf
    <3>2. line' = TextAt(undo', q - 1)
      BY <2>1 DEF TextAt
    <3> QED BY <2>1, <2>2, <3>1, <3>2 DEF Shows
  <2>6. f2 = <<line>> \o f
    BY <1>1, <2>1, <2>2, <2>4, TextsCons
  <2>7. CASE q = 1
    <3>1. p = <<>>
      <4>1. 1 \in 1 .. Len(u.nodes) + 1 /\ q - 1 = 1 - 1
        BY <2>2, <2>7
      <4> QED BY <1>1, <2>4, <4>1, TextsNone
    <3>2. p2 = p /\ line' = Empty
      BY <2>1, <2>4, <2>7 DEF TextAt
    <3> QED BY <2>5, <2>6, <3>1, <3>2 DEF Undone
  <2>8. CASE q # 1
    <3>1. /\ 1 \in 1 .. Len(u.nodes) /\ q - 1 \in 1 .. Len(u.nodes)
          /\ b = q - 1 - 1 /\ q - 1 # 0 /\ q - 1 - 1 + 1 = q - 1
      BY <2>2, <2>8
    <3>2. /\ p # <<>> /\ Len(p) = q - 1 /\ p[q - 1] = u.nodes[q - 1].text
          /\ SubSeq(p, 1, q - 1 - 1) = p2
      BY <1>1, <2>4, <3>1, TextsAppend, ZenonT(30)
    <3>3. line' = p[Len(p)]
      BY <2>1, <3>1, <3>2 DEF TextAt
    <3> QED BY <2>5, <2>6, <3>2, <3>3 DEF Undone
  <2> QED BY <2>7, <2>8
<1> QED BY <1>4, <1>5, <1>6, <1>7

(* A redo moves the line to those before and takes the first that was      *)
(* undone.                                                                 *)
LEMMA RedoShown ==
  ASSUME Careful, Inv, WalkInv, RedoLine, Good(Pushed),
         NEW p, NEW f, Shows(Pushed, line, p, f)
  PROVE  \E p2, f2 : /\ Shows(undo', line', p2, f2)
                     /\ Kept(line, p, f, line', p2, f2) \/ Redone(line, p, f, line', p2, f2)
<1> DEFINE u == Pushed
<1>1. /\ Good(u) /\ Len(u.nodes) \in Nat
      /\ \A j : j \in Positions(u.nodes) <=> j \in Nat /\ 0 < j /\ j <= Len(u.nodes)
  BY GoodNumbers
<1>2. Shows(u, line, p, f)
  OBVIOUS
<1>3. RedoFromLine(u) \/ Stays(u)
  BY RedoMoves
<1> HIDE DEF u
<1>4. CASE Stays(u)
  BY <1>2, <1>4 DEF Stays, Kept
<1>5. CASE RedoFromLine(u)
  <2>1. PICK q \in 0 .. Len(u.nodes) - 1 :
          /\ WalkAt(u, q) /\ line = TextAt(u, q)
          /\ WalkAt(undo', q + 1) /\ line' = u.nodes[q + 1].text
          /\ undo'.nodes = u.nodes
    BY <1>5 DEF RedoFromLine
  <2>2. PICK c : c = q + 1
    OBVIOUS
  <2>3. /\ q \in Nat /\ q \in 0 .. Len(u.nodes) /\ c \in 1 .. Len(u.nodes)
        /\ c \in 0 .. Len(u.nodes) /\ c # 0 /\ c \in Nat /\ c - 1 = q
        /\ Len(u.nodes) \in c .. Len(u.nodes)
    BY <1>1, <2>1, <2>2
  <2>4. IF q = 0 THEN BelowSaved(u, line, p, f) ELSE AtSaved(u, line, p, f, q)
    BY <1>1, <1>2, <2>1, <2>3, ShowsCases
  <2>5. f = TextsOf(u, c, Len(u.nodes))
    <3>1. CASE q = 0
      BY <2>2, <2>4, <3>1 DEF BelowSaved
    <3>2. CASE q # 0
      BY <2>2, <2>4, <3>2 DEF AtSaved
    <3> QED BY <3>1, <3>2
  <2>6. f # <<>> /\ Head(f) = line' /\ Tail(f) = TextsOf(u, c + 1, Len(u.nodes))
    BY <1>1, <2>1, <2>2, <2>3, <2>5, TextsCons
  <2>7. Shows(undo', line', TextsOf(u, 1, q), TextsOf(u, c + 1, Len(u.nodes)))
    <3>1. /\ TextsOf(undo', 1, q) = TextsOf(u, 1, q)
          /\ TextsOf(undo', c + 1, Len(undo'.nodes)) = TextsOf(u, c + 1, Len(u.nodes))
      BY <2>1 DEF TextsOf
    <3>2. line' = TextAt(undo', c) /\ WalkAt(undo', c) /\ c \in 0 .. Len(undo'.nodes)
      BY <2>1, <2>2, <2>3 DEF TextAt
    <3> QED BY <2>3, <3>1, <3>2 DEF Shows
  <2>8. \/ TextsOf(u, 1, q) = Append(p, line)
        \/ p = <<>> /\ line = Empty /\ TextsOf(u, 1, q) = p
    <3>1. CASE q = 0
      <4>1. 1 \in 1 .. Len(u.nodes) + 1 /\ 1 - 1 = q
        BY <1>1, <3>1
      <4>2. TextsOf(u, 1, 1 - 1) = <<>>
        BY <1>1, <4>1, TextsNone
      <4> QED BY <2>4, <3>1, <4>1, <4>2 DEF BelowSaved
    <3>2. CASE q # 0
      <4>1. 1 \in 1 .. Len(u.nodes) /\ q \in 1 .. Len(u.nodes)
        BY <1>1, <2>3, <3>2
      <4>2. TextsOf(u, 1, q) = Append(TextsOf(u, 1, q - 1), u.nodes[q].text)
        BY <1>1, <4>1, TextsAppend
      <4> QED BY <2>4, <3>2, <4>2 DEF AtSaved
    <3> QED BY <3>1, <3>2
  <2> QED BY <2>6, <2>7, <2>8 DEF Redone
<1> QED BY <1>3, <1>4, <1>5

(* A revert goes back to the first line, and what was before and after the *)
(* line is to be redone; from below the first line it goes up to it.       *)
LEMMA RevertShown ==
  ASSUME Careful, Inv, WalkInv, Revert, Good(Pushed),
         NEW p, NEW f, Shows(Pushed, line, p, f)
  PROVE  \E p2, f2 : /\ Shows(undo', line', p2, f2)
                     /\ \/ Kept(line, p, f, line', p2, f2)
                        \/ Redone(line, p, f, line', p2, f2)
                        \/ Reverted(line, p, f, line', p2, f2)
<1> DEFINE u == Pushed
           n == Len(u.nodes)
           f2 == TextsOf(u, 2, n)
<1>1. /\ Good(u) /\ Len(u.nodes) \in Nat
      /\ \A j : j \in Positions(u.nodes) <=> j \in Nat /\ 0 < j /\ j <= Len(u.nodes)
  BY GoodNumbers
<1>2. Shows(u, line, p, f)
  OBVIOUS
<1>3. RevertToFirst(u) \/ Stays(u)
  BY RevertMoves
<1> HIDE DEF u
<1>4. CASE Stays(u)
  BY <1>2, <1>4 DEF Stays, Kept
<1>5. CASE RevertToFirst(u)
  <2>1. /\ WalkAt(undo', 1) /\ line' = u.nodes[1].text /\ undo'.nodes = u.nodes
        /\ 1 \in Positions(u.nodes)
    BY <1>5 DEF RevertToFirst, WalkAt
  <2>2. /\ 1 \in 1 .. n /\ n \in 1 .. n /\ 1 \in 0 .. n /\ 1 # 0 /\ 1 - 1 = 0
        /\ 1 \in 1 .. n + 1 /\ 2 \in 1 .. n + 1 /\ n \in Nat /\ 1 + 1 = 2
    BY <1>1, <2>1
  <2>3. TextsOf(u, 1, 0) = <<>>
    BY <1>1, <2>2, TextsNone
  <2>4. Shows(undo', line', <<>>, f2)
    <3>1. TextsOf(undo', 1, 0) = <<>> /\ TextsOf(undo', 2, Len(undo'.nodes)) = f2
      <4>1. TextsOf(undo', 1, 0) = TextsOf(u, 1, 0)
        BY <2>1 DEF TextsOf
      <4>2. TextsOf(undo', 2, Len(undo'.nodes)) = f2
        BY <2>1 DEF TextsOf
      <4> QED BY <2>3, <4>1, <4>2
    <3>2. line' = TextAt(undo', 1) /\ 1 \in 0 .. Len(undo'.nodes)
      BY <2>1, <2>2 DEF TextAt
    <3> QED BY <2>1, <2>2, <3>1, <3>2 DEF Shows
  <2> HIDE DEF n, f2
  <2>5. CASE AboveSaved(u, line, p, f)
    <3>1. p = TextsOf(u, 1, n) /\ f = <<>>
      BY <2>5 DEF AboveSaved, n
    <3>2. p # <<>> /\ p[1] = line' /\ Tail(p) = f2
      BY <1>1, <2>1, <2>2, <3>1, TextsFirst DEF n, f2
    <3>3. f2 \in Seq(Lines)
      BY <1>1, <2>2, TextsSeq DEF n, f2
    <3>4. f2 = Tail(p) \o f
      BY <3>1, <3>2, <3>3, ConcatEmptySeq
    <3> QED BY <2>4, <3>2, <3>4 DEF Reverted
  <2>6. CASE BelowSaved(u, line, p, f)
    <3>1. f = TextsOf(u, 1, n) /\ line = Empty /\ p = <<>>
      BY <2>6 DEF BelowSaved, n
    <3>2. f # <<>> /\ Head(f) = line' /\ Tail(f) = f2
      BY <1>1, <2>1, <2>2, <3>1, TextsFirst DEF n, f2
    <3> QED BY <2>4, <3>1, <3>2 DEF Redone
  <2>7. ASSUME NEW q \in Positions(u.nodes), AtSaved(u, line, p, f, q)
        PROVE  Kept(line, p, f, line', <<>>, f2) \/ Reverted(line, p, f, line', <<>>, f2)
    <3>1. line = u.nodes[q].text /\ p = TextsOf(u, 1, q - 1) /\ f = TextsOf(u, q + 1, n)
      BY <2>7 DEF AtSaved, n
    <3>2. CASE q = 1
      <4>1. q - 1 = 0 /\ q + 1 = 2
        BY <3>2
      <4> QED BY <2>1, <2>3, <3>1, <3>2, <4>1 DEF Kept, f2
    <3>3. CASE q # 1
      <4>1. /\ q \in Nat /\ q > 1 /\ q <= n
            /\ q - 1 \in 1 .. n /\ q - 1 \in 2 - 1 .. n /\ n \in q - 1 .. n
            /\ q \in 1 .. n /\ n \in q .. n /\ q - 1 + 1 = q
            /\ q + 1 \in 1 .. n + 1 /\ n \in q + 1 - 1 .. n
        BY <1>1, <2>2, <2>7, <3>3 DEF n
      <4>2. p # <<>> /\ p[1] = line' /\ Tail(p) = TextsOf(u, 2, q - 1)
        BY <1>1, <2>1, <2>2, <3>1, <4>1, TextsFirst DEF n
      <4>3. TextsOf(u, 2, q - 1) \o TextsOf(u, q, n) = f2
        <5>1. PICK c : c = q - 1
          OBVIOUS
        <5>2. c \in 2 - 1 .. Len(u.nodes) /\ n \in c .. Len(u.nodes)
          BY <4>1, <5>1 DEF n
        <5>3. TextsOf(u, 2, c) \o TextsOf(u, c + 1, n) = TextsOf(u, 2, n)
          BY <1>1, <2>2, <5>2, TextsJoin DEF n
        <5>4. c + 1 = q
          BY <4>1, <5>1
        <5> QED BY <5>1, <5>3, <5>4 DEF f2
      <4>4. TextsOf(u, q, n) = <<line>> \o f
        BY <1>1, <3>1, <4>1, TextsCons DEF n
      <4>5. f2 = Tail(p) \o (<<line>> \o f)
        BY <4>1, <4>2, <4>3, <4>4
      <4>6. (Tail(p) \o <<line>>) \o f = Tail(p) \o (<<line>> \o f)
        <5>1. Tail(p) \in Seq(Lines)
          <6>1. 2 \in 1 .. Len(u.nodes) + 1 /\ q - 1 \in 2 - 1 .. Len(u.nodes)
            BY <2>2, <4>1 DEF n
          <6>2. TextsOf(u, 2, q - 1) \in Seq(Lines)
            BY <1>1, <6>1, TextsSeq, Zenon
          <6> QED BY <4>2, <6>2
        <5>2. f \in Seq(Lines)
          <6>1. PICK c : c = q + 1
            OBVIOUS
          <6>2. c \in 1 .. Len(u.nodes) + 1 /\ n \in c - 1 .. Len(u.nodes)
            BY <4>1, <6>1 DEF n
          <6> QED BY <1>1, <3>1, <6>1, <6>2, TextsSeq
        <5>3. <<line>> \in Seq(Lines)
          <6>1. line \in Lines
            BY DEF Inv, TypeOK
          <6> QED BY <6>1
        <5> QED BY <5>1, <5>2, <5>3, ConcatAssociative
      <4> QED BY <4>2, <4>5, <4>6 DEF Reverted
    <3> QED BY <3>2, <3>3
  <2> QED BY <1>1, <1>2, <2>4, <2>5, <2>6, <2>7, ShowsCases
<1> QED BY <1>3, <1>4, <1>5

(* What the stack makes of an edit.                                        *)
Edited(l, p, l2, p2, f2) ==
  /\ \/ p2 = Append(p, l)
     \/ p2 = p
     \/ p # <<>> /\ p2 = SubSeq(p, 1, Len(p) - 1) /\ l2 = p[Len(p)]
  /\ f2 = <<>>

(* Between two places where lines are added to the same saved lines, the   *)
(* lines before differ by the line at off.                                 *)
LEMMA GrownTexts ==
  ASSUME NEW u, Good(u), NEW l, NEW l2
  PROVE  Edited(l, TextsOf(u, 1, IF Equals(u.nodes, u.off, l) THEN u.off - 1 ELSE u.off),
                l2, TextsOf(u, 1, IF Equals(u.nodes, u.off, l2) THEN u.off - 1 ELSE u.off),
                <<>>)
<1>1. CASE Equals(u.nodes, u.off, l) <=> Equals(u.nodes, u.off, l2)
  <2>1. TextsOf(u, 1, IF Equals(u.nodes, u.off, l) THEN u.off - 1 ELSE u.off)
          = TextsOf(u, 1, IF Equals(u.nodes, u.off, l2) THEN u.off - 1 ELSE u.off)
    BY <1>1
  <2> QED BY <2>1 DEF Edited
<1>2. CASE ~(Equals(u.nodes, u.off, l) <=> Equals(u.nodes, u.off, l2))
  <2> DEFINE n == u.off
             s == TextsOf(u, 1, n - 1)
             t == TextsOf(u, 1, n)
             x == u.nodes[n].text
  <2>1. n > 0
    BY <1>2 DEF Equals
  <2>2. 1 \in 1 .. Len(u.nodes) /\ n \in 1 .. Len(u.nodes) /\ n - 1 + 1 = n
    BY <2>1, GoodNumbers
  <2>3. t = Append(s, x) /\ t # <<>> /\ Len(t) = n /\ t[n] = x /\ SubSeq(t, 1, n - 1) = s
    <3> HIDE DEF n
    <3> QED BY <2>2, TextsAppend
  <2>4. CASE Equals(u.nodes, n, l) /\ ~Equals(u.nodes, n, l2)
    <3>1. l = x
      BY <2>4 DEF Equals
    <3> QED BY <2>3, <2>4, <3>1 DEF Edited
  <2>5. CASE ~Equals(u.nodes, n, l) /\ Equals(u.nodes, n, l2)
    <3>1. l2 = x
      BY <2>5 DEF Equals
    <3> QED BY <2>3, <2>5, <3>1 DEF Edited
  <2> QED BY <1>2, <2>4, <2>5
<1> QED BY <1>1, <1>2

(* The lines before and after the line in the next state.                  *)
LEMMA NextShown ==
  /\ Good(undo') /\ Growing' =>
       /\ Past' = TextsOf(undo', 1, IF Equals(undo'.nodes, undo'.off, line')
                                    THEN undo'.off - 1 ELSE undo'.off)
       /\ Future' = <<>>
  /\ \A p, f : Good(undo') /\ last' # "type" /\ Shows(undo', line', p, f)
                 => Past' = p /\ Future' = f
<1>1. Good(undo) /\ Growing =>
        /\ Past = TextsOf(undo, 1, IF Equals(undo.nodes, undo.off, line)
                                   THEN undo.off - 1 ELSE undo.off)
        /\ Future = <<>>
  BY GrowingIs
<1>2. \A p, f : Good(undo) /\ last # "type" /\ Shows(undo, line, p, f)
                  => Past = p /\ Future = f
  BY ShownIs
<1>3. (Good(undo) /\ Growing =>
        /\ Past = TextsOf(undo, 1, IF Equals(undo.nodes, undo.off, line)
                                   THEN undo.off - 1 ELSE undo.off)
        /\ Future = <<>>)'
  BY <1>1, PTL
<1>4. (\A p, f : Good(undo) /\ last # "type" /\ Shows(undo, line, p, f)
                   => Past = p /\ Future = f)'
  BY <1>2, PTL
<1> QED BY <1>3, <1>4

(* A typed character is an edit of the stack: what was before stays, gains *)
(* the line, or loses the line that was typed again.                       *)
LEMMA TypeShown ==
  ASSUME Careful, Inv, WalkInv, Type, Good(undo')
  PROVE  Edited(line, Past, line', Past', Future')
<1>1. /\ Good(undo) /\ undo' = undo /\ last' = "type"
      /\ Equals(undo.nodes, undo.off, line') => AtEnd
  BY InvGood DEF Type, Acts, Careful
<1>2. /\ Past' = TextsOf(undo, 1, IF Equals(undo.nodes, undo.off, line')
                                  THEN undo.off - 1 ELSE undo.off)
      /\ Future' = <<>>
  BY <1>1, NextShown DEF Growing
<1>3. CASE Growing
  BY <1>1, <1>2, <1>3, GrowingIs, GrownTexts
<1>4. CASE ~Growing
  <2>1. last # "type" /\ ~AtEnd /\ Pushed = undo
    BY <1>4 DEF Growing, Pushed
  <2>2. ~EndAt(undo)
    BY <1>1, <2>1, GoodNumbers DEF EndAt, AtEnd
  <2>3. PICK q \in 0 .. Len(undo.nodes) : WalkAt(undo, q) /\ line = TextAt(undo, q)
    BY <2>1, <2>2 DEF WalkInv, Settled
  <2>4. Past' = TextsOf(undo, 1, undo.off)
    BY <1>1, <1>2, <2>1
  <2>5. Past = TextsOf(undo, 1, IF q = 0 THEN 0 ELSE q - 1)
    <3>1. \E f : Shows(undo, line, TextsOf(undo, 1, IF q = 0 THEN 0 ELSE q - 1), f)
      BY <2>3 DEF Shows
    <3> QED BY <1>1, <2>1, <3>1, ShownIs
  <2>6. /\ q > 0 => undo.off \in {q - 1, q} /\ q \in Positions(undo.nodes)
        /\ q = 0 => undo.off = 0
        /\ q \in Nat
    BY <1>1, <2>3, WalkNumbers
  <2>7. CASE q > 0 /\ undo.off = q
    <3>1. 1 \in 1 .. Len(undo.nodes) /\ q \in 1 .. Len(undo.nodes)
      BY <1>1, <2>6, <2>7, GoodNumbers
    <3>2. TextsOf(undo, 1, q) = Append(TextsOf(undo, 1, q - 1), undo.nodes[q].text)
      BY <1>1, <3>1, TextsAppend
    <3>3. Past = TextsOf(undo, 1, q - 1) /\ line = undo.nodes[q].text
      BY <2>3, <2>5, <2>7 DEF TextAt
    <3> QED BY <1>2, <2>4, <2>7, <3>2, <3>3 DEF Edited
  <2>8. CASE ~(q > 0 /\ undo.off = q)
    <3>1. undo.off = IF q = 0 THEN 0 ELSE q - 1
      BY <2>6, <2>8
    <3> QED BY <1>2, <2>4, <2>5, <3>1 DEF Edited
  <2> QED BY <2>7, <2>8
<1> QED BY <1>3, <1>4

(* An edit is one of the stack.                                            *)
LEMMA EditShown ==
  ASSUME Careful, Inv, WalkInv, Edit, Good(undo')
  PROVE  Edited(line, Past, line', Past', Future')
<1> DEFINE w == PushUndo(undo)
<1>1. Good(undo) /\ undo' = w /\ line \in Lines /\ Distinct(undo) /\ StoresAsIs
  BY InvGood DEF Edit, Inv, WalkInv, Careful
<1>2. EndAt(w) /\ Equals(w.nodes, w.off, line) /\ Good(w)
  BY <1>1, EditAtEnd, PushSettles
<1>3. Past = TextsOf(w, 1, w.off - 1)
  BY <1>1, EditTexts, PushTexts
<1> HIDE DEF w
<1>4. Growing'
  BY <1>1, <1>2, GoodNumbers DEF EndAt, Growing, AtEnd
<1>5. /\ Past' = TextsOf(w, 1, IF Equals(w.nodes, w.off, line') THEN w.off - 1 ELSE w.off)
      /\ Future' = <<>>
  BY <1>1, <1>4, NextShown
<1>6. Past = TextsOf(w, 1, IF Equals(w.nodes, w.off, line) THEN w.off - 1 ELSE w.off)
  BY <1>2, <1>3
<1> QED BY <1>2, <1>5, <1>6, GrownTexts

(* The buffer that is reset shows an empty line and nothing before or      *)
(* after it.                                                               *)
LEMMA NoUndoShows == Shows(NoUndo, Empty, <<>>, <<>>)
<1>1. NoUndo.nodes = <<>> /\ NoUndo.idx = 0 /\ NoUndo.off = 0 /\ Len(NoUndo.nodes) = 0
  BY DEF NoUndo
<1>2. 1 \in 1 .. Len(NoUndo.nodes) + 1 /\ 1 - 1 = 0 /\ 0 + 1 = 1
  BY <1>1
<1>3. TextsOf(NoUndo, 1, 0) = <<>>
  BY <1>2, EmptyGood, TextsNone
<1>4. 0 \in 0 .. Len(NoUndo.nodes) /\ WalkAt(NoUndo, 0)
  BY <1>1 DEF WalkAt
<1> QED BY <1>1, <1>2, <1>3, <1>4 DEF Shows, TextAt

(* Every step of the buffer is one of the stack, or none.                  *)
LEMMA StackStep ==
  ASSUME Careful, Inv, WalkInv, [Next]_vars
  PROVE  \/ Edited(line, Past, line', Past', Future') /\ line' \in Lines
         \/ Kept(line, Past, Future, line', Past', Future')
         \/ Undone(line, Past, Future, line', Past', Future')
         \/ Redone(line, Past, Future, line', Past', Future')
         \/ Reverted(line, Past, Future, line', Past', Future')
         \/ line' = Empty /\ Past' = <<>> /\ Future' = <<>>
<1>1. Good(undo') /\ line' \in Lines /\ Good(undo) /\ Good(Pushed)
  <2>1. Inv'
    BY InvInductive
  <2> QED BY <2>1, InvGood DEF Inv, TypeOK, WellFormed, Good
<1>2. Shows(Pushed, line, Past, Future)
  BY PushedShows
<1>3. CASE Type
  BY <1>1, <1>3, TypeShown
<1>4. CASE Edit
  BY <1>1, <1>4, EditShown
<1>5. CASE Move
  <2>1. undo' = Pushed /\ line' = line /\ last' = "move"
    BY <1>5 DEF Move, Acts
  <2> QED BY <1>1, <1>2, <2>1, NextShown DEF Kept
<1>6. CASE Bell
  <2>1. undo' = undo /\ line' = line /\ last' = "bell" /\ last # "type"
    BY <1>6 DEF Bell, Acts, Careful
  <2>2. Pushed = undo
    BY <2>1 DEF Pushed
  <2> QED BY <1>1, <1>2, <2>1, <2>2, NextShown DEF Kept
<1>7. CASE UndoLine
  <2>1. last' = "undo"
    BY <1>7 DEF UndoLine, Acts
  <2> QED BY <1>1, <1>2, <1>7, <2>1, UndoShown, NextShown
<1>8. CASE RedoLine
  <2>1. last' = "redo"
    BY <1>8 DEF RedoLine, Acts
  <2> QED BY <1>1, <1>2, <1>8, <2>1, RedoShown, NextShown
<1>9. CASE Revert
  <2>1. last' = "revert"
    BY <1>9 DEF Revert, Acts
  <2> QED BY <1>1, <1>2, <1>9, <2>1, RevertShown, NextShown
<1>10. CASE Finish
  <2>1. undo' = NoUndo /\ line' = Empty /\ last' = "none"
    BY <1>10 DEF Finish, Acts
  <2> QED BY <1>1, <2>1, NoUndoShows, NextShown
<1>11. CASE UNCHANGED vars
  <2>1. undo' = undo /\ line' = line /\ last' = last
    BY <1>11 DEF vars
  <2>2. CASE last = "type"
    <3>1. Growing /\ Growing'
      BY <2>1, <2>2 DEF Growing
    <3> QED BY <1>1, <2>1, <3>1, GrowingIs, NextShown DEF Kept
  <2>3. CASE last # "type"
    <3>1. Pushed = undo
      BY <2>3 DEF Pushed
    <3> QED BY <1>1, <1>2, <2>1, <2>3, <3>1, NextShown DEF Kept
  <2> QED BY <2>2, <2>3
<1> QED BY <1>3, <1>4, <1>5, <1>6, <1>7, <1>8, <1>9, <1>10, <1>11 DEF Next

(* Undo implements UndoStack: without the habits, and with lines stored as *)
(* they are, undo, redo and revert walk over the lines as they were, and   *)
(* no key between them loses one or brings back what an edit forgot.       *)
THEOREM StackRefined ==
  ASSUME Careful
  PROVE  Spec => StackSpec
<1>1. Init => WalkInv
  BY NoUndoSettled DEF Init, WalkInv
<1>2. Inv /\ WalkInv /\ [Next]_vars => WalkInv'
  BY WalkInvStep
<1>3. Init => Stack!Init
  <2> SUFFICES ASSUME Init PROVE Stack!Init
    OBVIOUS
  <2>1. undo = NoUndo /\ line = Empty /\ last # "type"
    BY DEF Init
  <2>2. Past = <<>> /\ Future = <<>>
    BY <2>1, NoUndoShows, EmptyGood, ShownIs
  <2> QED BY <2>1, <2>2 DEF Stack!Init, Past, Future
<1>4. ASSUME Inv, WalkInv, [Next]_vars
      PROVE  [Stack!Next]_<<line, Past, Future>>
  <2>1. CASE Edited(line, Past, line', Past', Future') /\ line' \in Lines
    BY <2>1 DEF Stack!Next, Stack!Edit, Stack!FrontOf, Edited, Past, Future
  <2>2. CASE Kept(line, Past, Future, line', Past', Future')
    BY <2>2 DEF Kept
  <2>3. CASE Undone(line, Past, Future, line', Past', Future')
    BY <2>3 DEF Stack!Next, Stack!Undo, Stack!FrontOf, Undone, Past, Future
  <2>4. CASE Redone(line, Past, Future, line', Past', Future')
    BY <2>4 DEF Stack!Next, Stack!Redo, Redone, Past, Future
  <2>5. CASE Reverted(line, Past, Future, line', Past', Future')
    BY <2>5 DEF Stack!Next, Stack!Revert, Reverted, Past, Future
  <2>6. CASE line' = Empty /\ Past' = <<>> /\ Future' = <<>>
    BY <2>6 DEF Stack!Next, Stack!Finish, Past, Future
  <2> QED BY <1>4, <2>1, <2>2, <2>3, <2>4, <2>5, <2>6, StackStep
<1>5. Spec => Stack!Init /\ [][Stack!Next]_<<line, Past, Future>>
  BY <1>1, <1>2, <1>3, <1>4, InvInductive, PTL DEF Spec
<1> QED BY <1>5 DEF StackSpec, Stack!Spec, Past, Future
=============================================================================
