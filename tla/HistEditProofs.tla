--------------------------- MODULE HistEditProofs ---------------------------
(***************************************************************************)
(* What is proved of HistEdit, for any lines and a history of any length:  *)
(* the walk is well typed and no line has two edits, whatever the user     *)
(* does; without the habits for which the code deviates, find always has a *)
(* node to start from, and the walk implements the views of HistView.      *)
(***************************************************************************)
EXTENDS HistEdit, SequenceTheorems, TLAPS

(* A buffer with at most one edit of each of n lines and the new line.     *)
Edits(nodes, n) ==
  /\ nodes \in Seq(EditNode)
  /\ \A j, k \in Positions(nodes) : nodes[j].index = nodes[k].index => j = k
  /\ \A k \in Positions(nodes) : nodes[k].index <= n

Inv == TypeOK /\ OneEditEach

(* What Show shows of line i of the history h.                             *)
Fallback(h, i) == IF i # 0 THEN h[i] ELSE Empty
Shown(h, nodes, i) ==
  IF Scan(nodes, i) # 0 THEN nodes[Scan(nodes, i)].text ELSE Fallback(h, i)

(* What scan returns.                                                      *)
Scanned(nodes, i, e) ==
  /\ e \in 0 .. Len(nodes)
  /\ e # 0 => nodes[e].index = i
  /\ e = 0 => \A k \in Positions(nodes) : nodes[k].index # i

LEMMA ScanFinds ==
  ASSUME NEW n \in Nat, NEW nodes, Edits(nodes, n), NEW i
  PROVE  Scanned(nodes, i, Scan(nodes, i))
<1> DEFINE hits == {k \in Positions(nodes) : nodes[k].index = i}
<1>1. Len(nodes) \in Nat
  BY LenProperties DEF Edits
<1>2. CASE hits = {}
  BY <1>1, <1>2 DEF Scan, Scanned
<1>3. CASE hits # {}
  <2>1. PICK k \in hits : TRUE
    BY <1>3
  <2>2. \A j \in hits : j = k
    BY <2>1 DEF Edits
  <2>3. \A j \in hits : j <= k
    BY <1>1, <2>1, <2>2 DEF Positions
  <2>4. Scan(nodes, i) = CHOOSE m \in hits : \A j \in hits : j <= m
    BY <1>3 DEF Scan
  <2>5. Scan(nodes, i) \in hits
    BY <2>1, <2>3, <2>4
  <2>6. Scan(nodes, i) \in 1 .. Len(nodes)
    BY <2>5 DEF Positions
  <2> QED BY <1>1, <2>5, <2>6 DEF Scanned
<1> QED BY <1>2, <1>3

(* The edit that a line has is shown, and the line itself when it has none. *)
LEMMA ShownIs ==
  ASSUME NEW n \in Nat, NEW nodes, Edits(nodes, n), NEW i, NEW h
  PROVE  /\ \A k \in Positions(nodes) :
              nodes[k].index = i => Shown(h, nodes, i) = nodes[k].text
         /\ (\A k \in Positions(nodes) : nodes[k].index # i)
              => Shown(h, nodes, i) = Fallback(h, i)
<1> DEFINE e == Scan(nodes, i)
<1>1. Scanned(nodes, i, e)
  BY ScanFinds
<1>2. Len(nodes) \in Nat
  BY LenProperties DEF Edits
<1>3. e # 0 => e \in Positions(nodes) /\ nodes[e].index = i
  BY <1>1, <1>2 DEF Scanned, Positions
<1>4. e = 0 => \A k \in Positions(nodes) : nodes[k].index # i
  BY <1>1 DEF Scanned
<1> HIDE DEF e
<1>5. Shown(h, nodes, i) = IF e # 0 THEN nodes[e].text ELSE Fallback(h, i)
  BY DEF Shown, e
<1> QED BY <1>3, <1>4, <1>5 DEF Edits

(* A line without an edit is shown itself.                                 *)
NoEdit(nodes, i) == \A k \in Positions(nodes) : nodes[k].index # i

LEMMA ShownLine ==
  ASSUME NEW n \in Nat, NEW nodes, Edits(nodes, n), NEW i, NEW h,
         NoEdit(nodes, i)
  PROVE  Shown(h, nodes, i) = Fallback(h, i)
BY ShownIs DEF NoEdit

(* In made the edit of line i alone differs from nodes: its text is shown. *)
Changed(made, nodes, n, i, text, h) ==
  /\ Edits(made, n)
  /\ Shown(h, made, i) = text
  /\ \A j : j # i => Shown(h, made, j) = Shown(h, nodes, j)

(* make of an edit of a line that has none.                                *)
LEMMA MakeEdit ==
  ASSUME NEW n \in Nat, NEW nodes, Edits(nodes, n), NEW i \in 0 .. n,
         NEW text \in Lines, NoEdit(nodes, i), NEW h, NEW made,
         made = Make(nodes, text, i)
  PROVE  Changed(made, nodes, n, i, text, h)
<1> DEFINE m == Len(nodes)
<1>1. nodes \in Seq(EditNode) /\ m \in Nat
      /\ [text |-> text, index |-> i] \in EditNode
  BY LenProperties DEF Edits, EditNode
<1>2. /\ made \in Seq(EditNode)
      /\ Len(made) = m + 1
      /\ \A k \in 1 .. m : made[k] = nodes[k]
      /\ made[m + 1] = [text |-> text, index |-> i]
  BY <1>1, AppendProperties DEF Make
<1>3. Positions(made) = Positions(nodes) \cup {m + 1}
  BY <1>1, <1>2 DEF Positions
<1>4. \A k \in Positions(nodes) : made[k] = nodes[k] /\ k # m + 1
  BY <1>1, <1>2 DEF Positions
<1>5. Edits(made, n)
  <2>1. ASSUME NEW j \in Positions(made), NEW k \in Positions(made),
               made[j].index = made[k].index
        PROVE  j = k
    BY <1>2, <1>3, <1>4, <2>1, SMTT(30) DEF Edits, NoEdit
  <2>2. ASSUME NEW k \in Positions(made)
        PROVE  made[k].index <= n
    BY <1>2, <1>3, <1>4 DEF Edits
  <2> QED BY <1>2, <2>1, <2>2 DEF Edits
<1>6. Shown(h, made, i) = text
  <2>1. m + 1 \in Positions(made) /\ made[m + 1].index = i
        /\ made[m + 1].text = text
    BY <1>2, <1>3
  <2> QED BY <1>5, <2>1, ShownIs, ZenonT(30)
<1>7. ASSUME NEW j, j # i PROVE Shown(h, made, j) = Shown(h, nodes, j)
  <2>1. CASE \E k \in Positions(nodes) : nodes[k].index = j
    <3>1. PICK k \in Positions(nodes) : nodes[k].index = j
      BY <2>1
    <3>2. k \in Positions(made) /\ made[k].index = j /\ made[k].text = nodes[k].text
      BY <1>3, <1>4, <3>1
    <3>3. Shown(h, nodes, j) = nodes[k].text
      BY <3>1, ShownIs, ZenonT(30)
    <3>4. Shown(h, made, j) = made[k].text
      BY <1>5, <3>2, ShownIs, ZenonT(30)
    <3> QED BY <3>2, <3>3, <3>4
  <2>2. CASE NoEdit(nodes, j)
    <3>1. NoEdit(made, j)
      <4>1. made[m + 1].index = i
        BY <1>2
      <4> HIDE DEF m
      <4> QED BY <4>1, <1>3, <1>4, <1>7, <2>2, Zenon DEF NoEdit
    <3>2. Shown(h, nodes, j) = Fallback(h, j)
      BY <2>2, ShownLine, Zenon
    <3>3. Shown(h, made, j) = Fallback(h, j)
      BY <1>5, <3>1, ShownLine, Zenon
    <3> QED BY <3>2, <3>3
  <2> QED BY <2>1, <2>2 DEF NoEdit
<1> QED BY <1>5, <1>6, <1>7 DEF Changed

(* The text of the edit at e changes.                                      *)
LEMMA RetextEdit ==
  ASSUME NEW n \in Nat, NEW nodes, Edits(nodes, n), NEW e \in Positions(nodes),
         NEW text \in Lines, NEW h, NEW made, made = Retext(nodes, e, text)
  PROVE  Changed(made, nodes, n, nodes[e].index, text, h)
<1>1. /\ nodes \in Seq(EditNode) /\ Len(nodes) \in Nat
      /\ \A k \in Positions(nodes) : nodes[k] \in EditNode
  BY LenProperties, ElementOfSeq DEF Edits, Positions
<1>2. /\ made = [k \in 1 .. Len(nodes) |->
                   IF k = e THEN [text |-> text, index |-> nodes[e].index]
                   ELSE nodes[k]]
      /\ \A k \in 1 .. Len(nodes) :
           (IF k = e THEN [text |-> text, index |-> nodes[e].index]
            ELSE nodes[k]) \in EditNode
  BY <1>1 DEF Retext, Positions, EditNode
<1>3. made \in Seq(EditNode) /\ Len(made) = Len(nodes)
  BY <1>1, <1>2, IsASeq, LenProperties
<1>4. /\ Positions(made) = Positions(nodes)
      /\ \A k \in Positions(nodes) : made[k].index = nodes[k].index
      /\ \A k \in Positions(nodes) \ {e} : made[k] = nodes[k]
      /\ made[e].text = text
  BY <1>2, <1>3 DEF Positions
<1>5. Edits(made, n)
  BY <1>3, <1>4 DEF Edits
<1>6. Shown(h, made, nodes[e].index) = text
  <2>1. e \in Positions(made) /\ made[e].index = nodes[e].index
    BY <1>4
  <2> QED BY <1>4, <1>5, <2>1, ShownIs, ZenonT(30)
<1>7. ASSUME NEW j, j # nodes[e].index PROVE Shown(h, made, j) = Shown(h, nodes, j)
  <2>1. CASE \E k \in Positions(nodes) : nodes[k].index = j
    <3>1. PICK k \in Positions(nodes) : nodes[k].index = j
      BY <2>1
    <3>2. k \in Positions(made) /\ made[k].index = j /\ made[k].text = nodes[k].text
      BY <1>4, <1>7, <3>1
    <3>3. Shown(h, nodes, j) = nodes[k].text
      BY <3>1, ShownIs, ZenonT(30)
    <3>4. Shown(h, made, j) = made[k].text
      BY <1>5, <3>2, ShownIs, ZenonT(30)
    <3> QED BY <3>2, <3>3, <3>4
  <2>2. CASE NoEdit(nodes, j)
    <3>1. NoEdit(made, j)
      BY <1>4, <2>2 DEF NoEdit
    <3>2. Shown(h, nodes, j) = Fallback(h, j)
      BY <2>2, ShownLine, Zenon
    <3>3. Shown(h, made, j) = Fallback(h, j)
      BY <1>5, <3>1, ShownLine, Zenon
    <3> QED BY <3>2, <3>3
  <2> QED BY <2>1, <2>2 DEF NoEdit
<1> QED BY <1>5, <1>6, <1>7 DEF Changed

(* The edit at e is removed.                                               *)
LEMMA RemoveEdit ==
  ASSUME NEW n \in Nat, NEW nodes, Edits(nodes, n), NEW e \in Positions(nodes),
         NEW h, NEW made, made = Remove(nodes, e)
  PROVE  /\ e # 1 => e - 1 \in Positions(made)
         /\ Changed(made, nodes, n, nodes[e].index,
                    Fallback(h, nodes[e].index), h)
<1> DEFINE m == Len(nodes) - 1
           Old(k) == IF k < e THEN k ELSE k + 1
<1>1. /\ nodes \in Seq(EditNode) /\ Len(nodes) \in Nat /\ m \in Nat
      /\ \A k \in Positions(nodes) : nodes[k] \in EditNode
  BY LenProperties, ElementOfSeq DEF Edits, Positions
<1>2. \A k \in 1 .. m : Old(k) \in Positions(nodes) \ {e}
  BY <1>1 DEF Positions
<1>3. made = [k \in 1 .. m |-> nodes[Old(k)]]
  BY <1>1 DEF Remove
<1>4. made \in Seq(EditNode) /\ Len(made) = m
  <2>1. \A k \in 1 .. m : nodes[Old(k)] \in EditNode
    BY <1>1, <1>2
  <2> HIDE DEF m, Old
  <2> QED BY <1>1, <1>3, <2>1, IsASeq, LenProperties
<1>5. Positions(made) = 1 .. m /\ \A k \in 1 .. m : made[k] = nodes[Old(k)]
  BY <1>3, <1>4 DEF Positions
<1>6. \A j, k \in 1 .. m : Old(j) = Old(k) => j = k
  BY <1>1 DEF Positions
<1>7. \A k \in Positions(nodes) \ {e} : \E j \in 1 .. m : Old(j) = k
  <2>1. ASSUME NEW k \in Positions(nodes) \ {e}
        PROVE  \E j \in 1 .. m : Old(j) = k
    <3>1. CASE k < e
      BY <3>1, <1>1 DEF Positions
    <3>2. CASE k > e
      <4>1. k - 1 \in 1 .. m /\ Old(k - 1) = k
        BY <3>2, <1>1 DEF Positions
      <4> QED BY <4>1
    <3> QED BY <3>1, <3>2, <1>1 DEF Positions
  <2> QED BY <2>1
<1>8. e # 1 => e - 1 \in Positions(made)
  BY <1>1, <1>5 DEF Positions
<1> HIDE DEF m, Old
<1>9. Edits(made, n)
  <2>1. ASSUME NEW j \in 1 .. m, NEW k \in 1 .. m, made[j].index = made[k].index
        PROVE  j = k
    <3>1. nodes[Old(j)].index = nodes[Old(k)].index
      BY <2>1, <1>5
    <3>2. Old(j) = Old(k)
      BY <3>1, <1>2 DEF Edits
    <3> QED BY <3>2, <1>6
  <2>2. ASSUME NEW k \in 1 .. m PROVE made[k].index <= n
    BY <1>2, <1>5 DEF Edits
  <2> QED BY <1>4, <1>5, <2>1, <2>2 DEF Edits
<1>10. Shown(h, made, nodes[e].index) = Fallback(h, nodes[e].index)
  <2>1. ASSUME NEW k \in 1 .. m PROVE made[k].index # nodes[e].index
    <3>1. Old(k) \in Positions(nodes) /\ Old(k) # e /\ made[k] = nodes[Old(k)]
      BY <1>2, <1>5
    <3> QED BY <3>1 DEF Edits
  <2>2. NoEdit(made, nodes[e].index)
    BY <1>5, <2>1 DEF NoEdit
  <2> QED BY <1>9, <2>2, ShownLine, Zenon
<1>11. ASSUME NEW j, j # nodes[e].index
       PROVE  Shown(h, made, j) = Shown(h, nodes, j)
  <2>1. CASE \E k \in Positions(nodes) : nodes[k].index = j
    <3>1. PICK k \in Positions(nodes) : nodes[k].index = j
      BY <2>1
    <3>2. PICK i \in 1 .. m : Old(i) = k
      BY <1>7, <1>11, <3>1
    <3>3. i \in Positions(made) /\ made[i].index = j /\ made[i].text = nodes[k].text
      BY <1>5, <3>1, <3>2
    <3>4. Shown(h, nodes, j) = nodes[k].text
      BY <3>1, ShownIs, ZenonT(30)
    <3>5. Shown(h, made, j) = made[i].text
      BY <1>9, <3>3, ShownIs, ZenonT(30)
    <3> QED BY <3>3, <3>4, <3>5
  <2>2. CASE NoEdit(nodes, j)
    <3>1. NoEdit(made, j)
      BY <1>2, <1>5, <2>2 DEF NoEdit
    <3>2. Shown(h, nodes, j) = Fallback(h, j)
      BY <2>2, ShownLine, Zenon
    <3>3. Shown(h, made, j) = Fallback(h, j)
      BY <1>9, <3>1, ShownLine, Zenon
    <3> QED BY <3>2, <3>3
  <2> QED BY <2>1, <2>2 DEF NoEdit
<1> QED BY <1>8, <1>9, <1>10, <1>11 DEF Changed

-----------------------------------------------------------------------------
(* save_hist_edit keeps one edit of each line; and, of a line that is left *)
(* in a way that resize can save, it keeps the text, if make stores it as  *)
(* it is, and the texts of all others.                                     *)
Saved(saved, i) ==
  /\ Edits(saved, Len(hist))
  /\ Plain(i) /\ Stored[line] = line =>
       /\ Shown(hist, saved, i) = line
       /\ \A j : j # i => Shown(hist, saved, j) = Shown(hist, edit, j)

LEMMA SaveKeeps ==
  ASSUME Inv, NEW i \in 0 .. Len(hist), NEW o \in 0 .. Len(hist)
  PROVE  Saved(SaveEdit(i, o), i)
<1> DEFINE e == Scan(edit, i)
           asLogged == i # 0 /\ Find(hist, o, i) # 0 /\ hist[i] = line
           wasEmpty == e # 0 /\ edit[e].text = Empty
           n == Len(hist)
<1>1. /\ Len(hist) \in Nat /\ line \in Lines /\ Stored[line] \in Lines
      /\ Empty \in Lines
  BY HistEditAssumption, LenProperties DEF Inv, TypeOK
<1>2. Edits(edit, n)
  BY <1>1 DEF Inv, TypeOK, OneEditEach, Edits
<1>3. Scanned(edit, i, e)
  BY <1>1, <1>2, ScanFinds
<1>4. e # 0 => e \in Positions(edit) /\ edit[e].index = i
  BY <1>3, <1>2, LenProperties DEF Scanned, Positions, Edits
<1>5. e = 0 => NoEdit(edit, i)
  BY <1>3 DEF Scanned, NoEdit
<1>6. e # 0 => Shown(hist, edit, i) = edit[e].text
  BY <1>1, <1>2, <1>4, ShownIs, ZenonT(30)
<1>7. e = 0 => Shown(hist, edit, i) = Fallback(hist, i)
  BY <1>1, <1>2, <1>5, ShownLine, Zenon
<1>8. SaveEdit(i, o) =
        IF asLogged
        THEN IF e = 0 \/ wasEmpty THEN edit ELSE Remove(edit, e)
        ELSE IF e = 0 THEN Make(edit, Stored[line], i)
        ELSE IF line = Empty /\ ~wasEmpty THEN EmptyEdit(e)
        ELSE Retext(edit, e, line)
  BY DEF SaveEdit
<1>9. Plain(i) <=> (e # 0 /\ line # edit[e].text => Empty \notin {line, edit[e].text})
  BY DEF Plain
<1>10. asLogged => Fallback(hist, i) = line
  BY DEF Fallback
<1> HIDE DEF e
<1>11. CASE asLogged /\ (e = 0 \/ wasEmpty)
  <2>1. SaveEdit(i, o) = edit
    BY <1>8, <1>11
  <2>2. Plain(i) => Shown(hist, edit, i) = line
    BY <1>6, <1>7, <1>9, <1>10, <1>11
  <2> QED BY <1>2, <2>1, <2>2 DEF Saved
<1>12. CASE asLogged /\ e # 0 /\ ~wasEmpty
  <2>1. PICK made : made = Remove(edit, e)
    OBVIOUS
  <2>2. SaveEdit(i, o) = made
    BY <1>8, <1>12, <2>1
  <2>3. Changed(made, edit, n, i, Fallback(hist, i), hist)
    BY <1>1, <1>2, <1>4, <1>12, <2>1, RemoveEdit
  <2> QED BY <1>10, <1>12, <2>2, <2>3 DEF Saved, Changed
<1>13. CASE ~asLogged /\ e = 0
  <2>1. PICK made : made = Make(edit, Stored[line], i)
    OBVIOUS
  <2>2. SaveEdit(i, o) = made
    BY <1>8, <1>13, <2>1
  <2>3. Changed(made, edit, n, i, Stored[line], hist)
    BY <1>1, <1>2, <1>5, <1>13, <2>1, MakeEdit, Zenon
  <2> QED BY <2>2, <2>3 DEF Saved, Changed
<1>14. CASE ~asLogged /\ e # 0 /\ line = Empty /\ ~wasEmpty
  <2>1. SaveEdit(i, o) = EmptyEdit(e)
    BY <1>8, <1>14
  <2>2. ~Plain(i)
    BY <1>9, <1>14
  <2>3. PICK made : made = Remove(edit, e)
    OBVIOUS
  <2>4. Edits(made, n) /\ (e # 1 => e - 1 \in Positions(made))
    BY <1>1, <1>2, <1>4, <1>14, <2>3, RemoveEdit DEF Changed
  <2>5. EmptyEdit(e) = IF e = 1 THEN made ELSE Retext(made, e - 1, Empty)
    BY <2>3 DEF EmptyEdit
  <2>6. Edits(EmptyEdit(e), n)
    BY <1>1, <2>4, <2>5, RetextEdit DEF Changed
  <2> QED BY <2>1, <2>2, <2>6 DEF Saved
<1>15. CASE ~asLogged /\ e # 0 /\ ~(line = Empty /\ ~wasEmpty)
  <2>1. PICK made : made = Retext(edit, e, line)
    OBVIOUS
  <2>2. SaveEdit(i, o) = made
    BY <1>8, <1>15, <2>1
  <2>3. Changed(made, edit, n, i, line, hist)
    BY <1>1, <1>2, <1>4, <1>15, <2>1, RetextEdit
  <2> QED BY <2>2, <2>3 DEF Saved, Changed
<1> QED BY <1>11, <1>12, <1>13, <1>14, <1>15

-----------------------------------------------------------------------------
(* Types and one edit of each line: the invariant.                         *)

LEMMA InvParts ==
  ASSUME Inv
  PROVE  /\ Edits(edit, Len(hist))
         /\ line \in Lines /\ hist \in Seq(Lines) /\ Len(hist) \in Nat
         /\ at \in 0 .. Len(hist) /\ off \in 0 .. Len(hist)
BY LenProperties DEF Inv, TypeOK, OneEditEach, Edits

LEMMA ShownLines ==
  ASSUME NEW nodes, Edits(nodes, Len(hist)), hist \in Seq(Lines),
         NEW i \in 0 .. Len(hist)
  PROVE  Shown(hist, nodes, i) \in Lines
<1>1. Len(hist) \in Nat /\ Empty \in Lines
  BY LenProperties, HistEditAssumption
<1>2. Fallback(hist, i) \in Lines
  BY <1>1, ElementOfSeq DEF Fallback
<1>3. CASE NoEdit(nodes, i)
  BY <1>1, <1>2, <1>3, ShownLine
<1>4. CASE ~NoEdit(nodes, i)
  <2>1. PICK k \in Positions(nodes) : nodes[k].index = i
    BY <1>4 DEF NoEdit
  <2>2. nodes[k] \in EditNode
    BY <2>1, ElementOfSeq DEF Edits, Positions
  <2>3. Shown(hist, nodes, i) = nodes[k].text
    BY <1>1, <2>1, ShownIs, ZenonT(30)
  <2> QED BY <2>2, <2>3 DEF EditNode
<1> QED BY <1>3, <1>4

LEMMA ShowShown ==
  ASSUME NEW nodes, NEW i
  PROVE  Show(nodes, i) = Shown(hist, nodes, i)
BY DEF Show, Shown, Fallback

LEMMA FindType ==
  ASSUME NEW h, Len(h) \in Nat, NEW o, NEW i
  PROVE  Find(h, o, i) \in 0 .. Len(h)
BY DEF Find, Positions

(* history_move.                                                           *)
LEMMA MoveStep ==
  ASSUME Inv, NEW i \in 0 .. Len(hist), NEW o \in 0 .. Len(hist), Move(i, o)
  PROVE  Inv'
<1> DEFINE new == IF i = 0 THEN o ELSE Find(hist, o, i)
           saved == IF i = 0 /\ at = 0 THEN edit ELSE SaveEdit(at, new)
<1>1. /\ Edits(edit, Len(hist)) /\ hist \in Seq(Lines) /\ Len(hist) \in Nat
      /\ at \in 0 .. Len(hist)
  BY InvParts
<1>2. new \in 0 .. Len(hist)
  BY <1>1, FindType
<1>3. Edits(saved, Len(hist))
  <2>1. Saved(SaveEdit(at, new), at)
    BY <1>1, <1>2, SaveKeeps
  <2> QED BY <1>1, <2>1 DEF Saved
<1>4. /\ at' = i /\ off' = new /\ edit' = saved /\ hist' = hist
      /\ line' \in IF i # 0 /\ new = 0 THEN Lines ELSE {Show(saved, i)}
  BY DEF Move
<1>5. line' \in Lines
  BY <1>1, <1>3, <1>4, ShownLines, ShowShown
<1> HIDE DEF new, saved
<1>6. Edits(edit', Len(hist'))
  BY <1>3, <1>4
<1> QED BY <1>1, <1>2, <1>4, <1>5, <1>6 DEF Inv, TypeOK, OneEditEach, Edits

(* The keys that walk: each moves to a line of the history or the new one, *)
(* from hist.off or from a node.                                           *)
MovesTo ==
  \E i \in 0 .. Len(hist), o \in {off} \cup Positions(hist) : Move(i, o)

LEMMA WalkMoves ==
  ASSUME Inv, Walk
  PROVE  MovesTo
<1>1. Len(hist) \in Nat /\ at \in 0 .. Len(hist) /\ off \in 0 .. Len(hist)
  BY InvParts
<1>2. OlderLine => MovesTo
  BY <1>1 DEF OlderLine, MovesTo
<1>3. ASSUME NEW i \in Nat, NewerLine(i) PROVE MovesTo
  BY <1>1, <1>3 DEF NewerLine, MovesTo, Positions
<1>4. ASSUME NEW w \in Pages
      PROVE  /\ w[1] \in 1 .. Len(hist) /\ w[2] \in 1 .. Len(hist)
             /\ ~OffPage(w) => at \in 1 .. Len(hist)
  <2>1. w \in Positions(hist) \X Positions(hist) /\ w[1] <= w[2]
    BY <1>4 DEF Pages
  <2>2. w[1] \in 1 .. Len(hist) /\ w[2] \in 1 .. Len(hist)
    BY <2>1 DEF Positions
  <2> QED BY <1>1, <2>2 DEF OffPage
<1>5. CASE HistoryOlder
  <2>1. ASSUME NEW w \in Pages, Move(IF OffPage(w) THEN w[2] ELSE at - 1, off)
        PROVE  MovesTo
    <3>1. (IF OffPage(w) THEN w[2] ELSE at - 1) \in 0 .. Len(hist)
      BY <1>1, <1>4
    <3> QED BY <1>1, <2>1, <3>1 DEF MovesTo
  <2> QED BY <1>2, <1>5, <2>1 DEF HistoryOlder
<1>6. CASE HistoryNewer
  <2>1. NewerLine(at + 1) => MovesTo
    BY <1>1, <1>3
  <2>2. ASSUME NEW w \in Pages, NewerLine(IF OffPage(w) THEN w[1] ELSE at + 1)
        PROVE  MovesTo
    BY <1>1, <1>3, <1>4, <2>2
  <2> QED BY <1>6, <2>1, <2>2 DEF HistoryNewer
<1>7. CASE HistoryTop
  <2>1. NewerLine(at + 1) => MovesTo
    BY <1>1, <1>3
  <2>2. ASSUME NEW w \in Pages, Move(w[1], off) PROVE MovesTo
    BY <1>1, <1>4, <2>2 DEF MovesTo
  <2> QED BY <1>7, <2>1, <2>2 DEF HistoryTop
<1>8. CASE HistoryMiddle
  <2>1. Len(hist) \div 2 \in 0 .. Len(hist)
    BY <1>1
  <2>2. ASSUME NEW w \in Pages, Move((w[1] + w[2]) \div 2, off) PROVE MovesTo
    <3>1. (w[1] + w[2]) \div 2 \in 0 .. Len(hist)
      BY <1>1, <1>4
    <3> QED BY <1>1, <2>2, <3>1 DEF MovesTo
  <2> QED BY <1>1, <1>8, <2>1, <2>2 DEF HistoryMiddle, MovesTo
<1>9. CASE HistoryBottom
  <2>1. ASSUME NEW w \in Pages, Move(w[2], off) PROVE MovesTo
    BY <1>1, <1>4, <2>1 DEF MovesTo
  <2> QED BY <1>2, <1>9, <2>1 DEF HistoryBottom
<1> QED BY <1>5, <1>6, <1>7, <1>8, <1>9 DEF Walk

(* A line that is logged is added with the number after the last.          *)
Logged(h) == h = hist \/ \E l \in Lines : h = Append(hist, l)

LEMMA PushLogs ==
  ASSUME Inv, PushHistory
  PROVE  /\ Logged(hist') /\ hist' \in Seq(Lines)
         /\ Len(hist') \in Nat /\ Len(hist) <= Len(hist') /\ off' = Len(hist')
         /\ hist # <<>> => hist' # <<>>
<1>1. hist \in Seq(Lines) /\ Len(hist) \in Nat
  BY InvParts
<1>2. PICK l \in Lines :
        hist' = IF hist # <<>> /\ hist[Len(hist)] = l THEN hist
                ELSE Append(hist, Stored[l])
  BY DEF PushHistory
<1>3. Stored[l] \in Lines
  BY HistEditAssumption
<1>4. Logged(hist')
  BY <1>2, <1>3 DEF Logged
<1>5. ASSUME NEW m \in Lines
      PROVE  /\ Append(hist, m) \in Seq(Lines)
             /\ Len(Append(hist, m)) = Len(hist) + 1
             /\ Append(hist, m) # <<>>
  BY <1>1, AppendProperties
<1>6. off' = Len(hist')
  BY DEF PushHistory
<1> QED BY <1>1, <1>2, <1>3, <1>4, <1>5, <1>6

(* Nothing the user or another shell does breaks the invariant.            *)
LEMMA InvInductive == Inv /\ [Next]_vars => Inv'
<1> SUFFICES ASSUME Inv, [Next]_vars PROVE Inv'
  OBVIOUS
<1> USE DEF Inv, TypeOK, OneEditEach
<1>1. Len(hist) \in Nat /\ at \in 0 .. Len(hist) /\ off \in 0 .. Len(hist)
      /\ Edits(edit, Len(hist))
  BY InvParts
<1>2. ASSUME NEW i \in 0 .. Len(hist), Jump(i), off' \in 0 .. Len(hist)
      PROVE  Inv'
  <2>1. line' = Shown(hist, edit, i)
    BY <1>2, ShowShown DEF Jump
  <2>2. line' \in Lines
    BY <1>1, <2>1, ShownLines
  <2> QED BY <1>1, <1>2, <2>2 DEF Jump
<1>3. CASE Walk
  BY <1>1, <1>3, WalkMoves, MoveStep DEF MovesTo, Positions
<1>4. CASE GotoEntry
  BY <1>1, <1>2, <1>4 DEF GotoEntry, Positions
<1>5. CASE GotoMark
  BY <1>1, <1>2, <1>5 DEF GotoMark, Positions
<1>6. CASE HistArg
  <2>1. at' \in 0 .. Len(hist) /\ off' \in 0 .. Len(hist)
    BY <1>1, <1>6, FindType DEF HistArg
  <2> QED BY <1>1, <1>6, <2>1 DEF HistArg
<1>7. CASE HistoryLine
  <2>1. off' \in 0 .. Len(hist)
    BY <1>1, <1>7, FindType DEF HistoryLine
  <2> QED BY <1>1, <1>7, <2>1 DEF HistoryLine
<1>8. CASE EditLine
  BY <1>1, <1>8 DEF EditLine
<1>9. CASE PushHistory
  <2>1. /\ hist' \in Seq(Lines) /\ Len(hist') \in Nat
        /\ Len(hist) <= Len(hist') /\ off' = Len(hist')
    BY <1>9, PushLogs
  <2>2. line' = line /\ at' = at /\ edit' = edit
    BY <1>9 DEF PushHistory
  <2>3. \A k \in Positions(edit) : edit[k].index \in Nat /\ edit[k].index <= Len(hist)
    <3>1. \A k \in Positions(edit) : edit[k] \in EditNode
      BY ElementOfSeq DEF Positions
    <3> QED BY <3>1 DEF EditNode
  <2>4. \A k \in Positions(edit) : edit[k].index <= Len(hist')
    BY <1>1, <2>1, <2>3
  <2>5. at' \in 0 .. Len(hist')
    BY <1>1, <2>1, <2>2
  <2> QED BY <2>1, <2>2, <2>4, <2>5
<1>10. CASE Finish
  <2>1. Positions(<<>>) = {} /\ <<>> \in Seq(EditNode)
    BY DEF Positions
  <2>2. edit' = <<>> /\ line' = Empty /\ at' = 0 /\ off' = Len(hist) /\ hist' = hist
    BY <1>10 DEF Finish
  <2> QED BY <1>1, <2>1, <2>2, HistEditAssumption
<1>11. CASE UNCHANGED vars
  BY <1>11 DEF vars, Positions
<1> QED BY <1>3, <1>4, <1>5, <1>6, <1>7, <1>8, <1>9, <1>10, <1>11 DEF Next

LEMMA InvStarts == Init => Inv
<1> SUFFICES ASSUME Init PROVE Inv
  OBVIOUS
<1>1. PICK n \in 0 .. MaxHist : hist \in [1 .. n -> Lines \ {Empty}]
  BY HistEditAssumption DEF Init
<1>2. hist \in Seq(Lines) /\ Len(hist) \in Nat
  <2>1. hist \in Seq(Lines)
    BY <1>1, HistEditAssumption
  <2> QED BY <2>1, LenProperties
<1>3. Positions(<<>>) = {} /\ <<>> \in Seq(EditNode)
  BY DEF Positions
<1> QED BY <1>2, <1>3, HistEditAssumption DEF Init, Inv, TypeOK, OneEditEach

LEMMA HistEditInv == Spec => []Inv
<1>1. Init => Inv
  BY InvStarts
<1>2. Inv /\ [Next]_vars => Inv'
  BY InvInductive
<1> QED BY <1>1, <1>2, PTL DEF Spec

(* The line, the place in the history and the edits stay well typed, for   *)
(* any lines, whatever the user does.                                      *)
THEOREM HistEditTypeCorrect == Spec => []TypeOK
<1>1. Inv => TypeOK
  BY DEF Inv
<1> QED BY <1>1, HistEditInv, PTL

(* "History edits, one entry for every edit" (struct State): whatever the  *)
(* user does, no line has two, also after an edit was removed or emptied.  *)
THEOREM EditsAreUnique == Spec => []OneEditEach
<1>1. Inv => OneEditEach
  BY DEF Inv
<1> QED BY <1>1, HistEditInv, PTL

-----------------------------------------------------------------------------
(* A node to start from.                                                   *)

LEMMA AnchoredStep ==
  ASSUME "lastArg" \notin Habits, Inv, Anchored, [Next]_vars
  PROVE  Anchored'
<1>1. Len(hist) \in Nat /\ at \in 0 .. Len(hist) /\ off \in 0 .. Len(hist)
      /\ hist \in Seq(Lines)
  BY InvParts
<1>2. hist # <<>> => Len(hist) # 0
  BY <1>1, EmptySeq
<1>3. CASE Walk
  <2>1. PICK i \in 0 .. Len(hist), o \in {off} \cup Positions(hist) : Move(i, o)
    BY <1>3, WalkMoves DEF MovesTo
  <2>2. off' = (IF i = 0 THEN o ELSE Find(hist, o, i)) /\ hist' = hist
    BY <2>1 DEF Move
  <2>3. hist # <<>> => o # 0
    BY <1>1 DEF Anchored, Positions
  <2> QED BY <1>1, <2>2, <2>3 DEF Anchored, Find, Positions
<1>4. CASE GotoEntry
  BY <1>1, <1>4 DEF GotoEntry, Anchored, Positions
<1>5. CASE GotoMark
  BY <1>5 DEF GotoMark, Jump, Anchored
<1>6. CASE HistArg
  <2>1. at # 0 /\ off' = Find(hist, off, at) /\ hist' = hist /\ off # 0
    BY <1>1, <1>2, <1>6 DEF HistArg, Anchored
  <2> QED BY <1>1, <2>1 DEF Anchored, Find, Positions
<1>7. CASE HistoryLine
  BY <1>7 DEF HistoryLine, Anchored
<1>8. CASE EditLine
  BY <1>8 DEF EditLine, Anchored
<1>9. CASE PushHistory
  <2>1. hist' \in Seq(Lines) /\ off' = Len(hist')
    BY <1>9, PushLogs
  <2> QED BY <2>1, EmptySeq DEF Anchored
<1>10. CASE Finish
  BY <1>1, <1>2, <1>10 DEF Finish, Anchored
<1>11. CASE UNCHANGED vars
  BY <1>11 DEF vars, Anchored
<1> QED BY <1>3, <1>4, <1>5, <1>6, <1>7, <1>8, <1>9, <1>10, <1>11 DEF Next

LEMMA AnchoredStarts == Init => Anchored
<1> SUFFICES ASSUME Init PROVE Anchored
  OBVIOUS
<1>1. hist \in Seq(Lines)
  BY InvStarts DEF Inv, TypeOK
<1> QED BY <1>1, EmptySeq DEF Init, Anchored

(* However the user walks, jumps, edits and logs, find has a node to start *)
(* from while there is a history, so that no move reads before the buffer; *)
(* only the walk over the arguments of older lines ends otherwise.         *)
THEOREM AlwaysAnchored ==
  ASSUME "lastArg" \notin Habits
  PROVE  Spec => []Anchored
<1>1. Init => Anchored
  BY AnchoredStarts
<1>2. Inv /\ Anchored /\ [Next]_vars => Anchored'
  BY AnchoredStep
<1> QED BY <1>1, <1>2, HistEditInv, PTL DEF Spec

-----------------------------------------------------------------------------
(* The views of the lines: HistEdit implements HistView.                   *)

Views == [i \in 0 .. Len(hist) |-> IF i = at THEN line ELSE Show(edit, i)]

(* A step to line i, which is shown as it was left.                        *)
Goes(i) ==
  /\ hist' = hist /\ at' = i
  /\ line' = Views[i]
  /\ \A j \in (0 .. Len(hist)) \ {i} :
       Shown(hist, edit', j) = IF j = at THEN line ELSE Shown(hist, edit, j)

LEMMA GoesWalks ==
  ASSUME Inv, NEW i \in 0 .. Len(hist), Goes(i)
  PROVE  View!Walk
<1>1. Len(hist) \in Nat /\ at \in 0 .. Len(hist)
  BY InvParts
<1>2. Views' = [j \in 0 .. Len(hist) |->
                 IF j = i THEN line' ELSE Shown(hist, edit', j)]
  BY DEF Goes, Views, Show, Shown, Fallback
<1>3. Views = [j \in 0 .. Len(hist) |->
                IF j = at THEN line ELSE Shown(hist, edit, j)]
  BY DEF Views, Show, Shown, Fallback
<1>4. \A j \in 0 .. Len(hist) :
        (IF j = i THEN line' ELSE Shown(hist, edit', j))
          = IF j = at THEN line ELSE Shown(hist, edit, j)
  BY <1>1, <1>3 DEF Goes
<1>5. Views' = Views
  BY <1>2, <1>3, <1>4
<1>6. hist' = hist /\ at' = i /\ line' = Views[i] /\ DOMAIN Views = 0 .. Len(hist)
  BY <1>3 DEF Goes
<1> QED BY <1>5, <1>6 DEF View!Walk, Views

(* A user without the habits for which the code deviates, and lines that   *)
(* are stored as they are.                                                 *)
Steady == Habits = {} /\ \A l \in Lines : Stored[l] = l

LEMMA MoveGoes ==
  ASSUME Steady, Inv, NEW i \in 0 .. Len(hist), NEW o \in 0 .. Len(hist),
         hist # <<>> => o # 0, Move(i, o)
  PROVE  Goes(i)
<1> DEFINE new == IF i = 0 THEN o ELSE Find(hist, o, i)
           saved == IF i = 0 /\ at = 0 THEN edit ELSE SaveEdit(at, new)
<1>1. /\ Edits(edit, Len(hist)) /\ hist \in Seq(Lines) /\ Len(hist) \in Nat
      /\ at \in 0 .. Len(hist) /\ line \in Lines
  BY InvParts
<1>2. new \in 0 .. Len(hist)
  BY <1>1, FindType
<1>3. i # 0 => new # 0
  <2>1. i # 0 => i \in Positions(hist) /\ hist # <<>>
    BY <1>1, EmptySeq DEF Positions
  <2> QED BY <2>1 DEF Find
<1>4. /\ at' = i /\ edit' = saved /\ hist' = hist
      /\ line' \in IF i # 0 /\ new = 0 THEN Lines ELSE {Show(saved, i)}
      /\ i = 0 /\ at = 0 => line = Show(edit, 0)
      /\ ~(i = 0 /\ at = 0) => Plain(at)
  BY DEF Move, Steady
<1> HIDE DEF new
<1>5. line' = Shown(hist, saved, i)
  BY <1>3, <1>4, ShowShown
<1>6. CASE i = 0 /\ at = 0
  BY <1>1, <1>4, <1>5, <1>6, ShowShown DEF Goes, Views
<1>7. CASE ~(i = 0 /\ at = 0)
  <2>1. Saved(SaveEdit(at, new), at)
    BY <1>1, <1>2, SaveKeeps
  <2>2. saved = SaveEdit(at, new) /\ Stored[line] = line
    BY <1>1, <1>7 DEF Steady
  <2>3. /\ Shown(hist, saved, at) = line
        /\ \A j : j # at => Shown(hist, saved, j) = Shown(hist, edit, j)
    BY <1>4, <1>7, <2>1, <2>2 DEF Saved
  <2>4. line' = Views[i]
    BY <1>1, <1>5, <2>3, ShowShown DEF Views
  <2> QED BY <1>4, <2>3, <2>4 DEF Goes
<1> QED BY <1>6, <1>7

LEMMA JumpGoes ==
  ASSUME Steady, Inv, NEW i \in 0 .. Len(hist), Jump(i)
  PROVE  Goes(i)
<1>1. line = Shown(hist, edit, at) /\ line' = Shown(hist, edit, i)
      /\ edit' = edit /\ hist' = hist /\ at' = i
  BY ShowShown DEF Jump, Steady
<1> QED BY <1>1, ShowShown DEF Goes, Views

(* A line that is logged has no edit yet.                                  *)
LEMMA PushViews ==
  ASSUME Steady, Inv, PushHistory
  PROVE  View!Log \/ UNCHANGED <<line, at, Views, hist>>
<1>1. /\ Edits(edit, Len(hist)) /\ hist \in Seq(Lines) /\ Len(hist) \in Nat
      /\ at \in 0 .. Len(hist)
  BY InvParts
<1>2. PICK l \in Lines :
        hist' = IF hist # <<>> /\ hist[Len(hist)] = l THEN hist
                ELSE Append(hist, Stored[l])
  BY DEF PushHistory
<1>3. Stored[l] = l /\ line' = line /\ at' = at /\ edit' = edit
  BY DEF Steady, PushHistory
<1>4. CASE hist' = hist
  BY <1>3, <1>4 DEF Views, Show
<1>5. CASE hist' = Append(hist, l)
  <2> DEFINE n == Len(hist) + 1
  <2>1. /\ hist' \in Seq(Lines) /\ Len(hist') = n
        /\ \A j \in 1 .. Len(hist) : hist'[j] = hist[j]
        /\ hist'[n] = l
    BY <1>1, <1>5, AppendProperties
  <2>2. n \in Nat /\ n \notin 0 .. Len(hist) /\ n # 0 /\ n # at
    BY <1>1
  <2>3. NoEdit(edit, n)
    <3>1. \A k \in Positions(edit) : edit[k] \in EditNode
      BY <1>1, ElementOfSeq DEF Edits, Positions
    <3>2. \A k \in Positions(edit) : edit[k].index \in Nat /\ edit[k].index <= Len(hist)
      BY <1>1, <3>1 DEF EditNode, Edits
    <3>3. \A x \in Nat : x <= Len(hist) => x # n
      BY <1>1
    <3> QED BY <3>2, <3>3, Zenon DEF NoEdit
  <2>4. Shown(hist', edit, n) = l
    <3>1. Shown(hist', edit, n) = Fallback(hist', n)
      BY <1>1, <2>3, ShownLine, Zenon
    <3> QED BY <2>1, <2>2, <3>1 DEF Fallback
  <2>5. \A j \in 0 .. Len(hist) : Shown(hist', edit, j) = Shown(hist, edit, j)
    BY <1>1, <2>1 DEF Shown, Fallback
  <2>6. Views = [j \in 0 .. Len(hist) |->
                  IF j = at THEN line ELSE Shown(hist, edit, j)]
    BY DEF Views, Show, Shown, Fallback
  <2>7. Views' = [j \in 0 .. n |->
                   IF j = at THEN line ELSE Shown(hist', edit, j)]
    BY <1>3, <2>1 DEF Views, Show, Shown, Fallback
  <2>8. Views' = [j \in 0 .. n |-> IF j = n THEN l ELSE Views[j]]
    <3>1. \A j \in 0 .. n : j # n => j \in 0 .. Len(hist)
      BY <1>1
    <3> HIDE DEF n
    <3>2. \A j \in 0 .. n : (IF j = at THEN line ELSE Shown(hist', edit, j))
                              = IF j = n THEN l ELSE Views[j]
      BY <2>2, <2>4, <2>5, <2>6, <3>1
    <3> QED BY <2>7, <3>2
  <2> QED BY <1>2, <1>3, <1>5, <2>8 DEF View!Log, Views
<1> QED BY <1>2, <1>3, <1>4, <1>5

LEMMA ViewStep ==
  ASSUME Steady, Inv, Anchored, [Next]_vars
  PROVE  View!Next \/ UNCHANGED <<line, at, Views, hist>>
<1>1. Len(hist) \in Nat /\ at \in 0 .. Len(hist) /\ off \in 0 .. Len(hist)
      /\ hist \in Seq(Lines) /\ line \in Lines
  BY InvParts
<1>2. ASSUME NEW i \in 0 .. Len(hist), Goes(i) PROVE View!Next
  BY <1>2, GoesWalks DEF View!Next
<1>3. CASE Walk
  <2>1. PICK i \in 0 .. Len(hist), o \in {off} \cup Positions(hist) : Move(i, o)
    BY <1>3, WalkMoves DEF MovesTo
  <2>2. o \in 0 .. Len(hist) /\ (hist # <<>> => o # 0)
    BY <1>1 DEF Anchored, Positions
  <2> QED BY <1>2, <2>1, <2>2, MoveGoes
<1>4. CASE GotoEntry \/ GotoMark
  <2>1. PICK i \in 0 .. Len(hist) : Jump(i)
    BY <1>1, <1>4 DEF GotoEntry, GotoMark, Positions
  <2> QED BY <1>2, <2>1, JumpGoes
<1>5. ASSUME line' \in Lines, UNCHANGED <<at, hist, edit>> PROVE View!Next
  <2>1. Views' = [Views EXCEPT ![at] = line']
    BY <1>1, <1>5 DEF Views, Show
  <2> QED BY <1>5, <2>1 DEF View!Next, View!Edit, Views
<1>6. CASE HistArg
  <2>1. Len(hist) # 0
    BY <1>1, <1>6, EmptySeq DEF HistArg
  <2>2. UNCHANGED <<at, hist, edit>> /\ line' \in Lines
    BY <1>1, <1>6, <2>1 DEF HistArg, Steady
  <2> QED BY <1>5, <2>2
<1>7. CASE HistoryLine
  BY <1>7 DEF HistoryLine, Views, Show
<1>8. CASE EditLine
  BY <1>5, <1>8 DEF EditLine
<1>9. CASE PushHistory
  BY <1>9, PushViews DEF View!Next
<1>10. CASE Finish
  <2>1. line' = Empty /\ at' = 0 /\ edit' = <<>> /\ hist' = hist
    BY <1>10 DEF Finish
  <2>2. \A j : Scan(<<>>, j) = 0
    BY DEF Scan, Positions
  <2>3. Views' = [j \in 0 .. Len(hist) |-> IF j = 0 THEN Empty ELSE hist[j]]
    BY <2>1, <2>2 DEF Views, Show
  <2> QED BY <2>1, <2>3 DEF View!Next, View!Finish, View!Fresh, Views
<1>11. CASE UNCHANGED vars
  BY <1>11 DEF vars, Views, Show
<1> QED BY <1>3, <1>4, <1>6, <1>7, <1>8, <1>9, <1>10, <1>11 DEF Next

LEMMA ViewStarts == Init => View!Init
<1> SUFFICES ASSUME Init PROVE View!Init
  OBVIOUS
<1>1. hist \in Seq(Lines)
  BY InvStarts DEF Inv, TypeOK
<1>2. \A j : Scan(<<>>, j) = 0
  BY DEF Scan, Positions
<1>3. Views = [j \in 0 .. Len(hist) |-> IF j = 0 THEN Empty ELSE hist[j]]
  BY <1>2 DEF Init, Views, Show
<1> QED BY <1>1, <1>3 DEF Init, View!Init, View!Fresh, Views

(* Up, Down and the jumps show each line as the user left it, and a new    *)
(* line finds the history as it was logged: for lines that are stored as   *)
(* they are and a user without the habits for which the code deviates.     *)
THEOREM WalkKeepsViews ==
  ASSUME Steady
  PROVE  Spec => ViewSpec
<1>1. Init => View!Init
  BY ViewStarts
<1>2. Inv /\ Anchored /\ [Next]_vars
        => View!Next \/ UNCHANGED <<line, at, Views, hist>>
  BY ViewStep
<1>3. "lastArg" \notin Habits
  BY DEF Steady
<1>4. Spec => []Anchored
  BY <1>3, AlwaysAnchored
<1> QED BY <1>1, <1>2, <1>4, HistEditInv, PTL DEF Spec, ViewSpec, View!Spec, Views
=============================================================================
