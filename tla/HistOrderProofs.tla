-------------------------- MODULE HistOrderProofs ---------------------------
(***************************************************************************)
(* The memories of the shells agree with the history files: the lines of   *)
(* an author are in each memory in the order in which they were logged     *)
(* (LoadsInOrder), and none is there twice (LoadsOnce), for any number of  *)
(* shells, lines, rotations and names, whatever shells are killed and      *)
(* whatever writes and renames fail, as long as no shell gives up on the   *)
(* lock or on an open.                                                     *)
(***************************************************************************)
EXTENDS HistStoreProofs

(* Two lines that are in the order of their author, if they have the same. *)
Before(l, m) == l[1] = m[1] => l[2] < m[2]

(* From the oldest file to the youngest, and from the start of each to its *)
(* end, the lines of each author are in order.                             *)
FileOrder ==
  \A i, j \in Inodes : \A p \in 1 .. Len(files[i]), q \in 1 .. Len(files[j]) :
    i < j \/ (i = j /\ p < q) => Before(files[i][p], files[j][q])

(* The lines that a shell is still to read: those of the younger files and *)
(* the rest of the one that is open; while the shell opens one, that file  *)
(* and the rotated ones that it is still to load.                          *)
Unread(s, i, p) ==
  \/ fd[s] # 0 /\ i > fd[s]
  \/ fd[s] # 0 /\ i = fd[s] /\ p > fsize[s] /\ pc[s] # "stat"
  \/ fd[s] = 0 /\ pc[s] \in {"openLoad", "openUnlock"} /\ i >= loc[s].afd
  \/ fd[s] = 0 /\ pc[s] = "openLoad" /\ \E m \in 1 .. loc[s].j : i = dir[m]
  \/ fd[s] = 0 /\ pc[s] \notin {"openLoad", "openUnlock"} /\ i = dir[0]

(* They are beyond the lines of their authors that the shell has.          *)
Ahead(s) ==
  \A i \in Inodes : \A p \in 1 .. Len(files[i]), k \in 1 .. Len(hist[s]) :
    Unread(s, i, p) => Before(hist[s][k], files[i][p])
InOrder(s) ==
  \A i, k \in 1 .. Len(hist[s]) : i < k => Before(hist[s][i], hist[s][k])

(* A shell has logged nothing to a file younger than the one it has open.  *)
OwnOK(s) ==
  \A i \in Inodes : \A p \in 1 .. Len(files[i]) :
    fd[s] # 0 /\ files[i][p][1] = s => i <= fd[s]

(* What a shell found out about the name goes on being true; a shell that  *)
(* starts has an empty memory.                                             *)
KnowsOK(s) ==
  /\ pc[s] \in {"chkOld", "chkReopen", "rotQuit"} => dir[0] # fd[s]
  /\ pc[s] = "chkRead" /\ loc[s].moved => dir[0] # fd[s]
  /\ pc[s] \in {"rotLock", "rotCheck"} /\ dir[0] = fd[s]
       => loc[s].x <= Len(files[fd[s]])
StartOK(s) ==
  /\ pc[s] = "off" => hist[s] = <<>>
  /\ pc[s] \in {"openLock", "openFile"} /\ loc[s].opn = "start" => hist[s] = <<>>

OrderInv ==
  /\ FileOrder
  /\ \A s \in Shells : Ahead(s) /\ InOrder(s) /\ OwnOK(s) /\ KnowsOK(s) /\ StartOK(s)

(* The lines of the files and of the memories are lines.                   *)
LEMMA LinesAre ==
  ASSUME TypeInv
  PROVE  /\ \A i \in Inodes : /\ files[i] \in Seq(Line) /\ Len(files[i]) \in Nat
                              /\ \A p \in 1 .. Len(files[i]) : files[i][p] \in Filed
         /\ \A s \in Shells : /\ hist[s] \in Seq(Line) /\ Len(hist[s]) \in Nat
                              /\ \A k \in 1 .. Len(hist[s]) : hist[s][k] \in Recalled
         /\ \A l \in Filed \cup Recalled : l[1] \in Shells /\ l[2] \in Nat
         /\ Len(files) \in Nat
<1>1. ASSUME NEW i \in Inodes
      PROVE  /\ files[i] \in Seq(Line) /\ Len(files[i]) \in Nat
             /\ \A p \in 1 .. Len(files[i]) : files[i][p] \in Filed
  <2>1. files[i] \in Seq(Line) /\ Len(files[i]) \in Nat
    BY FileIs
  <2> QED BY <2>1, ElementOfSeq DEF Filed
<1>2. ASSUME NEW s \in Shells
      PROVE  /\ hist[s] \in Seq(Line) /\ Len(hist[s]) \in Nat
             /\ \A k \in 1 .. Len(hist[s]) : hist[s][k] \in Recalled
  <2>1. hist[s] \in Seq(Line)
    BY DEF TypeInv, TypeOK, ShellType
  <2>2. Len(hist[s]) \in Nat
    BY <2>1, LenProperties
  <2> QED BY <2>1, <2>2, ElementOfSeq DEF Recalled
<1>3. \A l \in Filed \cup Recalled : l[1] \in Shells /\ l[2] \in Nat
  BY DEF Filed, Recalled, Line
<1>4. Len(files) \in Nat
  BY LenProperties DEF TypeInv, TypeOK, DiskType
<1> QED BY <1>1, <1>2, <1>3, <1>4

(* After a step the lines of the files are those from before it, where     *)
(* they were, and the one that was written, at the end of its file.        *)
LEMMA LinesStep ==
  ASSUME NEW s \in Shells, TypeInv, Act(s),
         NEW i \in Inodes', NEW p \in 1 .. Len(files'[i])
  PROVE  \/ /\ i \in Inodes /\ p \in 1 .. Len(files[i])
            /\ files'[i][p] = files[i][p]
         \/ /\ Writes(s) /\ i = fd[s] /\ i \in Inodes
            /\ p = Len(files[i]) + 1 /\ files'[i][p] = loc[s].arg
<1> USE DEF TypeInv, TypeOK, DiskType, Inodes
<1>0. Len(files) \in Nat /\ files \in Seq(Seq(Line))
  BY LenProperties
<1>1. CASE Writes(s)
  <2>1. fd[s] \in 1 .. Len(files)
    BY <1>1 DEF Writes, ShellType
  <2>2. loc[s].arg \in Line
    BY <1>1 DEF Writes, PointInv, PointOK, ControlType, Locals
  <2>3. /\ i \in 1 .. Len(files)
        /\ files'[i] = IF i = fd[s] THEN Append(files[i], loc[s].arg) ELSE files[i]
    BY <1>0, <1>1, <2>1, ExceptSeq, LenExcept DEF Writes
  <2>4. files[i] \in Seq(Line) /\ Len(files[i]) \in Nat
    BY <1>0, <2>3
  <2>5. CASE i = fd[s]
    <3> DEFINE f == files[i]
               g == files'[i]
    <3>1. /\ Len(g) = Len(f) + 1
          /\ \A k \in 1 .. Len(f) : g[k] = f[k]
          /\ g[Len(f) + 1] = loc[s].arg
      <4>1. g = Append(f, loc[s].arg)
        BY <2>3, <2>5
      <4> HIDE DEF g
      <4> QED BY <2>2, <2>4, <4>1, AppendProperties
    <3>2. p \in 1 .. Len(g)
      OBVIOUS
    <3>3. Len(f) \in Nat
      BY <2>4
    <3> HIDE DEF f, g
    <3>4. p \in 1 .. Len(f) \/ p = Len(f) + 1
      BY <3>1, <3>2, <3>3
    <3> QED BY <1>1, <2>3, <2>5, <3>1, <3>4 DEF f, g
  <2>6. CASE i # fd[s]
    BY <2>3, <2>6
  <2> QED BY <2>5, <2>6
<1>2. CASE Creates(s)
  <2>1. /\ Len(files') = Len(files) + 1
        /\ \A k \in 1 .. Len(files) : files'[k] = files[k]
        /\ files'[Len(files) + 1] = <<>>
    BY <1>0, <1>2, NewFileIs, Zenon DEF Creates
  <2>2. i \in 1 .. Len(files) \/ i = Len(files) + 1
    BY <1>0, <2>1
  <2>3. i # Len(files) + 1
    BY <2>1, EmptySeq
  <2> QED BY <2>1, <2>2, <2>3
<1> QED BY <1>1, <1>2, DiskStep DEF Leaves0, Moves

(* The line that is written comes after all the lines of its author.       *)
LEMMA WrittenLast ==
  ASSUME NEW s \in Shells, TypeInv, LineInv, pc[s] = "write"
  PROVE  /\ loc[s].arg \in Line /\ loc[s].arg[1] = s /\ loc[s].arg[2] \in Nat
         /\ \A l \in Filed \cup Recalled : Before(l, loc[s].arg)
<1>1. loc[s].arg \in Line
  BY DEF TypeInv, PointInv, PointOK, TypeOK, ControlType, Locals
<1>2. loc[s].arg # Blank
  BY DEF TypeInv, PointInv, PointOK
<1> QED BY <1>1, <1>2 DEF LineInv, ArgOK, Before, Line

(* The files stay in order: a line is only written to the file that its    *)
(* author has open, and the author has none in a younger one.              *)
LEMMA FileOrderStep ==
  ASSUME NEW s \in Shells, TypeInv, LineInv, FileOrder, OwnOK(s), Act(s)
  PROVE  FileOrder'
<1> SUFFICES ASSUME NEW i \in Inodes', NEW j \in Inodes',
                    NEW p \in 1 .. Len(files'[i]), NEW q \in 1 .. Len(files'[j]),
                    i < j \/ (i = j /\ p < q)
             PROVE  Before(files'[i][p], files'[j][q])
  BY DEF FileOrder
<1> DEFINE Old(a, b) == a \in Inodes /\ b \in 1 .. Len(files[a]) /\ files'[a][b] = files[a][b]
           New(a, b) == /\ Writes(s) /\ a = fd[s] /\ a \in Inodes
                        /\ b = Len(files[a]) + 1 /\ files'[a][b] = loc[s].arg
<1>1. Old(i, p) \/ New(i, p)
  BY LinesStep
<1>2. Old(j, q) \/ New(j, q)
  BY LinesStep
<1>3. CASE Old(i, p) /\ Old(j, q)
  BY <1>3 DEF FileOrder
<1>4. CASE Old(i, p) /\ New(j, q)
  <2>1. pc[s] = "write" /\ files[i][p] \in Filed
    BY <1>4, LinesAre DEF Writes
  <2> QED BY <1>4, <2>1, WrittenLast
<1>5. CASE New(i, p) /\ Old(j, q)
  <2>1. pc[s] = "write" /\ fd[s] # 0 /\ i = fd[s] /\ j \in Inodes
    BY <1>5 DEF Writes
  <2>2. i < j
    <3>1. Len(files[i]) \in Nat
      BY <1>5, LinesAre
    <3> QED BY <1>5, <3>1
  <2>3. files[j][q][1] # s
    BY <1>5, <2>1, <2>2 DEF OwnOK, Inodes
  <2> QED BY <1>5, <2>1, <2>3, WrittenLast DEF Before
<1>6. CASE New(i, p) /\ New(j, q)
  <2>1. Len(files[i]) \in Nat
    BY <1>6, LinesAre
  <2> QED BY <1>6, <2>1 DEF Inodes
<1> QED BY <1>1, <1>2, <1>3, <1>4, <1>5, <1>6

(* The name of the youngest file stays, goes, or is that of a new file.    *)
LEMMA NameStep ==
  ASSUME NEW s \in Shells, TypeInv, NamesInv, Act(s)
  PROVE  /\ dir[0] \in {0, Len(files)} /\ dir'[0] \in {0, Len(files')}
         /\ \/ dir'[0] = dir[0] \/ dir'[0] = 0
            \/ dir'[0] = Len(files) + 1 /\ Len(files') = Len(files) + 1
         /\ Len(files) \in Nat /\ Len(files) <= Len(files')
<1>0. /\ 0 \in Names /\ dir \in [Names -> Inodes \cup {0}] /\ Names \subseteq Nat
      /\ \A j \in 0 .. MaxName - 1 : j \in Names /\ j + 1 \in Names /\ j + 1 # 0
  BY ConstantsAssumption DEF Names, TypeInv, TypeOK, DiskType
<1>1. dir[0] \in {0, Len(files)} /\ dir'[0] \in {0, Len(files')}
  BY NamesStep DEF NamesInv, NamesOK
<1>2. Len(files) \in Nat /\ Len(files) <= Len(files')
  BY LinesAre, FilesStep
<1>3. CASE Creates(s)
  <2>1. Len(files') = Len(files) + 1
    BY <1>3, NewFile, Zenon DEF Creates, TypeInv, TypeOK, DiskType
  <2> QED BY <1>0, <1>1, <1>2, <1>3, <2>1 DEF Creates
<1>4. ASSUME NEW j \in 0 .. MaxName - 1, Moves(s, j)
      PROVE  dir'[0] = dir[0] \/ dir'[0] = 0
  BY <1>0, <1>4 DEF Moves, Rename
<1> QED BY <1>1, <1>2, <1>3, <1>4, DiskStep DEF Leaves0, Writes

(* A step makes no old line unread for another shell.                      *)
LEMMA UnreadKept ==
  ASSUME NEW s \in Shells, NEW t \in Shells \ {s}, TypeInv, LockInv, NamesInv, Act(s),
         NEW i \in Inodes, NEW p, Unread(t, i, p)'
  PROVE  Unread(t, i, p)
<1>1. pc'[t] = pc[t] /\ loc'[t] = loc[t] /\ fd'[t] = fd[t] /\ fsize'[t] = fsize[t]
  BY FrameStep, FrameRestStep DEF Frame, FrameRest, TypeInv
<1>2. pc[t] = "openLoad" => dir' = dir
  BY NamesHeld DEF LockInv, MutualExclusion, LockHeld
<1>3. i = dir'[0] => i = dir[0]
  BY NameStep DEF Inodes
<1> QED BY <1>1, <1>2, <1>3 DEF Unread

(* The memory of a shell and what it knows stay right when another shell   *)
(* makes a step.                                                           *)
LEMMA OthersStep ==
  ASSUME NEW s \in Shells, NEW t \in Shells \ {s},
         TypeInv, LockInv, FdInv, NamesInv, LineInv, OrderInv, Act(s)
  PROVE  Ahead(t)' /\ InOrder(t)' /\ OwnOK(t)' /\ KnowsOK(t)' /\ StartOK(t)'
<1>1. /\ pc'[t] = pc[t] /\ loc'[t] = loc[t] /\ fd'[t] = fd[t] /\ fsize'[t] = fsize[t]
      /\ hist'[t] = hist[t]
  BY FrameStep, FrameRestStep DEF Frame, FrameRest, TypeInv
<1>2. Ahead(t)'
  <2> SUFFICES ASSUME NEW i \in Inodes', NEW p \in 1 .. Len(files'[i]),
                      NEW k \in 1 .. Len(hist[t]), Unread(t, i, p)'
               PROVE  Before(hist[t][k], files'[i][p])
    BY <1>1 DEF Ahead
  <2>1. CASE i \in Inodes /\ p \in 1 .. Len(files[i]) /\ files'[i][p] = files[i][p]
    <3>1. Unread(t, i, p)
      BY <2>1, UnreadKept
    <3> QED BY <2>1, <3>1 DEF OrderInv, Ahead
  <2>2. CASE Writes(s) /\ files'[i][p] = loc[s].arg
    BY <2>2, WrittenLast, LinesAre DEF Writes
  <2> QED BY <2>1, <2>2, LinesStep
<1>3. InOrder(t)'
  BY <1>1 DEF OrderInv, InOrder
<1>4. OwnOK(t)'
  <2> SUFFICES ASSUME NEW i \in Inodes', NEW p \in 1 .. Len(files'[i]),
                      fd[t] # 0, files'[i][p][1] = t
               PROVE  i <= fd[t]
    BY <1>1 DEF OwnOK
  <2>1. ~(Writes(s) /\ files'[i][p] = loc[s].arg)
    BY WrittenLast DEF Writes
  <2> QED BY <2>1, LinesStep DEF OrderInv, OwnOK
<1>5. fd[t] # 0 => fd[t] \in Inodes /\ (dir'[0] = fd[t] => dir[0] = fd[t])
  <2>1. fd[t] \in Inodes \cup {0}
    BY DEF TypeInv, TypeOK, ShellType
  <2> QED BY <2>1, NameStep DEF Inodes
<1>6. KnowsOK(t)'
  <2>1. pc[t] \in {"chkOld", "chkReopen", "rotQuit", "chkRead", "rotLock", "rotCheck"} => fd[t] # 0
    BY DEF FdInv, Closed
  <2>2. KnowsOK(t)
    BY DEF OrderInv
  <2>3. fd[t] # 0 => /\ Len(files[fd[t]]) \in Nat /\ Len(files'[fd[t]]) \in Nat
                     /\ Len(files[fd[t]]) <= Len(files'[fd[t]])
    BY <1>5, FileGrows
  <2>4. loc[t].x \in Nat
    BY DEF TypeInv, TypeOK, ControlType, Locals
  <2> QED BY <1>1, <1>5, <2>1, <2>2, <2>3, <2>4 DEF KnowsOK
<1>7. StartOK(t)'
  BY <1>1 DEF OrderInv, StartOK
<1> QED BY <1>2, <1>3, <1>4, <1>6, <1>7

(* A step that neither reads nor writes a line makes no old line unread,   *)
(* except that a shell that starts has all of them to read.                *)
LEMMA UnreadStep ==
  ASSUME NoOpenFailure, NEW s \in Shells,
         TypeInv, LockInv, FdInv, NamesInv, KnowsOK(s), StartOK(s), Act(s),
         ~Write(s), ~CheckRead(s), ~OpenLoad(s), ~Release(s), ~Crash(s),
         NEW i \in Inodes, NEW p \in 1 .. Len(files[i]), Unread(s, i, p)'
  PROVE  Unread(s, i, p) \/ hist[s] = <<>>
<1> USE DEF TypeInv, TypeOK, ControlType, ShellType
<1>0. /\ fd[s] \in Inodes \cup {0} /\ i # 0 /\ i <= Len(files) /\ Len(files) \in Nat
      /\ fsize[s] \in Nat /\ 0 \notin Inodes /\ p > 0 /\ Len(files[i]) \in Nat
  BY LinesAre DEF Inodes
<1>1. /\ dir[0] \in {0, Len(files)} /\ 0 \in Names /\ dir \in [Names -> Inodes \cup {0}]
  BY ConstantsAssumption DEF NamesInv, NamesOK, Names, DiskType
<1>2. fd[s] = 0 <=> pc[s] \in Closed
  BY DEF FdInv
<1>3. ASSUME fd'[s] = fd[s], fsize'[s] = fsize[s], fd[s] # 0, pc[s] # "stat"
      PROVE  Unread(s, i, p)
  BY <1>3 DEF Unread
<1>4. ASSUME fd'[s] = 0, pc'[s] \notin {"openLoad", "openUnlock"}, dir'[0] = 0
      PROVE  FALSE
  BY <1>0, <1>4 DEF Unread
<1>5. ASSUME fd'[s] = 0, pc'[s] \notin {"openLoad", "openUnlock"}, dir'[0] = dir[0],
             fd[s] = 0, pc[s] \notin {"openLoad", "openUnlock"}
      PROVE  Unread(s, i, p)
  BY <1>5 DEF Unread
<1>6. CASE Call(s)
  <2>1. \/ pc[s] = "idle" /\ fd' = fd /\ fsize' = fsize
        \/ Start(s)
    BY <1>6 DEF Call, LogHistory, PushHistory, BreakHistory, FlushHistory, IdleTick,
                RotateHistory, Begin, open
  <2>2. Start(s) => hist[s] = <<>>
    BY DEF Start, StartOK
  <2> QED BY <1>2, <1>3, <2>1, <2>2 DEF Closed
<1>7. CASE CheckStat(s) \/ CheckOld(s)
  <2>1. pc[s] \in {"chkStat", "chkOld"} /\ fd' = fd /\ fsize' = fsize
    BY <1>7 DEF CheckStat, CheckOld, open
  <2> QED BY <1>2, <1>3, <2>1 DEF Closed
<1>8. CASE CheckReopen(s)
  <2>1. pc[s] = "chkReopen" /\ fd[s] # 0 /\ dir[0] # fd[s]
    BY <1>2, <1>8 DEF CheckReopen, Closed, KnowsOK
  <2>2. \/ fd' = fd /\ fsize' = fsize
        \/ dir[0] # 0 /\ fd'[s] = dir[0]
    BY <1>8 DEF CheckReopen, open, Attach
  <2>3. dir[0] # 0 => fd[s] < dir[0]
    BY <1>0, <1>1, <2>1 DEF Inodes
  <2>4. ASSUME dir[0] # 0, fd'[s] = dir[0]
        PROVE  Unread(s, i, p)
    <3>1. i > dir[0] \/ i = dir[0]
      BY <2>4 DEF Unread
    <3> QED BY <1>0, <1>1, <2>1, <2>3, <2>4, <3>1 DEF Unread, Inodes
  <2> QED BY <1>3, <2>1, <2>2, <2>4
<1>9. CASE WriteStat(s)
  <2>1. /\ pc[s] = "stat" /\ fd[s] # 0 /\ fd'[s] = fd[s]
        /\ fsize'[s] = Len(files[fd[s]])
    BY <1>9 DEF WriteStat, PointInv, PointOK
  <2> QED BY <1>0, <2>1 DEF Unread
<1>10. CASE RotStat(s)
  <2>1. pc[s] = "rotStat" /\ fd[s] # 0 /\ dir' = dir
    BY <1>2, <1>10 DEF RotStat, Closed, disk
  <2>2. \/ fd' = fd /\ fsize' = fsize
        \/ fd'[s] = 0 /\ dir[0] = 0 /\ pc'[s] = "openLock"
    BY <1>10, <2>1 DEF RotStat, open, Close, Goto
  <2> QED BY <1>3, <1>4, <2>1, <2>2
<1>11. CASE RotCur(s)
  <2>1. pc[s] = "rotCur" /\ fd[s] # 0
    BY <1>2, <1>11 DEF RotCur, Closed
  <2>2. \/ fd' = fd /\ fsize' = fsize
        \/ fd'[s] = 0 /\ Rename(0, 1) /\ pc'[s] = "rotUnlock"
    BY <1>11, <2>1 DEF RotCur, open, Close, Goto
  <2>3. Rename(0, 1) => dir'[0] = 0
    BY <1>1, ConstantsAssumption DEF Rename, Names
  <2> QED BY <1>3, <1>4, <2>1, <2>2, <2>3
<1>12. CASE RotQuit(s)
  <2>1. /\ pc[s] = "rotQuit" /\ fd[s] # 0 /\ dir' = dir /\ dir[0] # fd[s]
        /\ fd'[s] = 0 /\ pc'[s] = "openLock"
    BY <1>2, <1>12 DEF RotQuit, Closed, disk, KnowsOK, Close, Goto
  <2>2. i = dir[0]
    BY <2>1 DEF Unread
  <2> QED BY <1>0, <1>1, <2>1, <2>2 DEF Unread, Inodes
<1>13. CASE RotLock(s) \/ RotCheck(s) \/ RotScan(s) \/ RotShift(s) \/ RotFail(s)
  <2>1. /\ pc[s] \in {"rotLock", "rotCheck", "rotScan", "rotShift", "rotFail", "rotUndo"}
        /\ fd' = fd /\ fsize' = fsize
    BY <1>13 DEF RotLock, RotCheck, RotScan, RotShift, RotFail, open
  <2> QED BY <1>2, <1>3, <2>1 DEF Closed
<1>14. CASE RotUnlock(s) \/ OpenLock(s)
  <2>1. /\ pc[s] \in {"rotUnlock", "openLock"} /\ fd' = fd /\ dir' = dir
        /\ pc'[s] \in {"openLock", "openFile"}
    BY <1>14 DEF RotUnlock, OpenLock, open, disk, Goto, GiveUp, NoOpenFailure
  <2> QED BY <1>2, <1>5, <2>1 DEF Closed
<1>15. CASE OpenFile(s)
  <2>1. pc[s] = "openFile" /\ fd[s] = 0 /\ fd'[s] = 0
    BY <1>2, <1>15 DEF OpenFile, Closed, open
  <2>2. CASE loc[s].opn = "start"
    BY <2>1, <2>2 DEF StartOK
  <2>3. CASE loc[s].opn # "start"
    <3>1. pc'[s] = "openUnlock"
      BY <1>15, <2>3 DEF OpenFile, Goto, NoOpenFailure
    <3>2. \/ Keep(s, [loc[s] EXCEPT !.afd = dir[0]]) /\ dir[0] # 0
          \/ Keep(s, [loc[s] EXCEPT !.afd = Len(files) + 1])
      BY <1>15, <2>3 DEF OpenFile, NoOpenFailure
    <3>3. ASSUME NEW v, Keep(s, [loc[s] EXCEPT !.afd = v])
          PROVE  loc'[s].afd = v
      BY <3>3, LocalsKeep DEF Keep
    <3>4. (loc'[s].afd = dir[0] /\ dir[0] # 0) \/ loc'[s].afd = Len(files) + 1
      BY <3>2, <3>3
    <3>5. i >= loc'[s].afd
      BY <2>1, <3>1 DEF Unread
    <3>6. i = dir[0]
      <4>1. CASE loc'[s].afd = Len(files) + 1
        BY <1>0, <3>5, <4>1 DEF Inodes
      <4>2. CASE loc'[s].afd = Len(files) /\ dir[0] = Len(files)
        BY <1>0, <3>5, <4>2 DEF Inodes
      <4> QED BY <1>1, <3>4, <4>1, <4>2
    <3> QED BY <2>1, <3>6 DEF Unread
  <2> QED BY <2>2, <2>3
<1>16. CASE OpenUnlock(s)
  <2>1. pc[s] = "openUnlock" /\ fd[s] = 0 /\ fd'[s] = loc[s].afd /\ loc[s].afd # 0
    BY <1>2, <1>16 DEF OpenUnlock, Closed, LockInv, Attach
  <2>2. loc[s].afd \in Inodes
    BY <2>1 DEF PointInv, PointOK
  <2>3. i >= loc[s].afd
    BY <1>0, <2>1, <2>2 DEF Unread, Inodes
  <2> QED BY <2>1, <2>3 DEF Unread
<1> QED BY <1>6, <1>7, <1>8, <1>9, <1>10, <1>11, <1>12, <1>13, <1>14, <1>15, <1>16
        DEF Act, Step, Check, Log, Rotate, Open

(* Lines that are in order and come after those in the memory can be added *)
(* to it.                                                                  *)
LEMMA JoinOrder ==
  ASSUME NEW s \in Shells, TypeInv, InOrder(s), NEW r \in Seq(Line),
         hist'[s] = hist[s] \o r,
         \A k \in 1 .. Len(hist[s]), m \in 1 .. Len(r) : Before(hist[s][k], r[m]),
         \A m, n \in 1 .. Len(r) : m < n => Before(r[m], r[n])
  PROVE  /\ InOrder(s)'
         /\ \A k \in 1 .. Len(hist'[s]) :
              \/ k \in 1 .. Len(hist[s]) /\ hist'[s][k] = hist[s][k]
              \/ \E m \in 1 .. Len(r) : hist'[s][k] = r[m]
<1> DEFINE q == hist[s]
           h == hist'[s]
<1>1. q \in Seq(Line)
  BY LinesAre
<1>2. /\ Len(q) \in Nat /\ Len(r) \in Nat
      /\ h \in Seq(Line) /\ Len(h) = Len(q) + Len(r)
      /\ \A k \in 1 .. Len(q) : h[k] = q[k]
      /\ \A k \in 1 .. Len(h) : k > Len(q) => k - Len(q) \in 1 .. Len(r) /\ h[k] = r[k - Len(q)]
  BY <1>1, Joined
<1>3. \A i, k \in 1 .. Len(q) : i < k => Before(q[i], q[k])
  BY DEF InOrder
<1>4. /\ \A k \in 1 .. Len(q), m \in 1 .. Len(r) : Before(q[k], r[m])
      /\ \A m, n \in 1 .. Len(r) : m < n => Before(r[m], r[n])
  OBVIOUS
<1> HIDE DEF q, h
<1>5. ASSUME NEW i \in 1 .. Len(h), NEW k \in 1 .. Len(h), i < k
      PROVE  Before(h[i], h[k])
  <2>1. CASE k <= Len(q)
    <3>1. i \in 1 .. Len(q) /\ k \in 1 .. Len(q)
      BY <1>2, <1>5, <2>1
    <3> QED BY <1>2, <1>3, <1>5, <3>1
  <2>2. CASE i <= Len(q) /\ k > Len(q)
    <3>1. i \in 1 .. Len(q) /\ k - Len(q) \in 1 .. Len(r)
      BY <1>2, <2>2
    <3> QED BY <1>2, <1>4, <2>2, <3>1
  <2>3. CASE i > Len(q)
    <3>1. /\ k > Len(q) /\ i - Len(q) \in 1 .. Len(r) /\ k - Len(q) \in 1 .. Len(r)
          /\ i - Len(q) < k - Len(q)
      BY <1>2, <1>5, <2>3
    <3> QED BY <1>2, <1>4, <2>3, <3>1
  <2> QED BY <1>2, <2>1, <2>2, <2>3
<1>6. ASSUME NEW k \in 1 .. Len(h)
      PROVE  \/ k \in 1 .. Len(q) /\ h[k] = q[k]
             \/ \E m \in 1 .. Len(r) : h[k] = r[m]
  <2>1. k <= Len(q) => k \in 1 .. Len(q)
    BY <1>2
  <2>2. k > Len(q) => k - Len(q) \in 1 .. Len(r) /\ h[k] = r[k - Len(q)]
    BY <1>2
  <2>3. k <= Len(q) \/ k > Len(q)
    BY <1>2
  <2> QED BY <1>2, <2>1, <2>2, <2>3
<1>7. InOrder(s)'
  BY <1>5 DEF InOrder, h
<1> QED BY <1>6, <1>7 DEF h, q

(* What log_hist remembers of the line that it writes.                     *)
LEMMA WriteOrder ==
  ASSUME NEW s \in Shells, TypeInv, FdInv, LineInv, OrderInv, Act(s), Write(s)
  PROVE  Ahead(s)' /\ InOrder(s)'
<1> DEFINE q == hist[s]
           arg == loc[s].arg
<1>1. pc[s] = "write" /\ fd[s] # 0 /\ fd' = fd /\ pc'[s] = "stat" /\ hist'[s] = Append(q, arg)
  <2>1. pc[s] = "write" /\ fd' = fd /\ hist'[s] = Append(q, arg)
    BY DEF Write, open, TypeInv, TypeOK, ShellType
  <2>2. fd[s] # 0
    BY <2>1 DEF FdInv, Closed
  <2>3. pc'[s] = "stat"
    BY <2>2 DEF Write, Goto, TypeInv, TypeOK, ControlType
  <2> QED BY <2>1, <2>2, <2>3
<1>2. /\ arg \in Line /\ arg[1] = s
      /\ \A l \in Filed \cup Recalled : Before(l, arg)
  BY <1>1, WrittenLast
<1>3. /\ q \in Seq(Line) /\ Len(q) \in Nat
      /\ \A k \in 1 .. Len(q) : q[k] \in Recalled
  BY LinesAre
<1> HIDE DEF arg
<1>4. /\ Len(hist'[s]) = Len(q) + 1
      /\ \A k \in 1 .. Len(q) : hist'[s][k] = q[k]
      /\ hist'[s][Len(q) + 1] = arg
  BY <1>1, <1>2, <1>3, AppendProperties
<1>5. \A i, k \in 1 .. Len(q) : i < k => Before(q[i], q[k])
  BY DEF OrderInv, InOrder
<1> HIDE DEF q
<1>6. ASSUME NEW k \in 1 .. Len(hist'[s])
      PROVE  k \in 1 .. Len(q) \/ k = Len(q) + 1
  BY <1>3, <1>4
<1>7. InOrder(s)'
  <2> SUFFICES ASSUME NEW i \in 1 .. Len(hist'[s]), NEW k \in 1 .. Len(hist'[s]), i < k
               PROVE  Before(hist'[s][i], hist'[s][k])
    BY DEF InOrder
  <2>1. i \in 1 .. Len(q)
    BY <1>3, <1>6
  <2> QED BY <1>2, <1>3, <1>4, <1>5, <1>6, <2>1
<1>8. Ahead(s)'
  <2> SUFFICES ASSUME NEW i \in Inodes', NEW p \in 1 .. Len(files'[i]),
                      NEW k \in 1 .. Len(hist'[s]), Unread(s, i, p)'
               PROVE  Before(hist'[s][k], files'[i][p])
    BY DEF Ahead
  <2>1. i > fd[s]
    BY <1>1 DEF Unread
  <2>2. fd[s] \in Nat /\ i \in Nat
    BY DEF TypeInv, TypeOK, ShellType, Inodes
  <2>3. i \in Inodes /\ p \in 1 .. Len(files[i]) /\ files'[i][p] = files[i][p]
    BY <2>1, <2>2, LinesStep
  <2>4. Unread(s, i, p)
    BY <1>1, <2>1 DEF Unread
  <2>5. files[i][p][1] # s
    BY <1>1, <2>1, <2>2, <2>3 DEF OrderInv, OwnOK
  <2>6. \A m \in 1 .. Len(q) : Before(q[m], files[i][p])
    BY <2>3, <2>4 DEF OrderInv, Ahead, q
  <2> QED BY <1>2, <1>4, <1>6, <2>3, <2>5, <2>6 DEF Before
<1> QED BY <1>7, <1>8

(* What check_history reads of the file that is open comes after what is   *)
(* in the memory, and what is in younger files after it.                   *)
LEMMA ReadOrder ==
  ASSUME NEW s \in Shells, TypeInv, FdInv, OrderInv, Act(s), CheckRead(s)
  PROVE  Ahead(s)' /\ InOrder(s)'
<1> DEFINE f == files[fd[s]]
           r == SubSeq(f, fsize[s] + 1, Len(f))
<1>1. pc[s] = "chkRead" /\ fd[s] \in Inodes /\ fsize[s] \in Nat
  BY DEF CheckRead, TypeInv, TypeOK, ShellType, PointInv, PointOK
<1>2. /\ f \in Seq(Line) /\ Len(f) \in Nat /\ r \in Seq(Line)
      /\ Len(r) = IF fsize[s] <= Len(f) THEN Len(f) - fsize[s] ELSE 0
      /\ \A m \in 1 .. Len(r) : fsize[s] + m \in 1 .. Len(f) /\ r[m] = f[fsize[s] + m]
  BY <1>1, FileIs
<1>3. /\ hist'[s] = hist[s] \o r /\ fsize'[s] = fsize[s] + Len(r)
      /\ fd' = fd /\ files' = files
  BY DEF CheckRead, disk, TypeInv, TypeOK, ShellType
<1>4. \A p \in 1 .. Len(f) : ~(p > fsize'[s])
  BY <1>1, <1>2, <1>3
<1>5. fd[s] # 0 /\ fd[s] \in Nat
  BY <1>1 DEF Inodes
<1>6. ASSUME NEW m \in 1 .. Len(r)
      PROVE  /\ fsize[s] + m \in 1 .. Len(files[fd[s]]) /\ r[m] = files[fd[s]][fsize[s] + m]
             /\ Unread(s, fd[s], fsize[s] + m)
  <2>1. fsize[s] + m > fsize[s]
    BY <1>1
  <2> HIDE DEF r
  <2>2. Unread(s, fd[s], fsize[s] + m)
    BY <1>1, <1>5, <2>1 DEF Unread
  <2> QED BY <1>2, <2>2
<1>7. \A k \in 1 .. Len(hist[s]), m \in 1 .. Len(r) : Before(hist[s][k], r[m])
  BY <1>1, <1>6 DEF OrderInv, Ahead
<1>8. \A m, n \in 1 .. Len(r) : m < n => Before(r[m], r[n])
  <2> SUFFICES ASSUME NEW m \in 1 .. Len(r), NEW n \in 1 .. Len(r), m < n
               PROVE  Before(r[m], r[n])
    OBVIOUS
  <2>1. fsize[s] + m < fsize[s] + n
    BY <1>1
  <2> QED BY <1>1, <1>6, <2>1 DEF OrderInv, FileOrder
<1> HIDE DEF f, r
<1>9. /\ InOrder(s)'
      /\ \A k \in 1 .. Len(hist'[s]) :
           \/ k \in 1 .. Len(hist[s]) /\ hist'[s][k] = hist[s][k]
           \/ \E m \in 1 .. Len(r) : hist'[s][k] = r[m]
  BY <1>2, <1>3, <1>7, <1>8, JoinOrder DEF OrderInv
<1>10. Ahead(s)'
  <2> SUFFICES ASSUME NEW i \in Inodes, NEW p \in 1 .. Len(files[i]),
                      NEW k \in 1 .. Len(hist'[s]), Unread(s, i, p)'
               PROVE  Before(hist'[s][k], files[i][p])
    BY <1>3 DEF Ahead, Inodes
  <2>1. i > fd[s]
    BY <1>3, <1>4, <1>5 DEF Unread, f
  <2>2. Unread(s, i, p)
    BY <1>5, <2>1 DEF Unread
  <2>3. \A m \in 1 .. Len(hist[s]) : Before(hist[s][m], files[i][p])
    BY <2>2 DEF OrderInv, Ahead
  <2>4. fd[s] < i
    BY <1>5, <2>1 DEF Inodes
  <2>5. \A m \in 1 .. Len(r) : Before(r[m], files[i][p])
    BY <1>1, <1>6, <2>4 DEF OrderInv, FileOrder
  <2> QED BY <1>9, <2>3, <2>5
<1> QED BY <1>9, <1>10

(* The rotated files are loaded from the oldest to the youngest, and the   *)
(* file itself comes after them.                                           *)
LEMMA LoadOrder ==
  ASSUME NEW s \in Shells, TypeInv, LockInv, FdInv, NamesInv, OrderInv, Act(s), OpenLoad(s)
  PROVE  Ahead(s)' /\ InOrder(s)'
<1> DEFINE j == loc[s].j
           f == files[dir[j]]
<1>1. /\ pc[s] = "openLoad" /\ fd[s] = 0 /\ fd' = fd /\ UNCHANGED <<files, dir>>
      /\ loc[s].afd = dir[0] /\ dir[0] # 0
  <2>1. pc[s] = "openLoad" /\ fd' = fd /\ UNCHANGED <<files, dir>>
    BY DEF OpenLoad, open, disk
  <2> QED BY <2>1 DEF FdInv, Closed, NamesInv, PlaceOK, LockInv
<1>2. /\ j \in 0 .. MaxName - 1 /\ j \in Names /\ 0 \in Names /\ Names \subseteq Nat
      /\ dir \in [Names -> Inodes \cup {0}] /\ loc[s] \in Locals
  BY ConstantsAssumption, SMTT(30) DEF TypeInv, TypeOK, DiskType, ControlType, Locals, Names
<1>3. \/ j = 0 /\ pc'[s] = "openUnlock" /\ loc' = loc /\ hist' = hist
      \/ /\ j > 0 /\ pc'[s] = "openLoad"
         /\ loc'[s].j = j - 1 /\ loc'[s].afd = loc[s].afd
         /\ \/ hist'[s] = hist[s]
            \/ dir[j] # 0 /\ hist'[s] = hist[s] \o f
  <2>1. loc[s] \in Locals /\ [loc[s] EXCEPT !.j = j - 1].j = j - 1
        /\ [loc[s] EXCEPT !.j = j - 1].afd = loc[s].afd
    BY <1>2, LocalsKeep
  <2>2. CASE j = 0
    BY <2>2 DEF OpenLoad, Goto, TypeInv, TypeOK, ControlType
  <2>3. CASE j > 0
    <3>1. /\ loc'[s] = [loc[s] EXCEPT !.j = j - 1] /\ pc'[s] = "openLoad"
          /\ \/ hist' = hist
             \/ dir[j] # 0 /\ hist' = [hist EXCEPT ![s] = @ \o f]
      <4>1. /\ loc' = [loc EXCEPT ![s] = [loc[s] EXCEPT !.j = j - 1]] /\ pc' = pc
            /\ \/ hist' = hist
               \/ dir[j] # 0 /\ hist' = [hist EXCEPT ![s] = @ \o f]
        <5>1. j # 0
          BY <1>2, <2>3
        <5> QED BY <5>1, Zenon DEF OpenLoad, Keep
      <4> QED BY <1>1, <4>1 DEF TypeInv, TypeOK, ControlType
    <3>2. hist \in [Shells -> Seq(Line)]
      BY DEF TypeInv, TypeOK, ShellType
    <3>3. hist'[s] = hist[s] \/ (dir[j] # 0 /\ hist'[s] = hist[s] \o f)
      BY <3>1, <3>2, Zenon
    <3>4. loc'[s].j = j - 1 /\ loc'[s].afd = loc[s].afd
      BY <2>1, <3>1
    <3> QED BY <2>3, <3>1, <3>3, <3>4
  <2>4. j = 0 \/ j > 0
    BY <1>2
  <2> QED BY <2>2, <2>3, <2>4, Zenon
<1>4. ASSUME NEW i \in Inodes, NEW p, Unread(s, i, p)'
      PROVE  /\ Unread(s, i, p)
             /\ j > 0 /\ dir[j] # 0 => dir[j] < i
  <2>1. i >= dir[0] \/ (pc'[s] = "openLoad" /\ \E m \in 1 .. loc'[s].j : i = dir[m])
    BY <1>1, <1>3, <1>4 DEF Unread
  <2>2. dir[0] \in Inodes /\ 0 \notin Inodes /\ i \in Nat
    BY <1>1, <1>2 DEF Inodes
  <2>3. CASE i >= dir[0]
    <3>1. Unread(s, i, p)
      BY <1>1, <2>3 DEF Unread
    <3>2. j > 0 /\ dir[j] # 0 => dir[j] < dir[0]
      BY <1>1, <1>2 DEF NamesInv, NamesOK
    <3> QED BY <1>2, <2>2, <2>3, <3>1, <3>2 DEF Inodes
  <2>4. ASSUME pc'[s] = "openLoad", NEW m \in 1 .. loc'[s].j, i = dir[m]
        PROVE  Unread(s, i, p) /\ (j > 0 /\ dir[j] # 0 => dir[j] < i)
    <3>1. m \in 1 .. j /\ m < j /\ m \in Names
      BY <1>2, <1>3, <2>4, ConstantsAssumption DEF Names
    <3>2. Unread(s, i, p)
      BY <1>1, <2>4, <3>1 DEF Unread
    <3>3. dir[j] # 0 => dir[j] < dir[m]
      BY <1>2, <2>2, <2>4, <3>1 DEF NamesInv, NamesOK
    <3> QED BY <2>4, <3>2, <3>3
  <2> QED BY <2>1, <2>3, <2>4
<1>5. CASE hist'[s] = hist[s]
  BY <1>1, <1>4, <1>5 DEF OrderInv, Ahead, InOrder, Inodes
<1>6. CASE j > 0 /\ dir[j] # 0 /\ hist'[s] = hist[s] \o f
  <2>1. dir[j] \in Inodes /\ f \in Seq(Line) /\ j \in 1 .. j
    BY <1>2, <1>6, FileIs, SMTT(30)
  <2>2. \A p \in 1 .. Len(f) : Unread(s, dir[j], p)
    BY <1>1, <2>1 DEF Unread
  <2>3. \A k \in 1 .. Len(hist[s]), m \in 1 .. Len(f) : Before(hist[s][k], f[m])
    BY <2>1, <2>2 DEF OrderInv, Ahead
  <2>4. \A m, n \in 1 .. Len(f) : m < n => Before(f[m], f[n])
    BY <2>1 DEF OrderInv, FileOrder
  <2> HIDE DEF f
  <2>5. /\ InOrder(s)'
        /\ \A k \in 1 .. Len(hist'[s]) :
             \/ k \in 1 .. Len(hist[s]) /\ hist'[s][k] = hist[s][k]
             \/ \E m \in 1 .. Len(f) : hist'[s][k] = f[m]
    BY <1>6, <2>1, <2>3, <2>4, JoinOrder DEF OrderInv
  <2>6. Ahead(s)'
    <3> SUFFICES ASSUME NEW i \in Inodes, NEW p \in 1 .. Len(files[i]),
                        NEW k \in 1 .. Len(hist'[s]), Unread(s, i, p)'
                 PROVE  Before(hist'[s][k], files[i][p])
      BY <1>1 DEF Ahead, Inodes
    <3>1. Unread(s, i, p) /\ dir[j] < i
      BY <1>4, <1>6
    <3>2. \A m \in 1 .. Len(hist[s]) : Before(hist[s][m], files[i][p])
      BY <3>1 DEF OrderInv, Ahead
    <3>3. \A m \in 1 .. Len(f) : Before(f[m], files[i][p])
      BY <2>1, <3>1 DEF OrderInv, FileOrder, f
    <3> QED BY <2>5, <3>2, <3>3
  <2> QED BY <2>5, <2>6
<1> QED BY <1>3, <1>5, <1>6

(* The memory of a shell stays in order with each of its steps.            *)
LEMMA MemoryOrder ==
  ASSUME NoOpenFailure, NEW s \in Shells,
         TypeInv, LockInv, FdInv, NamesInv, LineInv, OrderInv, Act(s)
  PROVE  Ahead(s)' /\ InOrder(s)'
<1>1. CASE Release(s) \/ Crash(s)
  <2>1. hist'[s] = <<>>
    BY <1>1 DEF Release, Crash, TypeInv, TypeOK, ShellType
  <2>2. 1 .. Len(hist'[s]) = {}
    BY <2>1, EmptySeq
  <2> QED BY <2>2 DEF Ahead, InOrder
<1>2. CASE Write(s)
  BY <1>2, WriteOrder
<1>3. CASE CheckRead(s)
  BY <1>3, ReadOrder
<1>4. CASE OpenLoad(s)
  BY <1>4, LoadOrder
<1>5. CASE ~Write(s) /\ ~CheckRead(s) /\ ~OpenLoad(s) /\ ~Release(s) /\ ~Crash(s)
  <2>1. UNCHANGED hist
    BY <1>5
    DEF Act, Call, Step, Check, Log, Rotate, Open, Start, LogHistory,
        PushHistory, BreakHistory, FlushHistory, IdleTick, RotateHistory,
        CheckStat, CheckOld, CheckReopen, WriteStat,
        RotStat, RotLock, RotCheck, RotQuit, RotScan, RotShift, RotCur,
        RotUnlock, RotFail, OpenLock, OpenFile, OpenUnlock
  <2>2. InOrder(s)'
    BY <2>1 DEF OrderInv, InOrder
  <2>3. ~Writes(s)
    <3>1. pc[s] = "write" => Write(s)
      BY <1>5
      DEF Act, Call, Step, Check, Log, Rotate, Open, Start, LogHistory, Begin,
          PushHistory, BreakHistory, FlushHistory, IdleTick, RotateHistory,
          CheckStat, CheckOld, CheckReopen, WriteStat,
          RotStat, RotLock, RotCheck, RotQuit, RotScan, RotShift, RotCur,
          RotUnlock, RotFail, OpenLock, OpenFile, OpenUnlock
    <3> QED BY <1>5, <3>1 DEF Writes
  <2>4. Ahead(s)'
    <3> SUFFICES ASSUME NEW i \in Inodes', NEW p \in 1 .. Len(files'[i]),
                        NEW k \in 1 .. Len(hist[s]), Unread(s, i, p)'
                 PROVE  Before(hist[s][k], files'[i][p])
      BY <2>1 DEF Ahead
    <3>1. i \in Inodes /\ p \in 1 .. Len(files[i]) /\ files'[i][p] = files[i][p]
      BY <2>3, LinesStep
    <3>2. Unread(s, i, p) \/ hist[s] = <<>>
      BY <1>5, <3>1, UnreadStep DEF OrderInv
    <3>3. hist[s] # <<>>
      BY EmptySeq
    <3> QED BY <3>1, <3>2, <3>3 DEF OrderInv, Ahead
  <2> QED BY <2>2, <2>4
<1> QED BY <1>1, <1>2, <1>3, <1>4, <1>5

(* A shell that moves to a younger file, or writes to the one it has open, *)
(* still has none of its lines in a younger file.                          *)
LEMMA OwnStep ==
  ASSUME NoOpenFailure, NEW s \in Shells,
         TypeInv, LockInv, FdInv, NamesInv, OwnOK(s), KnowsOK(s), Act(s)
  PROVE  OwnOK(s)'
<1> USE DEF TypeInv, TypeOK, ControlType, ShellType
<1>0. /\ fd[s] \in Inodes \cup {0} /\ Len(files) \in Nat /\ 0 \notin Inodes
      /\ dir[0] \in {0, Len(files)}
  BY LinesAre DEF Inodes, NamesInv, NamesOK
<1> SUFFICES ASSUME NEW i \in Inodes', NEW p \in 1 .. Len(files'[i]),
                    fd'[s] # 0, files'[i][p][1] = s
             PROVE  i <= fd'[s]
  BY DEF OwnOK
<1>1. i \in Inodes /\ i \in Nat /\ i <= Len(files)
  <2>1. i \in Inodes
    BY LinesStep
  <2> QED BY <1>0, <2>1 DEF Inodes
<1>2. \/ i = fd[s]
      \/ p \in 1 .. Len(files[i]) /\ files'[i][p] = files[i][p]
  BY LinesStep
<1>3. CASE fd'[s] = fd[s]
  BY <1>0, <1>1, <1>2, <1>3 DEF OwnOK, Inodes
<1>4. CASE fd'[s] # fd[s] /\ fd'[s] # 0
  <2>1. \/ CheckReopen(s) /\ fd'[s] = dir[0]
        \/ OpenUnlock(s) /\ fd'[s] = loc[s].afd
    BY <1>4
    DEF Act, Call, Step, Check, Log, Rotate, Open, Start, Release, LogHistory,
        PushHistory, BreakHistory, FlushHistory, IdleTick, RotateHistory,
        CheckStat, CheckOld, CheckRead, CheckReopen, Write, WriteStat,
        RotStat, RotLock, RotCheck, RotQuit, RotScan, RotShift, RotCur,
        RotUnlock, RotFail, OpenLock, OpenFile, OpenLoad, OpenUnlock, Crash,
        open, Attach, Close
  <2>2. OpenUnlock(s) => loc[s].afd = dir[0]
    BY DEF OpenUnlock, NamesInv, PlaceOK
  <2>3. fd'[s] = Len(files)
    BY <1>0, <1>4, <2>1, <2>2
  <2> QED BY <1>1, <2>3
<1> QED BY <1>3, <1>4

(* What a shell finds out about the name is true.                          *)
LEMMA KnowsStep ==
  ASSUME NoOpenFailure, NEW s \in Shells,
         TypeInv, LockInv, FdInv, NamesInv, KnowsOK(s), Act(s)
  PROVE  KnowsOK(s)'
<1> USE DEF TypeInv, TypeOK, ControlType, ShellType
<1>1. ASSUME pc'[s] \notin {"chkOld", "chkReopen", "rotQuit", "chkRead", "rotLock", "rotCheck"}
      PROVE  KnowsOK(s)'
  BY <1>1 DEF KnowsOK
<1>2. CASE CheckStat(s)
  <2>1. \/ pc'[s] \in {"write", "idle", "rotStat"}
        \/ pc'[s] = "chkRead" /\ ~loc'[s].moved
        \/ pc'[s] = "chkOld" /\ dir[0] # fd[s]
    BY <1>2 DEF CheckStat, AfterCheck, Goto, Done, Keep, Locals
  <2>2. dir' = dir /\ fd' = fd
    BY <1>2 DEF CheckStat, disk, open
  <2> QED BY <2>1, <2>2 DEF KnowsOK
<1>3. CASE CheckOld(s) \/ CheckRead(s)
  <2>1. \/ pc'[s] \in {"write", "idle", "rotStat"}
        \/ /\ pc'[s] \in {"chkReopen", "chkRead"}
           /\ pc[s] = "chkOld" \/ (pc[s] = "chkRead" /\ loc[s].moved)
    BY <1>3 DEF CheckOld, CheckRead, AfterCheck, Goto, Done
  <2>2. dir' = dir /\ fd' = fd
    BY <1>3 DEF CheckOld, CheckRead, disk, open
  <2> QED BY <2>1, <2>2 DEF KnowsOK
<1>4. CASE RotStat(s)
  <2>1. \/ pc'[s] \in {"idle", "openLock"}
        \/ /\ pc'[s] = "rotLock" /\ dir[0] # 0
           /\ loc'[s].x = Len(files[dir[0]])
    BY <1>4 DEF RotStat, Goto, Done, Keep, Locals
  <2>2. dir' = dir /\ files' = files
    BY <1>4 DEF RotStat, disk
  <2>3. dir[0] # 0 => Len(files[dir[0]]) \in Nat
    <3>1. dir[0] \in Inodes \cup {0}
      BY ConstantsAssumption DEF DiskType, Names
    <3> QED BY <3>1, LinesAre
  <2> QED BY <2>1, <2>2, <2>3 DEF KnowsOK
<1>5. CASE RotLock(s)
  <2>1. pc[s] = "rotLock" /\ (pc'[s] = "idle" \/ (pc'[s] = "rotCheck" /\ loc' = loc))
    BY <1>5 DEF RotLock, Goto, Done
  <2>2. dir' = dir /\ files' = files /\ fd' = fd
    BY <1>5 DEF RotLock, disk, open
  <2> QED BY <2>1, <2>2 DEF KnowsOK
<1>6. CASE RotCheck(s)
  <2>1. /\ pc[s] = "rotCheck"
        /\ \/ pc'[s] \in {"rotFail", "rotScan"}
           \/ pc'[s] = "rotQuit" /\ dir[0] # 0 /\ loc[s].x > Len(files[dir[0]])
    BY <1>6 DEF RotCheck, Goto
  <2>2. dir' = dir /\ fd' = fd
    BY <1>6 DEF RotCheck, disk, open
  <2>3. dir[0] # 0 => Len(files[dir[0]]) \in Nat
    <3>1. dir[0] \in Inodes \cup {0}
      BY ConstantsAssumption DEF DiskType, Names
    <3> QED BY <3>1, LinesAre
  <2>4. loc[s].x \in Nat
    BY DEF Locals
  <2>5. loc[s].x > Len(files[dir[0]]) /\ dir[0] # 0 => dir[0] # fd[s]
    BY <2>1, <2>3, <2>4 DEF KnowsOK
  <2> QED BY <2>1, <2>2, <2>5 DEF KnowsOK
<1>7. CASE ~CheckStat(s) /\ ~CheckOld(s) /\ ~CheckRead(s) /\ ~RotStat(s)
           /\ ~RotLock(s) /\ ~RotCheck(s)
  <2>1. CASE RotScan(s)
    BY <1>1, <2>1 DEF RotScan, Goto
  <2>2. CASE RotShift(s)
    BY <1>1, <2>2 DEF RotShift, Goto
  <2>3. CASE OpenFile(s)
    BY <1>1, <2>3 DEF OpenFile, Goto
  <2>4. CASE ~RotScan(s) /\ ~RotShift(s) /\ ~OpenFile(s)
    <3>1. pc'[s] \notin {"chkOld", "chkReopen", "rotQuit", "chkRead", "rotLock", "rotCheck"}
      BY <1>7, <2>4
      DEF Act, Call, Step, Check, Log, Rotate, Open, Start, Release, LogHistory,
          PushHistory, BreakHistory, FlushHistory, IdleTick, RotateHistory,
          CheckReopen, Write, WriteStat, RotQuit, RotCur,
          RotUnlock, RotFail, OpenLock, OpenLoad, OpenUnlock, Crash,
          Goto, Done, AfterCheck, OpenFailed, CallLog, Begin
    <3> QED BY <1>1, <3>1
  <2> QED BY <2>1, <2>2, <2>3, <2>4
<1> QED BY <1>2, <1>3, <1>4, <1>5, <1>6, <1>7

(* A shell that starts has nothing in its memory until it loads.           *)
LEMMA StartStep ==
  ASSUME NEW s \in Shells, TypeInv, StartOK(s), Act(s)
  PROVE  StartOK(s)'
<1> USE DEF TypeInv, TypeOK, ControlType, ShellType
<1>1. CASE Start(s)
  <2>1. pc[s] = "off" /\ hist' = hist
    BY <1>1 DEF Start
  <2> QED BY <2>1 DEF StartOK
<1>2. CASE Release(s) \/ Crash(s)
  <2>1. hist'[s] = <<>>
    BY <1>2 DEF Release, Crash
  <2> QED BY <2>1 DEF StartOK
<1>3. CASE RotStat(s) \/ RotQuit(s) \/ RotUnlock(s)
  <2>1. \/ pc'[s] \in {"idle", "rotLock"}
        \/ /\ pc'[s] = "openLock"
           /\ \/ loc'[s] = [NoLocals EXCEPT !.opn = "reopen"]
              \/ loc'[s] = [NoLocals EXCEPT !.opn = "rotate"]
    BY <1>3 DEF RotStat, RotQuit, RotUnlock, Goto, Keep, Done
  <2>2. /\ [NoLocals EXCEPT !.opn = "reopen"].opn = "reopen"
        /\ [NoLocals EXCEPT !.opn = "rotate"].opn = "rotate"
    BY DEF NoLocals
  <2> QED BY <2>1, <2>2 DEF StartOK
<1>4. CASE OpenLock(s)
  <2>1. /\ pc[s] = "openLock" /\ hist' = hist
        /\ pc'[s] \in {"idle", "rotUndo"} \/ (pc'[s] = "openFile" /\ loc' = loc)
    BY <1>4 DEF OpenLock, OpenFailed, Goto, Done
  <2> QED BY <2>1 DEF StartOK
<1>5. CASE ~Start(s) /\ ~Release(s) /\ ~Crash(s) /\ ~RotStat(s) /\ ~RotQuit(s)
           /\ ~RotUnlock(s) /\ ~OpenLock(s)
  <2>1. CASE RotScan(s)
    BY <2>1 DEF RotScan, Goto, StartOK
  <2>2. CASE RotShift(s)
    BY <2>2 DEF RotShift, Goto, StartOK
  <2>3. CASE OpenFile(s)
    BY <2>3 DEF OpenFile, Goto, StartOK
  <2>4. CASE ~RotScan(s) /\ ~RotShift(s) /\ ~OpenFile(s)
    <3>1. pc'[s] \notin {"off", "openLock", "openFile"}
      BY <1>5, <2>4
      DEF Act, Call, Step, Check, Log, Rotate, Open, LogHistory,
          PushHistory, BreakHistory, FlushHistory, IdleTick, RotateHistory,
          CheckStat, CheckOld, CheckRead, CheckReopen, Write, WriteStat,
          RotLock, RotCheck, RotCur, RotFail, OpenLoad, OpenUnlock,
          Goto, Done, AfterCheck, OpenFailed, CallLog, Begin
    <3> QED BY <3>1 DEF StartOK
  <2> QED BY <2>1, <2>2, <2>3, <2>4
<1> QED BY <1>1, <1>2, <1>3, <1>4, <1>5

(* The files and the memories agree in every state.                        *)
LEMMA OrderInvariant ==
  ASSUME NoOpenFailure
  PROVE  Spec => []OrderInv
<1>1. Init => OrderInv
  <2> SUFFICES ASSUME Init
               PROVE  OrderInv
    OBVIOUS
  <2>1. Inodes = {} /\ \A s \in Shells : hist[s] = <<>> /\ pc[s] = "off" /\ Len(hist[s]) = 0
    BY EmptySeq DEF Init, Inodes
  <2> QED BY <2>1 DEF OrderInv, FileOrder, Ahead, InOrder, OwnOK, KnowsOK, StartOK
<1>2. StoreInv /\ OrderInv /\ [Next]_vars => OrderInv'
  <2> SUFFICES ASSUME StoreInv, OrderInv, [Next]_vars
               PROVE  OrderInv'
    OBVIOUS
  <2>0. TypeInv /\ LockInv /\ FdInv /\ NamesInv /\ LineInv
    BY DEF StoreInv
  <2>1. ASSUME NEW s \in Shells, Act(s)
        PROVE  OrderInv'
    <3>1. FileOrder'
      BY <2>0, <2>1, FileOrderStep DEF OrderInv
    <3>2. Ahead(s)' /\ InOrder(s)'
      BY <2>0, <2>1, MemoryOrder
    <3>3. OwnOK(s)' /\ KnowsOK(s)' /\ StartOK(s)'
      BY <2>0, <2>1, OwnStep, KnowsStep, StartStep DEF OrderInv
    <3>4. ASSUME NEW t \in Shells \ {s}
          PROVE  Ahead(t)' /\ InOrder(t)' /\ OwnOK(t)' /\ KnowsOK(t)' /\ StartOK(t)'
      BY <2>0, <2>1, OthersStep
    <3> QED BY <3>1, <3>2, <3>3, <3>4 DEF OrderInv
  <2>2. CASE RemoveStaleLock \/ UNCHANGED vars
    <3>1. UNCHANGED <<files, dir, pc, fd, fsize, hist, loc>>
      BY <2>2 DEF RemoveStaleLock, vars, disk, open
    <3> QED BY <3>1 DEF OrderInv, FileOrder, Ahead, Unread, InOrder, OwnOK,
                        KnowsOK, StartOK, Inodes
  <2> QED BY <2>1, <2>2 DEF Next, Act
<1> QED BY <1>1, <1>2, StoreInvariant, PTL DEF Spec

(* The lines of an author are in the memory of every shell in the order in *)
(* which they were logged, whatever files open_history and check_history   *)
(* read them from, and whatever is renamed between two of their calls.     *)
THEOREM LoadsInOrder ==
  ASSUME NoOpenFailure
  PROVE  Spec => []LoadedInOrder
<1>1. OrderInv => LoadedInOrder
  BY DEF OrderInv, InOrder, Before, LoadedInOrder
<1> QED BY <1>1, OrderInvariant, PTL

(* No shell has a line twice in its memory: what open_history loads, what  *)
(* check_history reads and what the shell logs itself never overlap.       *)
THEOREM LoadsOnce ==
  ASSUME NoOpenFailure
  PROVE  Spec => []LoadedOnce
<1>1. StoreInv /\ OrderInv => LoadedOnce
  <2> SUFFICES ASSUME StoreInv, OrderInv,
                      NEW s \in Shells, NEW i \in 1 .. Len(hist[s]), NEW k \in 1 .. Len(hist[s]),
                      hist[s][i] = hist[s][k]
               PROVE  i = k
    BY DEF LoadedOnce
  <2>1. hist[s][i][2] \in Nat /\ Len(hist[s]) \in Nat
    BY LinesAre DEF StoreInv
  <2>2. ~(i < k) /\ ~(k < i)
    BY <2>1 DEF OrderInv, InOrder, Before
  <2> QED BY <2>1, <2>2
<1> QED BY <1>1, StoreInvariant, OrderInvariant, PTL
=============================================================================
