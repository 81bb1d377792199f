--------------------------- MODULE HistStoreProofs --------------------------
(***************************************************************************)
(* HistFile implements HistStore (StoreRefined), for any number of shells, *)
(* lines, rotations and names, whatever shells are killed and whatever     *)
(* writes and renames fail, as long as no shell gives up on the lock or on *)
(* an open: no rotation loses a line.  And a shell in an automatic         *)
(* rotation has a full file open (BeginsFull), whatever fails but the      *)
(* writes.                                                                 *)
(***************************************************************************)
EXTENDS HistFileProofs

(* Where a shell has no file open.                                         *)
Closed == {"off", "rotUnlock", "openLock", "openFile", "openLoad", "openUnlock"}
FdInv == \A s \in Shells : fd[s] = 0 <=> pc[s] \in Closed

(* The names go from the youngest file, filename, to the oldest; every     *)
(* file has a name, and what rotate_history renames to is free.            *)
NamesOK ==
  /\ dir[0] \in {0, Len(files)}
  /\ \A m, n \in Names : m < n /\ dir[m] # 0 /\ dir[n] # 0 => dir[n] < dir[m]
  /\ \A i \in Inodes : \E n \in Names : dir[n] = i
PlaceOK(s) ==
  /\ pc[s] = "rotShift" => dir[loc[s].j + 1] = 0
  /\ pc[s] = "rotCur" => dir[1] = 0
  /\ pc[s] \in {"openLoad", "openUnlock"} => loc[s].afd = dir[0]
NamesInv == NamesOK /\ \A s \in Shells : PlaceOK(s)

(* What the step of one shell leaves alone in the memory of the others.    *)
FrameRest(s) == \A t \in Shells \ {s} :
  /\ fsize'[t] = fsize[t] /\ cnt'[t] = cnt[t]
  /\ rot'[t] = rot[t] /\ hist'[t] = hist[t]

(* The step of a shell does not move what another shell has read.          *)
LEMMA FrameRestStep ==
  ASSUME NEW s \in Shells, TypeOK, Act(s)
  PROVE  FrameRest(s)
<1> USE DEF TypeOK, ShellType, FrameRest, Close, Attach, open
<1>1. CASE Call(s)
  BY <1>1 DEF Call, Start, Release, LogHistory, PushHistory, BreakHistory,
              FlushHistory, IdleTick, RotateHistory
<1>2. CASE Check(s)
  BY <1>2 DEF Check, CheckStat, CheckOld, CheckRead, CheckReopen
<1>3. CASE Log(s)
  BY <1>3 DEF Log, Write, WriteStat
<1>4. CASE Rotate(s)
  BY <1>4 DEF Rotate, RotStat, RotLock, RotCheck, RotQuit, RotScan, RotShift,
              RotCur, RotUnlock, RotFail
<1>5. CASE Open(s)
  BY <1>5 DEF Open, OpenFile, OpenLock, OpenLoad, OpenUnlock
<1>6. CASE Crash(s)
  BY <1>6 DEF Crash
<1> QED BY <1>1, <1>2, <1>3, <1>4, <1>5, <1>6 DEF Act, Step

(* What a step does to the disk: it leaves it alone, adds a line at the    *)
(* end of the file that is open, moves a name up by one, or makes a file.  *)
Leaves0 == UNCHANGED <<files, dir>>
Writes(s) ==
  /\ pc[s] = "write" /\ fd[s] # 0
  /\ files' = [files EXCEPT ![fd[s]] = Append(@, loc[s].arg)]
  /\ UNCHANGED dir
Moves(s, j) ==
  /\ (pc[s] = "rotShift" /\ j = loc[s].j) \/ (pc[s] = "rotCur" /\ j = 0)
  /\ dir[j] # 0 /\ Rename(j, j + 1)
  /\ UNCHANGED files
Creates(s) ==
  /\ pc[s] = "openFile" /\ dir[0] = 0
  /\ files' = Append(files, <<>>)
  /\ dir' = [dir EXCEPT ![0] = Len(files) + 1]

(* These are all the ways in which a step changes the disk.                *)
LEMMA DiskStep ==
  ASSUME NEW s \in Shells, TypeInv, Act(s)
  PROVE  \/ Leaves0 \/ Writes(s) \/ Creates(s)
         \/ \E j \in 0 .. MaxName - 1 : Moves(s, j)
<1> USE DEF disk, Leaves0
<1>1. CASE Call(s)
  BY <1>1 DEF Call, Start, Release, LogHistory, PushHistory, BreakHistory,
              FlushHistory, IdleTick, RotateHistory
<1>2. CASE Check(s)
  BY <1>2 DEF Check, CheckStat, CheckOld, CheckRead, CheckReopen
<1>3. CASE Log(s)
  BY <1>3 DEF Log, Write, WriteStat, Writes
<1>4. CASE RotShift(s)
  <2>1. loc[s].j \in 0 .. MaxName - 1
    BY DEF TypeInv, TypeOK, ControlType, Locals
  <2>2. Leaves0 \/ Moves(s, loc[s].j)
    BY <1>4 DEF RotShift, Moves
  <2> QED BY <2>1, <2>2
<1>5. CASE RotCur(s)
  <2>1. 0 \in 0 .. MaxName - 1 /\ 0 + 1 = 1
    BY ConstantsAssumption
  <2>2. Leaves0 \/ Moves(s, 0)
    BY <1>5, <2>1 DEF RotCur, Moves
  <2> QED BY <2>1, <2>2
<1>6. CASE \/ RotStat(s) \/ RotLock(s) \/ RotCheck(s) \/ RotQuit(s)
           \/ RotScan(s) \/ RotUnlock(s) \/ RotFail(s)
  BY <1>6 DEF RotStat, RotLock, RotCheck, RotQuit, RotScan, RotUnlock, RotFail
<1>7. CASE OpenFile(s)
  BY <1>7 DEF OpenFile, Creates
<1>8. CASE OpenLock(s) \/ OpenLoad(s) \/ OpenUnlock(s)
  BY <1>8 DEF OpenLock, OpenLoad, OpenUnlock
<1>9. CASE Crash(s)
  BY <1>9 DEF Crash
<1> QED BY <1>1, <1>2, <1>3, <1>4, <1>5, <1>6, <1>7, <1>8, <1>9
        DEF Act, Step, Rotate, Open

(* A shell has a file open except while it is off or opens one.            *)
LEMMA FdOpenStep ==
  ASSUME NoOpenFailure, NEW s \in Shells, TypeInv, LockInv, FdInv, Act(s)
  PROVE  FdInv'
<1> USE DEF TypeInv, TypeOK, ControlType, ShellType, LockInv, FdInv, Closed,
            LockHeld, Goto, Done, open, Close, Attach
<1>1. fd'[s] = 0 <=> pc'[s] \in Closed
  <2>1. CASE Call(s)
    BY <2>1 DEF Call, Start, Release, LogHistory, PushHistory, BreakHistory,
                FlushHistory, IdleTick, RotateHistory, CallLog, Begin
  <2>2. CASE Check(s)
    BY <2>2 DEF Check, CheckStat, CheckOld, CheckRead, CheckReopen, AfterCheck
  <2>3. CASE Log(s)
    BY <2>3 DEF Log, Write, WriteStat
  <2>4. CASE RotStat(s) \/ RotLock(s) \/ RotCheck(s) \/ RotQuit(s)
    BY <2>4 DEF RotStat, RotLock, RotCheck, RotQuit, NoOpenFailure
  <2>5. CASE RotScan(s)
    <3>1. pc[s] = "rotScan" /\ UNCHANGED fd
      BY <2>5 DEF RotScan
    <3>2. pc'[s] \in {"rotCur", "rotShift"}
      BY <2>5 DEF RotScan
    <3> QED BY <3>1, <3>2
  <2>6. CASE RotShift(s)
    <3>1. pc[s] = "rotShift" /\ UNCHANGED fd
      BY <2>6 DEF RotShift
    <3>2. pc'[s] \in {"rotCur", "rotShift", "rotFail"}
      BY <2>6 DEF RotShift
    <3> QED BY <3>1, <3>2
  <2>7. CASE RotCur(s) \/ RotUnlock(s) \/ RotFail(s)
    BY <2>7 DEF RotCur, RotUnlock, RotFail
  <2>8. CASE OpenLock(s)
    BY <2>8 DEF OpenLock, GiveUp, NoOpenFailure
  <2>9. CASE OpenFile(s)
    <3>1. pc[s] = "openFile" /\ UNCHANGED fd
      BY <2>9 DEF OpenFile
    <3>2. pc'[s] \in {"openLoad", "openUnlock"}
      BY <2>9 DEF OpenFile
    <3> QED BY <3>1, <3>2
  <2>10. CASE OpenLoad(s) \/ OpenUnlock(s)
    BY <2>10 DEF OpenLoad, OpenUnlock
  <2>11. CASE Crash(s)
    BY <2>11 DEF Crash
  <2> QED BY <2>1, <2>2, <2>3, <2>4, <2>5, <2>6, <2>7, <2>8, <2>9, <2>10, <2>11
          DEF Act, Step, Rotate, Open
<1>2. Frame(s)
  BY FrameStep
<1> QED BY <1>1, <1>2 DEF Frame

(* An assignment to one local leaves the others as they are.               *)
LEMMA LocalsKeep ==
  ASSUME NEW l \in Locals, NEW v
  PROVE  /\ [l EXCEPT !.j = v].j = v /\ [l EXCEPT !.afd = v].afd = v
         /\ [l EXCEPT !.j = v].afd = l.afd
         /\ \A k : [l EXCEPT !.afd = v, !.j = k].afd = v
  BY DEF Locals

(* An assignment to a file does not change how many there are.            *)
LEMMA LenExcept ==
  ASSUME NEW S, NEW F \in Seq(S), NEW i, NEW v
  PROVE  Len([F EXCEPT ![i] = v]) = Len(F)
OBVIOUS

(* What moves in the names keeps them ordered, and every file named.       *)
LEMMA NamesStep ==
  ASSUME NEW s \in Shells, TypeInv, NamesInv, Act(s)
  PROVE  NamesOK'
<1> USE DEF TypeInv, TypeOK, DiskType, NamesOK, Inodes
<1>0. /\ Len(files) \in Nat /\ NamesOK /\ dir \in [Names -> Inodes \cup {0}]
      /\ 0 \in Names /\ Names \subseteq Nat
  <2>1. Len(files) \in Nat
    BY LenProperties
  <2>2. 0 \in Names /\ Names \subseteq Nat
    BY ConstantsAssumption DEF Names
  <2> QED BY <2>1, <2>2 DEF NamesInv
<1>1. CASE Leaves0
  BY <1>0, <1>1 DEF Leaves0
<1>2. CASE Writes(s)
  <2>1. Len(files') = Len(files) /\ dir' = dir
    BY <1>2, LenExcept DEF Writes
  <2> QED BY <1>0, <2>1
<1>3. CASE Creates(s)
  <2>1. Len(files') = Len(files) + 1
    BY <1>3, NewFile, Zenon DEF Creates
  <2>2. dir' = [dir EXCEPT ![0] = Len(files) + 1] /\ dir[0] = 0
    BY <1>3 DEF Creates
  <2>3. dir'[0] = Len(files')
    BY <1>0, <2>1, <2>2
  <2>4. \A m, n \in Names : m < n /\ dir'[m] # 0 /\ dir'[n] # 0 => dir'[n] < dir'[m]
    BY <1>0, <2>2
  <2>5. \A i \in Inodes' : \E n \in Names : dir'[n] = i
    <3>1. \A i \in Inodes : \E n \in Names : n # 0 /\ dir[n] = i
      BY <1>0, <2>2
    <3>2. \A n \in Names : n # 0 => dir'[n] = dir[n]
      BY <1>0, <2>2
    <3>3. Inodes' = Inodes \cup {Len(files')}
      BY <1>0, <2>1
    <3> QED BY <1>0, <2>3, <3>1, <3>2, <3>3
  <2> QED BY <2>3, <2>4, <2>5
<1>4. ASSUME NEW j \in 0 .. MaxName - 1, Moves(s, j)
      PROVE  NamesOK'
  <2>1. /\ j \in Names /\ j + 1 \in Names /\ dir[j + 1] = 0
        /\ files' = files
    <3>1. j \in Names /\ j + 1 \in Names /\ 0 + 1 = 1
      BY ConstantsAssumption DEF Names
    <3> QED BY <1>4, <3>1 DEF Moves, NamesInv, PlaceOK
  <2>2. /\ dir' = [dir EXCEPT ![j + 1] = dir[j], ![j] = 0]
        /\ dir[j] # 0
    BY <1>4 DEF Moves, Rename
  <2>3. /\ dir'[j + 1] = dir[j] /\ dir'[j] = 0
        /\ \A n \in Names : n \notin {j, j + 1} => dir'[n] = dir[n]
    BY <1>0, <2>1, <2>2
  <2>4. dir'[0] \in {0, Len(files)}
    BY <1>0, <2>1, <2>3
  <2>5. ASSUME NEW m \in Names, NEW n \in Names, m < n, dir'[m] # 0, dir'[n] # 0
        PROVE  dir'[n] < dir'[m]
    <3>1. m \in Int /\ n \in Int /\ j \in Int
      BY DEF Names
    <3>2. \A a, b \in Names : a < b /\ dir[a] # 0 /\ dir[b] # 0 => dir[b] < dir[a]
      BY <1>0
    <3>3. CASE m = j + 1
      <4>1. j < n /\ dir'[m] = dir[j] /\ dir'[n] = dir[n]
        BY <2>3, <2>5, <3>1, <3>3
      <4> QED BY <2>1, <2>2, <2>5, <3>2, <4>1
    <3>4. CASE n = j + 1
      <4>1. m < j /\ dir'[m] = dir[m] /\ dir'[n] = dir[j]
        BY <2>3, <2>5, <3>1, <3>4
      <4> QED BY <2>1, <2>2, <2>5, <3>2, <4>1
    <3>5. CASE m # j + 1 /\ n # j + 1
      <4>1. dir'[m] = dir[m] /\ dir'[n] = dir[n]
        BY <2>3, <2>5, <3>5
      <4> QED BY <2>5, <3>2, <4>1
    <3> QED BY <3>3, <3>4, <3>5
  <2>6. \A i \in Inodes : \E n \in Names : dir'[n] = i
    BY <1>0, <2>1, <2>2, <2>3
  <2> QED BY <2>1, <2>4, <2>5, <2>6
<1> QED BY <1>1, <1>2, <1>3, <1>4, DiskStep

(* A shell that changes the names holds the lock.                          *)
LEMMA NamesHeld ==
  ASSUME NEW s \in Shells, TypeInv, Act(s), dir' # dir
  PROVE  pc[s] \in LockHeld
BY DiskStep DEF Leaves0, Writes, Creates, Moves, LockHeld

(* What a shell that holds the lock knows of the names stays true.         *)
LEMMA PlaceStep ==
  ASSUME NoOpenFailure, NEW s \in Shells, TypeInv, LockInv, NamesInv, Act(s)
  PROVE  \A t \in Shells : PlaceOK(t)'
<1> USE DEF TypeInv, TypeOK, ControlType
<1>1. ASSUME NEW t \in Shells \ {s}
      PROVE  PlaceOK(t)'
  <2>1. pc'[t] = pc[t] /\ loc'[t] = loc[t]
    BY FrameStep DEF Frame
  <2>2. pc[t] \in LockHeld => dir' = dir
    BY NamesHeld DEF LockInv, MutualExclusion
  <2> QED BY <2>1, <2>2 DEF PlaceOK, NamesInv, LockHeld
<1>2. PlaceOK(s)'
  <2>1. CASE RotScan(s)
    <3>1. PICK i \in 1 .. MaxName :
            /\ FirstFree(i)
            /\ pc' = [pc EXCEPT ![s] = IF i = 1 THEN "rotCur" ELSE "rotShift"]
            /\ loc' = [loc EXCEPT ![s] = [loc[s] EXCEPT !.j = i - 1]]
      BY <2>1 DEF RotScan, Goto, Keep
    <3>2. loc'[s].j = i - 1 /\ loc'[s].j + 1 = i /\ dir[i] = 0 /\ dir' = dir
      BY <2>1, <3>1, LocalsKeep DEF FirstFree, RotScan, disk
    <3>3. pc'[s] = IF i = 1 THEN "rotCur" ELSE "rotShift"
      BY <3>1
    <3> QED BY <3>2, <3>3 DEF PlaceOK
  <2>2. CASE RotShift(s)
    <3> DEFINE j == loc[s].j
    <3>1. CASE pc'[s] = "rotFail"
      BY <3>1 DEF PlaceOK
    <3>2. CASE pc'[s] # "rotFail"
      <4>1. /\ Rename(j, j + 1)
            /\ pc' = [pc EXCEPT ![s] = IF j = 1 THEN "rotCur" ELSE "rotShift"]
            /\ loc' = [loc EXCEPT ![s] = [loc[s] EXCEPT !.j = j - 1]]
        BY <2>2, <3>2 DEF RotShift, Goto, Keep
      <4>2. j \in Names /\ j \in Int
        BY ConstantsAssumption DEF Locals, Names
      <4>3. dir'[j] = 0
        BY <4>1, <4>2 DEF Rename, DiskType
      <4>4. loc'[s].j = j - 1 /\ loc'[s].j + 1 = j
        BY <4>1, <4>2, LocalsKeep
      <4>5. pc'[s] = IF j = 1 THEN "rotCur" ELSE "rotShift"
        BY <4>1
      <4> QED BY <4>3, <4>4, <4>5 DEF PlaceOK
    <3> QED BY <3>1, <3>2
  <2>3. CASE OpenFile(s)
    <3>1. pc'[s] \in {"openLoad", "openUnlock"}
      BY <2>3 DEF OpenFile, Goto
    <3>2. loc'[s].afd = dir'[0]
      <4>1. \/ \E i \in 1 .. MaxName : Keep(s, [loc[s] EXCEPT !.afd = dir[0], !.j = i - 1])
                                     /\ dir' = dir
            \/ Keep(s, [loc[s] EXCEPT !.afd = dir[0]]) /\ dir' = dir
            \/ /\ Keep(s, [loc[s] EXCEPT !.afd = Len(files) + 1])
               /\ dir' = [dir EXCEPT ![0] = Len(files) + 1]
        BY <2>3, Zenon DEF OpenFile, disk, NoOpenFailure
      <4>2. 0 \in Names /\ dir \in [Names -> Inodes \cup {0}]
        BY ConstantsAssumption DEF Names, DiskType
      <4>5. ASSUME NEW i, Keep(s, [loc[s] EXCEPT !.afd = dir[0], !.j = i - 1])
            PROVE  loc'[s].afd = dir[0]
        BY <4>5, LocalsKeep DEF Keep
      <4>6. ASSUME NEW v, Keep(s, [loc[s] EXCEPT !.afd = v])
            PROVE  loc'[s].afd = v
        BY <4>6, LocalsKeep DEF Keep
      <4>7. \/ loc'[s].afd = dir[0] /\ dir' = dir
            \/ /\ loc'[s].afd = Len(files) + 1
               /\ dir' = [dir EXCEPT ![0] = Len(files) + 1]
        BY <4>1, <4>5, <4>6
      <4> QED BY <4>2, <4>7
    <3> QED BY <3>1, <3>2 DEF PlaceOK
  <2>4. CASE OpenLoad(s)
    <3>1. pc[s] = "openLoad" /\ dir' = dir /\ pc'[s] \in {"openLoad", "openUnlock"}
      BY <2>4 DEF OpenLoad, disk, Goto
    <3>2. loc'[s].afd = loc[s].afd
      <4>1. UNCHANGED loc \/ loc' = [loc EXCEPT ![s] = [loc[s] EXCEPT !.j = loc[s].j - 1]]
        BY <2>4 DEF OpenLoad, Keep
      <4>2. loc[s] \in Locals
        OBVIOUS
      <4>3. [loc[s] EXCEPT !.j = loc[s].j - 1].afd = loc[s].afd
        BY <4>2, LocalsKeep
      <4> QED BY <4>1, <4>3
    <3> QED BY <3>1, <3>2 DEF PlaceOK, NamesInv
  <2>5. CASE ~RotScan(s) /\ ~RotShift(s) /\ ~OpenFile(s) /\ ~OpenLoad(s)
    <3>1. pc'[s] \notin {"rotShift", "rotCur", "openLoad", "openUnlock"}
      BY <2>5
      DEF Act, Call, Step, Check, Log, Rotate, Open, Start, Release, LogHistory,
          PushHistory, BreakHistory, FlushHistory, IdleTick, RotateHistory,
          CheckStat, CheckOld, CheckRead, CheckReopen, Write, WriteStat,
          RotStat, RotLock, RotCheck, RotQuit, RotCur,
          RotUnlock, RotFail, OpenLock, OpenUnlock, Crash,
          Goto, Done, AfterCheck, OpenFailed, CallLog, Begin
    <3> QED BY <3>1 DEF PlaceOK
  <2> QED BY <2>1, <2>2, <2>3, <2>4, <2>5
<1> QED BY <1>1, <1>2

(* The lines in the files, and those in the memory of the shells.          *)
Filed == {l \in Line : \E i \in Inodes : \E p \in 1 .. Len(files[i]) : files[i][p] = l}
Recalled == {l \in Line : \E t \in Shells : \E k \in 1 .. Len(hist[t]) : hist[t][k] = l}

(* A line that is being logged is its author's latest one, and is in no    *)
(* file and no memory before its write; one that was written is in a file. *)
ArgOK(s) == loc[s].arg # Blank =>
  /\ loc[s].arg[1] = s /\ loc[s].arg[2] <= used.logs
  /\ pc[s] # "stat" =>
       \A l \in Filed \cup Recalled : l[1] = s => l[2] < loc[s].arg[2]
OkOK(s) == loc[s].ok => pc[s] = "stat" /\ loc[s].arg \in Filed
LineInv ==
  /\ \A l \in Filed \cup Recalled : l[2] <= used.logs
  /\ \A s \in Shells : ArgOK(s) /\ OkOK(s)

(* What the creation of a file does to the sequence of them.               *)
LEMMA NewFileIs ==
  ASSUME NEW F \in Seq(Seq(Line))
  PROVE  /\ Len(Append(F, <<>>)) = Len(F) + 1
         /\ \A i \in 1 .. Len(F) : Append(F, <<>>)[i] = F[i]
         /\ Append(F, <<>>)[Len(F) + 1] = <<>>
<1> DEFINE S == Seq(Line)
<1>1. <<>> \in S /\ F \in Seq(S)
  BY EmptySeq
<1> HIDE DEF S
<1> QED BY <1>1, AppendProperties

(* An element of a sequence that is assigned has the value assigned.       *)
LEMMA ExceptAt ==
  ASSUME NEW S, NEW F \in Seq(S), NEW i \in 1 .. Len(F), NEW v
  PROVE  [F EXCEPT ![i] = v][i] = v
OBVIOUS

(* A write makes a file longer by the line that is logged.                 *)
LEMMA AppendLen ==
  ASSUME NEW S, NEW q \in Seq(S), NEW v
  PROVE  Len(Append(q, v)) = Len(q) + 1
OBVIOUS

(* The write puts the line that is logged into the files, nothing else     *)
(* changes what lines are in them.                                         *)
LEMMA FiledStep ==
  ASSUME NEW s \in Shells, TypeInv, Act(s)
  PROVE  \/ Writes(s) /\ Filed' = Filed \cup {loc[s].arg}
         \/ ~Writes(s) /\ Filed' = Filed
<1> USE DEF TypeInv, TypeOK, DiskType, Inodes, Filed
<1>0. Len(files) \in Nat /\ files \in Seq(Seq(Line))
  BY LenProperties
<1>1. CASE Writes(s)
  <2> DEFINE f == files[fd[s]]
             arg == loc[s].arg
  <2>1. fd[s] \in Inodes
    BY <1>1 DEF Writes, ShellType
  <2>2. arg \in Line
    BY <1>1 DEF Writes, PointInv, PointOK, ControlType, Locals
  <2>3. f \in Seq(Line) /\ Append(f, arg) \in Seq(Line)
    BY <2>1, <2>2
  <2>4. /\ Len(files') = Len(files)
        /\ \A i \in Inodes : files'[i] = IF i = fd[s] THEN Append(f, arg) ELSE files[i]
    BY <1>1, <2>1, <2>3, ExceptSeq DEF Writes
  <2>5. /\ Len(Append(f, arg)) = Len(f) + 1
        /\ \A p \in 1 .. Len(f) : Append(f, arg)[p] = f[p]
        /\ Append(f, arg)[Len(f) + 1] = arg
        /\ Len(f) \in Nat
    BY <2>2, <2>3
  <2> HIDE DEF f, arg
  <2>6. arg \in Filed'
    <3>1. /\ fd[s] \in Inodes' /\ Len(f) + 1 \in 1 .. Len(files'[fd[s]])
          /\ files'[fd[s]][Len(f) + 1] = arg
      <4>1. files'[fd[s]] = Append(f, arg) /\ fd[s] \in Inodes'
        BY <2>1, <2>4
      <4>2. Len(f) + 1 \in 1 .. Len(f) + 1
        BY <2>5
      <4> QED BY <2>5, <4>1, <4>2
    <3> QED BY <2>2, <3>1
  <2>7. \A l \in Filed : l \in Filed'
    <3> SUFFICES ASSUME NEW i \in Inodes, NEW p \in 1 .. Len(files[i]), files[i][p] \in Line
                 PROVE  files[i][p] \in Filed'
      OBVIOUS
    <3>1. /\ i \in Inodes' /\ p \in 1 .. Len(files'[i])
          /\ files'[i][p] = files[i][p]
      <4>1. CASE i = fd[s]
        <5>1. files[i] = f /\ files'[i] = Append(f, arg)
          BY <2>4, <4>1 DEF f
        <5> QED BY <2>4, <2>5, <5>1
      <4>2. CASE i # fd[s]
        BY <2>4, <4>2
      <4> QED BY <4>1, <4>2
    <3> QED BY <3>1
  <2>8. \A l \in Filed' : l \in Filed \cup {arg}
    <3> SUFFICES ASSUME NEW i \in Inodes', NEW p \in 1 .. Len(files'[i]), files'[i][p] \in Line
                 PROVE  files'[i][p] \in Filed \cup {arg}
      OBVIOUS
    <3>0. i \in Inodes
      BY <2>4
    <3>1. CASE i = fd[s]
      <4>1. files[i] = f /\ files'[i] = Append(f, arg)
        BY <2>4, <3>0, <3>1 DEF f
      <4>2. p \in 1 .. Len(f) \/ p = Len(f) + 1
        BY <2>5, <4>1
      <4>3. p \in 1 .. Len(f) => files'[i][p] = files[i][p] /\ p \in 1 .. Len(files[i])
        BY <2>5, <4>1
      <4> QED BY <2>5, <3>0, <4>1, <4>2, <4>3
    <3>2. CASE i # fd[s]
      BY <2>4, <3>0, <3>2
    <3> QED BY <3>1, <3>2
  <2> QED BY <1>1, <2>6, <2>7, <2>8 DEF arg
<1>2. CASE Creates(s)
  <2>1. /\ Len(files') = Len(files) + 1
        /\ \A i \in 1 .. Len(files) : files'[i] = files[i]
        /\ files'[Len(files) + 1] = <<>>
    BY <1>0, <1>2, NewFileIs, Zenon DEF Creates
  <2>2. Len(<<>>) = 0
    BY EmptySeq
  <2>3. /\ Inodes' = Inodes \cup {Len(files) + 1}
        /\ 1 .. Len(files'[Len(files) + 1]) = {}
        /\ \A i \in Inodes : files'[i] = files[i]
    BY <1>0, <2>1, <2>2
  <2>4. Filed' = Filed
    BY <2>3
  <2> QED BY <1>2, <2>4 DEF Creates, Writes
<1>3. CASE UNCHANGED files
  <2>1. ~Writes(s)
    <3> SUFFICES ASSUME Writes(s) PROVE FALSE
      OBVIOUS
    <3>1. fd[s] \in Inodes
      BY DEF Writes, ShellType
    <3>2. Len(Append(files[fd[s]], loc[s].arg)) = Len(files[fd[s]]) + 1
      BY <1>0, <3>1, AppendLen
    <3>3. files[fd[s]] = Append(files[fd[s]], loc[s].arg)
      BY <1>0, <1>3, <3>1, ExceptAt DEF Writes
    <3>4. Len(files[fd[s]]) \in Nat
      BY <1>0, <3>1
    <3> QED BY <3>2, <3>3, <3>4
  <2> QED BY <1>3, <2>1
<1> QED BY <1>1, <1>2, <1>3, DiskStep DEF Leaves0, Moves

(* A file, and the rest of it that is not read, hold lines.                *)
LEMMA FileIs ==
  ASSUME TypeInv, NEW i \in Inodes, NEW n \in Nat
  PROVE  /\ files[i] \in Seq(Line) /\ Len(files[i]) \in Nat
         /\ SubSeq(files[i], n + 1, Len(files[i])) \in Seq(Line)
         /\ Len(SubSeq(files[i], n + 1, Len(files[i])))
              = IF n <= Len(files[i]) THEN Len(files[i]) - n ELSE 0
         /\ \A k \in 1 .. Len(SubSeq(files[i], n + 1, Len(files[i]))) :
              /\ n + k \in 1 .. Len(files[i])
              /\ SubSeq(files[i], n + 1, Len(files[i]))[k] = files[i][n + k]
<1> DEFINE f == files[i]
           r == SubSeq(f, n + 1, Len(f))
<1>1. f \in Seq(Line)
  BY DEF TypeInv, TypeOK, DiskType, Inodes
<1>2. Len(f) \in Nat /\ \A k \in 1 .. Len(f) : f[k] \in Line
  BY <1>1, ElementOfSeq
<1> HIDE DEF f
<1>3. /\ n + 1 \in Int /\ Len(f) \in Int
      /\ \A k \in n + 1 .. Len(f) : f[k] \in Line
  BY <1>2
<1>4. /\ r \in Seq(Line)
      /\ Len(r) = IF n + 1 <= Len(f) THEN Len(f) - (n + 1) + 1 ELSE 0
      /\ \A k \in 1 .. Len(f) - (n + 1) + 1 : r[k] = f[n + 1 + k - 1]
  BY <1>3, SubSeqProperties
<1>5. Len(r) = IF n <= Len(f) THEN Len(f) - n ELSE 0
  BY <1>2, <1>4
<1> HIDE DEF r
<1>6. ASSUME NEW k \in 1 .. Len(r)
      PROVE  n + k \in 1 .. Len(f) /\ r[k] = f[n + k]
  <2>1. n <= Len(f) /\ k \in 1 .. Len(f) - n
    BY <1>2, <1>5, <1>6
  <2>2. k \in 1 .. Len(f) - (n + 1) + 1 /\ n + 1 + k - 1 = n + k
    BY <1>2, <2>1
  <2> QED BY <1>2, <1>4, <2>1, <2>2
<1> QED BY <1>1, <1>2, <1>4, <1>5, <1>6 DEF f, r

(* What a step does to the memory of the shell: nothing, it is gone, the   *)
(* line that is logged is added, the rest of the file that is open is      *)
(* read, or a rotated file is loaded.                                      *)
Forgets(s) == hist' = [hist EXCEPT ![s] = <<>>]
Remembers(s) ==
  /\ pc[s] = "write" /\ loc[s].arg \in Line
  /\ hist' = [hist EXCEPT ![s] = Append(@, loc[s].arg)]
Reads(s) ==
  /\ pc[s] = "chkRead" /\ fd[s] \in Inodes
  /\ LET new == SubSeq(files[fd[s]], fsize[s] + 1, Len(files[fd[s]]))
     IN  hist' = [hist EXCEPT ![s] = @ \o new]
Loads(s) ==
  /\ pc[s] = "openLoad" /\ loc[s].j \in 1 .. MaxName - 1
  /\ dir[loc[s].j] \in Inodes
  /\ hist' = [hist EXCEPT ![s] = @ \o files[dir[loc[s].j]]]

(* These are all the ways in which a step changes a memory.                *)
LEMMA MemoryStep ==
  ASSUME NEW s \in Shells, TypeInv, Act(s)
  PROVE  UNCHANGED hist \/ Forgets(s) \/ Remembers(s) \/ Reads(s) \/ Loads(s)
<1>1. CASE CheckRead(s)
  <2>1. fd[s] \in Inodes
    BY <1>1 DEF CheckRead, TypeInv, TypeOK, ShellType, PointInv, PointOK
  <2> QED BY <1>1, <2>1 DEF CheckRead, Reads
<1>2. CASE Write(s)
  <2>1. loc[s].arg \in Line \cup {Blank}
    BY DEF TypeInv, TypeOK, ControlType, Locals
  <2>2. loc[s].arg \in Line
    BY <1>2, <2>1 DEF Write, TypeInv, PointInv, PointOK
  <2> QED BY <1>2, <2>2 DEF Write, Remembers
<1>3. CASE OpenLoad(s)
  <2>1. loc[s].j \in 0 .. MaxName - 1
    BY DEF TypeInv, TypeOK, ControlType, Locals
  <2>2. loc[s].j > 0 => loc[s].j \in 1 .. MaxName - 1 /\ loc[s].j \in Names
    BY <2>1, ConstantsAssumption DEF Names
  <2>3. UNCHANGED hist \/ /\ loc[s].j > 0 /\ dir[loc[s].j] # 0
                          /\ hist' = [hist EXCEPT ![s] = @ \o files[dir[loc[s].j]]]
    BY <1>3 DEF OpenLoad
  <2>4. loc[s].j \in Names => dir[loc[s].j] \in Inodes \cup {0}
    BY DEF TypeInv, TypeOK, DiskType
  <2>5. pc[s] = "openLoad"
    BY <1>3 DEF OpenLoad
  <2> QED BY <2>2, <2>3, <2>4, <2>5 DEF Loads
<1>4. CASE ~CheckRead(s) /\ ~Write(s) /\ ~OpenLoad(s)
  BY <1>4
    DEF Act, Call, Step, Check, Log, Rotate, Open, Start, Release, LogHistory,
        PushHistory, BreakHistory, FlushHistory, IdleTick, RotateHistory,
        CheckStat, CheckOld, CheckReopen, WriteStat,
        RotStat, RotLock, RotCheck, RotQuit, RotScan, RotShift, RotCur,
        RotUnlock, RotFail, OpenLock, OpenFile, OpenUnlock, Crash, Forgets
<1> QED BY <1>1, <1>2, <1>3, <1>4

(* The lines of two sequences that are joined.                             *)
LEMMA Joined ==
  ASSUME NEW q \in Seq(Line), NEW r \in Seq(Line)
  PROVE  /\ Len(q) \in Nat /\ Len(r) \in Nat
         /\ q \o r \in Seq(Line) /\ Len(q \o r) = Len(q) + Len(r)
         /\ \A k \in 1 .. Len(q) : (q \o r)[k] = q[k]
         /\ \A k \in 1 .. Len(q \o r) : k > Len(q) =>
              k - Len(q) \in 1 .. Len(r) /\ (q \o r)[k] = r[k - Len(q)]
<1>1. Len(q) \in Nat /\ Len(r) \in Nat /\ q \o r \in Seq(Line)
  BY LenProperties
<1>2. /\ Len(q \o r) = Len(q) + Len(r)
      /\ \A k \in 1 .. Len(q) + Len(r) :
           (q \o r)[k] = IF k <= Len(q) THEN q[k] ELSE r[k - Len(q)]
  BY ConcatProperties
<1> QED BY <1>1, <1>2

(* A shell knows no line that was neither in a memory nor in a file,       *)
(* except the one that it logs.                                            *)
LEMMA RecalledStep ==
  ASSUME NEW s \in Shells, TypeInv, Act(s)
  PROVE  Recalled' \subseteq Recalled \cup Filed \cup (IF pc[s] = "write" THEN {loc[s].arg} ELSE {})
<1> DEFINE Known == Recalled \cup Filed \cup (IF pc[s] = "write" THEN {loc[s].arg} ELSE {})
<1>0. /\ hist \in [Shells -> Seq(Line)] /\ hist[s] \in Seq(Line)
      /\ \A t \in Shells : \A k \in 1 .. Len(hist[t]) : hist[t][k] \in Recalled
  <2>1. hist \in [Shells -> Seq(Line)]
    BY DEF TypeInv, TypeOK, ShellType
  <2> QED BY <2>1, ElementOfSeq DEF Recalled
<1>1. SUFFICES \A t \in Shells : \A k \in 1 .. Len(hist'[t]) : hist'[t][k] \in Known
  BY DEF Recalled
<1>2. ASSUME NEW t \in Shells \ {s}
      PROVE  \A k \in 1 .. Len(hist'[t]) : hist'[t][k] \in Known
  <2>1. hist'[t] = hist[t]
    BY FrameRestStep DEF FrameRest, TypeInv
  <2> QED BY <1>0, <2>1
<1>3. \A k \in 1 .. Len(hist'[s]) : hist'[s][k] \in Known
  <2>1. CASE UNCHANGED hist
    BY <1>0, <2>1
  <2>2. CASE Forgets(s)
    <3>1. hist'[s] = <<>>
      BY <1>0, <2>2 DEF Forgets
    <3> QED BY <3>1, EmptySeq
  <2>3. CASE Remembers(s)
    <3>1. hist'[s] = Append(hist[s], loc[s].arg) /\ pc[s] = "write"
      BY <1>0, <2>3 DEF Remembers
    <3>2. loc[s].arg \in Line
      BY <2>3 DEF Remembers
    <3>3. \A k \in 1 .. Len(hist'[s]) :
            \/ k \in 1 .. Len(hist[s]) /\ hist'[s][k] = hist[s][k]
            \/ hist'[s][k] = loc[s].arg
      BY <1>0, <3>1, <3>2, AppendProperties
    <3> QED BY <1>0, <3>1, <3>3
  <2>4. ASSUME NEW r \in Seq(Line), \A k \in 1 .. Len(r) : r[k] \in Filed,
               hist' = [hist EXCEPT ![s] = @ \o r]
        PROVE  \A k \in 1 .. Len(hist'[s]) : hist'[s][k] \in Known
    <3>1. hist'[s] = hist[s] \o r
      BY <1>0, <2>4
    <3>2. \A k \in 1 .. Len(hist'[s]) :
            \/ k \in 1 .. Len(hist[s]) /\ hist'[s][k] = hist[s][k]
            \/ \E p \in 1 .. Len(r) : hist'[s][k] = r[p]
      <4>1. \A k \in 1 .. Len(hist'[s]) : k > Len(hist[s]) =>
              k - Len(hist[s]) \in 1 .. Len(r) /\ hist'[s][k] = r[k - Len(hist[s])]
        BY <1>0, <2>4, <3>1, Joined, Zenon
      <4>2. \A k \in 1 .. Len(hist[s]) : hist'[s][k] = hist[s][k]
        BY <1>0, <2>4, <3>1, Joined, Zenon
      <4>3. Len(hist[s]) \in Nat /\ Len(hist'[s]) \in Nat
        BY <1>0, <2>4, <3>1, Joined, LenProperties
      <4> QED BY <4>1, <4>2, <4>3
    <3> QED BY <1>0, <2>4, <3>2
  <2>5. ASSUME NEW i \in Inodes
        PROVE  \A p \in 1 .. Len(files[i]) : files[i][p] \in Filed
    BY <2>5, FileIs, ElementOfSeq DEF Filed
  <2>6. CASE Reads(s)
    <3>1. fsize[s] \in Nat /\ fd[s] \in Inodes
      BY <2>6 DEF Reads, TypeInv, TypeOK, ShellType
    <3>2. /\ SubSeq(files[fd[s]], fsize[s] + 1, Len(files[fd[s]])) \in Seq(Line)
          /\ \A k \in 1 .. Len(SubSeq(files[fd[s]], fsize[s] + 1, Len(files[fd[s]]))) :
               SubSeq(files[fd[s]], fsize[s] + 1, Len(files[fd[s]]))[k] \in Filed
      BY <2>5, <3>1, FileIs, ZenonT(30)
    <3> QED BY <2>4, <2>6, <3>2 DEF Reads
  <2>7. CASE Loads(s)
    <3>1. files[dir[loc[s].j]] \in Seq(Line)
      BY <2>7, FileIs DEF Loads
    <3> QED BY <2>4, <2>5, <2>7, <3>1 DEF Loads
  <2> QED BY <2>1, <2>2, <2>3, <2>6, <2>7, MemoryStep
<1> QED BY <1>2, <1>3

(* What a step does to the line that is logged: the shell drops it, keeps  *)
(* it - up to its write, not beyond the fstat after it -, or begins a new  *)
(* one.                                                                    *)
Drops0(s) == loc'[s].arg = Blank /\ ~loc'[s].ok
KeepsArg(s) ==
  /\ pc[s] # "stat" /\ loc'[s].arg = loc[s].arg
  /\ pc[s] = "write" => pc'[s] = "stat"
  /\ loc'[s].ok => loc[s].ok \/ Writes(s)
Begins(s) ==
  /\ pc[s] = "idle" /\ ~loc'[s].ok
  /\ loc'[s].arg = <<s, used.logs + 1>>
  /\ used'.logs = used.logs + 1

(* Fields of the locals that an assignment to others leaves alone.         *)
LEMMA ArgKept ==
  ASSUME NEW l \in Locals, NEW v
  PROVE  /\ [l EXCEPT !.moved = v].arg = l.arg /\ [l EXCEPT !.moved = v].ok = l.ok
         /\ [l EXCEPT !.x = v].arg = l.arg /\ [l EXCEPT !.x = v].ok = l.ok
         /\ [l EXCEPT !.j = v].arg = l.arg /\ [l EXCEPT !.j = v].ok = l.ok
         /\ [l EXCEPT !.afd = v].arg = l.arg /\ [l EXCEPT !.afd = v].ok = l.ok
         /\ \A k : /\ [l EXCEPT !.afd = v, !.j = k].arg = l.arg
                   /\ [l EXCEPT !.afd = v, !.j = k].ok = l.ok
         /\ [l EXCEPT !.ok = v].arg = l.arg
  BY DEF Locals

(* The locals of an operation that logs a line.                            *)
LEMMA NewLog ==
  ASSUME NEW line
  PROVE  /\ [NoLocals EXCEPT !.ret = "log", !.arg = line].arg = line
         /\ ~[NoLocals EXCEPT !.ret = "log", !.arg = line].ok
  BY DEF NoLocals

(* These are all the ways in which a step changes the line that is logged. *)
LEMMA ArgStep ==
  ASSUME NEW s \in Shells, TypeInv, LineInv, Act(s)
  PROVE  /\ Drops0(s) \/ KeepsArg(s) \/ Begins(s)
         /\ used'.logs \in Nat /\ used.logs \in Nat /\ used.logs <= used'.logs
<1> USE DEF TypeInv, TypeOK, ControlType
<1>0. loc[s] \in Locals /\ loc \in [Shells -> Locals] /\ pc \in [Shells -> PCs]
  OBVIOUS
<1>1. /\ used'.logs \in Nat /\ used.logs \in Nat
      /\ used' = used \/ \E b \in {"logs", "rots", "starts", "pushes"} : Take(b)
  <2>1. used' \in [{"logs", "rots", "starts", "pushes"} -> Nat]
    BY UsedStep
  <2>2. used' = used \/ \E b \in {"logs", "rots", "starts", "pushes"} : Take(b)
    BY DEF Act, Call, Step, Check, Log, Rotate, Open, Start, Release, LogHistory,
           PushHistory, BreakHistory, FlushHistory, IdleTick, RotateHistory,
           CheckStat, CheckOld, CheckRead, CheckReopen, Write, WriteStat,
           RotStat, RotLock, RotCheck, RotQuit, RotScan, RotShift, RotCur,
           RotUnlock, RotFail, OpenLock, OpenFile, OpenLoad, OpenUnlock, Crash
  <2> QED BY <2>1, <2>2 DEF DiskType
<1>2. used.logs <= used'.logs
  BY <1>1 DEF Take, DiskType
<1>3. Keep(s, NoLocals) => Drops0(s)
  BY <1>0 DEF Keep, NoLocals, Drops0
<1>4. \A v : \/ Keep(s, [NoLocals EXCEPT !.opn = v])
            \/ Keep(s, [NoLocals EXCEPT !.ret = v])
            \/ Keep(s, [NoLocals EXCEPT !.auto = v]) => Drops0(s)
  BY <1>0 DEF Keep, NoLocals, Drops0
<1>5. Done(s) => Drops0(s)
  BY <1>3 DEF Done
<1>6. ASSUME pc[s] \notin {"stat", "write"}, loc'[s].arg = loc[s].arg, loc'[s].ok = loc[s].ok
      PROVE  KeepsArg(s)
  BY <1>6 DEF KeepsArg
<1>7. pc[s] \notin {"stat", "write"} /\ UNCHANGED loc => KeepsArg(s)
  BY <1>6
<1>8. ASSUME NEW r, AfterCheck(s, r), pc[s] \notin {"stat", "write"}
      PROVE  Drops0(s) \/ KeepsArg(s)
  BY <1>4, <1>5, <1>7, <1>8, Zenon DEF AfterCheck
<1>9. CASE LogHistory(s) \/ FlushHistory(s)
  <2>1. \/ CallLog(s, Blank)
        \/ CallLog(s, <<s, used.logs + 1>>) /\ Take("logs")
    BY <1>9 DEF LogHistory, FlushHistory
  <2>2. CASE CallLog(s, Blank)
    <3>1. loc'[s] = [NoLocals EXCEPT !.ret = "log", !.arg = Blank]
      BY <1>0, <2>2 DEF CallLog, Keep
    <3>2. Drops0(s)
      BY <3>1, NewLog DEF Drops0
    <3> QED BY <1>1, <1>2, <3>2
  <2>3. CASE CallLog(s, <<s, used.logs + 1>>) /\ Take("logs")
    <3>1. used'.logs = used.logs + 1
      BY <2>3 DEF Take, DiskType
    <3>2. pc[s] = "idle"
      BY <1>9 DEF LogHistory, FlushHistory, Begin
    <3>3. loc'[s].arg = <<s, used.logs + 1>> /\ ~loc'[s].ok
      <4>1. loc'[s] = [NoLocals EXCEPT !.ret = "log", !.arg = <<s, used.logs + 1>>]
        BY <1>0, <2>3 DEF CallLog, Keep
      <4> QED BY <4>1, NewLog
    <3> QED BY <1>1, <1>2, <3>1, <3>2, <3>3 DEF Begins
  <2> QED BY <1>1, <1>2, <2>1, <2>2, <2>3
<1>10. CASE \/ Start(s) \/ Release(s) \/ PushHistory(s)
            \/ BreakHistory(s) \/ IdleTick(s) \/ RotateHistory(s)
  <2>1. \/ Keep(s, [NoLocals EXCEPT !.opn = "start"])
        \/ Keep(s, [NoLocals EXCEPT !.ret = "tick"])
        \/ pc[s] = "idle" /\ UNCHANGED loc
    BY <1>10, Zenon DEF Start, Release, PushHistory, BreakHistory, IdleTick, RotateHistory, Begin
  <2> QED BY <1>1, <1>2, <1>4, <1>7, <2>1
<1>11. CASE Check(s)
  <2>1. pc[s] \notin {"stat", "write"}
    BY <1>11 DEF Check, CheckStat, CheckOld, CheckRead, CheckReopen
  <2>2. \/ UNCHANGED loc \/ \E r : AfterCheck(s, r)
        \/ \E v : Keep(s, [loc[s] EXCEPT !.moved = v])
    BY <1>11, Zenon DEF Check, CheckStat, CheckOld, CheckRead, CheckReopen
  <2>3. ASSUME NEW v, Keep(s, [loc[s] EXCEPT !.moved = v])
        PROVE  KeepsArg(s)
    <3>1. loc'[s] = [loc[s] EXCEPT !.moved = v]
      BY <1>0, <2>3 DEF Keep
    <3> QED BY <1>0, <1>6, <2>1, <3>1, ArgKept
  <2> QED BY <1>1, <1>2, <1>7, <1>8, <2>1, <2>2, <2>3
<1>12. CASE WriteStat(s)
  BY <1>1, <1>2, <1>5, <1>12 DEF WriteStat
<1>13. CASE Write(s)
  <2>1. pc[s] = "write"
    BY <1>13 DEF Write
  <2>2. CASE Done(s)
    BY <1>1, <1>2, <1>5, <2>2
  <2>3. CASE Goto(s, "stat") /\ UNCHANGED loc
    <3>1. pc'[s] = "stat"
      BY <1>0, <2>3 DEF Goto
    <3> QED BY <1>1, <1>2, <2>1, <2>3, <3>1 DEF KeepsArg
  <2>4. CASE Writes(s) /\ Goto(s, "stat") /\ Keep(s, [loc[s] EXCEPT !.ok = TRUE])
    <3>1. pc'[s] = "stat" /\ loc'[s] = [loc[s] EXCEPT !.ok = TRUE]
      BY <1>0, <2>4 DEF Goto, Keep
    <3>2. loc'[s].arg = loc[s].arg
      BY <1>0, <3>1, ArgKept
    <3> QED BY <1>1, <1>2, <2>1, <2>4, <3>1, <3>2 DEF KeepsArg
  <2> QED BY <1>13, <2>2, <2>3, <2>4 DEF Write, Writes
<1>14. CASE Rotate(s)
  <2>1. pc[s] \notin {"stat", "write"}
    BY <1>14 DEF Rotate, RotStat, RotLock, RotCheck, RotQuit, RotScan, RotShift,
                 RotCur, RotUnlock, RotFail
  <2>2. \/ UNCHANGED loc \/ Done(s)
        \/ \E v : \/ Keep(s, [NoLocals EXCEPT !.opn = v])
                 \/ Keep(s, [loc[s] EXCEPT !.x = v])
                 \/ Keep(s, [loc[s] EXCEPT !.j = v])
    BY <1>14, Zenon DEF Rotate, RotStat, RotLock, RotCheck, RotQuit, RotScan, RotShift,
                        RotCur, RotUnlock, RotFail
  <2>3. ASSUME NEW v, Keep(s, [loc[s] EXCEPT !.x = v]) \/ Keep(s, [loc[s] EXCEPT !.j = v])
        PROVE  KeepsArg(s)
    <3>1. loc'[s] = [loc[s] EXCEPT !.x = v] \/ loc'[s] = [loc[s] EXCEPT !.j = v]
      BY <1>0, <2>3 DEF Keep
    <3>2. /\ [loc[s] EXCEPT !.x = v].arg = loc[s].arg /\ [loc[s] EXCEPT !.x = v].ok = loc[s].ok
          /\ [loc[s] EXCEPT !.j = v].arg = loc[s].arg /\ [loc[s] EXCEPT !.j = v].ok = loc[s].ok
      BY <1>0, ArgKept
    <3>3. loc'[s].arg = loc[s].arg /\ loc'[s].ok = loc[s].ok
      BY <3>1, <3>2, Zenon
    <3> QED BY <1>6, <2>1, <3>3
  <2> QED BY <1>1, <1>2, <1>4, <1>5, <1>7, <2>1, <2>2, <2>3
<1>15. CASE Open(s)
  <2>1. pc[s] \notin {"stat", "write"}
    BY <1>15 DEF Open, OpenLock, OpenFile, OpenLoad, OpenUnlock
  <2>2. \/ UNCHANGED loc \/ Done(s)
        \/ \E v : \/ Keep(s, [NoLocals EXCEPT !.ret = v])
                 \/ Keep(s, [loc[s] EXCEPT !.afd = v])
                 \/ Keep(s, [loc[s] EXCEPT !.j = v])
                 \/ \E k : Keep(s, [loc[s] EXCEPT !.afd = v, !.j = k])
    BY <1>15, Zenon DEF Open, OpenLock, OpenFile, OpenLoad, OpenUnlock, OpenFailed
  <2>3. ASSUME NEW v, NEW k, \/ Keep(s, [loc[s] EXCEPT !.afd = v])
                            \/ Keep(s, [loc[s] EXCEPT !.j = v])
                            \/ Keep(s, [loc[s] EXCEPT !.afd = v, !.j = k])
        PROVE  KeepsArg(s)
    <3>1. \/ loc'[s] = [loc[s] EXCEPT !.afd = v]
          \/ loc'[s] = [loc[s] EXCEPT !.j = v]
          \/ loc'[s] = [loc[s] EXCEPT !.afd = v, !.j = k]
      BY <1>0, <2>3 DEF Keep
    <3>2. /\ [loc[s] EXCEPT !.afd = v].arg = loc[s].arg /\ [loc[s] EXCEPT !.afd = v].ok = loc[s].ok
          /\ [loc[s] EXCEPT !.j = v].arg = loc[s].arg /\ [loc[s] EXCEPT !.j = v].ok = loc[s].ok
          /\ [loc[s] EXCEPT !.afd = v, !.j = k].arg = loc[s].arg
          /\ [loc[s] EXCEPT !.afd = v, !.j = k].ok = loc[s].ok
      BY <1>0, ArgKept
    <3>3. loc'[s].arg = loc[s].arg /\ loc'[s].ok = loc[s].ok
      BY <3>1, <3>2, Zenon
    <3> QED BY <1>6, <2>1, <3>3
  <2> QED BY <1>1, <1>2, <1>4, <1>5, <1>7, <2>1, <2>2, <2>3
<1>16. CASE Crash(s)
  BY <1>1, <1>2, <1>3, <1>16 DEF Crash
<1> QED BY <1>9, <1>10, <1>11, <1>12, <1>13, <1>14, <1>15, <1>16
        DEF Act, Call, Step, Log

(* A new line is beyond all the lines before it, and goes on being.        *)
LEMMA LineStep ==
  ASSUME NEW s \in Shells, TypeInv, LineInv, Act(s)
  PROVE  LineInv'
<1> DEFINE Known == Filed \cup Recalled
           arg == loc[s].arg
<1>1. /\ Drops0(s) \/ KeepsArg(s) \/ Begins(s)
      /\ used'.logs \in Nat /\ used.logs \in Nat /\ used.logs <= used'.logs
  BY ArgStep
<1>2. /\ Filed \subseteq Filed'
      /\ Writes(s) => arg \in Filed'
      /\ Known' \subseteq Known \cup (IF pc[s] = "write" THEN {arg} ELSE {})
  <2>1. Writes(s) => pc[s] = "write"
    BY DEF Writes
  <2> QED BY <2>1, FiledStep, RecalledStep
<1>3. pc[s] = "write" => arg # Blank /\ arg[1] = s /\ arg[2] <= used.logs
  BY DEF TypeInv, PointInv, PointOK, LineInv, ArgOK
<1>4. /\ \A l \in Known : l[1] \in Shells /\ l[2] \in Nat /\ l[2] <= used.logs
      /\ pc[s] = "write" => arg[2] \in Nat
  <2>1. Known \subseteq Line
    BY DEF Filed, Recalled
  <2>2. pc[s] = "write" => arg \in Line
    BY <1>3 DEF TypeInv, TypeOK, ControlType, Locals
  <2> QED BY <2>1, <2>2 DEF Line, LineInv
<1> HIDE DEF Known, arg
<1>5. \A l \in Known' : l[2] \in Nat /\ l[2] <= used'.logs
  BY <1>1, <1>2, <1>3, <1>4
<1>6. ASSUME NEW t \in Shells \ {s}
      PROVE  ArgOK(t)' /\ OkOK(t)'
  <2>1. pc'[t] = pc[t] /\ loc'[t] = loc[t]
    BY FrameStep DEF Frame, TypeInv
  <2>2. ArgOK(t) /\ OkOK(t)
    BY DEF LineInv
  <2>3. loc[t].arg # Blank => loc[t].arg[2] \in Nat
    BY DEF TypeInv, TypeOK, ControlType, Locals, Line
  <2>4. ArgOK(t)'
    <3>1. \A l \in Known' : l[1] = t => l \in Known
      BY <1>2, <1>3
    <3>2. loc[t].arg # Blank => loc[t].arg[2] <= used'.logs
      BY <1>1, <2>2, <2>3 DEF ArgOK
    <3> QED BY <2>1, <2>2, <3>1, <3>2 DEF ArgOK, Known
  <2>5. OkOK(t)'
    BY <1>2, <2>1, <2>2 DEF OkOK
  <2> QED BY <2>4, <2>5
<1>7. ArgOK(s)' /\ OkOK(s)'
  <2>1. CASE Drops0(s)
    BY <2>1 DEF Drops0, ArgOK, OkOK
  <2>2. CASE KeepsArg(s)
    <3>1. ArgOK(s) /\ OkOK(s)
      BY DEF LineInv
    <3>2. OkOK(s)'
      <4>1. Writes(s) => pc[s] = "write"
        BY DEF Writes
      <4> QED BY <1>2, <2>2, <3>1, <4>1 DEF KeepsArg, OkOK, arg
    <3>3. arg # Blank => arg[2] \in Nat
      BY DEF TypeInv, TypeOK, ControlType, Locals, Line, arg
    <3>4. arg # Blank => arg[2] <= used'.logs
      BY <1>1, <3>1, <3>3 DEF ArgOK, arg
    <3>5. pc'[s] # "stat" => Known' \subseteq Known
      BY <1>2, <2>2 DEF KeepsArg
    <3>6. ArgOK(s)'
      BY <2>2, <3>1, <3>4, <3>5 DEF KeepsArg, ArgOK, Known, arg
    <3> QED BY <3>2, <3>6
  <2>3. CASE Begins(s)
    <3>1. /\ loc'[s].arg = <<s, used.logs + 1>> /\ ~loc'[s].ok
          /\ used'.logs = used.logs + 1 /\ pc[s] = "idle"
      BY <2>3 DEF Begins
    <3>2. Known' \subseteq Known
      BY <1>2, <3>1
    <3>3. \A l \in Known' : l[2] < loc'[s].arg[2]
      BY <1>1, <1>4, <3>1, <3>2
    <3>4. loc'[s].arg[1] = s /\ loc'[s].arg[2] <= used'.logs
      BY <1>1, <3>1
    <3> QED BY <3>1, <3>3, <3>4 DEF ArgOK, OkOK, Known
  <2> QED BY <1>1, <2>1, <2>2, <2>3
<1> QED BY <1>5, <1>6, <1>7 DEF LineInv, Known

(* The invariant of the store.                                             *)
StoreInv == TypeInv /\ LockInv /\ FdInv /\ NamesInv /\ LineInv

(* It holds in every state, as long as no shell gives up on the lock or on *)
(* an open.                                                                *)
LEMMA StoreInvariant ==
  ASSUME NoOpenFailure
  PROVE  Spec => []StoreInv
<1> DEFINE Rest == FdInv /\ NamesInv /\ LineInv
<1>1. Init => Rest
  <2> SUFFICES ASSUME Init
               PROVE  Rest
    OBVIOUS
  <2>1. FdInv
    BY DEF Init, FdInv, Closed
  <2>2. Inodes = {} /\ 0 \in Names
    <3>1. Len(files) = 0
      BY EmptySeq DEF Init
    <3> QED BY <3>1, ConstantsAssumption DEF Inodes, Names
  <2>3. NamesInv
    BY <2>2 DEF Init, NamesInv, NamesOK, PlaceOK
  <2>4. Filed = {} /\ Recalled = {}
    <3>1. \A t \in Shells : Len(hist[t]) = 0
      BY EmptySeq DEF Init
    <3> QED BY <2>2, <3>1 DEF Filed, Recalled
  <2>5. LineInv
    BY <2>4 DEF Init, LineInv, ArgOK, OkOK, NoLocals
  <2> QED BY <2>1, <2>3, <2>5
<1>2. TypeInv /\ LockInv /\ Rest /\ [Next]_vars => Rest'
  <2> SUFFICES ASSUME TypeInv, LockInv, Rest, [Next]_vars
               PROVE  Rest'
    OBVIOUS
  <2>1. ASSUME NEW s \in Shells, Act(s)
        PROVE  Rest'
    BY <2>1, FdOpenStep, NamesStep, PlaceStep, LineStep DEF NamesInv
  <2>2. CASE RemoveStaleLock \/ UNCHANGED vars
    <3>1. UNCHANGED <<files, dir, pc, fd, hist, loc, used>>
      BY <2>2 DEF RemoveStaleLock, vars, disk, open
    <3>2. Filed' = Filed /\ Recalled' = Recalled
      BY <3>1 DEF Filed, Recalled, Inodes
    <3> QED BY <3>1, <3>2
            DEF FdInv, NamesInv, NamesOK, PlaceOK, LineInv, ArgOK, OkOK, Inodes
  <2> QED BY <2>1, <2>2 DEF Next, Act
<1>3. TypeInv /\ LockInv /\ Rest => StoreInv
  BY DEF StoreInv
<1> QED BY <1>1, <1>2, <1>3, TypeInvariant, LockInvariant, PTL DEF Spec

(* The lines in the files that still have a name are all there are.        *)
LEMMA OnDiskIs ==
  ASSUME TypeInv, NamesInv
  PROVE  OnDisk = Filed
<1> DEFINE Of(n) == {files[dir[n]][k] : k \in 1 .. Len(files[dir[n]])}
           Named == {m \in Names : dir[m] # 0}
<1>1. OnDisk = UNION {Of(n) : n \in Named}
  BY DEF OnDisk
<1>2. ASSUME NEW l \in Filed
      PROVE  \E n \in Named : l \in Of(n)
  <2>1. PICK i \in Inodes : \E p \in 1 .. Len(files[i]) : files[i][p] = l
    BY DEF Filed
  <2>2. PICK n \in Names : dir[n] = i
    BY DEF NamesInv, NamesOK
  <2>3. n \in Named
    BY <2>2 DEF Inodes
  <2> QED BY <2>1, <2>2, <2>3
<1>3. ASSUME NEW n \in Named, NEW k \in 1 .. Len(files[dir[n]])
      PROVE  files[dir[n]][k] \in Filed
  <2>1. dir[n] \in Inodes
    BY DEF TypeInv, TypeOK, DiskType
  <2>2. files[dir[n]][k] \in Line
    BY <2>1, FileIs, ElementOfSeq
  <2> QED BY <2>1, <2>2 DEF Filed
<1> HIDE DEF Named
<1>4. OnDisk \subseteq Filed
  BY <1>1, <1>3
<1>5. Filed \subseteq OnDisk
  BY <1>1, <1>2
<1> QED BY <1>4, <1>5

(* What log_hist reports: a line that went to the memory of a shell with   *)
(* no file, or the line that is in a file when the fstat after its write   *)
(* returns.  The write itself reports nothing.                             *)
LEMMA ReportStep ==
  ASSUME NEW s \in Shells, TypeInv, FdInv, Act(s), okd' # okd
  PROVE  /\ pc[s] = "stat" /\ loc[s].ok /\ ~Writes(s)
         /\ okd' = okd \cup {loc[s].arg}
<1>1. CASE Write(s)
  <2>1. pc[s] = "write" /\ fd[s] = 0
    BY <1>1 DEF Write
  <2> QED BY <2>1 DEF FdInv, Closed
<1>2. CASE WriteStat(s)
  BY <1>2 DEF WriteStat, Writes
<1>3. CASE ~Write(s) /\ ~WriteStat(s)
  BY <1>3
    DEF Act, Call, Step, Check, Log, Rotate, Open, Start, Release, LogHistory,
        PushHistory, BreakHistory, FlushHistory, IdleTick, RotateHistory,
        CheckStat, CheckOld, CheckRead, CheckReopen,
        RotStat, RotLock, RotCheck, RotQuit, RotScan, RotShift, RotCur,
        RotUnlock, RotFail, OpenLock, OpenFile, OpenLoad, OpenUnlock, Crash
<1> QED BY <1>1, <1>2, <1>3

(* What the shared history files promise to the application (HistStore):   *)
(* whatever shells are killed and whatever writes and renames fail, no     *)
(* line leaves the files by a rotation, each gets there once, and a line   *)
(* that log_hist reported as logged is there - as long as no shell gives   *)
(* up on the lock or on an open.                                           *)
THEOREM StoreRefined ==
  ASSUME NoOpenFailure
  PROVE  Spec => StoreSpec
<1>1. Init => Store!Init
  <2> SUFFICES ASSUME Init
               PROVE  Store!Init
    OBVIOUS
  <2>1. {m \in Names : dir[m] # 0} = {}
    BY DEF Init
  <2> QED BY <2>1 DEF Init, Store!Init, OnDisk
<1>3. StoreInv => OnDisk = Filed
  BY OnDiskIs DEF StoreInv
<1>2. StoreInv /\ (OnDisk = Filed) /\ (OnDisk = Filed)' /\ [Next]_vars
        => [Store!Next]_(<<OnDisk, okd>>)
  <2> SUFFICES ASSUME StoreInv, OnDisk = Filed, (OnDisk = Filed)', [Next]_vars
               PROVE  Store!Next \/ UNCHANGED <<OnDisk, okd>>
    OBVIOUS
  <2>1. OnDisk = Filed /\ OnDisk' = Filed'
    OBVIOUS
  <2>2. ASSUME NEW s \in Shells, Act(s)
        PROVE  Store!Next \/ UNCHANGED <<OnDisk, okd>>
    <3>1. CASE Writes(s)
      <4>1. /\ loc[s].arg # Blank /\ pc[s] = "write"
            /\ loc[s].arg \notin Filed /\ Filed' = Filed \cup {loc[s].arg}
        <5>1. pc[s] = "write" /\ loc[s].arg # Blank /\ loc[s].arg \in Line
          BY <3>1 DEF Writes, StoreInv, TypeInv, PointInv, PointOK, TypeOK, ControlType, Locals
        <5>2. loc[s].arg[1] = s /\ loc[s].arg[2] \in Nat
          BY <5>1 DEF StoreInv, LineInv, ArgOK, Line
        <5>3. \A l \in Filed : l[1] = s => l[2] < loc[s].arg[2]
          BY <5>1 DEF StoreInv, LineInv, ArgOK
        <5>4. ~(loc[s].arg[2] < loc[s].arg[2])
          BY <5>2
        <5> QED BY <2>2, <3>1, <5>1, <5>2, <5>3, <5>4, FiledStep DEF StoreInv
      <4>2. okd' = okd
        BY <2>2, <3>1, ReportStep DEF StoreInv
      <4>3. Store!Append(loc[s].arg) /\ loc[s].arg \in OnDisk'
        BY <2>1, <4>1, <4>2 DEF Store!Append
      <4> QED BY <4>3 DEF Store!Next
    <3>2. CASE ~Writes(s)
      <4>1. OnDisk' = OnDisk
        BY <2>1, <2>2, <3>2, FiledStep DEF StoreInv
      <4>2. CASE okd' # okd
        <5>1. pc[s] = "stat" /\ loc[s].ok /\ okd' = okd \cup {loc[s].arg}
          BY <2>2, <4>2, ReportStep DEF StoreInv
        <5>2. loc[s].arg \in OnDisk
          BY <2>1, <5>1 DEF StoreInv, LineInv, OkOK
        <5>3. Store!Report(loc[s].arg)
          BY <4>1, <5>1, <5>2 DEF Store!Report
        <5> QED BY <5>2, <5>3 DEF Store!Next
      <4> QED BY <4>1, <4>2
    <3> QED BY <3>1, <3>2
  <2>3. CASE RemoveStaleLock \/ UNCHANGED vars
    BY <2>3 DEF RemoveStaleLock, vars, disk, OnDisk
  <2> QED BY <2>2, <2>3 DEF Next, Act
<1> QED BY <1>1, <1>2, <1>3, StoreInvariant, PTL DEF Spec, StoreSpec, Store!Spec

(* No write fails.                                                         *)
NoWriteFailure == "write" \notin Faults

(* What a shell has counted was read of the file that it has open, and a   *)
(* line that was just written is one more; the rotate bit is that of a     *)
(* full file that is open, and it is reset when a rotation begins.         *)
InRotation == {"rotLock", "rotCheck", "rotQuit", "rotScan", "rotShift", "rotCur",
               "rotUnlock", "openLock", "openFile", "openLoad", "openUnlock"}
CountOK(s) ==
  /\ fd[s] # 0 => cnt[s] <= fsize[s] /\ fsize[s] <= Len(files[fd[s]])
  /\ pc[s] = "stat" => loc[s].ok /\ fsize[s] < Len(files[fd[s]])
  /\ rot[s] => fd[s] # 0 /\ Len(files[fd[s]]) >= RotateAt
PassOK(s) ==
  /\ pc[s] \in InRotation \cup {"off"} => ~rot[s]
  /\ pc[s] = "idle" => ~loc[s].auto
  /\ AutoRotating(s) => fd[s] # 0 /\ Len(files[fd[s]]) >= RotateAt
RotInv == \A s \in Shells : CountOK(s) /\ PassOK(s)

(* No step makes a file shorter, and a write makes it longer.              *)
LEMMA FileGrows ==
  ASSUME NEW s \in Shells, TypeInv, Act(s), NEW i \in Inodes
  PROVE  /\ Len(files[i]) \in Nat /\ Len(files'[i]) \in Nat
         /\ Len(files[i]) <= Len(files'[i])
         /\ Writes(s) /\ i = fd[s] => Len(files[i]) < Len(files'[i])
<1> USE DEF TypeInv, TypeOK, DiskType, Inodes
<1>1. Len(files) \in Nat /\ files \in Seq(Seq(Line)) /\ files[i] \in Seq(Line)
      /\ Len(files[i]) \in Nat
  BY LenProperties
<1>2. CASE UNCHANGED files
  <2>1. ~Writes(s)
    <3>1. Writes(s) => /\ fd[s] \in 1 .. Len(files)
                       /\ files[fd[s]] = Append(files[fd[s]], loc[s].arg)
      BY <1>1, <1>2, ExceptAt DEF Writes, ShellType
    <3>2. fd[s] \in 1 .. Len(files) => Len(files[fd[s]]) \in Nat /\ files[fd[s]] \in Seq(Line)
      BY <1>1
    <3> QED BY <3>1, <3>2, AppendLen
  <2> QED BY <1>1, <1>2, <2>1
<1>3. CASE Writes(s)
  <2>1. fd[s] \in 1 .. Len(files)
    BY <1>3 DEF Writes, ShellType
  <2>2. files'[i] = IF i = fd[s] THEN Append(files[i], loc[s].arg) ELSE files[i]
    BY <1>1, <1>3, <2>1, ExceptSeq DEF Writes
  <2>3. Len(Append(files[i], loc[s].arg)) = Len(files[i]) + 1
    BY <1>1, AppendLen
  <2> QED BY <1>1, <2>2, <2>3
<1>4. CASE Creates(s)
  <2>1. files'[i] = files[i]
    BY <1>1, <1>4, NewFileIs, Zenon DEF Creates
  <2> QED BY <1>1, <1>4, <2>1 DEF Creates, Writes
<1> QED BY <1>2, <1>3, <1>4, DiskStep DEF Leaves0, Moves

(* A step that leaves alone what a shell has read and the rotate bit.      *)
SameCount(s) == /\ fd'[s] = fd[s] /\ fsize'[s] = fsize[s]
                /\ cnt'[s] = cnt[s] /\ rot'[s] = rot[s]

(* The count of a shell, and its rotate bit, agree with its file after     *)
(* each of its steps.                                                      *)
LEMMA CountStep ==
  ASSUME NoWriteFailure, NEW s \in Shells, TypeInv, CountOK(s), PassOK(s), Act(s)
  PROVE  CountOK(s)'
<1> USE DEF TypeInv, TypeOK, ControlType, ShellType
<1>0. /\ fd[s] \in Inodes \cup {0} /\ fsize[s] \in Nat /\ cnt[s] \in Nat
      /\ rot[s] \in BOOLEAN
      /\ 0 \in Names /\ dir[0] \in Inodes \cup {0}
      /\ RotateAt \in Nat /\ 0 \notin Inodes
  <2>1. /\ fd[s] \in Inodes \cup {0} /\ fsize[s] \in Nat /\ cnt[s] \in Nat
        /\ rot[s] \in BOOLEAN
    OBVIOUS
  <2>2. 0 \in Names /\ RotateAt \in Nat
    BY ConstantsAssumption DEF Names
  <2>3. dir[0] \in Inodes \cup {0}
    BY <2>2 DEF DiskType
  <2>4. 0 \notin Inodes
    BY DEF Inodes
  <2> QED BY <2>1, <2>2, <2>3, <2>4
<1>1. \A i \in Inodes : /\ Len(files[i]) \in Nat /\ Len(files'[i]) \in Nat
                        /\ Len(files[i]) <= Len(files'[i])
                        /\ Writes(s) /\ i = fd[s] => Len(files[i]) < Len(files'[i])
  BY FileGrows
<1>2. ASSUME SameCount(s), pc'[s] # "stat"
      PROVE  CountOK(s)'
  BY <1>0, <1>1, <1>2 DEF SameCount, CountOK
<1>3. ASSUME fd'[s] = 0, rot'[s] = FALSE, pc'[s] # "stat"
      PROVE  CountOK(s)'
  BY <1>3 DEF CountOK
<1>4. ASSUME fd'[s] \in Inodes, fsize'[s] = 0, cnt'[s] = 0, rot'[s] = FALSE, pc'[s] # "stat"
      PROVE  CountOK(s)'
  BY <1>1, <1>4 DEF CountOK
<1>5. CASE Call(s)
  <2>1. pc'[s] # "stat"
    BY <1>5 DEF Call, Start, Release, LogHistory, PushHistory, BreakHistory,
                FlushHistory, IdleTick, RotateHistory, CallLog, Goto, Begin
  <2>2. SameCount(s) \/ (fd'[s] = 0 /\ rot'[s] = FALSE)
    BY <1>5 DEF Call, Start, Release, LogHistory, PushHistory, BreakHistory,
                FlushHistory, IdleTick, RotateHistory, SameCount, open, Close
  <2> QED BY <1>2, <1>3, <2>1, <2>2
<1>6. CASE CheckStat(s) \/ CheckOld(s)
  <2>1. pc'[s] # "stat"
    BY <1>6 DEF CheckStat, CheckOld, AfterCheck, Goto, Done
  <2>2. SameCount(s)
    BY <1>6 DEF CheckStat, CheckOld, SameCount, open
  <2> QED BY <1>2, <2>1, <2>2
<1>7. CASE CheckRead(s)
  <2> DEFINE new == SubSeq(files[fd[s]], fsize[s] + 1, Len(files[fd[s]]))
  <2>1. pc[s] = "chkRead" /\ pc'[s] # "stat" /\ fd'[s] = fd[s] /\ rot'[s] = rot[s]
    BY <1>7 DEF CheckRead, AfterCheck, Goto, Done
  <2>2. fd[s] \in Inodes
    BY <1>0, <2>1 DEF PointInv, PointOK
  <2>3. Len(new) = IF fsize[s] <= Len(files[fd[s]]) THEN Len(files[fd[s]]) - fsize[s] ELSE 0
    BY <1>0, <2>2, FileIs
  <2>4. fsize'[s] = fsize[s] + Len(new) /\ cnt'[s] = cnt[s] + Len(new) /\ files' = files
    BY <1>7 DEF CheckRead, disk
  <2> HIDE DEF new
  <2>5. fsize'[s] = Len(files[fd[s]]) /\ cnt'[s] <= fsize'[s]
    BY <1>0, <1>1, <2>2, <2>3, <2>4 DEF CountOK
  <2> QED BY <1>0, <1>1, <2>1, <2>2, <2>4, <2>5 DEF CountOK
<1>8. CASE CheckReopen(s)
  <2>1. pc'[s] # "stat"
    BY <1>8 DEF CheckReopen, AfterCheck, Goto, Done
  <2>2. \/ SameCount(s)
        \/ /\ dir[0] # 0 /\ fd'[s] = dir[0] /\ fsize'[s] = 0 /\ cnt'[s] = 0
           /\ rot'[s] = FALSE
    BY <1>8 DEF CheckReopen, SameCount, open, Attach
  <2> QED BY <1>0, <1>2, <1>4, <2>1, <2>2
<1>9. CASE Write(s)
  <2>1. SameCount(s)
    BY <1>9 DEF Write, SameCount, open
  <2>2. CASE Done(s)
    <3>1. pc'[s] # "stat"
      BY <2>2 DEF Done, Goto
    <3> QED BY <1>2, <2>1, <3>1
  <2>3. CASE Writes(s) /\ Keep(s, [loc[s] EXCEPT !.ok = TRUE])
    <3>1. loc'[s].ok
      BY <2>3 DEF Keep, Locals
    <3>2. fd[s] \in Inodes
      BY <1>0, <2>3 DEF Writes
    <3> QED BY <1>0, <1>1, <2>1, <2>3, <3>1, <3>2 DEF SameCount, CountOK
  <2> QED BY <1>9, <2>2, <2>3 DEF Write, Writes, NoWriteFailure
<1>10. CASE WriteStat(s)
  <2>1. /\ pc[s] = "stat" /\ pc'[s] = "idle" /\ files' = files /\ fd'[s] = fd[s]
        /\ fsize'[s] = Len(files[fd[s]]) /\ cnt'[s] = cnt[s] + 1
        /\ rot'[s] = (rot[s] \/ (loc[s].ok /\ cnt[s] + 1 >= RotateAt))
    BY <1>10 DEF WriteStat, Done, Goto, disk
  <2>2. fd[s] \in Inodes
    BY <1>0, <2>1 DEF PointInv, PointOK
  <2>3. cnt[s] + 1 <= Len(files[fd[s]])
    BY <1>0, <1>1, <2>1, <2>2 DEF CountOK
  <2> QED BY <1>0, <1>1, <2>1, <2>2, <2>3 DEF CountOK
<1>11. CASE Rotate(s)
  <2>1. pc'[s] # "stat"
    BY <1>11 DEF Rotate, RotStat, RotLock, RotCheck, RotQuit, RotScan, RotShift,
                 RotCur, RotUnlock, RotFail, Goto, Done
  <2>2. CASE RotStat(s)
    <3>1. rot'[s] = FALSE /\ (fd'[s] = 0 \/ (fd'[s] = fd[s] /\ UNCHANGED open))
      BY <2>2 DEF RotStat, open, Close
    <3> QED BY <1>0, <1>1, <1>3, <2>1, <3>1 DEF CountOK, open
  <2>3. CASE RotQuit(s) \/ RotCur(s)
    <3>1. pc[s] \in {"rotQuit", "rotCur"} /\ rot' = rot
          /\ (fd'[s] = 0 \/ SameCount(s))
      BY <2>3 DEF RotQuit, RotCur, SameCount, open, Close
    <3>2. rot'[s] = FALSE
      BY <1>0, <3>1 DEF PassOK, InRotation
    <3> QED BY <1>2, <1>3, <2>1, <3>1, <3>2
  <2>4. CASE RotLock(s) \/ RotCheck(s) \/ RotScan(s) \/ RotShift(s) \/ RotUnlock(s) \/ RotFail(s)
    <3>1. SameCount(s)
      BY <2>4 DEF RotLock, RotCheck, RotScan, RotShift, RotUnlock, RotFail, SameCount, open
    <3> QED BY <1>2, <2>1, <3>1
  <2> QED BY <1>11, <2>2, <2>3, <2>4 DEF Rotate
<1>12. CASE OpenLock(s) \/ OpenFile(s) \/ OpenLoad(s)
  <2>1. pc'[s] # "stat"
    BY <1>12 DEF OpenLock, OpenFile, OpenLoad, OpenFailed, Goto, Done
  <2>2. SameCount(s)
    BY <1>12 DEF OpenLock, OpenFile, OpenLoad, SameCount, open
  <2> QED BY <1>2, <2>1, <2>2
<1>13. CASE OpenUnlock(s)
  <2>1. pc[s] = "openUnlock" /\ pc'[s] # "stat" /\ rot' = rot
    BY <1>13 DEF OpenUnlock, OpenFailed, Goto, Done
  <2>2. rot'[s] = FALSE
    BY <1>0, <2>1 DEF PassOK, InRotation
  <2>3. \/ SameCount(s)
        \/ loc[s].afd # 0 /\ fd'[s] = loc[s].afd /\ fsize'[s] = 0 /\ cnt'[s] = 0
    BY <1>13 DEF OpenUnlock, SameCount, open, Attach
  <2>4. loc[s].afd \in Inodes \cup {0}
    BY DEF PointInv, PointOK
  <2> QED BY <1>2, <1>4, <2>1, <2>2, <2>3, <2>4
<1>14. CASE Crash(s)
  <2>1. pc'[s] = "off" /\ fd'[s] = 0 /\ rot'[s] = FALSE
    BY <1>14 DEF Crash, Goto, Close
  <2> QED BY <1>3, <2>1
<1> QED BY <1>5, <1>6, <1>7, <1>8, <1>9, <1>10, <1>11, <1>12, <1>13, <1>14
        DEF Act, Step, Check, Log, Open

(* A rotation begins with the rotate bit reset, an automatic one with a    *)
(* full file, and it is over when the shell is idle again.                 *)
LEMMA PassStep ==
  ASSUME NEW s \in Shells, TypeInv, CountOK(s), PassOK(s), Act(s)
  PROVE  PassOK(s)'
<1> DEFINE Between == {"rotLock", "rotCheck", "rotScan", "rotShift", "rotCur"}
<1> USE DEF TypeInv, TypeOK, ControlType, ShellType
<1>0. /\ fd[s] \in Inodes \cup {0} /\ rot[s] \in BOOLEAN /\ loc[s] \in Locals
      /\ RotateAt \in Nat /\ 0 \notin Inodes
  BY ConstantsAssumption DEF Inodes
<1>1. \A i \in Inodes : /\ Len(files[i]) \in Nat /\ Len(files'[i]) \in Nat
                        /\ Len(files[i]) <= Len(files'[i])
  BY FileGrows
<1>2. ASSUME Keep(s, NoLocals)
      PROVE  ~loc'[s].auto
  BY <1>2 DEF Keep, NoLocals
<1>3. ASSUME NEW v, \/ Keep(s, [NoLocals EXCEPT !.opn = v])
                    \/ Keep(s, [NoLocals EXCEPT !.ret = v])
      PROVE  ~loc'[s].auto
  BY <1>3, ZenonT(30) DEF Keep, NoLocals
<1>4. ASSUME pc'[s] = "idle", ~loc'[s].auto
      PROVE  PassOK(s)'
  BY <1>4 DEF PassOK, AutoRotating, InRotation
<1>5. Done(s) => PassOK(s)'
  BY <1>2, <1>4 DEF Done, Goto
<1>6. ASSUME NEW r \in BOOLEAN, AfterCheck(s, r), r => fd'[s] \in Inodes /\ Len(files'[fd'[s]]) >= RotateAt
      PROVE  PassOK(s)'
  <2>1. CASE pc'[s] = "write"
    BY <2>1 DEF PassOK, AutoRotating, InRotation
  <2>2. CASE r /\ pc'[s] = "rotStat"
    BY <1>0, <1>6, <2>2 DEF PassOK, AutoRotating, InRotation
  <2> QED BY <1>5, <1>6, <2>1, <2>2 DEF AfterCheck, Goto
<1>7. ASSUME pc'[s] \in InRotation \ Between, rot'[s] = FALSE
      PROVE  PassOK(s)'
  BY <1>7 DEF PassOK, AutoRotating, InRotation
<1>8. ASSUME pc'[s] \notin InRotation \cup {"off", "idle", "rotStat"}
      PROVE  PassOK(s)'
  BY <1>8 DEF PassOK, AutoRotating, InRotation
<1>9. pc[s] \in InRotation \cup {"off"} => rot[s] = FALSE
  BY <1>0 DEF PassOK
<1>10. CASE LogHistory(s) \/ FlushHistory(s) \/ IdleTick(s)
  <2>1. pc'[s] = "chkStat"
    BY <1>10 DEF LogHistory, FlushHistory, IdleTick, CallLog, Goto
  <2> QED BY <1>8, <2>1 DEF InRotation
<1>11. CASE Start(s)
  <2>1. pc'[s] = "openLock" /\ pc[s] = "off" /\ rot'[s] = rot[s]
    BY <1>11 DEF Start, Goto
  <2> QED BY <1>7, <1>9, <2>1 DEF InRotation
<1>12. CASE Release(s) \/ Crash(s)
  <2>1. pc'[s] = "off" /\ rot'[s] = FALSE
    BY <1>12 DEF Release, Crash, Goto
  <2> QED BY <2>1 DEF PassOK, AutoRotating, InRotation
<1>13. CASE PushHistory(s) \/ BreakHistory(s)
  <2>1. pc'[s] = "idle" /\ pc[s] = "idle" /\ loc' = loc
    BY <1>13 DEF PushHistory, BreakHistory, Begin
  <2> QED BY <1>4, <2>1 DEF PassOK
<1>14. CASE RotateHistory(s)
  <2>1. pc[s] = "idle" /\ pc'[s] = "rotStat" /\ loc' = loc
    BY <1>14 DEF RotateHistory, Begin, Goto
  <2> QED BY <2>1 DEF PassOK, AutoRotating, InRotation
<1>15. CASE CheckStat(s) \/ CheckOld(s)
  <2>1. \/ AfterCheck(s, rot[s])
        \/ pc'[s] \in {"chkRead", "chkOld", "chkReopen"}
    BY <1>15, Zenon DEF CheckStat, CheckOld, Goto
  <2>2. fd' = fd /\ files' = files
    BY <1>15 DEF CheckStat, CheckOld, open, disk
  <2>3. rot[s] => fd'[s] \in Inodes /\ Len(files'[fd'[s]]) >= RotateAt
    BY <1>0, <2>2 DEF CountOK
  <2> QED BY <1>0, <1>6, <1>8, <2>1, <2>3 DEF InRotation
<1>16. CASE CheckRead(s)
  <2>1. AfterCheck(s, rot[s]) \/ pc'[s] = "chkReopen"
    BY <1>16 DEF CheckRead, Goto
  <2>2. fd' = fd /\ files' = files
    BY <1>16 DEF CheckRead, open, disk
  <2>3. rot[s] => fd'[s] \in Inodes /\ Len(files'[fd'[s]]) >= RotateAt
    BY <1>0, <2>2 DEF CountOK
  <2> QED BY <1>0, <1>6, <1>8, <2>1, <2>3 DEF InRotation
<1>17. CASE CheckReopen(s)
  <2>1. AfterCheck(s, FALSE) \/ (AfterCheck(s, rot[s]) /\ fd' = fd /\ files' = files)
    BY <1>17 DEF CheckReopen, open, disk
  <2>2. fd' = fd /\ files' = files /\ rot[s] => fd'[s] \in Inodes /\ Len(files'[fd'[s]]) >= RotateAt
    BY <1>0 DEF CountOK
  <2> QED BY <1>0, <1>6, <2>1, <2>2
<1>18. CASE Log(s)
  <2>1. Done(s) \/ pc'[s] = "stat"
    BY <1>18 DEF Log, Write, WriteStat, Goto
  <2> QED BY <1>5, <1>8, <2>1 DEF InRotation
<1>19. CASE RotStat(s)
  <2>1. CASE Done(s)
    BY <1>5, <2>1
  <2>2. CASE pc'[s] = "openLock" /\ rot'[s] = FALSE
    BY <1>7, <2>2 DEF InRotation
  <2>3. CASE /\ pc[s] = "rotStat" /\ pc'[s] = "rotLock" /\ rot'[s] = FALSE
             /\ fd' = fd /\ files' = files /\ loc'[s].auto = loc[s].auto
    BY <1>0, <1>1, <2>3 DEF PassOK, AutoRotating, InRotation
  <2>4. \A x : [loc[s] EXCEPT !.x = x].auto = loc[s].auto
    BY <1>0 DEF Locals
  <2>5. rot'[s] = FALSE /\ files' = files
    BY <1>19 DEF RotStat, disk
  <2>6. \/ Done(s) \/ pc'[s] = "openLock"
        \/ /\ pc[s] = "rotStat" /\ pc'[s] = "rotLock" /\ fd' = fd
           /\ loc'[s] = [loc[s] EXCEPT !.x = Len(files[dir[0]])]
    BY <1>19 DEF RotStat, Goto, Keep, open
  <2> QED BY <2>1, <2>2, <2>3, <2>4, <2>5, <2>6
<1>20. CASE RotLock(s) \/ RotCheck(s) \/ RotScan(s) \/ RotShift(s) \/ RotCur(s)
  <2>1. files' = files /\ rot' = rot /\ pc[s] \in Between
    BY <1>20 DEF RotLock, RotCheck, RotScan, RotShift, RotCur, disk
  <2>2. \A v : [loc[s] EXCEPT !.j = v].auto = loc[s].auto
    BY <1>0 DEF Locals
  <2>3. \/ Done(s)
        \/ pc'[s] \in {"rotFail", "rotQuit", "rotUnlock"}
        \/ pc'[s] \in Between /\ fd' = fd /\ loc'[s].auto = loc[s].auto
    <3>1. CASE RotScan(s)
      BY <2>2, <3>1 DEF RotScan, Goto, Keep, open
    <3>2. CASE RotShift(s)
      <4>1. \/ pc'[s] = "rotFail"
            \/ /\ pc'[s] \in {"rotCur", "rotShift"}
               /\ Keep(s, [loc[s] EXCEPT !.j = loc[s].j - 1])
        BY <3>2 DEF RotShift, Goto
      <4>2. fd' = fd
        BY <3>2 DEF RotShift, open
      <4>3. ASSUME Keep(s, [loc[s] EXCEPT !.j = loc[s].j - 1])
            PROVE  loc'[s].auto = loc[s].auto
        BY <2>2, <4>3, Zenon DEF Keep
      <4> QED BY <4>1, <4>2, <4>3
    <3> QED BY <1>20, <3>1, <3>2 DEF RotLock, RotCheck, RotCur, Goto, open
  <2>4. CASE pc'[s] \in Between /\ fd' = fd /\ loc'[s].auto = loc[s].auto
    BY <1>0, <1>1, <2>1, <2>4 DEF PassOK, AutoRotating, InRotation
  <2> QED BY <1>5, <1>7, <1>8, <1>9, <2>1, <2>3, <2>4 DEF InRotation
<1>21. CASE \/ RotQuit(s) \/ RotUnlock(s) \/ OpenLock(s) \/ OpenFile(s) \/ OpenLoad(s)
            \/ OpenUnlock(s) \/ RotFail(s)
  <2>1. \/ Done(s)
        \/ pc'[s] \in (InRotation \cup {"rotFail", "rotUndo", "chkStat"}) \ Between
    <3>1. CASE OpenFile(s)
      BY <3>1 DEF OpenFile, Goto, InRotation
    <3> QED BY <1>21, <3>1
            DEF RotQuit, RotUnlock, OpenLock, OpenLoad, OpenUnlock, OpenFailed,
                RotFail, Goto, InRotation
  <2>2. rot' = rot /\ pc[s] \in InRotation \cup {"rotFail", "rotUndo"}
    BY <1>21 DEF RotQuit, RotUnlock, OpenLock, OpenFile, OpenLoad, OpenUnlock,
                 RotFail, InRotation
  <2>3. pc[s] \in {"rotFail", "rotUndo"} => Done(s)
    BY <1>21 DEF RotQuit, RotUnlock, OpenLock, OpenFile, OpenLoad, OpenUnlock, RotFail
  <2> QED BY <1>5, <1>7, <1>8, <1>9, <2>1, <2>2, <2>3 DEF InRotation
<1> QED BY <1>10, <1>11, <1>12, <1>13, <1>14, <1>15, <1>16, <1>17, <1>18, <1>19, <1>20, <1>21
        DEF Act, Call, Step, Check, Rotate, Open

(* A shell that rotates because its rotate bit is set (init_get_line,      *)
(* rotate_history) has a file of rotate_line_cnt lines or more open: the   *)
(* bit and the count go with hist.fd, whatever other shells rotate and     *)
(* whatever fails but the writes.  A failed write is counted as a line, so *)
(* that the assumption is needed.                                          *)
THEOREM BeginsFull ==
  ASSUME NoWriteFailure
  PROVE  Spec => []FullFileOpen
<1>1. Init => RotInv
  BY DEF Init, RotInv, CountOK, PassOK, AutoRotating, InRotation, NoLocals
<1>2. TypeInv /\ RotInv /\ [Next]_vars => RotInv'
  <2> SUFFICES ASSUME TypeInv, RotInv, [Next]_vars
               PROVE  RotInv'
    OBVIOUS
  <2>1. ASSUME NEW s \in Shells, Act(s)
        PROVE  RotInv'
    <3>1. CountOK(s)' /\ PassOK(s)'
      BY <2>1, CountStep, PassStep DEF RotInv
    <3>2. ASSUME NEW t \in Shells \ {s}
          PROVE  CountOK(t)' /\ PassOK(t)'
      <4>1. /\ pc'[t] = pc[t] /\ loc'[t] = loc[t] /\ fd'[t] = fd[t]
            /\ fsize'[t] = fsize[t] /\ cnt'[t] = cnt[t] /\ rot'[t] = rot[t]
        BY <2>1, FrameStep, FrameRestStep DEF Frame, FrameRest, TypeInv
      <4>2. /\ fd[t] \in Inodes \cup {0} /\ fsize[t] \in Nat /\ RotateAt \in Nat
            /\ pc[t] = "stat" => fd[t] # 0
        BY ConstantsAssumption DEF TypeInv, TypeOK, ShellType, PointInv, PointOK
      <4>3. fd[t] # 0 => /\ Len(files[fd[t]]) \in Nat /\ Len(files'[fd[t]]) \in Nat
                         /\ Len(files[fd[t]]) <= Len(files'[fd[t]])
        BY <2>1, <4>2, FileGrows
      <4>4. CountOK(t) /\ PassOK(t)
        BY DEF RotInv
      <4>5. CountOK(t)'
        BY <4>1, <4>2, <4>3, <4>4 DEF CountOK
      <4>6. PassOK(t)'
        BY <4>1, <4>2, <4>3, <4>4 DEF PassOK, AutoRotating
      <4> QED BY <4>5, <4>6
    <3> QED BY <3>1, <3>2 DEF RotInv
  <2>2. CASE RemoveStaleLock \/ UNCHANGED vars
    BY <2>2 DEF RemoveStaleLock, vars, disk, open, RotInv, CountOK, PassOK,
                 AutoRotating
  <2> QED BY <2>1, <2>2 DEF Next, Act
<1>3. RotInv => FullFileOpen
  BY DEF RotInv, PassOK, FullFileOpen
<1> QED BY <1>1, <1>2, <1>3, TypeInvariant, PTL DEF Spec
=============================================================================
