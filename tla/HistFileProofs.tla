--------------------------- MODULE HistFileProofs ---------------------------
(***************************************************************************)
(* What is proved of HistFile, for any number of shells, lines, rotations  *)
(* and names: its state is well typed (TypeCorrect), and the lock file     *)
(* keeps the shells apart as long as no shell gives up on the lock or on   *)
(* an open (LockExcludes).                                                 *)
(***************************************************************************)
EXTENDS HistFile, SequenceTheorems, TLAPS

(* What TypeOK needs at the control points: the descriptors that are read  *)
(* and written are open, and the lines that are written are not blank.     *)
PointOK(s) ==
  /\ pc[s] \in {"chkOld", "chkRead", "chkReopen", "stat"} => fd[s] # 0
  /\ pc[s] = "rotShift" => loc[s].j # 0
  /\ pc[s] \in {"write", "stat"} => loc[s].arg # Blank
  /\ loc[s].afd \in Inodes \cup {0}

PointInv == \A s \in Shells : PointOK(s)
TypeInv == TypeOK /\ PointInv

(* A step of shell s: a call of the application, a system call of the      *)
(* operation, or the kill.                                                 *)
Act(s) == Call(s) \/ Step(s) \/ Crash(s)

(* What the step of one shell leaves alone in the others.                  *)
Frame(s) == \A t \in Shells \ {s} :
  pc'[t] = pc[t] /\ loc'[t] = loc[t] /\ fd'[t] = fd[t]

(* The step of a shell moves neither the control point nor the locals nor  *)
(* the descriptor of another shell.                                        *)
LEMMA FrameStep ==
  ASSUME NEW s \in Shells, TypeOK, Act(s)
  PROVE  Frame(s)
<1> USE DEF TypeOK, ControlType, ShellType, Frame, Goto, Keep, Done, AfterCheck,
            OpenFailed, Close, Attach, CallLog, open
<1>1. CASE Call(s)
  BY <1>1 DEF Call, Start, Release, LogHistory, PushHistory, BreakHistory,
              FlushHistory, IdleTick, RotateHistory
<1>2. CASE Check(s)
  BY <1>2 DEF Check, CheckStat, CheckOld, CheckRead, CheckReopen
<1>3. CASE Log(s)
  BY <1>3 DEF Log, Write, WriteStat
<1>4. CASE Rotate(s)
  BY <1>4 DEF Rotate, RotStat, RotLock, RotCheck, RotQuit, RotScan, RotShift,
              RotCur, RotUnlock, RotFail
<1>5. CASE OpenFile(s)
  <2>1. pc' = [pc EXCEPT ![s] = pc'[s]] /\ UNCHANGED fd
    BY <1>5 DEF OpenFile
  <2>2. loc' = [loc EXCEPT ![s] = loc'[s]]
    BY <1>5 DEF OpenFile
  <2> QED BY <2>1, <2>2
<1>6. CASE OpenLock(s) \/ OpenLoad(s) \/ OpenUnlock(s)
  BY <1>6 DEF OpenLock, OpenLoad, OpenUnlock
<1>7. CASE Crash(s)
  BY <1>7 DEF Crash
<1> QED BY <1>1, <1>2, <1>3, <1>4, <1>5, <1>6, <1>7 DEF Act, Step, Open

(* Each step of a shell takes it to one of the control points.             *)
LEMMA PcStep ==
  ASSUME NEW s \in Shells, TypeOK, Act(s)
  PROVE  pc' \in [Shells -> PCs]
<1> USE DEF TypeOK, ControlType, PCs, Steps, LockHeld, Goto, Done, AfterCheck,
            OpenFailed, CallLog
<1>1. CASE Call(s)
  BY <1>1 DEF Call, Start, Release, LogHistory, PushHistory, BreakHistory,
              FlushHistory, IdleTick, RotateHistory
<1>2. CASE Check(s)
  BY <1>2 DEF Check, CheckStat, CheckOld, CheckRead, CheckReopen
<1>3. CASE Log(s)
  BY <1>3 DEF Log, Write, WriteStat
<1>4. CASE Rotate(s)
  BY <1>4 DEF Rotate, RotStat, RotLock, RotCheck, RotQuit, RotScan, RotShift,
              RotCur, RotUnlock, RotFail
<1>5. CASE OpenFile(s)
  <2>1. PICK p \in PCs : pc' = [pc EXCEPT ![s] = p]
    BY <1>5 DEF OpenFile
  <2> QED BY <2>1
<1>6. CASE OpenLock(s) \/ OpenLoad(s) \/ OpenUnlock(s)
  BY <1>6 DEF OpenLock, OpenLoad, OpenUnlock
<1>7. CASE Crash(s)
  BY <1>7 DEF Crash
<1> QED BY <1>1, <1>2, <1>3, <1>4, <1>5, <1>6, <1>7 DEF Act, Step, Open

(* A new file is one more inode, an empty one.                             *)
LEMMA NewFile ==
  ASSUME NEW F \in Seq(Seq(Line))
  PROVE  /\ Append(F, <<>>) \in Seq(Seq(Line))
         /\ Len(Append(F, <<>>)) = Len(F) + 1
<1> DEFINE S == Seq(Line)
<1>1. <<>> \in S
  BY EmptySeq
<1>2. F \in Seq(S)
  OBVIOUS
<1> HIDE DEF S
<1>3. /\ Append(F, <<>>) \in Seq(S)
      /\ Len(Append(F, <<>>)) = Len(F) + 1
  BY <1>1, <1>2, AppendProperties
<1> QED BY <1>3 DEF S

(* Only the O_APPEND write and the creation of a file change the inodes,   *)
(* and no inode goes away.                                                 *)
LEMMA FilesStep ==
  ASSUME NEW s \in Shells, TypeInv, Act(s)
  PROVE  /\ files' \in Seq(Seq(Line))
         /\ Len(files) <= Len(files')
<1> USE DEF TypeInv, TypeOK, DiskType, disk
<1>0. files' = files => files' \in Seq(Seq(Line)) /\ Len(files) <= Len(files')
  OBVIOUS
<1>1. CASE Call(s)
  BY <1>0, <1>1 DEF Call, Start, Release, LogHistory, PushHistory, BreakHistory,
              FlushHistory, IdleTick, RotateHistory
<1>2. CASE Check(s)
  BY <1>0, <1>2 DEF Check, CheckStat, CheckOld, CheckRead, CheckReopen
<1>3. CASE Write(s)
  <2>1. CASE UNCHANGED files
    BY <2>1
  <2>2. CASE fd[s] # 0 /\ files' = [files EXCEPT ![fd[s]] = Append(@, loc[s].arg)]
    <3>1. fd[s] \in 1 .. Len(files)
      BY <2>2 DEF ShellType, Inodes
    <3>2. loc[s].arg \in Line
      BY <1>3 DEF Write, PointInv, PointOK, ControlType, Locals
    <3>3. Append(files[fd[s]], loc[s].arg) \in Seq(Line)
      BY <3>1, <3>2
    <3> QED BY <2>2, <3>1, <3>3, ExceptSeq
  <2> QED BY <1>3, <2>1, <2>2 DEF Write
<1>4. CASE WriteStat(s)
  BY <1>0, <1>4 DEF WriteStat
<1>5. CASE Rotate(s)
  BY <1>0, <1>5 DEF Rotate, RotStat, RotLock, RotCheck, RotQuit, RotScan, RotShift,
              RotCur, RotUnlock, RotFail
<1>6. CASE OpenFile(s)
  <2>1. UNCHANGED files \/ files' = Append(files, <<>>)
    BY <1>6 DEF OpenFile
  <2>2. files' = Append(files, <<>>) => files' \in Seq(Seq(Line)) /\ Len(files') = Len(files) + 1
    BY NewFile, Zenon
  <2> QED BY <1>0, <2>1, <2>2
<1>7. CASE OpenLock(s) \/ OpenLoad(s) \/ OpenUnlock(s)
  BY <1>0, <1>7 DEF OpenLock, OpenLoad, OpenUnlock
<1>8. CASE Crash(s)
  BY <1>0, <1>8 DEF Crash
<1> QED BY <1>1, <1>2, <1>3, <1>4, <1>5, <1>6, <1>7, <1>8 DEF Act, Step, Log, Open

(* An assignment of a well typed value to a local keeps the locals well    *)
(* typed.                                                                  *)
LEMMA LocalsUpdate ==
  ASSUME NEW l \in Locals
  PROVE  /\ \A v \in {"none", "log", "tick", "open"} : [l EXCEPT !.ret = v] \in Locals
         /\ \A v \in {"none", "start", "reopen", "rotate"} : [l EXCEPT !.opn = v] \in Locals
         /\ \A v \in Line \cup {Blank} : [l EXCEPT !.arg = v] \in Locals
         /\ \A v \in BOOLEAN : /\ [l EXCEPT !.ok = v] \in Locals
                               /\ [l EXCEPT !.moved = v] \in Locals
                               /\ [l EXCEPT !.auto = v] \in Locals
         /\ \A v \in Nat : [l EXCEPT !.x = v] \in Locals /\ [l EXCEPT !.afd = v] \in Locals
         /\ \A v \in 0 .. MaxName - 1 : [l EXCEPT !.j = v] \in Locals
  BY DEF Locals

(* What the assignment to a local does to afd.                             *)
LEMMA AfdUpdate ==
  ASSUME NEW l \in Locals, NEW v, NEW k
  PROVE  /\ [l EXCEPT !.afd = v].afd = v
         /\ [l EXCEPT !.afd = v, !.j = k].afd = v
         /\ [l EXCEPT !.j = k].afd = l.afd
  BY DEF Locals

(* The locals before an operation are well typed.                          *)
LEMMA NoLocalsType == NoLocals \in Locals
  BY ConstantsAssumption DEF Locals, NoLocals, Blank

(* A name goes on naming an inode that exists, or none: the renames of     *)
(* rotate_history stay within the names.                                   *)
LEMMA DirStep ==
  ASSUME NEW s \in Shells, TypeInv, Act(s)
  PROVE  dir' \in [Names -> Inodes' \cup {0}]
<1>0. Inodes \subseteq Inodes'
  <2>1. Len(files) \in Nat /\ Len(files') \in Nat /\ Len(files) <= Len(files')
    BY FilesStep, LenProperties DEF TypeInv, TypeOK, DiskType
  <2> QED BY <2>1 DEF Inodes
<1> USE DEF TypeInv, TypeOK, DiskType, disk
<1>1. dir' = dir => dir' \in [Names -> Inodes' \cup {0}]
  BY <1>0
<1>2. CASE Call(s)
  <2>1. UNCHANGED dir
    BY <1>2 DEF Call, Start, Release, LogHistory, PushHistory, BreakHistory,
                FlushHistory, IdleTick, RotateHistory
  <2> QED BY <1>1, <2>1
<1>3. CASE Check(s) \/ Log(s)
  <2>1. UNCHANGED dir
    BY <1>3 DEF Check, CheckStat, CheckOld, CheckRead, CheckReopen, Log, Write, WriteStat
  <2> QED BY <1>1, <2>1
<1>4. ASSUME NEW m \in Names, NEW n \in Names, Rename(m, n)
      PROVE  dir' \in [Names -> Inodes' \cup {0}]
  BY <1>0, <1>4 DEF Rename
<1>5. CASE RotShift(s)
  <2>1. loc[s].j \in Names /\ loc[s].j + 1 \in Names
    BY ConstantsAssumption, SMTT(30) DEF ControlType, Locals, Names
  <2>2. UNCHANGED dir \/ Rename(loc[s].j, loc[s].j + 1)
    BY <1>5 DEF RotShift
  <2> QED BY <1>1, <1>4, <2>1, <2>2
<1>6. CASE RotCur(s)
  <2>1. 0 \in Names /\ 1 \in Names
    BY ConstantsAssumption DEF Names
  <2>2. UNCHANGED dir \/ Rename(0, 1)
    BY <1>6 DEF RotCur
  <2> QED BY <1>1, <1>4, <2>1, <2>2
<1>7. CASE \/ RotStat(s) \/ RotLock(s) \/ RotCheck(s) \/ RotQuit(s)
           \/ RotScan(s) \/ RotUnlock(s) \/ RotFail(s)
  BY <1>1, <1>7 DEF RotStat, RotLock, RotCheck, RotQuit, RotScan, RotUnlock, RotFail
<1>8. CASE OpenFile(s)
  <2>1. UNCHANGED dir \/ /\ dir' = [dir EXCEPT ![0] = Len(files) + 1]
                         /\ files' = Append(files, <<>>)
    BY <1>8 DEF OpenFile
  <2>2. files' = Append(files, <<>>) => Len(files') = Len(files) + 1
    BY NewFile, Zenon
  <2>3. files' = Append(files, <<>>) => Len(files) + 1 \in Inodes'
    BY <2>2, LenProperties DEF Inodes
  <2> QED BY <1>0, <1>1, <2>1, <2>3
<1>9. CASE OpenLock(s) \/ OpenLoad(s) \/ OpenUnlock(s)
  BY <1>1, <1>9 DEF OpenLock, OpenLoad, OpenUnlock
<1>10. CASE Crash(s)
  BY <1>1, <1>10 DEF Crash
<1> QED BY <1>2, <1>3, <1>5, <1>6, <1>7, <1>8, <1>9, <1>10 DEF Act, Step, Rotate, Open

(* The lock file is there or not.                                          *)
LEMMA LckStep ==
  ASSUME NEW s \in Shells, TypeOK, Act(s)
  PROVE  lck' \in BOOLEAN
<1>1. UNCHANGED lck \/ lck' = TRUE \/ lck' = FALSE
  BY DEF Act, Call, Step, Check, Log, Rotate, Open, Start, Release, LogHistory,
         PushHistory, BreakHistory, FlushHistory, IdleTick, RotateHistory,
         CheckStat, CheckOld, CheckRead, CheckReopen, Write, WriteStat,
         RotStat, RotLock, RotCheck, RotQuit, RotScan, RotShift, RotCur,
         RotUnlock, RotFail, OpenLock, OpenFile, OpenLoad, OpenUnlock, Crash
<1> QED BY <1>1, Zenon DEF TypeOK, DiskType

(* Only a line that log_hist was called with is acknowledged, never a      *)
(* blank one.                                                              *)
LEMMA OkdStep ==
  ASSUME NEW s \in Shells, TypeInv, Act(s)
  PROVE  okd' \subseteq Line
<1>1. UNCHANGED okd \/ (Log(s) /\ okd' = okd \cup {loc[s].arg})
  BY DEF Act, Call, Step, Check, Log, Rotate, Open, Start, Release, LogHistory,
         PushHistory, BreakHistory, FlushHistory, IdleTick, RotateHistory,
         CheckStat, CheckOld, CheckRead, CheckReopen, Write, WriteStat,
         RotStat, RotLock, RotCheck, RotQuit, RotScan, RotShift, RotCur,
         RotUnlock, RotFail, OpenLock, OpenFile, OpenLoad, OpenUnlock, Crash
<1>2. Log(s) => loc[s].arg \in Line
  <2>1. loc[s].arg \in Line \cup {Blank}
    BY DEF TypeInv, TypeOK, ControlType, Locals
  <2>2. Log(s) => loc[s].arg # Blank
    BY DEF Log, Write, WriteStat, TypeInv, PointInv, PointOK
  <2> QED BY <2>1, <2>2
<1> QED BY <1>1, <1>2 DEF TypeInv, TypeOK, DiskType

(* Each call uses up at most one unit of one bound.                        *)
LEMMA UsedStep ==
  ASSUME NEW s \in Shells, TypeOK, Act(s)
  PROVE  used' \in [{"logs", "rots", "starts", "pushes"} -> Nat]
<1>1. UNCHANGED used \/ \E b \in {"logs", "rots", "starts", "pushes"} : Take(b)
  BY DEF Act, Call, Step, Check, Log, Rotate, Open, Start, Release, LogHistory,
           PushHistory, BreakHistory, FlushHistory, IdleTick, RotateHistory,
           CheckStat, CheckOld, CheckRead, CheckReopen, Write, WriteStat,
           RotStat, RotLock, RotCheck, RotQuit, RotScan, RotShift, RotCur,
           RotUnlock, RotFail, OpenLock, OpenFile, OpenLoad, OpenUnlock, Crash
<1>2. ASSUME NEW b \in {"logs", "rots", "starts", "pushes"},
             used' = [used EXCEPT ![b] = @ + 1]
      PROVE  used' \in [{"logs", "rots", "starts", "pushes"} -> Nat]
  <2>1. used[b] + 1 \in Nat
    BY DEF TypeOK, DiskType
  <2> QED BY <1>2, <2>1 DEF TypeOK, DiskType
<1> QED BY <1>1, <1>2 DEF Take, TypeOK, DiskType

(* Well typed locals of one shell keep all of them well typed.             *)
LEMMA KeepType ==
  ASSUME NEW s \in Shells, TypeOK, NEW l \in Locals, Keep(s, l)
  PROVE  loc' \in [Shells -> Locals]
  BY DEF Keep, TypeOK, ControlType

(* The locals stay well typed: the loops of rotate_history and             *)
(* open_history never count below zero.                                    *)
LEMMA LocStep ==
  ASSUME NEW s \in Shells, TypeInv, Act(s)
  PROVE  loc' \in [Shells -> Locals]
<1> DEFINE Typed == loc' \in [Shells -> Locals]
<1>1. loc[s] \in Locals
  BY DEF TypeInv, TypeOK, ControlType
<1>2. UNCHANGED loc => Typed
  BY DEF TypeInv, TypeOK, ControlType
<1>3. \A l \in Locals : Keep(s, l) => Typed
  BY KeepType DEF TypeInv
<1>4. Done(s) => Typed
  BY <1>3, NoLocalsType DEF Done
<1>5. \A r \in {"start", "reopen", "rotate"} : Keep(s, [NoLocals EXCEPT !.opn = r]) => Typed
  BY <1>3, NoLocalsType, LocalsUpdate
<1>6. \A r \in {"tick", "open"} : Keep(s, [NoLocals EXCEPT !.ret = r]) => Typed
  BY <1>3, NoLocalsType, LocalsUpdate
<1>7. \A line \in Line \cup {Blank} : CallLog(s, line) => Typed
  <2> SUFFICES ASSUME NEW line \in Line \cup {Blank}, CallLog(s, line)
               PROVE  Typed
    OBVIOUS
  <2>1. [NoLocals EXCEPT !.ret = "log"] \in Locals
    BY NoLocalsType, LocalsUpdate
  <2>2. [[NoLocals EXCEPT !.ret = "log"] EXCEPT !.arg = line] \in Locals
    BY <2>1, LocalsUpdate
  <2>3. [NoLocals EXCEPT !.ret = "log", !.arg = line] \in Locals
    BY <2>2
  <2> QED BY <1>3, <2>3 DEF CallLog
<1>8. \A r : AfterCheck(s, r) => Typed
  <2>1. [NoLocals EXCEPT !.auto = TRUE] \in Locals
    BY NoLocalsType, LocalsUpdate
  <2> QED BY <1>2, <1>3, <1>4, <2>1 DEF AfterCheck
<1>9. OpenFailed(s) => Typed
  BY <1>2, <1>4 DEF OpenFailed
<1>10. \A b \in BOOLEAN : Keep(s, [loc[s] EXCEPT !.moved = b]) \/ Keep(s, [loc[s] EXCEPT !.ok = b]) => Typed
  BY <1>1, <1>3, LocalsUpdate
<1>11. \A n \in Nat : Keep(s, [loc[s] EXCEPT !.x = n]) \/ Keep(s, [loc[s] EXCEPT !.afd = n]) => Typed
  BY <1>1, <1>3, LocalsUpdate
<1>12. \A j \in 0 .. MaxName - 1 : Keep(s, [loc[s] EXCEPT !.j = j]) => Typed
  BY <1>1, <1>3, LocalsUpdate
<1>13. CASE Start(s) \/ IdleTick(s)
  BY <1>5, <1>6, <1>13, Zenon DEF Start, IdleTick
<1>14. CASE LogHistory(s) \/ FlushHistory(s)
  <2>1. <<s, used.logs + 1>> \in Line
    BY DEF Line, TypeInv, TypeOK, DiskType
  <2> QED BY <1>7, <1>14, <2>1, Zenon DEF LogHistory, FlushHistory
<1>15. CASE Release(s) \/ PushHistory(s) \/ BreakHistory(s) \/ RotateHistory(s)
  BY <1>2, <1>15, Zenon DEF Release, PushHistory, BreakHistory, RotateHistory
<1>16. CASE Check(s)
  BY <1>2, <1>8, <1>10, <1>16, Zenon DEF Check, CheckStat, CheckOld, CheckRead, CheckReopen
<1>17. CASE Log(s)
  BY <1>2, <1>4, <1>10, <1>17, Zenon DEF Log, Write, WriteStat
<1>18. CASE RotStat(s)
  <2>1. dir[0] # 0 => Len(files[dir[0]]) \in Nat
    BY ConstantsAssumption, LenProperties DEF TypeInv, TypeOK, DiskType, Inodes, Names
  <2> QED BY <1>4, <1>5, <1>11, <1>18, <2>1, Zenon DEF RotStat
<1>19. CASE RotScan(s)
  <2>1. \A i \in 1 .. MaxName : i - 1 \in 0 .. MaxName - 1
    BY ConstantsAssumption
  <2> QED BY <1>12, <1>19, <2>1, Zenon DEF RotScan
<1>20. CASE RotShift(s)
  <2>1. loc[s].j - 1 \in 0 .. MaxName - 1
    <3>1. loc[s].j \in 0 .. MaxName - 1
      BY <1>1 DEF Locals
    <3>2. loc[s].j # 0
      BY <1>20 DEF RotShift, TypeInv, PointInv, PointOK
    <3> QED BY <3>1, <3>2, ConstantsAssumption
  <2> QED BY <1>2, <1>12, <1>20, <2>1, Zenon DEF RotShift
<1>21. CASE \/ RotLock(s) \/ RotCheck(s) \/ RotQuit(s)
            \/ RotCur(s) \/ RotUnlock(s) \/ RotFail(s)
  BY <1>2, <1>4, <1>5, <1>21, Zenon DEF RotLock, RotCheck, RotQuit, RotCur, RotUnlock, RotFail
<1>22. CASE OpenLock(s) \/ OpenUnlock(s)
  BY <1>2, <1>6, <1>9, <1>22, Zenon DEF OpenLock, OpenUnlock
<1>23. CASE OpenFile(s)
  <2>1. dir[0] \in Nat /\ Len(files) + 1 \in Nat
    BY ConstantsAssumption, LenProperties DEF TypeInv, TypeOK, DiskType, Inodes, Names
  <2>2. [loc[s] EXCEPT !.afd = dir[0]] \in Locals
    BY <1>1, <2>1, LocalsUpdate
  <2>3. \A i \in 1 .. MaxName : [[loc[s] EXCEPT !.afd = dir[0]] EXCEPT !.j = i - 1] \in Locals
    <3>1. \A i \in 1 .. MaxName : i - 1 \in 0 .. MaxName - 1
      BY ConstantsAssumption
    <3> QED BY <2>2, <3>1, LocalsUpdate, Zenon
  <2>4. \A i \in 1 .. MaxName : [loc[s] EXCEPT !.afd = dir[0], !.j = i - 1] \in Locals
    BY <2>3
  <2> QED BY <1>3, <1>11, <1>12, <1>23, <2>1, <2>4, Zenon DEF OpenFile
<1>24. CASE OpenLoad(s)
  <2>1. loc[s].j > 0 => loc[s].j - 1 \in 0 .. MaxName - 1
    <3>1. loc[s].j \in 0 .. MaxName - 1
      BY <1>1 DEF Locals
    <3> QED BY <3>1, ConstantsAssumption
  <2> QED BY <1>2, <1>12, <1>24, <2>1, Zenon DEF OpenLoad
<1>25. CASE Crash(s)
  BY <1>3, <1>25, NoLocalsType, Zenon DEF Crash
<1>26. QED
  BY <1>13, <1>14, <1>15, <1>16, <1>17, <1>18, <1>19, <1>20, <1>21, <1>22,
     <1>23, <1>24, <1>25 DEF Act, Call, Step, Rotate, Open

(* An inode stays an inode.                                                *)
LEMMA InodesGrow ==
  ASSUME NEW s \in Shells, TypeInv, Act(s)
  PROVE  Inodes \subseteq Inodes'
<1>1. Len(files) \in Nat /\ Len(files') \in Nat /\ Len(files) <= Len(files')
  BY FilesStep, LenProperties DEF TypeInv, TypeOK, DiskType
<1> QED BY <1>1 DEF Inodes

(* A descriptor refers to an inode that exists, or to none.                *)
LEMMA FdStep ==
  ASSUME NEW s \in Shells, TypeInv, Act(s)
  PROVE  fd' \in [Shells -> Inodes' \cup {0}]
<1>1. UNCHANGED fd \/ \E i \in Inodes \cup {0} : fd' = [fd EXCEPT ![s] = i]
  <2>1. CASE CheckReopen(s)
    <3>1. dir[0] \in Inodes \cup {0}
      BY ConstantsAssumption DEF TypeInv, TypeOK, DiskType, Names
    <3> QED BY <2>1, <3>1 DEF CheckReopen, Attach, open
  <2>2. CASE OpenUnlock(s)
    <3>1. loc[s].afd \in Inodes \cup {0}
      BY DEF TypeInv, PointInv, PointOK
    <3> QED BY <2>2, <3>1 DEF OpenUnlock, Attach, open
  <2>3. CASE ~CheckReopen(s) /\ ~OpenUnlock(s)
    <3>1. UNCHANGED fd \/ fd' = [fd EXCEPT ![s] = 0]
      BY <2>3
      DEF Act, Call, Step, Check, Log, Rotate, Open, Start, Release, LogHistory,
          PushHistory, BreakHistory, FlushHistory, IdleTick, RotateHistory,
          CheckStat, CheckOld, CheckRead, Write, WriteStat,
          RotStat, RotLock, RotCheck, RotQuit, RotScan, RotShift, RotCur,
          RotUnlock, RotFail, OpenLock, OpenFile, OpenLoad, Crash, open, Close
    <3> QED BY <3>1
  <2> QED BY <2>1, <2>2, <2>3
<1> QED BY <1>1, InodesGrow DEF TypeInv, TypeOK, ShellType

(* The offset and the count of lines are natural numbers.                  *)
LEMMA CntStep ==
  ASSUME NEW s \in Shells, TypeInv, Act(s)
  PROVE  fsize' \in [Shells -> Nat] /\ cnt' \in [Shells -> Nat]
<1> USE DEF TypeInv, TypeOK, ShellType
<1>1. CASE CheckRead(s)
  <2> DEFINE new == SubSeq(files[fd[s]], fsize[s] + 1, Len(files[fd[s]]))
  <2>1. fd[s] \in Inodes
    BY <1>1 DEF CheckRead, PointInv, PointOK
  <2>2. files[fd[s]] \in Seq(Line)
    BY <2>1 DEF DiskType, Inodes
  <2>3. Len(new) \in Nat
    BY <2>2
  <2>4. /\ fsize' = [fsize EXCEPT ![s] = @ + Len(new)]
        /\ cnt' = [cnt EXCEPT ![s] = @ + Len(new)]
    BY <1>1, SMTT(30) DEF CheckRead
  <2> QED BY <2>3, <2>4
<1>2. CASE WriteStat(s)
  <2>1. fd[s] \in Inodes
    BY <1>2 DEF WriteStat, PointInv, PointOK
  <2>2. Len(files[fd[s]]) \in Nat
    BY <2>1 DEF DiskType, Inodes
  <2>3. /\ fsize' = [fsize EXCEPT ![s] = Len(files[fd[s]])]
        /\ cnt' = [cnt EXCEPT ![s] = @ + 1]
    BY <1>2 DEF WriteStat
  <2> QED BY <2>2, <2>3
<1>3. CASE ~CheckRead(s) /\ ~WriteStat(s)
  <2>1. /\ UNCHANGED fsize \/ fsize' = [fsize EXCEPT ![s] = 0]
        /\ UNCHANGED cnt \/ cnt' = [cnt EXCEPT ![s] = 0]
    BY <1>3
    DEF Act, Call, Step, Check, Log, Rotate, Open, Start, Release, LogHistory,
        PushHistory, BreakHistory, FlushHistory, IdleTick, RotateHistory,
        CheckStat, CheckOld, CheckReopen, Write,
        RotStat, RotLock, RotCheck, RotQuit, RotScan, RotShift, RotCur,
        RotUnlock, RotFail, OpenLock, OpenFile, OpenLoad, OpenUnlock, Crash,
        open, Close, Attach
  <2>2. fsize' \in [Shells -> Nat]
    BY <2>1
  <2>3. cnt' \in [Shells -> Nat]
    BY <2>1
  <2> QED BY <2>2, <2>3
<1> QED BY <1>1, <1>2, <1>3

(* The rotate bit and the continuation flag are Boolean.                   *)
LEMMA BitStep ==
  ASSUME NEW s \in Shells, TypeInv, Act(s)
  PROVE  rot' \in [Shells -> BOOLEAN] /\ pend' \in [Shells -> BOOLEAN]
<1>1. \/ UNCHANGED rot \/ rot' = [rot EXCEPT ![s] = FALSE]
      \/ rot' = [rot EXCEPT ![s] = @ \/ (loc[s].ok /\ cnt[s] + 1 >= RotateAt)]
  BY DEF Act, Call, Step, Check, Log, Rotate, Open, Start, Release, LogHistory,
         PushHistory, BreakHistory, FlushHistory, IdleTick, RotateHistory,
         CheckStat, CheckOld, CheckRead, CheckReopen, Write, WriteStat,
         RotStat, RotLock, RotCheck, RotQuit, RotScan, RotShift, RotCur,
         RotUnlock, RotFail, OpenLock, OpenFile, OpenLoad, OpenUnlock, Crash
<1>2. \/ UNCHANGED pend \/ pend' = [pend EXCEPT ![s] = FALSE]
      \/ pend' = [pend EXCEPT ![s] = TRUE]
  BY DEF Act, Call, Step, Check, Log, Rotate, Open, Start, Release, LogHistory,
         PushHistory, BreakHistory, FlushHistory, IdleTick, RotateHistory,
         CheckStat, CheckOld, CheckRead, CheckReopen, Write, WriteStat,
         RotStat, RotLock, RotCheck, RotQuit, RotScan, RotShift, RotCur,
         RotUnlock, RotFail, OpenLock, OpenFile, OpenLoad, OpenUnlock, Crash, Close
<1>3. rot' \in [Shells -> BOOLEAN]
  BY <1>1, Zenon DEF TypeInv, TypeOK, ShellType
<1>4. pend' \in [Shells -> BOOLEAN]
  BY <1>2, Zenon DEF TypeInv, TypeOK, ShellType
<1> QED BY <1>3, <1>4

(* The memory of a shell holds lines, each of an author.                   *)
LEMMA HistStep ==
  ASSUME NEW s \in Shells, TypeInv, Act(s)
  PROVE  hist' \in [Shells -> Seq(Line)]
<1> DEFINE Adds(q) == hist' = [hist EXCEPT ![s] = @ \o q]
<1>0. ASSUME NEW q \in Seq(Line), Adds(q)
      PROVE  hist' \in [Shells -> Seq(Line)]
  BY <1>0 DEF TypeInv, TypeOK, ShellType
<1>1. CASE CheckRead(s)
  <2> DEFINE f == files[fd[s]]
  <2>1. fd[s] \in Inodes
    BY <1>1 DEF CheckRead, TypeInv, TypeOK, ShellType, PointInv, PointOK
  <2>2. f \in Seq(Line) /\ fsize[s] \in Nat
    BY <2>1 DEF TypeInv, TypeOK, DiskType, ShellType, Inodes
  <2>3. SubSeq(f, fsize[s] + 1, Len(f)) \in Seq(Line)
    <3>1. \A i \in fsize[s] + 1 .. Len(f) : f[i] \in Line
      BY <2>2, ElementOfSeq
    <3>2. fsize[s] + 1 \in Int /\ Len(f) \in Int
      BY <2>2
    <3> HIDE DEF f
    <3> QED BY <3>1, <3>2, SubSeqProperties
  <2>4. Adds(SubSeq(f, fsize[s] + 1, Len(f)))
    BY <1>1 DEF CheckRead
  <2> QED BY <1>0, <2>3, <2>4
<1>2. CASE Write(s)
  <2>1. loc[s].arg \in Line
    <3>1. loc[s].arg \in Line \cup {Blank}
      BY DEF TypeInv, TypeOK, ControlType, Locals
    <3> QED BY <1>2, <3>1 DEF Write, TypeInv, PointInv, PointOK
  <2>2. hist' = [hist EXCEPT ![s] = Append(@, loc[s].arg)]
    BY <1>2 DEF Write
  <2>3. Append(hist[s], loc[s].arg) \in Seq(Line)
    BY <2>1 DEF TypeInv, TypeOK, ShellType
  <2> QED BY <2>2, <2>3 DEF TypeInv, TypeOK, ShellType
<1>3. CASE OpenLoad(s)
  <2>1. UNCHANGED hist \/ (loc[s].j > 0 /\ dir[loc[s].j] # 0 /\ Adds(files[dir[loc[s].j]]))
    BY <1>3 DEF OpenLoad
  <2>2. loc[s].j \in Names
    BY ConstantsAssumption DEF TypeInv, TypeOK, ControlType, Locals, Names
  <2>3. dir[loc[s].j] # 0 => files[dir[loc[s].j]] \in Seq(Line)
    BY <2>2, ElementOfSeq DEF TypeInv, TypeOK, DiskType, Inodes
  <2>4. UNCHANGED hist => hist' \in [Shells -> Seq(Line)]
    BY DEF TypeInv, TypeOK, ShellType
  <2> QED BY <1>0, <2>1, <2>3, <2>4
<1>4. CASE ~CheckRead(s) /\ ~Write(s) /\ ~OpenLoad(s)
  <2>1. UNCHANGED hist \/ hist' = [hist EXCEPT ![s] = <<>>]
    BY <1>4
    DEF Act, Call, Step, Check, Log, Rotate, Open, Start, Release, LogHistory,
        PushHistory, BreakHistory, FlushHistory, IdleTick, RotateHistory,
        CheckStat, CheckOld, CheckReopen, WriteStat,
        RotStat, RotLock, RotCheck, RotQuit, RotScan, RotShift, RotCur,
        RotUnlock, RotFail, OpenLock, OpenFile, OpenUnlock, Crash
  <2>2. <<>> \in Seq(Line)
    BY EmptySeq
  <2> QED BY <2>1, <2>2 DEF TypeInv, TypeOK, ShellType
<1> QED BY <1>1, <1>2, <1>3, <1>4

(* A step of one shell keeps what the control points of all the shells     *)
(* promise.                                                                *)
LEMMA PointStep ==
  ASSUME NEW s \in Shells, TypeInv, Act(s)
  PROVE  PointInv'
<1>1. Frame(s) /\ Inodes \subseteq Inodes'
  BY FrameStep, InodesGrow DEF TypeInv
<1>2. PointOK(s)'
  <2> USE DEF TypeInv, TypeOK, ControlType, ShellType, DiskType, PointInv, PointOK
  <2>1. loc'[s].afd \in Inodes' \cup {0}
    <3>1. loc[s].afd \in Inodes' \cup {0}
      BY <1>1
    <3>2. CASE OpenFile(s)
      <4>1. dir[0] \in Inodes'
            \/ dir[0] = 0
        BY <1>1, ConstantsAssumption DEF Names
      <4>2. files' = Append(files, <<>>) => Len(files) + 1 \in Inodes'
        <5>1. files' = Append(files, <<>>) => Len(files') = Len(files) + 1
          BY NewFile, Zenon
        <5> QED BY <5>1, LenProperties DEF Inodes
      <4>3. \/ loc'[s].afd = dir[0]
            \/ loc'[s].afd = 0
            \/ loc'[s].afd = Len(files) + 1 /\ files' = Append(files, <<>>)
        <5>1. \/ \E i \in 1 .. MaxName : Keep(s, [loc[s] EXCEPT !.afd = dir[0], !.j = i - 1])
              \/ Keep(s, [loc[s] EXCEPT !.afd = dir[0]])
              \/ Keep(s, [loc[s] EXCEPT !.afd = Len(files) + 1]) /\ files' = Append(files, <<>>)
              \/ Keep(s, [loc[s] EXCEPT !.afd = 0])
          BY <3>2, Zenon DEF OpenFile
        <5>2. \A l : Keep(s, l) => loc'[s] = l
          BY DEF Keep
        <5>3. loc[s] \in Locals
          OBVIOUS
        <5>4. \A v : /\ [loc[s] EXCEPT !.afd = v].afd = v
                     /\ \A k : [loc[s] EXCEPT !.afd = v, !.j = k].afd = v
          BY <5>3, AfdUpdate
        <5>5. ASSUME NEW i \in 1 .. MaxName,
                     Keep(s, [loc[s] EXCEPT !.afd = dir[0], !.j = i - 1])
              PROVE  loc'[s].afd = dir[0]
          <6>1. [loc[s] EXCEPT !.afd = dir[0], !.j = i - 1].afd = dir[0]
            BY <5>3, AfdUpdate
          <6>2. loc'[s] = [loc[s] EXCEPT !.afd = dir[0], !.j = i - 1]
            BY <5>5 DEF Keep
          <6> QED BY <6>1, <6>2
        <5>6. Keep(s, [loc[s] EXCEPT !.afd = dir[0]]) => loc'[s].afd = dir[0]
          BY <5>2, <5>4
        <5>7. Keep(s, [loc[s] EXCEPT !.afd = 0]) => loc'[s].afd = 0
          BY <5>2, <5>4
        <5>8. Keep(s, [loc[s] EXCEPT !.afd = Len(files) + 1])
                => loc'[s].afd = Len(files) + 1
          BY <5>2, <5>4
        <5> QED BY <5>1, <5>5, <5>6, <5>7, <5>8
      <4> QED BY <4>1, <4>2, <4>3
    <3>3. CASE ~OpenFile(s)
      <4>1. loc'[s].afd = loc[s].afd \/ loc'[s].afd = 0
        <5>1. CASE Call(s)
          BY <5>1, ZenonT(30) DEF Call, Start, Release, LogHistory, PushHistory, BreakHistory,
            FlushHistory, IdleTick, RotateHistory, Keep, CallLog, NoLocals
        <5>2. CASE Check(s)
          BY <5>2 DEF Check, CheckStat, CheckOld, CheckRead, CheckReopen, AfterCheck, Keep, Done, NoLocals, Locals
        <5>3. CASE Log(s)
          BY <5>3 DEF Log, Write, WriteStat, Keep, Done, NoLocals, Locals
        <5>4. CASE Rotate(s)
          BY <5>4 DEF Rotate, RotStat, RotLock, RotCheck, RotQuit, RotScan, RotShift, RotCur,
                      RotUnlock, RotFail, Keep, Done, NoLocals, Locals
        <5>5. CASE OpenLock(s) \/ OpenLoad(s) \/ OpenUnlock(s)
          BY <5>5 DEF OpenLock, OpenLoad, OpenUnlock, OpenFailed, Keep, Done, NoLocals, Locals
        <5>6. CASE Crash(s)
          BY <5>6 DEF Crash, Keep, NoLocals
        <5> QED BY <3>3, <5>1, <5>2, <5>3, <5>4, <5>5, <5>6 DEF Act, Step, Open
      <4> QED BY <3>1, <4>1
    <3> QED BY <3>2, <3>3
  <2>2. pc'[s] = "rotShift" => loc'[s].j # 0
    <3>1. CASE RotScan(s)
      BY <3>1 DEF RotScan, Goto, Keep, Locals
    <3>2. CASE RotShift(s)
      BY <3>2 DEF RotShift, Goto, Keep, Locals
    <3>3. CASE ~RotScan(s) /\ ~RotShift(s)
      <4>1. pc'[s] # "rotShift"
        BY <3>3
      DEF Act, Call, Step, Check, Log, Rotate, Open, Start, Release, LogHistory,
          PushHistory, BreakHistory, FlushHistory, IdleTick, RotateHistory,
          CheckStat, CheckOld, CheckRead, CheckReopen, Write, WriteStat,
          RotStat, RotLock, RotCheck, RotQuit, RotCur,
          RotUnlock, RotFail, OpenLock, OpenFile, OpenLoad, OpenUnlock, Crash,
          Goto, Done, AfterCheck, OpenFailed, CallLog, Begin
      <4> QED BY <4>1
    <3> QED BY <3>1, <3>2, <3>3
  <2>3. pc'[s] \in {"chkOld", "chkRead", "chkReopen", "stat"} => fd'[s] # 0
    <3>1. CASE Check(s)
      BY <3>1 DEF Check, CheckStat, CheckOld, CheckRead, CheckReopen, AfterCheck, Goto, Done, open
    <3>2. CASE Log(s)
      BY <3>2 DEF Log, Write, WriteStat, Goto, Done, open
    <3>3. CASE ~Check(s) /\ ~Log(s)
      <4>1. pc'[s] \notin {"chkOld", "chkRead", "chkReopen", "stat"}
        BY <3>3, ZenonT(30)
      DEF Act, Call, Step, Rotate, Open, Start, Release, LogHistory,
          PushHistory, BreakHistory, FlushHistory, IdleTick, RotateHistory,
          RotStat, RotLock, RotCheck, RotQuit, RotScan, RotShift, RotCur,
          RotUnlock, RotFail, OpenLock, OpenFile, OpenLoad, OpenUnlock, Crash,
          Goto, Done, OpenFailed, CallLog, Begin
      <4> QED BY <4>1
    <3> QED BY <3>1, <3>2, <3>3
  <2>4. pc'[s] \in {"write", "stat"} => loc'[s].arg # Blank
    <3>1. CASE Check(s)
      BY <3>1 DEF Check, CheckStat, CheckOld, CheckRead, CheckReopen, AfterCheck, Goto, Done, Keep
    <3>2. CASE Log(s)
      BY <3>2 DEF Log, Write, WriteStat, Goto, Keep, Done, Locals
    <3>3. CASE ~Check(s) /\ ~Log(s)
      <4>1. pc'[s] \notin {"write", "stat"}
        BY <3>3
      DEF Act, Call, Step, Rotate, Open, Start, Release, LogHistory,
          PushHistory, BreakHistory, FlushHistory, IdleTick, RotateHistory,
          RotStat, RotLock, RotCheck, RotQuit, RotScan, RotShift, RotCur,
          RotUnlock, RotFail, OpenLock, OpenFile, OpenLoad, OpenUnlock, Crash,
          Goto, Done, OpenFailed, CallLog, Begin
      <4> QED BY <4>1
    <3> QED BY <3>1, <3>2, <3>3
  <2> QED BY <2>1, <2>2, <2>3, <2>4
<1>3. ASSUME NEW t \in Shells \ {s}
      PROVE  PointOK(t)'
  BY <1>1, <1>3 DEF Frame, TypeInv, PointInv, PointOK
<1> QED BY <1>2, <1>3 DEF PointInv

(* The inductive invariant of the types holds in every state.              *)
LEMMA TypeInvariant == Spec => []TypeInv
<1>1. Init => TypeInv
  <2> SUFFICES ASSUME Init
               PROVE  TypeInv
    OBVIOUS
  <2>1. files = <<>> /\ files \in Seq(Seq(Line)) /\ Inodes = {}
    <3>1. files = <<>>
      BY DEF Init
    <3>2. files \in Seq(Seq(Line)) /\ Len(files) = 0
      BY <3>1, EmptySeq
    <3> QED BY <3>1, <3>2 DEF Inodes
  <2>2. DiskType
    <3>1. lck \in BOOLEAN /\ dir \in [Names -> Inodes \cup {0}] /\ okd \subseteq Line
      BY DEF Init
    <3>2. used \in [{"logs", "rots", "starts", "pushes"} -> Nat]
      BY DEF Init
    <3> QED BY <2>1, <3>1, <3>2 DEF DiskType
  <2>3. ControlType
    BY NoLocalsType DEF Init, ControlType, PCs
  <2>4. ShellType
    <3>1. hist \in [Shells -> Seq(Line)]
      BY EmptySeq DEF Init
    <3>2. rot \in [Shells -> BOOLEAN] /\ pend \in [Shells -> BOOLEAN]
      BY Zenon DEF Init
    <3>3. /\ fd \in [Shells -> Inodes \cup {0}]
          /\ fsize \in [Shells -> Nat]
          /\ cnt \in [Shells -> Nat]
      BY DEF Init
    <3> QED BY <3>1, <3>2, <3>3 DEF ShellType
  <2>5. PointInv
    BY DEF Init, PointInv, PointOK, NoLocals
  <2> QED BY <2>2, <2>3, <2>4, <2>5 DEF TypeInv, TypeOK
<1>2. TypeInv /\ [Next]_vars => TypeInv'
  <2> SUFFICES ASSUME TypeInv, [Next]_vars
               PROVE  TypeInv'
    OBVIOUS
  <2>1. ASSUME NEW s \in Shells, Act(s)
        PROVE  TypeInv'
    <3>1. DiskType'
      BY <2>1, FilesStep, DirStep, LckStep, OkdStep, UsedStep DEF DiskType, TypeInv
    <3>2. ControlType'
      BY <2>1, PcStep, LocStep DEF ControlType, TypeInv
    <3>3. ShellType'
      BY <2>1, FdStep, CntStep, BitStep, HistStep DEF ShellType
    <3>4. PointInv'
      BY <2>1, PointStep
    <3> QED BY <3>1, <3>2, <3>3, <3>4 DEF TypeInv, TypeOK
  <2>2. CASE RemoveStaleLock
    <3>1. lck' \in BOOLEAN
      BY <2>2 DEF RemoveStaleLock
    <3>2. UNCHANGED <<files, dir, pc, fd, fsize, cnt, rot, pend, hist, loc, okd, used>>
      BY <2>2 DEF RemoveStaleLock, disk, open
    <3> QED
      BY <3>1, <3>2 DEF TypeInv, TypeOK, DiskType, ControlType, ShellType, PointInv, PointOK, Inodes
  <2>3. CASE UNCHANGED vars
    BY <2>3 DEF vars, TypeInv, TypeOK, DiskType, ControlType, ShellType, PointInv, PointOK, Inodes
  <2> QED BY <2>1, <2>2, <2>3 DEF Next, Act
<1> QED BY <1>1, <1>2, PTL DEF Spec

(* The state of the history files and of the shells is well typed, the     *)
(* descriptors, the names and the loop counters of the rotation included   *)
(* (TypeOK).                                                               *)
THEOREM TypeCorrect == Spec => []TypeOK
<1>1. TypeInv => TypeOK
  BY DEF TypeInv
<1> QED BY <1>1, TypeInvariant, PTL

(* No shell gives up on the lock, and no open fails; a shell may still be  *)
(* killed anywhere, a write or a rename may still fail.                    *)
NoOpenFailure == Faults \cap {"timeout", "open"} = {}

(* What makes the lock exclusive: a shell between the creation of the lock *)
(* file and its removal finds it there, and none is at the "failed:" that  *)
(* unlinks the lock of another.                                            *)
LockInv ==
  /\ MutualExclusion
  /\ \A s \in Shells :
       /\ pc[s] \in LockHeld => lck
       /\ pc[s] # "rotUndo"
       /\ pc[s] \in {"openLoad", "openUnlock"} => loc[s].afd # 0

(* What a step does to the lock: take it, drop it, or leave it as it is.   *)
Takes(s) == pc[s] \notin LockHeld /\ ~lck /\ lck' /\ pc'[s] \in LockHeld
Drops(s) == pc[s] \in LockHeld /\ ~lck' /\ pc'[s] \notin LockHeld
Leaves(s) == (lck' <=> lck) /\ (pc'[s] \in LockHeld => pc[s] \in LockHeld)

(* The lock file is created only where it is not, and removed only by the  *)
(* shell that is past its creation.                                        *)
LEMMA LockMoves ==
  ASSUME NoOpenFailure, NEW s \in Shells, TypeInv, LockInv, Act(s)
  PROVE  /\ Takes(s) \/ Drops(s) \/ Leaves(s)
         /\ pc'[s] # "rotUndo"
<1> USE DEF TypeInv, TypeOK, ControlType, LockInv, Takes, Drops, Leaves,
            LockHeld, Goto, Done
<1>1. CASE Call(s)
  BY <1>1 DEF Call, Start, Release, LogHistory, PushHistory, BreakHistory,
              FlushHistory, IdleTick, RotateHistory, CallLog
<1>2. CASE Check(s)
  BY <1>2 DEF Check, CheckStat, CheckOld, CheckRead, CheckReopen, AfterCheck
<1>3. CASE Log(s)
  BY <1>3 DEF Log, Write, WriteStat
<1>4. CASE Rotate(s)
  <2>1. CASE RotStat(s)
    BY <2>1 DEF RotStat
  <2>2. CASE RotLock(s)
    BY <2>2 DEF RotLock, NoOpenFailure
  <2>3. CASE RotCheck(s)
    BY <2>3 DEF RotCheck
  <2>4. CASE RotQuit(s) \/ RotUnlock(s) \/ RotFail(s)
    BY <2>4 DEF RotQuit, RotUnlock, RotFail
  <2>5. CASE RotScan(s)
    <3>1. pc[s] = "rotScan" /\ UNCHANGED lck
      BY <2>5 DEF RotScan
    <3>2. pc'[s] \in {"rotCur", "rotShift"}
      BY <2>5 DEF RotScan
    <3> QED BY <3>1, <3>2
  <2>6. CASE RotShift(s)
    <3>1. pc[s] = "rotShift" /\ UNCHANGED lck
      BY <2>6 DEF RotShift
    <3>2. pc'[s] \in {"rotCur", "rotShift", "rotFail"}
      BY <2>6 DEF RotShift
    <3> QED BY <3>1, <3>2
  <2>7. CASE RotCur(s)
    <3>1. pc[s] = "rotCur" /\ UNCHANGED lck
      BY <2>7 DEF RotCur
    <3>2. pc'[s] \in {"rotUnlock", "rotFail"}
      BY <2>7 DEF RotCur
    <3> QED BY <3>1, <3>2
  <2> QED BY <1>4, <2>1, <2>2, <2>3, <2>4, <2>5, <2>6, <2>7 DEF Rotate
<1>5. CASE OpenLock(s)
  BY <1>5 DEF OpenLock, GiveUp, NoOpenFailure
<1>6. CASE OpenFile(s)
  <2>1. pc[s] = "openFile" /\ UNCHANGED lck
    BY <1>6 DEF OpenFile
  <2>2. pc'[s] \in {"openLoad", "openUnlock"}
    BY <1>6 DEF OpenFile
  <2> QED BY <2>1, <2>2
<1>7. CASE OpenLoad(s)
  BY <1>7 DEF OpenLoad
<1>8. CASE OpenUnlock(s)
  BY <1>8 DEF OpenUnlock
<1>9. CASE Crash(s)
  BY <1>9 DEF Crash
<1> QED BY <1>1, <1>2, <1>3, <1>4, <1>5, <1>6, <1>7, <1>8, <1>9 DEF Act, Step, Open

(* A shell that unlocks after open_history has the file open.              *)
LEMMA OpenedStep ==
  ASSUME NoOpenFailure, NEW s \in Shells, TypeInv, LockInv, Act(s)
  PROVE  pc'[s] \in {"openLoad", "openUnlock"} => loc'[s].afd # 0
<1> USE DEF TypeInv, TypeOK, ControlType
<1>1. CASE OpenFile(s)
  <2>1. Len(files) + 1 # 0
    BY LenProperties DEF DiskType
  <2>2. \/ dir[0] # 0 /\ \E i \in 1 .. MaxName : Keep(s, [loc[s] EXCEPT !.afd = dir[0], !.j = i - 1])
        \/ dir[0] # 0 /\ Keep(s, [loc[s] EXCEPT !.afd = dir[0]])
        \/ Keep(s, [loc[s] EXCEPT !.afd = Len(files) + 1])
    BY <1>1, Zenon DEF OpenFile, NoOpenFailure
  <2>3. ASSUME NEW i, Keep(s, [loc[s] EXCEPT !.afd = dir[0], !.j = i - 1])
        PROVE  loc'[s].afd = dir[0]
    BY <2>3, AfdUpdate DEF Keep
  <2>4. ASSUME NEW v, Keep(s, [loc[s] EXCEPT !.afd = v])
        PROVE  loc'[s].afd = v
    BY <2>4, AfdUpdate DEF Keep
  <2>5. \A v : Keep(s, [loc[s] EXCEPT !.afd = v]) => loc'[s].afd = v
    BY <2>4
  <2> QED BY <2>1, <2>2, <2>3, <2>5
<1>2. CASE OpenLoad(s)
  <2>1. pc[s] = "openLoad" /\ loc[s].afd # 0
    BY <1>2 DEF OpenLoad, LockInv
  <2>2. CASE UNCHANGED loc
    BY <2>1, <2>2
  <2>3. CASE Keep(s, [loc[s] EXCEPT !.j = loc[s].j - 1])
    <3>1. loc'[s] = [loc[s] EXCEPT !.j = loc[s].j - 1]
      BY <2>3 DEF Keep
    <3> QED BY <2>1, <3>1, AfdUpdate
  <2> QED BY <1>2, <2>2, <2>3 DEF OpenLoad
<1>3. CASE ~OpenFile(s) /\ ~OpenLoad(s)
  <2>1. pc'[s] \notin {"openLoad", "openUnlock"}
    BY <1>3
    DEF Act, Call, Step, Check, Log, Rotate, Open, Start, Release, LogHistory,
        PushHistory, BreakHistory, FlushHistory, IdleTick, RotateHistory,
        CheckStat, CheckOld, CheckRead, CheckReopen, Write, WriteStat,
        RotStat, RotLock, RotCheck, RotQuit, RotScan, RotShift, RotCur,
        RotUnlock, RotFail, OpenLock, OpenUnlock, Crash,
        Goto, Done, AfterCheck, OpenFailed, CallLog, Begin
  <2> QED BY <2>1
<1> QED BY <1>1, <1>2, <1>3

(* The inductive invariant of the lock holds in every state, as long as no *)
(* shell gives up on the lock or on an open.                               *)
LEMMA LockInvariant ==
  ASSUME NoOpenFailure
  PROVE  Spec => []LockInv
<1>1. Init => LockInv
  BY DEF Init, LockInv, MutualExclusion, LockHeld
<1>2. TypeInv /\ LockInv /\ [Next]_vars => LockInv'
  <2> SUFFICES ASSUME TypeInv, LockInv, [Next]_vars
               PROVE  LockInv'
    OBVIOUS
  <2>1. ASSUME NEW s \in Shells, Act(s)
        PROVE  LockInv'
    <3>1. Frame(s)
      BY <2>1, FrameStep DEF TypeInv
    <3>2. Takes(s) \/ Drops(s) \/ Leaves(s)
      BY <2>1, LockMoves
    <3>3. /\ pc'[s] # "rotUndo"
          /\ pc'[s] \in {"openLoad", "openUnlock"} => loc'[s].afd # 0
      BY <2>1, LockMoves, OpenedStep
    <3>4. MutualExclusion'
      BY <3>1, <3>2 DEF Frame, Takes, Drops, Leaves, LockInv, MutualExclusion
    <3>5. ASSUME NEW t \in Shells
          PROVE  pc'[t] \in LockHeld => lck'
      BY <3>1, <3>2 DEF Frame, Takes, Drops, Leaves, LockInv, MutualExclusion
    <3>6. ASSUME NEW t \in Shells
          PROVE  /\ pc'[t] # "rotUndo"
                 /\ pc'[t] \in {"openLoad", "openUnlock"} => loc'[t].afd # 0
      BY <3>1, <3>3 DEF Frame, LockInv
    <3> QED BY <3>4, <3>5, <3>6 DEF LockInv
  <2>2. CASE RemoveStaleLock
    BY <2>2 DEF RemoveStaleLock, LockInv, MutualExclusion
  <2>3. CASE UNCHANGED vars
    BY <2>3 DEF vars, LockInv, MutualExclusion
  <2> QED BY <2>1, <2>2, <2>3 DEF Next, Act
<1> QED BY <1>1, <1>2, TypeInvariant, PTL DEF Spec

(* filename.lck keeps the shells apart while they rename, create or load   *)
(* the history files (acquire_history_lck, rotate_history, open_history),  *)
(* whatever shells are killed and whatever writes and renames fail, as     *)
(* long as no shell gives up on the lock or on an open. The assumption is  *)
(* needed: the run HistFile_foreignlock shows how a shell that gives up    *)
(* removes the lock of another.                                            *)
THEOREM LockExcludes ==
  ASSUME NoOpenFailure
  PROVE  Spec => []MutualExclusion
<1>1. LockInv => MutualExclusion
  BY DEF LockInv
<1> QED BY <1>1, LockInvariant, PTL
=============================================================================
