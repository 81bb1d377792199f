------------------------------ MODULE HistFile ------------------------------
(***************************************************************************)
(* The history file that the shells of one user share (TTY::open_history,  *)
(* check_history, rotate_history, log_hist and the lock file of            *)
(* src/src/ttycook.cpp).  Each shell is a process that runs one of these   *)
(* operations at a time; the operations of different shells interleave at  *)
(* their system calls.                                                     *)
(*                                                                         *)
(* A file is an inode (a position of files) holding a sequence of lines;   *)
(* dir names the inodes: 0 is "filename", n > 0 is "filename.n".           *)
(***************************************************************************)
EXTENDS Integers, Sequences, FiniteSets

CONSTANTS Shells,       \* the processes that open the same history file
          RotateAt,     \* hist.rotate_line_cnt, 1000 in the code
          MaxName,      \* the largest n of a name "filename.n"
          MaxLogs,      \* bound: lines logged by all the shells
          MaxRotations, \* bound: rotations begun
          MaxStarts,    \* bound: shells started
          MaxPushes,    \* bound: continuations buffered
          MaxActive,    \* bound: shells inside an operation at once
          Faults        \* what may fail, a subset of FaultKinds

(* A lock that times out, an open, a write or a rename that fails, a shell *)
(* that is killed in the middle of an operation.                           *)
FaultKinds == {"timeout", "open", "write", "rename", "crash"}

ASSUME ConstantsAssumption ==
  /\ RotateAt \in Nat \ {0}
  /\ MaxName \in Nat \ {0}
  /\ {MaxLogs, MaxRotations, MaxStarts, MaxPushes, MaxActive} \subseteq Nat
  /\ Faults \subseteq FaultKinds

VARIABLES
  files,   \* files[i]: the lines in inode i
  dir,     \* dir[n]: the inode that is named filename[.n], 0 when none is
  lck,     \* filename.lck exists
  pc,      \* pc[s]: where shell s is in its operation
  fd,      \* hist.fd[s]: the inode open for appending, 0 when filename = NULL
  fsize,   \* hist.fsize[s]: how much of that inode was read
  cnt,     \* hist.line_cnt[s]
  rot,     \* the TTYS_ROTATE_HISTORY bit of shell s
  pend,    \* hist.hist_len[s] > 0, a continuation is buffered
  hist,    \* the lines in the memory of shell s, oldest first
  loc,     \* the local variables of the operation of shell s
  okd,     \* the lines whose log_hist returned 0
  used     \* how much of the bounds is used up

vars == <<files, dir, lck, pc, fd, fsize, cnt, rot, pend, hist, loc, okd, used>>
disk == <<files, dir>>
open == <<fd, fsize, cnt>>

Names == 0 .. MaxName
Line == Shells \X Nat       \* the author of a line and its number
Blank == <<>>                \* a line of spaces only

(* The control points.  Those of LockHeld lie between the creation of the  *)
(* lock file and its removal.                                              *)
LockHeld == {"rotCheck", "rotScan", "rotShift", "rotCur", "rotUnlock",
             "rotQuit", "rotFail", "openFile", "openLoad", "openUnlock"}
Steps == LockHeld \cup
         {"chkStat", "chkOld", "chkRead", "chkReopen", "write", "stat",
          "rotStat", "rotLock", "openLock", "rotUndo"}
PCs == Steps \cup {"off", "idle"}

(* The locals: who called check_history and open_history, the line being   *)
(* logged, whether its write succeeded, the size and the counter of        *)
(* rotate_history, the inodes being read and opened, whether check_history *)
(* met another file under the name, whether the rotation is automatic.     *)
NoLocals == [ret |-> "none", opn |-> "none", arg |-> Blank, ok |-> FALSE,
             x |-> 0, j |-> 0, afd |-> 0, moved |-> FALSE, auto |-> FALSE]

Active == {s \in Shells : pc[s] \in Steps}

(* The lines of the files that still have a name.                          *)
OnDisk == UNION {{files[dir[n]][k] : k \in 1 .. Len(files[dir[n]])} :
                  n \in {m \in Names : dir[m] # 0}}

Init ==
  /\ files = <<>>
  /\ dir = [n \in Names |-> 0]
  /\ lck = FALSE
  /\ pc = [s \in Shells |-> "off"]
  /\ fd = [s \in Shells |-> 0]
  /\ fsize = [s \in Shells |-> 0]
  /\ cnt = [s \in Shells |-> 0]
  /\ rot = [s \in Shells |-> FALSE]
  /\ pend = [s \in Shells |-> FALSE]
  /\ hist = [s \in Shells |-> <<>>]
  /\ loc = [s \in Shells |-> NoLocals]
  /\ okd = {}
  /\ used = [logs |-> 0, rots |-> 0, starts |-> 0, pushes |-> 0]

-----------------------------------------------------------------------------
(* Control.  A shell moves to a point, or ends its operation and its       *)
(* locals go out of scope.                                                 *)
Goto(s, p) == pc' = [pc EXCEPT ![s] = p]
Keep(s, l) == loc' = [loc EXCEPT ![s] = l]
Done(s) == Goto(s, "idle") /\ Keep(s, NoLocals)
Begin(s) == pc[s] = "idle" /\ Cardinality(Active) < MaxActive
Take(b) == used' = [used EXCEPT ![b] = @ + 1]

(* Where check_history returns to, r being the rotate bit by then.         *)
AfterCheck(s, r) ==
  \/ /\ loc[s].ret = "log" /\ loc[s].arg # Blank
     /\ Goto(s, "write") /\ UNCHANGED loc
  \/ loc[s].ret = "log" /\ loc[s].arg = Blank /\ Done(s)
  \/ /\ loc[s].ret = "tick" /\ r
     /\ Goto(s, "rotStat") /\ Keep(s, [NoLocals EXCEPT !.auto = TRUE])
  \/ loc[s].ret = "tick" /\ ~r /\ Done(s)
  \/ loc[s].ret = "open" /\ Done(s)

(* Where open_history returns -1 to.                                       *)
OpenFailed(s) ==
  \/ loc[s].opn = "rotate" /\ Goto(s, "rotUndo") /\ UNCHANGED loc
  \/ loc[s].opn # "rotate" /\ Done(s)

(* close_history: frees the buffered continuation with the rest.           *)
Close(s) ==
  /\ fd' = [fd EXCEPT ![s] = 0]
  /\ fsize' = [fsize EXCEPT ![s] = 0]
  /\ cnt' = [cnt EXCEPT ![s] = 0]
  /\ pend' = [pend EXCEPT ![s] = FALSE]

(* hist.fd, with nothing of it read.                                       *)
Attach(s, i) ==
  /\ fd' = [fd EXCEPT ![s] = i]
  /\ fsize' = [fsize EXCEPT ![s] = 0]
  /\ cnt' = [cnt EXCEPT ![s] = 0]

-----------------------------------------------------------------------------
(* The application's calls.                                                *)

(* lc_tty_open_history by a new shell.                                     *)
Start(s) ==
  /\ pc[s] = "off" /\ used.starts < MaxStarts
  /\ Cardinality(Active) < MaxActive
  /\ Take("starts")
  /\ Goto(s, "openLock") /\ Keep(s, [NoLocals EXCEPT !.opn = "start"])
  /\ UNCHANGED <<disk, lck, open, rot, pend, hist, okd>>

(* lc_tty_release: the shell exits.                                        *)
Release(s) ==
  /\ Begin(s)
  /\ Goto(s, "off")
  /\ Close(s)
  /\ hist' = [hist EXCEPT ![s] = <<>>]
  /\ rot' = [rot EXCEPT ![s] = FALSE]
  /\ UNCHANGED <<disk, lck, loc, okd, used>>

CallLog(s, line) ==
  /\ Goto(s, "chkStat")
  /\ Keep(s, [NoLocals EXCEPT !.ret = "log", !.arg = line])

(* lc_tty_log_history of a line, which may be blank.                       *)
LogHistory(s) ==
  /\ Begin(s)
  /\ \/ /\ used.logs < MaxLogs /\ Take("logs")
        /\ CallLog(s, <<s, used.logs + 1>>)
     \/ CallLog(s, Blank) /\ UNCHANGED used
  /\ UNCHANGED <<disk, lck, open, rot, pend, hist, okd>>

(* lc_tty_push_history: the line is to be continued by the next one.       *)
PushHistory(s) ==
  /\ Begin(s) /\ used.pushes < MaxPushes /\ Take("pushes")
  /\ pend' = [pend EXCEPT ![s] = TRUE]
  /\ UNCHANGED <<disk, lck, pc, open, rot, hist, loc, okd>>

(* lc_tty_break_history.                                                   *)
BreakHistory(s) ==
  /\ Begin(s) /\ pend[s]
  /\ pend' = [pend EXCEPT ![s] = FALSE]
  /\ UNCHANGED <<disk, lck, pc, open, rot, hist, loc, okd, used>>

(* lc_tty_flush_history: logs what is buffered, an empty line when nothing *)
(* is.  hist_len is reset when log_hist returns, which no other step of    *)
(* the shell comes before.                                                 *)
FlushHistory(s) ==
  /\ Begin(s)
  /\ \/ /\ pend[s] /\ used.logs < MaxLogs /\ Take("logs")
        /\ CallLog(s, <<s, used.logs + 1>>)
     \/ ~pend[s] /\ CallLog(s, Blank) /\ UNCHANGED used
  /\ pend' = [pend EXCEPT ![s] = FALSE]
  /\ UNCHANGED <<disk, lck, open, rot, hist, okd>>

(* init_get_line after an idle period: check, then rotate if it is due.    *)
IdleTick(s) ==
  /\ Begin(s) /\ fd[s] # 0
  /\ rot[s] => used.rots < MaxRotations
  /\ Goto(s, "chkStat") /\ Keep(s, [NoLocals EXCEPT !.ret = "tick"])
  /\ UNCHANGED <<disk, lck, open, rot, pend, hist, okd, used>>

(* lc_tty_rotate_history.                                                  *)
RotateHistory(s) ==
  /\ Begin(s) /\ used.rots < MaxRotations
  /\ Goto(s, "rotStat") /\ UNCHANGED loc
  /\ UNCHANGED <<disk, lck, open, rot, pend, hist, okd, used>>

-----------------------------------------------------------------------------
(* check_history.                                                          *)

(* fstat of fd and the open of the name.  They are one step: once the      *)
(* condition of the first holds it goes on holding, so what happens        *)
(* between the two could as well happen before both.  late stands for the  *)
(* sixty seconds since the last check for a rotation.                      *)
CheckStat(s) ==
  /\ pc[s] = "chkStat"
  /\ \E late \in BOOLEAN :
       LET changed == /\ fd[s] # 0
                      /\ fsize[s] < Len(files[fd[s]]) \/ rot[s] \/ late
       IN  \/ /\ ~changed \/ dir[0] = 0 \/ "open" \in Faults
              /\ AfterCheck(s, rot[s])
           \/ /\ changed /\ dir[0] = fd[s]
              /\ Goto(s, "chkRead")
              /\ Keep(s, [loc[s] EXCEPT !.moved = FALSE])
           \/ /\ changed /\ dir[0] \notin {0, fd[s]}
              /\ Goto(s, "chkOld")
              /\ Keep(s, [loc[s] EXCEPT !.moved = TRUE])
  /\ UNCHANGED <<disk, lck, open, rot, pend, hist, okd, used>>

(* The name is another file: is filename.1 the one that was open?          *)
CheckOld(s) ==
  /\ pc[s] = "chkOld"
  /\ \/ dir[1] = fd[s] /\ Goto(s, "chkRead")
     \/ (dir[1] # fd[s] \/ "open" \in Faults) /\ Goto(s, "chkReopen")
  /\ UNCHANGED <<disk, lck, open, rot, pend, hist, loc, okd, used>>

(* Read the rest of the file that is open, to its end.                     *)
CheckRead(s) ==
  /\ pc[s] = "chkRead"
  /\ LET new == SubSeq(files[fd[s]], fsize[s] + 1, Len(files[fd[s]]))
     IN  /\ hist' = [hist EXCEPT ![s] = @ \o new]
         /\ fsize' = [fsize EXCEPT ![s] = @ + Len(new)]
         /\ cnt' = [cnt EXCEPT ![s] = @ + Len(new)]
  /\ \/ loc[s].moved /\ Goto(s, "chkReopen") /\ UNCHANGED loc
     \/ ~loc[s].moved /\ AfterCheck(s, rot[s])
  /\ UNCHANGED <<disk, lck, fd, rot, pend, okd, used>>

(* Mutant: the count and the rotate bit of the old file are kept.          *)
CheckReopenKeepsBit(s) ==
  /\ pc[s] = "chkReopen"
  /\ \/ /\ dir[0] # 0
        /\ fd' = [fd EXCEPT ![s] = dir[0]]
        /\ fsize' = [fsize EXCEPT ![s] = 0]
        /\ AfterCheck(s, rot[s])
     \/ /\ dir[0] = 0 \/ "open" \in Faults
        /\ AfterCheck(s, rot[s])
        /\ UNCHANGED <<fd, fsize>>
  /\ UNCHANGED <<disk, lck, cnt, rot, pend, hist, okd, used>>

(* Open the file that has the name now; nothing of it is read here.        *)
CheckReopen(s) ==
  /\ pc[s] = "chkReopen"
  /\ \/ /\ dir[0] # 0
        /\ Attach(s, dir[0])
        /\ rot' = [rot EXCEPT ![s] = FALSE]
        /\ AfterCheck(s, FALSE)
     \/ /\ dir[0] = 0 \/ "open" \in Faults
        /\ AfterCheck(s, rot[s])
        /\ UNCHANGED <<open, rot>>
  /\ UNCHANGED <<disk, lck, pend, hist, okd, used>>

-----------------------------------------------------------------------------
(* log_hist, after its check_history.                                      *)

(* lc_add_history, then the O_APPEND write.  A shell with no file only     *)
(* remembers the line, and log_hist returns 0.                             *)
Write(s) ==
  /\ pc[s] = "write"
  /\ hist' = [hist EXCEPT ![s] = Append(@, loc[s].arg)]
  /\ \/ /\ fd[s] = 0
        /\ okd' = okd \cup {loc[s].arg}
        /\ Done(s)
        /\ UNCHANGED files
     \/ /\ fd[s] # 0
        /\ files' = [files EXCEPT ![fd[s]] = Append(@, loc[s].arg)]
        /\ Goto(s, "stat") /\ Keep(s, [loc[s] EXCEPT !.ok = TRUE])
        /\ UNCHANGED okd
     \/ /\ fd[s] # 0 /\ "write" \in Faults
        /\ Goto(s, "stat")
        /\ UNCHANGED <<files, loc, okd>>
  /\ UNCHANGED <<dir, lck, open, rot, pend, used>>

(* Mutant: fsize moved by the length of the line that was written.         *)
WriteStatOwnLine(s) ==
  /\ pc[s] = "stat"
  /\ fsize' = [fsize EXCEPT ![s] = @ + 1]
  /\ cnt' = [cnt EXCEPT ![s] = @ + 1]
  /\ rot' = [rot EXCEPT ![s] = @ \/ (loc[s].ok /\ cnt[s] + 1 >= RotateAt)]
  /\ okd' = IF loc[s].ok THEN okd \cup {loc[s].arg} ELSE okd
  /\ Done(s)
  /\ UNCHANGED <<disk, lck, fd, pend, hist, used>>

(* The fstat that moves fsize to the end of the file, and the count.       *)
WriteStat(s) ==
  /\ pc[s] = "stat"
  /\ fsize' = [fsize EXCEPT ![s] = Len(files[fd[s]])]
  /\ cnt' = [cnt EXCEPT ![s] = @ + 1]
  /\ rot' = [rot EXCEPT ![s] = @ \/ (loc[s].ok /\ cnt[s] + 1 >= RotateAt)]
  /\ okd' = IF loc[s].ok THEN okd \cup {loc[s].arg} ELSE okd
  /\ Done(s)
  /\ UNCHANGED <<disk, lck, fd, pend, hist, used>>

-----------------------------------------------------------------------------
(* rotate_history.                                                         *)

(* The stat before the lock.  A name that is gone is opened again.         *)
RotStat(s) ==
  /\ pc[s] = "rotStat"
  /\ Take("rots")
  /\ rot' = [rot EXCEPT ![s] = FALSE]
  /\ \/ fd[s] = 0 /\ Done(s) /\ UNCHANGED <<open, pend>>
     \/ /\ fd[s] # 0 /\ dir[0] = 0
        /\ Close(s)
        /\ Goto(s, "openLock") /\ Keep(s, [NoLocals EXCEPT !.opn = "reopen"])
     \/ /\ fd[s] # 0 /\ dir[0] # 0
        /\ Goto(s, "rotLock")
        /\ Keep(s, [loc[s] EXCEPT !.x = Len(files[dir[0]])])
        /\ UNCHANGED <<open, pend>>
  /\ UNCHANGED <<disk, lck, hist, okd>>

(* acquire_history_lck gives up: the lock file was there a hundred times,  *)
(* or cannot be made for another reason than EEXIST.                       *)
GiveUp == (lck /\ "timeout" \in Faults) \/ "open" \in Faults

(* Mutant: O_EXCL left out of the open of the lock file.                   *)
RotLockShared(s) ==
  /\ pc[s] = "rotLock"
  /\ lck' = TRUE /\ Goto(s, "rotCheck")
  /\ UNCHANGED <<disk, open, rot, pend, hist, loc, okd, used>>

(* acquire_history_lck: O_CREAT | O_EXCL, tried a hundred times.           *)
RotLock(s) ==
  /\ pc[s] = "rotLock"
  /\ \/ ~lck /\ lck' = TRUE /\ Goto(s, "rotCheck") /\ UNCHANGED loc
     \/ GiveUp /\ Done(s) /\ UNCHANGED lck
  /\ UNCHANGED <<disk, open, rot, pend, hist, okd, used>>

(* The stat under the lock: a file that shrank was rotated by another.     *)
RotCheck(s) ==
  /\ pc[s] = "rotCheck"
  /\ \/ dir[0] = 0 /\ Goto(s, "rotFail")
     \/ dir[0] # 0 /\ loc[s].x > Len(files[dir[0]]) /\ Goto(s, "rotQuit")
     \/ dir[0] # 0 /\ loc[s].x <= Len(files[dir[0]]) /\ Goto(s, "rotScan")
  /\ UNCHANGED <<disk, lck, open, rot, pend, hist, loc, okd, used>>

(* Already rotated: drop the lock, then open the new file.                 *)
RotQuit(s) ==
  /\ pc[s] = "rotQuit"
  /\ lck' = FALSE
  /\ Close(s)
  /\ Goto(s, "openLock") /\ Keep(s, [NoLocals EXCEPT !.opn = "reopen"])
  /\ UNCHANGED <<disk, rot, hist, okd, used>>

(* i is the first n for which filename.n does not exist.                   *)
FirstFree(i) == dir[i] = 0 /\ \A k \in 1 .. i - 1 : dir[k] # 0

(* Mutant: the loop starts one file too low.                               *)
RotScanLow(s) ==
  /\ pc[s] = "rotScan"
  /\ \E i \in 1 .. MaxName :
       /\ FirstFree(i)
       /\ Goto(s, IF i = 1 THEN "rotCur" ELSE "rotShift")
       /\ Keep(s, [loc[s] EXCEPT !.j = i - 2])
  /\ UNCHANGED <<disk, lck, open, rot, pend, hist, okd, used>>

(* Mutant: filename becomes filename.1 with no regard to the others.       *)
RotScanNoShift(s) ==
  /\ pc[s] = "rotScan"
  /\ Goto(s, "rotCur")
  /\ UNCHANGED <<disk, lck, open, rot, pend, hist, loc, okd, used>>

RotScan(s) ==
  /\ pc[s] = "rotScan"
  /\ \E i \in 1 .. MaxName :
       /\ FirstFree(i)
       /\ Goto(s, IF i = 1 THEN "rotCur" ELSE "rotShift")
       /\ Keep(s, [loc[s] EXCEPT !.j = i - 1])
  /\ UNCHANGED <<disk, lck, open, rot, pend, hist, okd, used>>

(* rename( filename.m, filename.n ), which replaces what n names.          *)
Rename(m, n) == dir' = [dir EXCEPT ![n] = dir[m], ![m] = 0]

(* rename fails when the old name is gone.                                 *)
MayFail(m) == dir[m] = 0 \/ "rename" \in Faults

(* filename.j becomes filename.j+1.                                        *)
RotShift(s) ==
  /\ pc[s] = "rotShift"
  /\ LET j == loc[s].j
     IN  \/ /\ dir[j] # 0
            /\ Rename(j, j + 1)
            /\ Goto(s, IF j = 1 THEN "rotCur" ELSE "rotShift")
            /\ Keep(s, [loc[s] EXCEPT !.j = j - 1])
         \/ MayFail(j) /\ Goto(s, "rotFail") /\ UNCHANGED <<dir, loc>>
  /\ UNCHANGED <<files, lck, open, rot, pend, hist, okd, used>>

(* filename becomes filename.1 and is closed.                              *)
RotCur(s) ==
  /\ pc[s] = "rotCur"
  /\ \/ dir[0] # 0 /\ Rename(0, 1) /\ Close(s) /\ Goto(s, "rotUnlock")
     \/ MayFail(0) /\ Goto(s, "rotFail") /\ UNCHANGED <<dir, open, pend>>
  /\ UNCHANGED <<files, lck, rot, hist, loc, okd, used>>

(* The lock is dropped; open_history takes it again to make the new file.  *)
RotUnlock(s) ==
  /\ pc[s] = "rotUnlock"
  /\ lck' = FALSE
  /\ Goto(s, "openLock") /\ Keep(s, [NoLocals EXCEPT !.opn = "rotate"])
  /\ UNCHANGED <<disk, open, rot, pend, hist, okd, used>>

(* "failed:" unlinks the lock file, at rotFail its own, at rotUndo (when   *)
(* open_history failed) whoever's it is.                                   *)
RotFail(s) ==
  /\ pc[s] \in {"rotFail", "rotUndo"}
  /\ lck' = FALSE
  /\ Done(s)
  /\ UNCHANGED <<disk, open, rot, pend, hist, okd, used>>

-----------------------------------------------------------------------------
(* open_history.                                                           *)

(* Mutant: the lock is waited for without end.                             *)
OpenLockForever(s) ==
  /\ pc[s] = "openLock"
  /\ ~lck /\ lck' = TRUE /\ Goto(s, "openFile")
  /\ UNCHANGED <<disk, open, rot, pend, hist, loc, okd, used>>

OpenLock(s) ==
  /\ pc[s] = "openLock"
  /\ \/ ~lck /\ lck' = TRUE /\ Goto(s, "openFile") /\ UNCHANGED loc
     \/ GiveUp /\ OpenFailed(s) /\ UNCHANGED lck
  /\ UNCHANGED <<disk, open, rot, pend, hist, okd, used>>

(* Open the file, or create it; only a start looks for rotated files.      *)
OpenFile(s) ==
  /\ pc[s] = "openFile"
  /\ \/ /\ dir[0] # 0 /\ loc[s].opn = "start"
        /\ \E i \in 1 .. MaxName :
             /\ FirstFree(i)
             /\ Keep(s, [loc[s] EXCEPT !.afd = dir[0], !.j = i - 1])
        /\ Goto(s, "openLoad")
        /\ UNCHANGED disk
     \/ /\ dir[0] # 0 /\ loc[s].opn # "start"
        /\ Keep(s, [loc[s] EXCEPT !.afd = dir[0]])
        /\ Goto(s, "openUnlock")
        /\ UNCHANGED disk
     \/ /\ dir[0] = 0
        /\ files' = Append(files, <<>>)
        /\ dir' = [dir EXCEPT ![0] = Len(files) + 1]
        /\ Keep(s, [loc[s] EXCEPT !.afd = Len(files) + 1])
        /\ Goto(s, "openUnlock")
     \/ /\ "open" \in Faults
        /\ Keep(s, [loc[s] EXCEPT !.afd = 0])
        /\ Goto(s, "openUnlock")
        /\ UNCHANGED disk
  /\ UNCHANGED <<lck, open, rot, pend, hist, okd, used>>

(* Mutant: from filename.1 to the oldest.                                  *)
OpenLoadUpward(s) ==
  /\ pc[s] = "openLoad"
  /\ LET j == loc[s].j
     IN  \/ j = 0 /\ Goto(s, "openUnlock") /\ UNCHANGED <<hist, loc>>
         \/ /\ j > 0
            /\ \E i \in 1 .. MaxName :
                 /\ FirstFree(i)
                 /\ hist' = [hist EXCEPT ![s] = @ \o files[dir[i - j]]]
            /\ Keep(s, [loc[s] EXCEPT !.j = j - 1])
            /\ UNCHANGED pc
  /\ UNCHANGED <<disk, lck, open, rot, pend, okd, used>>

(* Load filename.j, from the oldest to filename.1.  One that cannot be     *)
(* opened is left out.                                                     *)
OpenLoad(s) ==
  /\ pc[s] = "openLoad"
  /\ LET j == loc[s].j
     IN  \/ j = 0 /\ Goto(s, "openUnlock") /\ UNCHANGED <<hist, loc>>
         \/ /\ j > 0
            /\ \/ dir[j] # 0 /\ hist' = [hist EXCEPT ![s] = @ \o files[dir[j]]]
               \/ (dir[j] = 0 \/ "open" \in Faults) /\ UNCHANGED hist
            /\ Keep(s, [loc[s] EXCEPT !.j = j - 1])
            /\ UNCHANGED pc
  /\ UNCHANGED <<disk, lck, open, rot, pend, okd, used>>

(* Drop the lock, then read the file from its start with check_history.    *)
OpenUnlock(s) ==
  /\ pc[s] = "openUnlock"
  /\ lck' = FALSE
  /\ \/ /\ loc[s].afd # 0
        /\ Attach(s, loc[s].afd)
        /\ Goto(s, "chkStat") /\ Keep(s, [NoLocals EXCEPT !.ret = "open"])
     \/ loc[s].afd = 0 /\ OpenFailed(s) /\ UNCHANGED open
  /\ UNCHANGED <<disk, rot, pend, hist, okd, used>>

-----------------------------------------------------------------------------
(* A shell is killed; its lock file, if it has one, stays.                 *)
Crash(s) ==
  /\ "crash" \in Faults /\ pc[s] # "off"
  /\ Goto(s, "off") /\ Keep(s, NoLocals)
  /\ Close(s)
  /\ hist' = [hist EXCEPT ![s] = <<>>]
  /\ rot' = [rot EXCEPT ![s] = FALSE]
  /\ UNCHANGED <<disk, lck, okd, used>>

(* The user removes the lock file that a killed shell left behind.         *)
RemoveStaleLock ==
  /\ lck /\ \A s \in Shells : pc[s] \notin LockHeld
  /\ lck' = FALSE
  /\ UNCHANGED <<disk, pc, open, rot, pend, hist, loc, okd, used>>

Call(s) == \/ Start(s) \/ Release(s) \/ LogHistory(s) \/ PushHistory(s)
           \/ BreakHistory(s) \/ FlushHistory(s) \/ IdleTick(s)
           \/ RotateHistory(s)

Check(s) == CheckStat(s) \/ CheckOld(s) \/ CheckRead(s) \/ CheckReopen(s)

Log(s) == Write(s) \/ WriteStat(s)

Rotate(s) == \/ RotStat(s) \/ RotLock(s) \/ RotCheck(s) \/ RotQuit(s)
             \/ RotScan(s) \/ RotShift(s) \/ RotCur(s) \/ RotUnlock(s)
             \/ RotFail(s)

Open(s) == OpenLock(s) \/ OpenFile(s) \/ OpenLoad(s) \/ OpenUnlock(s)

Step(s) == Check(s) \/ Log(s) \/ Rotate(s) \/ Open(s)

Next == \/ \E s \in Shells : Call(s) \/ Step(s) \/ Crash(s)
        \/ RemoveStaleLock

Spec == Init /\ [][Next]_vars

(* A shell inside an operation goes on with it: it never waits for the     *)
(* application there, and acquire_history_lck gives up after ten seconds.  *)
FairSpec == Spec /\ \A s \in Shells : WF_vars(Step(s))
-----------------------------------------------------------------------------
(* Properties.                                                             *)

(* The type of the state; what fd and the names refer to exists, and a     *)
(* rename or a load never goes beyond the names.                           *)
Inodes == 1 .. Len(files)
Locals == [ret : {"none", "log", "tick", "open"},
           opn : {"none", "start", "reopen", "rotate"},
           arg : Line \cup {Blank}, ok : BOOLEAN, x : Nat,
           j : 0 .. MaxName - 1, afd : Nat,
           moved : BOOLEAN, auto : BOOLEAN]

DiskType ==
  /\ files \in Seq(Seq(Line))
  /\ dir \in [Names -> Inodes \cup {0}]
  /\ lck \in BOOLEAN
  /\ okd \subseteq Line
  /\ used \in [{"logs", "rots", "starts", "pushes"} -> Nat]

ControlType ==
  /\ pc \in [Shells -> PCs]
  /\ loc \in [Shells -> Locals]

ShellType ==
  /\ fd \in [Shells -> Inodes \cup {0}]
  /\ fsize \in [Shells -> Nat]
  /\ cnt \in [Shells -> Nat]
  /\ rot \in [Shells -> BOOLEAN]
  /\ pend \in [Shells -> BOOLEAN]
  /\ hist \in [Shells -> Seq(Line)]

TypeOK == DiskType /\ ControlType /\ ShellType

(* filename.lck keeps the shells apart while one of them renames, creates  *)
(* or loads the history files (acquire_history_lck).                       *)
MutualExclusion ==
  \A s, t \in Shells : pc[s] \in LockHeld /\ pc[t] \in LockHeld => s = t

(* No shell has a line of the history files twice in its memory: what      *)
(* open_history loads, what check_history reads after it, before and after *)
(* a rotation, and what the shell logged itself never overlap.             *)
LoadedOnce ==
  \A s \in Shells : \A i, k \in 1 .. Len(hist[s]) :
    hist[s][i] = hist[s][k] => i = k

(* The lines of one author are in the memory of every shell in the order   *)
(* in which they were logged, whatever files they were read from.          *)
LoadedInOrder ==
  \A s \in Shells : \A i, k \in 1 .. Len(hist[s]) :
    i < k /\ hist[s][i][1] = hist[s][k][1] => hist[s][i][2] < hist[s][k][2]

(* What the files promise to the application: HistStore.                   *)
Store == INSTANCE HistStore WITH disk <- OnDisk, acked <- okd
StoreSpec == Store!Spec

(* The shell is in a rotation that its rotate bit led to, up to the rename *)
(* of filename.                                                            *)
AutoRotating(s) ==
  /\ pc[s] \in {"rotStat", "rotLock", "rotCheck", "rotScan", "rotShift", "rotCur"}
  /\ loc[s].auto

(* A shell that rotates because its rotate bit is set (init_get_line) has  *)
(* a file of rotate_line_cnt lines or more open: the bit and the count go  *)
(* with hist.fd, and when check_history opens another file it resets them. *)
(* This says nothing of the file that has the name by then, which the      *)
(* rotation renames: RotatesOwnFile.                                       *)
FullFileOpen ==
  \A s \in Shells :
    AutoRotating(s) => fd[s] # 0 /\ Len(files[fd[s]]) >= RotateAt

(* A rotation that the rotate bit led to, and that the two sizes let go    *)
(* on, renames the file for which the bit was set and no other: "if file   *)
(* was already rotated, size will be less than old history"                *)
(* (rotate_history).                                                       *)
RotatesOwnFile ==
  \A s \in Shells :
    AutoRotating(s) /\ pc[s] \in {"rotScan", "rotShift", "rotCur"}
      => dir[0] = fd[s]

(* An operation ends, with a lock file nobody removes and with shells that *)
(* are killed: a shell never hangs on the history files.                   *)
OperationEnds ==
  \A s \in Shells : pc[s] \in Steps ~> pc[s] \notin Steps
=============================================================================
