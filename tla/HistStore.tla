----------------------------- MODULE HistStore ------------------------------
(***************************************************************************)
(* What the shared history files promise: a line that reached a file stays *)
(* in one of them whatever the shells do, it gets there once, and a line   *)
(* whose logging was reported as done is there.                            *)
(***************************************************************************)
VARIABLES disk,    \* the lines in the history files
          acked    \* the lines that were reported as logged

Init == disk = {} /\ acked = {}

Append(line) == line \notin disk /\ disk' = disk \cup {line} /\ UNCHANGED acked
Report(line) == line \in disk /\ acked' = acked \cup {line} /\ UNCHANGED disk

Next == \/ \E line \in disk' : Append(line)
        \/ \E line \in disk : Report(line)

Spec == Init /\ [][Next]_<<disk, acked>>
=============================================================================
