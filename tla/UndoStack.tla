------------------------------ MODULE UndoStack -----------------------------
(***************************************************************************)
(* What undo promises: the line stands between the lines it was before and *)
(* the lines that were undone; undo and redo move it by one, and an edit   *)
(* forgets what was undone.                                                *)
(***************************************************************************)
EXTENDS Integers, Sequences

CONSTANTS Lines, Empty
VARIABLES line, past, future

Init == line = Empty /\ past = <<>> /\ future = <<>>

FrontOf(s) == SubSeq(s, 1, Len(s) - 1)

(* The line as it was is remembered when a key ends a run of typing, or    *)
(* not yet; a line that is typed back to what is remembered goes on there. *)
Edit ==
  /\ line' \in Lines
  /\ \/ past' = Append(past, line)
     \/ past' = past
     \/ past # <<>> /\ past' = FrontOf(past) /\ line' = past[Len(past)]
  /\ future' = <<>>

Undo ==
  /\ \/ past # <<>> /\ line' = past[Len(past)] /\ past' = FrontOf(past)
     \/ past = <<>> /\ line' = Empty /\ past' = past
  /\ future' = <<line>> \o future

(* The line before the first that is remembered is the empty line.         *)
Redo ==
  /\ future # <<>>
  /\ line' = Head(future) /\ future' = Tail(future)
  /\ \/ past' = Append(past, line)
     \/ past = <<>> /\ line = Empty /\ past' = past

(* Back to the first line; what was undone can be redone from there.       *)
Revert ==
  /\ past # <<>>
  /\ line' = past[1] /\ past' = <<>>
  /\ \/ future' = Tail(past) \o future
     \/ future' = Tail(past) \o <<line>> \o future

Finish == line' = Empty /\ past' = <<>> /\ future' = <<>>

Next == Edit \/ Undo \/ Redo \/ Revert \/ Finish

Spec == Init /\ [][Next]_<<line, past, future>>
=============================================================================
