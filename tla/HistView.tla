------------------------------ MODULE HistView ------------------------------
(***************************************************************************)
(* What the walk over the history promises: each line of the history, and  *)
(* the new line below them (0), has a view that an edit changes while the  *)
(* user is there and that is shown again when the user comes back; a new   *)
(* line is begun from the history as it was logged.                        *)
(***************************************************************************)
EXTENDS Integers, Sequences

CONSTANTS Lines, Empty
VARIABLES line,  \* what is on the screen
          at,    \* the line of the history that the user is at
          view,  \* view[i]: what the user sees there
          log    \* the lines that were logged

Fresh(lines) == [i \in 0 .. Len(lines) |-> IF i = 0 THEN Empty ELSE lines[i]]

Init == line = Empty /\ at = 0 /\ view = Fresh(log) /\ log \in Seq(Lines)

Edit ==
  /\ line' \in Lines
  /\ view' = [view EXCEPT ![at] = line']
  /\ UNCHANGED <<at, log>>

Walk ==
  /\ at' \in DOMAIN view
  /\ line' = view[at']
  /\ UNCHANGED <<view, log>>

(* A line is logged, by this shell or another, unless it repeats the last. *)
Log ==
  /\ \E l \in Lines :
       /\ log' = Append(log, l)
       /\ view' = [i \in 0 .. Len(log) + 1 |->
                     IF i = Len(log) + 1 THEN l ELSE view[i]]
  /\ UNCHANGED <<line, at>>

Finish ==
  /\ line' = Empty /\ at' = 0
  /\ view' = Fresh(log)
  /\ UNCHANGED log

Next == Edit \/ Walk \/ Log \/ Finish

Spec == Init /\ [][Next]_<<line, at, view, log>>
=============================================================================
