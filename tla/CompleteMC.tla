----------------------------- MODULE CompleteMC -----------------------------
(* Complete for TLC: candidates that share prefixes, one of them with a    *)
(* space, in lists of none, one, and two pages.             *)
EXTENDS Complete

OrderAll == <<" ", "'", "a", "b", "c">>
TypedAll == {" ", "'", "a", "b"}
a == "a"
b == "b"
c == "c"
ListsAll ==
  {<<>>, <<<<a, b>>>>, <<<<a, " ", b>>, <<a>>>>,
   <<<<b>>, <<a, b>>, <<a, b, a>>, <<a>>, <<a, b>>>>}
HelpsAll == {<<>>, <<<<a>>, <<b>>, <<c>>>>}
TypesAll == {"any", "scan", "env", "history", "help"}
RecalledLine == <<c>>

(* The last key matters only as far as it was a TAB, the term only while it *)
(* is completed, the candidates only whether there are any; and the page   *)
(* left behind only to a help text of more than a line.                    *)
Busy == Completing \/ status = "complete"
Page0 == others.help <= 1 /\ w.mode \in {"none", "help"}
Seen ==
  <<line, cur, IF Busy THEN <<term, comp>> ELSE comp = NoComp,
    IF Page0 THEN [w EXCEPT !.pg = 0] ELSE w, hist, others,
    tabbed, status, key = "TAB_COMPLETE">>
=============================================================================
