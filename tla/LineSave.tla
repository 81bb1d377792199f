------------------------------ MODULE LineSave ------------------------------
(***************************************************************************)
(* The line save buffers (struct LineSave and LineSaveBuf of               *)
(* src/src/linesave.cpp) behind undo, history and history edits: an array  *)
(* of nodes laid out one after the other, each a text and the header that  *)
(* holds its index and the offsets of the nodes before and after it.       *)
(*                                                                         *)
(* A buffer is a sequence of nodes.  The offset of a node is its end, so   *)
(* that line_off of a node is the offset of the node before it; an offset  *)
(* is modelled by the position of the node, and 0 is no node.              *)
(***************************************************************************)
EXTENDS Integers, Sequences

Positions(nodes) == 1 .. Len(nodes)

(* The indices rise from the first node to the last, as make is called.    *)
Ascending(nodes) ==
  \A j, k \in Positions(nodes) : j < k => nodes[j].index < nodes[k].index

(* LineSave::make at lsb.max.                                              *)
Make(nodes, text, index) == Append(nodes, [text |-> text, index |-> index])

(* LineSave::equals: the node at k holds this text.                        *)
Equals(nodes, k, text) == k > 0 /\ nodes[k].text = text

(* LineSave::find_lt from the last node: the last node below i.            *)
FindLt(nodes, i, k) ==
  /\ k \in 0 .. Len(nodes)
  /\ \A j \in Positions(nodes) : j <= k <=> nodes[j].index < i

(* LineSave::find_gteq from the last node: the first node at i or above.   *)
FindGteq(nodes, i, k) ==
  /\ k \in 0 .. Len(nodes)
  /\ \A j \in Positions(nodes) : nodes[j].index >= i <=> k # 0 /\ j >= k

(* LineSave::find from the node at off: the indices are those of the       *)
(* positions, as push_history makes them; from no node nothing is found.   *)
Find(nodes, off, i) == IF off # 0 /\ i \in Positions(nodes) THEN i ELSE 0

(* LineSave::scan, when the indices are in no order: the last node at i.   *)
Scan(nodes, i) ==
  LET hits == {k \in Positions(nodes) : nodes[k].index = i}
  IN  IF hits = {} THEN 0 ELSE CHOOSE k \in hits : \A j \in hits : j <= k

(* LineSave::resize of the node at k, and its new text.                    *)
Retext(nodes, k, text) ==
  [j \in Positions(nodes) |->
     IF j = k THEN [text |-> text, index |-> nodes[k].index] ELSE nodes[j]]

(* LineSave::resize of the node at k to nothing removes it.                *)
Remove(nodes, k) ==
  [j \in 1 .. Len(nodes) - 1 |-> IF j < k THEN nodes[j] ELSE nodes[j + 1]]
=============================================================================
