------------------------------- MODULE UndoMC -------------------------------
(* Undo for TLC: the empty line and three others, each stored as it is.    *)
EXTENDS Undo
CONSTANTS a, b, c

NarrowLines == {Empty, a, b, c}
StoredNarrow == [l \in NarrowLines |-> l]
=============================================================================
