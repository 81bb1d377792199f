----------------------------- MODULE HistEditMC -----------------------------
(* HistEdit for TLC: the empty line and two others, stored as they are.  *)
EXTENDS HistEdit, TLC
CONSTANTS a, b

NarrowLines == {Empty, a, b}
Texts == Permutations({a, b})
StoredNarrow == [l \in NarrowLines |-> l]
=============================================================================
