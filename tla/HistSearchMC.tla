---------------------------- MODULE HistSearchMC ----------------------------
(* HistSearch for TLC: lines a and b, and one term that both contain.      *)
EXTENDS HistSearch, TLC
CONSTANTS a, b, both

NarrowLines == {Empty, a, b}
Swaps == Permutations({a, b})
NarrowTerms == {Slash, both}
StoredNarrow == [l \in NarrowLines \cup NarrowTerms |-> l]
MatchesNarrow ==
  [l \in NarrowLines \cup NarrowTerms |->
     CASE l = both -> {a, b} [] l = a -> {a} [] l = b -> {b}
       [] OTHER -> {}]

(* What a step and the properties depend on: not the line before the last  *)
(* action, of that action only whether it typed or searched on, and the    *)
(* saved mode only in search mode.                                         *)
Seen == <<line, undo, last = "type", last = "search", mode, history, sought,
          search.term, search.dir, search.inline, Searching /\ search.saved = "command">>
=============================================================================
