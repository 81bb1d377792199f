-------------------------------- MODULE Keys --------------------------------
(***************************************************************************)
(* The keys and the actions they are bound to: the recipes of              *)
(* src/src/keytable.c, the macros that bindkey puts before them            *)
(* (src/src/keycook.cpp), and how the characters of the input become       *)
(* actions, with those that wait for more and those that are put back      *)
(* (State::eat_input of src/src/lineio.cpp).                               *)
(*                                                                         *)
(* A recipe has the keys, which are empty for the default of a mode, the   *)
(* action and the modes; a macro has args, what it types instead.  A       *)
(* character is a model value, but for one of two bytes, "e1" and "e2",    *)
(* which is known by the first.                                            *)
(***************************************************************************)
EXTENDS Integers, Sequences, SequencesExt

CONSTANTS Default, \* lc_default_key_recipe, in its order
          CharArg  \* the actions that take the character after their keys

Modes == {"emacs", "insert", "command"}

ASSUME KeysAssumption ==
  \A m \in Modes : \E i \in DOMAIN Default : Default[i].keys = <<>> /\ m \in Default[i].modes

(* set_recipe: the macros are before the other recipes.                    *)
Recipes(macros) ==
  [i \in DOMAIN macros |-> [keys |-> macros[i].keys, action |-> "MACRO", modes |-> macros[i].modes]]
  \o Default

TakesArg(r) == r.action \in CharArg

-----------------------------------------------------------------------------
(* init_single_key_transitions: the recipe of a single character wins over *)
(* those that begin with it.                                               *)
OfMode(rs, m) == {i \in DOMAIN rs : m \in rs[i].modes}
DefaultOf(rs, m) == rs[Min({i \in OfMode(rs, m) : rs[i].keys = <<>>})]
Begins(rs, m, c) == {i \in OfMode(rs, m) : rs[i].keys # <<>> /\ rs[i].keys[1] = c}
SingleOf(rs, m, c) ==
  LET all == Begins(rs, m, c)
      one == {i \in all : Len(rs[i].keys) = 1}
  IN IF all = {} THEN DefaultOf(rs, m) ELSE rs[Min(IF one # {} THEN one ELSE all)]

(* init_multi_key_transitions, and filter_macro, which takes the first     *)
(* recipe with the keys of a macro out.                                    *)
Overridden(rs, m) ==
  {i \in OfMode(rs, m) :
     \E j \in OfMode(rs, m) : j # i /\ rs[j].action = "MACRO" /\ rs[j].keys = rs[i].keys}
MultiOf(rs, m) == {i \in OfMode(rs, m) : Len(rs[i].keys) > 1} \ Overridden(rs, m)

-----------------------------------------------------------------------------
(* eat_multichar with the characters p pending: a recipe they are, more to *)
(* come, or none.                                                          *)
Whole(r, p) == IF TakesArg(r) THEN Front(p) = r.keys ELSE p = r.keys
Part(r, p) == Len(p) <= Len(r.keys) /\ IsPrefix(p, r.keys) /\ ~Whole(r, p)

Matched(rs, m, p) == {i \in MultiOf(rs, m) : Whole(rs[i], p)}
Pends(rs, m, p) ==
  Len(p) = 1 \/ (Matched(rs, m, p) = {} /\ \E i \in MultiOf(rs, m) : Part(rs[i], p))

-----------------------------------------------------------------------------
(* The characters of the input: all that is there, but for the first byte  *)
(* of a character whose second has not come.  input_available              *)
CharsOf(in) ==
  SelectSeq(IF in # <<>> /\ Last(in) = "e1" THEN Front(in) ELSE in, LAMBDA b : b # "e2")
Available(in) == CharsOf(in) # <<>>

(* next_input_char, n times.                                               *)
Used(in, n) == n + Len(SelectSeq(SubSeq(CharsOf(in), 1, n), LAMBDA b : b = "e1"))
After(in, n) == SubSeq(in, Used(in, n) + 1, Len(in))

(* What eat_input leaves in s: the input; pending[] up to pcnt, and putb,  *)
(* which is 0 or the next of pending[] to take; the action, its character  *)
(* and, of a macro, the keys.                                              *)
Eaten(s, r, char) ==
  [s EXCEPT !.act = r.action, !.char = char,
            !.keys = IF r.action = "MACRO" THEN r.keys ELSE <<>>]
Waits(s) == [s EXCEPT !.act = "PENDING", !.keys = <<>>]

NonePending(s) == [s EXCEPT !.pend = <<>>, !.putb = 0]

(* A character on its own, or one put back, of the pending ones p.         *)
Single(s, rs, m, c, p) ==
  LET r == SingleOf(rs, m, c) IN
  IF Len(r.keys) > 1 THEN Eaten(s, DefaultOf(rs, m), c)
  ELSE IF TakesArg(r) THEN Eaten(NonePending(s), r, p[2])
  ELSE Eaten(s, r, c)

(* Mutant: the characters after the first are dropped.                     *)
PutbackFirst(s, rs, m) == Single(NonePending(s), rs, m, s.pend[1], s.pend)

(* The first character of the pending ones is put back, and taken.         *)
Putback(s, rs, m) == Single([s EXCEPT !.putb = 2], rs, m, s.pend[1], s.pend)

(* Characters are added to the pending ones p until they are a recipe, or  *)
(* none, or the input has no more.                                         *)
Multi(s, rs, m, p) ==
  LET more == CharsOf(s.in)
      Held(n) == p \o SubSeq(more, 1, n)
      ends == {n \in 0 .. Len(more) : ~Pends(rs, m, Held(n))}
      n == IF ends = {} THEN Len(more) ELSE Min(ends)
      t == [s EXCEPT !.in = After(@, n), !.pend = Held(n)]
  IN IF ends = {} THEN Waits(t)
     ELSE IF Matched(rs, m, Held(n)) = {} THEN Putback(t, rs, m)
     ELSE Eaten(NonePending(t), rs[Min(Matched(rs, m, Held(n)))], Last(Held(n)))

(* eat_input                                                               *)
EatPutback(s, rs, m) ==
  Single(IF s.putb = Len(s.pend) THEN NonePending(s) ELSE [s EXCEPT !.putb = @ + 1],
         rs, m, s.pend[s.putb], s.pend)

EatNext(s, rs, m) ==
  LET c == CharsOf(s.in)[1]
      t == [s EXCEPT !.in = After(@, 1)]
      r == SingleOf(rs, m, c)
      prefix == \/ Len(r.keys) > 1
                \/ Len(r.keys) = 1 /\ TakesArg(r)
                \/ r.action = "VI_ESC" /\ (Available(t.in) \/ m = "emacs")
  IN IF s.pend # <<>> THEN Multi(t, rs, m, Append(s.pend, c))
     ELSE IF prefix THEN Multi(t, rs, m, <<c>>)
     ELSE Single(t, rs, m, c, <<>>)

Eat(s, rs, m) ==
  IF s.putb > 0 THEN EatPutback(s, rs, m)
  ELSE IF ~Available(s.in) THEN Waits(s)
  ELSE EatNext(s, rs, m)

-----------------------------------------------------------------------------
(* bindkey: a macro takes the place of the one with its keys; without args *)
(* it is only removed.                                                     *)
Unbound(macros, keys) == SelectSeq(macros, LAMBDA r : r.keys # keys)
AddBindkey(macros, b) == Append(Unbound(macros, b.keys), b)
Bindkey(macros, b) == IF b.args = <<>> THEN Unbound(macros, b.keys) ELSE AddBindkey(macros, b)
=============================================================================
