------------------------------- MODULE KeyLoop -------------------------------
(***************************************************************************)
(* From the keys that are typed to the actions and the output, and back to *)
(* the application: State::do_get_line (src/src/linecook.cpp) over the     *)
(* input of Keys and the output buffer (src/src/lineio.cpp), called by     *)
(* TTY::get_line and waited for by TTY::poll_wait (src/src/ttycook.cpp).   *)
(*                                                                         *)
(* meant is a history variable: what the key table says of the keys that   *)
(* were typed and are not performed yet.                                   *)
(***************************************************************************)
EXTENDS Keys

CONSTANTS Repeatable, \* the actions that REPEAT_LAST performs again
          Typed,      \* the keys that are typed
          Bindings,   \* what is bound: keys, args, modes
          MaxAhead,   \* bound: actions that are meant and not performed
          Space,      \* what the terminal takes before it blocks
          Habits      \* what else happens, a subset of HabitKinds

(* "0" as what an action takes after a count; a count for nothing; a macro *)
(* after an action that took a character.                                  *)
HabitKinds == {"zeroArg", "countNone", "macroAfterArg"}

ASSUME KeyLoopAssumption ==
  /\ MaxAhead \in Nat /\ Space \in Nat \ {0}
  /\ Habits \subseteq HabitKinds

VARIABLES
  wire,    \* the rest of a key, on its way
  tty,     \* the bytes that have come
  key,     \* the input and what is pending, the action and its character
  mode,
  action, last, \* action, and last_action if it is a digit
  vi, arg, \* vi_repeat_cnt and emacs_arg_cnt
  again,   \* last_repeat_action and last_repeat_char
  macros,  \* recipe_list
  rs,      \* recipe
  out,     \* output_off
  room,    \* what the terminal still takes
  pollOut, \* TTYS_POLL_OUT
  status,  \* lc_status, or where the call is
  meant,   \* history: what is to be performed
  next     \* history: the mode, count and repeatable action after that, and
           \* whether the user waits for it

input  == <<wire, tty>>
counts == <<action, last, vi, arg, again>>
bound  == <<macros, rs>>
output == <<out, room, pollOut>>
vars == <<input, key, mode, counts, bound, output, status, meant, next>>

(* The character matters to the actions that take one.                     *)
Performed(a, c) == <<a, IF a \in CharArg \cup {"INSERT_CHAR"} THEN c ELSE "">>
Nothing == <<"PENDING", "">>

(* The mode after an action.                                               *)
Enters(m, a) ==
  CASE a = "VI_ESC"      -> IF m = "insert" THEN "command" ELSE m
    [] a = "VI_INSERT"   -> "insert"
    [] a = "VI_MODE"     -> IF m = "emacs" THEN "insert" ELSE "emacs"
    [] a = "FINISH_LINE" -> IF m = "emacs" THEN m ELSE "insert"
    [] OTHER             -> m

-----------------------------------------------------------------------------
(* What the table says of a key k, which may be a sequence: the first      *)
(* recipe of the mode with it, or else the default one.                    *)
Matches(m, k) ==
  {i \in OfMode(rs, m) :
     rs[i].keys # <<>> /\ (IF TakesArg(rs[i]) THEN Front(k) ELSE k) = rs[i].keys}

Meaning(m, k) ==
  IF Matches(m, k) # {} THEN <<rs[Min(Matches(m, k))].action, Last(k)>>
                        ELSE <<DefaultOf(rs, m).action, k[1]>>

(* A key that is bound, or a single one with which nothing begins.         *)
Known(m, k) ==
  Matches(m, k) # {} \/ (Len(CharsOf(k)) = 1 /\ Begins(rs, m, k[1]) = {})

(* Two keys that are not bound together, while others are that begin like  *)
(* them, and mean what each means.                                         *)
Pair(m, k) ==
  LET m2 == Enters(m, Meaning(m, <<k[1]>>)[1]) IN
  /\ Len(CharsOf(k)) = 2 /\ Matches(m, k) = {}
  /\ \E i \in Begins(rs, m, k[1]) : Len(rs[i].keys) > 1
  /\ Known(m2, <<k[2]>>)

Digits == {"VI_REPEAT_DIGIT", "EMACS_ARG_DIGIT"}
Once(count, a) == count = "" \/ a \in Digits \cup {"FINISH_LINE"}
                  \/ (a = "GOTO_ENTRY" /\ count = "VI_REPEAT_DIGIT")

(* One action is meant, twice if a digit is before it.                     *)
Mean(n, w) ==
  LET p == IF w[1] = "REPEAT_LAST" THEN n.again
           ELSE IF w[1] = "ACTION" THEN Performed(w[2], w[2]) ELSE Performed(w[1], w[2])
      times == IF Once(n.count, p[1]) THEN 1 ELSE 2
      m[i \in 0 .. times] == IF i = 0 THEN n.mode ELSE Enters(m[i - 1], p[1])
  IN [n EXCEPT !.do = @ \o [i \in 1 .. times |-> p],
               !.mode = m[times],
               !.count = IF p[1] \in Digits THEN p[1] ELSE "",
               !.again = IF p[1] = "FINISH_LINE" THEN Nothing
                         ELSE IF p[1] \in Repeatable THEN p ELSE @]

MeanKey(n, k) ==
  IF Pair(n.mode, k)
    THEN LET n1 == Mean(n, Meaning(n.mode, <<k[1]>>)) IN Mean(n1, Meaning(n1.mode, <<k[2]>>))
    ELSE Mean(n, Meaning(n.mode, k))

ArgsOf(k) == macros[CHOOSE i \in DOMAIN macros : macros[i].keys = k].args
IsMacro(n, k) == ~Pair(n.mode, k) /\ Meaning(n.mode, k)[1] = "MACRO"

(* A macro means what its args mean.                                       *)
MeanAll(n, k) ==
  LET as == IF IsMacro(n, k) THEN ArgsOf(k) ELSE <<k>>
      f[i \in 0 .. Len(as)] == IF i = 0 THEN n ELSE MeanKey(f[i - 1], as[i])
  IN f[Len(as)]

-----------------------------------------------------------------------------
(* The user waits for a macro, and after an escape that is not the start   *)
(* of a sequence.                                                          *)
UserWaits(n, k) == IsMacro(n, k) \/ Last(k) = "esc"

Quiet == wire = <<>> /\ tty = <<>> /\ key.in = <<>> /\ meant = <<>>

Typable(n, k) ==
  LET w == Meaning(n.mode, k) IN
  /\ IF Pair(n.mode, k) THEN ~UserWaits(n, k) /\ n.count = ""
     ELSE /\ Known(n.mode, k)
          /\ n.count # "" => w[1] \notin Digits \cup {"MACRO"}
          /\ n.count # "" /\ w[2] = "0" => w[1] # "GOTO_BOL" /\ "zeroArg" \in Habits
          /\ n.count # "" /\ w[1] = "REPEAT_LAST" /\ n.again = Nothing => "countNone" \in Habits
          /\ w[1] = "MACRO" /\ n.again[1] \in CharArg => "macroAfterArg" \in Habits
  /\ k = <<"esc">> => n.mode # "emacs"

(* A sequence that begins with an escape is one only if it comes as a      *)
(* whole, or in emacs mode; of the others the first bytes may come before  *)
(* the rest.                                                               *)
ComesWhole(k) ==
  k[1] = "esc" /\ ~(mode = "emacs" /\ tty = <<>> /\ key.in = <<>> /\ status = "rd")

(* What comes while the application runs, or before the last is read, is   *)
(* read with the rest.                                                     *)
Comes == status \in {"rd", "wr"} \/ (status = "loop" /\ tty = <<>>)

Type(k) ==
  LET n == [next EXCEPT !.do = meant]
      m == MeanAll(n, k)
  IN /\ Comes /\ wire = <<>> /\ Len(meant) < MaxAhead
     /\ next.waits => Quiet /\ status = "rd"
     /\ Typable(n, k)
     /\ Len(m.do) <= MaxAhead
     /\ \E i \in (IF ComesWhole(k) THEN {} ELSE 1 .. Len(k) - 1) \cup {Len(k)} :
          /\ tty' = tty \o SubSeq(k, 1, i)
          /\ wire' = SubSeq(k, i + 1, Len(k))
     /\ meant' = m.do
     /\ next' = [m EXCEPT !.do = <<>>, !.waits = UserWaits(n, k)]
     /\ UNCHANGED <<key, mode, counts, bound, output, status>>

Arrive ==
  /\ Comes /\ wire # <<>>
  /\ tty' = tty \o wire /\ wire' = <<>>
  /\ UNCHANGED <<key, mode, counts, bound, output, status, meant, next>>

(* The terminal takes output while linecook waits.                         *)
Drain ==
  /\ status \in {"rd", "wr"}
  /\ room < Space /\ room' \in room + 1 .. Space
  /\ UNCHANGED <<input, key, mode, counts, bound, out, pollOut, status, meant, next>>

-----------------------------------------------------------------------------
Least(a, b) == IF a <= b THEN a ELSE b

Blocked == out > room
(* Mutant: what the terminal does not take is counted as written.          *)
FlushAll(n) == out' = 0 /\ room' = room - n

(* output_flush: until all is written, or the terminal takes no more.      *)
Flush(n) ==
  /\ out' = n - Least(n, room)
  /\ room' = room - Least(n, room)

(* Mutant: poll_wait waits for the input when the terminal blocks.         *)
ReturnsQuiet(s, p) == status' = (IF Blocked THEN "wr" ELSE s) /\ pollOut' = p

(* What get_line returns when it cannot go on: LINE_STATUS_WR_EAGAIN or    *)
(* RD_EAGAIN; p is whether poll_wait waits for the output.                 *)
Returns(s, p) ==
  /\ status' = IF Blocked THEN "wr" ELSE s
  /\ pollOut' = (p \/ Blocked)

(* TTY::get_line, and the start of do_get_line.                            *)
GetLine(p) == Flush(out) /\ Returns("loop", p)

(* The count of the digits before an action, or of those in an emacs mode. *)
CountsVi  == last = "VI_REPEAT_DIGIT"
             /\ action \notin {"PENDING", "VI_REPEAT_DIGIT", "GOTO_ENTRY"}
CountsArg == ~CountsVi /\ last = "EMACS_ARG_DIGIT" /\ action \notin {"PENDING", "EMACS_ARG_DIGIT"}
(* Mutant: the last time of a count is left out.                           *)
RepeatsLess == (CountsVi /\ vi > 2) \/ (CountsArg /\ arg > 2)
Repeats == (CountsVi /\ vi > 1) \/ (CountsArg /\ arg > 1)

Value(c) == IF c = "0" THEN 0 ELSE 2

(* State::dispatch of an action, as far as the loop goes: what is to be    *)
(* performed is, and the rest of it after it; v and e are the counts.      *)
DispatchedAs(a, l, c) == IF l = "VI_REPEAT_DIGIT" /\ c = "0" THEN "VI_REPEAT_DIGIT" ELSE a

Wrong == <<<<"wrong", "">>>>
Perform(p) ==
  meant' = IF meant # <<>> /\ Head(meant) = p THEN Tail(meant) ELSE Wrong

ResetInput(k) == [k EXCEPT !.pend = <<>>, !.putb = 0, !.act = "PENDING", !.keys = <<>>,
                           !.char = ""]

(* What an action draws is counted so far that a write may take a part.    *)
Drawn == 2

(* The action, and the character, are known as far as they may be looked   *)
(* at again.                                                               *)
KeptAs(a, l) == IF {a, l} \cap (Digits \cup Repeatable) # {} THEN a ELSE "DONE"
KeptChar(a, c) == IF c = "0" THEN c ELSE Performed(a, c)[2]

Dispatch(k, a0, l, v, e, g) ==
  LET a == DispatchedAs(a0, l, k.char)
  IN /\ Perform(Performed(a, k.char))
     /\ mode' = Enters(mode, a)
     /\ IF a = "FINISH_LINE"
          THEN /\ key' = ResetInput(k)
               /\ action' = "PENDING" /\ last' = "PENDING"
               /\ vi' = 0 /\ arg' = 0 /\ again' = Nothing
               /\ status' = "exec"
               /\ Flush(Drawn)
          ELSE /\ key' = [k EXCEPT !.act = "DONE", !.char = KeptChar(KeptAs(a, l), @)]
               /\ action' = KeptAs(a, l) /\ last' = (IF l \in Digits THEN l ELSE "PENDING") /\ again' = g
               /\ vi' = CASE a = "VI_REPEAT_DIGIT" -> v * 10 + Value(k.char)
                          [] a = "GOTO_ENTRY"      -> 0
                          [] OTHER                 -> v
               /\ arg' = IF a = "EMACS_ARG_DIGIT" THEN e * 10 + Value(k.char) ELSE e
               /\ out' = Drawn
               /\ UNCHANGED <<status, room>>
     /\ UNCHANGED <<wire, bound, pollOut, next>>

(* The action is performed again.                                          *)
RepeatAction ==
  /\ status = "loop" /\ Repeats
  /\ IF CountsVi THEN Dispatch(key, action, last, vi - 1, arg, again)
                 ELSE Dispatch(key, action, last, vi, arg - 1, again)
  /\ UNCHANGED tty

(* The counts after the last time.                                         *)
CountLeft == IF CountsVi THEN 0 ELSE vi
ArgLeft == IF CountsArg THEN 0 ELSE arg

(* No action: from then on last_action is not looked at, when it was that  *)
(* of a count which is done.                                               *)
NoAction ==
  /\ vi' = CountLeft /\ arg' = ArgLeft
  /\ last' = IF CountsVi \/ CountsArg THEN "PENDING" ELSE last
  /\ action' = KeptAs(action, last')

(* What REPEAT_LAST is to perform, remembered before the next key.         *)
Again == IF key.act # "PENDING" /\ action \in Repeatable THEN Performed(action, key.char) ELSE again

(* push_bindkey_recipe                                                     *)
PushMacro(k) == [k EXCEPT !.in = @ \o FlattenSeq(ArgsOf(k.keys)), !.keys = <<>>]

(* The next character or characters, read if there are none.               *)
Process ==
  LET in == IF Available(key.in) THEN key.in ELSE key.in \o tty
      k  == Eat([key EXCEPT !.in = in], rs, mode)
  IN /\ status = "loop" /\ ~Repeats
     /\ Available(key.in) \/ tty # <<>>
     /\ tty' = IF Available(key.in) THEN tty ELSE <<>>
     /\ CASE k.act = "PENDING" \/ k.act = "MACRO" ->
               /\ key' = IF k.act = "MACRO" THEN PushMacro(k) ELSE k
               /\ NoAction /\ again' = Again
               /\ UNCHANGED <<wire, mode, bound, output, status, meant, next>>
          [] OTHER ->
               LET a == CASE k.act = "ACTION"      -> k.char
                          [] k.act = "REPEAT_LAST" -> Again[1]
                          [] OTHER                 -> k.act
                   c == IF k.act = "REPEAT_LAST" THEN Again[2] ELSE k.char
               IN Dispatch([k EXCEPT !.char = c], a, action, CountLeft, ArgLeft, Again)

(* Nothing to read: what is to be drawn is, and get_line returns.          *)
NoInput ==
  /\ status = "loop" /\ ~Repeats
  /\ ~Available(key.in) /\ tty = <<>>
  /\ NoAction
  /\ Flush(out) /\ Returns("rd", pollOut)
  /\ UNCHANGED <<input, key, mode, again, bound, meant, next>>

-----------------------------------------------------------------------------
(* poll_wait, and the call of get_line after it.                           *)
Ready == IF pollOut THEN room > 0 ELSE tty # <<>>

Poll ==
  /\ status \in {"rd", "wr"} /\ Ready
  /\ GetLine(FALSE)
  /\ UNCHANGED <<input, key, mode, counts, bound, meant, next>>

Timeout ==
  /\ status \in {"rd", "wr"}
  /\ GetLine(pollOut)
  /\ UNCHANGED <<input, key, mode, counts, bound, meant, next>>

(* The application runs the line, which may be a bindkey, with no key      *)
(* typed ahead.                                                            *)
Execute ==
  /\ status = "exec"
  /\ GetLine(pollOut)
  /\ \/ UNCHANGED <<bound, key>>
     \/ /\ Quiet
        /\ \E b \in Bindings : macros' = Bindkey(macros, b)
        /\ rs' = Recipes(macros')
        /\ key' = ResetInput(key)
  /\ UNCHANGED <<input, mode, counts, meant, next>>

-----------------------------------------------------------------------------
Init ==
  /\ wire = <<>> /\ tty = <<>>
  /\ key = [in |-> <<>>, pend |-> <<>>, putb |-> 0,
            act |-> "PENDING", char |-> "", keys |-> <<>>]
  /\ mode = "insert"
  /\ action = "PENDING" /\ last = "PENDING" /\ vi = 0 /\ arg = 0
  /\ again = Nothing
  /\ macros = <<>> /\ rs = Default
  /\ out = Drawn /\ room = Space /\ pollOut = FALSE
  /\ status = "exec"
  /\ meant = <<>>
  /\ next = [do |-> <<>>, mode |-> "insert", count |-> "", again |-> Nothing, waits |-> FALSE]

Calls == RepeatAction \/ Process \/ NoInput \/ Poll \/ Execute
Next == (\E k \in Typed : Type(k)) \/ Arrive \/ Drain \/ Calls \/ Timeout

Spec == Init /\ [][Next]_vars

(* get_line goes on when it can, or is called after a timeout: the weak    *)
(* fairness of Calls \/ Timeout, in terms of what they change.             *)
Runs == status \in {"loop", "exec"} \/ Ready
Called ==
  \/ <<key, mode, counts, out, pollOut, status>>' # <<key, mode, counts, out, pollOut, status>>
  \/ Len(tty') < Len(tty)

(* The rest of a key comes, and the terminal takes output, also when       *)
(* linecook does not wait, which the bound on Drain leaves out.            *)
FairSpec ==
  /\ Spec
  /\ WF_vars(Arrive) /\ SF_vars(Drain)
  /\ []<>~Runs \/ []<><<Called>>_vars
-----------------------------------------------------------------------------
TypeOK ==
  /\ key.putb \in 0 .. Len(key.pend)
  /\ mode \in Modes
  /\ vi \in 0 .. 2 /\ arg \in 0 .. 2
  /\ out \in 0 .. Drawn /\ room \in 0 .. Space
  /\ status \in {"loop", "rd", "wr", "exec"}

(* However the keys come, at once or one byte after the other, each does   *)
(* what the key table says of it, in their order, as often as a count      *)
(* before it says, and nothing else is done.                               *)
AsMeant == meant # Wrong

(* When get_line has read all there is and waits for more, all of it is    *)
(* performed, and the terminal has the output: "main processing loop, eat  *)
(* chars until input empty"; but for the characters put back.              *)
AllEaten ==
  status = "rd" /\ wire = <<>> /\ tty = <<>> /\ key.in = <<>> /\ key.putb = 0 =>
    meant = <<>> /\ out = 0

(* When no more is typed, all that was is performed and output, also when  *)
(* the terminal blocks.                                                    *)
Answered ==
  \/ []<><<Len(meant') > Len(meant)>>_meant
  \/ <>[](out = 0 /\ (meant = <<>> \/ key.putb # 0))
=============================================================================
