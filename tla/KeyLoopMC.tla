------------------------------ MODULE KeyLoopMC ------------------------------
(***************************************************************************)
(* KeyLoop with a table of the kinds of keys of src/src/keytable.c, in its *)
(* order, for TLC.                                                         *)
(***************************************************************************)
EXTENDS KeyLoop

Recipe(ks, a, ms) == [keys |-> ks, action |-> a, modes |-> ms]
Command == {"command"}

Table ==
  << Recipe(<<"esc">>, "VI_ESC", Modes),
     Recipe(<<"enter">>, "FINISH_LINE", Modes),
     Recipe(<<>>, "INSERT_CHAR", {"insert", "emacs"}),
     Recipe(<<"esc", "b">>, "GOTO_PREV_WORD", Modes),
     Recipe(<<"esc", "m">>, "VI_MODE", Modes),
     Recipe(<<"esc", "c]">>, "FIND_PREV_CHAR", {"emacs"}),
     Recipe(<<"y", "y">>, "YANK_LINE", Command),
     Recipe(<<"i">>, "VI_INSERT", Command),
     Recipe(<<"r">>, "VI_REPLACE_CHAR", Command),
     Recipe(<<"h">>, "GO_LEFT", Command),
     Recipe(<<"G">>, "GOTO_ENTRY", Command),
     Recipe(<<"0">>, "GOTO_BOL", Command),
     Recipe(<<".">>, "REPEAT_LAST", Command),
     Recipe(<<"2">>, "VI_REPEAT_DIGIT", Command),
     Recipe(<<"esc", "2">>, "EMACS_ARG_DIGIT", Modes),
     Recipe(<<>>, "BELL", Command),
     Recipe(<<"cx", "ca">>, "ACTION", Modes) >>

TakeChar == {"FIND_PREV_CHAR", "VI_REPLACE_CHAR", "ACTION"}
Repeated == {"VI_REPLACE_CHAR"}

KeysTyped ==
  { <<"esc">>, <<"enter">>, <<"e1", "e2">>, <<"h">>, <<"y", "y">>, <<"y", "h">>, <<"esc", "b">>,
    <<"esc", "m">>, <<"esc", "c]", "h">>, <<"esc", "h">>, <<"r", "h">>, <<"G">>,
    <<".">>, <<"2">>, <<"esc", "2">> }

(* A zero typed as the character of an action, too.                        *)
KeysWithZero == KeysTyped \cup {<<"r", "0">>}

Binds ==
  { [keys |-> <<"esc", "b">>, args |-> << <<"h">>, <<"cx", "ca", "GOTO_BOL">> >>, modes |-> Modes],
    [keys |-> <<"esc", "b">>, args |-> <<>>, modes |-> Modes] }
=============================================================================
