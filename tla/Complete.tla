------------------------------ MODULE Complete ------------------------------
(***************************************************************************)
(* Completion of the term at the cursor, and the show window that lists    *)
(* the candidates, the history, the keys or a help text                    *)
(* (src/src/complete.cpp; State::dispatch of src/src/dispatch.cpp;         *)
(* completion_get_line of src/src/linecook.cpp; the pages of               *)
(* src/src/history.cpp and src/src/keycook.cpp).                           *)
(*                                                                         *)
(* The candidates comp are the sequence words with at (comp.off) and idx   *)
(* (comp.idx).  A term is where (complete_off), len (complete_len), quote  *)
(* (complete_has_quote) and type (complete_type).  Every line of the       *)
(* history is Recalled: which one is displayed, and the edits of each, are *)
(* HistEdit's.  Letters have no case, terms no directory and no glob, and  *)
(* candidates no quotes.                                                   *)
(***************************************************************************)
EXTENDS ShowWindow, SequencesExt

Saved == INSTANCE LineSave

CONSTANTS Order,   \* the characters, in the order that sort gives them
          Typed,   \* those that are typed
          Lists,   \* what the application and its callback offer
          Helps,   \* and for help
          Types,   \* the types of completion that are asked for
          HistCnt, \* hist.cnt
          KeyCnt,  \* keys.cnt
          Recalled,
          MaxLen,  \* bound: the line beyond which nothing is typed or completed;
                   \* once keys or help were paged nothing is, but for help
          Habits   \* what else the user does, a subset of HabitKinds

Space == " "
Quote == "'"

(* Completing a quoted term that another follows; moving up in a window    *)
(* that a double TAB opened with nothing found; moving up from where TAB   *)
(* left the page; typing on when the selection has passed candidates, or   *)
(* is no longer than the term and another, or before the end of the term;  *)
(* help that is shown again after paging another window; help while        *)
(* candidates are left of an earlier completion, which are then shown with *)
(* it.                                                                     *)
HabitKinds == {"afterQuoted", "upAtNone", "upOffPage", "typeBeyond", "typeOther", "typeInside",
               "helpAgain", "helpOver"}

(* What key can be besides a character.                                    *)
Actions ==
  {"none", "GO_LEFT", "GO_RIGHT", "TAB_COMPLETE", "TAB_REVERSE", "SHOW", "SHOW_HELP", "SHOW_KEYS",
   "SHOW_CLEAR", "SHOW_NEXT_PAGE", "SHOW_PREV_PAGE", "GOTO_FIRST_ENTRY", "GOTO_LAST_ENTRY",
   "GOTO_ENTRY", "PREV_ITEM", "NEXT_ITEM", "GOTO_TOP", "GOTO_MIDDLE", "GOTO_BOTTOM", "FINISH_LINE"}

Chars == ToSet(Order)
Words == Seq(Chars)

ASSUME CompleteAssumption ==
  /\ Order \in Seq(Chars) /\ Quote \in Chars /\ Typed \subseteq Chars \ Actions
  /\ Types \subseteq {"any", "dirs", "scan", "env", "fzf", "history", "help"}
  /\ <<>> \in Lists /\ <<>> \in Helps
  /\ Lists \cup Helps \subseteq Seq(Words) /\ Recalled \in Words
  /\ HistCnt \in Nat \ {0} /\ KeyCnt \in Nat \ {0}
  /\ Habits \subseteq HabitKinds

VARIABLES
  line,   \* line[0 .. edited_len)
  cur,    \* the cursor in it, from 0
  term,   \* what is completed
  comp,   \* its candidates
  w,      \* the show window
  hist,   \* hist.idx
  others, \* keys_pg, and help.cnt
  tabbed, \* whether the last action was TAB_COMPLETE
  status, \* "line", or "complete": LINE_STATUS_COMPLETE was returned
  key     \* the last action, or the character typed

vars == <<line, cur, term, comp, w, hist, others, tabbed, status, key>>

NoTerm == [off |-> 0, len |-> 0, quote |-> 0, type |-> "any"]
NoComp == [words |-> <<>>, at |-> 0, idx |-> 0]

End == Len(line)
Slice(s, from, to) == SubSeq(s, from + 1, to) \* s[from .. to)
Cnt == Len(comp.words)

-----------------------------------------------------------------------------
(* get_complete_args: the arguments are what spaces separate, and the      *)
(* argument at the cursor may be empty; one that opens a quote goes on to  *)
(* the one that closes it, or to the end.                                  *)
Char(i) == line[i + 1]
Solid(from, to) == \A i \in from .. to - 1 : Char(i) # Space

IsArg(from, to) ==
  /\ from < to \/ (from = to /\ from = cur)
  /\ Solid(from, to)
  /\ from = 0 \/ Char(from - 1) = Space
  /\ to = End \/ Char(to) = Space
Args == {arg \in (0 .. End) \X (0 .. End) : IsArg(arg[1], arg[2])}

Odd(arg) == Cardinality({i \in arg[1] .. arg[2] - 1 : Char(i) = Quote}) % 2 = 1
StartsQuote(arg) == arg[1] < arg[2] /\ Char(arg[1]) = Quote /\ Odd(arg)
EndsQuote(arg) == arg[1] < arg[2] /\ Char(arg[2] - 1) = Quote /\ Odd(arg)

First(args) == CHOOSE arg \in args : \A other \in args : arg[1] <= other[1]
LastOf(args) == CHOOSE arg \in args : \A other \in args : arg[1] >= other[1]
Later(arg) == {other \in Args : other[1] > arg[1]}
Opening == {arg \in Args : StartsQuote(arg) /\ Later(arg) # {}}

(* The argument that closes the one that opens first.                      *)
Closing ==
  LET later == Later(First(Opening))
      closing == {arg \in later : EndsQuote(arg)}
  IN IF closing = {} THEN LastOf(later) ELSE First(closing)

NothingAfterQuoted == Opening # {} => Later(Closing) = {}

ArgAtCursor ==
  LET here == CHOOSE arg \in Args : cur \in arg[1] .. arg[2]
  IN IF Opening = {} \/ here[1] < First(Opening)[1] THEN here
     ELSE <<First(Opening)[1], Closing[2]>>

(* init_completion_term: without the quotes around it.                     *)
InitTerm(type) ==
  LET arg == ArgAtCursor
      opens == arg[1] < arg[2] /\ Char(arg[1]) = Quote
      from == IF opens THEN arg[1] + 1 ELSE arg[1]
      closes == arg[2] - from > 1 /\ Char(arg[2] - 1) = Quote
  IN [off |-> from, len |-> (IF closes THEN arg[2] - 1 ELSE arg[2]) - from,
      quote |-> (IF opens THEN 1 ELSE 0) + (IF closes THEN 2 ELSE 0), type |-> type]

Before   == Slice(line, 0, term.off)
TermText == Slice(line, term.off, term.off + term.len)
Behind   == Slice(line, term.off + term.len, End)

(* quote_line_length and quote_line_copy                                   *)
Quoted(word, t) ==
  LET needs == t.type # "env" /\ Space \in ToSet(word)
  IN CASE t.quote = 0 /\ needs -> <<Quote>> \o word \o <<Quote>>
       [] t.quote = 1          -> Append(word, Quote)
       [] OTHER                -> word

-----------------------------------------------------------------------------
(* The operators of LineSave on candidates.                                *)
Rank(char) == CHOOSE i \in DOMAIN Order : Order[i] = char

(* How far two of them agree.                                              *)
Agree(u, v) == Max({i \in 0 .. Min({Len(u), Len(v)}) : Slice(u, 0, i) = Slice(v, 0, i)})

Less(u, v) ==
  LET i == Agree(u, v) + 1
  IN IF i > Len(u) \/ i > Len(v) THEN Len(u) < Len(v) ELSE Rank(u[i]) < Rank(v[i])

(* sort, which drops the duplicates, of a set of them.                     *)
Sorted(words) ==
  [k \in 1 .. Cardinality(words) |->
     CHOOSE u \in words : Cardinality({v \in words : Less(v, u)}) = k - 1]

(* filter_substr                                                           *)
HasPart(word, part) ==
  \E i \in 0 .. Len(word) - Len(part) : Slice(word, i, i + Len(part)) = part
FilterSubstr(words, part) == {word \in ToSet(words) : HasPart(word, part)}

(* find_longest_prefix                                                     *)
AllAgree(words) ==
  IF words = <<>> THEN 0 ELSE Min({Agree(words[1], words[k]) : k \in DOMAIN words})

(* find_prefix, from the candidate at from on: the first that str begins,  *)
(* how far all of those agree and how many they are; if there is none, the *)
(* first that agrees the longest with str, and how many do.                *)
FindPrefix(words, from, str) ==
  LET on == IF from = 0 THEN {} ELSE from .. Len(words)
      full == {k \in on : IsPrefix(str, words[k])}
      agree == [k \in on |-> Agree(str, words[k])]
      most == Max({0} \cup {agree[k] : k \in on})
      best == {k \in on : most > 0 /\ agree[k] = most}
  IN IF full # {}
       THEN [k |-> Min(full), len |-> Min({Agree(words[Min(full)], words[k]) : k \in full}),
             match |-> Cardinality(full), pref |-> 0]
       ELSE [k |-> Max({0} \cup {k \in best : k = Min(best)}), len |-> most,
             match |-> 0, pref |-> Cardinality(best)]

-----------------------------------------------------------------------------
(* What changes line, cursor, term and candidates is a function of an edit *)
(* e of all four.                                                          *)
Edit == [line |-> line, cur |-> cur, term |-> term, comp |-> comp]

(* reset_completions                                                       *)
Reset(e) == [e EXCEPT !.term = NoTerm, !.comp = NoComp]

(* Mutant: what is behind the term is not moved.                           *)
PutOver(e, text) ==
  LET t == e.term
  IN [e EXCEPT !.line = Slice(@, 0, t.off) \o text \o Slice(@, t.off + Len(text), Len(@)),
               !.cur = t.off + Len(text)]

(* The term is replaced, and the cursor is left at the end of it.          *)
Put(e, text) ==
  LET t == e.term
  IN [e EXCEPT !.line = Slice(@, 0, t.off) \o text \o Slice(@, t.off + t.len, Len(@)),
               !.cur = t.off + Len(text)]

(* tab_first_completion: the candidates that are left, with how far and    *)
(* how many of them match.                                                 *)
Listed(words, at) == [words |-> words, at |-> at, idx |-> 0]

MatchAll(words) ==
  [comp |-> Listed(words, Min({1, Len(words)})), len |-> AllAgree(words), match |-> Len(words)]

MatchScan(words, text) ==
  MatchAll(Sorted(IF text = <<>> THEN ToSet(words) ELSE FilterSubstr(words, text)))

MatchPrefix(words, text, again) ==
  LET sorted == Sorted(ToSet(words))
      p == FindPrefix(sorted, Min({1, Len(sorted)}), text)
      n == IF p.match # 0 THEN p.match ELSE p.pref
      left == CASE n = 0 /\ ~again -> NoComp
                [] n > 1 -> Listed(SubSeq(sorted, p.k, p.k + n - 1), 1)
                [] OTHER -> Listed(sorted, p.k)
  IN [comp |-> left, len |-> p.len, match |-> p.match]

Match(e, again) ==
  LET words == e.comp.words
      text == Slice(e.line, e.term.off, e.term.off + e.term.len)
  IN CASE e.term.type = "scan" -> MatchScan(words, text)
       [] e.term.type = "fzf" /\ Len(words) = 1 -> MatchAll(words)
       [] OTHER -> MatchPrefix(words, text, again)

(* The only match is put in, quoted; else as much as all matches have.     *)
TabFirst(e, again) ==
  LET m == Match(e, again)
      f == [e EXCEPT !.comp = m.comp]
      word == f.comp.words[f.comp.at]
  IN IF f.comp.words = <<>> THEN Reset(e)
     ELSE IF f.comp.at = 0 \/ m.len = 0 THEN f
     ELSE IF m.match = 1 /\ m.len = Len(word) THEN Reset(Put(e, Quoted(word, e.term)))
     ELSE [Put(f, SubSeq(word, 1, m.len)) EXCEPT !.term.len = m.len]

(* Mutant: the candidate is that from which the search begins.             *)
AcceptAt(e) ==
  Reset(IF e.comp.at = 0 THEN e ELSE Put(e, Quoted(e.comp.words[e.comp.at], e.term)))

(* completion_accept, but for clearing the window                          *)
Accept(e) ==
  LET k == Saved!Find(e.comp.words, e.comp.at, e.comp.idx)
  IN Reset(IF k = 0 THEN e ELSE Put(e, Quoted(e.comp.words[k], e.term)))

(* completion_update, of a term to which a character was added.            *)
Narrow(e, p) ==
  LET len == e.term.len + 1
      f == [e EXCEPT !.comp.idx = p.k, !.comp.at = p.k, !.term.len = len]
  IN IF p.match = 1 THEN Accept(f)
     ELSE [Put(f, SubSeq(e.comp.words[p.k], 1, p.len)) EXCEPT
             !.cur = e.cur + p.len - len, !.term.len = p.len]

Update(e) ==
  LET len == e.term.len + 1
      p == FindPrefix(e.comp.words, e.comp.at, Slice(e.line, e.term.off, e.term.off + len))
      k == Saved!Find(e.comp.words, e.comp.at, e.comp.idx)
  IN IF e.term.off + len > Len(e.line) THEN Reset(e)
     ELSE IF p.k # 0 /\ p.len >= len THEN Narrow(e, p)
     ELSE IF k # 0 /\ Len(e.comp.words[k]) = e.term.len
       THEN [Accept(e) EXCEPT !.cur = @ + len - p.len]
     ELSE Reset(e)

-----------------------------------------------------------------------------
NotPaged == [keysPg |-> PgCount(KeyCnt) - 1, help |-> 0]
Longest == IF others = NotPaged THEN MaxLen ELSE 0

Init ==
  /\ line = <<>> /\ cur = 0
  /\ term = NoTerm /\ comp = NoComp
  /\ w = NoWindow
  /\ hist = 0
  /\ others = NotPaged
  /\ tabbed = FALSE /\ status = "line" /\ key = "none"

Edited(e) == line' = e.line /\ cur' = e.cur /\ term' = e.term /\ comp' = e.comp

Does(action) == status = "line" /\ key' = action /\ UNCHANGED <<tabbed, status>>

Completing == w.mode = "completion"

(* What dispatch clears for most keys.                                     *)
Uncompleting == IF Completing THEN ShowClear(w) ELSE w

(* Mutant: the window follows only to what is below it.                    *)
FollowDown(words, old, idx) ==
  IF idx = old \/ idx <= w.end THEN w ELSE ShowCompletionIndex(w, Len(words), idx)

(* How the window follows a new selection.                                 *)
Follow(words, old, idx) ==
  IF idx = old \/ Shows(w, idx) THEN w ELSE ShowCompletionIndex(w, Len(words), idx)

InsertedAt(char) == Slice(line, 0, cur) \o <<char>> \o Slice(line, cur, End)

Beyond == comp.at = 0 \/ \E k \in 1 .. comp.at - 1 : IsPrefix(TermText, comp.words[k])

Other ==
  comp.idx # 0 /\ Len(comp.words[comp.idx]) = term.len /\ comp.words[comp.idx] # TermText
Inside == cur < term.off + term.len

InsertChar(char) ==
  LET typed == [Edit EXCEPT !.line = InsertedAt(char), !.cur = cur + 1]
      e == IF Completing THEN Update(typed) ELSE typed
  IN /\ Does(char)
     /\ End < Longest
     /\ Completing /\ Beyond => "typeBeyond" \in Habits
     /\ Completing /\ Other => "typeOther" \in Habits
     /\ Completing /\ Inside => "typeInside" \in Habits
     /\ Edited(e)
     /\ w' = IF ~Completing THEN w
             ELSE IF e.comp = NoComp THEN ShowClear(w)
             ELSE Follow(comp.words, comp.idx, e.comp.idx)
     /\ UNCHANGED <<hist, others>>

GoLeft ==
  /\ Does("GO_LEFT")
  /\ cur' = Max({0, cur - 1})
  /\ w' = Uncompleting
  /\ UNCHANGED <<line, term, comp, hist, others>>

GoRight ==
  /\ Does("GO_RIGHT")
  /\ IF Completing THEN Edited(Accept(Edit))
     ELSE cur' = Min({End, cur + 1}) /\ UNCHANGED <<line, term, comp>>
  /\ w' = Uncompleting
  /\ UNCHANGED <<hist, others>>

-----------------------------------------------------------------------------
(* TAB_COMPLETE, TAB_REVERSE and the SHOW_ keys start a completion, which  *)
(* is returned to the application.                                         *)
ActionOf(type) ==
  CASE type = "any" -> {"TAB_COMPLETE"}
    [] type = "scan" -> {"TAB_REVERSE", "SHOW"}
    [] type = "help" -> {"SHOW_HELP"}
    [] OTHER -> {"SHOW"}

Tabs == {"TAB_COMPLETE", "TAB_REVERSE"}

StartCompletion(type, action) ==
  /\ status = "line" /\ key' = action
  /\ action \in Tabs => w.mode \notin {"completion", "history"}
  /\ End <= Longest /\ (type = "help" \/ others = NotPaged)
  /\ NothingAfterQuoted \/ "afterQuoted" \in Habits
  /\ type = "help" /\ comp # NoComp => "helpOver" \in Habits
  /\ status' = "complete" /\ tabbed' = (key = "TAB_COMPLETE")
  /\ term' = InitTerm(type)
  /\ comp' = IF type = "help" THEN comp ELSE NoComp
  /\ w' = IF type = "help" THEN ShowClear(w) ELSE Uncompleting
  /\ UNCHANGED <<line, cur, hist, others>>

TabAcceptHistory(action) ==
  /\ Does(action)
  /\ w.mode = "history"
  /\ cur' = End
  /\ w' = ShowClear(w)
  /\ UNCHANGED <<line, term, comp, hist, others>>

Cycled(idx, reverse) ==
  IF idx = 0 THEN 1
  ELSE IF reverse THEN (IF idx = 1 THEN Cnt ELSE idx - 1)
  ELSE IF idx = Cnt THEN 1 ELSE idx + 1

(* tab_next_completion                                                     *)
TabNext(action) ==
  LET next == [comp EXCEPT !.idx = Cycled(@, action = "TAB_REVERSE"),
                           !.at = IF comp.idx = 0 THEN 1 ELSE @]
      k == Saved!Find(next.words, next.at, next.idx)
      e == [Edit EXCEPT !.comp = next]
      word == next.words[k]
  IN /\ Does(action)
     /\ Completing
     /\ IF k = 0 THEN Edited(e) /\ w' = w
        ELSE /\ Edited([Put(e, word) EXCEPT !.term.len = Len(word)])
             /\ w' = Follow(next.words, comp.idx, next.idx)
     /\ UNCHANGED <<hist, others>>

(* completion_get_line: the application adds candidates, or fill_completions *)
(* calls back for them.                                                    *)
Completes == status = "complete" /\ status' = "line" /\ tabbed' = FALSE /\ UNCHANGED key

CompleteTerm(words, added) ==
  LET type == IF added THEN "fzf" ELSE term.type
      e == TabFirst([Edit EXCEPT !.term.type = type, !.comp = Listed(words, Len(words))], tabbed)
  IN /\ Completes
     /\ term.type \notin {"history", "help"}
     /\ added => words # <<>>
     /\ Edited(e)
     /\ w' = IF e.comp = NoComp THEN w
             ELSE ShowCompletionIndex(ShowClear(w), Len(e.comp.words), 0)
     /\ UNCHANGED <<hist, others>>

CompleteHistory(words) ==
  /\ Completes
  /\ term.type = "history"
  /\ UNCHANGED <<term, hist, others>>
  /\ IF words = <<>>
       THEN w' = ShowHistoryIndex(ShowClear(w), HistCnt, hist) /\ UNCHANGED <<line, cur, comp>>
       ELSE /\ comp' = Listed(words, Len(words))
            /\ line' = words[1] /\ cur' = 0
            /\ UNCHANGED w

CompleteHelp(words) ==
  LET all == comp.words \o words
      help == IF all = <<>> THEN Max({1, others.help}) ELSE Len(all)
  IN /\ Completes
     /\ term.type = "help"
     /\ all = <<>> /\ w.pg >= PgCount(help) => "helpAgain" \in Habits \/ help = 1
     /\ others' = [others EXCEPT !.help = help]
     /\ IF all = <<>>
          THEN w' = ShowLsb(ShowClear(w), "help", help) /\ UNCHANGED <<term, comp>>
          ELSE /\ w' = StartPage(ShowClear(w), "help", help)
               /\ term' = NoTerm /\ comp' = NoComp
     /\ UNCHANGED <<line, cur, hist>>

-----------------------------------------------------------------------------
(* The selection in the window: completion_prev, _next, _top and _bottom.  *)
NoneFoundUp == comp.at = 0 => "upAtNone" \in Habits
OnPageUp == OnPage(w, Cnt) \/ "upOffPage" \in Habits

PrevCandidate ==
  LET idx == IF ~Shows(w, comp.idx) THEN w.end ELSE Max({1, comp.idx - 1})
      found == Shows(w, idx) /\ comp.at # 0
  IN /\ Completing /\ NoneFoundUp /\ OnPageUp
     /\ comp' = [comp EXCEPT !.idx = idx]
     /\ w' = IF found THEN w ELSE PrevPage(w, "completion", Cnt)

NextCandidate ==
  LET on == Shows(w, comp.idx)
      idx == IF on THEN Min({Cnt, comp.idx + 1}) ELSE w.start
  IN /\ Completing
     /\ comp' = [comp EXCEPT !.idx = idx, !.at = IF on THEN @ ELSE w.start]
     /\ w' = IF Shows(w, idx) THEN w ELSE NextPage(w, "completion", Cnt)

EndCandidate(idx) ==
  /\ Completing
  /\ comp' = IF comp.idx = idx THEN comp ELSE [comp EXCEPT !.idx = idx, !.at = idx]
  /\ UNCHANGED w

SelectCandidate(how) ==
  /\ Does(how)
  /\ CASE how = "PREV_ITEM" -> PrevCandidate
       [] how = "NEXT_ITEM" -> NextCandidate
       [] how = "GOTO_TOP" -> EndCandidate(w.start)
       [] how = "GOTO_BOTTOM" -> EndCandidate(w.end)
       [] OTHER -> Completing /\ UNCHANGED <<comp, w>>
  /\ UNCHANGED <<line, cur, term, hist, others>>

(* history_older, _newer, _top, _middle and _bottom, and history_move      *)
InHistory == w.mode = "history"
Older == LET from == IF InHistory /\ ~Shows(w, hist) THEN w.end + 1 ELSE hist
         IN IF from = 0 THEN HistCnt ELSE from - 1
Newer == LET from == IF InHistory /\ ~Shows(w, hist) THEN w.start - 1 ELSE hist
         IN (from + 1) % (HistCnt + 1)
Entry(how) ==
  CASE how = "PREV_ITEM"   -> Older
    [] how = "NEXT_ITEM"   -> Newer
    [] how = "GOTO_TOP"    -> IF InHistory THEN w.start ELSE Newer
    [] how = "GOTO_BOTTOM" -> IF InHistory THEN w.end ELSE Older
    [] OTHER               -> (IF InHistory THEN w.start + w.end ELSE HistCnt) \div 2

Display(idx) == hist' = idx /\ line' = (IF idx = 0 THEN <<>> ELSE Recalled) /\ cur' = 0

SelectEntry(how) ==
  LET idx == Entry(how)
  IN /\ Does(how)
     /\ ~Completing
     /\ Display(idx)
     /\ w' = IF InHistory /\ idx \notin {0, hist} /\ ~Shows(w, idx)
               THEN ShowHistoryIndex(w, HistCnt, idx) ELSE w
     /\ UNCHANGED <<term, comp, others>>

GotoEntry(n) ==
  /\ Does("GOTO_ENTRY")
  /\ ~Completing
  /\ Display(n)
  /\ w' = ShowHistoryIndex(ShowClear(w), HistCnt, n)
  /\ UNCHANGED <<term, comp, others>>

Items == {"PREV_ITEM", "NEXT_ITEM", "GOTO_TOP", "GOTO_MIDDLE", "GOTO_BOTTOM"}

-----------------------------------------------------------------------------
(* SHOW_NEXT_PAGE, SHOW_PREV_PAGE, GOTO_FIRST_ENTRY and GOTO_LAST_ENTRY    *)
PageKey == [next |-> "SHOW_NEXT_PAGE", prev |-> "SHOW_PREV_PAGE",
            start |-> "GOTO_FIRST_ENTRY", end |-> "GOTO_LAST_ENTRY"]

CntOf(mode) ==
  CASE mode = "completion" -> Cnt [] mode = "history" -> HistCnt
    [] mode = "keys" -> KeyCnt    [] OTHER -> others.help

Page(how) ==
  /\ Does(PageKey[how])
  /\ w.mode # "none"
  /\ how = "prev" /\ Completing => OnPageUp
  /\ w' = Paged(how, w, w.mode, CntOf(w.mode))
  /\ others' = IF w.mode = "keys" THEN [others EXCEPT !.keysPg = w'.pg] ELSE others
  /\ UNCHANGED <<line, cur, term, comp, hist>>

(* With no window, the history is shown, and an empty line takes an entry. *)
PageHistory(how) ==
  LET shown == IF how \in {"start", "next"} THEN StartPage(w, "history", HistCnt)
                                            ELSE EndPage(w, "history", HistCnt)
      idx == IF how \in {"start", "next"} THEN shown.start ELSE shown.end
  IN /\ Does(PageKey[how])
     /\ w.mode = "none"
     /\ IF hist = 0 /\ line = <<>>
          THEN Display(idx) /\ w' = ShowHistoryIndex(shown, HistCnt, idx)
          ELSE w' = shown /\ UNCHANGED <<hist, line, cur>>
     /\ UNCHANGED <<term, comp, others>>

(* show_keys, at the page where it was.                                    *)
ShowKeys ==
  /\ Does("SHOW_KEYS")
  /\ w' = ShowLsb([ShowClear(w) EXCEPT !.pg = others.keysPg], "keys", KeyCnt)
  /\ UNCHANGED <<line, cur, term, comp, hist, others>>

Clear ==
  /\ Does("SHOW_CLEAR")
  /\ w' = ShowClear(w)
  /\ UNCHANGED <<line, cur, term, comp, hist, others>>

FinishLine ==
  /\ Does("FINISH_LINE")
  /\ line' = <<>> /\ cur' = 0 /\ term' = NoTerm /\ comp' = NoComp
  /\ w' = ShowClear(w) /\ hist' = 0
  /\ UNCHANGED others

Next ==
  \/ \E char \in Typed : InsertChar(char)
  \/ GoLeft \/ GoRight
  \/ \E type \in Types : \E action \in ActionOf(type) : StartCompletion(type, action)
  \/ \E action \in Tabs : TabAcceptHistory(action) \/ TabNext(action)
  \/ \E words \in Lists :
       \/ \E added \in BOOLEAN : CompleteTerm(words, added)
       \/ CompleteHistory(words)
  \/ \E words \in Helps : CompleteHelp(words)
  \/ \E how \in Items : SelectCandidate(how) \/ SelectEntry(how)
  \/ \E n \in 1 .. HistCnt : GotoEntry(n)
  \/ \E how \in DOMAIN PageKey : Page(how) \/ PageHistory(how)
  \/ ShowKeys \/ Clear \/ FinishLine

Spec == Init /\ [][Next]_vars

-----------------------------------------------------------------------------
(* The term is in the line and the window in its list.                     *)
TypeOK ==
  /\ cur \in 0 .. End
  /\ term.quote \in 0 .. 3
  /\ comp.at \in 0 .. Cnt /\ comp.idx \in 0 .. Cnt
  /\ hist \in 0 .. HistCnt
  /\ Completing \/ status = "complete" => term.off + term.len <= End
  /\ w.mode # "none" =>
       1 <= w.start /\ w.start <= w.end /\ w.end <= CntOf(w.mode) /\ w.end < w.start + Lines

(* A completion changes nothing but the term, also when a character typed  *)
(* in it goes on with one: what is before it and behind it stays, and the  *)
(* cursor is between what was put in and what is behind.                   *)
AtEndOfTerm == cur = term.off + term.len

OnlyTheTerm ==
  [][/\ Completing \/ (status = "complete" /\ term.type \notin {"history", "help"})
     /\ key' # "FINISH_LINE" /\ (key' \in Typed => AtEndOfTerm)
     => /\ IsPrefix(Before, line') /\ IsSuffix(Behind, line')
        /\ line' # line => cur' = Len(line') - Len(Behind)]_vars

(* What is selected is what comes into the line: the candidate after TAB,  *)
(* as it is, and after GO_RIGHT, quoted.  What is typed narrows the list   *)
(* to the candidates it begins, and the only one of them is put in.        *)
Selects ==
  /\ key' \in Tabs /\ Completing => Slice(line', term'.off, term'.off + term'.len) = comp'.words[comp'.idx]
  /\ key' = "GO_RIGHT" /\ Completing /\ comp.idx # 0 =>
       line' = Before \o Quoted(comp.words[comp.idx], term) \o Behind

Narrows(char) ==
  LET text == Slice(InsertedAt(char), term.off, term.off + term.len + 1)
      fits == {k \in 1 .. Cnt : IsPrefix(text, comp.words[k])}
      now  == Slice(line', term'.off, term'.off + term'.len)
  IN key' = char /\ Completing /\ AtEndOfTerm =>
       /\ Cardinality(fits) > 1 =>
            /\ w'.mode = "completion" /\ IsPrefix(text, now)
            /\ \A k \in fits : IsPrefix(now, comp.words[k])
       /\ \A k \in fits : fits = {k} =>
            w'.mode = "none" /\ line' = Before \o Quoted(comp.words[k], term) \o Behind

AsSelected == [][Selects /\ \A char \in Typed : Narrows(char)]_vars

(* The line to which a key moves the selection is in the window.           *)
MarkedShown ==
  [][/\ Completing /\ w'.mode = "completion" /\ comp'.idx # comp.idx => Shows(w', comp'.idx)
     /\ w'.mode = "history" /\ hist' \notin {0, hist} => Shows(w', hist')]_vars

(* Paging shows every line: a page begins at most one line after the end   *)
(* of the one before, and goes on until the end of the list.               *)
NothingSkipped ==
  [][w.mode # "none" /\ w'.mode = w.mode =>
       /\ key' = "SHOW_NEXT_PAGE" =>
            w'.start <= w.end + 1 /\ (w'.end > w.end \/ w.end = CntOf(w.mode))
       /\ key' = "SHOW_PREV_PAGE" =>
            w'.end >= w.start - 1 /\ (w'.start < w.start \/ w.start = 1)]_vars
=============================================================================
