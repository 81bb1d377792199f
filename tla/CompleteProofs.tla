--------------------------- MODULE CompleteProofs ---------------------------
(* What is proved of Complete: IInv, which says what the line, the term,   *)
(* the candidates and the window are to each other, is inductive, and gives*)
(* the type invariant; with Turning (a window is on its page), Starting and*)
(* Found it gives the action properties MarkedShown, NothingSkipped and    *)
(* OnlyTheTerm.  First comes what the operators of ShowWindow and Complete *)
(* do, as one lemma each, then the actions.                                *)
EXTENDS Complete, FiniteSetTheorems, SequenceTheorems, WellFoundedInduction, TLAPS

-----------------------------------------------------------------------------
(* Numbers.                                                                *)

(* A set of numbers has a least one.                                       *)
LEMMA Least ==
  ASSUME NEW S \in SUBSET Nat, S # {}
  PROVE  \E k \in S : \A j \in S : k <= j
<1> DEFINE R == OpToRel(<, Nat)
<1>1. IsWellFoundedOn(R, Nat)
  BY NatLessThanWellFounded
<1>2. \A j, k \in S : j < k => <<j, k>> \in R
  BY DEF OpToRel
<1> HIDE DEF R
<1>3. PICK k \in S : \A j \in S : ~(<<j, k>> \in R)
  BY <1>1, WFMin
<1>4. \A j \in S : j \in Nat
  OBVIOUS
<1>5. \A j \in S : ~(j < k)
  BY <1>2, <1>3
<1> QED BY <1>4, <1>5

(* What Min takes from a set.                                              *)
LEMMA MinIn ==
  ASSUME NEW S \in SUBSET Nat, S # {}
  PROVE  Min(S) \in S /\ \A j \in S : Min(S) <= j
BY Least, Zenon DEF Min

(* A set of numbers with a bound has a greatest one.                       *)
LEMMA MaxIn ==
  ASSUME NEW n \in Nat, NEW S \in SUBSET (0 .. n), S # {}
  PROVE  Max(S) \in S /\ \A j \in S : Max(S) >= j
<1> DEFINE T == {n - k : k \in S}
<1>1. T \in SUBSET Nat /\ T # {}
  <2>1. \A k \in S : k \in 0 .. n /\ n - k \in Nat
    OBVIOUS
  <2> QED BY <2>1
<1>2. PICK m \in T : \A j \in T : m <= j
  BY <1>1, Least, Zenon
<1>3. PICK k \in S : m = n - k
  BY <1>2
<1>4. \A j \in S : n - j \in T
  OBVIOUS
<1>5. \A j \in S : k >= j
  BY <1>2, <1>3, <1>4
<1> QED BY <1>5, Zenon DEF Max

(* The greater, and the lesser, of two numbers.                            *)
LEMMA MaxOfTwo ==
  ASSUME NEW a \in Int, NEW b \in Int
  PROVE  Max({a, b}) = IF a >= b THEN a ELSE b
<1>1. \E x \in {a, b} : \A y \in {a, b} : x >= y
  OBVIOUS
<1>2. Max({a, b}) \in {a, b} /\ \A y \in {a, b} : Max({a, b}) >= y
  BY <1>1, Zenon DEF Max
<1> QED BY <1>2

LEMMA MinOfTwo ==
  ASSUME NEW a \in Int, NEW b \in Int
  PROVE  Min({a, b}) = IF a <= b THEN a ELSE b
<1>1. \E x \in {a, b} : \A y \in {a, b} : x =< y
  OBVIOUS
<1>2. Min({a, b}) \in {a, b} /\ \A y \in {a, b} : Min({a, b}) =< y
  BY <1>1, Zenon DEF Min
<1> QED BY <1>2

-----------------------------------------------------------------------------
(* Pages.                                                                  *)

(* Division by the number of lines of the window.                          *)
LEMMA Divided ==
  ASSUME NEW a \in Nat
  PROVE  /\ a \div Lines \in Nat
         /\ (a \div Lines) * Lines <= a
         /\ a < (a \div Lines) * Lines + Lines
BY LinesAssumption

(* pgcount: the pages are as many as the lines need.                       *)
LEMMA PgCountIs ==
  ASSUME NEW cnt \in Nat
  PROVE  /\ PgCount(cnt) \in Nat
         /\ cnt <= PgCount(cnt) * Lines
         /\ PgCount(cnt) * Lines < cnt + Lines
<1>1. cnt + Lines - 1 \in Nat
  BY LinesAssumption
<1>2. PICK q \in Nat : q = (cnt + Lines - 1) \div Lines /\ q * Lines <= cnt + Lines - 1
                       /\ cnt + Lines - 1 < q * Lines + Lines
  BY <1>1, Divided
<1> QED BY <1>2, LinesAssumption DEF PgCount

WindowModes == {"none", "completion", "history", "keys", "help"}
Windows == [mode : WindowModes, pg : Nat, start : Int, end : Int]

(* The window shows a part of a list of cnt lines, as many as it has room  *)
(* for from its first.                                                     *)
Fits(v, cnt) ==
  /\ 1 <= v.start /\ v.start <= v.end /\ v.end <= cnt
  /\ v.end = IF cnt <= v.start + Lines - 1 THEN cnt ELSE v.start + Lines - 1

(* It begins on the page pg, whose lines are above the pg pages below it.  *)
InPage(v, cnt) ==
  /\ v.pg * Lines < cnt
  /\ FirstOf(cnt, v.pg) <= v.start /\ v.start + v.pg * Lines <= cnt

(* The first line of a page counted from the end of the list.              *)
LEMMA FirstIs ==
  ASSUME NEW cnt \in Nat \ {0}, NEW pg \in Nat
  PROVE  /\ pg * Lines \in Nat
         /\ FirstOf(cnt, pg) =
              IF 1 >= cnt - pg * Lines - Lines + 1 THEN 1 ELSE cnt - pg * Lines - Lines + 1
         /\ FirstOf(cnt, pg) \in 1 .. cnt
<1>1. PICK p \in Nat : p = pg * Lines
  BY LinesAssumption
<1>2. cnt - (pg + 1) * Lines + 1 = cnt - p - Lines + 1
  BY <1>1, LinesAssumption
<1>3. FirstOf(cnt, pg) = Max({1, cnt - p - Lines + 1})
  BY <1>2 DEF FirstOf
<1>4. PICK q \in Int : q = cnt - p - Lines + 1
  BY <1>1, LinesAssumption
<1>5. Max({1, q}) = IF 1 >= q THEN 1 ELSE q
  BY MaxOfTwo
<1> QED BY <1>1, <1>3, <1>4, <1>5, LinesAssumption

(* One field of a window is set.                                           *)
LEMMA Turned ==
  ASSUME NEW v \in Windows, NEW g \in Nat
  PROVE  [v EXCEPT !.pg = g] \in Windows /\ [v EXCEPT !.pg = g].pg = g
BY DEF Windows

LEMMA Renamed ==
  ASSUME NEW v \in Windows, NEW mode \in WindowModes
  PROVE  /\ [v EXCEPT !.mode = mode] \in Windows
         /\ [v EXCEPT !.mode = mode].pg = v.pg /\ [v EXCEPT !.mode = mode].mode = mode
BY DEF Windows

(* show_save: the window begins at first, or at the first line when that   *)
(* is before it, and fits its list.                                        *)
LEMMA SaveShows ==
  ASSUME NEW v \in Windows, NEW cnt \in Nat \ {0}, NEW first \in Int, first <= cnt
  PROVE  /\ ShowSave(v, cnt, first) \in Windows
         /\ ShowSave(v, cnt, first).mode = v.mode
         /\ ShowSave(v, cnt, first).pg = v.pg
         /\ ShowSave(v, cnt, first).start = IF first < 1 THEN 1 ELSE first
         /\ Fits(ShowSave(v, cnt, first), cnt)
<1>1. PICK s \in 1 .. cnt : s = Max({1, first}) /\ s = IF first < 1 THEN 1 ELSE first
  BY MaxOfTwo
<1>2. s + Lines - 1 \in Int
  BY LinesAssumption
<1>3. PICK e \in Int : /\ e = Min({cnt, s + Lines - 1})
                       /\ e = IF cnt <= s + Lines - 1 THEN cnt ELSE s + Lines - 1
  BY <1>2, MinOfTwo
<1>4. ~(first > cnt)
  OBVIOUS
<1>5. ShowSave(v, cnt, first) = [v EXCEPT !.start = s, !.end = e]
  BY <1>1, <1>3, <1>4, Zenon DEF ShowSave
<1>6. PICK x : x = ShowSave(v, cnt, first)
  OBVIOUS
<1>7. PICK y : y = [v EXCEPT !.start = s]
  OBVIOUS
<1>8. /\ x \in Windows /\ x.mode = v.mode /\ x.pg = v.pg
      /\ x.start = s /\ x.end = e
  <2>1. /\ y \in Windows /\ y.mode = v.mode /\ y.pg = v.pg /\ y.start = s
    BY <1>7 DEF Windows
  <2>2. x = [y EXCEPT !.end = e]
    BY <1>5, <1>6, <1>7
  <2>3. x \in Windows /\ x.end = e
    BY <2>1, <2>2 DEF Windows
  <2>4. x.mode = y.mode /\ x.pg = y.pg /\ x.start = y.start
    BY <2>1, <2>2 DEF Windows
  <2> QED BY <2>1, <2>3, <2>4
<1>9. Fits(x, cnt)
  BY <1>1, <1>3, <1>8, LinesAssumption DEF Fits
<1> QED BY <1>1, <1>6, <1>8, <1>9

(* show_lsb: the window shows its page, counted from the end of the list.  *)
LEMMA LsbShows ==
  ASSUME NEW v \in Windows, NEW mode \in WindowModes, NEW cnt \in Nat \ {0}
  PROVE  /\ ShowLsb(v, mode, cnt) \in Windows
         /\ ShowLsb(v, mode, cnt).mode = mode
         /\ ShowLsb(v, mode, cnt).pg = v.pg
         /\ OnPage(ShowLsb(v, mode, cnt), cnt)
         /\ Fits(ShowLsb(v, mode, cnt), cnt)
<1>1. v.pg \in Nat /\ [v EXCEPT !.mode = mode] \in Windows
      /\ [v EXCEPT !.mode = mode].mode = mode /\ [v EXCEPT !.mode = mode].pg = v.pg
  BY DEF Windows
<1>2. PICK f \in 1 .. cnt : f = FirstOf(cnt, v.pg)
  BY <1>1, FirstIs
<1>3. PICK u \in Windows : u = [v EXCEPT !.mode = mode]
  BY <1>1
<1>4. ShowLsb(v, mode, cnt) = ShowSave(u, cnt, f)
  BY <1>2, <1>3 DEF ShowLsb
<1>5. u.mode = mode /\ u.pg = v.pg /\ f \in Int /\ f <= cnt /\ ~(f < 1)
  BY <1>1, <1>3
<1>6. /\ ShowSave(u, cnt, f) \in Windows
      /\ ShowSave(u, cnt, f).mode = u.mode
      /\ ShowSave(u, cnt, f).pg = u.pg
      /\ ShowSave(u, cnt, f).start = f
      /\ Fits(ShowSave(u, cnt, f), cnt)
  BY <1>5, SaveShows
<1> QED BY <1>2, <1>4, <1>5, <1>6 DEF OnPage

(* On a page that the list has.                                            *)
LEMMA OnPageIn ==
  ASSUME NEW v \in Windows, NEW cnt \in Nat \ {0}, OnPage(v, cnt), v.pg < PgCount(cnt)
  PROVE  InPage(v, cnt)
<1>1. v.pg \in Nat
  BY DEF Windows
<1>2. PICK p \in Nat : p = v.pg * Lines
  BY <1>1, LinesAssumption
<1>3. PICK q \in Nat : q = PgCount(cnt) /\ q * Lines < cnt + Lines
  BY PgCountIs
<1>4. p + Lines <= q * Lines
  <2>1. PICK r \in Nat : r = q - v.pg - 1
    BY <1>1, <1>3
  <2>2. q * Lines = p + Lines + r * Lines /\ r * Lines \in Nat
    BY <1>1, <1>2, <2>1, LinesAssumption
  <2> QED BY <1>2, <2>2, LinesAssumption
<1>5. p < cnt
  <2>1. q * Lines \in Nat
    BY <1>3, LinesAssumption
  <2> QED BY <1>2, <1>3, <1>4, <2>1, LinesAssumption
<1>6. /\ FirstOf(cnt, v.pg) = IF 1 >= cnt - p - Lines + 1 THEN 1 ELSE cnt - p - Lines + 1
      /\ v.start = FirstOf(cnt, v.pg)
  BY <1>1, <1>2, FirstIs DEF OnPage
<1> QED BY <1>2, <1>5, <1>6, LinesAssumption DEF InPage

(* A page that begins within the list is one of its pages.                 *)
LEMMA PagesAbove ==
  ASSUME NEW cnt \in Nat \ {0}, NEW pg \in Nat, pg * Lines < cnt
  PROVE  pg < PgCount(cnt)
<1>1. PICK q \in Nat : q = PgCount(cnt) /\ cnt <= q * Lines
  BY PgCountIs
<1>2. SUFFICES ASSUME q <= pg PROVE FALSE
  BY <1>1
<1>3. PICK r \in Nat : pg = q + r
  BY <1>2
<1>4. pg * Lines = q * Lines + r * Lines /\ r * Lines \in Nat /\ q * Lines \in Nat
  BY <1>3, LinesAssumption
<1> QED BY <1>1, <1>4

(* show_X_next_page: the next page begins at most one line after this one, *)
(* and goes on until the end of the list.                                  *)
LEMMA NextShows ==
  ASSUME NEW v \in Windows, NEW mode \in WindowModes, NEW cnt \in Nat \ {0},
         Fits(v, cnt), InPage(v, cnt),
         NEW x, x = NextPage(v, mode, cnt)
  PROVE  /\ x \in Windows /\ x.mode = mode /\ Fits(x, cnt) /\ OnPage(x, cnt)
         /\ x.pg < PgCount(cnt)
         /\ x.start <= v.end + 1 /\ (x.end > v.end \/ v.end = cnt)
<1>1. v.pg \in Nat /\ v.start \in Int /\ v.end \in Int
  BY DEF Windows
<1>2. PICK g \in Nat : g = Max({0, v.pg - 1}) /\ g = IF v.pg = 0 THEN 0 ELSE v.pg - 1
  <2>1. v.pg - 1 \in Int
    BY <1>1
  <2> QED BY <1>1, <2>1, MaxOfTwo
<1>3. PICK u \in Windows : u = [v EXCEPT !.pg = g]
  BY Turned
<1>4. x = ShowLsb(u, mode, cnt)
  BY <1>2, <1>3 DEF NextPage
<1>5. x \in Windows /\ x.mode = mode /\ x.pg = g /\ OnPage(x, cnt) /\ Fits(x, cnt)
  <2>1. u.pg = g
    BY <1>3, Turned
  <2> QED BY <1>4, <2>1, LsbShows
<1>6. PICK p \in Nat : p = v.pg * Lines
  BY <1>1, LinesAssumption
<1>7. g * Lines = IF v.pg = 0 THEN 0 ELSE p - Lines
  <2>1. CASE v.pg = 0
    BY <1>2, <2>1, LinesAssumption
  <2>2. CASE v.pg # 0
    <3>1. v.pg = g + 1
      <4>1. g = v.pg - 1
        BY <1>2, <2>2, Zenon
      <4> QED BY <1>1, <4>1
    <3>2. v.pg * Lines = g * Lines + Lines /\ g * Lines \in Nat
      BY <3>1, LinesAssumption
    <3> QED BY <1>6, <2>2, <3>2, LinesAssumption
  <2> QED BY <2>1, <2>2
<1>8. /\ x.start = FirstOf(cnt, g)
      /\ FirstOf(cnt, g) = IF 1 >= cnt - g * Lines - Lines + 1 THEN 1
                           ELSE cnt - g * Lines - Lines + 1
      /\ FirstOf(cnt, v.pg) = IF 1 >= cnt - p - Lines + 1 THEN 1 ELSE cnt - p - Lines + 1
      /\ g * Lines \in Nat
  BY <1>1, <1>5, <1>6, FirstIs DEF OnPage
<1>9. x.pg < PgCount(cnt)
  <2>1. v.pg < PgCount(cnt)
    BY <1>1, PagesAbove DEF InPage
  <2> QED BY <1>1, <1>2, <1>5, <2>1, PgCountIs
<1>10. FirstOf(cnt, v.pg) <= v.start /\ v.start + p <= cnt /\ p < cnt
  BY <1>6 DEF InPage
<1>11. PICK h \in Nat : h = g * Lines
  BY <1>8
<1>12. x.start \in Int /\ x.end \in Int
  BY <1>5 DEF Windows
<1>13. v.pg = 0 => p = 0
  BY <1>6, LinesAssumption
<1>14. x.start <= v.end + 1
  BY <1>1, <1>7, <1>8, <1>10, <1>11, <1>12, <1>13, LinesAssumption DEF Fits
<1>15. x.end > v.end \/ v.end = cnt
  BY <1>1, <1>5, <1>7, <1>8, <1>10, <1>11, <1>12, <1>13, LinesAssumption DEF Fits
<1> QED BY <1>5, <1>9, <1>14, <1>15

(* show_X_prev_page, of a window that shows its page.                      *)
LEMMA PrevShows ==
  ASSUME NEW v \in Windows, NEW mode \in WindowModes, NEW cnt \in Nat \ {0},
         Fits(v, cnt), v.pg < PgCount(cnt),
         NEW x, x = PrevPage(v, mode, cnt)
  PROVE  /\ x \in Windows /\ x.mode = mode /\ Fits(x, cnt) /\ OnPage(x, cnt)
         /\ x.pg < PgCount(cnt)
         /\ OnPage(v, cnt) =>
              x.end >= v.start - 1 /\ (x.start < v.start \/ v.start = 1)
<1>1. v.pg \in Nat /\ v.start \in Int /\ v.end \in Int
  BY DEF Windows
<1>2. PICK c \in Nat : c = PgCount(cnt) /\ cnt <= c * Lines
  BY PgCountIs
<1>3. PICK g \in Nat : g = IF v.pg < c - 1 THEN v.pg + 1 ELSE v.pg
  BY <1>1, <1>2
<1>4. PICK u \in Windows : u = [v EXCEPT !.pg = g]
  BY Turned
<1>5. x = ShowLsb(u, mode, cnt)
  BY <1>2, <1>3, <1>4 DEF PrevPage
<1>6. x \in Windows /\ x.mode = mode /\ x.pg = g /\ OnPage(x, cnt) /\ Fits(x, cnt)
  <2>1. u.pg = g
    BY <1>4, Turned
  <2> QED BY <1>5, <2>1, LsbShows
<1>7. x.pg < PgCount(cnt)
  BY <1>1, <1>2, <1>3, <1>6
<1>8. ASSUME OnPage(v, cnt)
      PROVE  x.end >= v.start - 1 /\ (x.start < v.start \/ v.start = 1)
  <2>1. PICK p \in Nat : p = v.pg * Lines
    BY <1>1, LinesAssumption
  <2>2. v.pg < c - 1 => g * Lines = p + Lines
    BY <1>1, <1>3, <2>1, LinesAssumption
  <2>3. PICK h \in Nat : h = g * Lines
    BY <1>3, LinesAssumption
  <2>4. /\ v.start = IF 1 >= cnt - p - Lines + 1 THEN 1 ELSE cnt - p - Lines + 1
        /\ x.start = IF 1 >= cnt - h - Lines + 1 THEN 1 ELSE cnt - h - Lines + 1
    BY <1>1, <1>6, <1>8, <2>1, <2>3, FirstIs DEF OnPage
  <2>5. v.pg = c - 1 => cnt <= p + Lines
    BY <1>1, <1>2, <2>1, LinesAssumption
  <2>6. v.pg = c - 1 \/ v.pg < c - 1
    BY <1>1, <1>2
  <2>7. x.start \in Int /\ x.end \in Int
    BY <1>6 DEF Windows
  <2> QED BY <1>1, <1>6, <2>2, <2>3, <2>4, <2>5, <2>6, <2>7, LinesAssumption DEF Fits
<1> QED BY <1>6, <1>7, <1>8

(* show_X_start and show_X_end: the first page, and the last.              *)
LEMMA EndsShow ==
  ASSUME NEW v \in Windows, NEW mode \in WindowModes, NEW cnt \in Nat \ {0},
         NEW x, x \in {StartPage(v, mode, cnt), EndPage(v, mode, cnt)}
  PROVE  /\ x \in Windows /\ x.mode = mode /\ Fits(x, cnt) /\ OnPage(x, cnt)
         /\ x.pg < PgCount(cnt)
         /\ x = EndPage(v, mode, cnt) => x.end = cnt
<1>1. PICK c \in Nat : c = PgCount(cnt) /\ cnt <= c * Lines
  BY PgCountIs
<1>2. c > 0
  BY <1>1, LinesAssumption
<1>3. PICK g \in Nat : /\ g < c /\ x = ShowLsb([v EXCEPT !.pg = g], mode, cnt)
                       /\ x = EndPage(v, mode, cnt) => g = 0 \/ x.end = cnt
  <2>1. CASE x = EndPage(v, mode, cnt)
    BY <1>2, <2>1 DEF EndPage
  <2>2. CASE x = StartPage(v, mode, cnt) /\ x # EndPage(v, mode, cnt)
    BY <1>1, <1>2, <2>2 DEF StartPage
  <2> QED BY <2>1, <2>2
<1>4. PICK u \in Windows : u = [v EXCEPT !.pg = g]
  BY Turned
<1>5. x \in Windows /\ x.mode = mode /\ x.pg = g /\ OnPage(x, cnt) /\ Fits(x, cnt)
  <2>1. u.pg = g
    BY <1>4, Turned
  <2>2. x = ShowLsb(u, mode, cnt)
    BY <1>3, <1>4
  <2>3. x \in Windows /\ x.mode = mode /\ x.pg = u.pg
    BY <2>2, LsbShows
  <2>4. OnPage(x, cnt) /\ Fits(x, cnt)
    BY <2>2, LsbShows
  <2> QED BY <2>1, <2>3, <2>4
<1>6. ASSUME g = 0 PROVE x.end = cnt
  <2>1. g * Lines = 0
    BY <1>6, LinesAssumption
  <2>2. x.start = IF 1 >= cnt - 0 - Lines + 1 THEN 1 ELSE cnt - 0 - Lines + 1
    BY <1>5, <2>1, FirstIs DEF OnPage
  <2> QED BY <1>5, <2>2, LinesAssumption DEF Fits, Windows
<1> QED BY <1>1, <1>3, <1>5, <1>6

(* pgnum of a line of the list.                                            *)
LEMMA PgNumIs ==
  ASSUME NEW cnt \in Nat \ {0}, NEW idx \in 1 .. cnt
  PROVE  /\ PgNum(cnt, idx) \in Nat
         /\ idx + PgNum(cnt, idx) * Lines <= cnt
         /\ cnt - PgNum(cnt, idx) * Lines - Lines + 1 <= idx
<1>1. PICK a \in Nat : a = cnt - idx
  OBVIOUS
<1>2. PgNum(cnt, idx) = a \div Lines
  BY <1>1 DEF PgNum
<1>3. PICK q \in Nat : q = a \div Lines /\ q * Lines <= a /\ a < q * Lines + Lines
  BY Divided
<1>4. PICK p \in Nat : p = q * Lines
  BY <1>3, LinesAssumption
<1> QED BY <1>1, <1>2, <1>3, <1>4, LinesAssumption

(* show_history_index shows the line.                                      *)
LEMMA HistoryShows ==
  ASSUME NEW v \in Windows, NEW cnt \in Nat \ {0}, NEW idx \in 0 .. cnt,
         NEW x, x = ShowHistoryIndex(v, cnt, idx)
  PROVE  /\ x \in Windows /\ x.mode = "history" /\ Fits(x, cnt) /\ OnPage(x, cnt)
         /\ x.pg < PgCount(cnt)
         /\ idx # 0 => Shows(x, idx)
<1> PICK mode \in WindowModes : mode = "history"
  BY DEF WindowModes
<1>1. CASE idx = 0 \/ idx >= cnt
  <2>1. x = EndPage(v, mode, cnt)
    BY <1>1 DEF ShowHistoryIndex
  <2>2. /\ x \in Windows /\ x.mode = "history" /\ Fits(x, cnt) /\ OnPage(x, cnt)
        /\ x.pg < PgCount(cnt) /\ x.end = cnt
    BY <2>1, EndsShow
  <2>3. idx # 0 => idx = cnt
    BY <1>1
  <2> QED BY <2>2, <2>3 DEF Shows, Fits, Windows
<1>2. CASE idx # 0 /\ idx < cnt
  <2>1. PICK g \in Nat : /\ g = PgNum(cnt, idx) /\ idx + g * Lines <= cnt
                         /\ cnt - g * Lines - Lines + 1 <= idx
    <3>1. idx \in 1 .. cnt
      BY <1>2
    <3> QED BY <3>1, PgNumIs
  <2>2. PICK u \in Windows : u = [v EXCEPT !.pg = g]
    BY Turned
  <2>3. x = ShowLsb(u, mode, cnt)
    BY <1>2, <2>1, <2>2 DEF ShowHistoryIndex
  <2>4. x \in Windows /\ x.mode = "history" /\ x.pg = g /\ OnPage(x, cnt) /\ Fits(x, cnt)
    <3>1. u.pg = g
      BY <2>2, Turned
    <3> QED BY <2>3, <3>1, LsbShows
  <2>5. PICK p \in Nat : p = g * Lines
    BY LinesAssumption
  <2>6. x.pg < PgCount(cnt)
    BY <1>2, <2>1, <2>4, <2>5, PagesAbove
  <2>7. x.start = IF 1 >= cnt - p - Lines + 1 THEN 1 ELSE cnt - p - Lines + 1
    BY <2>4, <2>5, FirstIs DEF OnPage
  <2>8. Shows(x, idx)
    BY <1>2, <2>1, <2>4, <2>5, <2>7, LinesAssumption DEF Shows, Fits, Windows
  <2> QED BY <2>4, <2>6, <2>8
<1> QED BY <1>1, <1>2

(* show_completion_index shows the candidate, at its start.                *)
LEMMA CompletionShows ==
  ASSUME NEW v \in Windows, NEW cnt \in Nat \ {0}, NEW idx \in 0 .. cnt,
         NEW x, x = ShowCompletionIndex(v, cnt, idx)
  PROVE  /\ x \in Windows /\ x.mode = "completion" /\ Fits(x, cnt) /\ InPage(x, cnt)
         /\ x.pg < PgCount(cnt)
         /\ idx # 0 => Shows(x, idx)
<1> DEFINE s == IF idx = 0 THEN 1 ELSE idx
<1>1. PICK g \in Nat :
        /\ g = IF idx = 0 THEN Max({0, PgCount(cnt) - 1}) ELSE PgNum(cnt, idx)
        /\ s + g * Lines <= cnt /\ cnt - g * Lines - Lines + 1 <= s
  <2>1. CASE idx = 0
    <3>1. PICK c \in Nat : c = PgCount(cnt) /\ cnt <= c * Lines /\ c * Lines < cnt + Lines
      BY PgCountIs
    <3>2. c # 0
      BY <3>1, LinesAssumption
    <3>3. PICK g \in Nat : g + 1 = c
      BY <3>2
    <3>4. PICK p \in Nat : p = g * Lines /\ c * Lines = p + Lines
      BY <3>3, LinesAssumption
    <3>5. Max({0, c - 1}) = g
      BY <3>3, MaxOfTwo
    <3> QED BY <2>1, <3>1, <3>4, <3>5, LinesAssumption
  <2>2. CASE idx # 0
    <3>1. idx \in 1 .. cnt
      BY <2>2
    <3> QED BY <2>2, <3>1, PgNumIs
  <2> QED BY <2>1, <2>2
<1> PICK mode \in WindowModes : mode = "completion"
  BY DEF WindowModes
<1>2. PICK u : u = [v EXCEPT !.mode = mode, !.pg = g]
  OBVIOUS
<1>3. u \in Windows /\ u.mode = "completion" /\ u.pg = g
  <2>1. PICK y \in Windows : y = [v EXCEPT !.mode = mode]
    BY Renamed
  <2>2. y.mode = "completion" /\ u = [y EXCEPT !.pg = g]
    BY <1>2, <2>1, Renamed
  <2> QED BY <2>1, <2>2, Turned DEF Windows
<1>4. x = ShowSave(u, cnt, idx)
  BY <1>1, <1>2 DEF ShowCompletionIndex
<1>5. /\ x \in Windows /\ x.mode = "completion" /\ x.pg = g /\ Fits(x, cnt)
      /\ x.start = IF idx < 1 THEN 1 ELSE idx
  BY <1>3, <1>4, SaveShows
<1>6. x.start = s
  BY <1>5
<1>7. PICK p \in Nat : p = g * Lines
  BY LinesAssumption
<1>8. x.pg < PgCount(cnt)
  BY <1>1, <1>5, <1>7, PagesAbove
<1>9. InPage(x, cnt)
  <2>1. FirstOf(cnt, g) = IF 1 >= cnt - p - Lines + 1 THEN 1 ELSE cnt - p - Lines + 1
    BY <1>7, FirstIs
  <2> QED BY <1>1, <1>5, <1>6, <1>7, <2>1, LinesAssumption DEF InPage
<1>10. idx # 0 => Shows(x, idx)
  BY <1>5, <1>6 DEF Shows, Fits, Windows
<1> QED BY <1>5, <1>8, <1>9, <1>10

-----------------------------------------------------------------------------
(* Lines and candidates.                                                   *)

LEMMA SliceIs ==
  ASSUME NEW s \in Words, NEW from \in 0 .. Len(s), NEW to \in from .. Len(s)
  PROVE  /\ Slice(s, from, to) \in Words
         /\ Len(Slice(s, from, to)) = to - from
         /\ \A j \in 1 .. to - from : Slice(s, from, to)[j] = s[from + j]
<1>1. Len(s) \in Nat /\ from \in Nat /\ to \in Nat
  BY LenProperties DEF Words
<1>2. \A i \in from + 1 .. to : s[i] \in Chars
  BY <1>1, ElementOfSeq DEF Words
<1>3. PICK m \in Nat : m = from + 1
  BY <1>1
<1>4. Slice(s, from, to) = SubSeq(s, m, to)
  BY <1>3 DEF Slice
<1>5. /\ SubSeq(s, m, to) \in Seq(Chars)
      /\ Len(SubSeq(s, m, to)) = IF m <= to THEN to - m + 1 ELSE 0
      /\ \A i \in 1 .. to - m + 1 : SubSeq(s, m, to)[i] = s[m + i - 1]
  BY <1>1, <1>2, <1>3, SubSeqProperties
<1>6. to - m + 1 = to - from /\ \A i \in 1 .. to - from : m + i - 1 = from + i
  BY <1>1, <1>3
<1> QED BY <1>1, <1>3, <1>4, <1>5, <1>6 DEF Words

(* A part of a word, by its place and its length.                          *)
LEMMA PartIs ==
  ASSUME NEW s \in Words, NEW from \in Nat, NEW l \in Nat, from + l <= Len(s)
  PROVE  /\ Slice(s, from, from + l) \in Words
         /\ Len(Slice(s, from, from + l)) = l
         /\ \A j \in 1 .. l : Slice(s, from, from + l)[j] = s[from + j]
<1>1. Len(s) \in Nat
  BY LenProperties DEF Words
<1>2. from \in 0 .. Len(s) /\ from + l \in from .. Len(s)
  BY <1>1
<1>3. PICK to \in from .. Len(s) : to = from + l
  BY <1>2
<1>4. to - from = l
  BY <1>3
<1>5. /\ Slice(s, from, to) \in Words
      /\ Len(Slice(s, from, to)) = to - from
      /\ \A j \in 1 .. to - from : Slice(s, from, to)[j] = s[from + j]
  BY <1>2, SliceIs
<1> QED BY <1>3, <1>4, <1>5

(* Two words begin with the same i characters.                             *)
Same(u, v, i) == i <= Len(u) /\ i <= Len(v) /\ \A j \in 1 .. i : u[j] = v[j]

(* Two words begin alike when the parts at their beginnings are equal.     *)
LEMMA SameSlices ==
  ASSUME NEW u \in Words, NEW v \in Words, NEW i \in Nat, i <= Len(u), i <= Len(v)
  PROVE  Slice(u, 0, i) = Slice(v, 0, i) <=> Same(u, v, i)
<1>1. Len(u) \in Nat /\ Len(v) \in Nat
  BY LenProperties DEF Words
<1>2. /\ Slice(u, 0, i) \in Words /\ Len(Slice(u, 0, i)) = i
      /\ \A j \in 1 .. i : Slice(u, 0, i)[j] = u[j]
      /\ Slice(v, 0, i) \in Words /\ Len(Slice(v, 0, i)) = i
      /\ \A j \in 1 .. i : Slice(v, 0, i)[j] = v[j]
  <2>1. i - 0 = i /\ \A j \in 1 .. i : 0 + j = j
    OBVIOUS
  <2>2. PICK z \in Nat : z = 0
    OBVIOUS
  <2>3. z \in 0 .. Len(u) /\ z \in 0 .. Len(v) /\ i \in z .. Len(u) /\ i \in z .. Len(v)
    BY <1>1, <2>2
  <2>4. /\ Slice(u, z, i) \in Words /\ Len(Slice(u, z, i)) = i - z
        /\ \A j \in 1 .. i - z : Slice(u, z, i)[j] = u[z + j]
    BY <2>3, SliceIs
  <2>5. /\ Slice(v, z, i) \in Words /\ Len(Slice(v, z, i)) = i - z
        /\ \A j \in 1 .. i - z : Slice(v, z, i)[j] = v[z + j]
    BY <2>3, SliceIs
  <2> QED BY <2>1, <2>2, <2>4, <2>5
<1>3. ASSUME Same(u, v, i) PROVE Slice(u, 0, i) = Slice(v, 0, i)
  BY <1>2, <1>3, SeqEqual DEF Same, Words
<1>4. ASSUME Slice(u, 0, i) = Slice(v, 0, i) PROVE Same(u, v, i)
  BY <1>2, <1>4 DEF Same
<1> QED BY <1>3, <1>4

(* Agree is the length of what two words have in common at their           *)
(* beginnings.                                                             *)
LEMMA AgreeIs ==
  ASSUME NEW u \in Words, NEW v \in Words
  PROVE  /\ Agree(u, v) \in Nat
         /\ Same(u, v, Agree(u, v))
         /\ \A i \in Nat : Same(u, v, i) => i <= Agree(u, v)
<1> DEFINE S == {i \in 0 .. Min({Len(u), Len(v)}) : Slice(u, 0, i) = Slice(v, 0, i)}
<1>1. Len(u) \in Nat /\ Len(v) \in Nat
  BY LenProperties DEF Words
<1>2. PICK n \in Nat : n = Min({Len(u), Len(v)}) /\ n = IF Len(u) <= Len(v) THEN Len(u) ELSE Len(v)
  BY <1>1, MinOfTwo
<1>3. \A i \in 0 .. n : i \in S <=> Same(u, v, i)
  <2> TAKE i \in 0 .. n
  <2>1. i <= Len(u) /\ i <= Len(v) /\ i \in Nat
    BY <1>1, <1>2
  <2> QED BY <1>2, <2>1, SameSlices
<1>4. 0 \in S
  <2>1. Same(u, v, 0)
    BY <1>1 DEF Same
  <2>2. 0 \in 0 .. n
    OBVIOUS
  <2> HIDE DEF S
  <2> QED BY <1>3, <2>1, <2>2
<1>5. S \in SUBSET (0 .. n)
  BY <1>2
<1>6. Agree(u, v) = Max(S)
  BY DEF Agree
<1> HIDE DEF S
<1>7. Max(S) \in S /\ \A j \in S : Max(S) >= j
  BY <1>4, <1>5, MaxIn
<1>8. \A i \in Nat : Same(u, v, i) => i \in 0 .. n
  BY <1>1, <1>2 DEF Same
<1>9. PICK m \in S : m = Max(S) /\ \A j \in S : m >= j
  BY <1>7
<1>10. m \in 0 .. n /\ Same(u, v, m)
  BY <1>3, <1>5
<1>11. \A i \in Nat : Same(u, v, i) => i \in S
  BY <1>3, <1>8
<1>12. \A i \in Nat : Same(u, v, i) => i <= m
  BY <1>9, <1>10, <1>11
<1>13. Agree(u, v) = m
  BY <1>6, <1>9
<1> QED BY <1>10, <1>12, <1>13

(* A word is a prefix when it is what another begins with.                 *)
LEMMA PrefixIs ==
  ASSUME NEW u \in Words, NEW v \in Words
  PROVE  IsPrefix(u, v) <=> Same(u, v, Len(u))
<1>1. Len(u) \in Nat /\ Len(v) \in Nat
  BY LenProperties DEF Words
<1>2. Slice(u, 0, Len(u)) = SubSeq(u, 1, Len(u)) /\ Slice(v, 0, Len(u)) = SubSeq(v, 1, Len(u))
  BY DEF Slice
<1> QED BY <1>1, <1>2, SameSlices DEF IsPrefix, Same

-----------------------------------------------------------------------------
(* sort.                                                                   *)

(* Characters are told apart by their place in the order.                  *)
LEMMA Ranked ==
  ASSUME NEW a \in Chars
  PROVE  Rank(a) \in Nat /\ Order[Rank(a)] = a
<1>1. \E i \in DOMAIN Order : Order[i] = a
  BY DEF Chars, ToSet
<1>2. Rank(a) \in DOMAIN Order /\ Order[Rank(a)] = a
  BY <1>1, Zenon DEF Rank
<1>3. DOMAIN Order \subseteq Nat
  BY CompleteAssumption, LenProperties
<1> QED BY <1>2, <1>3

(* Where they differ first decides between two words.                      *)
Decides(u, v, i) ==
  /\ i \in Nat /\ Same(u, v, i)
  /\ \/ i = Len(u) /\ i < Len(v)
     \/ i < Len(u) /\ i < Len(v) /\ Rank(u[i + 1]) < Rank(v[i + 1])

(* cmpls compares the first characters that differ, and so any two words.  *)
LEMMA LessIs ==
  ASSUME NEW u \in Words, NEW v \in Words
  PROVE  /\ Less(u, v) <=> \E i \in Nat : Decides(u, v, i)
         /\ u # v => Less(u, v) \/ Less(v, u)
<1>1. Len(u) \in Nat /\ Len(v) \in Nat
  BY LenProperties DEF Words
<1>2. PICK a \in Nat : /\ a = Agree(u, v) /\ Same(u, v, a)
                       /\ \A i \in Nat : Same(u, v, i) => i <= a
  BY AgreeIs
<1>3. PICK b \in Nat : /\ b = Agree(v, u) /\ Same(v, u, b)
                       /\ \A i \in Nat : Same(v, u, i) => i <= b
  BY AgreeIs
<1>4. a = b
  <2>1. Same(v, u, a) /\ Same(u, v, b)
    BY <1>2, <1>3 DEF Same
  <2> QED BY <1>2, <1>3, <2>1
<1>5. a <= Len(u) /\ a <= Len(v)
  BY <1>2 DEF Same
<1>6. \A j \in 1 .. Len(u) : u[j] \in Chars /\ Rank(u[j]) \in Nat /\ Order[Rank(u[j])] = u[j]
  BY ElementOfSeq, Ranked DEF Words
<1>7. \A j \in 1 .. Len(v) : v[j] \in Chars /\ Rank(v[j]) \in Nat /\ Order[Rank(v[j])] = v[j]
  BY ElementOfSeq, Ranked DEF Words
<1>8. ASSUME a < Len(u), a < Len(v)
      PROVE  u[a + 1] # v[a + 1]
  <2>1. SUFFICES ASSUME u[a + 1] = v[a + 1] PROVE FALSE
    OBVIOUS
  <2>2. Same(u, v, a + 1)
    BY <1>1, <1>2, <1>8, <2>1 DEF Same
  <2> QED BY <1>2, <2>2
<1>9. ASSUME a < Len(u), a < Len(v)
      PROVE  Rank(u[a + 1]) < Rank(v[a + 1]) \/ Rank(v[a + 1]) < Rank(u[a + 1])
  <2>1. a + 1 \in 1 .. Len(u) /\ a + 1 \in 1 .. Len(v)
    BY <1>1, <1>9
  <2> QED BY <1>6, <1>7, <1>8, <1>9, <2>1
<1>10. Less(u, v) <=> IF a + 1 > Len(u) \/ a + 1 > Len(v) THEN Len(u) < Len(v)
                      ELSE Rank(u[a + 1]) < Rank(v[a + 1])
  BY <1>2 DEF Less
<1>11. Less(v, u) <=> IF a + 1 > Len(v) \/ a + 1 > Len(u) THEN Len(v) < Len(u)
                      ELSE Rank(v[a + 1]) < Rank(u[a + 1])
  BY <1>3, <1>4 DEF Less
<1>12. Less(u, v) <=> Decides(u, v, a)
  BY <1>1, <1>2, <1>5, <1>10 DEF Decides
<1>13. ASSUME NEW i \in Nat, Decides(u, v, i)
       PROVE  i = a
  <2>1. i <= a
    BY <1>2, <1>13 DEF Decides
  <2>2. SUFFICES ASSUME i < a PROVE FALSE
    BY <2>1
  <2>3. i < Len(u) /\ i < Len(v)
    BY <1>1, <1>5, <2>2
  <2>4. Rank(u[i + 1]) < Rank(v[i + 1])
    BY <1>1, <1>13, <2>3 DEF Decides
  <2>5. i + 1 \in 1 .. a /\ i + 1 \in 1 .. Len(u)
    BY <1>1, <2>2, <2>3
  <2>6. u[i + 1] = v[i + 1]
    BY <1>2, <2>5 DEF Same
  <2> QED BY <1>6, <2>4, <2>5, <2>6
<1>14. Less(u, v) <=> \E i \in Nat : Decides(u, v, i)
  BY <1>12, <1>13
<1>15. ASSUME u # v, ~Less(u, v), ~Less(v, u)
       PROVE  FALSE
  <2>1. a = Len(u) \/ a = Len(v)
    BY <1>1, <1>5, <1>9, <1>10, <1>11, <1>15
  <2>2. Len(u) = a /\ Len(v) = a
    BY <1>1, <1>5, <1>10, <1>11, <1>15, <2>1
  <2>3. \A j \in 1 .. Len(u) : u[j] = v[j]
    BY <1>2, <2>2 DEF Same
  <2> QED BY <1>15, <2>2, <2>3, SeqEqual DEF Words
<1> QED BY <1>14, <1>15

(* It is an order: this is what sort relies on.                            *)
LEMMA LessOrders ==
  ASSUME NEW u \in Words, NEW v \in Words, NEW x \in Words
  PROVE  /\ ~Less(u, u)
         /\ Less(u, v) /\ Less(v, x) => Less(u, x)
<1>1. Len(u) \in Nat /\ Len(v) \in Nat /\ Len(x) \in Nat
  BY LenProperties DEF Words
<1>2. \A j \in 1 .. Len(u) : Rank(u[j]) \in Nat
  BY ElementOfSeq, Ranked DEF Words
<1>3. \A j \in 1 .. Len(v) : Rank(v[j]) \in Nat
  BY ElementOfSeq, Ranked DEF Words
<1>4. \A j \in 1 .. Len(x) : Rank(x[j]) \in Nat
  BY ElementOfSeq, Ranked DEF Words
<1>5. ~Less(u, u)
  <2>1. SUFFICES ASSUME NEW i \in Nat, Decides(u, u, i) PROVE FALSE
    BY LessIs
  <2>2. i + 1 \in 1 .. Len(u) /\ Rank(u[i + 1]) < Rank(u[i + 1])
    BY <1>1, <2>1 DEF Decides
  <2> QED BY <1>2, <2>2
<1>6. ASSUME Less(u, v), Less(v, x)
      PROVE  Less(u, x)
  <2>1. PICK i \in Nat : Decides(u, v, i)
    BY <1>6, LessIs
  <2>2. PICK j \in Nat : Decides(v, x, j)
    BY <1>6, LessIs
  <2>3. \A k \in Nat : k < Len(u) => Rank(u[k + 1]) \in Nat
    BY <1>1, <1>2
  <2>4. \A k \in Nat : k < Len(v) => Rank(v[k + 1]) \in Nat
    BY <1>1, <1>3
  <2>5. \A k \in Nat : k < Len(x) => Rank(x[k + 1]) \in Nat
    BY <1>1, <1>4
  <2>6. CASE i < j
    <3>1. i + 1 \in 1 .. j
      BY <2>6
    <3>2. v[i + 1] = x[i + 1] /\ j <= Len(v) /\ j <= Len(x)
      BY <2>2, <3>1 DEF Decides, Same
    <3>3. Same(u, x, i)
      BY <1>1, <2>1, <2>2, <2>6, <3>2 DEF Decides, Same
    <3>4. Decides(u, x, i)
      BY <1>1, <2>1, <2>6, <3>2, <3>3 DEF Decides
    <3> QED BY <3>4, LessIs
  <2>7. CASE j < i
    <3>1. j + 1 \in 1 .. i
      BY <2>7
    <3>2. u[j + 1] = v[j + 1] /\ i <= Len(v) /\ i <= Len(u)
      BY <2>1, <3>1 DEF Decides, Same
    <3>3. Same(u, x, j)
      BY <1>1, <2>1, <2>2, <2>7, <3>2 DEF Decides, Same
    <3>4. Decides(u, x, j)
      BY <1>1, <2>2, <2>7, <3>2, <3>3 DEF Decides
    <3> QED BY <3>4, LessIs
  <2>8. CASE i = j
    <3>1. Same(u, x, i)
      BY <2>1, <2>2, <2>8 DEF Decides, Same
    <3>2. Decides(u, x, i)
      BY <1>1, <2>1, <2>2, <2>3, <2>4, <2>5, <2>8, <3>1 DEF Decides
    <3> QED BY <3>2, LessIs
  <2> QED BY <2>6, <2>7, <2>8
<1> QED BY <1>5, <1>6

(* sort has each of the words at one place.                                *)
LEMMA SortedIs ==
  ASSUME NEW W \in SUBSET Words, IsFiniteSet(W)
  PROVE  /\ Cardinality(W) \in Nat
         /\ Sorted(W) \in Seq(W)
         /\ Len(Sorted(W)) = Cardinality(W)
<1> DEFINE below(u) == {v \in W : Less(v, u)}
           n == Cardinality(W)
           rank == [u \in W |-> Cardinality(below(u))]
           T == 0 .. n - 1
<1>1. n \in Nat
  BY FS_CardinalityType
<1>2. ASSUME NEW u \in W
      PROVE  IsFiniteSet(below(u)) /\ Cardinality(below(u)) \in T
  <2>1. below(u) \in SUBSET W
    OBVIOUS
  <2>2. IsFiniteSet(below(u)) /\ Cardinality(below(u)) <= n /\ (n = Cardinality(below(u)) => W = below(u))
    BY <2>1, FS_Subset
  <2>3. u \notin below(u)
    BY LessOrders
  <2>4. Cardinality(below(u)) \in Nat
    BY <2>2, FS_CardinalityType
  <2> QED BY <1>1, <2>2, <2>3, <2>4
<1>3. ASSUME NEW u \in W, NEW v \in W, Less(u, v)
      PROVE  Cardinality(below(u)) # Cardinality(below(v))
  <2>1. below(u) \in SUBSET below(v)
    BY <1>3, LessOrders
  <2>2. u \in below(v) /\ u \notin below(u)
    BY <1>3, LessOrders
  <2>3. Cardinality(below(v)) = Cardinality(below(u)) => below(v) = below(u)
    BY <1>2, <2>1, FS_Subset
  <2> QED BY <2>2, <2>3
<1>4. \A u, v \in W : u # v => Cardinality(below(u)) # Cardinality(below(v))
  BY <1>3, LessIs
<1>5. IsFiniteSet(T) /\ Cardinality(T) = n
  <2>1. 0 \in Int /\ n - 1 \in Int
    BY <1>1
  <2> QED BY <1>1, <2>1, FS_Interval
<1>6. rank \in Injection(W, T)
  <2>1. rank \in [W -> T]
    BY <1>2
  <2>2. \A u, v \in W : rank[u] = rank[v] => u = v
    BY <1>4
  <2> QED BY <2>1, <2>2 DEF Injection, IsInjective
<1>7. rank \in Surjection(W, T)
  BY <1>5, <1>6, FS_Injection
<1>8. \A k \in 1 .. n : \E u \in W : Cardinality(below(u)) = k - 1
  <2> TAKE k \in 1 .. n
  <2>1. k - 1 \in T
    BY <1>1
  <2>2. \E u \in W : rank[u] = k - 1
    BY <1>7, <2>1 DEF Surjection
  <2> QED BY <2>2
<1>9. \A k \in 1 .. n : (CHOOSE u \in W : Cardinality(below(u)) = k - 1) \in W
  <2> TAKE k \in 1 .. n
  <2>1. \E u \in W : Cardinality(below(u)) = k - 1
    BY <1>8
  <2> HIDE DEF below
  <2> QED BY <2>1, Zenon
<1>10. Sorted(W) = [k \in 1 .. n |-> CHOOSE u \in W : Cardinality(below(u)) = k - 1]
  BY DEF Sorted
<1>11. Sorted(W) \in [1 .. n -> W]
  BY <1>9, <1>10
<1> HIDE DEF n
<1>12. Sorted(W) \in Seq(W) /\ Len(Sorted(W)) = n
  BY <1>1, <1>11
<1> QED BY <1>1, <1>12 DEF n

-----------------------------------------------------------------------------
(* find_longest_prefix and find_prefix.                                    *)

LEMMA AllAgreeIs ==
  ASSUME NEW s \in Seq(Words), s # <<>>
  PROVE  AllAgree(s) \in Nat /\ AllAgree(s) <= Len(s[1])
<1>1. Len(s) \in Nat /\ Len(s) # 0 /\ DOMAIN s = 1 .. Len(s)
  BY LenProperties, EmptySeq
<1>2. 1 \in DOMAIN s
  BY <1>1
<1>3. \A k \in DOMAIN s : s[k] \in Words
  BY ElementOfSeq, <1>1
<1>4. \A k \in DOMAIN s : Agree(s[1], s[k]) \in Nat
  BY <1>2, <1>3, AgreeIs
<1>5. Agree(s[1], s[1]) <= Len(s[1])
  BY <1>2, <1>3, AgreeIs DEF Same
<1> DEFINE S == {Agree(s[1], s[k]) : k \in DOMAIN s}
<1>6. S \in SUBSET Nat /\ Agree(s[1], s[1]) \in S
  BY <1>2, <1>4
<1>7. AllAgree(s) = Min(S)
  BY DEF AllAgree
<1>8. Len(s[1]) \in Nat
  BY <1>2, <1>3, LenProperties DEF Words
<1> HIDE DEF S
<1>9. Min(S) \in S /\ Min(S) <= Agree(s[1], s[1])
  BY <1>6, MinIn
<1>10. PICK b \in Nat : b = Agree(s[1], s[1])
  BY <1>2, <1>4
<1>11. PICK a \in Nat : a = Min(S) /\ a <= b
  BY <1>6, <1>9, <1>10
<1>12. b <= Len(s[1])
  BY <1>5, <1>10
<1> QED BY <1>7, <1>8, <1>11, <1>12

(* Places from k to n are no more than n - k + 1.                          *)
LEMMA CountFrom ==
  ASSUME NEW n \in Nat, NEW S \in SUBSET (1 .. n), NEW k \in S, \A j \in S : k <= j
  PROVE  Cardinality(S) \in Nat /\ Cardinality(S) >= 1 /\ k + Cardinality(S) - 1 <= n
<1>1. k \in 1 .. n /\ k \in Int /\ n \in Int
  OBVIOUS
<1>2. IsFiniteSet(k .. n) /\ Cardinality(k .. n) = n - k + 1
  BY <1>1, FS_Interval
<1>3. S \subseteq k .. n
  OBVIOUS
<1>4. IsFiniteSet(S) /\ Cardinality(S) <= n - k + 1
  BY <1>2, <1>3, FS_Subset
<1>5. Cardinality(S) \in Nat
  BY <1>4, FS_CardinalityType
<1>6. Cardinality(S) # 0
  BY <1>4, FS_EmptySet
<1> QED BY <1>1, <1>4, <1>5, <1>6

(* What is found is in the list, agrees as far as it says with no less     *)
(* than any candidate agrees with str, and has as many after it.           *)
LEMMA FoundIs ==
  ASSUME NEW s \in Seq(Words), NEW from \in 0 .. Len(s), NEW str \in Words,
         NEW p, p = FindPrefix(s, from, str)
  PROVE  /\ p.k \in 0 .. Len(s) /\ p.len \in Nat /\ p.match \in Nat /\ p.pref \in Nat
         /\ IF p.k = 0 THEN p.match = 0 /\ p.pref = 0 /\ p.len = 0
            ELSE /\ p.len <= Len(s[p.k])
                 /\ p.match # 0 \/ p.pref # 0
                 /\ p.match # 0 => p.k + p.match - 1 <= Len(s)
                 /\ p.match = 0 => p.k + p.pref - 1 <= Len(s)
         /\ from # 0 => \A k \in from .. Len(s) : \A i \in Nat :
                           Same(str, s[k], i) => i <= p.len
<1> DEFINE on == IF from = 0 THEN {} ELSE from .. Len(s)
           full == {k \in on : IsPrefix(str, s[k])}
           agree == [k \in on |-> Agree(str, s[k])]
           most == Max({0} \cup {agree[k] : k \in on})
           best == {k \in on : most > 0 /\ agree[k] = most}
           found == Max({0} \cup {k \in best : k = Min(best)})
           common == {Agree(s[Min(full)], s[k]) : k \in full}
<1>1. Len(s) \in Nat /\ Len(str) \in Nat /\ from \in Nat
  BY LenProperties DEF Words
<1>2. /\ on \in SUBSET (1 .. Len(s)) /\ on \in SUBSET Nat
      /\ from # 0 => on = from .. Len(s)
  BY <1>1
<1>3. \A k \in on : k \in 1 .. Len(s) /\ s[k] \in Words /\ Len(s[k]) \in Nat
  <2>1. \A k \in 1 .. Len(s) : s[k] \in Words
    BY ElementOfSeq
  <2> QED BY <1>2, <2>1, LenProperties DEF Words
<1>4. \A k \in on : /\ agree[k] \in Nat /\ Same(str, s[k], agree[k])
                    /\ \A i \in Nat : Same(str, s[k], i) => i <= agree[k]
  BY <1>3, AgreeIs
<1>5. \A k \in on : /\ agree[k] \in 0 .. Len(str) /\ agree[k] <= Len(s[k])
  <2> SUFFICES ASSUME NEW k \in on PROVE agree[k] \in 0 .. Len(str) /\ agree[k] <= Len(s[k])
    OBVIOUS
  <2>1. PICK a \in Nat : a = agree[k] /\ Same(str, s[k], a)
    BY <1>4
  <2>2. a <= Len(str) /\ a <= Len(s[k])
    BY <2>1 DEF Same
  <2>3. a \in 0 .. Len(str)
    BY <1>1, <2>2
  <2> QED BY <2>1, <2>2, <2>3
<1>6. /\ p = IF full # {}
               THEN [k |-> Min(full), len |-> Min(common), match |-> Cardinality(full), pref |-> 0]
               ELSE [k |-> found, len |-> most, match |-> 0, pref |-> Cardinality(best)]
  BY DEF FindPrefix
<1>7. full \in SUBSET on /\ best \in SUBSET on
  OBVIOUS
<1>8. \A k \in full : Same(str, s[k], Len(str))
  BY <1>3, PrefixIs
<1>9. /\ most \in 0 .. Len(str)
      /\ \A k \in on : agree[k] <= most
      /\ most # 0 => best # {}
  <2> DEFINE A == {0} \cup {agree[k] : k \in on}
  <2>1. A \in SUBSET (0 .. Len(str)) /\ 0 \in A
    <3> HIDE DEF agree, on
    <3> QED BY <1>1, <1>5
  <2>2. Max(A) \in A /\ \A j \in A : Max(A) >= j
    <3> HIDE DEF A
    <3> QED BY <1>1, <2>1, MaxIn
  <2>3. most = Max(A)
    OBVIOUS
  <2>4. \A k \in on : agree[k] \in A
    OBVIOUS
  <2>5. most # 0 => \E k \in on : agree[k] = most
    BY <2>2, <2>3
  <2>6. most \in 0 .. Len(str)
    BY <2>1, <2>2, <2>3
  <2>7. \A k \in on : agree[k] <= most
    BY <2>2, <2>3, <2>4, <1>5, <2>6
  <2>8. most # 0 => best # {}
    <3> HIDE DEF most, agree, on
    <3> QED BY <2>5, <2>6, <1>1
  <2> QED BY <2>6, <2>7, <2>8
<1>10. \A k \in best : most # 0 /\ agree[k] = most
  BY <1>9
<1> HIDE DEF on, agree, most, best, full
<1>11. CASE full # {}
  <2>1. /\ Min(full) \in full /\ \A j \in full : Min(full) <= j
    BY <1>2, <1>7, <1>11, MinIn
  <2>2. PICK m \in full : m = Min(full) /\ \A j \in full : m <= j
    BY <2>1
  <2>3. m \in 1 .. Len(s) /\ s[m] \in Words
    BY <1>3, <1>7
  <2>4. \A k \in full : /\ Agree(s[m], s[k]) \in Nat /\ Len(str) <= Agree(s[m], s[k])
    <3> TAKE k \in full
    <3>1. k \in on /\ s[k] \in Words
      BY <1>3, <1>7
    <3>2. Same(str, s[m], Len(str)) /\ Same(str, s[k], Len(str))
      BY <1>8
    <3>3. Same(s[m], s[k], Len(str))
      BY <3>2 DEF Same
    <3> QED BY <1>1, <2>3, <3>1, <3>3, AgreeIs
  <2>5. Agree(s[m], s[m]) <= Len(s[m])
    BY <2>3, AgreeIs DEF Same
  <2>6. common \in SUBSET Nat /\ Agree(s[m], s[m]) \in common /\ \A j \in common : Len(str) <= j
    BY <2>2, <2>4
  <2>7. Min(common) \in common /\ Min(common) <= Agree(s[m], s[m])
    <3> HIDE DEF common
    <3> QED BY <2>6, MinIn
  <2>8. PICK l \in Nat : l = Min(common) /\ l <= Len(s[m]) /\ Len(str) <= l
    <3> HIDE DEF common
    <3>1. Len(s[m]) \in Nat
      BY <2>3, LenProperties DEF Words
    <3>2. PICK b \in Nat : b = Agree(s[m], s[m])
      BY <2>4
    <3>3. PICK l \in Nat : l = Min(common) /\ l <= b /\ Len(str) <= l
      BY <2>6, <2>7, <3>2
    <3>4. b <= Len(s[m])
      BY <2>5, <3>2
    <3> QED BY <3>1, <3>3, <3>4
  <2>9. /\ Cardinality(full) \in Nat /\ Cardinality(full) >= 1
        /\ m + Cardinality(full) - 1 <= Len(s)
    BY <1>1, <1>2, <1>7, <2>2, CountFrom
  <2>10. p.k = m /\ p.len = l /\ p.match = Cardinality(full) /\ p.pref = 0
    BY <1>6, <1>11, <2>2, <2>8
  <2>11. \A k \in on : \A i \in Nat : Same(str, s[k], i) => i <= l
    <3> TAKE k \in on
    <3> TAKE i \in Nat
    <3>1. Same(str, s[k], i) => i <= Len(str)
      BY DEF Same
    <3> QED BY <1>1, <2>8, <3>1
  <2>12. PICK c \in Nat : c = Cardinality(full) /\ c >= 1 /\ m + c - 1 <= Len(s)
    BY <2>9
  <2>13. p.match = c /\ Len(s[p.k]) = Len(s[m])
    BY <2>10, <2>12
  <2>14. /\ m \in 0 .. Len(s) /\ m # 0 /\ c # 0
    BY <1>1, <2>3, <2>12
  <2>15. from # 0 => \A k \in from .. Len(s) : \A i \in Nat : Same(str, s[k], i) => i <= l
    BY <1>2, <2>11
  <2> HIDE DEF common
  <2> QED BY <2>8, <2>10, <2>12, <2>13, <2>14, <2>15
<1>12. CASE full = {}
  <2>1. p.k = found /\ p.len = most /\ p.match = 0 /\ p.pref = Cardinality(best)
    BY <1>6, <1>12
  <2>2. \A k \in on : \A i \in Nat : Same(str, s[k], i) => i <= most
    <3> TAKE k \in on
    <3> TAKE i \in Nat
    <3>1. Same(str, s[k], i) => i <= agree[k]
      BY <1>4
    <3> QED BY <1>4, <1>9, <3>1, <1>1
  <2>3. CASE best = {}
    <3>1. found = 0
      <4>1. {0} \cup {k \in best : k = Min(best)} = {0}
        BY <2>3
      <4>2. Max({0}) \in {0}
        <5>1. {0} \in SUBSET (0 .. 0) /\ {0} # {}
          OBVIOUS
        <5>2. PICK z \in Nat : z = 0
          OBVIOUS
        <5>3. {0} \in SUBSET (0 .. z)
          BY <5>1, <5>2
        <5> QED BY <5>1, <5>3, MaxIn
      <4> QED BY <4>1, <4>2
    <3>2. most = 0 /\ Cardinality(best) = 0
      BY <1>9, <2>3, FS_EmptySet
    <3> QED BY <1>1, <1>2, <2>1, <2>2, <3>1, <3>2
  <2>4. CASE best # {}
    <3>1. Min(best) \in best /\ \A j \in best : Min(best) <= j
      BY <1>2, <1>7, <2>4, MinIn
    <3>2. PICK m \in best : m = Min(best) /\ \A j \in best : m <= j
      BY <3>1
    <3>3. m \in on /\ m \in 1 .. Len(s) /\ agree[m] = most /\ most <= Len(s[m])
      BY <1>3, <1>5, <1>7, <1>10
    <3>4. found = m
      <4>1. {0} \cup {k \in best : k = Min(best)} = {0, m}
        BY <3>2
      <4>2. Max({0, m}) = m
        BY <3>3, MaxOfTwo
      <4> QED BY <4>1, <4>2
    <3>5. /\ Cardinality(best) \in Nat /\ Cardinality(best) >= 1
          /\ m + Cardinality(best) - 1 <= Len(s)
      BY <1>1, <1>2, <1>7, <3>2, CountFrom
    <3>6. most \in Nat
      BY <1>9
    <3> HIDE DEF found
    <3>7. PICK c \in Nat : c = Cardinality(best) /\ c >= 1 /\ m + c - 1 <= Len(s)
      BY <3>5
    <3>8. PICK l \in Nat : l = most /\ l <= Len(s[m])
      BY <3>3, <3>6
    <3>9. p.k = m /\ p.len = l /\ p.match = 0 /\ p.pref = c /\ Len(s[p.k]) = Len(s[m])
      BY <2>1, <3>4, <3>7, <3>8
    <3>10. m \in 0 .. Len(s) /\ m # 0 /\ c # 0
      BY <1>1, <3>3, <3>7
    <3>11. from # 0 => \A k \in from .. Len(s) : \A i \in Nat : Same(str, s[k], i) => i <= l
      BY <1>2, <2>2, <3>8
    <3> QED BY <3>7, <3>8, <3>9, <3>10, <3>11
  <2> QED BY <2>3, <2>4
<1> QED BY <1>11, <1>12

-----------------------------------------------------------------------------
(* Edits.                                                                  *)

TermTypes == {"any", "dirs", "scan", "env", "fzf", "history", "help"}
Terms == [off : Nat, len : Nat, quote : 0 .. 3, type : TermTypes]
Comps == [words : Seq(Words), at : Nat, idx : Nat]
Edits == [line : Words, cur : Nat, term : Terms, comp : Comps]

Within(c) == c.at <= Len(c.words) /\ c.idx <= Len(c.words)
TermIn(e) == e.term.off + e.term.len <= Len(e.line)
Sound(e) == e \in Edits /\ e.cur <= Len(e.line) /\ Within(e.comp)

(* Two words in a row.                                                     *)
LEMMA ConcatIs ==
  ASSUME NEW u \in Words, NEW v \in Words
  PROVE  /\ u \o v \in Words
         /\ Len(u \o v) = Len(u) + Len(v)
         /\ \A j \in 1 .. Len(u) + Len(v) :
              (u \o v)[j] = IF j <= Len(u) THEN u[j] ELSE v[j - Len(u)]
BY ConcatProperties DEF Words

(* A part of a line is replaced.                                           *)
Joined(s, from, to, text) == Slice(s, 0, from) \o text \o Slice(s, to, Len(s))

(* Two lines begin with the same characters.                               *)
Alike(t, s, n) == \A j \in 1 .. n : t[j] = s[j]

(* A line has after k what another has after to.                           *)
Moved(t, k, s, to) == \A j \in 1 .. Len(s) - to : t[k + j] = s[to + j]

IsJoined(t, s, from, to, text) ==
  /\ Len(t) = from + Len(text) + Len(s) - to
  /\ Alike(t, s, from)
  /\ \A j \in 1 .. Len(text) : t[from + j] = text[j]
  /\ Moved(t, from + Len(text), s, to)

(* What the parts of the new line are.                                     *)
LEMMA JoinIs ==
  ASSUME NEW s \in Words, NEW from \in Nat, NEW to \in Nat, from <= to, to <= Len(s),
         NEW text \in Words
  PROVE  /\ Joined(s, from, to, text) \in Words
         /\ IsJoined(Joined(s, from, to, text), s, from, to, text)
<1>1. PICK l \in Nat, n \in Nat : l = Len(s) /\ n = Len(text)
  BY LenProperties DEF Words
<1>2. PICK z \in Nat : z = 0
  OBVIOUS
<1>3. z \in 0 .. Len(s) /\ from \in z .. Len(s) /\ to \in 0 .. Len(s) /\ l \in to .. Len(s)
  BY <1>1, <1>2
<1>4. PICK a \in Words : /\ a = Slice(s, z, from) /\ Len(a) = from - z
                         /\ \A j \in 1 .. from - z : a[j] = s[z + j]
  BY <1>3, SliceIs
<1>5. PICK b \in Words : /\ b = Slice(s, to, l) /\ Len(b) = l - to
                         /\ \A j \in 1 .. l - to : b[j] = s[to + j]
  BY <1>3, SliceIs
<1>6. Len(a) = from /\ \A j \in 1 .. from : a[j] = s[j]
  BY <1>2, <1>4
<1>7. PICK c \in Words : /\ c = a \o text /\ Len(c) = from + n
                         /\ \A j \in 1 .. from + n : c[j] = IF j <= from THEN a[j] ELSE text[j - from]
  <2>1. /\ a \o text \in Words
        /\ Len(a \o text) = Len(a) + Len(text)
        /\ \A j \in 1 .. Len(a) + Len(text) :
             (a \o text)[j] = IF j <= Len(a) THEN a[j] ELSE text[j - Len(a)]
    BY ConcatIs
  <2>2. Len(a) = from /\ Len(text) = n
    BY <1>1, <1>6
  <2> QED BY <2>1, <2>2
<1>8. PICK d \in Words : /\ d = c \o b /\ Len(d) = from + n + (l - to)
                         /\ \A j \in 1 .. from + n + (l - to) :
                              d[j] = IF j <= from + n THEN c[j] ELSE b[j - (from + n)]
  <2>1. /\ c \o b \in Words
        /\ Len(c \o b) = Len(c) + Len(b)
        /\ \A j \in 1 .. Len(c) + Len(b) :
             (c \o b)[j] = IF j <= Len(c) THEN c[j] ELSE b[j - Len(c)]
    BY ConcatIs
  <2>2. Len(c) = from + n /\ Len(b) = l - to
    BY <1>5, <1>7
  <2> QED BY <2>1, <2>2
<1>9. Joined(s, from, to, text) = d
  BY <1>1, <1>2, <1>4, <1>5, <1>7, <1>8 DEF Joined
<1>10. Alike(d, s, from)
  BY <1>1, <1>6, <1>7, <1>8 DEF Alike
<1>11. \A j \in 1 .. n : d[from + j] = text[j]
  <2> TAKE j \in 1 .. n
  <2>1. from + j \in 1 .. from + n /\ from + j \in 1 .. from + n + (l - to) /\ ~(from + j <= from)
        /\ from + j - from = j /\ from + j <= from + n
    BY <1>1, <1>3
  <2> QED BY <1>7, <1>8, <2>1
<1>12. \A j \in 1 .. l - to : d[from + n + j] = s[to + j]
  <2> TAKE j \in 1 .. l - to
  <2>1. from + n + j \in 1 .. from + n + (l - to) /\ ~(from + n + j <= from + n)
        /\ from + n + j - (from + n) = j
    BY <1>1, <1>3
  <2>2. d[from + n + j] = b[from + n + j - (from + n)]
    BY <1>8, <2>1
  <2>3. b[j] = s[to + j]
    BY <1>5
  <2> QED BY <2>1, <2>2, <2>3
<1>13. Len(d) = from + n + l - to
  BY <1>1, <1>8
<1>14. Moved(d, from + Len(text), s, to)
  BY <1>1, <1>12 DEF Moved
<1>15. IsJoined(d, s, from, to, text)
  BY <1>1, <1>10, <1>11, <1>13, <1>14 DEF IsJoined
<1> QED BY <1>9, <1>15

(* Quotes around a word make a word.                                       *)
LEMMA QuotedIn ==
  ASSUME NEW word \in Words, NEW t
  PROVE  Quoted(word, t) \in Words
<1>1. <<Quote>> \in Words /\ Append(word, Quote) \in Words
  BY CompleteAssumption DEF Words
<1>2. <<Quote>> \o word \in Words
  BY <1>1, ConcatProperties DEF Words
<1>3. <<Quote>> \o word \o <<Quote>> \in Words
  BY <1>1, <1>2, ConcatProperties DEF Words
<1> QED BY <1>1, <1>3 DEF Quoted

(* reset_completions leaves the line and the cursor alone.                 *)
LEMMA ResetIs ==
  ASSUME NEW e \in Edits
  PROVE  /\ Reset(e) \in Edits
         /\ Reset(e).line = e.line /\ Reset(e).cur = e.cur
         /\ Reset(e).term = NoTerm /\ Reset(e).comp = NoComp /\ Within(NoComp)
<1>1. NoTerm \in Terms
  BY DEF NoTerm, Terms, TermTypes
<1>2. <<>> \in Seq(Words) /\ Len(<<>>) = 0
  BY EmptySeq
<1>3. NoComp \in Comps /\ Within(NoComp)
  BY <1>2 DEF NoComp, Comps, Within
<1> QED BY <1>1, <1>3 DEF Edits, Reset

(* What is put in place of the term leaves the cursor behind it.           *)
LEMMA PutIs ==
  ASSUME NEW e \in Edits, TermIn(e), NEW text \in Words
  PROVE  /\ Put(e, text) \in Edits
         /\ Put(e, text).term = e.term /\ Put(e, text).comp = e.comp
         /\ Put(e, text).line = Joined(e.line, e.term.off, e.term.off + e.term.len, text)
         /\ Put(e, text).cur = e.term.off + Len(text)
         /\ Len(Put(e, text).line) = Len(e.line) + Len(text) - e.term.len
         /\ Put(e, text).cur <= Len(Put(e, text).line)
<1>1. /\ e.line \in Words /\ e.term \in Terms
      /\ e.term.off \in Nat /\ e.term.len \in Nat
  BY DEF Edits, Terms
<1>2. PICK from \in Nat, to \in Nat : /\ from = e.term.off /\ to = e.term.off + e.term.len
                                      /\ from <= to /\ to <= Len(e.line)
  BY <1>1 DEF TermIn
<1>3. PICK l \in Nat, n \in Nat : l = Len(e.line) /\ n = Len(text)
  BY <1>1, LenProperties DEF Words
<1>4. PICK d \in Words : d = Joined(e.line, from, to, text) /\ Len(d) = from + n + l - to
  <2>1. PICK s \in Words : s = e.line
    BY <1>1
  <2>2. from <= to /\ to <= Len(s)
    BY <1>2, <2>1
  <2>3. Joined(s, from, to, text) \in Words /\ IsJoined(Joined(s, from, to, text), s, from, to, text)
    BY <2>2, JoinIs
  <2>4. Len(Joined(s, from, to, text)) = from + Len(text) + Len(s) - to
    BY <2>3 DEF IsJoined
  <2> QED BY <1>3, <2>1, <2>3, <2>4
<1>5. PICK c \in Nat : c = from + n
  OBVIOUS
<1>6. Put(e, text) = [e EXCEPT !.line = d, !.cur = c]
  BY <1>2, <1>3, <1>4, <1>5 DEF Put, Joined
<1>7. /\ Put(e, text) \in Edits /\ Put(e, text).line = d /\ Put(e, text).cur = c
      /\ Put(e, text).term = e.term /\ Put(e, text).comp = e.comp
  BY <1>6 DEF Edits
<1>8. Len(d) = l + n - e.term.len /\ c <= Len(d)
  <2>1. PICK k \in Nat : k = e.term.len /\ to = from + k
    BY <1>1, <1>2
  <2>2. to <= l
    BY <1>2, <1>3
  <2>3. Len(d) = from + n + l - to /\ to = from + k /\ c = from + n
    BY <1>4, <1>5, <2>1
  <2>4. Len(d) = l + n - k /\ c <= Len(d)
    BY <2>2, <2>3
  <2> QED BY <2>1, <2>4
<1> QED BY <1>2, <1>3, <1>4, <1>5, <1>7, <1>8

(* completion_accept                                                       *)
LEMMA AcceptIs ==
  ASSUME NEW e \in Edits, TermIn(e), Sound(e)
  PROVE  /\ Sound(Accept(e))
         /\ Accept(e).term = NoTerm /\ Accept(e).comp = NoComp
         /\ LET k == e.comp.idx
            IN IF e.comp.at = 0 \/ k = 0 THEN Accept(e) = Reset(e)
               ELSE /\ k \in 1 .. Len(e.comp.words)
                    /\ Accept(e) = Reset(Put(e, Quoted(e.comp.words[k], e.term)))
                    /\ Quoted(e.comp.words[k], e.term) \in Words
<1>1. /\ e.comp \in Comps /\ e.comp.words \in Seq(Words) /\ e.comp.at \in Nat /\ e.comp.idx \in Nat
      /\ e.comp.idx <= Len(e.comp.words)
  BY DEF Edits, Comps, Sound, Within
<1>2. Len(e.comp.words) \in Nat
  BY <1>1, LenProperties
<1> DEFINE k == Saved!Find(e.comp.words, e.comp.at, e.comp.idx)
<1>3. k = IF e.comp.at = 0 \/ e.comp.idx = 0 THEN 0 ELSE e.comp.idx
  BY <1>1, <1>2 DEF Saved!Find, Saved!Positions
<1>4. CASE e.comp.at = 0 \/ e.comp.idx = 0
  <2>1. Accept(e) = Reset(e)
    BY <1>3, <1>4 DEF Accept
  <2> QED BY <1>4, <2>1, ResetIs DEF Sound
<1>5. CASE ~(e.comp.at = 0 \/ e.comp.idx = 0)
  <2>1. e.comp.idx \in 1 .. Len(e.comp.words)
    BY <1>1, <1>2, <1>5
  <2>2. e.comp.words[e.comp.idx] \in Words
    BY <1>1, <2>1, ElementOfSeq
  <2>3. PICK text \in Words : text = Quoted(e.comp.words[e.comp.idx], e.term)
    BY <2>2, QuotedIn
  <2>4. Accept(e) = Reset(Put(e, text))
    BY <1>3, <1>5, <2>3 DEF Accept
  <2>5. PICK x \in Edits : x = Put(e, text) /\ x.cur <= Len(x.line)
    BY PutIs
  <2>6. Sound(Accept(e)) /\ Accept(e).term = NoTerm /\ Accept(e).comp = NoComp
    BY <2>4, <2>5, ResetIs DEF Sound
  <2> QED BY <1>5, <2>1, <2>3, <2>4, <2>6
<1> QED BY <1>4, <1>5

(* One part of an edit is changed.                                         *)
LEMMA Relen ==
  ASSUME NEW t \in Terms, NEW n \in Nat
  PROVE  LET u == [t EXCEPT !.len = n]
         IN u \in Terms /\ u.len = n /\ u.off = t.off /\ u.quote = t.quote /\ u.type = t.type
BY DEF Terms

(* One field of a term, or of an edit, is set.                             *)
LEMMA Retype ==
  ASSUME NEW t \in Terms, NEW type \in TermTypes
  PROVE  LET u == [t EXCEPT !.type = type]
         IN u \in Terms /\ u.len = t.len /\ u.off = t.off /\ u.quote = t.quote /\ u.type = type
BY DEF Terms

LEMMA Reterm ==
  ASSUME NEW e \in Edits, NEW t \in Terms
  PROVE  LET f == [e EXCEPT !.term = t]
         IN f \in Edits /\ f.line = e.line /\ f.cur = e.cur /\ f.term = t /\ f.comp = e.comp
BY DEF Edits

LEMMA Recomp ==
  ASSUME NEW e \in Edits, NEW c \in Comps
  PROVE  LET f == [e EXCEPT !.comp = c]
         IN f \in Edits /\ f.line = e.line /\ f.cur = e.cur /\ f.term = e.term /\ f.comp = c
BY DEF Edits

LEMMA Recur ==
  ASSUME NEW e \in Edits, NEW n \in Nat
  PROVE  LET f == [e EXCEPT !.cur = n]
         IN f \in Edits /\ f.line = e.line /\ f.cur = n /\ f.term = e.term /\ f.comp = e.comp
BY DEF Edits

LEMMA Remark ==
  ASSUME NEW c \in Comps, NEW idx \in Nat, NEW at \in Nat
  PROVE  LET d == [c EXCEPT !.idx = idx, !.at = at]
         IN d \in Comps /\ d.words = c.words /\ d.idx = idx /\ d.at = at
BY DEF Comps

(* completion_update puts in place of the term and the character after it  *)
(* what the candidates have, or what was selected in place of the term.    *)
Longer(e) == e.term.off + e.term.len + 1
SelectedPut(e) ==
  LET c == e.comp
      t == e.term
  IN c.idx # 0 /\ Len(c.words[c.idx]) = t.len =>
       c.at <= c.idx /\ c.words[c.idx] = Slice(e.line, t.off, t.off + t.len)

(* completion_update with candidates left: the longest of what they agree  *)
(* on is in place of the term and what was typed.                          *)
LEMMA NarrowIs ==
  ASSUME NEW e \in Edits, Sound(e), Longer(e) <= Len(e.line),
         NEW p, p.k \in 1 .. Len(e.comp.words), p.len \in Nat,
         e.term.len + 1 <= p.len, p.len <= Len(e.comp.words[p.k]),
         NEW x, x = Narrow(e, p)
  PROVE  /\ Sound(x)
         /\ x.comp # NoComp => x.comp.words = e.comp.words /\ x.comp.idx # 0 /\ x.comp.at # 0 /\ TermIn(x)
         /\ \E text \in Words :
              /\ x.line = Joined(e.line, e.term.off, Longer(e), text)
              /\ e.cur = Longer(e) => x.cur = e.term.off + Len(text)
<1>1. /\ e.line \in Words /\ e.cur \in Nat /\ e.term \in Terms /\ e.comp \in Comps
      /\ e.term.off \in Nat /\ e.term.len \in Nat /\ e.comp.words \in Seq(Words)
      /\ e.cur <= Len(e.line)
  BY DEF Edits, Terms, Comps, Sound
<1>2. PICK k \in Nat, n \in Nat : k = p.k /\ n = p.len /\ k \in 1 .. Len(e.comp.words)
  <2>1. Len(e.comp.words) \in Nat
    BY <1>1, LenProperties
  <2>2. p.k \in Nat /\ p.len \in Nat
    BY <2>1
  <2> QED BY <2>2
<1>3. PICK word \in Words : word = e.comp.words[k] /\ n <= Len(word)
  BY <1>1, <1>2, ElementOfSeq
<1>4. PICK len \in Nat : len = e.term.len + 1
  BY <1>1
<1> DEFINE t == [e.term EXCEPT !.len = len]
           c == [e.comp EXCEPT !.idx = k, !.at = k]
           f == [[e EXCEPT !.comp = c] EXCEPT !.term = t]
<1>5. t \in Terms /\ t.len = len /\ t.off = e.term.off
  BY <1>1, Relen
<1>6. c \in Comps /\ c.words = e.comp.words /\ c.idx = k /\ c.at = k /\ Within(c)
  <2>1. c \in Comps /\ c.words = e.comp.words /\ c.idx = k /\ c.at = k
    BY <1>1, <1>2 DEF Comps
  <2>2. k <= Len(e.comp.words)
    BY <1>1, <1>2, LenProperties
  <2> HIDE DEF c
  <2> QED BY <2>1, <2>2 DEF Within
<1>7. /\ f \in Edits /\ f.line = e.line /\ f.cur = e.cur /\ f.term = t /\ f.comp = c
      /\ f = [e EXCEPT !.comp.idx = p.k, !.comp.at = p.k, !.term.len = e.term.len + 1]
  <2>1. f = [e EXCEPT !.comp.idx = k, !.comp.at = k, !.term.len = len]
    BY <1>1 DEF Edits, Terms, Comps
  <2> HIDE DEF t, c
  <2>2. LET g == [e EXCEPT !.comp = c]
        IN g \in Edits /\ g.line = e.line /\ g.cur = e.cur /\ g.term = e.term /\ g.comp = c
    BY <1>6, Recomp
  <2>3. f \in Edits /\ f.line = e.line /\ f.cur = e.cur /\ f.term = t /\ f.comp = c
    BY <1>5, <2>2, Reterm
  <2> QED BY <1>2, <1>4, <2>1, <2>3
<1> HIDE DEF f, t, c
<1>8. Sound(f) /\ TermIn(f) /\ f.term.off = e.term.off /\ f.term.off + f.term.len = Longer(e)
  <2>1. Sound(f)
    BY <1>1, <1>6, <1>7 DEF Sound
  <2>2. f.term.off = e.term.off /\ f.term.off + f.term.len = Longer(e)
    BY <1>1, <1>4, <1>5, <1>7 DEF Longer
  <2>3. TermIn(f)
    BY <1>7, <2>2 DEF TermIn
  <2> QED BY <2>1, <2>2, <2>3
<1>9. CASE p.match = 1
  <2>1. x = Accept(f)
    BY <1>7, <1>9 DEF Narrow
  <2>2. f.comp.at # 0 /\ f.comp.idx # 0 /\ f.comp.idx = k
    BY <1>2, <1>6, <1>7
  <2>9. /\ Accept(f) = Reset(Put(f, Quoted(f.comp.words[k], f.term)))
        /\ Quoted(f.comp.words[k], f.term) \in Words
    BY <1>7, <1>8, <2>2, AcceptIs
  <2>10. PICK text \in Words : Accept(f) = Reset(Put(f, text))
    BY <2>9
  <2>3. Sound(x) /\ x.comp = NoComp
    BY <1>7, <1>8, <2>1, AcceptIs
  <2>4. PICK y \in Edits : /\ y = Put(f, text) /\ y.cur = f.term.off + Len(text)
                           /\ y.line = Joined(f.line, f.term.off, f.term.off + f.term.len, text)
    BY <1>7, <1>8, PutIs
  <2>5. x.line = y.line /\ x.cur = y.cur
    BY <2>1, <2>10, <2>4, ResetIs
  <2> QED BY <1>7, <1>8, <2>3, <2>4, <2>5
<1>10. CASE p.match # 1
  <2>1. PICK text \in Words : text = SubSeq(word, 1, n) /\ Len(text) = n
    <3>1. PICK z \in Nat : z = 0
      OBVIOUS
    <3>2. Len(word) \in Nat
      BY LenProperties DEF Words
    <3>3. z \in 0 .. Len(word) /\ n \in z .. Len(word)
      BY <1>3, <3>1, <3>2
    <3>4. Slice(word, z, n) \in Words /\ Len(Slice(word, z, n)) = n - z
      BY <3>3, SliceIs
    <3>5. PICK text \in Words : text = Slice(word, z, n) /\ Len(text) = n - z
      BY <3>4
    <3>6. text = SubSeq(word, 1, n) /\ Len(text) = n
      BY <3>1, <3>5 DEF Slice
    <3> QED BY <3>6
  <2>2. PICK y \in Edits : /\ y = Put(f, text) /\ y.term = t /\ y.comp = c
                           /\ y.line = Joined(e.line, e.term.off, Longer(e), text)
                           /\ Len(y.line) = Len(e.line) + n - len
    <3>1. /\ Put(f, text) \in Edits /\ Put(f, text).term = f.term /\ Put(f, text).comp = f.comp
          /\ Put(f, text).line = Joined(f.line, f.term.off, f.term.off + f.term.len, text)
          /\ Len(Put(f, text).line) = Len(f.line) + Len(text) - f.term.len
      BY <1>7, <1>8, PutIs
    <3>2. f.term.len = len /\ Len(text) = n
      BY <1>5, <1>7, <2>1
    <3> QED BY <1>7, <1>8, <3>1, <3>2
  <2>3. PICK m \in Nat : m = e.cur + n - len /\ m <= Len(y.line)
    <3>1. Len(e.line) \in Nat
      BY <1>1, LenProperties DEF Words
    <3>2. e.cur + n - len \in Nat /\ e.cur + n - len <= Len(y.line)
      <4>1. e.cur \in Nat /\ e.cur <= Len(e.line) /\ len <= n
        BY <1>1, <1>2, <1>4
      <4> QED BY <2>2, <3>1, <4>1
    <3> QED BY <3>2
  <2> DEFINE u == [t EXCEPT !.len = n]
  <2>4. u \in Terms /\ u.off = t.off /\ u.len = n
    BY <1>5, Relen
  <2>5. x = [[y EXCEPT !.cur = m] EXCEPT !.term = u]
    <3>1. x = [y EXCEPT !.cur = m, !.term.len = n]
      BY <1>2, <1>3, <1>4, <1>7, <1>10, <2>1, <2>2, <2>3 DEF Narrow
    <3> QED BY <2>2, <3>1 DEF Edits, Terms
  <2> HIDE DEF u
  <2>6. /\ x \in Edits /\ x.line = y.line /\ x.cur = m /\ x.term = u /\ x.comp = c
    <3>1. LET g == [y EXCEPT !.cur = m]
          IN g \in Edits /\ g.line = y.line /\ g.cur = m /\ g.term = y.term /\ g.comp = y.comp
      BY Recur
    <3>2. PICK g \in Edits : g = [y EXCEPT !.cur = m]
      BY <3>1
    <3>3. g.line = y.line /\ g.cur = m /\ g.comp = c
      BY <2>2, <3>1, <3>2
    <3>4. LET h == [g EXCEPT !.term = u]
          IN h \in Edits /\ h.line = g.line /\ h.cur = g.cur /\ h.term = u /\ h.comp = g.comp
      BY <2>4, Reterm
    <3> QED BY <2>5, <3>2, <3>3, <3>4
  <2>7. Sound(x)
    BY <1>6, <2>3, <2>6 DEF Sound
  <2>8. TermIn(x)
    <3>1. Len(e.line) \in Nat
      BY <1>1, LenProperties DEF Words
    <3>2. PICK off \in Nat : off = e.term.off
      BY <1>1
    <3>3. off + len <= Len(e.line)
      <4>1. Longer(e) = off + len
        <5>1. PICK l \in Nat : l = e.term.len
          BY <1>1
        <5>2. off + l + 1 = off + (l + 1)
          OBVIOUS
        <5> QED BY <1>4, <3>2, <5>1, <5>2 DEF Longer
      <4> QED BY <1>1, <1>4, <4>1
    <3>4. off + n <= Len(y.line)
      BY <2>2, <3>1, <3>3
    <3> QED BY <1>5, <2>4, <2>6, <3>2, <3>4 DEF TermIn
  <2>9. e.cur = Longer(e) => x.cur = e.term.off + Len(text)
    <3>1. PICK off \in Nat, i \in Nat : off = e.term.off /\ i = e.cur
      BY <1>1
    <3>2. Longer(e) = off + len
      <4>1. PICK l \in Nat : l = e.term.len
        BY <1>1
      <4>2. off + l + 1 = off + (l + 1)
        OBVIOUS
      <4> QED BY <1>4, <3>1, <4>1, <4>2 DEF Longer
    <3>3. m = i + n - len
      BY <2>3, <3>1
    <3>4. i = off + len => m = off + n
      BY <3>3
    <3> QED BY <2>1, <2>6, <3>1, <3>2, <3>4
  <2>10. x.comp.words = e.comp.words /\ x.comp.idx # 0 /\ x.comp.at # 0
    BY <1>2, <1>6, <2>6
  <2> QED BY <2>2, <2>6, <2>7, <2>8, <2>9, <2>10
<1> QED BY <1>9, <1>10

(* completion_update: nothing is changed, the term and what was typed are  *)
(* replaced by what the candidates left agree on, or the selection is      *)
(* accepted and what was typed stays behind it.                            *)
LEMMA UpdateIs ==
  ASSUME NEW e \in Edits, Sound(e), e.comp.at # 0, SelectedPut(e),
         NEW x, x = Update(e)
  PROVE  /\ Sound(x)
         /\ x.comp # NoComp => x.comp.words = e.comp.words /\ x.comp.idx # 0 /\ x.comp.at # 0 /\ TermIn(x)
         /\ \/ x = Reset(e)
            \/ /\ Longer(e) <= Len(e.line)
               /\ \E text \in Words :
                    /\ x.line = Joined(e.line, e.term.off, Longer(e), text)
                    /\ e.cur = Longer(e) => x.cur = e.term.off + Len(text)
            \/ /\ Longer(e) <= Len(e.line)
               /\ \E text \in Words :
                    /\ x.line = Joined(e.line, e.term.off, e.term.off + e.term.len, text)
                    /\ x.cur = e.term.off + Len(text) + 1
<1>1. /\ e.line \in Words /\ e.cur \in Nat /\ e.term \in Terms /\ e.comp \in Comps
      /\ e.term.off \in Nat /\ e.term.len \in Nat /\ e.comp.words \in Seq(Words)
      /\ e.comp.at \in Nat /\ e.comp.idx \in Nat /\ e.cur <= Len(e.line)
      /\ e.comp.at <= Len(e.comp.words) /\ e.comp.idx <= Len(e.comp.words)
  BY DEF Edits, Terms, Comps, Sound, Within
<1>2. Len(e.line) \in Nat /\ Len(e.comp.words) \in Nat
  BY <1>1, LenProperties DEF Words
<1>3. PICK off \in Nat, l \in Nat : off = e.term.off /\ l = e.term.len
  BY <1>1
<1>4. Longer(e) = off + (l + 1)
  BY <1>3 DEF Longer
<1> DEFINE str == Slice(e.line, off, off + (l + 1))
           p == FindPrefix(e.comp.words, e.comp.at, str)
           k == Saved!Find(e.comp.words, e.comp.at, e.comp.idx)
<1>5. x = IF off + (l + 1) > Len(e.line) THEN Reset(e)
          ELSE IF p.k # 0 /\ p.len >= l + 1 THEN Narrow(e, p)
          ELSE IF k # 0 /\ Len(e.comp.words[k]) = l
            THEN [Accept(e) EXCEPT !.cur = @ + (l + 1) - p.len]
          ELSE Reset(e)
  BY <1>3 DEF Update
<1>6. k = e.comp.idx
  BY <1>1, <1>2 DEF Saved!Find, Saved!Positions
<1>7. CASE x = Reset(e)
  BY <1>7, ResetIs DEF Sound
<1>8. CASE off + (l + 1) <= Len(e.line) /\ x # Reset(e)
  <2>1. off \in 0 .. Len(e.line) /\ off + (l + 1) \in off .. Len(e.line) /\ off + l \in off .. Len(e.line)
    BY <1>2, <1>8
  <2>2. /\ str \in Words /\ Len(str) = l + 1
        /\ \A j \in 1 .. l + 1 : str[j] = e.line[off + j]
    <3>1. PICK s \in Words, i \in Nat : s = e.line /\ i = l + 1
      BY <1>1
    <3>2. off + i <= Len(s)
      BY <1>8, <3>1
    <3>3. /\ Slice(s, off, off + i) \in Words
          /\ Len(Slice(s, off, off + i)) = i
          /\ \A j \in 1 .. i : Slice(s, off, off + i)[j] = s[off + j]
      BY <3>2, PartIs
    <3> QED BY <3>1, <3>3
  <2>3. e.comp.at \in 0 .. Len(e.comp.words)
    BY <1>1, <1>2
  <2>4. /\ p.k \in 0 .. Len(e.comp.words) /\ p.len \in Nat
        /\ p.k = 0 => p.len = 0
        /\ p.k # 0 => p.len <= Len(e.comp.words[p.k])
        /\ \A j \in e.comp.at .. Len(e.comp.words) : \A i \in Nat :
              Same(str, e.comp.words[j], i) => i <= p.len
    <3> HIDE DEF str
    <3>0. PICK s \in Seq(Words) : s = e.comp.words
      BY <1>1
    <3>1. PICK from \in 0 .. Len(s), u \in Words : from = e.comp.at /\ u = str
      BY <2>2, <2>3, <3>0
    <3>2. PICK q : q = FindPrefix(s, from, u)
      OBVIOUS
    <3>3. p = q
      BY <3>0, <3>1, <3>2
    <3>4. /\ q.k \in 0 .. Len(s) /\ q.len \in Nat
          /\ IF q.k = 0 THEN q.len = 0 ELSE q.len <= Len(s[q.k])
      BY <3>2, FoundIs
    <3>5. from # 0 => \A j \in from .. Len(s) : \A i \in Nat : Same(u, s[j], i) => i <= q.len
      BY <3>2, FoundIs
    <3> HIDE DEF p
    <3> QED BY <1>2, <3>0, <3>1, <3>3, <3>4, <3>5
  <2> HIDE DEF str
  <2> HIDE DEF p, k
  <2>5. CASE p.k # 0 /\ p.len >= l + 1
    <3>1. x = Narrow(e, p)
      <4>1. ~(off + (l + 1) > Len(e.line))
        BY <1>2, <1>8
      <4> QED BY <1>5, <2>5, <4>1
    <3>2. p.k \in 1 .. Len(e.comp.words) /\ e.term.len + 1 <= p.len /\ Longer(e) <= Len(e.line)
      BY <1>2, <1>3, <1>4, <1>8, <2>4, <2>5
    <3>3. /\ Sound(x)
          /\ x.comp # NoComp => x.comp.words = e.comp.words /\ x.comp.idx # 0 /\ x.comp.at # 0 /\ TermIn(x)
          /\ \E text \in Words :
               /\ x.line = Joined(e.line, e.term.off, Longer(e), text)
               /\ e.cur = Longer(e) => x.cur = e.term.off + Len(text)
      BY <2>4, <3>1, <3>2, NarrowIs
    <3> QED BY <3>2, <3>3
  <2>6. CASE ~(p.k # 0 /\ p.len >= l + 1)
    <3>1. /\ k # 0 /\ Len(e.comp.words[k]) = l
          /\ x = [Accept(e) EXCEPT !.cur = @ + (l + 1) - p.len]
      BY <1>2, <1>5, <1>8, <2>6
    <3>2. /\ e.comp.idx # 0 /\ Len(e.comp.words[e.comp.idx]) = e.term.len
          /\ e.comp.at <= e.comp.idx
          /\ e.comp.words[e.comp.idx] = Slice(e.line, off, off + l)
      BY <1>3, <1>6, <3>1 DEF SelectedPut
    <3>3. \A j \in 1 .. l : Slice(e.line, off, off + l)[j] = e.line[off + j]
      <4>1. PICK s \in Words : s = e.line
        BY <1>1
      <4>2. off + l <= Len(s)
        BY <1>2, <1>8, <4>1
      <4>3. \A j \in 1 .. l : Slice(s, off, off + l)[j] = s[off + j]
        BY <4>2, PartIs
      <4> QED BY <4>1, <4>3
    <3>4. Same(str, e.comp.words[e.comp.idx], l)
      <4>1. l <= Len(str) /\ l <= Len(e.comp.words[e.comp.idx])
        BY <1>3, <2>2, <3>2
      <4>2. \A j \in 1 .. l : str[j] = e.line[off + j]
        BY <2>2
      <4>3. \A j \in 1 .. l : e.comp.words[e.comp.idx][j] = e.line[off + j]
        BY <3>2, <3>3
      <4> QED BY <4>1, <4>2, <4>3 DEF Same
    <3>5. e.comp.idx \in e.comp.at .. Len(e.comp.words)
      BY <1>1, <1>2, <3>2
    <3>6. l <= p.len
      BY <2>4, <3>4, <3>5
    <3>7. p.len = l
      BY <2>4, <2>6, <3>6
    <3>8. Longer(e) <= Len(e.line) /\ TermIn(e)
      <4>1. off + (l + 1) <= Len(e.line) /\ off + l <= Len(e.line)
        BY <1>2, <1>8
      <4> QED BY <1>3, <1>4, <4>1 DEF TermIn
    <3>9. PICK text \in Words : Accept(e) = Reset(Put(e, text))
      BY <1>6, <3>1, <3>8, AcceptIs
    <3>10. PICK n \in Nat : n = Len(text)
      BY LenProperties DEF Words
    <3>11. PICK y \in Edits : /\ y = Put(e, text) /\ y.cur = off + n
                              /\ y.line = Joined(e.line, off, off + l, text)
                              /\ Len(y.line) = Len(e.line) + n - l
      BY <1>3, <3>8, <3>10, PutIs
    <3>12. PICK z \in Edits : /\ z = Accept(e) /\ z.line = y.line /\ z.cur = off + n
                              /\ z.comp = NoComp /\ Within(z.comp)
      BY <3>9, <3>11, ResetIs
    <3>13. PICK c \in Nat : c = off + n + 1 /\ c <= Len(z.line)
      <4>1. PICK h \in Nat : h = Len(e.line) /\ off + (l + 1) <= h
        BY <1>1, <1>8, LenProperties DEF Words
      <4>2. PICK c \in Nat : c = off + n + 1
        OBVIOUS
      <4>3. Len(z.line) = h + n - l
        BY <3>11, <3>12, <4>1
      <4>4. c <= h + n - l
        BY <4>1, <4>2
      <4> QED BY <4>2, <4>3, <4>4
    <3>14. x = [z EXCEPT !.cur = c]
      <4>1. z.cur + (l + 1) - p.len = c
        BY <3>7, <3>12, <3>13
      <4> QED BY <3>1, <3>12, <4>1
    <3>15. x \in Edits /\ x.line = z.line /\ x.cur = c /\ x.comp = NoComp /\ Sound(x)
      BY <3>12, <3>13, <3>14 DEF Edits, Sound
    <3> QED BY <1>3, <3>8, <3>10, <3>11, <3>12, <3>13, <3>15
  <2> QED BY <2>5, <2>6
<1>9. off + (l + 1) > Len(e.line) => x = Reset(e)
  <2> HIDE DEF p, k
  <2> QED BY <1>5
<1>10. off + (l + 1) <= Len(e.line) \/ off + (l + 1) > Len(e.line)
  BY <1>2
<1> QED BY <1>7, <1>8, <1>9, <1>10

-----------------------------------------------------------------------------
(* tab_first_completion.                                                   *)

LEMMA SetOfSeq ==
  ASSUME NEW S, NEW s \in Seq(S)
  PROVE  ToSet(s) \in SUBSET S /\ IsFiniteSet(ToSet(s))
<1>1. Len(s) \in Nat /\ DOMAIN s = 1 .. Len(s) /\ s \in [1 .. Len(s) -> S]
  BY LenProperties
<1>2. ToSet(s) = {s[i] : i \in 1 .. Len(s)}
  BY <1>1 DEF ToSet
<1>3. s \in Surjection(1 .. Len(s), ToSet(s))
  BY <1>1, <1>2 DEF Surjection
<1>4. IsFiniteSet(1 .. Len(s))
  BY <1>1, FS_Interval
<1>5. IsFiniteSet(ToSet(s))
  BY <1>3, <1>4, FS_Surjection
<1> QED BY <1>1, <1>2, <1>5

(* sort gives words, as add_completion does.                               *)
LEMMA SortedIn ==
  ASSUME NEW W \in SUBSET Words, IsFiniteSet(W)
  PROVE  Sorted(W) \in Seq(Words)
BY SortedIs, SeqMonotonic

LEMMA ListedIs ==
  ASSUME NEW words \in Seq(Words), NEW at \in Nat, at <= Len(words)
  PROVE  LET c == Listed(words, at)
         IN /\ c \in Comps /\ Within(c)
            /\ c.words = words /\ c.at = at /\ c.idx = 0
<1>1. Len(words) \in Nat
  BY LenProperties
<1> QED BY <1>1 DEF Listed, Comps, Within

(* What is matched is in the list that is left.                            *)
Matched(m) ==
  /\ m.comp \in Comps /\ Within(m.comp) /\ m.comp.idx = 0 /\ m.len \in Nat
  /\ m.comp.at # 0 => /\ m.comp.at \in 1 .. Len(m.comp.words)
                      /\ m.len <= Len(m.comp.words[m.comp.at])

(* What is common to all the candidates, and to those that begin with the  *)
(* term, is no longer than the first of them.                              *)
LEMMA MatchAllIs ==
  ASSUME NEW words \in Seq(Words)
  PROVE  Matched(MatchAll(words))
<1>1. PICK n \in Nat : n = Len(words)
  BY LenProperties
<1>2. PICK at \in Nat : at = Min({1, Len(words)}) /\ at = IF 1 <= n THEN 1 ELSE n
  BY <1>1, MinOfTwo
<1>3. at <= n
  BY <1>1, <1>2
<1>4. PICK c \in Comps : c = Listed(words, at) /\ Within(c) /\ c.words = words /\ c.at = at /\ c.idx = 0
  BY <1>1, <1>3, ListedIs
<1>5. PICK l \in Nat : l = AllAgree(words) /\ (words # <<>> => l <= Len(words[1]))
  <2>1. CASE words = <<>>
    BY <2>1 DEF AllAgree
  <2>2. CASE words # <<>>
    BY <2>2, AllAgreeIs
  <2> QED BY <2>1, <2>2
<1>6. MatchAll(words).comp = c /\ MatchAll(words).len = l
  BY <1>2, <1>4, <1>5 DEF MatchAll
<1>7. at # 0 => at = 1 /\ words # <<>> /\ 1 \in 1 .. Len(words)
  BY <1>1, <1>2, EmptySeq
<1> HIDE DEF Matched
<1> QED BY <1>4, <1>5, <1>6, <1>7 DEF Matched

LEMMA MatchPrefixIs ==
  ASSUME NEW words \in Seq(Words), NEW text \in Words, NEW again
  PROVE  Matched(MatchPrefix(words, text, again))
<1> DEFINE sorted == Sorted(ToSet(words))
           from == Min({1, Len(sorted)})
           p == FindPrefix(sorted, from, text)
           n == IF p.match # 0 THEN p.match ELSE p.pref
           left == CASE n = 0 /\ ~again -> NoComp
                     [] n > 1 -> Listed(SubSeq(sorted, p.k, p.k + n - 1), 1)
                     [] OTHER -> Listed(sorted, p.k)
           m == MatchPrefix(words, text, again)
<1>1. sorted \in Seq(Words) /\ Len(sorted) \in Nat
  BY SetOfSeq, SortedIn, LenProperties
<1>2. m.comp = left /\ m.len = p.len
  BY DEF MatchPrefix
<1> SUFFICES Matched(m)
  OBVIOUS
<1> HIDE DEF sorted, m
<1>3. from \in 0 .. Len(sorted)
  BY <1>1, MinOfTwo
<1> HIDE DEF from
<1>4. /\ p.k \in 0 .. Len(sorted) /\ p.len \in Nat /\ p.match \in Nat /\ p.pref \in Nat
      /\ IF p.k = 0 THEN p.match = 0 /\ p.pref = 0 /\ p.len = 0
         ELSE /\ p.len <= Len(sorted[p.k])
              /\ p.match # 0 \/ p.pref # 0
              /\ p.match # 0 => p.k + p.match - 1 <= Len(sorted)
              /\ p.match = 0 => p.k + p.pref - 1 <= Len(sorted)
  BY <1>1, <1>3, FoundIs
<1> HIDE DEF p
<1>5. n \in Nat /\ (n # 0 => p.k # 0 /\ p.k + n - 1 <= Len(sorted))
  BY <1>4
<1>6. PICK k \in Nat : k = p.k /\ k <= Len(sorted)
  BY <1>1, <1>4
<1> HIDE DEF n
<1>7. CASE n = 0 /\ ~again
  <2>1. left = NoComp
    BY <1>7
  <2>2. NoComp \in Comps /\ Within(NoComp) /\ NoComp.idx = 0 /\ NoComp.at = 0
    BY EmptySeq DEF NoComp, Comps, Within
  <2> QED BY <1>2, <1>4, <2>1, <2>2 DEF Matched
<1>8. CASE n > 1
  <2>1. left = Listed(SubSeq(sorted, k, k + n - 1), 1)
    BY <1>5, <1>6, <1>8
  <2> DEFINE part == SubSeq(sorted, k, k + n - 1)
  <2>2. k >= 1 /\ k + n - 1 <= Len(sorted) /\ k + n - 1 \in Int
    BY <1>5, <1>6, <1>8
  <2>3. \A i \in k .. k + n - 1 : sorted[i] \in Words
    <3>1. \A i \in k .. k + n - 1 : i \in 1 .. Len(sorted)
      BY <1>1, <2>2
    <3> QED BY <1>1, <3>1, ElementOfSeq
  <2>4. /\ part \in Seq(Words)
        /\ Len(part) = IF k <= k + n - 1 THEN k + n - 1 - k + 1 ELSE 0
        /\ \A i \in 1 .. k + n - 1 - k + 1 : part[i] = sorted[k + i - 1]
    <3>1. PICK z \in Int : z = k + n - 1
      BY <2>2
    <3>2. /\ SubSeq(sorted, k, z) \in Seq(Words)
          /\ Len(SubSeq(sorted, k, z)) = IF k <= z THEN z - k + 1 ELSE 0
          /\ \A i \in 1 .. z - k + 1 : SubSeq(sorted, k, z)[i] = sorted[k + i - 1]
      BY <2>3, <3>1, SubSeqProperties
    <3>3. part = SubSeq(sorted, k, z)
      BY <3>1
    <3> HIDE DEF part
    <3>4. /\ part \in Seq(Words)
          /\ Len(part) = IF k <= z THEN z - k + 1 ELSE 0
          /\ \A i \in 1 .. z - k + 1 : part[i] = sorted[k + i - 1]
      BY <3>2, <3>3
    <3> QED BY <1>5, <3>1, <3>4
  <2>5. /\ Len(part) = n /\ 1 \in 1 .. Len(part) /\ 1 <= Len(part) /\ 1 \in Nat
        /\ part[1] = sorted[k]
    <3>1. 1 \in 1 .. k + n - 1 - k + 1 /\ k + 1 - 1 = k /\ k <= k + n - 1
      BY <1>5, <1>8
    <3>2. Len(part) = n /\ part[1] = sorted[k]
      BY <1>5, <2>4, <3>1
    <3> QED BY <1>5, <1>8, <3>2
  <2> HIDE DEF part
  <2>6. PICK c \in Comps : c = Listed(part, 1) /\ Within(c) /\ c.words = part /\ c.at = 1 /\ c.idx = 0
    BY <2>4, <2>5, ListedIs
  <2>7. m.comp = c
    BY <1>2, <2>1, <2>6 DEF part
  <2>8. p.len <= Len(sorted[k])
    BY <1>4, <1>6, <2>2
  <2> QED BY <1>2, <1>4, <2>5, <2>6, <2>7, <2>8 DEF Matched
<1>9. CASE ~(n = 0 /\ ~again) /\ ~(n > 1)
  <2>1. left = Listed(sorted, k)
    BY <1>6, <1>9
  <2>2. PICK c \in Comps : c = Listed(sorted, k) /\ Within(c) /\ c.words = sorted /\ c.at = k /\ c.idx = 0
    BY <1>1, <1>6, ListedIs
  <2>3. k # 0 => k \in 1 .. Len(sorted) /\ p.len <= Len(sorted[k])
    BY <1>1, <1>4, <1>6
  <2> QED BY <1>2, <1>4, <2>1, <2>2, <2>3 DEF Matched
<1> QED BY <1>7, <1>8, <1>9

(* tab_first_completion: the candidates are within their list, and the     *)
(* term is replaced or the line stays.                                     *)
LEMMA TabFirstIs ==
  ASSUME NEW e \in Edits, Sound(e), TermIn(e), NEW again,
         NEW x, x = TabFirst(e, again)
  PROVE  /\ Sound(x)
         /\ x.comp # NoComp => x.comp.words # <<>> /\ x.comp.idx = 0 /\ TermIn(x)
         /\ \/ x.line = e.line /\ x.cur = e.cur
            \/ \E text \in Words :
                 /\ x.line = Joined(e.line, e.term.off, e.term.off + e.term.len, text)
                 /\ x.cur = e.term.off + Len(text)
<1>1. /\ e.line \in Words /\ e.cur \in Nat /\ e.term \in Terms /\ e.comp \in Comps
      /\ e.term.off \in Nat /\ e.term.len \in Nat /\ e.comp.words \in Seq(Words)
      /\ e.cur <= Len(e.line)
  BY DEF Edits, Terms, Comps, Sound
<1> DEFINE m == Match(e, again)
           f == [e EXCEPT !.comp = m.comp]
           word == f.comp.words[f.comp.at]
<1>2. Matched(m)
  <2> DEFINE text == Slice(e.line, e.term.off, e.term.off + e.term.len)
             words == e.comp.words
  <2>1. text \in Words
    <3>1. PICK s \in Words, off \in Nat, l \in Nat : s = e.line /\ off = e.term.off /\ l = e.term.len
      BY <1>1
    <3>2. off + l <= Len(s)
      BY <3>1 DEF TermIn
    <3>3. Slice(s, off, off + l) \in Words
      BY <3>2, PartIs
    <3> QED BY <3>1, <3>3
  <2>2. m = CASE e.term.type = "scan" -> MatchScan(words, text)
              [] e.term.type = "fzf" /\ Len(words) = 1 -> MatchAll(words)
              [] OTHER -> MatchPrefix(words, text, again)
    BY DEF Match
  <2> HIDE DEF m, text
  <2>3. CASE e.term.type = "scan"
    <3>1. ToSet(words) \in SUBSET Words /\ IsFiniteSet(ToSet(words))
      BY <1>1, SetOfSeq
    <3>2. PICK W \in SUBSET Words : /\ IsFiniteSet(W)
                                    /\ W = IF text = <<>> THEN ToSet(words) ELSE FilterSubstr(words, text)
      <4>1. FilterSubstr(words, text) \subseteq ToSet(words)
        BY DEF FilterSubstr
      <4>2. IsFiniteSet(FilterSubstr(words, text))
        BY <3>1, <4>1, FS_Subset
      <4> QED BY <3>1, <4>1, <4>2
    <3>3. m = MatchAll(Sorted(W))
      BY <2>2, <2>3, <3>2 DEF MatchScan
    <3> QED BY <3>2, <3>3, SortedIn, MatchAllIs
  <2>4. CASE e.term.type = "fzf" /\ Len(words) = 1
    BY <1>1, <2>2, <2>4, MatchAllIs
  <2>5. CASE e.term.type # "scan" /\ ~(e.term.type = "fzf" /\ Len(words) = 1)
    <3>1. m = MatchPrefix(words, text, again)
      BY <2>2, <2>5
    <3> QED BY <1>1, <2>1, <3>1, MatchPrefixIs
  <2> QED BY <2>3, <2>4, <2>5
<1>3. x = IF f.comp.words = <<>> THEN Reset(e)
          ELSE IF f.comp.at = 0 \/ m.len = 0 THEN f
          ELSE IF m.match = 1 /\ m.len = Len(word) THEN Reset(Put(e, Quoted(word, e.term)))
          ELSE [Put(f, SubSeq(word, 1, m.len)) EXCEPT !.term.len = m.len]
  BY DEF TabFirst
<1> HIDE DEF m
<1>4. m.comp \in Comps /\ Within(m.comp) /\ m.comp.idx = 0 /\ m.len \in Nat
  BY <1>2 DEF Matched
<1>5. f \in Edits /\ f.line = e.line /\ f.cur = e.cur /\ f.term = e.term /\ f.comp = m.comp
  BY <1>4, Recomp
<1> HIDE DEF f
<1>6. Sound(f) /\ TermIn(f)
  BY <1>4, <1>5 DEF Sound, TermIn
<1>7. CASE f.comp.words = <<>>
  <2>1. x = Reset(e)
    BY <1>3, <1>7
  <2> QED BY <2>1, ResetIs DEF Sound
<1>8. CASE f.comp.words # <<>> /\ (f.comp.at = 0 \/ m.len = 0)
  <2>1. x = f
    BY <1>3, <1>8
  <2> QED BY <1>4, <1>5, <1>6, <1>8, <2>1
<1>9. CASE f.comp.words # <<>> /\ ~(f.comp.at = 0 \/ m.len = 0)
  <2>1. PICK v \in Words : v = word /\ m.len <= Len(v)
    <3>1. /\ m.comp.at \in 1 .. Len(m.comp.words) /\ m.len <= Len(m.comp.words[m.comp.at])
      BY <1>2, <1>5, <1>9 DEF Matched
    <3>2. m.comp.words \in Seq(Words)
      BY <1>4 DEF Comps
    <3>3. m.comp.words[m.comp.at] \in Words
      BY <3>1, <3>2, ElementOfSeq
    <3> QED BY <1>5, <3>1, <3>3
  <2> HIDE DEF word
  <2>2. CASE m.match = 1 /\ m.len = Len(word)
    <3>1. PICK text \in Words : text = Quoted(word, e.term)
      BY <2>1, QuotedIn
    <3>2. x = Reset(Put(e, text))
      BY <1>3, <1>9, <2>2, <3>1
    <3>3. PICK y \in Edits : /\ y = Put(e, text) /\ y.cur = e.term.off + Len(text) /\ y.cur <= Len(y.line)
                             /\ y.line = Joined(e.line, e.term.off, e.term.off + e.term.len, text)
      BY PutIs
    <3>4. /\ x \in Edits /\ x.line = y.line /\ x.cur = y.cur /\ x.comp = NoComp /\ Within(NoComp)
      BY <3>2, <3>3, ResetIs
    <3> QED BY <3>3, <3>4 DEF Sound
  <2>3. CASE ~(m.match = 1 /\ m.len = Len(word))
    <3>1. PICK n \in Nat : n = m.len
      BY <1>4
    <3>2. PICK text \in Words : text = SubSeq(v, 1, n) /\ Len(text) = n
      <4>1. PICK z \in Nat : z = 0
        OBVIOUS
      <4>2. z + n <= Len(v)
        BY <2>1, <3>1, <4>1
      <4>3. Slice(v, z, z + n) \in Words /\ Len(Slice(v, z, z + n)) = n
        BY <4>2, PartIs
      <4>4. Slice(v, z, z + n) = SubSeq(v, 1, n)
        BY <4>1 DEF Slice
      <4> QED BY <4>3, <4>4
    <3>3. x = [Put(f, text) EXCEPT !.term.len = n]
      BY <1>3, <1>9, <2>1, <2>3, <3>1, <3>2
    <3>4. PICK y \in Edits : /\ y = Put(f, text) /\ y.term = e.term /\ y.comp = m.comp
                             /\ y.line = Joined(e.line, e.term.off, e.term.off + e.term.len, text)
                             /\ y.cur = e.term.off + n /\ y.cur <= Len(y.line)
      <4>1. /\ Put(f, text) \in Edits
            /\ Put(f, text).term = f.term /\ Put(f, text).comp = f.comp
            /\ Put(f, text).line = Joined(f.line, f.term.off, f.term.off + f.term.len, text)
            /\ Put(f, text).cur = f.term.off + Len(text)
            /\ Put(f, text).cur <= Len(Put(f, text).line)
        BY <1>5, <1>6, PutIs
      <4> QED BY <1>5, <3>2, <4>1
    <3> DEFINE u == [e.term EXCEPT !.len = n]
    <3>5. u \in Terms /\ u.off = e.term.off /\ u.len = n
      BY <1>1, Relen
    <3>6. x = [y EXCEPT !.term = u]
      BY <3>3, <3>4 DEF Edits, Terms
    <3> HIDE DEF u
    <3>7. x \in Edits /\ x.line = y.line /\ x.cur = y.cur /\ x.term = u /\ x.comp = m.comp
      BY <3>4, <3>5, <3>6, Reterm
    <3>8. Sound(x) /\ TermIn(x)
      BY <1>4, <3>4, <3>5, <3>7 DEF Sound, TermIn
    <3> QED BY <1>4, <1>5, <1>9, <3>2, <3>4, <3>7, <3>8
  <2> QED BY <2>2, <2>3
<1> QED BY <1>7, <1>8, <1>9

-----------------------------------------------------------------------------
(* get_complete_args and init_completion_term.                             *)

(* A set of arguments has one that begins first and one that begins last.  *)
LEMMA FirstAndLast ==
  ASSUME NEW n \in Nat, NEW A \in SUBSET ((0 .. n) \X (0 .. n)), A # {}
  PROVE  First(A) \in A /\ LastOf(A) \in A
<1> DEFINE S == {arg[1] : arg \in A}
<1>1. S \in SUBSET (0 .. n) /\ S \in SUBSET Nat /\ S # {}
  OBVIOUS
<1>2. \A arg \in A : arg[1] \in S
  OBVIOUS
<1>3. \A k \in S : \E arg \in A : arg[1] = k
  OBVIOUS
<1> HIDE DEF S
<1>4. \E k \in S : \A j \in S : k <= j
  BY <1>1, Least
<1>5. Max(S) \in S /\ \A j \in S : Max(S) >= j
  BY <1>1, MaxIn
<1>6. \E arg \in A : \A other \in A : arg[1] <= other[1]
  BY <1>2, <1>3, <1>4
<1>7. \E arg \in A : \A other \in A : arg[1] >= other[1]
  BY <1>2, <1>3, <1>5
<1>8. First(A) \in A
  BY <1>6, Zenon DEF First
<1>9. LastOf(A) \in A
  BY <1>7, Zenon DEF LastOf
<1> QED BY <1>8, <1>9

(* Some argument has the cursor in it, or behind it.                       *)
LEMMA ArgHere ==
  ASSUME line \in Words, cur \in 0 .. End
  PROVE  \E arg \in Args : cur \in arg[1] .. arg[2]
<1>1. End \in Nat /\ cur \in Nat /\ cur <= End
  BY LenProperties DEF Words, End
<1> DEFINE starts(i) == i = 0 \/ Char(i - 1) = Space
           stops(i) == i = End \/ Char(i) = Space
           F == {i \in 0 .. cur : starts(i)}
           T == {i \in cur .. End : stops(i)}
<1>2. F \in SUBSET (0 .. cur) /\ 0 \in F
  BY <1>1
<1>3. T \in SUBSET Nat /\ End \in T
  BY <1>1
<1>4. PICK from \in F : \A j \in F : from >= j
  <2> HIDE DEF F
  <2> QED BY <1>1, <1>2, MaxIn
<1>5. PICK to \in T : \A j \in T : to <= j
  <2> HIDE DEF T
  <2> QED BY <1>3, Least
<1>6. /\ from \in Nat /\ to \in Nat /\ from <= cur /\ cur <= to /\ to <= End
      /\ starts(from) /\ stops(to)
  BY <1>1
<1>7. Solid(from, to)
  <2> SUFFICES ASSUME NEW i \in from .. to - 1, Char(i) = Space PROVE FALSE
    BY DEF Solid
  <2>1. i \in Nat /\ from <= i /\ i < to
    BY <1>6
  <2>2. CASE i < cur
    <3>1. i + 1 \in 0 .. cur /\ i + 1 - 1 = i
      BY <1>1, <2>1, <2>2
    <3>2. starts(i + 1)
      BY <3>1
    <3>3. i + 1 \in F
      BY <3>1, <3>2
    <3>4. from >= i + 1
      BY <1>4, <3>3
    <3> QED BY <1>6, <2>1, <3>4
  <2>3. CASE cur <= i
    <3>1. i \in cur .. End /\ stops(i)
      BY <1>1, <1>6, <2>1, <2>3
    <3>2. i \in T
      BY <3>1
    <3>3. to <= i
      BY <1>5, <3>2
    <3> QED BY <1>6, <2>1, <3>3
  <2> QED BY <1>1, <2>1, <2>2, <2>3
<1>8. from < to \/ (from = to /\ from = cur)
  BY <1>1, <1>6
<1>9. IsArg(from, to)
  BY <1>6, <1>7, <1>8 DEF IsArg
<1>10. <<from, to>> \in Args
  <2>1. from \in 0 .. End /\ to \in 0 .. End
    BY <1>1, <1>6
  <2> QED BY <1>9, <2>1 DEF Args
<1>11. cur \in from .. to
  BY <1>1, <1>6
<1> QED BY <1>10, <1>11

(* The term is in the line.                                                *)
LEMMA InitTermIs ==
  ASSUME line \in Words, cur \in 0 .. End, NEW type \in TermTypes
  PROVE  InitTerm(type) \in Terms /\ InitTerm(type).off + InitTerm(type).len <= End
<1>1. End \in Nat
  BY LenProperties DEF Words, End
<1>2. /\ Args \in SUBSET ((0 .. End) \X (0 .. End))
      /\ \A arg \in Args : /\ arg[1] \in Nat /\ arg[2] \in Nat
                           /\ arg[1] <= arg[2] /\ arg[2] <= End
  BY <1>1 DEF Args, IsArg
<1>3. PICK from \in Nat, to \in Nat : /\ from = ArgAtCursor[1] /\ to = ArgAtCursor[2]
                                      /\ from <= to /\ to <= End
  <2> DEFINE here == CHOOSE arg \in Args : cur \in arg[1] .. arg[2]
  <2>1. here \in Args
    <3>1. \E arg \in Args : cur \in arg[1] .. arg[2]
      BY ArgHere
    <3> QED BY <3>1
  <2>2. ArgAtCursor = IF Opening = {} \/ here[1] < First(Opening)[1] THEN here
                      ELSE <<First(Opening)[1], Closing[2]>>
    BY DEF ArgAtCursor
  <2> HIDE DEF here
  <2>3. CASE Opening = {} \/ here[1] < First(Opening)[1]
    BY <1>2, <2>1, <2>2, <2>3
  <2>4. CASE ~(Opening = {} \/ here[1] < First(Opening)[1])
    <3>1. Opening \in SUBSET Args /\ Opening # {}
      BY <2>4 DEF Opening
    <3>2. PICK first \in Opening : first = First(Opening)
      BY <1>1, <1>2, <3>1, FirstAndLast
    <3>3. first \in Args /\ Later(first) # {} /\ Later(first) \in SUBSET Args
      BY <3>1 DEF Opening, Later
    <3>4. Closing \in Later(first)
      <4> DEFINE closing == {arg \in Later(first) : EndsQuote(arg)}
      <4>1. Closing = IF closing = {} THEN LastOf(Later(first)) ELSE First(closing)
        BY <3>2 DEF Closing
      <4>2. closing \in SUBSET Later(first)
        OBVIOUS
      <4> HIDE DEF closing
      <4>3. CASE closing = {}
        BY <1>1, <1>2, <3>3, <4>1, <4>3, FirstAndLast
      <4>4. CASE closing # {}
        <5>1. closing \in SUBSET ((0 .. End) \X (0 .. End))
          BY <1>2, <3>3, <4>2
        <5>2. First(closing) \in closing
          BY <1>1, <4>4, <5>1, FirstAndLast
        <5> QED BY <4>1, <4>2, <4>4, <5>2
      <4> QED BY <4>3, <4>4
    <3>5. PICK last \in Args : last = Closing /\ last[1] > first[1]
      BY <3>4 DEF Later
    <3>6. ArgAtCursor = <<first[1], last[2]>>
      BY <2>2, <2>4, <3>2, <3>5
    <3>7. /\ first[1] \in Nat /\ last[1] \in Nat /\ last[2] \in Nat
          /\ last[1] <= last[2] /\ last[2] <= End
      BY <1>2, <3>3, <3>5
    <3>8. first[1] <= last[2]
      BY <3>5, <3>7
    <3> QED BY <3>6, <3>7, <3>8
  <2> QED BY <2>3, <2>4
<1> DEFINE opens == from < to /\ Char(from) = Quote
           start == IF opens THEN from + 1 ELSE from
           closes == to - start > 1 /\ Char(to - 1) = Quote
           stop == IF closes THEN to - 1 ELSE to
           quote == (IF opens THEN 1 ELSE 0) + (IF closes THEN 2 ELSE 0)
<1>4. InitTerm(type) = [off |-> start, len |-> stop - start, quote |-> quote, type |-> type]
  BY <1>3 DEF InitTerm
<1>5. start \in Nat /\ start <= to
  BY <1>3
<1>6. stop - start \in Nat /\ start + (stop - start) <= End
  <2> HIDE DEF start
  <2> QED BY <1>1, <1>3, <1>5
<1>7. quote \in 0 .. 3
  OBVIOUS
<1> HIDE DEF start, stop, quote
<1> QED BY <1>4, <1>5, <1>6, <1>7 DEF Terms

-----------------------------------------------------------------------------
(* The inductive invariant.  What is selected can be put in place of the   *)
(* term, and the window lists what there is.                               *)

InShape ==
  /\ line \in Words /\ cur \in 0 .. End
  /\ term \in Terms /\ comp \in Comps /\ Within(comp)
  /\ w \in Windows
  /\ hist \in 0 .. HistCnt
  /\ others \in [keysPg : Nat, help : Nat]
  /\ status \in {"line", "complete"}

TermPlaced == Completing \/ status = "complete" => term.off + term.len <= End
Apart == status = "complete" => ~Completing
Listing == w.mode # "none" => CntOf(w.mode) # 0 /\ Fits(w, CntOf(w.mode))

IInv == InShape /\ TermPlaced /\ Apart /\ Listing

(* The page on which the window is, but for a help text of one line, or    *)
(* one that is shown again.                                                *)
OnItsPage(v, cnt) ==
  InPage(v, cnt) /\ v.pg < PgCount(cnt) /\ (v.mode = "completion" \/ OnPage(v, cnt))

Loose(v, cnt) == v.mode = "help" /\ (cnt = 1 \/ "helpAgain" \in Habits)

Turning ==
  /\ others.keysPg < PgCount(KeyCnt)
  /\ w.mode # "none" /\ ~Loose(w, others.help) => OnItsPage(w, CntOf(w.mode))

-----------------------------------------------------------------------------
(* What happens to the window.                                             *)

LEMMA Counts ==
  ASSUME IInv
  PROVE  /\ CntOf("completion") = Cnt /\ CntOf("history") = HistCnt
         /\ CntOf("keys") = KeyCnt /\ CntOf("help") = others.help
         /\ Cnt \in Nat /\ HistCnt \in Nat \ {0} /\ KeyCnt \in Nat \ {0} /\ others.help \in Nat
         /\ w.mode \in WindowModes
         /\ w.mode # "none" => CntOf(w.mode) \in Nat \ {0} /\ Fits(w, CntOf(w.mode))
<1>1. Cnt \in Nat
  BY LenProperties DEF IInv, InShape, Comps, Cnt
<1>2. others.help \in Nat /\ w.mode \in WindowModes
  BY DEF IInv, InShape, Windows
<1>3. /\ CntOf("completion") = Cnt /\ CntOf("history") = HistCnt
      /\ CntOf("keys") = KeyCnt /\ CntOf("help") = others.help
  BY DEF CntOf
<1>4. w.mode # "none" => CntOf(w.mode) # 0 /\ Fits(w, CntOf(w.mode))
  BY DEF IInv, Listing
<1>5. w.mode # "none" => CntOf(w.mode) \in Nat
  BY <1>1, <1>2, <1>3, CompleteAssumption DEF WindowModes
<1> QED BY <1>1, <1>2, <1>3, <1>4, <1>5, CompleteAssumption

(* show_clear: there is no window.                                         *)
LEMMA ClearIs ==
  ASSUME NEW v \in Windows
  PROVE  ShowClear(v) \in Windows /\ ShowClear(v).mode = "none" /\ ShowClear(v).pg = v.pg
BY DEF ShowClear, NoWindow, Windows, WindowModes

(* An action that does not complete: the candidates are forgotten, and the *)
(* window with them.                                                       *)
LEMMA Uncompleted ==
  ASSUME w \in Windows
  PROVE  /\ Uncompleting \in Windows /\ Uncompleting.mode # "completion"
         /\ Uncompleting = w \/ Uncompleting.mode = "none"
BY ClearIs DEF Uncompleting, Completing

LEMMA KeepsWindow ==
  ASSUME IInv, w' = w, others' = others, Completing => comp'.words = comp.words
  PROVE  Listing' /\ (Turning => Turning')
<1>1. w.mode # "none" => CntOf(w.mode)' = CntOf(w.mode)
  BY DEF CntOf, Cnt, Completing
<1> QED BY <1>1 DEF IInv, Listing, Turning

LEMMA NoWindowLeft ==
  ASSUME IInv, w'.mode = "none", others'.keysPg = others.keysPg
  PROVE  Listing' /\ (Turning => Turning')
BY DEF Listing, Turning

LEMMA UncompletesWindow ==
  ASSUME IInv, w' = Uncompleting, others' = others
  PROVE  /\ w' \in Windows /\ ~Completing' /\ Listing' /\ (Turning => Turning')
<1>1. w \in Windows
  BY DEF IInv, InShape
<1>2. /\ w' \in Windows /\ w'.mode # "completion"
      /\ w' = w \/ w'.mode = "none"
  BY <1>1, Uncompleted
<1>3. CASE w' = w
  <2>1. ~Completing
    BY <1>2, <1>3 DEF Completing
  <2>2. Listing' /\ (Turning => Turning')
    BY <1>3, <2>1, KeepsWindow
  <2> QED BY <1>2, <2>2 DEF Completing
<1>4. CASE w'.mode = "none"
  BY <1>2, <1>4, NoWindowLeft DEF Completing
<1> QED BY <1>2, <1>3, <1>4

(* A step after which the window shows lines of a list, on one of its      *)
(* pages.                                                                  *)
LEMMA NewWindow ==
  ASSUME NEW cnt \in Nat \ {0}, w' \in Windows, Fits(w', cnt),
         \/ w'.mode = "completion" /\ cnt = Len(comp'.words)
         \/ w'.mode = "history" /\ cnt = HistCnt
         \/ w'.mode = "keys" /\ cnt = KeyCnt
         \/ w'.mode = "help" /\ cnt = others'.help
  PROVE  /\ Listing'
         /\ /\ others'.keysPg < PgCount(KeyCnt)
            /\ Loose(w', cnt) \/ OnItsPage(w', cnt)
            => Turning'
<1>1. CntOf(w.mode)' = cnt
  BY DEF CntOf, Cnt
<1>2. Listing'
  BY <1>1 DEF Listing
<1>3. ASSUME others'.keysPg < PgCount(KeyCnt),
             Loose(w', cnt) \/ OnItsPage(w', cnt)
      PROVE  Turning'
  <2>1. ~Loose(w', others'.help) => OnItsPage(w', cnt)
    BY <1>3 DEF Loose
  <2> QED BY <1>1, <1>3, <2>1 DEF Turning
<1> QED BY <1>2, <1>3

(* A page is shown, whichever was.                                         *)
LEMMA PagedFits ==
  ASSUME NEW v \in Windows, NEW mode \in WindowModes, NEW cnt \in Nat \ {0},
         NEW how \in DOMAIN PageKey, NEW x, x = Paged(how, v, mode, cnt)
  PROVE  x \in Windows /\ x.mode = mode /\ Fits(x, cnt)
<1>1. v.pg \in Nat /\ PgCount(cnt) \in Nat
  BY PgCountIs DEF Windows
<1>2. PgCount(cnt) - 1 \in Nat
  <2>1. PICK q \in Nat : q = PgCount(cnt) /\ cnt <= q * Lines
    BY PgCountIs
  <2>2. q # 0
    BY <2>1, LinesAssumption
  <2> QED BY <2>1, <2>2
<1>3. \E pg \in Nat : x = ShowLsb([v EXCEPT !.pg = pg], mode, cnt)
  <2>1. how \in {"next", "prev", "start", "end"}
    BY DEF PageKey
  <2>2. CASE how = "next"
    <3>1. Max({0, v.pg - 1}) \in Nat
      BY <1>1, MaxOfTwo
    <3> QED BY <2>2, <3>1 DEF Paged, NextPage
  <2>3. CASE how = "prev"
    <3>1. (IF v.pg < PgCount(cnt) - 1 THEN v.pg + 1 ELSE v.pg) \in Nat
      BY <1>1
    <3> QED BY <2>3, <3>1 DEF Paged, PrevPage
  <2>4. CASE how = "start"
    BY <1>2, <2>4 DEF Paged, StartPage
  <2>5. CASE how = "end"
    BY <2>5 DEF Paged, EndPage
  <2> QED BY <2>1, <2>2, <2>3, <2>4, <2>5
<1>4. PICK pg \in Nat : x = ShowLsb([v EXCEPT !.pg = pg], mode, cnt)
  BY <1>3
<1>5. PICK y \in Windows : y = [v EXCEPT !.pg = pg]
  BY Turned
<1> QED BY <1>4, <1>5, LsbShows

(* Paging goes from page to page.                                          *)
LEMMA PagedTurns ==
  ASSUME NEW v \in Windows, NEW cnt \in Nat \ {0}, v.mode # "none",
         Fits(v, cnt), OnItsPage(v, cnt),
         NEW how \in DOMAIN PageKey, NEW x, x = Paged(how, v, v.mode, cnt)
  PROVE  x.mode = v.mode /\ x.pg < PgCount(cnt) /\ OnItsPage(x, cnt)
<1>1. v.mode \in WindowModes
  BY DEF Windows
<1>2. InPage(v, cnt) /\ v.pg < PgCount(cnt)
  BY DEF OnItsPage
<1>3. how \in {"next", "prev", "start", "end"}
  BY DEF PageKey
<1>4. x \in Windows /\ x.mode = v.mode /\ OnPage(x, cnt) /\ x.pg < PgCount(cnt)
  <2>1. CASE how = "next"
    <3>1. x = NextPage(v, v.mode, cnt)
      BY <2>1 DEF Paged
    <3> QED BY <1>1, <1>2, <3>1, NextShows
  <2>2. CASE how = "prev"
    <3>1. x = PrevPage(v, v.mode, cnt)
      BY <2>2 DEF Paged
    <3> QED BY <1>1, <1>2, <3>1, PrevShows
  <2>3. CASE how = "start"
    <3>1. x = StartPage(v, v.mode, cnt)
      BY <2>3 DEF Paged
    <3> QED BY <1>1, <3>1, EndsShow
  <2>4. CASE how = "end"
    <3>1. x = EndPage(v, v.mode, cnt)
      BY <2>4 DEF Paged
    <3> QED BY <1>1, <3>1, EndsShow
  <2> QED BY <1>3, <2>1, <2>2, <2>3, <2>4
<1>5. InPage(x, cnt)
  BY <1>4, OnPageIn
<1> QED BY <1>4, <1>5 DEF OnItsPage

-----------------------------------------------------------------------------
(* What happens to the line, the term and the candidates.                  *)

LEMMA EditIs ==
  ASSUME IInv
  PROVE  /\ Edit \in Edits /\ Sound(Edit)
         /\ Edit.line = line /\ Edit.cur = cur /\ Edit.term = term /\ Edit.comp = comp
         /\ Completing \/ status = "complete" => TermIn(Edit)
<1>1. /\ line \in Words /\ cur \in 0 .. End /\ term \in Terms /\ comp \in Comps /\ Within(comp)
      /\ Completing \/ status = "complete" => term.off + term.len <= End
  BY DEF IInv, InShape, TermPlaced
<1>2. End \in Nat
  BY <1>1, LenProperties DEF Words, End
<1>3. cur \in Nat /\ cur <= End
  BY <1>1, <1>2
<1>4. Edit \in Edits
  BY <1>1, <1>3 DEF Edit, Edits
<1>5. Edit.line = line /\ Edit.cur = cur /\ Edit.term = term /\ Edit.comp = comp
  BY DEF Edit
<1>6. Sound(Edit)
  BY <1>1, <1>3, <1>4, <1>5 DEF Sound, End
<1>7. Completing \/ status = "complete" => TermIn(Edit)
  BY <1>1, <1>5 DEF TermIn, End
<1> QED BY <1>4, <1>5, <1>6, <1>7

(* The state after an edit is that of the edit.                            *)
LEMMA EditedIs ==
  ASSUME NEW e \in Edits, Sound(e), Edited(e)
  PROVE  /\ line' \in Words /\ cur' \in 0 .. End'
         /\ term' \in Terms /\ comp' \in Comps /\ Within(comp')
         /\ TermIn(e) => term'.off + term'.len <= End'
<1>1. line' = e.line /\ cur' = e.cur /\ term' = e.term /\ comp' = e.comp
  BY DEF Edited
<1>2. e.line \in Words /\ e.cur \in Nat /\ e.term \in Terms /\ e.comp \in Comps
  BY DEF Edits
<1>3. Len(e.line) \in Nat
  BY <1>2, LenProperties DEF Words
<1>4. cur' \in 0 .. End'
  BY <1>1, <1>2, <1>3 DEF Sound, End
<1> QED BY <1>1, <1>2, <1>4 DEF Sound, TermIn, End

(* Nothing is edited.                                                      *)
LEMMA NotEdited ==
  ASSUME IInv, UNCHANGED <<line, cur, term, comp>>
  PROVE  /\ line' \in Words /\ cur' \in 0 .. End'
         /\ term' \in Terms /\ comp' \in Comps /\ Within(comp')
         /\ term'.off + term'.len <= End' <=> term.off + term.len <= End
BY DEF IInv, InShape, End

(* An entry is displayed.                                                  *)
LEMMA Displayed ==
  ASSUME IInv, NEW idx \in 0 .. HistCnt, Display(idx), UNCHANGED <<term, comp>>
  PROVE  /\ line' \in Words /\ cur' \in 0 .. End' /\ hist' \in 0 .. HistCnt
         /\ term' \in Terms /\ comp' \in Comps /\ Within(comp')
<1>1. line' \in Words /\ cur' = 0 /\ hist' \in 0 .. HistCnt
  BY CompleteAssumption, EmptySeq DEF Display, Words
<1>2. End' \in Nat
  BY <1>1, LenProperties DEF Words, End
<1> QED BY <1>1, <1>2 DEF IInv, InShape

(* The actions keep the invariant; first those that end a completion or    *)
(* begin one.                                                              *)
LEMMA GoLeftKeeps ==
  ASSUME IInv, GoLeft
  PROVE  IInv' /\ (Turning => Turning')
<1>1. /\ line' = line /\ term' = term /\ comp' = comp /\ hist' = hist /\ others' = others
      /\ status' = "line" /\ w' = Uncompleting /\ cur' = Max({0, cur - 1})
  BY DEF GoLeft, Does
<1>2. cur \in 0 .. End /\ End \in Nat
  BY LenProperties DEF IInv, InShape, Words, End
<1>3. cur' \in 0 .. End'
  <2>1. cur' = IF 0 >= cur - 1 THEN 0 ELSE cur - 1
    BY <1>1, <1>2, MaxOfTwo
  <2> QED BY <1>1, <1>2, <2>1 DEF End
<1>4. w' \in Windows /\ ~Completing' /\ Listing' /\ (Turning => Turning')
  BY <1>1, UncompletesWindow
<1>5. InShape'
  BY <1>1, <1>3, <1>4 DEF IInv, InShape
<1>6. TermPlaced' /\ Apart'
  BY <1>1, <1>4 DEF TermPlaced, Apart
<1> QED BY <1>4, <1>5, <1>6 DEF IInv

LEMMA GoRightKeeps ==
  ASSUME IInv, GoRight
  PROVE  IInv' /\ (Turning => Turning')
<1>1. /\ hist' = hist /\ others' = others /\ status' = "line" /\ w' = Uncompleting
      /\ IF Completing THEN Edited(Accept(Edit))
         ELSE cur' = Min({End, cur + 1}) /\ UNCHANGED <<line, term, comp>>
  BY DEF GoRight, Does
<1>2. cur \in 0 .. End /\ End \in Nat
  BY LenProperties DEF IInv, InShape, Words, End
<1>3. /\ line' \in Words /\ cur' \in 0 .. End'
      /\ term' \in Terms /\ comp' \in Comps /\ Within(comp')
  <2>1. CASE Completing
    <3>1. Edit \in Edits /\ Sound(Edit) /\ TermIn(Edit)
      BY <2>1, EditIs
    <3>2. Sound(Accept(Edit))
      BY <3>1, AcceptIs
    <3>3. PICK e \in Edits : e = Accept(Edit) /\ Sound(e)
      BY <3>2 DEF Sound
    <3>4. Edited(e)
      BY <1>1, <2>1, <3>3
    <3> QED BY <3>3, <3>4, EditedIs
  <2>2. CASE ~Completing
    <3>1. cur' = IF End <= cur + 1 THEN End ELSE cur + 1
      BY <1>1, <1>2, <2>2, MinOfTwo
    <3> QED BY <1>1, <1>2, <2>2, <3>1 DEF IInv, InShape, End
  <2> QED BY <2>1, <2>2
<1>4. w' \in Windows /\ ~Completing' /\ Listing' /\ (Turning => Turning')
  BY <1>1, UncompletesWindow
<1>5. InShape'
  BY <1>1, <1>3, <1>4 DEF IInv, InShape
<1>6. TermPlaced' /\ Apart'
  BY <1>1, <1>4 DEF TermPlaced, Apart
<1> QED BY <1>4, <1>5, <1>6 DEF IInv

LEMMA StartCompletionKeeps ==
  ASSUME IInv, NEW type \in Types, NEW action, StartCompletion(type, action)
  PROVE  IInv' /\ (Turning => Turning')
<1>1. /\ line' = line /\ cur' = cur /\ hist' = hist /\ others' = others
      /\ status' = "complete" /\ term' = InitTerm(type)
      /\ comp' = comp \/ comp' = NoComp
      /\ w' = IF type = "help" THEN ShowClear(w) ELSE Uncompleting
  BY DEF StartCompletion
<1>2. line \in Words /\ cur \in 0 .. End /\ comp \in Comps /\ Within(comp) /\ w \in Windows
  BY DEF IInv, InShape
<1>3. type \in TermTypes
  BY CompleteAssumption DEF TermTypes
<1>4. term' \in Terms /\ term'.off + term'.len <= End'
  BY <1>1, <1>2, <1>3, InitTermIs DEF End
<1>5. comp' \in Comps /\ Within(comp')
  <2>1. NoComp \in Comps /\ Within(NoComp)
    BY EmptySeq DEF NoComp, Comps, Within
  <2> QED BY <1>1, <1>2, <2>1
<1>6. w' \in Windows /\ ~Completing' /\ Listing' /\ (Turning => Turning')
  <2>1. CASE type = "help"
    <3>1. w' \in Windows /\ w'.mode = "none"
      BY <1>1, <1>2, <2>1, ClearIs
    <3> QED BY <1>1, <3>1, NoWindowLeft DEF Completing
  <2>2. CASE type # "help"
    BY <1>1, <2>2, UncompletesWindow
  <2> QED BY <2>1, <2>2
<1>7. InShape'
  BY <1>1, <1>2, <1>4, <1>5, <1>6 DEF IInv, InShape, End
<1>8. TermPlaced' /\ Apart'
  BY <1>4, <1>6 DEF TermPlaced, Apart
<1> QED BY <1>6, <1>7, <1>8 DEF IInv

LEMMA TabAcceptHistoryKeeps ==
  ASSUME IInv, NEW action, TabAcceptHistory(action)
  PROVE  IInv' /\ (Turning => Turning')
<1>1. /\ line' = line /\ cur' = End /\ term' = term /\ comp' = comp /\ hist' = hist
      /\ others' = others /\ status' = "line" /\ w' = ShowClear(w)
  BY DEF TabAcceptHistory, Does
<1>2. cur' \in 0 .. End'
  BY <1>1, LenProperties DEF IInv, InShape, Words, End
<1>3. w' \in Windows /\ w'.mode = "none"
  BY <1>1, ClearIs DEF IInv, InShape
<1>4. Listing' /\ (Turning => Turning')
  BY <1>1, <1>3, NoWindowLeft
<1>5. InShape'
  BY <1>1, <1>2, <1>3 DEF IInv, InShape
<1>6. TermPlaced' /\ Apart'
  BY <1>1, <1>3 DEF TermPlaced, Apart, Completing
<1> QED BY <1>4, <1>5, <1>6 DEF IInv

(* The window follows what is selected.                                    *)
LEMMA Follows ==
  ASSUME IInv, Completing, comp'.words = comp.words, others' = others,
         NEW old, NEW idx \in 0 .. Cnt, w' = Follow(comp.words, old, idx)
  PROVE  /\ w' \in Windows /\ w'.mode = "completion" /\ Listing' /\ (Turning => Turning')
         /\ idx # 0 /\ idx # old => Shows(w', idx)
<1>1. w \in Windows /\ w.mode = "completion" /\ Cnt \in Nat \ {0} /\ Cnt = Len(comp.words)
  BY Counts DEF IInv, InShape, Completing, Cnt
<1>2. CASE idx = old \/ Shows(w, idx)
  <2>1. w' = w
    BY <1>2 DEF Follow
  <2>2. Listing' /\ (Turning => Turning')
    BY <2>1, KeepsWindow
  <2> QED BY <1>1, <1>2, <2>1, <2>2
<1>3. CASE ~(idx = old \/ Shows(w, idx))
  <2>1. w' = ShowCompletionIndex(w, Cnt, idx)
    BY <1>1, <1>3 DEF Follow
  <2>2. /\ w' \in Windows /\ w'.mode = "completion" /\ Fits(w', Cnt) /\ InPage(w', Cnt)
        /\ w'.pg < PgCount(Cnt)
        /\ idx # 0 => Shows(w', idx)
    BY <1>1, <2>1, CompletionShows
  <2>3. Cnt = Len(comp'.words)
    BY <1>1
  <2>4. OnItsPage(w', Cnt)
    BY <2>2 DEF OnItsPage
  <2>5. Listing' /\ (others'.keysPg < PgCount(KeyCnt) => Turning')
    BY <1>1, <2>2, <2>3, <2>4, NewWindow
  <2> QED BY <2>2, <2>5 DEF Turning
<1> QED BY <1>2, <1>3

(* The next candidate is put in place of the term, if at is set.           *)
LEMMA TabNextIs ==
  ASSUME IInv, NEW action, TabNext(action)
  PROVE  \E f \in Edits :
           /\ Edited(f) /\ Sound(f) /\ TermIn(f)
           /\ f.comp.words = comp.words /\ f.comp.idx \in 1 .. Cnt
           /\ f.comp.at = IF comp.idx = 0 THEN 1 ELSE comp.at
           /\ IF f.comp.at = 0 THEN f.line = line /\ f.cur = cur /\ w' = w
              ELSE /\ w' = Follow(comp.words, comp.idx, f.comp.idx)
                   /\ \E text \in Words :
                        /\ text = comp.words[f.comp.idx]
                        /\ f.line = Joined(line, term.off, term.off + term.len, text)
                        /\ f.cur = term.off + Len(text)
                        /\ f.term.off = term.off /\ f.term.len = Len(text)
<1> DEFINE next == [comp EXCEPT !.idx = Cycled(@, action = "TAB_REVERSE"),
                                !.at = IF comp.idx = 0 THEN 1 ELSE @]
           k == Saved!Find(next.words, next.at, next.idx)
           e == [Edit EXCEPT !.comp = next]
           word == next.words[k]
<1>1. /\ Completing
      /\ IF k = 0 THEN Edited(e) /\ w' = w
         ELSE /\ Edited([Put(e, word) EXCEPT !.term.len = Len(word)])
              /\ w' = Follow(next.words, comp.idx, next.idx)
  BY DEF TabNext
<1>2. /\ comp \in Comps /\ Cnt \in Nat \ {0} /\ Cnt = Len(comp.words) /\ comp.words \in Seq(Words)
      /\ comp.at \in Nat /\ comp.idx \in Nat /\ comp.at <= Cnt /\ comp.idx <= Cnt
  BY <1>1, Counts DEF IInv, InShape, Completing, Cnt, Comps, Within
<1>3. PICK i \in 1 .. Cnt : i = Cycled(comp.idx, action = "TAB_REVERSE")
  <2>1. Cycled(comp.idx, action = "TAB_REVERSE") \in 1 .. Cnt
    BY <1>2 DEF Cycled
  <2> QED BY <2>1
<1>4. PICK j \in Nat : j = (IF comp.idx = 0 THEN 1 ELSE comp.at) /\ j <= Cnt
  BY <1>2
<1>5. i \in Nat /\ i <= Cnt /\ i # 0
  BY <1>2
<1>6. next \in Comps /\ next.words = comp.words /\ next.idx = i /\ next.at = j /\ Within(next)
  <2>1. next = [comp EXCEPT !.idx = i, !.at = j]
    BY <1>2, <1>3, <1>4 DEF Comps
  <2>2. PICK c \in Comps : c = [comp EXCEPT !.idx = i, !.at = j]
    BY <1>2, <1>5 DEF Comps
  <2>3. c.words = comp.words /\ c.idx = i /\ c.at = j
    BY <1>2, <2>2 DEF Comps
  <2>4. Within(c)
    BY <1>2, <1>4, <1>5, <2>3 DEF Within
  <2> QED BY <2>1, <2>2, <2>3, <2>4
<1> HIDE DEF next
<1>7. k = IF j = 0 THEN 0 ELSE i
  BY <1>2, <1>4, <1>5, <1>6 DEF Saved!Find, Saved!Positions
<1>8. /\ e \in Edits /\ e.line = line /\ e.cur = cur /\ e.term = term /\ e.comp = next
      /\ Sound(e) /\ TermIn(e)
  <2>1. Edit \in Edits /\ Sound(Edit) /\ TermIn(Edit) /\ Edit.line = line /\ Edit.cur = cur /\ Edit.term = term
    BY <1>1, EditIs
  <2>2. e \in Edits /\ e.line = line /\ e.cur = cur /\ e.term = term /\ e.comp = next
    BY <1>6, <2>1, Recomp
  <2> HIDE DEF e
  <2> QED BY <1>6, <2>1, <2>2 DEF Sound, TermIn
<1> HIDE DEF e, k
<1>9. \E f \in Edits :
        /\ Edited(f) /\ Sound(f) /\ TermIn(f) /\ f.comp = next
        /\ IF j = 0 THEN f.line = line /\ f.cur = cur /\ w' = w
           ELSE /\ w' = Follow(comp.words, comp.idx, i)
                /\ \E text \in Words :
                     /\ text = comp.words[i]
                     /\ f.line = Joined(line, term.off, term.off + term.len, text)
                     /\ f.cur = term.off + Len(text)
                     /\ f.term.off = term.off /\ f.term.len = Len(text)
  <2>1. CASE k = 0
    <3>1. j = 0 /\ Edited(e) /\ w' = w
      BY <1>1, <1>5, <1>7, <2>1
    <3> QED BY <1>8, <3>1
  <2>2. CASE k # 0
    <3>1. PICK text \in Words : text = word /\ text = comp.words[i]
      BY <1>2, <1>6, <1>7, <2>2, ElementOfSeq
    <3>2. PICK n \in Nat : n = Len(text)
      BY LenProperties DEF Words
    <3>3. PICK y \in Edits : /\ y = Put(e, text) /\ y.term = term /\ y.comp = next
                             /\ y.line = Joined(line, term.off, term.off + term.len, text)
                             /\ y.cur = term.off + n /\ y.cur <= Len(y.line)
      BY <1>8, <3>2, PutIs
    <3>4. Edited([y EXCEPT !.term.len = n])
      BY <1>1, <2>2, <3>1, <3>2, <3>3
    <3> DEFINE u == [y.term EXCEPT !.len = n]
    <3>5. y.term \in Terms /\ u \in Terms /\ u.off = y.term.off /\ u.len = n
      BY Relen DEF Edits
    <3>6. [y EXCEPT !.term.len = n] = [y EXCEPT !.term = u]
      BY DEF Edits, Terms
    <3> HIDE DEF u
    <3>7. PICK f \in Edits : f = [y EXCEPT !.term = u]
      BY <3>5, Reterm
    <3>8. f.line = y.line /\ f.cur = y.cur /\ f.term = u /\ f.comp = next
      BY <3>3, <3>5, <3>7, Reterm
    <3>9. Sound(f) /\ TermIn(f)
      BY <1>6, <3>3, <3>5, <3>8 DEF Sound, TermIn
    <3>10. j # 0 /\ w' = Follow(comp.words, comp.idx, i)
      BY <1>1, <1>6, <1>7, <2>2
    <3>11. Edited(f)
      BY <3>4, <3>6, <3>7
    <3>12. f.line = Joined(line, term.off, term.off + term.len, text) /\ f.cur = term.off + Len(text)
           /\ f.term.off = term.off /\ f.term.len = Len(text)
      BY <3>2, <3>3, <3>5, <3>8
    <3> QED BY <3>1, <3>8, <3>9, <3>10, <3>11, <3>12
  <2> QED BY <2>1, <2>2
<1> QED BY <1>4, <1>6, <1>9

(* TAB again: the next candidate is put in place of the selected one.      *)
LEMMA TabNextKeeps ==
  ASSUME IInv, NEW action, TabNext(action)
  PROVE  IInv' /\ (Turning => Turning')
<1>1. hist' = hist /\ others' = others /\ status' = "line" /\ Completing
  BY DEF TabNext, Does
<1>2. PICK f \in Edits :
        /\ Edited(f) /\ Sound(f) /\ TermIn(f)
        /\ f.comp.words = comp.words /\ f.comp.idx \in 1 .. Cnt
        /\ w' = w \/ w' = Follow(comp.words, comp.idx, f.comp.idx)
  BY TabNextIs
<1>3. /\ line' \in Words /\ cur' \in 0 .. End'
      /\ term' \in Terms /\ comp' \in Comps /\ Within(comp')
      /\ term'.off + term'.len <= End'
  BY <1>2, EditedIs
<1>4. comp'.words = comp.words
  BY <1>2 DEF Edited
<1>5. w' \in Windows /\ w'.mode = "completion" /\ Listing' /\ (Turning => Turning')
  <2>1. CASE w' = w
    BY <1>1, <1>4, <2>1, KeepsWindow DEF IInv, InShape, Completing
  <2>2. CASE w' # w
    <3>1. PICK i \in 0 .. Cnt : i = f.comp.idx
      <4>1. Cnt \in Nat
        BY Counts
      <4> QED BY <1>2, <4>1
    <3>2. w' = Follow(comp.words, comp.idx, i)
      BY <1>2, <2>2, <3>1
    <3> QED BY <1>1, <1>4, <3>2, Follows
  <2> QED BY <2>1, <2>2
<1>6. InShape'
  BY <1>1, <1>3, <1>5 DEF IInv, InShape
<1>7. TermPlaced' /\ Apart'
  BY <1>1, <1>3 DEF TermPlaced, Apart
<1> QED BY <1>5, <1>6, <1>7 DEF IInv

-----------------------------------------------------------------------------
(* A character is typed.                                                   *)

LEMMA InsertedIs ==
  ASSUME IInv, NEW char \in Chars
  PROVE  /\ InsertedAt(char) \in Words /\ Len(InsertedAt(char)) = End + 1
         /\ \A j \in 1 .. cur : InsertedAt(char)[j] = line[j]
         /\ InsertedAt(char)[cur + 1] = char
         /\ \A j \in 1 .. End - cur : InsertedAt(char)[cur + 1 + j] = line[cur + j]
<1>1. line \in Words /\ cur \in 0 .. End /\ End \in Nat /\ End = Len(line)
  BY LenProperties DEF IInv, InShape, Words, End
<1>2. PICK s \in Words, c \in Nat, text \in Words : s = line /\ c = cur /\ text = <<char>>
  <2>1. <<char>> \in Words
    BY DEF Words
  <2> QED BY <1>1, <2>1
<1>3. c <= c /\ c <= Len(s) /\ Len(text) = 1 /\ text[1] = char
  BY <1>1, <1>2
<1>4. /\ Joined(s, c, c, text) \in Words
      /\ Len(Joined(s, c, c, text)) = c + Len(text) + Len(s) - c
      /\ \A j \in 1 .. c : Joined(s, c, c, text)[j] = s[j]
      /\ \A j \in 1 .. Len(text) : Joined(s, c, c, text)[c + j] = text[j]
      /\ \A j \in 1 .. Len(s) - c : Joined(s, c, c, text)[c + Len(text) + j] = s[c + j]
  <2>1. Joined(s, c, c, text) \in Words /\ IsJoined(Joined(s, c, c, text), s, c, c, text)
    BY <1>3, JoinIs
  <2> QED BY <2>1 DEF IsJoined, Alike, Moved
<1>5. Joined(s, c, c, text) = InsertedAt(char)
  BY <1>1, <1>2 DEF Joined, InsertedAt
<1>6. Len(Joined(s, c, c, text)) = End + 1
  BY <1>1, <1>2, <1>3, <1>4
<1>7. Joined(s, c, c, text)[c + 1] = char
  BY <1>3, <1>4
<1> QED BY <1>1, <1>2, <1>3, <1>4, <1>5, <1>6, <1>7

(* When a term goes on with a character, what is selected is in its place, *)
(* but for the habits.                                                     *)
LEMMA TypedSelected ==
  ASSUME IInv, Completing, ~Beyond, ~Other, ~Inside, NEW char \in Chars,
         NEW e \in Edits, e.line = InsertedAt(char), e.term = term, e.comp = comp
  PROVE  SelectedPut(e)
<1>1. /\ line \in Words /\ cur \in 0 .. End /\ End \in Nat /\ End = Len(line) /\ term \in Terms
      /\ term.off \in Nat /\ term.len \in Nat /\ comp.words \in Seq(Words)
      /\ comp.at \in Nat /\ comp.idx \in Nat /\ comp.at <= Len(comp.words) /\ comp.idx <= Len(comp.words)
      /\ Len(comp.words) \in Nat /\ comp.at # 0
  BY LenProperties DEF IInv, InShape, Words, End, Terms, Comps, Within, Beyond
<1>2. PICK off \in Nat, l \in Nat : off = term.off /\ l = term.len /\ off + l <= cur
  <2>1. cur \in Nat /\ ~(cur < term.off + term.len)
    BY <1>1 DEF Inside
  <2> QED BY <1>1, <2>1
<1>3. SUFFICES ASSUME comp.idx # 0, Len(comp.words[comp.idx]) = l
               PROVE  comp.at <= comp.idx /\ comp.words[comp.idx] = Slice(e.line, off, off + l)
  BY <1>2 DEF SelectedPut
<1>4. comp.idx \in 1 .. Len(comp.words)
  BY <1>1, <1>3
<1>5. PICK v \in Words : v = comp.words[comp.idx] /\ Len(v) = l
  BY <1>1, <1>3, <1>4, ElementOfSeq
<1>6. v = Slice(line, off, off + l)
  BY <1>2, <1>3, <1>5 DEF Other, TermText
<1>7. Slice(e.line, off, off + l) = v
  <2>1. PICK s \in Words, t \in Words : s = line /\ t = e.line /\ Len(t) = End + 1
                                        /\ \A j \in 1 .. cur : t[j] = s[j]
    BY <1>1, InsertedIs
  <2>2. off + l <= Len(s) /\ off + l <= Len(t)
    BY <1>1, <1>2, <2>1
  <2>3. /\ Slice(s, off, off + l) \in Words /\ Len(Slice(s, off, off + l)) = l
        /\ \A j \in 1 .. l : Slice(s, off, off + l)[j] = s[off + j]
    BY <2>2, PartIs
  <2>4. /\ Slice(t, off, off + l) \in Words /\ Len(Slice(t, off, off + l)) = l
        /\ \A j \in 1 .. l : Slice(t, off, off + l)[j] = t[off + j]
    BY <2>2, PartIs
  <2>5. \A j \in 1 .. l : off + j \in 1 .. cur
    BY <1>1, <1>2
  <2>6. \A j \in 1 .. l : Slice(t, off, off + l)[j] = Slice(s, off, off + l)[j]
    BY <2>1, <2>3, <2>4, <2>5
  <2>7. Slice(t, off, off + l) = Slice(s, off, off + l)
    <3>1. PICK x \in Seq(Chars), y \in Seq(Chars) : x = Slice(t, off, off + l) /\ y = Slice(s, off, off + l)
      BY <2>3, <2>4 DEF Words
    <3>2. Len(x) = Len(y) /\ \A j \in 1 .. Len(x) : x[j] = y[j]
      BY <2>3, <2>4, <2>6, <3>1
    <3>3. x = y
      BY <3>2, SeqEqual
    <3> QED BY <3>1, <3>3
  <2> QED BY <1>6, <2>1, <2>7
<1>8. ~(comp.idx < comp.at)
  <2> SUFFICES ASSUME comp.idx < comp.at PROVE FALSE
    OBVIOUS
  <2>1. comp.idx \in 1 .. comp.at - 1
    BY <1>1, <1>4
  <2>2. IsPrefix(v, v)
    <3>1. Len(v) \in Nat
      BY LenProperties DEF Words
    <3>2. Same(v, v, Len(v))
      BY <3>1 DEF Same
    <3> QED BY <3>2, PrefixIs
  <2>3. IsPrefix(TermText, comp.words[comp.idx])
    BY <1>2, <1>5, <1>6, <2>2 DEF TermText
  <2> QED BY <2>1, <2>3 DEF Beyond
<1> QED BY <1>1, <1>5, <1>7, <1>8

(* What is typed goes into the term, as one of the candidates that are     *)
(* left.                                                                   *)
TypesInTerm == {"typeBeyond", "typeOther", "typeInside"} \cap Habits = {}

(* A typed character: the edit that inserts it, and what completion_update *)
(* makes of that.                                                          *)
LEMMA TypedIs ==
  ASSUME TypesInTerm, IInv, NEW char \in Typed, InsertChar(char)
  PROVE  \E typed \in Edits :
           /\ typed.line = InsertedAt(char) /\ typed.cur = cur + 1
           /\ typed.term = term /\ typed.comp = comp
           /\ Sound(typed)
           /\ ~Completing => Edited(typed) /\ w' = w
           /\ Completing =>
                /\ ~Inside /\ typed.comp.at # 0 /\ SelectedPut(typed)
                /\ \E f \in Edits :
                     /\ f = Update(typed) /\ Sound(f) /\ Edited(f)
                     /\ f.comp # NoComp =>
                          f.comp.words = comp.words /\ f.comp.idx # 0 /\ f.comp.at # 0 /\ TermIn(f)
                     /\ w' = IF f.comp = NoComp THEN ShowClear(w)
                             ELSE Follow(comp.words, comp.idx, f.comp.idx)
<1> DEFINE typed == [Edit EXCEPT !.line = InsertedAt(char), !.cur = cur + 1]
           e == IF Completing THEN Update(typed) ELSE typed
<1>1. /\ Completing => ~Beyond /\ ~Other /\ ~Inside
      /\ Edited(e)
      /\ w' = IF ~Completing THEN w
              ELSE IF e.comp = NoComp THEN ShowClear(w)
              ELSE Follow(comp.words, comp.idx, e.comp.idx)
  BY DEF InsertChar, TypesInTerm
<1>2. char \in Chars
  BY CompleteAssumption
<1>3. InsertedAt(char) \in Words /\ Len(InsertedAt(char)) = End + 1
  BY <1>2, InsertedIs
<1>4. End \in Nat /\ cur \in Nat /\ cur <= End /\ w \in Windows /\ Within(comp)
  <2>1. cur \in 0 .. End /\ End \in Nat
    BY LenProperties DEF IInv, InShape, Words, End
  <2> QED BY <2>1 DEF IInv, InShape
<1>5. /\ typed \in Edits /\ typed.line = InsertedAt(char) /\ typed.cur = cur + 1
      /\ typed.term = term /\ typed.comp = comp
  <2>1. PICK u \in Words, n \in Nat : u = InsertedAt(char) /\ n = cur + 1
    BY <1>3, <1>4
  <2>2. Edit \in Edits /\ Edit.term = term /\ Edit.comp = comp
    BY EditIs
  <2>3. typed = [Edit EXCEPT !.line = u, !.cur = n]
    BY <2>1
  <2> HIDE DEF typed
  <2>4. typed \in Edits
    BY <2>2, <2>3 DEF Edits
  <2>5. typed.line = u /\ typed.cur = n /\ typed.term = term /\ typed.comp = comp
    BY <2>2, <2>3 DEF Edits
  <2> QED BY <2>1, <2>4, <2>5
<1> HIDE DEF typed
<1>6. Sound(typed)
  <2>1. cur + 1 <= Len(typed.line)
    BY <1>3, <1>4, <1>5
  <2> QED BY <1>4, <1>5, <2>1 DEF Sound
<1>7. ASSUME Completing
      PROVE  /\ ~Inside /\ typed.comp.at # 0 /\ SelectedPut(typed)
             /\ \E f \in Edits :
                  /\ f = Update(typed) /\ Sound(f) /\ Edited(f)
                  /\ f.comp # NoComp =>
                       f.comp.words = comp.words /\ f.comp.idx # 0 /\ f.comp.at # 0 /\ TermIn(f)
                  /\ w' = IF f.comp = NoComp THEN ShowClear(w)
                          ELSE Follow(comp.words, comp.idx, f.comp.idx)
  <2>1. PICK f : f = Update(typed)
    OBVIOUS
  <2>2. Edited(f) /\ w' = IF f.comp = NoComp THEN ShowClear(w) ELSE Follow(comp.words, comp.idx, f.comp.idx)
    BY <1>1, <1>7, <2>1
  <2>3. SelectedPut(typed)
    BY <1>1, <1>2, <1>5, <1>7, TypedSelected
  <2>4. typed.comp.at # 0
    BY <1>1, <1>5, <1>7 DEF Beyond
  <2>5. /\ Sound(f)
        /\ f.comp # NoComp =>
             f.comp.words = typed.comp.words /\ f.comp.idx # 0 /\ f.comp.at # 0 /\ TermIn(f)
    BY <1>5, <1>6, <2>1, <2>3, <2>4, UpdateIs
  <2>6. f \in Edits
    BY <2>5 DEF Sound
  <2> QED BY <1>1, <1>5, <1>7, <2>1, <2>2, <2>3, <2>4, <2>5, <2>6
<1>8. ~Completing => Edited(typed) /\ w' = w
  BY <1>1
<1> QED BY <1>5, <1>6, <1>7, <1>8

(* A character that is typed keeps the invariant.                          *)
LEMMA InsertCharKeeps ==
  ASSUME TypesInTerm, IInv, NEW char \in Typed, InsertChar(char)
  PROVE  IInv' /\ (Turning => Turning')
<1>1. /\ hist' = hist /\ others' = others /\ status' = "line" /\ status = "line"
      /\ w \in Windows
  BY DEF InsertChar, Does, IInv, InShape
<1>2. CASE ~Completing
  <2>1. PICK typed \in Edits :
          Sound(typed) /\ Edited(typed) /\ w' = w
    BY <1>2, TypedIs
  <2>2. /\ line' \in Words /\ cur' \in 0 .. End'
        /\ term' \in Terms /\ comp' \in Comps /\ Within(comp')
    BY <2>1, EditedIs
  <2>3. Listing' /\ (Turning => Turning')
    BY <1>1, <1>2, <2>1, KeepsWindow
  <2>4. InShape'
    BY <1>1, <2>1, <2>2 DEF IInv, InShape
  <2>5. TermPlaced' /\ Apart'
    BY <1>1, <1>2, <2>1 DEF TermPlaced, Apart, Completing
  <2> QED BY <2>3, <2>4, <2>5 DEF IInv
<1>3. CASE Completing
  <2>1. PICK f \in Edits :
          /\ Sound(f) /\ Edited(f)
          /\ f.comp # NoComp => f.comp.words = comp.words /\ TermIn(f)
          /\ w' = IF f.comp = NoComp THEN ShowClear(w)
                  ELSE Follow(comp.words, comp.idx, f.comp.idx)
    BY <1>3, TypedIs
  <2>2. /\ line' \in Words /\ cur' \in 0 .. End'
        /\ term' \in Terms /\ comp' \in Comps /\ Within(comp')
        /\ TermIn(f) => term'.off + term'.len <= End'
    BY <2>1, EditedIs
  <2>3. comp' = f.comp
    BY <2>1 DEF Edited
  <2>4. CASE f.comp = NoComp
    <3>1. w' \in Windows /\ w'.mode = "none"
      BY <1>1, <2>1, <2>4, ClearIs
    <3>2. Listing' /\ (Turning => Turning')
      BY <1>1, <3>1, NoWindowLeft
    <3>3. InShape'
      BY <1>1, <2>2, <3>1 DEF IInv, InShape
    <3>4. TermPlaced' /\ Apart'
      BY <1>1, <3>1 DEF TermPlaced, Apart, Completing
    <3> QED BY <3>2, <3>3, <3>4 DEF IInv
  <2>5. CASE f.comp # NoComp
    <3>1. w' = Follow(comp.words, comp.idx, f.comp.idx)
      BY <2>1, <2>5
    <3>2. f.comp.idx \in 0 .. Cnt
      <4>1. Cnt \in Nat /\ Cnt = Len(comp.words)
        BY Counts DEF Cnt
      <4>2. f.comp.idx \in Nat /\ f.comp.idx <= Cnt
        BY <2>1, <2>2, <2>3, <2>5, <4>1 DEF Comps, Within
      <4> QED BY <4>1, <4>2
    <3>3. comp'.words = comp.words
      BY <2>1, <2>3, <2>5
    <3>4. w' \in Windows /\ w'.mode = "completion" /\ Listing' /\ (Turning => Turning')
      BY <1>1, <1>3, <3>1, <3>2, <3>3, Follows
    <3>5. InShape'
      BY <1>1, <2>2, <3>4 DEF IInv, InShape
    <3>6. TermPlaced' /\ Apart'
      BY <1>1, <2>1, <2>2, <2>5 DEF TermPlaced, Apart
    <3> QED BY <3>4, <3>5, <3>6 DEF IInv
  <2> QED BY <2>4, <2>5
<1> QED BY <1>2, <1>3

-----------------------------------------------------------------------------
(* The application completes.                                              *)

LEMMA CompleteTermKeeps ==
  ASSUME IInv, NEW words \in Lists, NEW added \in BOOLEAN, CompleteTerm(words, added)
  PROVE  /\ IInv' /\ (Turning => Turning') /\ comp'.idx = 0
         /\ \/ line' = line
            \/ \E text \in Words :
                 /\ line' = Joined(line, term.off, term.off + term.len, text)
                 /\ cur' = term.off + Len(text)
<1> DEFINE type == IF added THEN "fzf" ELSE term.type
           g == [Edit EXCEPT !.term.type = type, !.comp = Listed(words, Len(words))]
           f == TabFirst(g, tabbed)
<1>1. /\ hist' = hist /\ others' = others /\ status' = "line" /\ status = "complete"
      /\ Edited(f)
      /\ w' = IF f.comp = NoComp THEN w
              ELSE ShowCompletionIndex(ShowClear(w), Len(f.comp.words), 0)
  BY DEF CompleteTerm, Completes
<1>2. /\ term \in Terms /\ term.type \in TermTypes /\ w \in Windows /\ ~Completing
      /\ words \in Seq(Words) /\ Len(words) \in Nat
  <2>1. words \in Seq(Words)
    BY CompleteAssumption
  <2> QED BY <1>1, <2>1, LenProperties DEF IInv, InShape, Terms, Apart
<1>3. type \in TermTypes
  BY <1>2 DEF TermTypes
<1> DEFINE t == [term EXCEPT !.type = type]
           c == Listed(words, Len(words))
<1>4. t \in Terms /\ t.off = term.off /\ t.len = term.len
  BY <1>2, <1>3, Retype
<1>5. c \in Comps /\ Within(c)
  BY <1>2, ListedIs
<1>6. g \in Edits /\ g.line = line /\ g.cur = cur /\ g.term = t /\ g.comp = c
  <2>1. Edit \in Edits /\ Edit.line = line /\ Edit.cur = cur /\ Edit.term = term
    BY EditIs
  <2>2. g = [[Edit EXCEPT !.term = t] EXCEPT !.comp = c]
    BY <2>1 DEF Edits, Terms
  <2> HIDE DEF g, t, c
  <2>3. PICK h \in Edits : h = [Edit EXCEPT !.term = t]
    BY <1>4, <2>1, Reterm
  <2>4. h.line = line /\ h.cur = cur /\ h.term = t
    BY <1>4, <2>1, <2>3, Reterm
  <2>5. g = [h EXCEPT !.comp = c]
    BY <2>2, <2>3
  <2>6. g \in Edits /\ g.line = h.line /\ g.cur = h.cur /\ g.term = h.term /\ g.comp = c
    BY <1>5, <2>5, Recomp
  <2> QED BY <2>4, <2>6
<1> HIDE DEF g, t, c
<1>7. Sound(g) /\ TermIn(g)
  BY <1>1, <1>4, <1>5, <1>6, EditIs DEF Sound, TermIn
<1>8. /\ Sound(f) /\ f \in Edits
      /\ f.comp # NoComp => f.comp.words # <<>> /\ f.comp.idx = 0 /\ TermIn(f)
      /\ \/ f.line = g.line /\ f.cur = g.cur
         \/ \E text \in Words :
              /\ f.line = Joined(g.line, g.term.off, g.term.off + g.term.len, text)
              /\ f.cur = g.term.off + Len(text)
  <2>1. Sound(f)
    BY <1>6, <1>7, TabFirstIs
  <2>2. f.comp # NoComp => f.comp.words # <<>> /\ f.comp.idx = 0 /\ TermIn(f)
    BY <1>6, <1>7, TabFirstIs
  <2>3. \/ f.line = g.line /\ f.cur = g.cur
        \/ \E text \in Words :
             /\ f.line = Joined(g.line, g.term.off, g.term.off + g.term.len, text)
             /\ f.cur = g.term.off + Len(text)
    BY <1>6, <1>7, TabFirstIs
  <2> QED BY <2>1, <2>2, <2>3 DEF Sound
<1> HIDE DEF f
<1>9. /\ line' \in Words /\ cur' \in 0 .. End'
      /\ term' \in Terms /\ comp' \in Comps /\ Within(comp')
      /\ TermIn(f) => term'.off + term'.len <= End'
  BY <1>1, <1>8, EditedIs
<1>10. comp' = f.comp
  BY <1>1 DEF Edited
<1>11. /\ comp'.idx = 0
       /\ \/ line' = line
          \/ \E text \in Words :
               /\ line' = Joined(line, term.off, term.off + term.len, text)
               /\ cur' = term.off + Len(text)
  <2>1. line' = f.line /\ cur' = f.cur
    BY <1>1 DEF Edited
  <2> QED BY <1>4, <1>6, <1>8, <1>10, <2>1 DEF NoComp
<1>12. CASE f.comp = NoComp
  <2>1. w' = w
    BY <1>1, <1>12
  <2>2. Listing' /\ (Turning => Turning')
    BY <1>1, <1>2, <2>1, KeepsWindow
  <2>3. InShape'
    BY <1>1, <1>9, <2>1 DEF IInv, InShape
  <2>4. TermPlaced' /\ Apart'
    BY <1>1, <1>2, <2>1 DEF TermPlaced, Apart, Completing
  <2> QED BY <1>11, <2>2, <2>3, <2>4 DEF IInv
<1>13. CASE f.comp # NoComp
  <2>1. PICK cnt \in Nat \ {0} : cnt = Len(f.comp.words) /\ cnt = Len(comp'.words)
    <3>1. f.comp.words \in Seq(Words) /\ f.comp.words # <<>>
      BY <1>8, <1>9, <1>10, <1>13 DEF Comps
    <3>2. Len(f.comp.words) \in Nat \ {0}
      BY <3>1, EmptySeq
    <3> QED BY <1>10, <3>2
  <2>2. PICK v \in Windows : v = ShowClear(w)
    BY <1>2, ClearIs
  <2>3. w' = ShowCompletionIndex(v, cnt, 0) /\ 0 \in 0 .. cnt
    BY <1>1, <1>13, <2>1, <2>2
  <2>4. /\ w' \in Windows /\ w'.mode = "completion" /\ Fits(w', cnt) /\ InPage(w', cnt)
        /\ w'.pg < PgCount(cnt)
    BY <2>3, CompletionShows
  <2>5. OnItsPage(w', cnt)
    BY <2>4 DEF OnItsPage
  <2>6. Listing' /\ (others'.keysPg < PgCount(KeyCnt) => Turning')
    BY <2>1, <2>4, <2>5, NewWindow
  <2>7. InShape'
    BY <1>1, <1>9, <2>4 DEF IInv, InShape
  <2>8. TermPlaced' /\ Apart'
    BY <1>1, <1>8, <1>9, <1>13 DEF TermPlaced, Apart
  <2> QED BY <1>1, <1>11, <2>6, <2>7, <2>8 DEF IInv, Turning
<1> QED BY <1>12, <1>13

(* The entry that is displayed is in the window, if that is the history.   *)
Displays == w'.mode = "history" /\ hist' \notin {0, hist} => Shows(w', hist')

(* A page of the history is shown.                                         *)
LEMMA ShowsHistory ==
  ASSUME NEW v \in Windows, NEW idx \in 0 .. HistCnt, w' = ShowHistoryIndex(v, HistCnt, idx)
  PROVE  /\ w' \in Windows /\ w'.mode = "history" /\ Listing'
         /\ others'.keysPg < PgCount(KeyCnt) => Turning'
         /\ idx # 0 => Shows(w', idx)
<1>1. HistCnt \in Nat \ {0}
  BY CompleteAssumption
<1>2. /\ w' \in Windows /\ w'.mode = "history" /\ Fits(w', HistCnt) /\ OnPage(w', HistCnt)
      /\ w'.pg < PgCount(HistCnt)
      /\ idx # 0 => Shows(w', idx)
  BY <1>1, HistoryShows
<1>3. OnItsPage(w', HistCnt)
  BY <1>1, <1>2, OnPageIn DEF OnItsPage
<1> QED BY <1>1, <1>2, <1>3, NewWindow

(* The other two completions: the lines of the history and the help text.  *)
LEMMA CompleteHistoryKeeps ==
  ASSUME IInv, NEW words \in Lists, CompleteHistory(words)
  PROVE  IInv' /\ (Turning => Turning')
<1>1. /\ term' = term /\ hist' = hist /\ others' = others /\ status' = "line" /\ status = "complete"
  BY DEF CompleteHistory, Completes
<1>2. w \in Windows /\ ~Completing /\ hist \in 0 .. HistCnt
  BY <1>1 DEF IInv, InShape, Apart
<1>3. CASE words = <<>>
  <2>1. w' = ShowHistoryIndex(ShowClear(w), HistCnt, hist) /\ UNCHANGED <<line, cur, term, comp>>
    BY <1>1, <1>3 DEF CompleteHistory
  <2>2. PICK v \in Windows : v = ShowClear(w)
    BY <1>2, ClearIs
  <2>3. /\ w' \in Windows /\ w'.mode = "history" /\ Listing'
        /\ others'.keysPg < PgCount(KeyCnt) => Turning'
    BY <1>2, <2>1, <2>2, ShowsHistory
  <2>4. InShape'
    BY <1>1, <2>1, <2>3, NotEdited DEF IInv, InShape
  <2>5. TermPlaced' /\ Apart'
    BY <1>1, <2>3 DEF TermPlaced, Apart, Completing
  <2> QED BY <1>1, <2>3, <2>4, <2>5 DEF IInv, Turning
<1>4. CASE words # <<>>
  <2>1. /\ comp' = Listed(words, Len(words)) /\ line' = words[1] /\ cur' = 0 /\ w' = w
    BY <1>4 DEF CompleteHistory
  <2>2. words \in Seq(Words) /\ Len(words) \in Nat \ {0}
    BY <1>4, CompleteAssumption, EmptySeq
  <2>3. comp' \in Comps /\ Within(comp')
    BY <2>1, <2>2, ListedIs
  <2>4. line' \in Words
    BY <2>1, <2>2, ElementOfSeq
  <2>5. cur' \in 0 .. End'
    BY <2>1, <2>4, LenProperties DEF Words, End
  <2>6. InShape'
    BY <1>1, <2>1, <2>3, <2>4, <2>5 DEF IInv, InShape
  <2>7. Listing' /\ (Turning => Turning')
    BY <1>1, <1>2, <2>1, KeepsWindow
  <2>8. TermPlaced' /\ Apart'
    BY <1>1, <1>2, <2>1 DEF TermPlaced, Apart, Completing
  <2> QED BY <2>6, <2>7, <2>8 DEF IInv
<1> QED BY <1>3, <1>4

LEMMA CompleteHelpKeeps ==
  ASSUME IInv, NEW words \in Helps, CompleteHelp(words)
  PROVE  IInv' /\ (Turning => Turning') /\ ~Completing'
<1> DEFINE all == comp.words \o words
           help == IF all = <<>> THEN Max({1, others.help}) ELSE Len(all)
<1>1. /\ line' = line /\ cur' = cur /\ hist' = hist /\ status' = "line"
      /\ all = <<>> /\ w.pg >= PgCount(help) => "helpAgain" \in Habits \/ help = 1
      /\ others' = [others EXCEPT !.help = help]
      /\ IF all = <<>>
           THEN w' = ShowLsb(ShowClear(w), "help", help) /\ UNCHANGED <<term, comp>>
           ELSE /\ w' = StartPage(ShowClear(w), "help", help)
                /\ term' = NoTerm /\ comp' = NoComp
  BY DEF CompleteHelp, Completes
<1>2. /\ comp.words \in Seq(Words) /\ words \in Seq(Words) /\ w \in Windows
      /\ others \in [keysPg : Nat, help : Nat] /\ others.help \in Nat
  BY CompleteAssumption DEF IInv, InShape, Comps
<1>3. all \in Seq(Words)
  BY <1>2, ConcatProperties
<1> HIDE DEF all
<1>4. PICK cnt \in Nat \ {0} : cnt = help
  <2>1. CASE all = <<>>
    BY <1>2, <2>1, MaxOfTwo
  <2>2. CASE all # <<>>
    BY <1>3, <2>2, EmptySeq
  <2> QED BY <2>1, <2>2
<1> HIDE DEF help
<1>5. PICK v \in Windows : v = ShowClear(w) /\ v.pg = w.pg
  BY <1>2, ClearIs
<1>6. "help" \in WindowModes
  BY DEF WindowModes
<1>7. /\ others' \in [keysPg : Nat, help : Nat] /\ others'.help = cnt
      /\ others'.keysPg = others.keysPg
  BY <1>1, <1>2, <1>4
<1>8. /\ w' \in Windows /\ w'.mode = "help" /\ Fits(w', cnt) /\ OnPage(w', cnt)
      /\ all = <<>> => w'.pg = w.pg
      /\ all # <<>> => w'.pg < PgCount(cnt)
  <2>1. CASE all = <<>>
    BY <1>1, <1>4, <1>5, <1>6, <2>1, LsbShows
  <2>2. CASE all # <<>>
    <3>1. w' = StartPage(v, "help", cnt)
      BY <1>1, <1>4, <1>5, <2>2
    <3> QED BY <1>6, <2>2, <3>1, EndsShow
  <2> QED BY <2>1, <2>2
<1>9. w'.pg < PgCount(cnt) \/ cnt = 1 \/ "helpAgain" \in Habits
  <2>1. w'.pg \in Nat /\ PgCount(cnt) \in Nat
    BY <1>8, PgCountIs DEF Windows
  <2> QED BY <1>1, <1>4, <1>8, <2>1
<1>10. /\ Listing'
       /\ /\ others'.keysPg < PgCount(KeyCnt)
          /\ Loose(w', cnt) \/ OnItsPage(w', cnt)
          => Turning'
  BY <1>7, <1>8, NewWindow
<1>11. Turning => Turning'
  <2>1. w'.pg < PgCount(cnt) => OnItsPage(w', cnt)
    BY <1>8, OnPageIn DEF OnItsPage
  <2> QED BY <1>7, <1>8, <1>9, <1>10, <2>1 DEF Turning, Loose
<1>12. term' \in Terms /\ comp' \in Comps /\ Within(comp')
  <2>1. NoTerm \in Terms
    BY DEF NoTerm, Terms, TermTypes
  <2>2. NoComp \in Comps /\ Within(NoComp)
    BY EmptySeq DEF NoComp, Comps, Within
  <2> QED BY <1>1, <2>1, <2>2 DEF IInv, InShape
<1>13. InShape'
  BY <1>1, <1>7, <1>8, <1>12 DEF IInv, InShape, End
<1>14. TermPlaced' /\ Apart'
  BY <1>1, <1>8 DEF TermPlaced, Apart, Completing
<1> QED BY <1>8, <1>10, <1>11, <1>13, <1>14 DEF IInv, Completing

-----------------------------------------------------------------------------
(* The selection moves.                                                    *)

LEMMA SelectCandidateKeeps ==
  ASSUME IInv, NEW how \in Items, SelectCandidate(how)
  PROVE  IInv' /\ (Turning => Turning')
<1>1. /\ line' = line /\ cur' = cur /\ term' = term /\ hist' = hist /\ others' = others
      /\ status' = "line" /\ status = "line"
      /\ CASE how = "PREV_ITEM" -> PrevCandidate
           [] how = "NEXT_ITEM" -> NextCandidate
           [] how = "GOTO_TOP" -> EndCandidate(w.start)
           [] how = "GOTO_BOTTOM" -> EndCandidate(w.end)
           [] OTHER -> Completing /\ UNCHANGED <<comp, w>>
  BY DEF SelectCandidate, Does
<1>2. /\ how = "PREV_ITEM" => PrevCandidate
      /\ how = "NEXT_ITEM" => NextCandidate
      /\ how = "GOTO_TOP" => EndCandidate(w.start)
      /\ how = "GOTO_BOTTOM" => EndCandidate(w.end)
      /\ how = "GOTO_MIDDLE" => Completing /\ UNCHANGED <<comp, w>>
      /\ how \in {"PREV_ITEM", "NEXT_ITEM", "GOTO_TOP", "GOTO_MIDDLE", "GOTO_BOTTOM"}
  BY <1>1 DEF Items
<1>3. Completing
  BY <1>2 DEF PrevCandidate, NextCandidate, EndCandidate
<1>4. /\ w \in Windows /\ w.mode = "completion" /\ Cnt \in Nat \ {0} /\ Fits(w, Cnt)
      /\ comp \in Comps /\ Within(comp) /\ Cnt = Len(comp.words)
  BY <1>3, Counts DEF IInv, InShape, Completing, Cnt
<1>5. /\ w.start \in Nat /\ w.end \in Nat /\ 1 <= w.start /\ w.start <= w.end /\ w.end <= Cnt
  BY <1>4 DEF Fits, Windows
<1>6. comp.idx \in Nat /\ comp.idx <= Cnt /\ comp.at \in Nat /\ comp.at <= Cnt
  BY <1>4 DEF Comps, Within
<1>7. PICK idx \in 0 .. Cnt, at \in 0 .. Cnt : comp' = [comp EXCEPT !.idx = idx, !.at = at]
  <2>1. \A idx \in 0 .. Cnt : [comp EXCEPT !.idx = idx] = [comp EXCEPT !.idx = idx, !.at = comp.at]
    BY <1>4 DEF Comps
  <2>2. comp.at \in 0 .. Cnt /\ comp.idx \in 0 .. Cnt
    BY <1>4, <1>6
  <2>3. comp = [comp EXCEPT !.idx = comp.idx, !.at = comp.at]
    BY <1>4 DEF Comps
  <2>4. CASE how = "PREV_ITEM"
    <3> DEFINE i == IF ~Shows(w, comp.idx) THEN w.end ELSE Max({1, comp.idx - 1})
    <3>1. comp' = [comp EXCEPT !.idx = i]
      BY <1>2, <2>4 DEF PrevCandidate
    <3>2. Max({1, comp.idx - 1}) = IF 1 >= comp.idx - 1 THEN 1 ELSE comp.idx - 1
      BY <1>6, MaxOfTwo
    <3>3. i \in 0 .. Cnt
      BY <1>4, <1>5, <1>6, <3>2
    <3> HIDE DEF i
    <3> QED BY <2>1, <2>2, <3>1, <3>3
  <2>5. CASE how = "NEXT_ITEM"
    <3> DEFINE i == IF Shows(w, comp.idx) THEN Min({Cnt, comp.idx + 1}) ELSE w.start
               a == IF Shows(w, comp.idx) THEN comp.at ELSE w.start
    <3>1. comp' = [comp EXCEPT !.idx = i, !.at = a]
      BY <1>2, <1>4, <2>5 DEF NextCandidate, Comps
    <3>2. Min({Cnt, comp.idx + 1}) = IF Cnt <= comp.idx + 1 THEN Cnt ELSE comp.idx + 1
      BY <1>4, <1>6, MinOfTwo
    <3>3. i \in 0 .. Cnt /\ a \in 0 .. Cnt
      BY <1>4, <1>5, <1>6, <3>2
    <3> HIDE DEF i, a
    <3> QED BY <3>1, <3>3
  <2>6. CASE how \in {"GOTO_TOP", "GOTO_BOTTOM"}
    <3>1. PICK i \in 0 .. Cnt : EndCandidate(i)
      <4>1. w.start \in 0 .. Cnt /\ w.end \in 0 .. Cnt
        BY <1>4, <1>5
      <4> QED BY <1>2, <2>6, <4>1
    <3>2. comp' = IF comp.idx = i THEN comp ELSE [comp EXCEPT !.idx = i, !.at = i]
      BY <3>1 DEF EndCandidate
    <3> QED BY <2>2, <2>3, <3>2
  <2>7. CASE how = "GOTO_MIDDLE"
    BY <1>2, <2>2, <2>3, <2>7
  <2> QED BY <1>2, <2>4, <2>5, <2>6, <2>7
<1>8. idx \in Nat /\ at \in Nat /\ idx <= Cnt /\ at <= Cnt
  BY <1>4
<1>9. comp' \in Comps /\ comp'.words = comp.words /\ comp'.idx = idx /\ comp'.at = at
  BY <1>4, <1>7, <1>8 DEF Comps
<1>10. Within(comp')
  BY <1>4, <1>8, <1>9 DEF Within
<1>11. w' = w \/ \E turn \in {"next", "prev"} : w' = Paged(turn, w, "completion", Cnt)
  <2>1. CASE how = "PREV_ITEM"
    <3>1. w' = w \/ w' = PrevPage(w, "completion", Cnt)
      BY <1>2, <2>1 DEF PrevCandidate
    <3>2. Paged("prev", w, "completion", Cnt) = PrevPage(w, "completion", Cnt)
      BY DEF Paged
    <3> QED BY <3>1, <3>2
  <2>2. CASE how = "NEXT_ITEM"
    <3>1. w' = w \/ w' = NextPage(w, "completion", Cnt)
      BY <1>2, <2>2 DEF NextCandidate
    <3>2. Paged("next", w, "completion", Cnt) = NextPage(w, "completion", Cnt)
      BY DEF Paged
    <3> QED BY <3>1, <3>2
  <2> QED BY <1>2, <2>1, <2>2 DEF EndCandidate
<1>12. w' \in Windows /\ w'.mode = "completion" /\ Listing' /\ (Turning => Turning')
  <2>1. CASE w' = w
    BY <1>1, <1>4, <1>9, <2>1, KeepsWindow
  <2>2. CASE w' # w
    <3>1. PICK turn \in DOMAIN PageKey : w' = Paged(turn, w, w.mode, Cnt)
      BY <1>4, <1>11, <2>2 DEF PageKey
    <3>2. w.mode \in WindowModes /\ w.mode # "none"
      BY <1>4 DEF WindowModes
    <3>3. w' \in Windows /\ w'.mode = "completion" /\ Fits(w', Cnt)
      BY <1>4, <3>1, <3>2, PagedFits
    <3>4. Cnt = Len(comp'.words)
      BY <1>4, <1>9
    <3>5. /\ Listing'
          /\ others'.keysPg < PgCount(KeyCnt) /\ OnItsPage(w', Cnt) => Turning'
      BY <1>4, <3>3, <3>4, NewWindow
    <3>6. Turning => OnItsPage(w, Cnt)
      BY <1>4, Counts DEF Turning, Loose
    <3>7. OnItsPage(w, Cnt) => OnItsPage(w', Cnt)
      BY <1>4, <3>1, <3>2, PagedTurns
    <3> QED BY <1>1, <3>3, <3>5, <3>6, <3>7 DEF Turning
  <2> QED BY <2>1, <2>2
<1>13. InShape'
  BY <1>1, <1>9, <1>10, <1>12 DEF IInv, InShape, End
<1>14. TermPlaced' /\ Apart'
  BY <1>1, <1>3 DEF IInv, TermPlaced, Apart, End
<1> QED BY <1>12, <1>13, <1>14 DEF IInv

(* The entry that is selected is one of the history, or none.              *)
LEMMA EntryIs ==
  ASSUME IInv, NEW how \in Items
  PROVE  Entry(how) \in 0 .. HistCnt
<1>1. HistCnt \in Nat \ {0} /\ hist \in 0 .. HistCnt
  BY CompleteAssumption DEF IInv, InShape
<1>2. InHistory => /\ w.start \in Nat /\ w.end \in Nat
                   /\ 1 <= w.start /\ w.start <= w.end /\ w.end <= HistCnt
  BY Counts DEF IInv, InShape, Windows, Fits, InHistory
<1>3. Older \in 0 .. HistCnt
  <2> DEFINE from == IF InHistory /\ ~Shows(w, hist) THEN w.end + 1 ELSE hist
  <2>1. from \in 0 .. HistCnt + 1
    BY <1>1, <1>2
  <2>2. Older = IF from = 0 THEN HistCnt ELSE from - 1
    BY DEF Older
  <2> HIDE DEF from
  <2> QED BY <1>1, <2>1, <2>2
<1>4. Newer \in 0 .. HistCnt
  <2> DEFINE from == IF InHistory /\ ~Shows(w, hist) THEN w.start - 1 ELSE hist
  <2>1. from \in Nat
    BY <1>1, <1>2
  <2>2. Newer = (from + 1) % (HistCnt + 1)
    BY DEF Newer
  <2> HIDE DEF from
  <2>3. PICK n \in Nat : n = HistCnt + 1 /\ n > 0
    BY <1>1
  <2>4. PICK m \in Nat : m = from + 1
    BY <2>1
  <2>5. m % n \in 0 .. n - 1
    BY <2>3
  <2> QED BY <1>1, <2>2, <2>3, <2>4, <2>5
<1>5. /\ InHistory => w.start \in 0 .. HistCnt /\ w.end \in 0 .. HistCnt
      /\ (IF InHistory THEN w.start + w.end ELSE HistCnt) \div 2 \in 0 .. HistCnt
  BY <1>1, <1>2
<1>6. how \in {"PREV_ITEM", "NEXT_ITEM", "GOTO_TOP", "GOTO_MIDDLE", "GOTO_BOTTOM"}
  BY DEF Items
<1> QED BY <1>3, <1>4, <1>5, <1>6 DEF Entry

(* The keys of the window: to a line of the history and from page to page. *)
LEMMA SelectEntryKeeps ==
  ASSUME IInv, NEW how \in Items, SelectEntry(how)
  PROVE  IInv' /\ (Turning => Turning') /\ ~Completing' /\ Displays
<1>1. PICK idx \in 0 .. HistCnt : idx = Entry(how)
  BY EntryIs
<1>2. /\ term' = term /\ comp' = comp /\ others' = others /\ status' = "line" /\ status = "line"
      /\ ~Completing /\ Display(idx)
      /\ w' = IF InHistory /\ idx \notin {0, hist} /\ ~Shows(w, idx)
                THEN ShowHistoryIndex(w, HistCnt, idx) ELSE w
  BY <1>1 DEF SelectEntry, Does
<1>3. /\ line' \in Words /\ cur' \in 0 .. End' /\ hist' \in 0 .. HistCnt
      /\ term' \in Terms /\ comp' \in Comps /\ Within(comp')
  BY <1>2, Displayed
<1>4. w \in Windows
  BY DEF IInv, InShape
<1>5. w' \in Windows /\ ~Completing' /\ Listing' /\ (Turning => Turning')
  <2>1. CASE w' = w
    BY <1>2, <1>4, <2>1, KeepsWindow DEF Completing
  <2>2. CASE w' = ShowHistoryIndex(w, HistCnt, idx)
    <3>1. /\ w' \in Windows /\ w'.mode = "history" /\ Listing'
          /\ others'.keysPg < PgCount(KeyCnt) => Turning'
      BY <1>4, <2>2, ShowsHistory
    <3> QED BY <1>2, <3>1 DEF Completing, Turning
  <2> QED BY <1>2, <2>1, <2>2
<1>6. InShape'
  BY <1>2, <1>3, <1>5 DEF IInv, InShape
<1>7. TermPlaced' /\ Apart'
  BY <1>2, <1>5 DEF TermPlaced, Apart
<1>8. Displays
  <2>1. hist' = idx
    BY <1>2 DEF Display
  <2>2. CASE ~(InHistory /\ idx \notin {0, hist} /\ ~Shows(w, idx))
    <3>1. w' = w
      BY <1>2, <2>2
    <3> QED BY <2>1, <2>2, <3>1 DEF Displays, InHistory
  <2>3. CASE w' = ShowHistoryIndex(w, HistCnt, idx)
    BY <1>4, <2>1, <2>3, ShowsHistory DEF Displays
  <2> QED BY <1>2, <2>2, <2>3
<1> QED BY <1>5, <1>6, <1>7, <1>8 DEF IInv

LEMMA GotoEntryKeeps ==
  ASSUME IInv, NEW n \in 1 .. HistCnt, GotoEntry(n)
  PROVE  IInv' /\ (Turning => Turning') /\ ~Completing' /\ Displays
<1>1. PICK idx \in 0 .. HistCnt : idx = n
  BY CompleteAssumption
<1>2. /\ term' = term /\ comp' = comp /\ others' = others /\ status' = "line" /\ status = "line"
      /\ Display(idx)
      /\ w' = ShowHistoryIndex(ShowClear(w), HistCnt, idx)
  BY <1>1 DEF GotoEntry, Does
<1>3. /\ line' \in Words /\ cur' \in 0 .. End' /\ hist' \in 0 .. HistCnt
      /\ term' \in Terms /\ comp' \in Comps /\ Within(comp')
  BY <1>2, Displayed
<1>4. PICK v \in Windows : v = ShowClear(w)
  BY ClearIs DEF IInv, InShape
<1>5. /\ w' \in Windows /\ w'.mode = "history" /\ Listing'
      /\ others'.keysPg < PgCount(KeyCnt) => Turning'
  BY <1>2, <1>4, ShowsHistory
<1>6. InShape'
  BY <1>2, <1>3, <1>5 DEF IInv, InShape
<1>7. TermPlaced' /\ Apart'
  BY <1>2, <1>5 DEF TermPlaced, Apart, Completing
<1>8. Displays
  BY <1>2, <1>4, ShowsHistory DEF Display, Displays
<1> QED BY <1>2, <1>5, <1>6, <1>7, <1>8 DEF IInv, Turning, Completing

-----------------------------------------------------------------------------
(* The window is paged, shown and cleared.                                 *)

LEMMA PageKeeps ==
  ASSUME IInv, NEW how \in DOMAIN PageKey, Page(how)
  PROVE  IInv' /\ (Turning => Turning')
<1>1. /\ line' = line /\ cur' = cur /\ term' = term /\ comp' = comp /\ hist' = hist
      /\ status' = "line" /\ status = "line" /\ w.mode # "none"
      /\ w' = Paged(how, w, w.mode, CntOf(w.mode))
      /\ others' = IF w.mode = "keys" THEN [others EXCEPT !.keysPg = w'.pg] ELSE others
  BY DEF Page, Does
<1>2. PICK cnt \in Nat \ {0} : cnt = CntOf(w.mode) /\ Fits(w, cnt)
  BY <1>1, Counts
<1>3. w \in Windows /\ w.mode \in WindowModes
  BY DEF IInv, InShape, Windows
<1>4. w' \in Windows /\ w'.mode = w.mode /\ Fits(w', cnt)
  BY <1>1, <1>2, <1>3, PagedFits
<1>5. /\ others' \in [keysPg : Nat, help : Nat] /\ others'.help = others.help
      /\ others'.keysPg = IF w.mode = "keys" THEN w'.pg ELSE others.keysPg
  <2>1. w'.pg \in Nat /\ others \in [keysPg : Nat, help : Nat]
    BY <1>4 DEF IInv, InShape, Windows
  <2> QED BY <1>1, <2>1
<1>6. \/ w'.mode = "completion" /\ cnt = Len(comp'.words)
      \/ w'.mode = "history" /\ cnt = HistCnt
      \/ w'.mode = "keys" /\ cnt = KeyCnt
      \/ w'.mode = "help" /\ cnt = others'.help
  BY <1>1, <1>2, <1>3, <1>4, <1>5, Counts DEF WindowModes, Cnt
<1>7. /\ Listing'
      /\ /\ others'.keysPg < PgCount(KeyCnt)
         /\ Loose(w', cnt) \/ OnItsPage(w', cnt)
         => Turning'
  BY <1>4, <1>6, NewWindow
<1>8. Turning => Turning'
  <2> SUFFICES ASSUME Turning PROVE Turning'
    OBVIOUS
  <2>1. CASE Loose(w, others.help)
    BY <1>4, <1>5, <1>6, <1>7, <2>1 DEF Turning, Loose
  <2>2. CASE ~Loose(w, others.help)
    <3>1. OnItsPage(w, cnt)
      BY <1>1, <1>2, <2>2 DEF Turning
    <3>2. w'.pg < PgCount(cnt) /\ OnItsPage(w', cnt)
      BY <1>1, <1>2, <1>3, <3>1, PagedTurns
    <3>3. w.mode = "keys" => cnt = KeyCnt
      BY <1>2, Counts
    <3> QED BY <1>5, <1>7, <3>2, <3>3 DEF Turning
  <2> QED BY <2>1, <2>2
<1>9. InShape'
  BY <1>1, <1>4, <1>5 DEF IInv, InShape, End
<1>10. TermPlaced' /\ Apart'
  BY <1>1, <1>4 DEF IInv, TermPlaced, Apart, Completing, End
<1> QED BY <1>7, <1>8, <1>9, <1>10 DEF IInv

LEMMA PageHistoryKeeps ==
  ASSUME IInv, NEW how \in DOMAIN PageKey, PageHistory(how)
  PROVE  IInv' /\ (Turning => Turning') /\ ~Completing' /\ Displays
<1> DEFINE shown == IF how \in {"start", "next"} THEN StartPage(w, "history", HistCnt)
                                                ELSE EndPage(w, "history", HistCnt)
           idx == IF how \in {"start", "next"} THEN shown.start ELSE shown.end
<1>1. /\ term' = term /\ comp' = comp /\ others' = others
      /\ status' = "line" /\ status = "line"
      /\ IF hist = 0 /\ line = <<>>
           THEN Display(idx) /\ w' = ShowHistoryIndex(shown, HistCnt, idx)
           ELSE w' = shown /\ UNCHANGED <<hist, line, cur>>
  BY DEF PageHistory, Does
<1>2. w \in Windows /\ "history" \in WindowModes /\ HistCnt \in Nat \ {0} /\ hist \in 0 .. HistCnt
  BY CompleteAssumption DEF IInv, InShape, WindowModes
<1>3. /\ shown \in Windows /\ shown.mode = "history" /\ Fits(shown, HistCnt)
      /\ OnPage(shown, HistCnt) /\ shown.pg < PgCount(HistCnt)
  <2>1. shown \in {StartPage(w, "history", HistCnt), EndPage(w, "history", HistCnt)}
    OBVIOUS
  <2> HIDE DEF shown
  <2> QED BY <1>2, <2>1, EndsShow
<1> HIDE DEF shown
<1>4. idx \in 0 .. HistCnt
  BY <1>2, <1>3 DEF Fits, Windows
<1> HIDE DEF idx
<1>5. CASE hist = 0 /\ line = <<>>
  <2>1. Display(idx) /\ w' = ShowHistoryIndex(shown, HistCnt, idx)
    BY <1>1, <1>5
  <2>2. /\ line' \in Words /\ cur' \in 0 .. End' /\ hist' \in 0 .. HistCnt
        /\ term' \in Terms /\ comp' \in Comps /\ Within(comp')
    BY <1>1, <1>4, <2>1, Displayed
  <2>3. /\ w' \in Windows /\ w'.mode = "history" /\ Listing'
        /\ others'.keysPg < PgCount(KeyCnt) => Turning'
    BY <1>3, <1>4, <2>1, ShowsHistory
  <2>4. InShape'
    BY <1>1, <2>2, <2>3 DEF IInv, InShape
  <2>5. TermPlaced' /\ Apart'
    BY <1>1, <2>3 DEF TermPlaced, Apart, Completing
  <2>6. Displays
    BY <1>3, <1>4, <2>1, ShowsHistory DEF Display, Displays
  <2> QED BY <1>1, <2>3, <2>4, <2>5, <2>6 DEF IInv, Turning, Completing
<1>6. CASE ~(hist = 0 /\ line = <<>>)
  <2>1. w' = shown /\ UNCHANGED <<hist, line, cur>>
    BY <1>1, <1>6
  <2>2. OnItsPage(w', HistCnt)
    BY <1>2, <1>3, <2>1, OnPageIn DEF OnItsPage
  <2>3. Listing' /\ (others'.keysPg < PgCount(KeyCnt) => Turning')
    BY <1>2, <1>3, <2>1, <2>2, NewWindow
  <2>4. InShape'
    BY <1>1, <1>3, <2>1 DEF IInv, InShape, End
  <2>5. TermPlaced' /\ Apart'
    BY <1>1, <1>3, <2>1 DEF TermPlaced, Apart, Completing
  <2>6. Displays
    BY <2>1 DEF Displays
  <2> QED BY <1>1, <1>3, <2>1, <2>3, <2>4, <2>5, <2>6 DEF IInv, Turning, Completing
<1> QED BY <1>5, <1>6

LEMMA ShowKeysKeeps ==
  ASSUME IInv, ShowKeys
  PROVE  IInv' /\ (Turning => Turning') /\ ~Completing'
<1>1. /\ line' = line /\ cur' = cur /\ term' = term /\ comp' = comp /\ hist' = hist
      /\ others' = others /\ status' = "line" /\ status = "line"
      /\ w' = ShowLsb([ShowClear(w) EXCEPT !.pg = others.keysPg], "keys", KeyCnt)
  BY DEF ShowKeys, Does
<1>2. /\ w \in Windows /\ others \in [keysPg : Nat, help : Nat] /\ others.keysPg \in Nat
      /\ KeyCnt \in Nat \ {0} /\ "keys" \in WindowModes
  BY CompleteAssumption DEF IInv, InShape, WindowModes
<1>3. PICK u \in Windows : u = ShowClear(w)
  BY <1>2, ClearIs
<1>4. PICK v \in Windows : v = [u EXCEPT !.pg = others.keysPg]
  BY <1>2, Turned
<1>5. v.pg = others.keysPg
  BY <1>2, <1>3, <1>4, Turned
<1>6. /\ w' \in Windows /\ w'.mode = "keys" /\ w'.pg = others.keysPg
      /\ OnPage(w', KeyCnt) /\ Fits(w', KeyCnt)
  <2>1. w' = ShowLsb(v, "keys", KeyCnt)
    BY <1>1, <1>3, <1>4
  <2> QED BY <1>2, <1>5, <2>1, LsbShows
<1>7. /\ Listing'
      /\ others'.keysPg < PgCount(KeyCnt) /\ OnItsPage(w', KeyCnt) => Turning'
  BY <1>2, <1>6, NewWindow
<1>8. Turning => Turning'
  <2> SUFFICES ASSUME Turning PROVE Turning'
    OBVIOUS
  <2>1. w'.pg < PgCount(KeyCnt)
    BY <1>6 DEF Turning
  <2>2. OnItsPage(w', KeyCnt)
    BY <1>2, <1>6, <2>1, OnPageIn DEF OnItsPage
  <2> QED BY <1>1, <1>7, <2>2 DEF Turning
<1>9. InShape'
  BY <1>1, <1>6 DEF IInv, InShape, End
<1>10. TermPlaced' /\ Apart'
  BY <1>1, <1>6 DEF TermPlaced, Apart, Completing
<1> QED BY <1>6, <1>7, <1>8, <1>9, <1>10 DEF IInv, Completing

LEMMA ClearKeeps ==
  ASSUME IInv, Clear \/ FinishLine
  PROVE  IInv' /\ (Turning => Turning')
<1>1. others' = others /\ status' = "line" /\ w' = ShowClear(w)
  BY DEF Clear, FinishLine, Does
<1>2. w' \in Windows /\ w'.mode = "none"
  BY <1>1, ClearIs DEF IInv, InShape
<1>3. Listing' /\ (Turning => Turning')
  BY <1>1, <1>2, NoWindowLeft
<1>4. /\ line' \in Words /\ cur' \in 0 .. End' /\ hist' \in 0 .. HistCnt
      /\ term' \in Terms /\ comp' \in Comps /\ Within(comp')
  <2>1. CASE Clear
    BY <2>1, NotEdited DEF Clear, IInv, InShape
  <2>2. CASE FinishLine
    <3>1. line' = <<>> /\ cur' = 0 /\ term' = NoTerm /\ comp' = NoComp /\ hist' = 0
      BY <2>2 DEF FinishLine
    <3>2. line' \in Words /\ cur' \in 0 .. End' /\ hist' \in 0 .. HistCnt
      BY <3>1, EmptySeq, CompleteAssumption DEF Words, End
    <3>3. NoTerm \in Terms
      BY DEF NoTerm, Terms, TermTypes
    <3>4. NoComp \in Comps /\ Within(NoComp)
      BY EmptySeq DEF NoComp, Comps, Within
    <3> QED BY <3>1, <3>2, <3>3, <3>4
  <2> QED BY <2>1, <2>2
<1>5. InShape'
  BY <1>1, <1>2, <1>4 DEF IInv, InShape
<1>6. TermPlaced' /\ Apart'
  BY <1>1, <1>2 DEF TermPlaced, Apart, Completing
<1> QED BY <1>3, <1>5, <1>6 DEF IInv

-----------------------------------------------------------------------------
(* The type invariant.                                                     *)

LEMMA InitShape == Init => IInv /\ Turning
<1> SUFFICES ASSUME Init PROVE IInv /\ Turning
  OBVIOUS
<1>1. /\ line = <<>> /\ cur = 0 /\ term = NoTerm /\ comp = NoComp /\ w = NoWindow /\ hist = 0
      /\ others = NotPaged /\ status = "line"
  BY DEF Init
<1>2. line \in Words /\ End = 0
  BY <1>1, EmptySeq DEF Words, End
<1>3. term \in Terms
  BY <1>1 DEF NoTerm, Terms, TermTypes
<1>4. comp \in Comps /\ Within(comp)
  <2>1. <<>> \in Seq(Words) /\ Len(<<>>) = 0
    BY EmptySeq
  <2> QED BY <1>1, <2>1 DEF NoComp, Comps, Within
<1>5. w \in Windows /\ w.mode = "none"
  BY <1>1 DEF NoWindow, Windows, WindowModes
<1>6. others \in [keysPg : Nat, help : Nat] /\ others.keysPg < PgCount(KeyCnt)
  <2>1. PICK n \in Nat \ {0} : n = KeyCnt
    BY CompleteAssumption
  <2>2. PICK q \in Nat : q = PgCount(KeyCnt) /\ n <= q * Lines
    BY <2>1, PgCountIs
  <2>3. q # 0
    BY <2>2, LinesAssumption
  <2> QED BY <1>1, <2>2, <2>3 DEF NotPaged
<1>7. InShape
  BY <1>1, <1>2, <1>3, <1>4, <1>5, <1>6, CompleteAssumption DEF InShape
<1>8. TermPlaced /\ Apart /\ Listing
  BY <1>1, <1>5 DEF TermPlaced, Apart, Listing, Completing
<1> QED BY <1>5, <1>6, <1>7, <1>8 DEF IInv, Turning

(* So the invariant is inductive, and it has the types.                    *)
LEMMA NextKeeps ==
  ASSUME TypesInTerm, IInv, [Next]_vars
  PROVE  IInv' /\ (Turning => Turning')
<1>1. CASE UNCHANGED vars
  <2>1. /\ line' = line /\ cur' = cur /\ term' = term /\ comp' = comp /\ w' = w /\ hist' = hist
        /\ others' = others /\ status' = status
    BY <1>1 DEF vars
  <2>2. Listing' /\ (Turning => Turning')
    BY <2>1, KeepsWindow
  <2>3. InShape' /\ TermPlaced' /\ Apart'
    BY <2>1 DEF IInv, InShape, TermPlaced, Apart, Completing, End
  <2> QED BY <2>2, <2>3 DEF IInv
<1>2. CASE Next
  <2>1. CASE \E char \in Typed : InsertChar(char)
    BY <2>1, InsertCharKeeps
  <2>2. CASE GoLeft \/ GoRight
    BY <2>2, GoLeftKeeps, GoRightKeeps
  <2>3. CASE \E type \in Types : \E action \in ActionOf(type) : StartCompletion(type, action)
    BY <2>3, StartCompletionKeeps
  <2>4. CASE \E action \in Tabs : TabAcceptHistory(action) \/ TabNext(action)
    BY <2>4, TabAcceptHistoryKeeps, TabNextKeeps
  <2>5. CASE \E words \in Lists :
               \/ \E added \in BOOLEAN : CompleteTerm(words, added)
               \/ CompleteHistory(words)
    BY <2>5, CompleteTermKeeps, CompleteHistoryKeeps
  <2>6. CASE \E words \in Helps : CompleteHelp(words)
    BY <2>6, CompleteHelpKeeps
  <2>7. CASE \E how \in Items : SelectCandidate(how) \/ SelectEntry(how)
    BY <2>7, SelectCandidateKeeps, SelectEntryKeeps
  <2>8. CASE \E n \in 1 .. HistCnt : GotoEntry(n)
    BY <2>8, GotoEntryKeeps
  <2>9. CASE \E how \in DOMAIN PageKey : Page(how) \/ PageHistory(how)
    BY <2>9, PageKeeps, PageHistoryKeeps
  <2>10. CASE ShowKeys \/ Clear \/ FinishLine
    BY <2>10, ShowKeysKeeps, ClearKeeps
  <2> QED
    BY <1>2, <2>1, <2>2, <2>3, <2>4, <2>5, <2>6, <2>7, <2>8, <2>9, <2>10 DEF Next
<1> QED BY <1>1, <1>2

LEMMA ShapeIsTyped == IInv => TypeOK
<1> SUFFICES ASSUME IInv PROVE TypeOK
  OBVIOUS
<1>1. /\ cur \in 0 .. End /\ term \in Terms /\ comp \in Comps /\ Within(comp) /\ w \in Windows
      /\ hist \in 0 .. HistCnt
      /\ Completing \/ status = "complete" => term.off + term.len <= End
  BY DEF IInv, InShape, TermPlaced
<1>2. comp.at \in 0 .. Cnt /\ comp.idx \in 0 .. Cnt
  <2>1. Cnt \in Nat
    BY Counts
  <2> QED BY <1>1, <2>1 DEF Comps, Within, Cnt
<1>3. term.quote \in 0 .. 3
  BY <1>1 DEF Terms
<1>4. ASSUME w.mode # "none"
      PROVE  1 <= w.start /\ w.start <= w.end /\ w.end <= CntOf(w.mode) /\ w.end < w.start + Lines
  <2>1. PICK cnt \in Nat \ {0} : cnt = CntOf(w.mode) /\ Fits(w, cnt)
    BY <1>4, Counts
  <2>2. w.start \in Int /\ w.end \in Int
    BY <1>1 DEF Windows
  <2> QED BY <2>1, <2>2, LinesAssumption DEF Fits
<1> QED BY <1>1, <1>2, <1>3, <1>4 DEF TypeOK

(* The cursor, the selection and, while it is completed, the term stay     *)
(* where they can be, and a window shows lines of its list, no more than   *)
(* it has room for (complete.cpp, dispatch.cpp).                           *)
THEOREM TypeCorrect ==
  ASSUME TypesInTerm
  PROVE  Spec => []TypeOK
<1>1. Init => IInv
  BY InitShape
<1>2. IInv /\ [Next]_vars => IInv'
  BY NextKeeps
<1>3. IInv => TypeOK
  BY ShapeIsTyped
<1> QED BY <1>1, <1>2, <1>3, PTL DEF Spec

-----------------------------------------------------------------------------
(* Paging shows every line.                                                *)

(* The key that started a completion is the last one until it is done.     *)
Starting == status = "complete" => key \in {"TAB_COMPLETE", "TAB_REVERSE", "SHOW", "SHOW_HELP"}

(* A completion is asked for by the keys that do so.                       *)
LEMMA StartingKept ==
  ASSUME Starting, [Next]_vars
  PROVE  Starting'
<1>1. CASE UNCHANGED vars
  BY <1>1 DEF vars, Starting
<1>2. ASSUME NEW action, Does(action) PROVE Starting'
  BY <1>2 DEF Does, Starting
<1>3. ASSUME Completes PROVE Starting'
  BY <1>3 DEF Completes, Starting
<1>4. ASSUME NEW type \in Types, NEW action \in ActionOf(type), StartCompletion(type, action)
      PROVE  Starting'
  BY <1>4 DEF StartCompletion, ActionOf, Starting
<1>5. CASE Next
  BY <1>2, <1>3, <1>4, <1>5
     DEF Next, InsertChar, GoLeft, GoRight, TabAcceptHistory, TabNext, CompleteTerm, CompleteHistory,
         CompleteHelp, SelectCandidate, SelectEntry, GotoEntry, Page, PageHistory, ShowKeys, Clear,
         FinishLine
<1> QED BY <1>1, <1>5

(* Only paging is called paging.                                           *)
LEMMA PagesOnly ==
  ASSUME Starting, Next, w.mode # "none", NEW how \in DOMAIN PageKey, key' = PageKey[how]
  PROVE  Page(how)
<1>1. /\ how \in {"next", "prev", "start", "end"}
      /\ PageKey["next"] = "SHOW_NEXT_PAGE" /\ PageKey["prev"] = "SHOW_PREV_PAGE"
      /\ PageKey["start"] = "GOTO_FIRST_ENTRY" /\ PageKey["end"] = "GOTO_LAST_ENTRY"
      /\ DOMAIN PageKey = {"next", "prev", "start", "end"}
  BY DEF PageKey
<1>2. key' \in {"SHOW_NEXT_PAGE", "SHOW_PREV_PAGE", "GOTO_FIRST_ENTRY", "GOTO_LAST_ENTRY"}
  BY <1>1
<1>3. CASE \E char \in Typed : InsertChar(char)
  <2>1. PICK char \in Typed : key' = char
    BY <1>3 DEF InsertChar, Does
  <2>2. char \notin Actions
    BY CompleteAssumption
  <2> QED BY <1>2, <2>1, <2>2 DEF Actions
<1>4. CASE GoLeft \/ GoRight \/ ShowKeys \/ Clear \/ FinishLine
  BY <1>2, <1>4 DEF GoLeft, GoRight, ShowKeys, Clear, FinishLine, Does
<1>5. CASE \E type \in Types : \E action \in ActionOf(type) : StartCompletion(type, action)
  BY <1>2, <1>5 DEF StartCompletion, ActionOf
<1>6. CASE \E action \in Tabs : TabAcceptHistory(action) \/ TabNext(action)
  BY <1>2, <1>6 DEF TabAcceptHistory, TabNext, Tabs, Does
<1>7. CASE Completes
  BY <1>2, <1>7 DEF Completes, Starting
<1>8. CASE \E h \in Items : SelectCandidate(h) \/ SelectEntry(h)
  BY <1>2, <1>8 DEF SelectCandidate, SelectEntry, Items, Does
<1>9. CASE \E n \in 1 .. HistCnt : GotoEntry(n)
  BY <1>2, <1>9 DEF GotoEntry, Does
<1>10. CASE \E h \in DOMAIN PageKey : Page(h) \/ PageHistory(h)
  <2>1. PICK h \in DOMAIN PageKey : Page(h)
    BY <1>10 DEF PageHistory
  <2>2. key' = PageKey[h]
    BY <2>1 DEF Page, Does
  <2>3. h = how
    BY <1>1, <2>2
  <2> QED BY <2>1, <2>3
<1> QED
  BY <1>3, <1>4, <1>5, <1>6, <1>7, <1>8, <1>9, <1>10
     DEF Next, CompleteTerm, CompleteHistory, CompleteHelp

(* A window on its page, as paging finds it.                               *)
LEMMA PageTurned ==
  ASSUME "upOffPage" \notin Habits, "helpAgain" \notin Habits, IInv, Turning,
         NEW how \in {"next", "prev"}, Page(how)
  PROVE  /\ how = "next" => w'.start <= w.end + 1 /\ (w'.end > w.end \/ w.end = CntOf(w.mode))
         /\ how = "prev" => w'.end >= w.start - 1 /\ (w'.start < w.start \/ w.start = 1)
<1>1. /\ w.mode # "none" /\ w' = Paged(how, w, w.mode, CntOf(w.mode))
      /\ how = "prev" /\ Completing => OnPageUp
  BY DEF Page
<1>2. PICK cnt \in Nat \ {0} : cnt = CntOf(w.mode) /\ Fits(w, cnt)
  BY <1>1, Counts
<1>3. w \in Windows /\ w.mode \in WindowModes /\ how \in DOMAIN PageKey
  BY DEF IInv, InShape, Windows, PageKey
<1>4. w' \in Windows /\ Fits(w', cnt)
  BY <1>1, <1>2, <1>3, PagedFits
<1>5. CASE Loose(w, others.help)
  <2>1. cnt = 1
    BY <1>2, <1>5, Counts DEF Loose
  <2>2. w.start \in Int /\ w.end \in Int /\ w'.start \in Int /\ w'.end \in Int
    BY <1>3, <1>4 DEF Windows
  <2> QED BY <1>2, <1>4, <2>1, <2>2 DEF Fits
<1>6. CASE ~Loose(w, others.help)
  <2>1. OnItsPage(w, cnt)
    BY <1>1, <1>2, <1>6 DEF Turning
  <2>2. CASE how = "next"
    <3>1. w' = NextPage(w, w.mode, cnt)
      BY <1>1, <1>2, <2>2 DEF Paged
    <3>2. InPage(w, cnt)
      BY <2>1 DEF OnItsPage
    <3>3. w'.start <= w.end + 1 /\ (w'.end > w.end \/ w.end = cnt)
      BY <1>2, <1>3, <3>1, <3>2, NextShows
    <3> QED BY <1>2, <2>2, <3>3
  <2>3. CASE how = "prev"
    <3>1. w' = PrevPage(w, w.mode, cnt)
      BY <1>1, <1>2, <2>3 DEF Paged
    <3>2. w.pg < PgCount(cnt) /\ OnPage(w, cnt)
      BY <1>1, <1>2, <2>1, <2>3, Counts DEF OnItsPage, OnPageUp, Completing
    <3>3. w'.end >= w.start - 1 /\ (w'.start < w.start \/ w.start = 1)
      BY <1>2, <1>3, <3>1, <3>2, PrevShows
    <3> QED BY <2>3, <3>3
  <2> QED BY <2>2, <2>3
<1> QED BY <1>5, <1>6

(* From page to page every line of the list is shown, and a page key goes  *)
(* on until its end, when a page is left upwards only where it begins (the *)
(* show_ functions of linecook.cpp).                                       *)
THEOREM NoLineSkipped ==
  ASSUME TypesInTerm, "upOffPage" \notin Habits, "helpAgain" \notin Habits
  PROVE  Spec => NothingSkipped
<1> DEFINE I == IInv /\ Turning /\ Starting
           Turns == w.mode # "none" /\ w'.mode = w.mode =>
             /\ key' = "SHOW_NEXT_PAGE" =>
                  w'.start <= w.end + 1 /\ (w'.end > w.end \/ w.end = CntOf(w.mode))
             /\ key' = "SHOW_PREV_PAGE" =>
                  w'.end >= w.start - 1 /\ (w'.start < w.start \/ w.start = 1)
<1>1. Init => I
  BY InitShape DEF Init, Starting
<1>2. I /\ [Next]_vars => I'
  BY NextKeeps, StartingKept
<1>3. I /\ [Next]_vars => [Turns]_vars
  <2> SUFFICES ASSUME I, Next, w.mode # "none" PROVE Turns
    BY DEF Turns
  <2>1. /\ "next" \in DOMAIN PageKey /\ PageKey["next"] = "SHOW_NEXT_PAGE"
        /\ "prev" \in DOMAIN PageKey /\ PageKey["prev"] = "SHOW_PREV_PAGE"
    BY DEF PageKey
  <2>2. CASE key' = "SHOW_NEXT_PAGE"
    <3>1. Page("next")
      BY <2>1, <2>2, PagesOnly
    <3>2. w'.start <= w.end + 1 /\ (w'.end > w.end \/ w.end = CntOf(w.mode))
      BY <3>1, PageTurned
    <3> QED BY <2>2, <3>2
  <2>3. CASE key' = "SHOW_PREV_PAGE"
    <3>1. Page("prev")
      BY <2>1, <2>3, PagesOnly
    <3>2. w'.end >= w.start - 1 /\ (w'.start < w.start \/ w.start = 1)
      BY <3>1, PageTurned
    <3> QED BY <2>3, <3>2
  <2> QED BY <2>2, <2>3
<1>4. NothingSkipped <=> [][Turns]_vars
  BY DEF NothingSkipped
<1> HIDE DEF I, Turns
<1> QED BY <1>1, <1>2, <1>3, <1>4, PTL DEF Spec

-----------------------------------------------------------------------------
(* What is selected is in the window.                                      *)

(* While a candidate is selected at is set, but for one of the habits.     *)
Found == Completing /\ comp.idx # 0 => comp.at # 0

(* The candidate to which a key moves the selection is in the window.      *)
Marked == Completing /\ w'.mode = "completion" /\ comp'.idx # comp.idx => Shows(w', comp'.idx)

(* What is typed, TAB and the keys of the window keep the candidate that   *)
(* they select in the window.                                              *)
LEMMA InsertCharMarks ==
  ASSUME TypesInTerm, IInv, Found, NEW char \in Typed, InsertChar(char)
  PROVE  Found' /\ Marked
<1>1. others' = others /\ w \in Windows
  BY DEF InsertChar, IInv, InShape
<1>2. CASE ~Completing
  <2>1. w' = w
    BY <1>2, TypedIs
  <2> QED BY <1>2, <2>1 DEF Found, Marked, Completing
<1>3. CASE Completing
  <2>1. PICK f \in Edits :
          /\ Sound(f) /\ Edited(f)
          /\ f.comp # NoComp => f.comp.words = comp.words /\ f.comp.idx # 0 /\ f.comp.at # 0
          /\ w' = IF f.comp = NoComp THEN ShowClear(w)
                  ELSE Follow(comp.words, comp.idx, f.comp.idx)
    BY <1>3, TypedIs
  <2>2. comp' = f.comp
    BY <2>1 DEF Edited
  <2>3. CASE f.comp = NoComp
    <3>1. w'.mode = "none"
      BY <1>1, <2>1, <2>3, ClearIs
    <3> QED BY <3>1 DEF Found, Marked, Completing
  <2>4. CASE f.comp # NoComp
    <3>1. PICK i \in 0 .. Cnt : i = f.comp.idx
      <4>1. Cnt \in Nat /\ Cnt = Len(comp.words)
        BY Counts DEF Cnt
      <4>2. f.comp.idx \in Nat /\ f.comp.idx <= Cnt
        BY <2>1, <2>4, <4>1 DEF Edits, Comps, Sound, Within
      <4> QED BY <4>1, <4>2
    <3>2. w' = Follow(comp.words, comp.idx, i) /\ comp'.words = comp.words
      BY <2>1, <2>2, <2>4, <3>1
    <3>3. i # 0 /\ i # comp.idx => Shows(w', i)
      BY <1>1, <1>3, <3>2, Follows
    <3> QED BY <2>1, <2>2, <2>4, <3>1, <3>3 DEF Found, Marked
  <2> QED BY <2>3, <2>4
<1> QED BY <1>2, <1>3

LEMMA TabNextMarks ==
  ASSUME IInv, Found, NEW action, TabNext(action)
  PROVE  Found' /\ Marked
<1>1. others' = others /\ Completing
  BY DEF TabNext
<1>2. PICK f \in Edits :
        /\ Edited(f)
        /\ f.comp.words = comp.words /\ f.comp.idx \in 1 .. Cnt
        /\ f.comp.at = IF comp.idx = 0 THEN 1 ELSE comp.at
        /\ f.comp.at # 0 => w' = Follow(comp.words, comp.idx, f.comp.idx)
  BY TabNextIs
<1>3. comp' = f.comp /\ f.comp.at # 0
  BY <1>1, <1>2 DEF Edited, Found
<1>4. PICK i \in 0 .. Cnt : i = f.comp.idx /\ i # 0
  <2>1. Cnt \in Nat
    BY Counts
  <2> QED BY <1>2, <2>1
<1>5. w' = Follow(comp.words, comp.idx, i) /\ comp'.words = comp.words
  BY <1>2, <1>3, <1>4
<1>6. i # comp.idx => Shows(w', i)
  BY <1>1, <1>4, <1>5, Follows
<1> QED BY <1>3, <1>4, <1>6 DEF Found, Marked

(* The selection moves up and down in the page, and from page to page.     *)
LEMMA SelectCandidateMarks ==
  ASSUME {"upAtNone", "upOffPage"} \cap Habits = {}, IInv, Turning, Found,
         NEW how \in Items, SelectCandidate(how)
  PROVE  Found' /\ Marked
<1>1. CASE how = "PREV_ITEM" /\ PrevCandidate
  <2> DEFINE idx == IF ~Shows(w, comp.idx) THEN w.end ELSE Max({1, comp.idx - 1})
  <2>1. /\ Completing /\ comp.at # 0 /\ OnPage(w, Cnt)
        /\ comp' = [comp EXCEPT !.idx = idx]
        /\ w' = IF Shows(w, idx) THEN w ELSE PrevPage(w, "completion", Cnt)
    BY <1>1 DEF PrevCandidate, NoneFoundUp, OnPageUp
  <2>2. PICK cnt \in Nat \ {0} : cnt = Cnt /\ Fits(w, cnt) /\ OnPage(w, cnt)
    BY <2>1, Counts DEF Completing
  <2>3. /\ w \in Windows /\ comp \in Comps /\ comp.idx \in Nat
        /\ w.start \in Int /\ w.end \in Int /\ 1 <= w.start /\ w.start <= w.end
    BY <2>2 DEF IInv, InShape, Windows, Comps, Fits
  <2>4. PICK i \in Nat : i = idx /\ (Shows(w, i) \/ i = w.start - 1) /\ i # 0
    <3>1. Max({1, comp.idx - 1}) = IF 1 >= comp.idx - 1 THEN 1 ELSE comp.idx - 1
      BY <2>3, MaxOfTwo
    <3>2. Shows(w, comp.idx) <=> w.start <= comp.idx /\ comp.idx <= w.end
      BY <2>3 DEF Shows
    <3>3. idx \in Nat /\ idx # 0 /\ ((w.start <= idx /\ idx <= w.end) \/ idx = w.start - 1)
      BY <2>3, <3>1, <3>2
    <3> HIDE DEF idx
    <3> QED BY <2>3, <3>3 DEF Shows
  <2> HIDE DEF idx
  <2>5. comp'.at = comp.at /\ comp'.idx = i
    BY <2>1, <2>3, <2>4 DEF Comps
  <2>6. Shows(w', i)
    <3>1. CASE Shows(w, i)
      BY <2>1, <2>4, <3>1
    <3>2. CASE ~Shows(w, i)
      <4>1. w' = PrevPage(w, "completion", cnt)
        BY <2>1, <2>2, <2>4, <3>2
      <4>2. w.pg < PgCount(cnt)
        BY <2>1, <2>2, Counts DEF Turning, Loose, OnItsPage, Completing
      <4>3. /\ w' \in Windows
            /\ w'.end >= w.start - 1 /\ (w'.start < w.start \/ w.start = 1)
        BY <2>2, <2>3, <4>1, <4>2, PrevShows DEF WindowModes
      <4>4. i = w.start - 1 /\ w.start # 1
        BY <2>3, <2>4, <3>2
      <4> QED BY <2>3, <4>3, <4>4 DEF Shows, Windows
    <3> QED BY <3>1, <3>2
  <2> QED BY <2>1, <2>5, <2>6 DEF Found, Marked
<1>2. CASE how = "NEXT_ITEM" /\ NextCandidate
  <2> DEFINE on == Shows(w, comp.idx)
             idx == IF on THEN Min({Cnt, comp.idx + 1}) ELSE w.start
  <2>1. /\ Completing
        /\ comp' = [comp EXCEPT !.idx = idx, !.at = IF on THEN @ ELSE w.start]
        /\ w' = IF Shows(w, idx) THEN w ELSE NextPage(w, "completion", Cnt)
    BY <1>2 DEF NextCandidate
  <2>2. PICK cnt \in Nat \ {0} : cnt = Cnt /\ Fits(w, cnt)
    BY <2>1, Counts DEF Completing
  <2>3. /\ w \in Windows /\ comp \in Comps /\ comp.idx \in Nat /\ comp.at \in Nat
        /\ w.start \in Int /\ w.end \in Int /\ 1 <= w.start /\ w.start <= w.end /\ w.end <= cnt
    BY <2>2 DEF IInv, InShape, Windows, Comps, Fits
  <2>4. PICK i \in Nat : i = idx /\ (Shows(w, i) \/ (i = w.end + 1 /\ i <= cnt)) /\ i # 0
    <3>1. Min({cnt, comp.idx + 1}) = IF cnt <= comp.idx + 1 THEN cnt ELSE comp.idx + 1
      BY <2>3, MinOfTwo
    <3>2. on <=> w.start <= comp.idx /\ comp.idx <= w.end
      BY <2>3 DEF Shows
    <3>3. /\ idx \in Nat /\ idx # 0
          /\ (w.start <= idx /\ idx <= w.end) \/ (idx = w.end + 1 /\ idx <= cnt)
      BY <2>2, <2>3, <3>1, <3>2
    <3> HIDE DEF idx
    <3> QED BY <2>3, <3>3 DEF Shows
  <2>5. comp'.at # 0 /\ comp'.idx = i
    <3>1. on => comp.idx # 0
      BY <2>3 DEF Shows
    <3>2. on => comp.at # 0
      BY <2>1, <3>1 DEF Found
    <3>3. comp'.idx = idx /\ comp'.at = IF on THEN comp.at ELSE w.start
      <4> HIDE DEF idx, on
      <4> QED BY <2>1, <2>3 DEF Comps
    <3> QED BY <2>3, <2>4, <3>2, <3>3
  <2> HIDE DEF idx, on
  <2>6. Shows(w', i)
    <3>1. CASE Shows(w, i)
      BY <2>1, <2>4, <3>1
    <3>2. CASE ~Shows(w, i)
      <4>1. w' = NextPage(w, "completion", cnt)
        BY <2>1, <2>2, <2>4, <3>2
      <4>2. InPage(w, cnt)
        BY <2>1, <2>2, Counts DEF Turning, Loose, OnItsPage, Completing
      <4>3. /\ w' \in Windows
            /\ w'.start <= w.end + 1 /\ (w'.end > w.end \/ w.end = cnt)
        BY <2>2, <2>3, <4>1, <4>2, NextShows DEF WindowModes
      <4>4. i = w.end + 1 /\ w.end # cnt
        BY <2>3, <2>4, <3>2
      <4> QED BY <2>3, <4>3, <4>4 DEF Shows, Windows
    <3> QED BY <3>1, <3>2
  <2> QED BY <2>5, <2>6 DEF Found, Marked
<1>3. CASE \E idx \in {w.start, w.end} : EndCandidate(idx)
  <2>1. PICK idx \in {w.start, w.end} : EndCandidate(idx)
    BY <1>3
  <2>2. /\ Completing /\ w' = w
        /\ comp' = IF comp.idx = idx THEN comp ELSE [comp EXCEPT !.idx = idx, !.at = idx]
    BY <2>1 DEF EndCandidate
  <2>3. Fits(w, Cnt) /\ w \in Windows /\ comp \in Comps
    BY <2>2, Counts DEF Completing, IInv, InShape
  <2>4. Shows(w, idx) /\ idx # 0
    BY <2>1, <2>3 DEF Shows, Fits, Windows
  <2>5. comp' = comp \/ (comp'.idx = idx /\ comp'.at = idx)
    BY <2>2, <2>3 DEF Comps
  <2> QED BY <2>2, <2>4, <2>5 DEF Found, Marked
<1>4. CASE UNCHANGED <<comp, w>>
  BY <1>4 DEF Found, Marked, Completing
<1> QED BY <1>1, <1>2, <1>3, <1>4 DEF SelectCandidate, Items

(* No other key moves the selection in a window of candidates.             *)
LEMMA OtherMarks ==
  ASSUME IInv, Found,
         \/ GoLeft \/ GoRight
         \/ \E type \in Types : \E action \in ActionOf(type) : StartCompletion(type, action)
         \/ \E action \in Tabs : TabAcceptHistory(action)
         \/ \E words \in Lists :
              \/ \E added \in BOOLEAN : CompleteTerm(words, added)
              \/ CompleteHistory(words)
         \/ \E words \in Helps : CompleteHelp(words)
         \/ \E how \in Items : SelectEntry(how)
         \/ \E n \in 1 .. HistCnt : GotoEntry(n)
         \/ \E how \in DOMAIN PageKey : Page(how) \/ PageHistory(how)
         \/ ShowKeys \/ Clear \/ FinishLine
  PROVE  Found' /\ Marked
<1>1. w \in Windows /\ w.mode \in WindowModes
  BY DEF IInv, InShape, Windows
<1>2. \/ comp' = comp /\ (Completing' => Completing)
      \/ ~Completing'
      \/ ~Completing /\ comp'.idx = 0
  <2>1. CASE \/ GoLeft \/ GoRight
             \/ \E type \in Types : \E action \in ActionOf(type) : StartCompletion(type, action)
    <3>1. w' = Uncompleting \/ w' = ShowClear(w)
      BY <2>1 DEF GoLeft, GoRight, StartCompletion
    <3> QED BY <1>1, <3>1, Uncompleted, ClearIs DEF Completing
  <2>2. CASE (\E action \in Tabs : TabAcceptHistory(action)) \/ Clear \/ FinishLine
    <3>1. w' = ShowClear(w)
      BY <2>2 DEF TabAcceptHistory, Clear, FinishLine
    <3> QED BY <1>1, <3>1, ClearIs DEF Completing
  <2>3. CASE \E words \in Lists : \E added \in BOOLEAN : CompleteTerm(words, added)
    <3>1. comp'.idx = 0
      BY <2>3, CompleteTermKeeps
    <3>2. ~Completing
      BY <2>3 DEF CompleteTerm, Completes, IInv, Apart
    <3> QED BY <3>1, <3>2
  <2>4. CASE \E words \in Lists : CompleteHistory(words)
    <3>1. ~Completing /\ HistCnt \in Nat \ {0} /\ hist \in 0 .. HistCnt
      BY <2>4, CompleteAssumption DEF CompleteHistory, Completes, IInv, Apart, InShape
    <3>2. PICK v \in Windows : v = ShowClear(w)
      BY <1>1, ClearIs
    <3>3. w' = w \/ w' = ShowHistoryIndex(v, HistCnt, hist)
      BY <2>4, <3>2 DEF CompleteHistory
    <3>4. w' = w \/ w'.mode = "history"
      BY <3>1, <3>3, ShowsHistory
    <3> QED BY <3>1, <3>4 DEF Completing
  <2>5. CASE \E words \in Helps : CompleteHelp(words)
    BY <2>5, CompleteHelpKeeps
  <2>6. CASE \E how \in Items : SelectEntry(how)
    BY <2>6, SelectEntryKeeps
  <2>7. CASE \E n \in 1 .. HistCnt : GotoEntry(n)
    BY <2>7, GotoEntryKeeps
  <2>8. CASE \E how \in DOMAIN PageKey : Page(how)
    <3>1. PICK how \in DOMAIN PageKey : Page(how)
      BY <2>8
    <3>2. w.mode # "none" /\ comp' = comp /\ w' = Paged(how, w, w.mode, CntOf(w.mode))
      BY <3>1 DEF Page
    <3>3. PICK cnt \in Nat \ {0} : cnt = CntOf(w.mode)
      BY <3>2, Counts
    <3>4. w'.mode = w.mode
      BY <1>1, <3>2, <3>3, PagedFits
    <3> QED BY <3>2, <3>4 DEF Completing
  <2>9. CASE \E how \in DOMAIN PageKey : PageHistory(how)
    BY <2>9, PageHistoryKeeps
  <2>10. CASE ShowKeys
    BY <2>10, ShowKeysKeeps
  <2> QED BY <2>1, <2>2, <2>3, <2>4, <2>5, <2>6, <2>7, <2>8, <2>9, <2>10
<1> QED BY <1>2 DEF Found, Marked, Completing

(* The line of the history or the candidate to which a key moves the       *)
(* selection is in the window: it follows the selection, and pages when    *)
(* that goes beyond it (completion_next, history_move and others).         *)
THEOREM SelectionShown ==
  ASSUME TypesInTerm, {"upAtNone", "upOffPage"} \cap Habits = {}
  PROVE  Spec => MarkedShown
<1> DEFINE I == IInv /\ Turning /\ Found
           ShowsIt ==
             /\ Completing /\ w'.mode = "completion" /\ comp'.idx # comp.idx => Shows(w', comp'.idx)
             /\ w'.mode = "history" /\ hist' \notin {0, hist} => Shows(w', hist')
<1>1. Init => I
  BY InitShape DEF Init, Found, NoComp
<1>2. I /\ Next => Found' /\ Marked /\ Displays
  <2> SUFFICES ASSUME I, Next PROVE Found' /\ Marked /\ Displays
    OBVIOUS
  <2>1. Found' /\ Marked
    <3>1. CASE \E char \in Typed : InsertChar(char)
      BY <3>1, InsertCharMarks
    <3>2. CASE \E action \in Tabs : TabNext(action)
      BY <3>2, TabNextMarks
    <3>3. CASE \E how \in Items : SelectCandidate(how)
      BY <3>3, SelectCandidateMarks
    <3> QED BY <3>1, <3>2, <3>3, OtherMarks DEF Next
  <2>2. Displays
    <3>1. CASE \E how \in Items : SelectEntry(how)
      BY <3>1, SelectEntryKeeps
    <3>2. CASE \E n \in 1 .. HistCnt : GotoEntry(n)
      BY <3>2, GotoEntryKeeps
    <3>3. CASE \E how \in DOMAIN PageKey : PageHistory(how)
      BY <3>3, PageHistoryKeeps
    <3>4. CASE hist' = hist \/ hist' = 0
      BY <3>4 DEF Displays
    <3>5. (\E char \in Typed : InsertChar(char)) => hist' = hist
      BY DEF InsertChar
    <3>6. GoLeft \/ GoRight => hist' = hist
      BY DEF GoLeft, GoRight
    <3>7. (\E type \in Types : \E action \in ActionOf(type) : StartCompletion(type, action))
            => hist' = hist
      BY DEF StartCompletion
    <3>8. (\E action \in Tabs : TabAcceptHistory(action) \/ TabNext(action)) => hist' = hist
      BY DEF TabAcceptHistory, TabNext
    <3>9. (\E words \in Lists :
             \/ \E added \in BOOLEAN : CompleteTerm(words, added)
             \/ CompleteHistory(words)) => hist' = hist
      BY DEF CompleteTerm, CompleteHistory
    <3>10. (\E words \in Helps : CompleteHelp(words)) => hist' = hist
      BY DEF CompleteHelp
    <3>11. (\E how \in Items : SelectCandidate(how)) => hist' = hist
      BY DEF SelectCandidate
    <3>12. (\E how \in DOMAIN PageKey : Page(how)) => hist' = hist
      BY DEF Page
    <3>13. ShowKeys \/ Clear \/ FinishLine => hist' = hist \/ hist' = 0
      BY DEF ShowKeys, Clear, FinishLine
    <3> QED BY <3>1, <3>2, <3>3, <3>4, <3>5, <3>6, <3>7, <3>8, <3>9, <3>10, <3>11, <3>12, <3>13 DEF Next
  <2> QED BY <2>1, <2>2
<1>3. I /\ [Next]_vars => I'
  <2>1. I /\ UNCHANGED vars => Found'
    BY DEF vars, Found, Completing
  <2> QED BY <1>2, <2>1, NextKeeps
<1>4. I /\ [Next]_vars => [ShowsIt]_vars
  BY <1>2 DEF Marked, Displays
<1>5. MarkedShown <=> [][ShowsIt]_vars
  BY DEF MarkedShown
<1> HIDE DEF I, ShowsIt
<1> QED BY <1>1, <1>3, <1>4, <1>5, PTL DEF Spec

-----------------------------------------------------------------------------
(* A completion changes nothing but the term.                              *)

LEMMA ReverseIs ==
  ASSUME NEW s \in Words
  PROVE  /\ Reverse(s) \in Words /\ Len(Reverse(s)) = Len(s)
         /\ \A j \in 1 .. Len(s) : Reverse(s)[j] = s[Len(s) - j + 1]
<1>1. PICK n \in Nat : n = Len(s)
  BY LenProperties DEF Words
<1>2. \A j \in 1 .. n : n - j + 1 \in 1 .. n
  OBVIOUS
<1>3. \A j \in 1 .. n : s[n - j + 1] \in Chars
  BY <1>1, <1>2, ElementOfSeq DEF Words
<1>4. Reverse(s) = [j \in 1 .. n |-> s[n - j + 1]]
  BY <1>1 DEF Reverse
<1> DEFINE r == [j \in 1 .. n |-> s[n - j + 1]]
<1>5. r \in Seq(Chars) /\ Len(r) = n
  BY <1>3
<1> QED BY <1>1, <1>4, <1>5 DEF Words

(* A word is a suffix when it is what another ends with.                   *)
LEMMA SuffixIs ==
  ASSUME NEW u \in Words, NEW v \in Words, Len(u) <= Len(v),
         \A j \in 1 .. Len(u) : v[Len(v) - Len(u) + j] = u[j]
  PROVE  IsSuffix(u, v)
<1>1. PICK m \in Nat, n \in Nat : m = Len(u) /\ n = Len(v) /\ m <= n
  BY LenProperties DEF Words
<1>2. PICK x \in Words : x = Reverse(u) /\ Len(x) = m /\ \A j \in 1 .. m : x[j] = u[m - j + 1]
  BY <1>1, ReverseIs
<1>3. PICK y \in Words : y = Reverse(v) /\ Len(y) = n /\ \A j \in 1 .. n : y[j] = v[n - j + 1]
  BY <1>1, ReverseIs
<1>4. ASSUME NEW j \in 1 .. m PROVE x[j] = y[j]
  <2>1. PICK i \in 1 .. m : i = m - j + 1
    OBVIOUS
  <2>2. v[n - m + i] = u[i]
    BY <1>1
  <2>3. n - m + i = n - j + 1 /\ j \in 1 .. n
    BY <1>1, <2>1
  <2> QED BY <1>2, <1>3, <2>1, <2>2, <2>3
<1>5. Same(x, y, Len(x))
  BY <1>1, <1>2, <1>3, <1>4 DEF Same
<1>6. IsPrefix(x, y)
  BY <1>5, PrefixIs
<1> QED BY <1>2, <1>3, <1>6 DEF IsSuffix

(* t has what s has before from, and from k on the n characters that s has *)
(* from to on.                                                             *)
Around(s, from, to, n, t, k) ==
  /\ from <= to /\ Len(s) = to + n /\ from <= k /\ Len(t) = k + n
  /\ \A j \in 1 .. from : t[j] = s[j]
  /\ \A j \in 1 .. n : t[k + j] = s[to + j]

Kept(s, from, to, t) ==
  IsPrefix(Slice(s, 0, from), t) /\ IsSuffix(Slice(s, to, Len(s)), t)

PutIn(s, from, to, t, k) ==
  Kept(s, from, to, t) /\ k = Len(t) - Len(Slice(s, to, Len(s)))

(* What is around stays, and the length of what is behind gives the place. *)
LEMMA KeptIs ==
  ASSUME NEW s \in Words, NEW from \in Nat, NEW to \in Nat, NEW n \in Nat,
         NEW t \in Words, NEW k \in Nat, Around(s, from, to, n, t, k)
  PROVE  PutIn(s, from, to, t, k)
<1>1. PICK l \in Nat, q \in Nat : /\ l = Len(s) /\ q = Len(t) /\ l = to + n /\ q = k + n
                                  /\ from <= to /\ from <= k
  BY LenProperties DEF Words, Around
<1>2. /\ \A j \in 1 .. from : t[j] = s[j]
      /\ \A j \in 1 .. n : t[k + j] = s[to + j]
  BY DEF Around
<1>3. PICK z \in Nat : z = 0
  OBVIOUS
<1>4. z \in 0 .. Len(s) /\ from \in z .. Len(s) /\ to \in 0 .. Len(s) /\ l \in to .. Len(s)
      /\ l - to = n
  BY <1>1, <1>3
<1>5. PICK a \in Words : /\ a = Slice(s, z, from) /\ Len(a) = from - z
                         /\ \A j \in 1 .. from - z : a[j] = s[z + j]
  BY <1>4, SliceIs
<1>6. Len(a) = from /\ \A j \in 1 .. from : a[j] = s[j]
  BY <1>3, <1>5
<1>7. PICK b \in Words : b = Slice(s, to, l) /\ Len(b) = n /\ \A j \in 1 .. n : b[j] = s[to + j]
  <2>1. PICK b \in Words : /\ b = Slice(s, to, l) /\ Len(b) = l - to
                           /\ \A j \in 1 .. l - to : b[j] = s[to + j]
    BY <1>4, SliceIs
  <2> QED BY <1>4, <2>1
<1>8. from <= q /\ n <= q /\ q - n = k
  BY <1>1
<1>9. Same(a, t, Len(a))
  BY <1>1, <1>2, <1>6, <1>8 DEF Same
<1>10. IsPrefix(a, t)
  BY <1>9, PrefixIs
<1>11. Len(b) <= Len(t) /\ \A j \in 1 .. Len(b) : t[Len(t) - Len(b) + j] = b[j]
  BY <1>1, <1>2, <1>7, <1>8
<1>12. IsSuffix(b, t)
  BY <1>11, SuffixIs
<1>13. k = Len(t) - Len(b)
  BY <1>1, <1>7, <1>8
<1> QED BY <1>1, <1>3, <1>5, <1>7, <1>10, <1>12, <1>13 DEF PutIn, Kept

(* Something is put between.                                               *)
LEMMA JoinedAround ==
  ASSUME NEW s \in Words, NEW from \in Nat, NEW to \in Nat, NEW n \in Nat, from <= to, Len(s) = to + n,
         NEW text \in Words
  PROVE  /\ Joined(s, from, to, text) \in Words
         /\ Around(s, from, to, n, Joined(s, from, to, text), from + Len(text))
<1>1. PICK l \in Nat, m \in Nat : l = Len(s) /\ m = Len(text)
  BY LenProperties DEF Words
<1>2. to <= Len(s) /\ l - to = n
  BY <1>1
<1> DEFINE t == Joined(s, from, to, text)
<1>3. /\ t \in Words
      /\ Len(t) = from + Len(text) + Len(s) - to
      /\ Alike(t, s, from)
      /\ Moved(t, from + Len(text), s, to)
  <2>1. to <= Len(s)
    BY <1>2
  <2>2. Joined(s, from, to, text) \in Words /\ IsJoined(Joined(s, from, to, text), s, from, to, text)
    BY <2>1, JoinIs
  <2> QED BY <2>2 DEF IsJoined
<1> HIDE DEF t
<1>4. \A j \in 1 .. n : t[from + Len(text) + j] = s[to + j]
  BY <1>1, <1>2, <1>3 DEF Moved
<1>5. PICK k \in Nat : k = from + m
  OBVIOUS
<1>6. from + m + l - to = k + n
  BY <1>1, <1>5
<1>7. Len(t) = k + n /\ from <= k
  BY <1>1, <1>3, <1>5, <1>6
<1>8. Around(s, from, to, n, t, k)
  BY <1>1, <1>3, <1>4, <1>5, <1>7 DEF Around, Alike
<1> QED BY <1>1, <1>3, <1>5, <1>8 DEF t

(* And then something else, in place of that.                              *)
LEMMA AroundAgain ==
  ASSUME NEW s \in Words, NEW from \in Nat, NEW to \in Nat, NEW n \in Nat,
         NEW u \in Words, NEW p \in Nat, Around(s, from, to, n, u, p),
         NEW r \in Nat, NEW d \in Nat, p = r + d,
         NEW t \in Words, NEW k \in Nat, Around(u, from, r, d + n, t, k)
  PROVE  Around(s, from, to, n, t, k + d)
<1>1. /\ from <= to /\ Len(s) = to + n /\ from <= k /\ Len(t) = k + (d + n)
      /\ \A j \in 1 .. from : u[j] = s[j]
      /\ \A j \in 1 .. n : u[p + j] = s[to + j]
      /\ \A j \in 1 .. from : t[j] = u[j]
      /\ \A j \in 1 .. d + n : t[k + j] = u[r + j]
  BY DEF Around
<1>2. ASSUME NEW j \in 1 .. n PROVE t[k + d + j] = s[to + j]
  <2>1. PICK i \in 1 .. d + n : i = d + j
    OBVIOUS
  <2>2. k + i = k + d + j /\ r + i = p + j
    BY <2>1
  <2>3. t[k + i] = u[r + i] /\ u[p + j] = s[to + j]
    BY <1>1
  <2> QED BY <2>2, <2>3
<1>3. from <= k + d /\ k + (d + n) = k + d + n
  BY <1>1
<1> QED BY <1>1, <1>2, <1>3 DEF Around

(* The line is that with something else in place of the term, and the      *)
(* cursor is after it.                                                     *)
TermPut ==
  /\ Kept(line, term.off, term.off + term.len, line')
  /\ line' # line => cur' = Len(line') - Len(Behind)

(* The line and the place of the term in it.                               *)
LEMMA TermAt ==
  ASSUME IInv, Completing \/ status = "complete"
  PROVE  \E s \in Words, from \in Nat, to \in Nat, n \in Nat :
           /\ s = line /\ from = term.off /\ to = term.off + term.len
           /\ from <= to /\ Len(s) = to + n
<1>1. line \in Words /\ term.off \in Nat /\ term.len \in Nat /\ term.off + term.len <= Len(line)
  BY DEF IInv, InShape, TermPlaced, Terms, End
<1>2. PICK s \in Words, from \in Nat, len \in Nat, l \in Nat :
        s = line /\ from = term.off /\ len = term.len /\ l = Len(s) /\ from + len <= l
  BY <1>1, LenProperties DEF Words
<1>3. PICK to \in Nat : to = from + len /\ to <= l /\ from <= to
  BY <1>2
<1>4. PICK n \in Nat : n = l - to /\ l = to + n
  BY <1>3
<1>5. /\ s = line /\ from = term.off /\ to = term.off + term.len
      /\ from <= to /\ Len(s) = to + n
  BY <1>2, <1>3, <1>4
<1> QED BY <1>5, Zenon

(* With that the term of the state is replaced; or the line stays, or a    *)
(* text is joined in.                                                      *)
LEMMA AroundPut ==
  ASSUME NEW s \in Words, NEW from \in Nat, NEW to \in Nat, NEW n \in Nat,
         s = line, from = term.off, to = term.off + term.len,
         NEW t \in Words, NEW k \in Nat, t = line', t # s => k = cur',
         Around(s, from, to, n, t, k)
  PROVE  TermPut
<1>1. PutIn(s, from, to, t, k)
  BY KeptIs
<1> QED BY <1>1 DEF PutIn, TermPut, Behind, End

LEMMA SamePut ==
  ASSUME IInv, Completing \/ status = "complete", line' = line
  PROVE  TermPut
<1>1. PICK s \in Words, from \in Nat, to \in Nat, n \in Nat :
        /\ s = line /\ from = term.off /\ to = term.off + term.len
        /\ from <= to /\ Len(s) = to + n
  BY TermAt
<1>2. Around(s, from, to, n, s, to)
  BY <1>1 DEF Around
<1> QED BY <1>1, <1>2, AroundPut

LEMMA JoinedPut ==
  ASSUME IInv, Completing \/ status = "complete", NEW text \in Words,
         line' = Joined(line, term.off, term.off + term.len, text), cur' = term.off + Len(text)
  PROVE  TermPut
<1>1. PICK s \in Words, from \in Nat, to \in Nat, n \in Nat :
        /\ s = line /\ from = term.off /\ to = term.off + term.len
        /\ from <= to /\ Len(s) = to + n
  BY TermAt
<1>2. /\ Joined(s, from, to, text) \in Words
      /\ Around(s, from, to, n, Joined(s, from, to, text), from + Len(text))
  BY <1>1, JoinedAround
<1>3. PICK t \in Words, k \in Nat : /\ t = Joined(s, from, to, text) /\ k = from + Len(text)
                                    /\ Around(s, from, to, n, t, k)
  <2>1. Len(text) \in Nat
    BY LenProperties DEF Words
  <2> QED BY <1>2, <2>1
<1>4. t = line' /\ k = cur'
  BY <1>1, <1>3
<1> QED BY <1>1, <1>3, <1>4, AroundPut

(* A character is typed at the end of the term.                            *)
LEMMA TypedPut ==
  ASSUME TypesInTerm, IInv, Completing, AtEndOfTerm, NEW char \in Typed, InsertChar(char)
  PROVE  TermPut
<1>1. PICK s \in Words, off \in Nat, c \in Nat, n \in Nat :
        /\ s = line /\ off = term.off /\ c = term.off + term.len /\ off <= c /\ Len(s) = c + n
  BY TermAt
<1>2. c = cur
  BY <1>1 DEF AtEndOfTerm
<1>3. PICK u \in Words : u = InsertedAt(char) /\ Around(s, off, c, n, u, c + 1)
  <2>1. char \in Chars
    BY CompleteAssumption
  <2>2. PICK l \in Nat : l = Len(s) /\ l = c + n
    BY <1>1
  <2>3. End = l /\ End - cur = n
    BY <1>1, <1>2, <2>2 DEF End
  <2>4. /\ InsertedAt(char) \in Words /\ Len(InsertedAt(char)) = End + 1
        /\ \A j \in 1 .. cur : InsertedAt(char)[j] = line[j]
        /\ InsertedAt(char)[cur + 1] = char
        /\ \A j \in 1 .. End - cur : InsertedAt(char)[cur + 1 + j] = line[cur + j]
    BY <2>1, InsertedIs
  <2>5. PICK u \in Words : u = InsertedAt(char)
    BY <2>4
  <2>6. /\ Len(u) = l + 1
        /\ \A j \in 1 .. c : u[j] = s[j]
        /\ \A j \in 1 .. n : u[c + 1 + j] = s[c + j]
    BY <1>1, <1>2, <2>3, <2>4, <2>5
  <2>7. l + 1 = c + 1 + n /\ off <= c + 1
    BY <1>1, <2>2
  <2>8. \A j \in 1 .. off : u[j] = s[j]
    BY <1>1, <2>6
  <2>9. Around(s, off, c, n, u, c + 1)
    BY <1>1, <2>6, <2>7, <2>8 DEF Around
  <2> QED BY <2>5, <2>9
<1>4. PICK e \in Edits : /\ e.line = u /\ e.cur = c + 1 /\ e.term = term
                         /\ Sound(e) /\ e.comp.at # 0 /\ SelectedPut(e)
                         /\ line' = Update(e).line /\ cur' = Update(e).cur
  BY <1>2, <1>3, TypedIs DEF Edited
<1>5. Longer(e) = c + 1 /\ e.term.off = off /\ e.term.off + e.term.len = c
  BY <1>1, <1>4 DEF Longer
<1>6. \/ line' = u /\ cur' = c + 1
      \/ \E text \in Words : line' = Joined(u, off, c + 1, text) /\ cur' = off + Len(text)
      \/ \E text \in Words : line' = Joined(u, off, c, text) /\ cur' = off + Len(text) + 1
  <2>1. \/ Update(e) = Reset(e)
        \/ \E text \in Words :
             /\ Update(e).line = Joined(e.line, e.term.off, Longer(e), text)
             /\ e.cur = Longer(e) => Update(e).cur = e.term.off + Len(text)
        \/ \E text \in Words :
             /\ Update(e).line = Joined(e.line, e.term.off, e.term.off + e.term.len, text)
             /\ Update(e).cur = e.term.off + Len(text) + 1
    BY <1>4, UpdateIs
  <2>2. Reset(e).line = e.line /\ Reset(e).cur = e.cur
    BY ResetIs
  <2> QED BY <1>4, <1>5, <2>1, <2>2
<1>7. PICK p \in Nat : p = c + 1
  OBVIOUS
<1>8. CASE line' = u /\ cur' = c + 1
  BY <1>1, <1>3, <1>7, <1>8, AroundPut
<1>9. ASSUME NEW r \in Nat, NEW d \in Nat, p = r + d, off <= r,
             NEW text \in Words, line' = Joined(u, off, r, text), cur' = off + Len(text) + d
      PROVE  TermPut
  <2>1. Len(u) = r + (d + n)
    <3>1. Len(u) = p + n
      BY <1>3, <1>7 DEF Around
    <3>2. p + n = r + (d + n)
      BY <1>9
    <3> QED BY <3>1, <3>2
  <2>2. PICK m \in Nat : m = d + n
    OBVIOUS
  <2>3. /\ Joined(u, off, r, text) \in Words
        /\ Around(u, off, r, m, Joined(u, off, r, text), off + Len(text))
    BY <1>9, <2>1, <2>2, JoinedAround
  <2>4. PICK t \in Words, k \in Nat : /\ t = Joined(u, off, r, text) /\ k = off + Len(text)
                                      /\ Around(u, off, r, d + n, t, k)
    <3>1. Len(text) \in Nat
      BY LenProperties DEF Words
    <3> QED BY <2>2, <2>3, <3>1
  <2>5. Around(s, off, c, n, t, k + d)
    <3>1. Around(s, off, c, n, u, p)
      BY <1>3, <1>7
    <3>2. Around(u, off, r, d + n, t, k) /\ p = r + d
      BY <1>9, <2>4
    <3> QED BY <3>1, <3>2, AroundAgain
  <2>6. PICK q \in Nat : q = k + d
    OBVIOUS
  <2>7. t = line' /\ q = cur'
    BY <1>9, <2>4, <2>6
  <2> QED BY <1>1, <2>5, <2>6, <2>7, AroundPut
<1>10. CASE \E text \in Words : line' = Joined(u, off, c + 1, text) /\ cur' = off + Len(text)
  <2>1. PICK text \in Words : line' = Joined(u, off, p, text) /\ cur' = off + Len(text)
    BY <1>7, <1>10
  <2>2. PICK z \in Nat : z = 0 /\ p = p + z /\ off <= p
    BY <1>1, <1>7
  <2>3. cur' = off + Len(text) + z
    <3>1. Len(text) \in Nat
      BY LenProperties DEF Words
    <3> QED BY <2>1, <2>2, <3>1
  <2> QED BY <1>9, <2>1, <2>2, <2>3
<1>11. CASE \E text \in Words : line' = Joined(u, off, c, text) /\ cur' = off + Len(text) + 1
  BY <1>1, <1>7, <1>9, <1>11
<1> QED BY <1>6, <1>8, <1>10, <1>11

(* A completion puts something in place of the term, and changes nothing   *)
(* before and behind it, whether the application completes, a candidate is *)
(* taken or a character is typed at the end of the term; the cursor is     *)
(* left where what is behind begins (complete.cpp).                        *)
THEOREM TermReplaced ==
  ASSUME TypesInTerm
  PROVE  Spec => OnlyTheTerm
<1> DEFINE Replaces ==
             /\ Completing \/ (status = "complete" /\ term.type \notin {"history", "help"})
             /\ key' # "FINISH_LINE" /\ (key' \in Typed => AtEndOfTerm)
             => /\ IsPrefix(Before, line') /\ IsSuffix(Behind, line')
                /\ line' # line => cur' = Len(line') - Len(Behind)
<1>1. Init => IInv
  BY InitShape
<1>2. IInv /\ [Next]_vars => IInv'
  BY NextKeeps
<1>3. IInv /\ [Next]_vars => [Replaces]_vars
  <2> SUFFICES ASSUME IInv, Next,
                      Completing \/ (status = "complete" /\ term.type \notin {"history", "help"}),
                      key' # "FINISH_LINE", key' \in Typed => AtEndOfTerm
               PROVE  TermPut
    BY DEF TermPut, Kept, Before, Behind, End
  <2>1. Completing \/ status = "complete"
    OBVIOUS
  <2>2. CASE \E char \in Typed : InsertChar(char)
    <3>1. PICK char \in Typed : InsertChar(char)
      BY <2>2
    <3>2. key' = char /\ status = "line"
      BY <3>1 DEF InsertChar, Does
    <3> QED BY <3>1, <3>2, TypedPut
  <2>3. CASE GoRight
    <3>1. Completing /\ Edited(Accept(Edit))
      BY <2>3 DEF GoRight, Does
    <3>2. /\ Edit \in Edits /\ Sound(Edit) /\ TermIn(Edit)
          /\ Edit.line = line /\ Edit.term = term
      BY <3>1, EditIs
    <3>3. \/ Accept(Edit) = Reset(Edit)
          \/ \E text \in Words : Accept(Edit) = Reset(Put(Edit, text))
      BY <3>2, AcceptIs
    <3>4. CASE Accept(Edit) = Reset(Edit)
      <4>1. line' = line
        BY <3>1, <3>2, <3>4, ResetIs DEF Edited
      <4> QED BY <2>1, <4>1, SamePut
    <3>5. ASSUME NEW text \in Words, Accept(Edit) = Reset(Put(Edit, text)) PROVE TermPut
      <4>1. /\ Put(Edit, text) \in Edits
            /\ Put(Edit, text).line = Joined(line, term.off, term.off + term.len, text)
            /\ Put(Edit, text).cur = term.off + Len(text)
        BY <3>2, PutIs
      <4>2. line' = Put(Edit, text).line /\ cur' = Put(Edit, text).cur
        BY <3>1, <3>5, <4>1, ResetIs DEF Edited
      <4> QED BY <2>1, <4>1, <4>2, JoinedPut
    <3> QED BY <3>3, <3>4, <3>5
  <2>4. CASE \E action \in Tabs : TabNext(action)
    <3>1. PICK f \in Edits :
            /\ Edited(f)
            /\ \/ f.line = line
               \/ \E text \in Words :
                    /\ f.line = Joined(line, term.off, term.off + term.len, text)
                    /\ f.cur = term.off + Len(text)
      BY <2>4, TabNextIs
    <3>2. line' = f.line /\ cur' = f.cur
      BY <3>1 DEF Edited
    <3> QED BY <2>1, <3>1, <3>2, SamePut, JoinedPut
  <2>5. CASE \E words \in Lists : \E added \in BOOLEAN : CompleteTerm(words, added)
    <3>1. \/ line' = line
          \/ \E text \in Words :
               /\ line' = Joined(line, term.off, term.off + term.len, text)
               /\ cur' = term.off + Len(text)
      BY <2>5, CompleteTermKeeps
    <3> QED BY <2>1, <3>1, SamePut, JoinedPut
  <2>6. CASE line' = line
    BY <2>1, <2>6, SamePut
  <2>7. GoLeft => line' = line
    BY DEF GoLeft
  <2>8. (\E type \in Types : \E action \in ActionOf(type) : StartCompletion(type, action))
          => line' = line
    BY DEF StartCompletion
  <2>9. (\E action \in Tabs : TabAcceptHistory(action)) => line' = line
    BY DEF TabAcceptHistory
  <2>10. ~(\E words \in Lists : CompleteHistory(words))
    BY DEF CompleteHistory, Completes, IInv, Apart
  <2>11. (\E words \in Helps : CompleteHelp(words)) => line' = line
    BY DEF CompleteHelp
  <2>12. (\E how \in Items : SelectCandidate(how)) => line' = line
    BY DEF SelectCandidate
  <2>13. /\ ~(\E how \in Items : SelectEntry(how)) /\ ~(\E n \in 1 .. HistCnt : GotoEntry(n))
         /\ ~(\E how \in DOMAIN PageKey : PageHistory(how))
    BY DEF SelectEntry, GotoEntry, PageHistory, Does, Completing
  <2>14. (\E how \in DOMAIN PageKey : Page(how)) => line' = line
    BY DEF Page
  <2>15. ShowKeys \/ Clear => line' = line
    BY DEF ShowKeys, Clear
  <2>16. ~FinishLine
    BY DEF FinishLine, Does
  <2> QED
    BY <2>2, <2>3, <2>4, <2>5, <2>6, <2>7, <2>8, <2>9, <2>10, <2>11, <2>12, <2>13, <2>14, <2>15, <2>16
       DEF Next
<1>4. OnlyTheTerm <=> [][Replaces]_vars
  BY DEF OnlyTheTerm
<1> HIDE DEF Replaces
<1> QED BY <1>1, <1>2, <1>3, <1>4, PTL DEF Spec

-----------------------------------------------------------------------------
(* What is selected.                                                       *)

(* A part of a word is a word of the characters that are there.            *)
Reaches(s, from, l) == from + l <= Len(s)
IsPart(v, s, from, l) ==
  v = Slice(s, from, from + l) /\ Len(v) = l /\ \A j \in 1 .. l : v[j] = s[from + j]

LEMMA PartGiven ==
  ASSUME NEW s \in Words, NEW from \in Nat, NEW l \in Nat, Reaches(s, from, l)
  PROVE  \E v \in Words : IsPart(v, s, from, l)
<1>1. from + l <= Len(s)
  BY DEF Reaches
<1>2. PICK v : v = Slice(s, from, from + l)
  OBVIOUS
<1>3. v \in Words /\ Len(v) = l /\ \A j \in 1 .. l : v[j] = s[from + j]
  BY <1>1, <1>2, PartIs
<1> QED BY <1>2, <1>3 DEF IsPart

(* Two parts with the same characters are the same.                        *)
SamePart(s, from, t, k, l) ==
  from + l <= Len(s) /\ k + l <= Len(t) /\ \A j \in 1 .. l : s[from + j] = t[k + j]

LEMMA SameParts ==
  ASSUME NEW s \in Words, NEW t \in Words, NEW from \in Nat, NEW k \in Nat, NEW l \in Nat,
         SamePart(s, from, t, k, l)
  PROVE  Slice(s, from, from + l) = Slice(t, k, k + l)
<1>1. Reaches(s, from, l) /\ Reaches(t, k, l) /\ \A j \in 1 .. l : s[from + j] = t[k + j]
  BY DEF SamePart, Reaches
<1>2. PICK u \in Words : IsPart(u, s, from, l)
  BY <1>1, PartGiven
<1>3. PICK v \in Words : IsPart(v, t, k, l)
  BY <1>1, PartGiven
<1>4. /\ u = Slice(s, from, from + l) /\ Len(u) = l /\ v = Slice(t, k, k + l) /\ Len(v) = l
      /\ \A j \in 1 .. l : u[j] = v[j]
  BY <1>1, <1>2, <1>3 DEF IsPart
<1>5. u = v
  BY <1>2, <1>3, <1>4, SeqEqual DEF Words
<1> QED BY <1>4, <1>5

(* What was put in is there.                                               *)
LEMMA JoinedPart ==
  ASSUME NEW s \in Words, NEW from \in Nat, NEW to \in Nat, from <= to, to <= Len(s),
         NEW text \in Words, NEW t \in Words, t = Joined(s, from, to, text)
  PROVE  /\ from + Len(text) <= Len(t)
         /\ Slice(t, from, from + Len(text)) = text
<1>1. PICK n \in Nat, l \in Nat : n = Len(text) /\ l = Len(s)
  BY LenProperties DEF Words
<1>2. IsJoined(t, s, from, to, text)
  BY JoinIs
<1>3. Len(t) = from + n + l - to /\ \A j \in 1 .. n : t[from + j] = text[j]
  BY <1>1, <1>2 DEF IsJoined
<1>4. from + n <= Len(t)
  BY <1>1, <1>3
<1>5. PICK u \in Words : /\ u = Slice(t, from, from + n) /\ Len(u) = n
                         /\ \A j \in 1 .. n : u[j] = t[from + j]
  <2>1. t \in Words /\ Reaches(t, from, n)
    BY <1>4 DEF Reaches
  <2> QED BY <2>1, PartGiven DEF IsPart
<1>6. \A j \in 1 .. Len(u) : u[j] = text[j]
  BY <1>3, <1>5
<1>7. u = text
  BY <1>1, <1>5, <1>6, SeqEqual DEF Words
<1> QED BY <1>1, <1>4, <1>5, <1>7

(* The candidates from at on that begin with a text, of which the first is *)
(* found, with their count and what all of them have in common.            *)
Fitting(s, at, text) == {k \in at .. Len(s) : IsPrefix(text, s[k])}

LEMMA FittingFound ==
  ASSUME NEW s \in Seq(Words), NEW at \in 1 .. Len(s), NEW text \in Words,
         Fitting(s, at, text) # {}, NEW p, p = FindPrefix(s, at, text)
  PROVE  /\ p.k \in Fitting(s, at, text) /\ p.match = Cardinality(Fitting(s, at, text))
         /\ p.len \in Nat /\ Len(text) <= p.len /\ p.len <= Len(s[p.k])
         /\ \A k \in Fitting(s, at, text) : Same(s[p.k], s[k], p.len)
<1> DEFINE full == Fitting(s, at, text)
           common == {Agree(s[Min(full)], s[k]) : k \in full}
<1>1. Len(s) \in Nat /\ Len(text) \in Nat /\ at \in Nat /\ at # 0
  BY LenProperties DEF Words
<1>2. p = [k |-> Min(full), len |-> Min(common), match |-> Cardinality(full), pref |-> 0]
  BY <1>1 DEF FindPrefix, Fitting
<1>3. full \in SUBSET Nat
  BY <1>1 DEF Fitting
<1>4. \A k \in full : k \in 1 .. Len(s) /\ s[k] \in Words /\ Len(s[k]) \in Nat
  <2>1. \A k \in 1 .. Len(s) : s[k] \in Words
    BY ElementOfSeq
  <2>2. \A k \in full : k \in 1 .. Len(s)
    BY <1>1 DEF Fitting
  <2> QED BY <2>1, <2>2, LenProperties DEF Words
<1>5. \A k \in full : Same(text, s[k], Len(text))
  BY <1>4, PrefixIs DEF Fitting
<1> HIDE DEF full
<1>6. full # {}
  BY DEF full
<1>7. PICK m \in full : m = Min(full)
  BY <1>3, <1>6, MinIn
<1>8. \A k \in full : /\ Agree(s[m], s[k]) \in Nat /\ Same(s[m], s[k], Agree(s[m], s[k]))
                      /\ Len(text) <= Agree(s[m], s[k])
  <2> TAKE k \in full
  <2>1. s[m] \in Words /\ s[k] \in Words
    BY <1>4
  <2>2. Same(text, s[m], Len(text)) /\ Same(text, s[k], Len(text))
    BY <1>5
  <2>3. Same(s[m], s[k], Len(text))
    BY <2>2 DEF Same
  <2> QED BY <1>1, <2>1, <2>3, AgreeIs
<1>9. common \in SUBSET Nat /\ Agree(s[m], s[m]) \in common
  BY <1>7, <1>8
<1>10. PICK l \in Nat : l = Min(common) /\ l \in common /\ \A j \in common : l <= j
  <2> HIDE DEF common
  <2> QED BY <1>9, MinIn
<1>11. Len(text) <= l /\ \A k \in full : l <= Agree(s[m], s[k])
  BY <1>7, <1>8, <1>10
<1>12. \A k \in full : Same(s[m], s[k], l)
  <2> TAKE k \in full
  <2>1. PICK a \in Nat : a = Agree(s[m], s[k]) /\ Same(s[m], s[k], a) /\ l <= a
    BY <1>8, <1>11
  <2>2. Len(s[m]) \in Nat /\ Len(s[k]) \in Nat
    BY <1>4
  <2> QED BY <2>1, <2>2 DEF Same
<1>13. l <= Len(s[m])
  BY <1>12 DEF Same
<1>14. p.k = m /\ p.len = l /\ p.match = Cardinality(full)
  BY <1>2, <1>7, <1>10
<1> HIDE DEF common
<1> QED BY <1>11, <1>12, <1>13, <1>14 DEF full

(* completion_update: what the candidates left have in common is put in    *)
(* place of the term and what was typed; of one candidate, all of it.      *)
Picked(e, p) ==
  /\ Longer(e) <= Len(e.line)
  /\ p.k \in 1 .. Len(e.comp.words) /\ p.len \in Nat /\ p.len <= Len(e.comp.words[p.k])

Narrowed(e, p, x) ==
  IF p.match = 1
  THEN /\ x.comp = NoComp
       /\ x.line = Joined(e.line, e.term.off, Longer(e), Quoted(e.comp.words[p.k], e.term))
  ELSE /\ x.comp.idx # 0 /\ x.term.off = e.term.off /\ x.term.len = p.len
       /\ x.line = Joined(e.line, e.term.off, Longer(e), SubSeq(e.comp.words[p.k], 1, p.len))

LEMMA NarrowedIs ==
  ASSUME NEW e \in Edits, Sound(e), NEW p, Picked(e, p), NEW x, x = Narrow(e, p)
  PROVE  Narrowed(e, p, x)
<1>0. /\ Longer(e) <= Len(e.line)
      /\ p.k \in 1 .. Len(e.comp.words) /\ p.len \in Nat /\ p.len <= Len(e.comp.words[p.k])
  BY DEF Picked
<1>1. /\ e.line \in Words /\ e.cur \in Nat /\ e.term \in Terms /\ e.comp \in Comps
      /\ e.term.off \in Nat /\ e.term.len \in Nat /\ e.comp.words \in Seq(Words)
      /\ e.cur <= Len(e.line)
  BY DEF Edits, Terms, Comps, Sound
<1>2. PICK k \in Nat, n \in Nat : k = p.k /\ n = p.len /\ k # 0 /\ k \in 1 .. Len(e.comp.words)
  <2>1. Len(e.comp.words) \in Nat
    BY <1>1, LenProperties
  <2>2. p.k \in Nat /\ p.len \in Nat /\ p.k # 0
    BY <1>0, <2>1
  <2> QED BY <1>0, <2>2
<1>3. PICK word \in Words : word = e.comp.words[k] /\ n <= Len(word)
  BY <1>0, <1>1, <1>2, ElementOfSeq
<1>4. PICK len \in Nat : len = e.term.len + 1
  BY <1>1
<1> DEFINE t == [e.term EXCEPT !.len = len]
           c == [e.comp EXCEPT !.idx = k, !.at = k]
           f == [[e EXCEPT !.comp = c] EXCEPT !.term = t]
<1>5. t \in Terms /\ t.len = len /\ t.off = e.term.off /\ t.quote = e.term.quote /\ t.type = e.term.type
  BY <1>1, Relen
<1>6. c \in Comps /\ c.words = e.comp.words /\ c.idx = k /\ c.at = k /\ Within(c)
  <2>1. c \in Comps /\ c.words = e.comp.words /\ c.idx = k /\ c.at = k
    BY <1>1, <1>2 DEF Comps
  <2>2. k <= Len(e.comp.words)
    BY <1>1, <1>2, LenProperties
  <2> HIDE DEF c
  <2> QED BY <2>1, <2>2 DEF Within
<1>7. /\ f \in Edits /\ f.line = e.line /\ f.cur = e.cur /\ f.term = t /\ f.comp = c
      /\ f = [e EXCEPT !.comp.idx = p.k, !.comp.at = p.k, !.term.len = e.term.len + 1]
  <2>1. f = [e EXCEPT !.comp.idx = k, !.comp.at = k, !.term.len = len]
    BY <1>1 DEF Edits, Terms, Comps
  <2> HIDE DEF t, c
  <2>2. LET g == [e EXCEPT !.comp = c]
        IN g \in Edits /\ g.line = e.line /\ g.cur = e.cur /\ g.term = e.term /\ g.comp = c
    BY <1>6, Recomp
  <2>3. f \in Edits /\ f.line = e.line /\ f.cur = e.cur /\ f.term = t /\ f.comp = c
    BY <1>5, <2>2, Reterm
  <2> QED BY <1>2, <1>4, <2>1, <2>3
<1> HIDE DEF f, t, c
<1>8. Sound(f) /\ TermIn(f) /\ f.term.off = e.term.off /\ f.term.off + f.term.len = Longer(e)
  <2>1. Sound(f)
    BY <1>1, <1>6, <1>7 DEF Sound
  <2>2. f.term.off = e.term.off /\ f.term.off + f.term.len = Longer(e)
    <3>1. PICK off \in Nat, l \in Nat : off = e.term.off /\ l = e.term.len
      BY <1>1
    <3>2. off + (l + 1) = off + l + 1
      OBVIOUS
    <3> QED BY <1>4, <1>5, <1>7, <3>1, <3>2 DEF Longer
  <2>3. TermIn(f)
    BY <1>0, <1>7, <2>2 DEF TermIn
  <2> QED BY <2>1, <2>2, <2>3
<1>9. CASE p.match = 1
  <2>1. x = Accept(f)
    BY <1>7, <1>9 DEF Narrow
  <2>2. f.comp.at # 0 /\ f.comp.idx # 0 /\ f.comp.idx = k /\ f.comp.words = e.comp.words
    BY <1>2, <1>6, <1>7
  <2>3. PICK text \in Words : text = Quoted(word, f.term) /\ x = Reset(Put(f, text))
    <3>1. Quoted(word, f.term) \in Words
      BY QuotedIn
    <3>2. Accept(f) = Reset(Put(f, Quoted(f.comp.words[k], f.term)))
      BY <1>7, <1>8, <2>2, AcceptIs
    <3> QED BY <1>3, <2>1, <2>2, <3>1, <3>2
  <2>4. Quoted(word, f.term) = Quoted(word, e.term)
    BY <1>5, <1>7 DEF Quoted
  <2>5. PICK y \in Edits : /\ y = Put(f, text)
                           /\ y.line = Joined(e.line, e.term.off, Longer(e), text)
    <3>1. /\ Put(f, text) \in Edits
          /\ Put(f, text).line = Joined(f.line, f.term.off, f.term.off + f.term.len, text)
      BY <1>7, <1>8, PutIs
    <3> QED BY <1>7, <1>8, <3>1
  <2>6. x.line = y.line /\ x.comp = NoComp
    BY <2>3, <2>5, ResetIs
  <2> QED BY <1>2, <1>3, <1>9, <2>3, <2>4, <2>5, <2>6 DEF Narrowed
<1>10. CASE p.match # 1
  <2>1. PICK text \in Words : text = SubSeq(word, 1, n)
    <3>1. PICK z \in Nat : z = 0 /\ z + n <= Len(word)
      BY <1>3
    <3>2. Slice(word, z, z + n) \in Words
      BY <3>1, PartIs
    <3>3. z + 1 = 1 /\ z + n = n
      BY <3>1
    <3> QED BY <3>2, <3>3 DEF Slice
  <2>2. PICK y \in Edits : /\ y = Put(f, text) /\ y.term = t /\ y.comp = c
                           /\ y.line = Joined(e.line, e.term.off, Longer(e), text)
    <3>1. /\ Put(f, text) \in Edits /\ Put(f, text).term = f.term /\ Put(f, text).comp = f.comp
          /\ Put(f, text).line = Joined(f.line, f.term.off, f.term.off + f.term.len, text)
      BY <1>7, <1>8, PutIs
    <3> QED BY <1>7, <1>8, <3>1
  <2>3. x = [y EXCEPT !.cur = e.cur + p.len - (e.term.len + 1), !.term.len = p.len]
    BY <1>2, <1>3, <1>7, <1>10, <2>1, <2>2 DEF Narrow
  <2>4. x.line = y.line /\ x.comp = c /\ x.term = [t EXCEPT !.len = p.len]
    BY <2>2, <2>3 DEF Edits
  <2>5. x.term.off = t.off /\ x.term.len = p.len
    BY <1>5, <2>4 DEF Terms
  <2> QED BY <1>2, <1>3, <1>5, <1>6, <1>10, <2>1, <2>2, <2>4, <2>5 DEF Narrowed
<1> QED BY <1>9, <1>10

(* What is before the term and behind it when a character is typed at the  *)
(* end of the term, which goes on with the character.                      *)
LEMMA TypedParts ==
  ASSUME IInv, Completing, AtEndOfTerm, NEW char \in Typed
  PROVE  \E u \in Words, off \in Nat, len \in Nat, text \in Words :
           /\ u = InsertedAt(char) /\ off = term.off /\ len = term.len /\ cur = off + len
           /\ off + (len + 1) <= Len(u)
           /\ Slice(u, 0, off) = Before
           /\ Slice(u, off + (len + 1), Len(u)) = Behind
           /\ text = Slice(u, off, off + (len + 1)) /\ Len(text) = len + 1
           /\ TermText \in Words /\ Same(TermText, text, Len(TermText))
<1>1. PICK s \in Words, off \in Nat, c \in Nat, n \in Nat :
        /\ s = line /\ off = term.off /\ c = term.off + term.len /\ off <= c /\ Len(s) = c + n
  BY TermAt
<1>2. PICK len \in Nat : len = term.len /\ c = off + len /\ c = cur
  BY <1>1 DEF AtEndOfTerm, IInv, InShape, Terms
<1>3. PICK u \in Words : /\ u = InsertedAt(char) /\ Len(u) = c + n + 1
                         /\ \A j \in 1 .. c : u[j] = s[j]
                         /\ \A j \in 1 .. n : u[c + 1 + j] = s[c + j]
  <2>1. char \in Chars
    BY CompleteAssumption
  <2>2. PICK l \in Nat : l = Len(s) /\ l = c + n
    BY <1>1
  <2>3. End = l /\ End - cur = n
    BY <1>1, <1>2, <2>2 DEF End
  <2>4. /\ InsertedAt(char) \in Words /\ Len(InsertedAt(char)) = End + 1
        /\ \A j \in 1 .. cur : InsertedAt(char)[j] = line[j]
        /\ InsertedAt(char)[cur + 1] = char
        /\ \A j \in 1 .. End - cur : InsertedAt(char)[cur + 1 + j] = line[cur + j]
    BY <2>1, InsertedIs
  <2>5. PICK u \in Words : u = InsertedAt(char)
    BY <2>4
  <2>6. /\ Len(u) = l + 1
        /\ \A j \in 1 .. c : u[j] = s[j]
        /\ \A j \in 1 .. n : u[c + 1 + j] = s[c + j]
    BY <1>1, <1>2, <2>3, <2>4, <2>5
  <2>7. l + 1 = c + n + 1
    BY <2>2
  <2> QED BY <2>5, <2>6, <2>7
<1>4. PICK z \in Nat, d \in Nat, q \in Nat : z = 0 /\ d = c + 1 /\ q = len + 1 /\ d = off + q
  <2>1. off + len + 1 = off + (len + 1)
    OBVIOUS
  <2> QED BY <1>2, <2>1
<1>5. Slice(u, z, z + off) = Slice(s, z, z + off)
  <2>1. z + off <= Len(u) /\ z + off <= Len(s)
    <3>1. Len(u) = c + n + 1 /\ Len(s) = c + n /\ off <= c
      BY <1>1, <1>3
    <3>2. z + off <= c + n + 1 /\ z + off <= c + n
      BY <1>4, <3>1
    <3> QED BY <3>1, <3>2
  <2>2. \A j \in 1 .. off : j \in 1 .. c /\ z + j = j
    BY <1>1, <1>4
  <2>3. \A j \in 1 .. off : u[z + j] = s[z + j]
    BY <1>3, <2>2
  <2>4. SamePart(u, z, s, z, off)
    BY <2>1, <2>3 DEF SamePart
  <2> QED BY <2>4, SameParts
<1>6. Slice(u, d, d + n) = Slice(s, c, c + n) /\ d + n = Len(u) /\ c + n = Len(s)
  <2>1. d + n <= Len(u) /\ c + n <= Len(s) /\ d + n = Len(u)
    <3>1. PICK m \in Nat, l \in Nat : m = Len(u) /\ m = c + n + 1 /\ l = Len(s) /\ l = c + n
      BY <1>1, <1>3
    <3> QED BY <1>4, <3>1
  <2>2. \A j \in 1 .. n : u[d + j] = s[c + j]
    <3>1. d = c + 1
      BY <1>4
    <3> QED BY <1>3, <3>1
  <2>3. SamePart(u, d, s, c, n)
    BY <2>1, <2>2 DEF SamePart
  <2>4. Slice(u, d, d + n) = Slice(s, c, c + n)
    BY <2>3, SameParts
  <2> QED BY <1>1, <2>1, <2>4
<1>7. PICK text \in Words : /\ text = Slice(u, off, off + q) /\ Len(text) = q
                            /\ \A j \in 1 .. q : text[j] = u[off + j]
  <2>1. off + q <= Len(u)
    BY <1>1, <1>3, <1>4
  <2>2. Reaches(u, off, q)
    BY <2>1 DEF Reaches
  <2>3. PICK text \in Words : IsPart(text, u, off, q)
    BY <2>2, PartGiven
  <2> QED BY <2>3 DEF IsPart
<1>8. PICK t \in Words : /\ t = Slice(s, off, off + len) /\ Len(t) = len
                         /\ \A j \in 1 .. len : t[j] = s[off + j]
  <2>1. off + len <= Len(s)
    BY <1>1, <1>2
  <2>2. Reaches(s, off, len)
    BY <2>1 DEF Reaches
  <2>3. PICK t \in Words : IsPart(t, s, off, len)
    BY <2>2, PartGiven
  <2> QED BY <2>3 DEF IsPart
<1>9. Same(t, text, Len(t))
  <2>1. \A j \in 1 .. len : j \in 1 .. q /\ off + j \in 1 .. c
    BY <1>2, <1>4
  <2>2. \A j \in 1 .. len : t[j] = text[j]
    BY <1>3, <1>7, <1>8, <2>1
  <2> QED BY <1>4, <1>7, <1>8, <2>2 DEF Same
<1>10. Before = Slice(u, 0, off) /\ TermText = t
  BY <1>1, <1>2, <1>4, <1>5, <1>8 DEF Before, TermText
<1>11. Behind = Slice(u, d, Len(u))
  BY <1>1, <1>6 DEF Behind, End
<1>12. off + q <= Len(u)
  BY <1>1, <1>3, <1>4
<1>13. /\ u = InsertedAt(char) /\ off = term.off /\ len = term.len /\ cur = off + len
       /\ off + (len + 1) <= Len(u)
       /\ Slice(u, 0, off) = Before
       /\ Slice(u, off + (len + 1), Len(u)) = Behind
       /\ text = Slice(u, off, off + (len + 1)) /\ Len(text) = len + 1
       /\ TermText \in Words /\ Same(TermText, text, Len(TermText))
  BY <1>1, <1>2, <1>3, <1>4, <1>7, <1>8, <1>9, <1>10, <1>11, <1>12
<1> QED BY <1>13, Zenon

(* What is typed leaves the candidates that it begins, and of one it puts  *)
(* in all.                                                                 *)
LEMMA NarrowsTo ==
  ASSUME TypesInTerm, IInv, Completing, AtEndOfTerm, NEW char \in Typed, InsertChar(char)
  PROVE  Narrows(char)
<1>1. PICK u \in Words, off \in Nat, len \in Nat, text \in Words :
        /\ u = InsertedAt(char) /\ off = term.off /\ len = term.len /\ cur = off + len
        /\ off + (len + 1) <= Len(u)
        /\ Slice(u, 0, off) = Before
        /\ Slice(u, off + (len + 1), Len(u)) = Behind
        /\ text = Slice(u, off, off + (len + 1)) /\ Len(text) = len + 1
        /\ TermText \in Words /\ Same(TermText, text, Len(TermText))
  BY TypedParts
<1>2. PICK q \in Nat : q = len + 1 /\ off + len + 1 = off + q
  OBVIOUS
<1>3. PICK e \in Edits :
        /\ e.line = u /\ e.term = term /\ e.comp = comp /\ Sound(e) /\ e.comp.at # 0
        /\ \E f \in Edits :
             /\ f = Update(e) /\ Sound(f) /\ Edited(f)
             /\ f.comp # NoComp =>
                  f.comp.words = comp.words /\ f.comp.idx # 0 /\ f.comp.at # 0 /\ TermIn(f)
             /\ w' = IF f.comp = NoComp THEN ShowClear(w)
                     ELSE Follow(comp.words, comp.idx, f.comp.idx)
  BY <1>1, TypedIs
<1>4. PICK f \in Edits :
        /\ f = Update(e) /\ Sound(f) /\ Edited(f)
        /\ f.comp # NoComp =>
             f.comp.words = comp.words /\ f.comp.idx # 0 /\ f.comp.at # 0 /\ TermIn(f)
        /\ w' = IF f.comp = NoComp THEN ShowClear(w)
                ELSE Follow(comp.words, comp.idx, f.comp.idx)
  BY <1>3
<1>5. PICK s \in Seq(Words), at \in Nat : /\ s = comp.words /\ at = comp.at
                                          /\ at \in 1 .. Len(s) /\ Len(s) \in Nat
  <2>1. comp.words \in Seq(Words) /\ comp.at \in Nat /\ comp.at <= Len(comp.words)
    BY DEF IInv, InShape, Comps, Within
  <2>2. Len(comp.words) \in Nat
    BY <2>1, LenProperties
  <2> QED BY <1>3, <2>1, <2>2
<1>6. \A k \in 1 .. at - 1 : ~IsPrefix(TermText, s[k])
  BY <1>5 DEF InsertChar, TypesInTerm, Beyond
<1> DEFINE fits == {k \in 1 .. Len(s) : IsPrefix(text, s[k])}
<1>7. fits = Fitting(s, at, text)
  <2>1. \A k \in 1 .. Len(s) : IsPrefix(text, s[k]) => IsPrefix(TermText, s[k])
    <3> SUFFICES ASSUME NEW k \in 1 .. Len(s), IsPrefix(text, s[k]) PROVE IsPrefix(TermText, s[k])
      OBVIOUS
    <3>1. PICK v \in Words : v = s[k]
      BY <1>5, ElementOfSeq
    <3>2. PICK t \in Words : t = TermText /\ Same(t, text, Len(t))
      BY <1>1
    <3>3. Same(text, v, Len(text))
      BY <3>1, PrefixIs
    <3>4. Len(t) \in Nat /\ Len(text) \in Nat /\ Len(v) \in Nat
      BY LenProperties DEF Words
    <3>5. Same(t, v, Len(t))
      BY <3>2, <3>3, <3>4 DEF Same
    <3> QED BY <3>1, <3>2, <3>5, PrefixIs
  <2>2. \A k \in fits : k >= at
    <3> SUFFICES ASSUME NEW k \in fits, ~(k >= at) PROVE FALSE
      OBVIOUS
    <3>1. k \in 1 .. at - 1
      BY <1>5
    <3> QED BY <1>6, <2>1, <3>1
  <2> QED BY <1>5, <2>2 DEF Fitting
<1> HIDE DEF fits
<1> DEFINE now == Slice(line', term'.off, term'.off + term'.len)
           Few == /\ Cardinality(fits) > 1 =>
                       /\ w'.mode = "completion" /\ IsPrefix(text, now)
                       /\ \A k \in fits : IsPrefix(now, s[k])
                  /\ \A k \in fits : fits = {k} =>
                       w'.mode = "none" /\ line' = Before \o Quoted(s[k], term) \o Behind
<1>8. Few => Narrows(char)
  <2>1. /\ Cnt = Len(s) /\ comp.words = s
        /\ Slice(InsertedAt(char), term.off, term.off + term.len + 1) = text
    BY <1>1, <1>2, <1>5 DEF Cnt
  <2>2. fits = {k \in 1 .. Cnt : IsPrefix(text, comp.words[k])}
    BY <2>1 DEF fits
  <2> QED BY <2>1, <2>2 DEF Narrows
<1>9. CASE fits = {}
  <2>1. Cardinality(fits) = 0
    BY <1>9, FS_EmptySet
  <2>2. ~(Cardinality(fits) > 1)
    BY <2>1
  <2> QED BY <1>8, <1>9, <2>2
<1>10. CASE fits # {}
  <2>1. PICK p : p = FindPrefix(s, at, text)
    OBVIOUS
  <2>2. /\ p.k \in fits /\ p.match = Cardinality(fits)
        /\ p.len \in Nat /\ Len(text) <= p.len /\ p.len <= Len(s[p.k])
        /\ \A k \in fits : Same(s[p.k], s[k], p.len)
    <3>1. Fitting(s, at, text) # {}
      BY <1>7, <1>10
    <3>2. /\ p.k \in Fitting(s, at, text) /\ p.match = Cardinality(Fitting(s, at, text))
          /\ p.len \in Nat /\ Len(text) <= p.len /\ p.len <= Len(s[p.k])
          /\ \A k \in Fitting(s, at, text) : Same(s[p.k], s[k], p.len)
      BY <1>5, <2>1, <3>1, FittingFound
    <3> QED BY <1>7, <3>2
  <2>3. p.k \in 1 .. Len(s) /\ p.k # 0
    <3>1. p.k \in 1 .. Len(s)
      BY <2>2 DEF fits
    <3> QED BY <1>5, <3>1
  <2>4. Longer(e) = off + q /\ e.term.off = off /\ e.term.len + 1 = q
    BY <1>1, <1>2, <1>3 DEF Longer
  <2>5. Longer(e) <= Len(e.line)
    BY <1>1, <1>2, <1>3, <2>4
  <2>6. f = Narrow(e, p)
    <3>1. Slice(e.line, e.term.off, e.term.off + (e.term.len + 1)) = text
      BY <1>1, <1>2, <1>3, <2>4
    <3>2. p = FindPrefix(e.comp.words, e.comp.at, Slice(e.line, e.term.off, e.term.off + (e.term.len + 1)))
      BY <1>3, <1>5, <2>1, <3>1
    <3>3. p.len >= e.term.len + 1
      <4>1. p.len >= q
        BY <1>1, <1>2, <2>2
      <4> QED BY <2>4, <4>1
    <3>4. ~(e.term.off + (e.term.len + 1) > Len(e.line))
      <4>1. Len(u) \in Nat
        BY LenProperties DEF Words
      <4> QED BY <1>1, <1>2, <1>3, <2>4, <4>1
    <3> QED BY <1>4, <2>3, <3>2, <3>3, <3>4 DEF Update
  <2>7. IF p.match = 1
        THEN /\ f.comp = NoComp
             /\ f.line = Joined(u, off, off + q, Quoted(s[p.k], term))
        ELSE /\ f.comp.idx # 0 /\ f.term.off = off /\ f.term.len = p.len
             /\ f.line = Joined(u, off, off + q, SubSeq(s[p.k], 1, p.len))
    <3>1. e.comp.words = s
      BY <1>3, <1>5
    <3>2. p.k \in 1 .. Len(e.comp.words) /\ p.len \in Nat /\ p.len <= Len(e.comp.words[p.k])
      BY <2>2, <2>3, <3>1
    <3>3. Picked(e, p)
      BY <2>5, <3>2 DEF Picked
    <3>4. Narrowed(e, p, f)
      BY <1>3, <2>6, <3>3, NarrowedIs
    <3> QED BY <1>3, <2>4, <3>1, <3>4 DEF Narrowed
  <2>8. line' = f.line /\ term' = f.term
    BY <1>4 DEF Edited
  <2>9. PICK word \in Words, n \in Nat : word = s[p.k] /\ n = p.len /\ n <= Len(word)
    BY <1>5, <2>2, <2>3, ElementOfSeq
  <2>10. ASSUME Cardinality(fits) > 1
         PROVE  /\ w'.mode = "completion" /\ IsPrefix(text, now)
                /\ \A k \in fits : IsPrefix(now, s[k])
    <3>1. p.match # 1
      BY <2>2, <2>10
    <3>2. /\ f.comp # NoComp /\ f.comp.words = comp.words /\ f.comp.idx \in 0 .. Cnt
          /\ w' = Follow(comp.words, comp.idx, f.comp.idx)
      <4>1. f.comp.idx # 0
        BY <2>7, <3>1
      <4>2. f.comp # NoComp
        BY <4>1 DEF NoComp
      <4>3. f.comp.idx \in Nat /\ f.comp.idx <= Len(f.comp.words)
        BY <1>4 DEF Sound, Within, Edits, Comps
      <4> QED BY <1>4, <1>5, <4>2, <4>3 DEF Cnt
    <3>3. w'.mode = "completion"
      <4>1. comp'.words = comp.words /\ others' = others
        BY <1>4, <3>2 DEF Edited, InsertChar
      <4> QED BY <3>2, <4>1, Follows
    <3>4. PICK z \in Nat : z = 0 /\ z + n = n /\ z + 1 = 1 /\ z + n <= Len(word)
      BY <2>9
    <3>5. PICK part \in Words : /\ part = SubSeq(word, 1, n) /\ Len(part) = n
                                /\ \A j \in 1 .. n : part[j] = word[j]
      <4>1. Reaches(word, z, n)
        BY <3>4 DEF Reaches
      <4>2. PICK part \in Words : IsPart(part, word, z, n)
        BY <2>9, <3>4, <4>1, PartGiven
      <4>3. /\ part = Slice(word, z, z + n) /\ Len(part) = n
            /\ \A j \in 1 .. n : part[j] = word[z + j]
        BY <4>2 DEF IsPart
      <4>4. Slice(word, z, z + n) = SubSeq(word, 1, n)
        BY <3>4 DEF Slice
      <4>5. \A j \in 1 .. n : z + j = j
        BY <2>9, <3>4
      <4> QED BY <4>3, <4>4, <4>5
    <3>6. line' = Joined(u, off, off + q, part) /\ term'.off = off /\ term'.len = n
      <4>1. f.line = Joined(u, off, off + q, SubSeq(s[p.k], 1, p.len)) /\ f.term.off = off /\ f.term.len = p.len
        BY <2>7, <3>1, Zenon
      <4>2. SubSeq(s[p.k], 1, p.len) = part
        <5>1. SubSeq(s[p.k], 1, p.len) = SubSeq(word, 1, n)
          BY <2>9
        <5>2. part = SubSeq(word, 1, n)
          BY <3>5
        <5> QED BY <5>1, <5>2
      <4> QED BY <2>8, <2>9, <4>1, <4>2
    <3>7. now = part
      <4>1. PICK d \in Nat : d = off + q /\ off <= d /\ d <= Len(u)
        <5>1. off + q <= Len(u)
          BY <1>1, <1>2
        <5>2. off + q \in Nat /\ off <= off + q
          BY <1>2
        <5> QED BY <5>1, <5>2
      <4>2. Slice(line', off, off + n) = part
        <5>1. PICK t \in Words : t = Joined(u, off, d, part)
          BY <4>1, JoinIs
        <5>2. Slice(t, off, off + Len(part)) = part
          BY <4>1, <5>1, JoinedPart
        <5> QED BY <3>5, <3>6, <4>1, <5>1, <5>2
      <4> QED BY <3>6, <4>2
    <3>8. \A k \in fits : IsPrefix(part, s[k])
      <4> TAKE k \in fits
      <4>1. PICK v \in Words : v = s[k] /\ Same(word, v, n)
        <5>1. k \in 1 .. Len(s)
          BY DEF fits
        <5> QED BY <1>5, <2>2, <2>9, <5>1, ElementOfSeq
      <4>2. Same(part, v, Len(part))
        BY <3>5, <4>1 DEF Same
      <4> QED BY <4>1, <4>2, PrefixIs
    <3>9. IsPrefix(text, part)
      <4>1. Same(text, word, Len(text))
        BY <2>2, <2>9, PrefixIs DEF fits
      <4>2. Len(text) \in Nat /\ Len(text) <= n
        BY <1>1, <1>2, <2>2, <2>9
      <4>3. Same(text, part, Len(text))
        BY <3>5, <4>1, <4>2 DEF Same
      <4> QED BY <4>3, PrefixIs
    <3> QED BY <3>3, <3>7, <3>8, <3>9
  <2>11. ASSUME NEW k \in fits, fits = {k}
         PROVE  w'.mode = "none" /\ line' = Before \o Quoted(s[k], term) \o Behind
    <3>1. Cardinality(fits) = 1 /\ p.k = k
      BY <2>2, <2>11, FS_Singleton
    <3>2. p.match = 1
      BY <2>2, <3>1
    <3>3. w' = ShowClear(w) /\ line' = Joined(u, off, off + q, Quoted(s[k], term))
      BY <1>4, <2>7, <2>8, <3>1, <3>2
    <3>4. w'.mode = "none"
      BY <3>3, ClearIs DEF IInv, InShape
    <3> QED BY <1>1, <1>2, <3>3, <3>4 DEF Joined
  <2> QED BY <1>8, <2>10, <2>11
<1> QED BY <1>9, <1>10

(* The keys of the window select nothing while at is not set.              *)
LEMMA SelectCandidateFinds ==
  ASSUME "upAtNone" \notin Habits, IInv, Found, NEW how \in Items, SelectCandidate(how)
  PROVE  Found'
<1>1. comp \in Comps /\ w \in Windows
  BY DEF IInv, InShape
<1>2. ASSUME Completing PROVE w.start \in Int /\ w.end \in Int /\ w.start # 0 /\ w.end # 0
  <2>1. Fits(w, Cnt)
    BY <1>2, Counts DEF Completing
  <2> QED BY <1>1, <2>1 DEF Fits, Windows
<1>3. CASE how = "PREV_ITEM" /\ PrevCandidate
  <2>1. comp.at # 0 /\ \E idx : comp' = [comp EXCEPT !.idx = idx]
    BY <1>3 DEF PrevCandidate, NoneFoundUp
  <2> QED BY <1>1, <2>1 DEF Found, Comps
<1>4. CASE how = "NEXT_ITEM" /\ NextCandidate
  <2> DEFINE on == Shows(w, comp.idx)
  <2>1. Completing /\ \E idx : comp' = [comp EXCEPT !.idx = idx, !.at = IF on THEN @ ELSE w.start]
    BY <1>4 DEF NextCandidate
  <2>2. comp'.at = IF on THEN comp.at ELSE w.start
    <3> HIDE DEF on
    <3> QED BY <1>1, <2>1 DEF Comps
  <2>3. on => comp.idx # 0
    <3>1. 1 <= w.start
      BY <2>1, Counts DEF Completing, Fits
    <3> QED BY <1>1, <3>1 DEF Shows, Comps, Windows
  <2> QED BY <1>2, <2>1, <2>2, <2>3 DEF Found
<1>5. CASE \E idx \in {w.start, w.end} : EndCandidate(idx)
  <2>1. PICK idx \in {w.start, w.end} : EndCandidate(idx)
    BY <1>5
  <2>2. /\ Completing
        /\ comp' = IF comp.idx = idx THEN comp ELSE [comp EXCEPT !.idx = idx, !.at = idx]
    BY <2>1 DEF EndCandidate
  <2>3. comp' = comp \/ comp'.at = idx
    BY <1>1, <2>2 DEF Comps
  <2> QED BY <1>2, <2>1, <2>2, <2>3 DEF Found
<1>6. CASE UNCHANGED <<comp, w>>
  BY <1>6 DEF Found, Completing
<1> QED BY <1>3, <1>4, <1>5, <1>6 DEF SelectCandidate, Items

LEMMA FoundKept ==
  ASSUME TypesInTerm, "upAtNone" \notin Habits, IInv, Found, [Next]_vars
  PROVE  Found'
<1>1. CASE UNCHANGED vars
  BY <1>1 DEF vars, Found, Completing
<1>2. CASE \E char \in Typed : InsertChar(char)
  BY <1>2, InsertCharMarks
<1>3. CASE \E action \in Tabs : TabNext(action)
  BY <1>3, TabNextMarks
<1>4. CASE \E how \in Items : SelectCandidate(how)
  BY <1>4, SelectCandidateFinds
<1> QED BY <1>1, <1>2, <1>3, <1>4, OtherMarks DEF Next

(* While candidates are shown, TAB is only the next of them, GO_RIGHT only *)
(* takes the selected one, and a character is only typed.                  *)
LEMMA CompletingKeys ==
  ASSUME IInv, Completing, Next
  PROVE  /\ key' \in Tabs => \E action \in Tabs : TabNext(action)
         /\ key' = "GO_RIGHT" => GoRight
         /\ \A char \in Typed : key' = char => InsertChar(char)
<1>1. \A char \in Typed : char \notin Actions
  BY CompleteAssumption
<1>2. Tabs \subseteq Actions /\ "GO_RIGHT" \in Actions /\ "GO_RIGHT" \notin Tabs
  BY DEF Tabs, Actions
<1>3. CASE \E char \in Typed : InsertChar(char)
  <2>1. PICK char \in Typed : InsertChar(char) /\ key' = char
    BY <1>3 DEF InsertChar, Does
  <2> QED BY <1>1, <1>2, <2>1
<1>4. CASE GoRight
  <2>1. key' = "GO_RIGHT"
    BY <1>4 DEF GoRight, Does
  <2> QED BY <1>1, <1>2, <1>4, <2>1
<1>5. CASE \E action \in Tabs : TabNext(action)
  <2>1. key' \in Tabs
    BY <1>5 DEF TabNext, Does
  <2> QED BY <1>1, <1>2, <1>5, <2>1
<1>6. CASE key' \in Actions \ (Tabs \cup {"GO_RIGHT"})
  BY <1>1, <1>6
<1> DEFINE Others == Actions \ (Tabs \cup {"GO_RIGHT"})
<1>7. CASE GoLeft \/ ShowKeys \/ Clear \/ FinishLine
  <2>1. key' \in Others
    BY <1>7 DEF GoLeft, ShowKeys, Clear, FinishLine, Does, Actions, Tabs
  <2> QED BY <1>6, <2>1
<1>8. CASE \E type \in Types : \E action \in ActionOf(type) : StartCompletion(type, action)
  <2>1. PICK type \in Types : \E action \in ActionOf(type) : StartCompletion(type, action)
    BY <1>8
  <2>2. PICK action \in ActionOf(type) : StartCompletion(type, action)
    BY <2>1
  <2>3. action \notin Tabs /\ key' = action
    BY <2>2 DEF StartCompletion, Completing
  <2>4. action \in {"TAB_COMPLETE", "TAB_REVERSE", "SHOW", "SHOW_HELP"}
    BY DEF ActionOf
  <2>5. key' \in Others
    BY <2>3, <2>4 DEF Actions, Tabs
  <2> QED BY <1>6, <2>5
<1>9. ~(\E action \in Tabs : TabAcceptHistory(action))
  BY DEF TabAcceptHistory, Completing
<1>10. ~Completes
  BY DEF Completes, IInv, Apart
<1>11. CASE \E how \in Items : SelectCandidate(how) \/ SelectEntry(how)
  <2>1. key' \in Others
    BY <1>11 DEF SelectCandidate, SelectEntry, Items, Does, Actions, Tabs
  <2> QED BY <1>6, <2>1
<1>12. ~(\E n \in 1 .. HistCnt : GotoEntry(n))
  BY DEF GotoEntry
<1>13. CASE \E how \in DOMAIN PageKey : Page(how) \/ PageHistory(how)
  <2>1. key' \in Others
    BY <1>13 DEF Page, PageHistory, PageKey, Does, Actions, Tabs
  <2> QED BY <1>6, <2>1
<1>14. /\ ~(\E words \in Lists :
              \/ \E added \in BOOLEAN : CompleteTerm(words, added)
              \/ CompleteHistory(words))
       /\ ~(\E words \in Helps : CompleteHelp(words))
  BY <1>10 DEF CompleteTerm, CompleteHistory, CompleteHelp
<1>15. CASE \E action \in Tabs : TabAcceptHistory(action) \/ TabNext(action)
  BY <1>5, <1>9, <1>15
<1> QED
  BY <1>3, <1>4, <1>7, <1>8, <1>11, <1>12, <1>13, <1>14, <1>15 DEF Next

LEMMA Selected ==
  ASSUME IInv, Found, Next
  PROVE  Selects
<1>1. ASSUME key' \in Tabs, Completing
      PROVE  Slice(line', term'.off, term'.off + term'.len) = comp'.words[comp'.idx]
  <2>1. \E action \in Tabs : TabNext(action)
    BY <1>1, CompletingKeys
  <2>2. PICK f \in Edits :
           /\ Edited(f) /\ f.comp.words = comp.words
           /\ f.comp.at = IF comp.idx = 0 THEN 1 ELSE comp.at
           /\ f.comp.at # 0 =>
                \E text \in Words :
                  /\ text = comp.words[f.comp.idx]
                  /\ f.line = Joined(line, term.off, term.off + term.len, text)
                  /\ f.term.off = term.off /\ f.term.len = Len(text)
    BY <2>1, TabNextIs
  <2>3. f.comp.at # 0
    BY <1>1, <2>2 DEF Found
  <2>4. PICK text \in Words :
          /\ text = comp.words[f.comp.idx]
          /\ f.line = Joined(line, term.off, term.off + term.len, text)
          /\ f.term.off = term.off /\ f.term.len = Len(text)
    BY <2>2, <2>3
  <2>5. /\ line' = Joined(line, term.off, term.off + term.len, text)
        /\ term'.off = term.off /\ term'.len = Len(text) /\ comp'.words[comp'.idx] = text
    BY <2>2, <2>4 DEF Edited
  <2>6. PICK s \in Words, from \in Nat, to \in Nat, n \in Nat :
          /\ s = line /\ from = term.off /\ to = term.off + term.len
          /\ from <= to /\ Len(s) = to + n
    BY <1>1, TermAt
  <2>7. to <= Len(s)
    BY <2>6
  <2>8. PICK t \in Words : t = Joined(s, from, to, text)
    BY <2>6, <2>7, JoinIs
  <2>9. Slice(t, from, from + Len(text)) = text
    BY <2>6, <2>7, <2>8, JoinedPart
  <2> QED BY <2>5, <2>6, <2>8, <2>9
<1>2. ASSUME key' = "GO_RIGHT", Completing, comp.idx # 0
      PROVE  line' = Before \o Quoted(comp.words[comp.idx], term) \o Behind
  <2>1. GoRight
    BY <1>2, CompletingKeys
  <2>2. Edited(Accept(Edit))
    BY <1>2, <2>1 DEF GoRight
  <2>3. /\ Edit \in Edits /\ Sound(Edit) /\ TermIn(Edit)
        /\ Edit.line = line /\ Edit.term = term /\ Edit.comp = comp
    BY <1>2, EditIs
  <2>4. comp.at # 0
    BY <1>2 DEF Found
  <2>5. PICK text \in Words : /\ text = Quoted(comp.words[comp.idx], term)
                              /\ Accept(Edit) = Reset(Put(Edit, text))
    BY <1>2, <2>3, <2>4, AcceptIs
  <2>6. /\ Put(Edit, text) \in Edits
        /\ Put(Edit, text).line = Joined(line, term.off, term.off + term.len, text)
    BY <2>3, PutIs
  <2>7. line' = Joined(line, term.off, term.off + term.len, text)
    BY <2>2, <2>5, <2>6, ResetIs DEF Edited
  <2> QED BY <2>5, <2>7 DEF Joined, Before, Behind, End
<1> QED BY <1>1, <1>2 DEF Selects

(* What is selected is what comes into the line: TAB puts in the candidate *)
(* it selects, GO_RIGHT quotes it, and a character typed at the end of the *)
(* term leaves the candidates that the term then begins, as far as they    *)
(* agree, and all of the only one (completion_update, completion_accept,   *)
(* tab_next_completion).                                                   *)
THEOREM SelectionTaken ==
  ASSUME TypesInTerm, "upAtNone" \notin Habits
  PROVE  Spec => AsSelected
<1> DEFINE I == IInv /\ Found
           Takes == Selects /\ \A char \in Typed : Narrows(char)
<1>1. Init => I
  BY InitShape DEF Init, Found, NoComp
<1>2. I /\ [Next]_vars => I'
  BY NextKeeps, FoundKept
<1>3. I /\ [Next]_vars => [Takes]_vars
  <2> SUFFICES ASSUME I, Next PROVE Takes
    OBVIOUS
  <2>1. Selects
    BY Selected
  <2>2. ASSUME NEW char \in Typed PROVE Narrows(char)
    <3>1. CASE key' = char /\ Completing /\ AtEndOfTerm
      BY <3>1, CompletingKeys, NarrowsTo
    <3>2. CASE ~(key' = char /\ Completing /\ AtEndOfTerm)
      BY <3>2 DEF Narrows
    <3> QED BY <3>1, <3>2
  <2> QED BY <2>1, <2>2
<1>4. AsSelected <=> [][Takes]_vars
  BY DEF AsSelected
<1> HIDE DEF I, Takes
<1> QED BY <1>1, <1>2, <1>3, <1>4, PTL DEF Spec
=============================================================================
