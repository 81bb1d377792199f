------------------------------ MODULE Terminal ------------------------------
(***************************************************************************)
(* A terminal, as far as src/src/lineio.cpp and the ANSI_ sequences of     *)
(* src/include/linecook/linecook.h rely on one: a window of Cols columns   *)
(* onto which characters are printed at a cursor.  External to the         *)
(* repository.                                                             *)
(*                                                                         *)
(* Row 0 is the row where the prompt was printed, which the model does not *)
(* look above, and bottom the last row of the window, below which a line   *)
(* feed scrolls.  A character printed into the last column leaves the      *)
(* cursor there, at col = Cols, until the next one wraps.                  *)
(***************************************************************************)
EXTENDS Integers, Sequences

CONSTANTS Cols, \* the columns of the window
          Rows  \* bound: the rows that a run writes to

Wide  == "W"  \* a character of two columns
Half  == "."  \* what follows it: its second column, a zero in line[]
Blank == " "

ASSUME TerminalAssumption == Cols \in Nat /\ Cols > 2 /\ Rows \in Nat \ {0}

Places == 0 .. Rows * Cols - 1
At(t, p) == t.cell[p]
Place(t) == t.row * Cols + t.col

Window == [cell |-> [p \in Places |-> Blank], row |-> 0, col |-> 0, bottom |-> 0]

Least(a, b) == IF a < b THEN a ELSE b
Most(a, b)  == IF a > b THEN a ELSE b

Return(t) == [t EXCEPT !.col = 0]
Feed(t)   == [t EXCEPT !.row = @ + 1, !.bottom = Most(@, t.row + 1)]
Up(t, n)    == [t EXCEPT !.row = @ - n]
Down(t, n)  == [t EXCEPT !.row = Least(t.bottom, @ + n)]
Left(t, n)  == [t EXCEPT !.col = Most(0, Least(@, Cols - 1) - n)]
Right(t, n) == [t EXCEPT !.col = Least(Cols - 1, @ + n)]

(* A character that loses a half of it is a blank.                         *)
Whole(cell, p) ==
  CASE cell[p] = Wide -> p + 1 \in Places /\ cell[p + 1] = Half
    [] cell[p] = Half -> p > 0 /\ cell[p - 1] = Wide
    [] OTHER -> TRUE

Written(t, from, chars) ==
  LET cell == [p \in Places |-> IF p - from \in 0 .. Len(chars) - 1
                                 THEN chars[p - from + 1] ELSE t.cell[p]]
  IN [t EXCEPT !.cell = [p \in Places |-> IF Whole(cell, p) THEN cell[p] ELSE Blank]]

Blanks(n) == [i \in 1 .. n |-> Blank]
EraseToEnd(t) == Written(t, Place(t), Blanks(Cols - t.col))
EraseRow(t)   == Written(t, t.row * Cols, Blanks(Cols))

(* A half prints nothing, as a zero in line[] does.                        *)
Printed(t, char) ==
  LET cells == IF char = Wide THEN <<Wide, Half>> ELSE <<char>>
      u == IF t.col + Len(cells) > Cols THEN Feed(Return(t)) ELSE t
  IN IF char = Half THEN t
     ELSE [Written(u, Place(u), cells) EXCEPT !.col = @ + Len(cells)]

=============================================================================
