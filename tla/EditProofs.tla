----------------------------- MODULE EditProofs -----------------------------
(***************************************************************************)
(* What is proved of Edit, for a terminal of any size, any keys and any    *)
(* bounds, when the user is Careful: the cursor is never inside of a       *)
(* character, and on one when the command mode waits; a yank takes the     *)
(* place of the one before and of nothing else; and, when what the yank    *)
(* buffer was popped to is not killed again, what a kill took away comes   *)
(* back with a paste.  Of the terminal it only says where State takes the  *)
(* cursor to be.                                                           *)
(***************************************************************************)
EXTENDS Edit, SequenceTheorems, WellFoundedInduction, TLAPS

-----------------------------------------------------------------------------
(* Numbers.                                                                *)

(* A set of numbers has a least one.                                       *)
LEMMA LeastOf ==
  ASSUME NEW S \in SUBSET Nat, S # {}
  PROVE  \E k \in S : \A j \in S : k <= j
<1> DEFINE R == OpToRel(<, Nat)
<1>1. IsWellFoundedOn(R, Nat)
  BY NatLessThanWellFounded
<1>2. \A j, k \in S : j < k => <<j, k>> \in R
  BY DEF OpToRel
<1> HIDE DEF R
<1>3. PICK k \in S : \A j \in S : ~(<<j, k>> \in R)
  BY <1>1, WFMin
<1>4. \A j \in S : j \in Nat
  OBVIOUS
<1>5. \A j \in S : ~(j < k)
  BY <1>2, <1>3
<1> QED BY <1>4, <1>5

(* A set of numbers with a bound has a greatest one.                       *)
LEMMA GreatestOf ==
  ASSUME NEW n \in Nat, NEW S \in SUBSET (0 .. n), S # {}
  PROVE  \E k \in S : \A j \in S : j <= k
<1> DEFINE T == {n - k : k \in S}
<1>1. T \in SUBSET Nat /\ T # {}
  <2>1. \A k \in S : k \in 0 .. n /\ n - k \in Nat
    OBVIOUS
  <2> QED BY <2>1
<1>2. PICK m \in T : \A j \in T : m <= j
  BY <1>1, LeastOf, Zenon
<1>3. PICK k \in S : m = n - k
  BY <1>2
<1>4. \A j \in S : n - j \in T
  OBVIOUS
<1>5. \A j \in S : j <= k
  BY <1>2, <1>3, <1>4
<1> QED BY <1>5

-----------------------------------------------------------------------------
(* Lines.                                                                  *)

(* Nothing of it takes two columns.                                        *)
Narrow(s) == \A i \in 1 .. Len(s) : s[i] # Wide

LEMMA LineIs ==
  ASSUME NEW s \in Lines
  PROVE  Len(s) \in Nat /\ DOMAIN s = 1 .. Len(s) /\ \A i \in 1 .. Len(s) : s[i] \in Glyphs
BY LenProperties, ElementOfSeq DEF Lines

LEMMA Ends ==
  ASSUME NEW s, Paired(s)
  PROVE  s \in Lines /\ Len(s) \in Nat /\ Edge(s, 0) /\ Edge(s, Len(s))
BY LineIs DEF Paired, Edge

(* The part of a line from one place to another.                           *)
LEMMA SliceIs ==
  ASSUME NEW s \in Lines, NEW from \in Nat, NEW to \in Nat, from <= to, to <= Len(s)
  PROVE  /\ Slice(s, from, to) \in Lines
         /\ Len(Slice(s, from, to)) = to - from
         /\ \A j \in 1 .. to - from : Slice(s, from, to)[j] = s[from + j]
<1>1. Len(s) \in Nat /\ s \in Seq(Glyphs)
  BY LineIs DEF Lines
<1>2. \A j \in from + 1 .. to : s[j] \in Glyphs
  BY <1>1, LineIs
<1>3. from + 1 \in Int /\ to \in Int
  OBVIOUS
<1>4. /\ SubSeq(s, from + 1, to) \in Seq(Glyphs)
      /\ Len(SubSeq(s, from + 1, to)) = IF from + 1 <= to THEN to - (from + 1) + 1 ELSE 0
      /\ \A j \in 1 .. to - (from + 1) + 1 : SubSeq(s, from + 1, to)[j] = s[from + 1 + j - 1]
  BY <1>2, <1>3, SubSeqProperties
<1>5. \A j \in 1 .. to - from : from + 1 + j - 1 = from + j
  OBVIOUS
<1> QED BY <1>4, <1>5 DEF Slice, Lines

(* The part of a line up to a place.                                       *)
LEMMA BeginningIs ==
  ASSUME NEW s \in Lines, NEW to \in Nat, to <= Len(s)
  PROVE  /\ Slice(s, 0, to) \in Lines
         /\ Len(Slice(s, 0, to)) = to
         /\ \A j \in 1 .. to : Slice(s, 0, to)[j] = s[j]
<1>1. 0 \in Nat /\ 0 <= to /\ to - 0 = to
  OBVIOUS
<1>2. /\ Slice(s, 0, to) \in Lines
      /\ Len(Slice(s, 0, to)) = to - 0
      /\ \A j \in 1 .. to - 0 : Slice(s, 0, to)[j] = s[0 + j]
  BY <1>1, SliceIs
<1>3. \A j \in 1 .. to : 0 + j = j
  OBVIOUS
<1> QED BY <1>1, <1>2, <1>3

(* A part of a line from one edge to another is a line.                    *)
LEMMA SlicePaired ==
  ASSUME NEW s, Paired(s), NEW from, NEW to, Edge(s, from), Edge(s, to), from <= to
  PROVE  /\ Paired(Slice(s, from, to)) /\ Slice(s, from, to) \in Lines
         /\ Len(Slice(s, from, to)) = to - from
         /\ \A j \in 1 .. to - from : Slice(s, from, to)[j] = s[from + j]
<1>1. /\ s \in Lines /\ Len(s) \in Nat /\ from \in Nat /\ to \in Nat
      /\ from <= to /\ to <= Len(s)
  BY Ends DEF Edge
<1>2. PICK u \in Lines : /\ u = Slice(s, from, to) /\ Len(u) = to - from
                         /\ \A j \in 1 .. to - from : u[j] = s[from + j]
  BY <1>1, SliceIs
<1>3. \A j \in 1 .. Len(u) : u[j] = Half <=> j > 1 /\ u[j - 1] = Wide
  <2> TAKE j \in 1 .. Len(u)
  <2>1. PICK k \in 1 .. Len(s) : k = from + j
    BY <1>1, <1>2
  <2>2. u[j] = s[k] /\ j \in Nat /\ j >= 1
    BY <1>2, <2>1
  <2>3. s[k] = Half <=> k > 1 /\ s[k - 1] = Wide
    BY DEF Paired
  <2>4. CASE j = 1
    <3>1. from < Len(s) => s[from + 1] # Half
      BY DEF Edge
    <3>2. from < Len(s) /\ k = from + 1
      BY <1>1, <1>2, <2>1, <2>4
    <3>3. s[k] # Half
      BY <3>1, <3>2
    <3> QED BY <2>2, <2>4, <3>3
  <2>5. CASE j > 1
    <3>1. PICK i \in 1 .. to - from : i = j - 1
      BY <1>1, <1>2, <2>2, <2>5
    <3>2. u[i] = s[from + i] /\ from + i = k - 1
      BY <1>1, <1>2, <2>1, <3>1
    <3>3. k > 1
      BY <1>1, <2>1, <2>5
    <3> QED BY <2>2, <2>3, <2>5, <3>1, <3>2, <3>3
  <2> QED BY <2>2, <2>4, <2>5
<1>4. \A j \in 1 .. Len(u) : u[j] = Wide => j < Len(u)
  <2> SUFFICES ASSUME NEW j \in 1 .. Len(u), u[j] = Wide, ~(j < Len(u)) PROVE FALSE
    OBVIOUS
  <2>1. j = to - from /\ from + j = to /\ to \in 1 .. Len(s) /\ s[to] = Wide
    BY <1>1, <1>2
  <2>2. to < Len(s)
    BY <2>1 DEF Paired
  <2>3. PICK k \in 1 .. Len(s) : k = to + 1
    BY <1>1, <2>2
  <2>4. s[k] = Half <=> k > 1 /\ s[k - 1] = Wide
    BY DEF Paired
  <2>5. k > 1 /\ k - 1 = to
    BY <2>1, <2>3
  <2>6. s[to + 1] # Half
    BY <2>2 DEF Edge
  <2> QED BY <2>1, <2>3, <2>4, <2>5, <2>6
<1>5. Paired(u)
  BY <1>3, <1>4 DEF Paired
<1> QED BY <1>2, <1>5

LEMMA ConcatIs ==
  ASSUME NEW u \in Lines, NEW v \in Lines
  PROVE  /\ u \o v \in Lines
         /\ Len(u \o v) = Len(u) + Len(v)
         /\ \A j \in 1 .. Len(u) + Len(v) :
              (u \o v)[j] = IF j <= Len(u) THEN u[j] ELSE v[j - Len(u)]
BY ConcatProperties DEF Lines

(* A line after another is a line, in which the edges are those of both.   *)
LEMMA JoinPaired ==
  ASSUME NEW u, Paired(u), NEW v, Paired(v)
  PROVE  /\ Paired(u \o v)
         /\ Len(u \o v) = Len(u) + Len(v)
         /\ \A i : Edge(u, i) => Edge(u \o v, i)
         /\ \A i : Edge(v, i) => Edge(u \o v, Len(u) + i)
<1>1. u \in Lines /\ v \in Lines /\ Len(u) \in Nat /\ Len(v) \in Nat
  BY Ends
<1>2. PICK m \in Nat, n \in Nat : m = Len(u) /\ n = Len(v)
  BY <1>1
<1>3. PICK w \in Lines : w = u \o v
  BY <1>1, ConcatIs
<1>4. /\ Len(w) = m + n
      /\ \A j \in 1 .. m + n : w[j] = IF j <= m THEN u[j] ELSE v[j - m]
  <2>1. /\ Len(w) = Len(u) + Len(v)
        /\ \A j \in 1 .. Len(u) + Len(v) : w[j] = IF j <= Len(u) THEN u[j] ELSE v[j - Len(u)]
    BY <1>1, <1>3, ConcatIs
  <2> QED BY <1>2, <2>1
<1>5. \A j \in 1 .. m : w[j] = u[j]
  <2> TAKE j \in 1 .. m
  <2>1. j \in 1 .. m + n /\ j <= m
    OBVIOUS
  <2> QED BY <1>4, <2>1
<1>6. \A j \in 1 .. n : w[m + j] = v[j]
  <2> TAKE j \in 1 .. n
  <2>1. m + j \in 1 .. m + n /\ ~(m + j <= m) /\ m + j - m = j
    OBVIOUS
  <2> QED BY <1>4, <2>1
<1>7. \A j \in 1 .. m + n : j \in 1 .. m \/ \E i \in 1 .. n : j = m + i
  <2> TAKE j \in 1 .. m + n
  <2>1. j \in 1 .. m \/ (j - m \in 1 .. n /\ j = m + (j - m))
    OBVIOUS
  <2> QED BY <2>1
<1>8. /\ \A j \in 1 .. m : u[j] = Half <=> j > 1 /\ u[j - 1] = Wide
      /\ \A j \in 1 .. m : u[j] = Wide => j < m
  BY <1>2 DEF Paired
<1>9. /\ \A j \in 1 .. n : v[j] = Half <=> j > 1 /\ v[j - 1] = Wide
      /\ \A j \in 1 .. n : v[j] = Wide => j < n
  BY <1>2 DEF Paired
<1>10. \A j \in 1 .. m + n : w[j] = Half <=> j > 1 /\ w[j - 1] = Wide
  <2> TAKE j \in 1 .. m + n
  <2>1. CASE j \in 1 .. m
    <3>1. w[j] = u[j] /\ (u[j] = Half <=> j > 1 /\ u[j - 1] = Wide)
      BY <1>5, <1>8, <2>1
    <3>2. CASE j > 1
      <4>1. PICK i \in 1 .. m : i = j - 1
        BY <2>1, <3>2
      <4>2. w[i] = u[i]
        BY <1>5
      <4> QED BY <3>1, <4>1, <4>2
    <3> QED BY <2>1, <3>1, <3>2
  <2>2. ASSUME NEW k \in 1 .. n, j = m + k
        PROVE  w[j] = Half <=> j > 1 /\ w[j - 1] = Wide
    <3>1. w[j] = v[k] /\ (v[k] = Half <=> k > 1 /\ v[k - 1] = Wide)
      BY <1>6, <1>9, <2>2
    <3>2. CASE k > 1
      <4>1. PICK i \in 1 .. n : i = k - 1 /\ m + i = j - 1 /\ j > 1
        BY <2>2, <3>2
      <4>2. w[m + i] = v[i]
        BY <1>6
      <4> QED BY <3>1, <3>2, <4>1, <4>2
    <3>3. CASE k = 1 /\ m > 0
      <4>1. m \in 1 .. m /\ w[m] = u[m] /\ u[m] # Wide
        BY <1>5, <1>8, <3>3
      <4>2. j - 1 = m
        BY <2>2, <3>3
      <4> QED BY <3>1, <3>3, <4>1, <4>2
    <3>4. CASE k = 1 /\ m = 0
      <4>1. j = 1
        BY <2>2, <3>4
      <4> QED BY <3>1, <3>4, <4>1
    <3> QED BY <3>2, <3>3, <3>4
  <2> QED BY <1>7, <2>1, <2>2
<1>11. \A j \in 1 .. m + n : w[j] = Wide => j < m + n
  <2> TAKE j \in 1 .. m + n
  <2>1. CASE j \in 1 .. m
    <3>1. w[j] = u[j] /\ (u[j] = Wide => j < m)
      BY <1>5, <1>8, <2>1
    <3> QED BY <2>1, <3>1
  <2>2. ASSUME NEW k \in 1 .. n, j = m + k
        PROVE  w[j] = Wide => j < m + n
    <3>1. w[j] = v[k] /\ (v[k] = Wide => k < n)
      BY <1>6, <1>9, <2>2
    <3> QED BY <2>2, <3>1
  <2> QED BY <1>7, <2>1, <2>2
<1>12. Paired(w)
  BY <1>4, <1>10, <1>11 DEF Paired
<1>13. ASSUME NEW i, Edge(u, i) PROVE Edge(w, i)
  <2>1. i \in 0 .. m /\ (i < m => u[i + 1] # Half)
    BY <1>2, <1>13 DEF Edge
  <2>2. PICK k \in 1 .. m + 1 : k = i + 1
    BY <2>1
  <2>3. CASE i < m
    <3>1. k \in 1 .. m
      BY <2>1, <2>2, <2>3
    <3>2. w[k] = u[k]
      BY <1>5, <3>1
    <3> QED BY <1>4, <2>1, <2>2, <2>3, <3>2 DEF Edge
  <2>4. CASE i = m /\ n > 0
    <3>1. 1 \in 1 .. n
      BY <2>4
    <3>2. w[m + 1] = v[1] /\ v[1] # Half
      BY <1>6, <1>9, <3>1
    <3> QED BY <1>4, <2>1, <2>4, <3>2 DEF Edge
  <2>5. CASE i = m /\ n = 0
    BY <1>4, <2>1, <2>5 DEF Edge
  <2> QED BY <2>1, <2>3, <2>4, <2>5
<1>14. ASSUME NEW i, Edge(v, i) PROVE Edge(w, m + i)
  <2>1. i \in 0 .. n /\ (i < n => v[i + 1] # Half)
    BY <1>2, <1>14 DEF Edge
  <2>2. CASE i < n
    <3>1. PICK k \in 1 .. n : k = i + 1 /\ m + k = m + i + 1
      BY <2>1, <2>2
    <3>2. w[m + k] = v[k]
      BY <1>6
    <3> QED BY <1>4, <2>1, <2>2, <3>1, <3>2 DEF Edge
  <2>3. CASE i = n
    BY <1>4, <2>1, <2>3 DEF Edge
  <2> QED BY <2>1, <2>2, <2>3
<1> QED BY <1>2, <1>3, <1>4, <1>12, <1>13, <1>14, Zenon

(* What two lines in a row are cut into.                                   *)
LEMMA CutIs ==
  ASSUME NEW u \in Lines, NEW v \in Lines
  PROVE  /\ Slice(u \o v, 0, Len(u)) = u
         /\ Slice(u \o v, Len(u), Len(u \o v)) = v
<1>1. PICK m \in Nat, n \in Nat : m = Len(u) /\ n = Len(v)
  BY LineIs
<1>2. PICK w \in Lines : /\ w = u \o v /\ Len(w) = m + n
                         /\ \A j \in 1 .. m + n : w[j] = IF j <= m THEN u[j] ELSE v[j - m]
  BY <1>1, ConcatIs
<1>3. PICK a \in Lines : /\ a = Slice(w, 0, m) /\ Len(a) = m
                         /\ \A j \in 1 .. m : a[j] = w[j]
  <2>1. m <= Len(w)
    BY <1>2
  <2> QED BY <2>1, BeginningIs
<1>4. PICK b \in Lines : /\ b = Slice(w, m, m + n) /\ Len(b) = m + n - m
                         /\ \A j \in 1 .. m + n - m : b[j] = w[m + j]
  <2>1. PICK k \in Nat : k = m + n /\ m <= k /\ k <= Len(w)
    BY <1>2
  <2>2. /\ Slice(w, m, k) \in Lines /\ Len(Slice(w, m, k)) = k - m
        /\ \A j \in 1 .. k - m : Slice(w, m, k)[j] = w[m + j]
    BY <2>1, SliceIs
  <2> QED BY <2>1, <2>2
<1>5. a = u
  <2>1. Len(a) = Len(u)
    BY <1>1, <1>3
  <2>2. \A j \in 1 .. Len(a) : a[j] = u[j]
    <3> TAKE j \in 1 .. Len(a)
    <3>1. j \in 1 .. m /\ j \in 1 .. m + n /\ j <= m
      BY <1>3
    <3> QED BY <1>2, <1>3, <3>1
  <2> QED BY <2>1, <2>2, SeqEqual DEF Lines
<1>6. b = v
  <2>1. Len(b) = Len(v)
    BY <1>1, <1>4
  <2>2. \A j \in 1 .. Len(b) : b[j] = v[j]
    <3> TAKE j \in 1 .. Len(b)
    <3>1. PICK k \in 1 .. m + n : k = m + j /\ ~(k <= m) /\ k - m = j
      BY <1>1, <1>4
    <3>2. w[k] = v[j]
      BY <1>2, <3>1
    <3>3. b[j] = w[k]
      BY <1>1, <1>4, <3>1
    <3> QED BY <3>2, <3>3
  <2> QED BY <2>1, <2>2, SeqEqual DEF Lines
<1> QED BY <1>1, <1>2, <1>3, <1>4, <1>5, <1>6

(* Two parts of a line in a row.                                           *)
LEMMA SplitIs ==
  ASSUME NEW s \in Lines, NEW from \in Nat, NEW i \in Nat, NEW to \in Nat,
         from <= i, i <= to, to <= Len(s)
  PROVE  Slice(s, from, i) \o Slice(s, i, to) = Slice(s, from, to)
<1>1. i <= Len(s) /\ from <= to
  BY LineIs
<1>2. PICK a \in Lines : /\ a = Slice(s, from, i) /\ Len(a) = i - from
                         /\ \A j \in 1 .. i - from : a[j] = s[from + j]
  BY <1>1, SliceIs
<1>3. PICK b \in Lines : /\ b = Slice(s, i, to) /\ Len(b) = to - i
                         /\ \A j \in 1 .. to - i : b[j] = s[i + j]
  BY <1>1, SliceIs
<1>4. PICK c \in Lines : /\ c = Slice(s, from, to) /\ Len(c) = to - from
                         /\ \A j \in 1 .. to - from : c[j] = s[from + j]
  BY <1>1, SliceIs, ZenonT(40)
<1>5. PICK w \in Lines : /\ w = a \o b /\ Len(w) = Len(a) + Len(b)
                         /\ \A j \in 1 .. Len(a) + Len(b) :
                              w[j] = IF j <= Len(a) THEN a[j] ELSE b[j - Len(a)]
  BY ConcatIs
<1>6. Len(w) = Len(c)
  BY <1>2, <1>3, <1>4, <1>5
<1>7. \A j \in 1 .. Len(w) : w[j] = c[j]
  <2> TAKE j \in 1 .. Len(w)
  <2>1. j \in 1 .. to - from /\ j \in 1 .. Len(a) + Len(b)
    BY <1>2, <1>3, <1>5
  <2>2. c[j] = s[from + j]
    BY <1>4, <2>1
  <2>3. CASE j <= Len(a)
    <3>1. j \in 1 .. i - from
      BY <1>2, <2>1, <2>3
    <3>2. w[j] = a[j]
      BY <1>5, <2>1, <2>3
    <3> QED BY <1>2, <2>2, <3>1, <3>2
  <2>4. CASE ~(j <= Len(a))
    <3>1. PICK k \in 1 .. to - i : k = j - Len(a) /\ i + k = from + j
      BY <1>2, <2>1, <2>4
    <3>2. w[j] = b[k]
      BY <1>5, <2>1, <2>4, <3>1
    <3> QED BY <1>3, <2>2, <3>1, <3>2
  <2> QED BY <2>3, <2>4
<1>8. w = c
  BY <1>6, <1>7, SeqEqual DEF Lines
<1> QED BY <1>2, <1>3, <1>4, <1>5, <1>8

LEMMA WholeSlice ==
  ASSUME NEW s \in Lines
  PROVE  Slice(s, 0, Len(s)) = s
<1>1. PICK n \in Nat : n = Len(s)
  BY LineIs
<1>2. PICK a \in Lines : /\ a = Slice(s, 0, n) /\ Len(a) = n
                         /\ \A j \in 1 .. n : a[j] = s[j]
  BY <1>1, BeginningIs
<1>3. Len(a) = Len(s) /\ \A j \in 1 .. Len(a) : a[j] = s[j]
  BY <1>1, <1>2
<1>4. a = s
  BY <1>3, SeqEqual DEF Lines
<1> QED BY <1>1, <1>2, <1>4

(* Without a part of it, a line is a line.                                 *)
Without(s, from, to) == Slice(s, 0, from) \o Slice(s, to, Len(s))

LEMMA CutPaired ==
  ASSUME NEW s, Paired(s), NEW from, NEW to, Edge(s, from), Edge(s, to), from <= to,
         NEW n, n = Len(s), NEW w, w = Without(s, from, to)
  PROVE  /\ Paired(w) /\ Len(w) = from + n - to
         /\ Edge(w, from)
         /\ Slice(w, 0, from) = Slice(s, 0, from)
         /\ Slice(w, from, Len(w)) = Slice(s, to, n)
<1>1. /\ s \in Lines /\ n \in Nat /\ Edge(s, 0) /\ Edge(s, n) /\ from \in Nat /\ to \in Nat
      /\ 0 <= from /\ to <= n
  BY Ends DEF Edge
<1>2. PICK a : a = Slice(s, 0, from) /\ Paired(a) /\ a \in Lines /\ Len(a) = from - 0
  BY <1>1, SlicePaired
<1>3. PICK b : b = Slice(s, to, n) /\ Paired(b) /\ b \in Lines /\ Len(b) = n - to
  BY <1>1, SlicePaired
<1>4. w = a \o b
  BY <1>2, <1>3 DEF Without
<1>5. /\ Paired(w) /\ Len(w) = Len(a) + Len(b)
      /\ \A i : Edge(a, i) => Edge(w, i)
  BY <1>2, <1>3, <1>4, JoinPaired
<1>6. Edge(a, Len(a))
  BY <1>2, Ends
<1>7. Slice(w, 0, Len(a)) = a /\ Slice(w, Len(a), Len(w)) = b
  BY <1>2, <1>3, <1>4, CutIs
<1>8. Len(a) = from
  BY <1>1, <1>2
<1> QED BY <1>1, <1>2, <1>3, <1>5, <1>6, <1>7, <1>8

(* With a text put into it, a line is a line; without that text it is the  *)
(* line it was.                                                            *)
LEMMA InsertedPaired ==
  ASSUME NEW s, Paired(s), NEW i, Edge(s, i), NEW u, Paired(u),
         NEW w, w = Inserted(s, i, u)
  PROVE  /\ Paired(w) /\ Len(w) = Len(s) + Len(u)
         /\ Edge(w, i) /\ Edge(w, i + Len(u))
         /\ Slice(w, 0, i) \o Slice(w, i + Len(u), Len(w)) = s
<1>1. PICK n \in Nat : /\ n = Len(s) /\ s \in Lines /\ Edge(s, 0) /\ Edge(s, n)
                       /\ i \in Nat /\ i <= n
  BY Ends DEF Edge
<1>2. PICK a : a = Slice(s, 0, i) /\ Paired(a) /\ a \in Lines /\ Len(a) = i
  <2>1. 0 <= i /\ i - 0 = i
    BY <1>1
  <2> QED BY <1>1, <2>1, SlicePaired
<1>3. PICK b : b = Slice(s, i, n) /\ Paired(b) /\ b \in Lines /\ Len(b) = n - i
  BY <1>1, SlicePaired
<1>4. PICK l \in Nat : l = Len(u) /\ u \in Lines
  BY Ends
<1>5. PICK c : /\ c = a \o u /\ Paired(c) /\ Len(c) = i + l
               /\ (\A k : Edge(a, k) => Edge(c, k)) /\ c \in Lines
  <2>1. /\ Paired(a \o u) /\ Len(a \o u) = Len(a) + Len(u)
        /\ \A k : Edge(a, k) => Edge(a \o u, k)
    BY <1>2, JoinPaired
  <2> QED BY <1>2, <1>4, <2>1, Ends
<1>6. w = c \o b
  BY <1>1, <1>2, <1>3, <1>5 DEF Inserted
<1>7. /\ Paired(w) /\ Len(w) = Len(c) + Len(b)
      /\ \A k : Edge(c, k) => Edge(w, k)
  <2>1. Paired(c) /\ Paired(b)
    BY <1>3, <1>5
  <2>2. /\ Paired(c \o b) /\ Len(c \o b) = Len(c) + Len(b)
        /\ \A k : Edge(c, k) => Edge(c \o b, k)
    BY <2>1, JoinPaired, Zenon
  <2> QED BY <1>6, <2>2, Zenon
<1>8. Edge(a, i) /\ Edge(c, i + l)
  BY <1>2, <1>5, Ends
<1>9. u \o b \in Lines
  BY <1>3, <1>4, ConcatIs
<1>10. Slice(w, 0, i) = a
  <2>1. (a \o u) \o b = a \o (u \o b)
    BY <1>2, <1>3, <1>4, ConcatAssociative, SMTT(30) DEF Lines
  <2>2. w = a \o (u \o b)
    BY <1>5, <1>6, <2>1
  <2>3. Slice(a \o (u \o b), 0, Len(a)) = a
    BY <1>2, <1>9, CutIs
  <2> QED BY <1>2, <2>2, <2>3
<1>11. Slice(w, i + l, Len(w)) = b
  <2>1. Slice(c \o b, Len(c), Len(c \o b)) = b
    BY <1>3, <1>5, CutIs, ZenonT(40)
  <2> QED BY <1>5, <1>6, <2>1
<1>12. a \o b = s
  <2>1. 0 \in Nat /\ 0 <= i /\ i <= n /\ n <= Len(s)
    BY <1>1
  <2>2. Slice(s, 0, i) \o Slice(s, i, n) = Slice(s, 0, n)
    BY <1>1, <2>1, SplitIs, ZenonT(40)
  <2>3. Slice(s, 0, n) = s
    BY <1>1, WholeSlice
  <2> QED BY <1>2, <1>3, <2>2, <2>3
<1>13. Edge(w, i) /\ Edge(w, i + l)
  <2>1. Edge(c, i)
    BY <1>5, <1>8
  <2> QED BY <1>7, <1>8, <2>1
<1>14. Len(w) = n + l
  BY <1>1, <1>3, <1>4, <1>5, <1>7
<1>15. Slice(w, 0, i) \o Slice(w, i + l, Len(w)) = s
  BY <1>10, <1>11, <1>12
<1> QED BY <1>1, <1>4, <1>7, <1>13, <1>14, <1>15

(* A part that was taken out, put in again where it was, is the line.      *)
LEMMA CutBack ==
  ASSUME NEW s, Paired(s), NEW from, NEW to, Edge(s, from), Edge(s, to), from <= to,
         NEW w, w = Without(s, from, to)
  PROVE  Inserted(w, from, Slice(s, from, to)) = s
<1>1. PICK n : n = Len(s)
  OBVIOUS
<1>2. /\ Slice(w, 0, from) = Slice(s, 0, from)
      /\ Slice(w, from, Len(w)) = Slice(s, to, n)
  BY <1>1, CutPaired
<1>3. /\ s \in Lines /\ n \in Nat /\ from \in Nat /\ to \in Nat
      /\ 0 <= from /\ to <= n /\ from <= n /\ 0 <= to /\ n <= Len(s) /\ 0 \in Nat
  BY <1>1, Ends DEF Edge
<1>4. Slice(s, 0, from) \o Slice(s, from, to) = Slice(s, 0, to)
  BY <1>3, SplitIs
<1>5. Slice(s, 0, to) \o Slice(s, to, n) = Slice(s, 0, n)
  BY <1>3, SplitIs
<1> QED BY <1>1, <1>2, <1>3, <1>4, <1>5, WholeSlice DEF Inserted

-----------------------------------------------------------------------------
(* Characters and words of the line.                                       *)

(* A Half in the line is after its character.                              *)
LEMMA HalfAfter ==
  ASSUME Paired(line), NEW k \in 1 .. End - 1
  PROVE  line[k + 1] = Half <=> line[k] = Wide
<1>1. End \in Nat
  BY Ends DEF End
<1>2. PICK j \in 1 .. End : j = k + 1 /\ j > 1 /\ j - 1 = k
  BY <1>1
<1>3. line[j] = Half <=> j > 1 /\ line[j - 1] = Wide
  BY DEF Paired, End
<1> QED BY <1>2, <1>3

(* char_width_next, from an edge to the next.                              *)
LEMMA NextEdge ==
  ASSUME Paired(line), NEW i, Edge(line, i), i < End
  PROVE  /\ WidthNext(i) \in {1, 2} /\ Edge(line, i + WidthNext(i))
         /\ WidthNext(i) = 2 <=> Here(i) = Wide
<1>1. End \in Nat /\ i \in Nat /\ i < End /\ End = Len(line)
  BY Ends DEF Edge, End
<1>2. PICK k \in 1 .. End : k = i + 1
  BY <1>1
<1>3. line[k] # Half
  BY <1>1, <1>2 DEF Edge
<1>4. line[k] = Wide => k < End
  BY DEF Paired, End
<1>5. CASE k < End /\ line[k + 1] = Half
  <2>1. WidthNext(i) = 2
    BY <1>2, <1>5 DEF WidthNext, Here
  <2>2. line[k] = Wide
    BY <1>1, <1>5, HalfAfter
  <2>3. Edge(line, i + 2)
    <3>1. CASE k + 1 < End
      <4>1. PICK m \in 1 .. End - 1 : m = k + 1
        BY <1>1, <3>1
      <4>2. line[m] # Wide
        BY <1>5, <4>1 DEF Half, Wide
      <4>3. line[m + 1] # Half
        BY <4>2, HalfAfter
      <4> QED BY <1>1, <1>2, <4>1, <4>3 DEF Edge
    <3>2. CASE k + 1 = End
      BY <1>1, <1>2, <3>2 DEF Edge
    <3> QED BY <1>1, <1>5, <3>1, <3>2
  <2> QED BY <1>2, <2>1, <2>2, <2>3 DEF Here
<1>6. CASE ~(k < End /\ line[k + 1] = Half)
  <2>1. WidthNext(i) = 1
    BY <1>2, <1>6 DEF WidthNext, Here
  <2>2. line[k] # Wide
    <3>1. CASE k < End
      <4>1. k \in 1 .. End - 1
        BY <1>1, <3>1
      <4> QED BY <1>6, <3>1, <4>1, HalfAfter
    <3> QED BY <1>4, <3>1
  <2>3. Edge(line, i + 1)
    BY <1>1, <1>2, <1>6 DEF Edge
  <2> QED BY <1>2, <2>1, <2>2, <2>3 DEF Here
<1> QED BY <1>5, <1>6

(* char_width_back, from an edge to the one before.                        *)
LEMMA BackEdge ==
  ASSUME Paired(line), NEW i, Edge(line, i), i > 0
  PROVE  WidthBack(i) \in {1, 2} /\ WidthBack(i) <= i /\ Edge(line, i - WidthBack(i))
<1>1. End \in Nat /\ i \in 1 .. End /\ End = Len(line)
  BY Ends DEF Edge, End
<1>2. line[i] = Half <=> i > 1 /\ line[i - 1] = Wide
  BY <1>1 DEF Paired, End
<1>3. i - 1 + 1 = i
  BY <1>1
<1>4. CASE line[i] = Half
  <2>1. i > 1 /\ line[i - 1] = Wide
    BY <1>2, <1>4
  <2>2. WidthBack(i) = 2
    BY <1>3, <1>4, <2>1 DEF WidthBack, Here
  <2>3. PICK k \in 1 .. End : k = i - 1 /\ line[k] # Half
    BY <1>1, <2>1 DEF Wide, Half
  <2>4. i - 2 \in 0 .. Len(line) /\ i - 2 + 1 = k
    BY <1>1, <2>1, <2>3
  <2>5. Edge(line, i - 2)
    BY <2>3, <2>4 DEF Edge
  <2> QED BY <2>1, <2>2, <2>5, <1>1
<1>5. CASE line[i] # Half
  <2>1. WidthBack(i) = 1
    BY <1>3, <1>5 DEF WidthBack, Here
  <2>2. Edge(line, i - 1)
    BY <1>1, <1>3, <1>5 DEF Edge
  <2> QED BY <1>1, <2>1, <2>2
<1> QED BY <1>4, <1>5

Skips == {Space, Break, Word}

(* The words take a Half with its character, the spaces and the breaks     *)
(* neither.                                                                *)
LEMMA SkipsHalf ==
  ASSUME NEW skip \in Skips
  PROVE  Half \in skip <=> Wide \in skip
BY EditAssumption DEF Skips, Space, Break, Word, Half, Wide, Blank

LEMMA SkipNextIs ==
  ASSUME Paired(line), NEW skip, NEW i \in 0 .. End
  PROVE  /\ SkipNext(skip, i) \in i .. End
         /\ \A j \in i .. SkipNext(skip, i) - 1 : Here(j) \in skip
         /\ SkipNext(skip, i) < End => Here(SkipNext(skip, i)) \notin skip
<1>1. PICK n \in Nat : n = End /\ i \in Nat /\ i <= n
  BY Ends DEF End
<1>2. Most(i, n) = n
  BY <1>1 DEF Most
<1> DEFINE S == {k \in i .. n : k < n => Here(k) \notin skip}
<1>3. S \in SUBSET Nat /\ n \in S
  BY <1>1
<1>4. PICK k \in S : \A j \in S : k <= j
  BY <1>3, LeastOf
<1>5. k \in i .. n /\ (k < n => Here(k) \notin skip)
  BY <1>4
<1>6. \A j \in i .. k - 1 : Here(j) \in skip
  <2> SUFFICES ASSUME NEW j \in i .. k - 1, Here(j) \notin skip PROVE FALSE
    OBVIOUS
  <2>1. j \in i .. n /\ ~(k <= j)
    BY <1>1, <1>5
  <2>2. j \in S
    BY <2>1
  <2> QED BY <1>4, <2>1, <2>2
<1>7. \E x \in i .. n : /\ \A j \in i .. x - 1 : Here(j) \in skip
                        /\ x < n => Here(x) \notin skip
  BY <1>5, <1>6
<1> HIDE DEF S
<1>8. SkipNext(skip, i) = CHOOSE x \in i .. n : /\ \A j \in i .. x - 1 : Here(j) \in skip
                                                /\ x < n => Here(x) \notin skip
  BY <1>1, <1>2 DEF SkipNext
<1>9. PICK x : x = SkipNext(skip, i)
  OBVIOUS
<1>10. /\ x \in i .. n
       /\ \A j \in i .. x - 1 : Here(j) \in skip
       /\ x < n => Here(x) \notin skip
  BY <1>7, <1>8, <1>9, Zenon
<1> QED BY <1>1, <1>9, <1>10

LEMMA SkipPrevIs ==
  ASSUME Paired(line), NEW skip, NEW i \in 0 .. End
  PROVE  /\ SkipPrev(skip, i) \in 0 .. i
         /\ \A j \in SkipPrev(skip, i) .. i - 1 : Here(j) \in skip
         /\ SkipPrev(skip, i) > 0 => Here(SkipPrev(skip, i) - 1) \notin skip
<1>1. i \in Nat
  BY Ends DEF End
<1> DEFINE S == {k \in 0 .. i : k > 0 => Here(k - 1) \notin skip}
<1>2. S \in SUBSET (0 .. i) /\ 0 \in S
  BY <1>1
<1>3. PICK k \in S : \A j \in S : j <= k
  <2>1. S # {}
    BY <1>2
  <2> QED BY <1>1, <1>2, <2>1, GreatestOf
<1>4. k \in 0 .. i /\ (k > 0 => Here(k - 1) \notin skip)
  BY <1>3
<1>5. \A j \in k .. i - 1 : Here(j) \in skip
  <2> SUFFICES ASSUME NEW j \in k .. i - 1, Here(j) \notin skip PROVE FALSE
    OBVIOUS
  <2>1. PICK m \in 0 .. i : m = j + 1 /\ m - 1 = j /\ ~(m <= k)
    BY <1>1, <1>4
  <2>2. m \in S
    BY <2>1
  <2> QED BY <1>3, <2>1, <2>2
<1>6. \E x \in 0 .. i : /\ \A j \in x .. i - 1 : Here(j) \in skip
                        /\ x > 0 => Here(x - 1) \notin skip
  BY <1>4, <1>5
<1> HIDE DEF S
<1>7. PICK x : x = SkipPrev(skip, i)
  OBVIOUS
<1>8. /\ x \in 0 .. i
      /\ \A j \in x .. i - 1 : Here(j) \in skip
      /\ x > 0 => Here(x - 1) \notin skip
  BY <1>6, <1>7, Zenon DEF SkipPrev
<1> QED BY <1>7, <1>8

(* From an edge, skipping leads to an edge.                                *)
LEMMA SkipNextEdge ==
  ASSUME Paired(line), NEW skip \in Skips, NEW i, Edge(line, i)
  PROVE  Edge(line, SkipNext(skip, i)) /\ i <= SkipNext(skip, i)
<1>1. End \in Nat /\ i \in Nat /\ i \in 0 .. End /\ End = Len(line)
  BY Ends DEF Edge, End
<1>2. PICK k \in i .. End :
        /\ k = SkipNext(skip, i)
        /\ \A j \in i .. k - 1 : Here(j) \in skip
        /\ k < End => Here(k) \notin skip
  BY <1>1, SkipNextIs
<1>3. ASSUME k < End, line[k + 1] = Half PROVE FALSE
  <2>1. k # i
    BY <1>1, <1>3 DEF Edge
  <2>2. k \in 1 .. End - 1 /\ k - 1 \in i .. k - 1 /\ k - 1 + 1 = k
    BY <1>1, <1>2, <1>3, <2>1
  <2>3. line[k] = Wide
    BY <1>3, <2>2, HalfAfter
  <2>4. Here(k - 1) = Wide /\ Here(k) = Half
    BY <1>3, <2>2, <2>3 DEF Here
  <2>5. Wide \in skip /\ Half \notin skip
    BY <1>2, <1>3, <2>2, <2>4
  <2> QED BY <2>5, SkipsHalf
<1> QED BY <1>1, <1>2, <1>3 DEF Edge

LEMMA SkipPrevEdge ==
  ASSUME Paired(line), NEW skip \in Skips, NEW i, Edge(line, i)
  PROVE  Edge(line, SkipPrev(skip, i)) /\ SkipPrev(skip, i) <= i
<1>1. End \in Nat /\ i \in Nat /\ i \in 0 .. End /\ End = Len(line)
  BY Ends DEF Edge, End
<1>2. PICK k \in 0 .. i :
        /\ k = SkipPrev(skip, i)
        /\ \A j \in k .. i - 1 : Here(j) \in skip
        /\ k > 0 => Here(k - 1) \notin skip
  BY <1>1, SkipPrevIs
<1>3. ASSUME k < End, line[k + 1] = Half PROVE FALSE
  <2>1. k # i
    BY <1>1, <1>3 DEF Edge
  <2>2. k # 0
    BY <1>1, <1>3, Ends DEF Edge
  <2>3. k \in 1 .. End - 1 /\ k \in k .. i - 1 /\ k - 1 + 1 = k /\ k > 0
    BY <1>1, <1>2, <1>3, <2>1, <2>2
  <2>4. line[k] = Wide
    BY <1>3, <2>3, HalfAfter
  <2>5. Here(k - 1) = Wide /\ Here(k) = Half
    BY <1>3, <2>3, <2>4 DEF Here
  <2>6. Half \in skip /\ Wide \notin skip
    BY <1>2, <2>3, <2>5
  <2> QED BY <2>6, SkipsHalf
<1> QED BY <1>1, <1>2, <1>3 DEF Edge

(* prev_word and the others lead from an edge to an edge.                  *)
LEMMA WordsEdge ==
  ASSUME Paired(line), NEW i, Edge(line, i)
  PROVE  /\ Edge(line, NextBreakWord(i)) /\ i <= NextBreakWord(i)
         /\ Edge(line, PrevBreakWord(i)) /\ PrevBreakWord(i) <= i
         /\ Edge(line, PrevWord(i)) /\ PrevWord(i) <= i
         /\ Edge(line, PrevWordStart(i)) /\ PrevWordStart(i) <= i
         /\ Edge(line, NextWord(i)) /\ i <= NextWord(i)
         /\ Edge(line, NextWordStart(i)) /\ i <= NextWordStart(i)
<1>1. Space \in Skips /\ Break \in Skips /\ Word \in Skips
  BY DEF Skips
<1>2. \A k : Edge(line, k) => k \in Nat
  BY Ends DEF Edge
<1>3. \A skip \in Skips : \A k : Edge(line, k) =>
        Edge(line, SkipNext(skip, k)) /\ k <= SkipNext(skip, k) /\ SkipNext(skip, k) \in Nat
  BY <1>2, SkipNextEdge
<1>4. \A skip \in Skips : \A k : Edge(line, k) =>
        Edge(line, SkipPrev(skip, k)) /\ SkipPrev(skip, k) <= k /\ SkipPrev(skip, k) \in Nat
  BY <1>2, SkipPrevEdge
<1>5. \A k : Edge(line, k) =>
        Edge(line, NextBreakWord(k)) /\ k <= NextBreakWord(k) /\ NextBreakWord(k) \in Nat
  BY <1>1, <1>3 DEF NextBreakWord
<1>6. \A k : Edge(line, k) =>
        Edge(line, PrevBreakWord(k)) /\ PrevBreakWord(k) <= k /\ PrevBreakWord(k) \in Nat
  BY <1>1, <1>4 DEF PrevBreakWord
<1>7. i \in Nat
  BY <1>2
<1>8. Edge(line, PrevWord(i)) /\ PrevWord(i) <= i
  <2>1. PICK a \in Nat : a = SkipPrev(Break, i) /\ Edge(line, a) /\ a <= i
    BY <1>1, <1>4
  <2>2. PICK b \in Nat : b = SkipPrev(Word, a) /\ Edge(line, b) /\ b <= a
    BY <1>1, <1>4, <2>1
  <2>3. PICK c \in Nat : c = SkipPrev(Space, i) /\ Edge(line, c) /\ c <= i
    BY <1>1, <1>4
  <2>4. PICK e \in Nat : e = PrevBreakWord(c) /\ Edge(line, e) /\ e <= c
    BY <1>6, <2>3
  <2>5. PrevWord(i) = b \/ PrevWord(i) = e
    BY <2>1, <2>2, <2>3, <2>4 DEF PrevWord
  <2> QED BY <1>7, <2>1, <2>2, <2>3, <2>4, <2>5
<1>9. Edge(line, PrevWordStart(i)) /\ PrevWordStart(i) <= i
  <2>1. PICK c \in Nat : c = SkipPrev(Space, i) /\ Edge(line, c) /\ c <= i
    BY <1>1, <1>4
  <2>2. PICK e \in Nat : e = PrevBreakWord(c) /\ Edge(line, e) /\ e <= c
    BY <1>6, <2>1
  <2>3. PrevWordStart(i) = e
    BY <2>1, <2>2 DEF PrevWordStart
  <2> QED BY <1>7, <2>1, <2>2, <2>3
<1>10. Edge(line, NextWord(i)) /\ i <= NextWord(i)
  <2>1. PICK a \in Nat : a = SkipNext(Break, i) /\ Edge(line, a) /\ i <= a
    BY <1>1, <1>3
  <2>2. PICK b \in Nat : b = SkipNext(Word, a) /\ Edge(line, b) /\ a <= b
    BY <1>1, <1>3, <2>1
  <2>3. PICK c \in Nat : c = SkipNext(Space, i) /\ Edge(line, c) /\ i <= c
    BY <1>1, <1>3
  <2>4. PICK e \in Nat : e = NextBreakWord(c) /\ Edge(line, e) /\ c <= e
    BY <1>5, <2>3
  <2>5. NextWord(i) = b \/ NextWord(i) = e
    BY <2>1, <2>2, <2>3, <2>4 DEF NextWord
  <2> QED BY <1>7, <2>1, <2>2, <2>3, <2>4, <2>5
<1>11. Edge(line, NextWordStart(i)) /\ i <= NextWordStart(i)
  <2>1. PICK c \in Nat : c = NextBreakWord(i) /\ Edge(line, c) /\ i <= c
    BY <1>5
  <2>2. PICK e \in Nat : e = SkipNext(Space, c) /\ Edge(line, e) /\ c <= e
    BY <1>1, <1>3, <2>1
  <2>3. NextWordStart(i) = e
    BY <2>1, <2>2 DEF NextWordStart
  <2> QED BY <1>7, <2>1, <2>2, <2>3
<1> QED BY <1>5, <1>6, <1>8, <1>9, <1>10, <1>11

(* goto_endof_word leads to a column of the line.                          *)
LEMMA WordEndIs ==
  ASSUME Paired(line), NEW i, Edge(line, i)
  PROVE  /\ NextWordEnd(i) \in i .. End
         /\ i < End => NextWordEnd(i) < End
         /\ i >= End => NextWordEnd(i) = i
<1>1. PICK n \in Nat : n = End /\ i \in 0 .. n /\ i \in Nat
  BY Ends DEF Edge, End
<1>2. CASE i < End
  <2>1. PICK j \in 0 .. End : j = i + 1
    BY <1>1, <1>2
  <2>2. PICK k \in j .. End : k = SkipNext(Space, j)
    BY <2>1, SkipNextIs
  <2>3. k \in 0 .. End
    BY <1>1, <2>1
  <2>4. PICK m \in k .. End : m = SkipNext(Word, k)
    BY <2>3, SkipNextIs
  <2>5. NextWordEnd(i) = m - 1
    BY <1>2, <2>1, <2>2, <2>4 DEF NextWordEnd
  <2> QED BY <1>1, <1>2, <2>1, <2>2, <2>4, <2>5
<1>3. CASE ~(i < End)
  BY <1>1, <1>3 DEF NextWordEnd
<1> QED BY <1>2, <1>3

-----------------------------------------------------------------------------
(* The screen, as far as the line depends on it: where the cursor is, how  *)
(* many columns are before the line, and whether it is to be drawn again.  *)
Fields == {"t", "pos", "erase", "needed", "refresh", "back", "bell", "right",
           "shown", "start", "was", "pad"}
IsScreen(e) == DOMAIN e = Fields

(* The cursor went to pos, and nothing else changed of it.                 *)
Goes(g, e, pos) ==
  /\ IsScreen(g) /\ g.pos = pos
  /\ g.pad = e.pad /\ g.back = e.back /\ g.refresh = e.refresh
  /\ g.shown = e.shown /\ g.start = e.start

LEMMA Stays ==
  ASSUME NEW e, IsScreen(e)
  PROVE  Goes(e, e, e.pos)
BY DEF Goes

LEMMA GoesOn ==
  ASSUME NEW e, NEW g, NEW h, NEW x, NEW y, Goes(g, e, x), Goes(h, g, y)
  PROVE  Goes(h, e, y)
BY DEF Goes

(* What is not looked at may change.                                       *)
LEMMA Aside ==
  ASSUME NEW e, IsScreen(e), NEW u
  PROVE  /\ Goes([e EXCEPT !.t = u], e, e.pos)
         /\ Goes([e EXCEPT !.erase = u], e, e.pos)
         /\ Goes([e EXCEPT !.needed = u], e, e.pos)
         /\ Goes([e EXCEPT !.bell = u], e, e.pos)
         /\ Goes([e EXCEPT !.right = u], e, e.pos)
         /\ Goes([e EXCEPT !.was = u], e, e.pos)
<1>1. Goes([e EXCEPT !.t = u], e, e.pos)
  BY DEF Goes, IsScreen, Fields
<1>2. Goes([e EXCEPT !.erase = u], e, e.pos)
  BY DEF Goes, IsScreen, Fields
<1>3. Goes([e EXCEPT !.needed = u], e, e.pos)
  BY DEF Goes, IsScreen, Fields
<1>4. Goes([e EXCEPT !.bell = u], e, e.pos)
  BY DEF Goes, IsScreen, Fields
<1>5. Goes([e EXCEPT !.right = u], e, e.pos)
  BY DEF Goes, IsScreen, Fields
<1>6. Goes([e EXCEPT !.was = u], e, e.pos)
  BY DEF Goes, IsScreen, Fields
<1> QED BY <1>1, <1>2, <1>3, <1>4, <1>5, <1>6

(* move_cursor and the others.                                             *)
LEMMA MoveIs ==
  ASSUME NEW e, IsScreen(e), NEW x
  PROVE  Goes(MoveCursor(e, x), e, x)
<1> DEFINE rows == RowOf(x) - RowOf(e.pos)
           cols == (x % Cols) - (e.pos % Cols)
           t == IF rows > 0 THEN Down(e.t, rows) ELSE Up(e.t, -rows)
<1>1. PICK u : u = IF cols > 0 THEN Right(t, cols) ELSE Left(t, -cols)
  OBVIOUS
<1>2. MoveCursor(e, x) = [e EXCEPT !.pos = x, !.t = u]
  BY <1>1 DEF MoveCursor
<1> QED BY <1>2 DEF Goes, IsScreen, Fields

LEMMA BackIs ==
  ASSUME NEW e, IsScreen(e), e.pos \in Nat \ {0}, NEW n \in Nat
  PROVE  Goes(MoveCursorBack(e, n), e, e.pos - n)
<1>1. CASE n = 0
  <2>1. MoveCursorBack(e, n) = e /\ e.pos - n = e.pos
    BY <1>1 DEF MoveCursorBack
  <2> QED BY <2>1, Stays
<1>2. CASE n = 1 /\ e.pos % Cols = 0
  <2>1. PICK u, x : u = Right(Up(e.t, 1), Cols - 1) /\ x = e.pos - 1
    OBVIOUS
  <2>2. MoveCursorBack(e, n) = [e EXCEPT !.pos = x, !.t = u]
    BY <1>2, <2>1 DEF MoveCursorBack
  <2>3. Goes(MoveCursorBack(e, n), e, x)
    BY <2>2 DEF Goes, IsScreen, Fields
  <2> QED BY <1>2, <2>1, <2>3
<1>3. CASE n # 0 /\ ~(n = 1 /\ e.pos % Cols = 0)
  <2>1. MoveCursorBack(e, n) = MoveCursor(e, e.pos - n)
    BY <1>3 DEF MoveCursorBack
  <2> QED BY <2>1, MoveIs
<1> QED BY <1>1, <1>2, <1>3

LEMMA FwdIs ==
  ASSUME NEW e, IsScreen(e), NEW n \in Int
  PROVE  Goes(MoveCursorFwd(e, n), e, e.pos + n)
<1>1. CASE n = 1 /\ (e.pos + 1) % Cols = 0
  <2>1. PICK u, x : u = Down(Return(e.t), 1) /\ x = e.pos + 1
    OBVIOUS
  <2>2. MoveCursorFwd(e, n) = [e EXCEPT !.pos = x, !.t = u]
    BY <1>1, <2>1 DEF MoveCursorFwd
  <2>3. Goes(MoveCursorFwd(e, n), e, x)
    BY <2>2 DEF Goes, IsScreen, Fields
  <2> QED BY <1>1, <2>1, <2>3
<1>2. CASE ~(n = 1 /\ (e.pos + 1) % Cols = 0)
  <2>1. MoveCursorFwd(e, n) = MoveCursor(e, e.pos + n)
    BY <1>2 DEF MoveCursorFwd
  <2> QED BY <2>1, MoveIs
<1> QED BY <1>1, <1>2

(* What holds of the first place and goes on holds everywhere.             *)
LEMMA Onward ==
  ASSUME NEW n \in Nat, NEW S \in SUBSET (0 .. n), 0 \in S,
         \A i \in 0 .. n : i < n /\ i \in S => i + 1 \in S
  PROVE  \A i \in 0 .. n : i \in S
<1> SUFFICES ASSUME NEW b \in 0 .. n, b \notin S PROVE FALSE
  OBVIOUS
<1> DEFINE T == {i \in 0 .. n : i \notin S}
<1>1. T \in SUBSET Nat /\ b \in T
  OBVIOUS
<1>2. PICK k \in T : \A j \in T : k <= j
  BY <1>1, LeastOf
<1>3. k \in 0 .. n /\ k \notin S /\ k # 0
  BY <1>2
<1>4. PICK j \in 0 .. n : j + 1 = k /\ j < n /\ ~(k <= j)
  <2>1. k - 1 \in 0 .. n /\ k - 1 + 1 = k /\ k - 1 < n /\ ~(k <= k - 1)
    BY <1>3
  <2> QED BY <2>1
<1>5. j \in S
  BY <1>2, <1>4
<1> QED BY <1>3, <1>4, <1>5

(* cursor_output moves the cursor by what is output.                       *)
LEMMA OutputIs ==
  ASSUME NEW e, IsScreen(e), e.pos \in Nat, NEW s, Len(s) \in Nat
  PROVE  Goes(CursorOutput(e, s), e, e.pos + Len(s))
<1> DEFINE ends(g) == (g.pos + 1) % Cols = 0
           t(g, i) == Printed(g.t, s[i])
           After(g, i) == [g EXCEPT !.pos = @ + 1,
                                    !.t = IF ends(g) THEN Feed(Return(t(g, i))) ELSE t(g, i),
                                    !.needed = @ \/ ends(g)]
           Out(f, n) == f = [i \in 0 .. n |-> IF i = 0 THEN e ELSE After(f[i - 1], i)]
<1>1. PICK n \in Nat : n = Len(s)
  OBVIOUS
<1>2. CursorOutput(e, s) = (CHOOSE f : Out(f, n))[n]
  BY <1>1, Zenon DEF CursorOutput
<1>3. ASSUME NEW g, NEW i, IsScreen(g)
      PROVE  Goes(After(g, i), g, g.pos + 1)
  BY <1>3 DEF Goes, IsScreen, Fields
<1> HIDE DEF After
<1>4. \E f : Out(f, n)
  <2> DEFINE S == {m \in 0 .. n : \E f : Out(f, m)}
  <2>1. 0 \in S
    <3>0. PICK z \in Nat : z = 0
      OBVIOUS
    <3> DEFINE h == [i \in 0 .. z |-> e]
    <3>1. \A i \in 0 .. z : h[i] = IF i = 0 THEN e ELSE After(h[i - 1], i)
      BY <3>0
    <3>2. Out(h, 0)
      <4>1. Out(h, z)
        BY <3>1
      <4> QED BY <3>0, <4>1, Zenon
    <3> HIDE DEF Out, h
    <3>3. \E f : Out(f, 0)
      BY <3>2
    <3> QED BY <3>3
  <2>2. ASSUME NEW m \in 0 .. n, m < n, m \in S PROVE m + 1 \in S
    <3>1. PICK f : Out(f, m)
      BY <2>2
    <3> DEFINE h == [i \in 0 .. m + 1 |-> IF i <= m THEN f[i] ELSE After(f[m], m + 1)]
    <3>2. \A i \in 0 .. m + 1 : h[i] = IF i = 0 THEN e ELSE After(h[i - 1], i)
      <4> TAKE i \in 0 .. m + 1
      <4>1. CASE i <= m
        <5>1. h[i] = f[i] /\ (i # 0 => h[i - 1] = f[i - 1]) /\ i \in 0 .. m
          BY <4>1
        <5>2. f[i] = IF i = 0 THEN e ELSE After(f[i - 1], i)
          BY <3>1, <5>1
        <5> QED BY <5>1, <5>2
      <4>2. CASE i = m + 1
        <5>1. h[i] = After(f[m], m + 1) /\ h[i - 1] = f[m] /\ i # 0
          BY <4>2
        <5> QED BY <4>2, <5>1
      <4> QED BY <4>1, <4>2
    <3>3. Out(h, m + 1)
      BY <3>2
    <3>4. m + 1 \in 0 .. n
      BY <2>2
    <3> QED BY <3>3, <3>4
  <2>3. S \in SUBSET (0 .. n)
    OBVIOUS
  <2> HIDE DEF S
  <2>4. \A i \in 0 .. n : i \in S
    BY <2>1, <2>2, <2>3, Onward
  <2> QED BY <2>4, SMTT(30) DEF S
<1>5. PICK f : f = (CHOOSE x : Out(x, n)) /\ Out(f, n)
  <2> HIDE DEF Out
  <2>1. Out(CHOOSE x : Out(x, n), n)
    BY <1>4, Zenon
  <2> QED BY <2>1, Zenon
<1>6. f[0] = e /\ \A i \in 0 .. n : i < n => f[i + 1] = After(f[i], i + 1)
  <2>1. \A i \in 0 .. n : f[i] = IF i = 0 THEN e ELSE After(f[i - 1], i)
    BY <1>5, Zenon
  <2>2. f[0] = e
    BY <2>1
  <2>3. ASSUME NEW i \in 0 .. n, i < n PROVE f[i + 1] = After(f[i], i + 1)
    <3>1. PICK k \in 0 .. n : k = i + 1 /\ k # 0 /\ k - 1 = i
      BY <2>3
    <3> QED BY <2>1, <3>1
  <2> QED BY <2>2, <2>3
<1> DEFINE S == {i \in 0 .. n : Goes(f[i], e, e.pos + i)}
<1>7. 0 \in S
  BY <1>6, Stays
<1>8. ASSUME NEW i \in 0 .. n, i < n, i \in S PROVE i + 1 \in S
  <2>1. Goes(f[i], e, e.pos + i) /\ IsScreen(f[i]) /\ f[i].pos = e.pos + i
    BY <1>8 DEF Goes
  <2>2. Goes(f[i + 1], f[i], e.pos + i + 1)
    BY <1>3, <1>6, <1>8, <2>1
  <2>3. Goes(f[i + 1], e, e.pos + i + 1)
    BY <2>1, <2>2, GoesOn
  <2>4. i + 1 \in 0 .. n /\ e.pos + i + 1 = e.pos + (i + 1)
    BY <1>8
  <2> QED BY <2>3, <2>4
<1>9. \A i \in 0 .. n : i \in S
  <2>1. S \in SUBSET (0 .. n)
    OBVIOUS
  <2> HIDE DEF S
  <2> QED BY <1>7, <1>8, <2>1, Onward
<1>10. Goes(f[n], e, e.pos + n)
  BY <1>9
<1> QED BY <1>1, <1>2, <1>5, <1>10

LEMMA EraseHereIs ==
  ASSUME NEW e, IsScreen(e)
  PROVE  Goes(EraseHere(e), e, e.pos)
<1>1. PICK u : u = EraseToEnd(e.t)
  OBVIOUS
<1>2. EraseHere(e) = [e EXCEPT !.t = u, !.needed = TRUE]
  BY <1>1 DEF EraseHere
<1> QED BY <1>2 DEF Goes, IsScreen, Fields

LEMMA ExtendIs ==
  ASSUME NEW e, IsScreen(e), NEW n
  PROVE  Goes(Extend(e, n), e, e.pos)
<1>1. PICK u : u = Most(e.erase, n)
  OBVIOUS
<1>2. Extend(e, n) = [e EXCEPT !.erase = u]
  BY <1>1 DEF Extend
<1> QED BY <1>2 DEF Goes, IsScreen, Fields

LEMMA EraseEolIs ==
  ASSUME NEW e, IsScreen(e), NEW n
  PROVE  Goes(CursorEraseEol(e, n), e, e.pos)
<1>1. \E u : CursorEraseEol(e, n) = [e EXCEPT !.t = u, !.needed = TRUE, !.erase = n]
  BY Zenon DEF CursorEraseEol
<1>2. PICK u : CursorEraseEol(e, n) = [e EXCEPT !.t = u, !.needed = TRUE, !.erase = n]
  BY <1>1
<1> QED BY <1>2 DEF Goes, IsScreen, Fields

(* The right prompt is output and the cursor comes back.                   *)
LEMMA PutAtIs ==
  ASSUME NEW e, IsScreen(e), NEW x, NEW char
  PROVE  Goes(PutAt(e, x, char), e, e.pos)
<1>1. PICK g : g = MoveCursor(e, x) /\ Goes(g, e, x) /\ IsScreen(g)
  BY MoveIs DEF Goes
<1>2. PICK u, y : u = Printed(g.t, char) /\ y = g.pos + 1
  OBVIOUS
<1>3. PICK h : h = [g EXCEPT !.t = u, !.pos = y]
  OBVIOUS
<1>4. Goes(h, g, y) /\ IsScreen(h)
  BY <1>1, <1>3 DEF Goes, IsScreen, Fields
<1>5. PutAt(e, x, char) = MoveCursor(h, e.pos)
  BY <1>1, <1>2, <1>3 DEF PutAt
<1>6. Goes(MoveCursor(h, e.pos), h, e.pos)
  BY <1>4, MoveIs
<1>7. Goes(h, e, y)
  BY <1>1, <1>4, GoesOn
<1> QED BY <1>5, <1>6, <1>7, GoesOn

LEMMA RightPromptIs ==
  ASSUME NEW e, IsScreen(e), NEW s, NEW name, NEW clear
  PROVE  Goes(OutputRightPrompt(e, s, name, clear), e, e.pos)
<1>1. ASSUME NEW g, IsScreen(g)
      PROVE  Goes(ClearRightPrompt(g, s), g, g.pos)
  BY <1>1, PutAtIs DEF ClearRightPrompt
<1>2. ASSUME NEW g, IsScreen(g), NEW m
      PROVE  Goes(ShowRightPrompt(g, s, m), g, g.pos)
  <2>1. PICK x : x = RightAt(g, s)
    OBVIOUS
  <2>2. Goes(PutAt(g, x, m), g, g.pos)
    BY <1>2, PutAtIs
  <2>3. ShowRightPrompt(g, s, m) = ClearRightPrompt(g, s) \/ ShowRightPrompt(g, s, m) = PutAt(g, x, m)
    BY <2>1 DEF ShowRightPrompt
  <2> QED BY <1>1, <1>2, <2>2, <2>3
<1>3. ASSUME NEW g, IsScreen(g), NEW h, Goes(h, g, g.pos), NEW u
      PROVE  Goes([h EXCEPT !.right = u], g, g.pos) /\ Goes([h EXCEPT !.bell = u], g, g.pos)
  <2>1. IsScreen(h) /\ h.pos = g.pos
    BY <1>3 DEF Goes
  <2>2. PICK x, y : x = [h EXCEPT !.right = u] /\ y = [h EXCEPT !.bell = u]
    OBVIOUS
  <2>3. Goes(x, h, h.pos) /\ Goes(y, h, h.pos)
    BY <2>1, <2>2 DEF Goes, IsScreen, Fields
  <2>4. Goes(x, g, g.pos) /\ Goes(y, g, g.pos)
    BY <1>3, <2>1, <2>3, GoesOn
  <2> QED BY <2>2, <2>4
<1>4. ASSUME NEW g, IsScreen(g)
      PROVE  Goes(WithoutRightPrompt(g, s), g, g.pos)
  <2>1. PICK h : h = ClearRightPrompt(g, s) /\ Goes(h, g, g.pos)
    BY <1>1, <1>4
  <2>2. PICK u : u = NoName
    OBVIOUS
  <2>3. PICK x : x = [h EXCEPT !.right = u] /\ Goes(x, g, g.pos)
    BY <1>3, <1>4, <2>1
  <2>4. WithoutRightPrompt(g, s) = x
    BY <2>1, <2>2, <2>3 DEF WithoutRightPrompt
  <2> QED BY <2>3, <2>4
<1>5. ASSUME NEW g, IsScreen(g), NEW m
      PROVE  Goes(RightPromptOf(g, s, m, clear), g, g.pos)
  <2>1. PICK h : /\ h = IF g.right # NoName /\ g.right # m THEN WithoutRightPrompt(g, s) ELSE g
                 /\ Goes(h, g, g.pos) /\ IsScreen(h) /\ h.pos = g.pos
    BY <1>4, <1>5, Stays DEF Goes
  <2>2. PICK x : x = ShowRightPrompt(h, s, m) /\ Goes(x, h, h.pos)
    BY <1>2, <2>1
  <2>3. Goes(x, g, g.pos)
    BY <2>1, <2>2, GoesOn
  <2>4. PICK y : y = [x EXCEPT !.right = m] /\ Goes(y, g, g.pos)
    BY <1>3, <1>5, <2>3
  <2>5. RightPromptOf(g, s, m, clear) = IF clear THEN WithoutRightPrompt(g, s) ELSE y
    BY <2>1, <2>2, <2>4 DEF RightPromptOf
  <2> QED BY <1>4, <1>5, <2>4, <2>5
<1>6. PICK h : h = BellOver(e, s) /\ Goes(h, e, e.pos) /\ IsScreen(h) /\ h.pos = e.pos
  <2>1. PICK x : x = ClearRightPrompt(e, s) /\ Goes(x, e, e.pos)
    BY <1>1
  <2>2. PICK y : y = [x EXCEPT !.bell = 0] /\ Goes(y, e, e.pos)
    BY <1>3, <2>1
  <2>3. BellOver(e, s) = IF e.bell = 1 THEN y ELSE e
    BY <2>1, <2>2 DEF BellOver
  <2>4. Goes(BellOver(e, s), e, e.pos)
    BY <2>2, <2>3, Stays
  <2> QED BY <2>4 DEF Goes
<1>7. PICK m : m = IF e.bell = 2 THEN "ouch" ELSE name
  OBVIOUS
<1>8. PICK x : x = RightPromptOf(h, s, m, clear) /\ Goes(x, e, e.pos)
  BY <1>5, <1>6, GoesOn
<1>9. PICK b : b = IF e.bell = 1 THEN 0 ELSE e.bell
  OBVIOUS
<1>10. PICK y : y = [e EXCEPT !.bell = b] /\ Goes(y, e, e.pos)
  BY <1>3, Stays
<1>11. OutputRightPrompt(e, s, name, clear) = IF HasRight THEN x ELSE y
  BY <1>6, <1>7, <1>8, <1>9, <1>10 DEF OutputRightPrompt
<1> QED BY <1>8, <1>10, <1>11

LEMMA PromptIs ==
  ASSUME NEW e, IsScreen(e)
  PROVE  Goes(OutputPrompt(e), e, Prompt(e))
<1>1. \E u : OutputPrompt(e) = [e EXCEPT !.t = u, !.pos = Prompt(e)]
  BY Zenon DEF OutputPrompt
<1>2. PICK u, x : OutputPrompt(e) = [e EXCEPT !.t = u, !.pos = x] /\ x = Prompt(e)
  BY <1>1
<1> QED BY <1>2 DEF Goes, IsScreen, Fields

LEMMA PromptAgainIs ==
  ASSUME NEW e, IsScreen(e)
  PROVE  Goes(PromptAgain(e), e, e.pos)
<1>1. PICK g : g = MoveCursor(e, 0) /\ Goes(g, e, 0) /\ IsScreen(g)
  BY MoveIs DEF Goes
<1>2. PICK h : h = OutputPrompt(g) /\ Goes(h, g, Prompt(g)) /\ IsScreen(h)
  BY <1>1, PromptIs DEF Goes
<1>3. Goes(h, e, Prompt(g))
  BY <1>1, <1>2, GoesOn
<1>4. PromptAgain(e) = MoveCursor(h, e.pos) /\ Goes(MoveCursor(h, e.pos), h, e.pos)
  BY <1>1, <1>2, MoveIs DEF PromptAgain
<1> QED BY <1>3, <1>4, GoesOn

(* refresh_visual_line                                                     *)
LEMMA VisualIs ==
  ASSUME NEW e, IsScreen(e), e.pad \in Nat, NEW s, Len(s) \in Nat, NEW on
  PROVE  Goes(RefreshVisual(e, s), e, e.pos) /\ Goes(VisualFollows(e, s, on), e, e.pos)
<1>1. PICK g : g = MoveCursor(e, Prompt(e)) /\ Goes(g, e, Prompt(e)) /\ IsScreen(g)
  BY MoveIs DEF Goes
<1>2. g.pos \in Nat
  BY <1>1 DEF Goes, Prompt
<1>3. PICK h : h = CursorOutput(g, s) /\ Goes(h, g, g.pos + Len(s)) /\ IsScreen(h)
  BY <1>1, <1>2, OutputIs DEF Goes
<1>4. Goes(h, e, g.pos + Len(s))
  BY <1>1, <1>3, GoesOn
<1>5. RefreshVisual(e, s) = MoveCursor(h, e.pos) /\ Goes(MoveCursor(h, e.pos), h, e.pos)
  BY <1>1, <1>3, MoveIs DEF RefreshVisual
<1>6. Goes(RefreshVisual(e, s), e, e.pos)
  BY <1>4, <1>5, GoesOn
<1> QED BY <1>6, Stays DEF VisualFollows

(* A row of the window is a number, wherever it is.                        *)
LEMMA RowIs ==
  ASSUME NEW x \in Nat
  PROVE  RowOf(x) \in Nat
BY TerminalAssumption DEF RowOf

(* show_clear_lines comes back to the cursor.                              *)
LEMMA ClearLinesIs ==
  ASSUME NEW e, IsScreen(e), NEW s, NEW from \in Int, NEW to \in Int
  PROVE  Goes(ShowClearLines(e, s, from, to), e, e.pos)
<1> DEFINE x(i) == (NextRow(e, s) + i - 1) * Cols
           After(g, i) == LET h == MoveCursor(g, x(i)) IN [h EXCEPT !.t = EraseRow(@)]
           Out(f, n) == f = [i \in from .. n |-> IF i = from THEN e ELSE After(f[i - 1], i)]
<1>1. ASSUME from < to PROVE ShowClearLines(e, s, from, to) = MoveCursor((CHOOSE f : Out(f, to))[to], e.pos)
  <2>1. ~(from >= to)
    BY <1>1
  <2> QED BY <2>1 DEF ShowClearLines
<1>2. ASSUME from >= to PROVE ShowClearLines(e, s, from, to) = e
  BY <1>2 DEF ShowClearLines
<1>3. ASSUME NEW g, NEW i, IsScreen(g)
      PROVE  IsScreen(After(g, i)) /\ Goes(After(g, i), g, After(g, i).pos)
  <2>1. PICK y : y = x(i)
    OBVIOUS
  <2>2. PICK h : h = MoveCursor(g, y) /\ Goes(h, g, y) /\ IsScreen(h)
    BY <1>3, MoveIs DEF Goes
  <2>3. PICK u : u = EraseRow(h.t)
    OBVIOUS
  <2>4. After(g, i) = [h EXCEPT !.t = u]
    BY <2>1, <2>2, <2>3
  <2>5. PICK z : z = After(g, i)
    OBVIOUS
  <2>6. Goes(z, h, y) /\ IsScreen(z) /\ z.pos = y
    BY <2>2, <2>4, <2>5 DEF Goes, IsScreen, Fields
  <2>7. Goes(z, g, z.pos)
    BY <2>2, <2>6, GoesOn
  <2> QED BY <2>5, <2>6, <2>7
<1> HIDE DEF After
<1>4. ASSUME from < to PROVE \E f : Out(f, to)
  <2> PICK n \in Nat : n = to - from /\ from + n = to
    BY <1>4
  <2> DEFINE S == {m \in 0 .. n : \E f : Out(f, from + m)}
  <2>1. 0 \in S
    <3> DEFINE h == [i \in from .. from |-> e]
    <3>1. \A i \in from .. from : h[i] = IF i = from THEN e ELSE After(h[i - 1], i)
      OBVIOUS
    <3>2. Out(h, from)
      BY <3>1
    <3>3. from + 0 = from
      OBVIOUS
    <3> HIDE DEF Out, h
    <3>4. \E f : Out(f, from + 0)
      BY <3>2, <3>3
    <3> QED BY <3>4
  <2>2. ASSUME NEW m \in 0 .. n, m < n, m \in S PROVE m + 1 \in S
    <3>1. PICK k \in Int : k = from + m /\ from <= k /\ from + (m + 1) = k + 1
      BY <2>2
    <3>2. PICK f : Out(f, k)
      BY <2>2, <3>1
    <3> DEFINE h == [i \in from .. k + 1 |-> IF i <= k THEN f[i] ELSE After(f[k], k + 1)]
    <3>3. \A i \in from .. k + 1 : h[i] = IF i = from THEN e ELSE After(h[i - 1], i)
      <4> TAKE i \in from .. k + 1
      <4>1. CASE i <= k
        <5>1. h[i] = f[i] /\ (i # from => h[i - 1] = f[i - 1]) /\ i \in from .. k
          BY <4>1
        <5>2. f[i] = IF i = from THEN e ELSE After(f[i - 1], i)
          BY <3>2, <5>1
        <5> QED BY <5>1, <5>2
      <4>2. CASE i = k + 1
        <5>1. h[i] = After(f[k], k + 1) /\ h[i - 1] = f[k] /\ i # from
          BY <3>1, <4>2
        <5> QED BY <4>2, <5>1
      <4> QED BY <3>1, <4>1, <4>2
    <3>4. Out(h, k + 1)
      BY <3>3
    <3>5. m + 1 \in 0 .. n
      BY <2>2
    <3> HIDE DEF Out, h
    <3>6. \E y : Out(y, from + (m + 1))
      BY <3>1, <3>4
    <3> QED BY <3>5, <3>6
  <2>3. S \in SUBSET (0 .. n)
    OBVIOUS
  <2> HIDE DEF S
  <2>4. \A i \in 0 .. n : i \in S
    BY <2>1, <2>2, <2>3, Onward
  <2>5. n \in S
    BY <2>4
  <2> HIDE DEF Out
  <2> QED BY <2>5 DEF S
<1>5. CASE from < to
  <2>1. PICK f : f = (CHOOSE y : Out(y, to)) /\ Out(f, to)
    <3> HIDE DEF Out
    <3>1. Out(CHOOSE y : Out(y, to), to)
      BY <1>4, <1>5, Zenon
    <3> QED BY <3>1, Zenon
  <2>2. PICK n \in Nat : n = to - from /\ from + n = to
    BY <1>5
  <2>3. f[from] = e /\ \A i \in 0 .. n : i < n => f[from + (i + 1)] = After(f[from + i], from + (i + 1))
    <3>1. \A i \in from .. to : f[i] = IF i = from THEN e ELSE After(f[i - 1], i)
      BY <2>1, Zenon
    <3>2. f[from] = e
      BY <1>5, <3>1
    <3>3. ASSUME NEW i \in 0 .. n, i < n PROVE f[from + (i + 1)] = After(f[from + i], from + (i + 1))
      <4>1. PICK k \in from .. to : k = from + (i + 1) /\ k # from /\ k - 1 = from + i
        BY <2>2, <3>3
      <4> QED BY <3>1, <4>1
    <3> QED BY <3>2, <3>3
  <2> DEFINE S == {i \in 0 .. n : IsScreen(f[from + i]) /\ Goes(f[from + i], e, f[from + i].pos)}
  <2>4. 0 \in S
    <3>1. from + 0 = from
      OBVIOUS
    <3> QED BY <2>3, <3>1, Stays
  <2>5. ASSUME NEW i \in 0 .. n, i < n, i \in S PROVE i + 1 \in S
    <3>1. PICK g : g = f[from + i] /\ Goes(g, e, g.pos) /\ IsScreen(g)
      BY <2>5
    <3>2. PICK h : h = f[from + (i + 1)] /\ Goes(h, g, h.pos) /\ IsScreen(h)
      BY <1>3, <2>3, <2>5, <3>1
    <3>3. Goes(h, e, h.pos)
      BY <3>1, <3>2, GoesOn
    <3>4. i + 1 \in 0 .. n
      BY <2>5
    <3> QED BY <3>2, <3>3, <3>4
  <2>6. \A i \in 0 .. n : i \in S
    <3>1. S \in SUBSET (0 .. n)
      OBVIOUS
    <3> HIDE DEF S
    <3> QED BY <2>4, <2>5, <3>1, Onward
  <2>7. PICK g : g = f[to] /\ IsScreen(g) /\ Goes(g, e, g.pos)
    <3>1. n \in S
      BY <2>6
    <3> QED BY <2>2, <3>1
  <2>8. Goes(MoveCursor(g, e.pos), g, e.pos)
    BY <2>7, MoveIs
  <2> QED BY <1>1, <1>5, <2>1, <2>7, <2>8, GoesOn, ZenonT(40)
<1>6. CASE from >= to
  BY <1>2, <1>6, Stays
<1> QED BY <1>5, <1>6

(* The window is output below the line, and the cursor comes back.         *)
LEMMA ShowWindowIs ==
  ASSUME NEW e, IsScreen(e), e.pad \in Nat, e.shown \in Nat, NEW s, Len(s) \in Nat
  PROVE  Goes(ShowWindow(e, s), e, e.pos)
<1>1. PICK y, z : y = Prompt(e) + Len(s) /\ z = NextRow(e, s) * Cols - 1
  OBVIOUS
<1>2. PICK g : g = MoveCursor(e, y) /\ Goes(g, e, y) /\ IsScreen(g)
  BY MoveIs DEF Goes
<1>3. PICK h : h = CursorEraseEol(g, Len(s)) /\ Goes(h, g, g.pos) /\ IsScreen(h)
  BY <1>2, EraseEolIs DEF Goes
<1>4. PICK i : i = MoveCursor(h, z) /\ Goes(i, h, z) /\ IsScreen(i)
  BY <1>3, MoveIs DEF Goes
<1>5. z \in Nat
  <2>1. y \in Nat
    BY <1>1 DEF Prompt
  <2>2. PICK r \in Nat : r = RowOf(y)
    BY <2>1, RowIs
  <2>3. (r + 1) * Cols \in Nat /\ (r + 1) * Cols > 0
    BY TerminalAssumption
  <2> QED BY <1>1, <2>2, <2>3 DEF NextRow
<1>6. PICK j : j = RowDown(i) /\ IsScreen(j) /\ j.pos \in Nat /\ Goes(j, i, j.pos)
  <2>1. PICK u, x : u = Feed(Return(i.t)) /\ x = (RowOf(i.pos) + 1) * Cols
    OBVIOUS
  <2>2. RowDown(i) = [i EXCEPT !.t = u, !.pos = x]
    BY <2>1 DEF RowDown
  <2>3. PICK r \in Nat : r = RowOf(i.pos)
    BY <1>4, <1>5, RowIs DEF Goes
  <2>4. x \in Nat
    BY <2>1, <2>3, TerminalAssumption
  <2>5. PICK j : j = RowDown(i)
    OBVIOUS
  <2>6. Goes(j, i, x) /\ IsScreen(j) /\ j.pos = x
    BY <1>4, <2>2, <2>5 DEF Goes, IsScreen, Fields
  <2> QED BY <2>4, <2>5, <2>6
<1>7. j = BelowLine(e, s)
  BY <1>1, <1>2, <1>3, <1>4, <1>6 DEF BelowLine
<1>8. PICK n, w : /\ n \in Nat /\ n = e.shown * Cols
                  /\ w = [k \in 1 .. n |-> Shown] /\ Len(w) \in Nat
  <2>1. PICK n \in Nat : n = e.shown * Cols
    BY TerminalAssumption
  <2>2. [k \in 1 .. n |-> Shown] \in Seq({Shown})
    OBVIOUS
  <2>3. Len([k \in 1 .. n |-> Shown]) \in Nat
    BY <2>2, LenProperties
  <2> QED BY <2>1, <2>3
<1>9. PICK k : k = CursorOutput(j, w) /\ IsScreen(k) /\ Goes(k, j, k.pos)
  BY <1>6, <1>8, OutputIs DEF Goes
<1>10. PICK l, u : u = Len(s) /\ l = [k EXCEPT !.erase = u]
  OBVIOUS
<1>11. Goes(l, k, l.pos) /\ IsScreen(l)
  BY <1>9, <1>10 DEF Goes, IsScreen, Fields
<1>12. ShowWindow(e, s) = MoveCursor(l, e.pos)
  BY <1>7, <1>8, <1>9, <1>10 DEF ShowWindow
<1>13. PICK m : m = MoveCursor(l, e.pos) /\ Goes(m, l, e.pos)
  BY <1>11, MoveIs
<1>14. Goes(j, e, j.pos)
  <2>1. Goes(h, e, g.pos)
    BY <1>2, <1>3, GoesOn
  <2>2. Goes(i, e, z)
    BY <1>4, <2>1, GoesOn
  <2> QED BY <1>6, <2>2, GoesOn
<1>15. Goes(l, e, l.pos)
  BY <1>9, <1>11, <1>14, GoesOn
<1> QED BY <1>12, <1>13, <1>15, GoesOn

(* Where refresh_line takes the cursor.                                    *)
Stay(e) == IF e.back # 0 THEN e.back ELSE e.pos

(* The cursor is where it was; or at the start of the line, or where the   *)
(* drawing left it, when it was before or at the start.                    *)
Redrawn(g, e, s) ==
  /\ IsScreen(g) /\ g.pad = e.pad /\ g.refresh = e.refresh /\ g.shown = e.shown
  /\ g.back = 0 /\ g.start \in Int
  /\ \/ g.pos = Stay(e)
     \/ Stay(e) <= Prompt(e) /\ g.pos \in {Prompt(e), Prompt(e) + Len(s)}

(* The line is output again: the cursor is at one of its ends.             *)
Output(g, e, s) ==
  /\ IsScreen(g) /\ g.pad = e.pad /\ g.refresh = e.refresh /\ g.shown = e.shown
  /\ g.back = 0 /\ g.start \in Int
  /\ g.pos \in {Prompt(e), Prompt(e) + Len(s)}

LEMMA PromptAndLineIs ==
  ASSUME NEW e, IsScreen(e), e.pad \in Nat, e.start \in Int, NEW s \in Lines, NEW on,
         NEW g, g = PromptAndLine(e, s, on)
  PROVE  Output(g, e, s)
<1>1. Len(s) \in Nat /\ (s = <<>> => Len(s) = 0)
  BY LineIs
<1>2. PICK a : a = [e EXCEPT !.back = 0]
  OBVIOUS
<1>3. IsScreen(a) /\ a.pad = e.pad /\ a.back = 0 /\ a.refresh = e.refresh /\ a.shown = e.shown
      /\ a.start = e.start
  BY <1>2 DEF IsScreen, Fields
<1>4. PICK b : b = CursorEraseEol(a, Len(s)) /\ Goes(b, a, a.pos) /\ IsScreen(b)
  BY <1>3, EraseEolIs DEF Goes
<1>5. PICK c : c = MoveCursor(b, 0) /\ Goes(c, b, 0) /\ IsScreen(c)
  BY <1>4, MoveIs DEF Goes
<1>6. PICK h : h = OutputPrompt(c) /\ Goes(h, c, Prompt(c)) /\ IsScreen(h)
  BY <1>5, PromptIs DEF Goes
<1>7. h.pos = Prompt(e) /\ h.pos \in Nat /\ h.pad \in Nat
  BY <1>3, <1>4, <1>5, <1>6 DEF Goes, Prompt
<1>8. Goes(h, a, h.pos)
  <2>1. Goes(c, a, 0)
    BY <1>4, <1>5, GoesOn
  <2>2. Goes(h, a, Prompt(c))
    BY <1>6, <2>1, GoesOn
  <2> QED BY <2>2 DEF Goes
<1>9. Goes(g, h, h.pos) \/ Goes(g, h, h.pos + Len(s))
  <2>1. g = LineOutput(h, s, on)
    BY <1>2, <1>4, <1>5, <1>6 DEF PromptAndLine
  <2>2. Goes(RefreshVisual(h, s), h, h.pos)
    BY <1>1, <1>6, <1>7, VisualIs
  <2>3. Goes(CursorOutput(h, s), h, h.pos + Len(s))
    BY <1>1, <1>6, <1>7, OutputIs
  <2>4. Goes(h, h, h.pos)
    BY <1>6, Stays
  <2> QED BY <2>1, <2>2, <2>3, <2>4 DEF LineOutput
<1>10. Goes(g, a, Prompt(e)) \/ Goes(g, a, Prompt(e) + Len(s))
  BY <1>7, <1>8, <1>9, GoesOn
<1> QED BY <1>3, <1>10 DEF Goes, Output

(* The end of refresh_line.                                                *)
LEMMA BackToIs ==
  ASSUME NEW e, e.pad \in Nat, NEW s, NEW g, Output(g, e, s),
         NEW h, h = BackTo(g, Stay(e)), Stay(e) \in Nat
  PROVE  Redrawn(h, e, s)
<1>1. /\ IsScreen(g) /\ g.pad = e.pad /\ g.refresh = e.refresh /\ g.shown = e.shown
      /\ g.back = 0 /\ g.start \in Int
      /\ g.pos \in {Prompt(e), Prompt(e) + Len(s)}
  BY DEF Output
<1>2. Prompt(g) = Prompt(e) /\ Prompt(e) \in Nat
  BY <1>1 DEF Prompt
<1>3. CASE Stay(e) > Prompt(e)
  <2>1. PICK x \in Nat : x = Stay(e)
    OBVIOUS
  <2>2. h = MoveCursor(g, x)
    BY <1>2, <1>3, <2>1 DEF BackTo
  <2>3. Goes(h, g, x)
    BY <1>1, <2>2, MoveIs
  <2>4. /\ IsScreen(h) /\ h.pad = e.pad /\ h.refresh = e.refresh /\ h.shown = e.shown
        /\ h.back = 0 /\ h.start \in Int /\ h.pos = Stay(e)
    BY <1>1, <2>1, <2>3 DEF Goes
  <2> QED BY <2>4 DEF Redrawn
<1>4. CASE ~(Stay(e) > Prompt(e))
  <2>1. h = g
    BY <1>2, <1>4 DEF BackTo
  <2>2. Stay(e) <= Prompt(e)
    BY <1>2, <1>4
  <2> QED BY <1>1, <2>1, <2>2 DEF Redrawn
<1> QED BY <1>3, <1>4

(* output_show                                                             *)
LEMMA OutputShowIs ==
  ASSUME NEW e, IsScreen(e), e.pad \in Nat, e.shown \in Nat, e.start \in Int,
         e.back = 0, e.pos \in Nat, NEW s \in Lines, NEW on,
         NEW g, g = OutputShow(e, s, on)
  PROVE  Redrawn(g, e, s)
<1>1. Len(s) \in Nat
  BY LineIs
<1>2. PICK row \in Nat : row = NextRow(e, s)
  <2>1. Prompt(e) + Len(s) \in Nat
    BY <1>1 DEF Prompt
  <2>2. RowOf(Prompt(e) + Len(s)) \in Nat
    BY <2>1, RowIs
  <2> QED BY <2>2 DEF NextRow
<1>3. PICK a : a = [e EXCEPT !.start = row]
  OBVIOUS
<1>4. IsScreen(a) /\ a.pad = e.pad /\ a.back = 0 /\ a.refresh = e.refresh /\ a.shown = e.shown
      /\ a.start = row /\ a.pos = e.pos
  BY <1>3 DEF IsScreen, Fields
<1>5. Stay(e) = e.pos
  BY DEF Stay
<1>6. CASE e.shown = 0
  <2>1. g = e
    BY <1>6 DEF OutputShow
  <2> QED BY <1>5, <2>1 DEF Redrawn
<1>7. CASE e.shown > 0 /\ row >= e.start
  <2>1. g = ShowWindow(a, s)
    BY <1>2, <1>3, <1>7 DEF OutputShow
  <2>2. Goes(g, a, a.pos)
    BY <1>1, <1>4, <2>1, ShowWindowIs
  <2> QED BY <1>4, <1>5, <2>2 DEF Redrawn, Goes
<1>8. CASE e.shown # 0 /\ ~(e.shown > 0 /\ row >= e.start)
  <2>1. PICK from \in Int, to \in Int : from = row - 1 + e.shown /\ to = e.start + e.shown
    OBVIOUS
  <2>2. PICK c : c = ShowClearLines(a, s, from, to) /\ Goes(c, a, a.pos) /\ IsScreen(c)
    BY <1>4, <2>1, ClearLinesIs DEF Goes
  <2>3. /\ c.pad = e.pad /\ c.back = 0 /\ c.refresh = e.refresh /\ c.shown = e.shown
        /\ c.start \in Int /\ c.pos = e.pos
    BY <1>4, <2>2 DEF Goes
  <2>4. PICK p : p = PromptAndLine(c, s, on) /\ Output(p, c, s) /\ IsScreen(p)
    BY <2>2, <2>3, PromptAndLineIs DEF Output
  <2>5. PICK u : u = c.erase
    OBVIOUS
  <2>6. PICK q : q = [p EXCEPT !.erase = u]
    OBVIOUS
  <2>7. Goes(q, p, p.pos) /\ IsScreen(q)
    BY <2>4, <2>6 DEF Goes, IsScreen, Fields
  <2>8. /\ q.pad = e.pad /\ q.back = 0 /\ q.refresh = e.refresh /\ q.shown = e.shown
        /\ q.start \in Int /\ q.pos \in {Prompt(e), Prompt(e) + Len(s)}
    BY <2>3, <2>4, <2>7 DEF Goes, Output, Prompt
  <2>9. PICK w : w = ShowWindow(q, s) /\ Goes(w, q, q.pos)
    BY <1>1, <2>7, <2>8, ShowWindowIs
  <2>10. Output(w, e, s)
    BY <2>8, <2>9 DEF Output, Goes
  <2>11. g = BackTo(w, Stay(c))
    BY <1>2, <1>3, <1>8, <2>1, <2>2, <2>4, <2>5, <2>6, <2>9 DEF OutputShow, RefreshAnd, Stay
  <2>12. Stay(c) = Stay(e)
    BY <1>5, <2>3 DEF Stay
  <2>13. Stay(e) \in Nat
    BY <1>5
  <2> QED BY <2>10, <2>11, <2>12, <2>13, BackToIs
<1> QED BY <1>6, <1>7, <1>8

(* refresh_line                                                            *)
LEMMA RefreshIs ==
  ASSUME NEW e, IsScreen(e), e.pad \in Nat, e.shown \in Nat, e.start \in Int,
         Stay(e) \in Nat, NEW s \in Lines, NEW on,
         NEW g, g = RefreshLine(e, s, on)
  PROVE  Redrawn(g, e, s)
<1>1. Len(s) \in Nat
  BY LineIs
<1>2. PICK p : p = PromptAndLine(e, s, on) /\ Output(p, e, s) /\ IsScreen(p)
  BY PromptAndLineIs DEF Output
<1>3. PICK u : u = e.erase
  OBVIOUS
<1>4. PICK q : q = [p EXCEPT !.erase = u]
  OBVIOUS
<1>5. Goes(q, p, p.pos) /\ IsScreen(q)
  BY <1>2, <1>4 DEF Goes, IsScreen, Fields
<1>6. /\ q.pad = e.pad /\ q.back = 0 /\ q.refresh = e.refresh /\ q.shown = e.shown
      /\ q.start \in Int /\ q.pos \in {Prompt(e), Prompt(e) + Len(s)}
  BY <1>2, <1>5 DEF Goes, Output
<1>7. PICK w : w = IF e.shown > 0 THEN OutputShow(q, s, on) ELSE CursorEraseEol(q, Len(s))
  OBVIOUS
<1>8. g = BackTo(w, Stay(e))
  BY <1>2, <1>3, <1>4, <1>7 DEF RefreshLine, RefreshAnd, Stay
<1>9. Output(w, e, s)
  <2>1. CASE e.shown > 0
    <3>1. w = OutputShow(q, s, on)
      BY <1>7, <2>1
    <3>2. q.pos \in Nat
      BY <1>1, <1>6 DEF Prompt
    <3>3. Redrawn(w, q, s)
      BY <1>5, <1>6, <3>1, <3>2, OutputShowIs
    <3>4. Stay(q) = q.pos /\ Prompt(q) = Prompt(e)
      BY <1>6 DEF Stay, Prompt
    <3> QED BY <1>6, <3>3, <3>4 DEF Redrawn, Output
  <2>2. CASE ~(e.shown > 0)
    <3>1. Goes(w, q, q.pos)
      BY <1>5, <1>7, <2>2, EraseEolIs
    <3> QED BY <1>6, <3>1 DEF Goes, Output
  <2> QED BY <2>1, <2>2
<1> QED BY <1>8, <1>9, BackToIs

-----------------------------------------------------------------------------
(* The cursor of the line.                                                 *)

(* The cursor is at the offset o of a line that begins after p columns     *)
(* more than the prompt, and the line is not to be drawn again.            *)
Over(g, o, p) ==
  /\ IsScreen(g) /\ g.shown \in Nat /\ g.start \in Int
  /\ g.pad = p /\ p \in Nat /\ o \in Nat
  /\ g.pos = 1 + p + o
  /\ g.back = 0 /\ g.refresh = FALSE

LEMMA OverIs ==
  ASSUME NEW g, NEW o, NEW p, Over(g, o, p)
  PROVE  /\ IsScreen(g) /\ g.pos \in Nat \ {0} /\ g.pad \in Nat /\ Prompt(g) = 1 + p
         /\ Prompt(g) \in Nat /\ g.pos = Prompt(g) + o /\ Stay(g) = g.pos
         /\ Off(g) = o
BY DEF Over, Prompt, Stay, Off

LEMMA OverGoes ==
  ASSUME NEW e, NEW o, NEW p, Over(e, o, p), NEW g, NEW x, Goes(g, e, x),
         NEW n \in Nat, x = 1 + p + n
  PROVE  Over(g, n, p)
BY DEF Over, Goes

(* Drawn again, the cursor is where it was or at an end of the line.       *)
LEMMA OverRedrawn ==
  ASSUME NEW e, NEW o, NEW p, Over(e, o, p), NEW g, NEW s \in Lines, Redrawn(g, e, s)
  PROVE  \E n \in {o, 0, Len(s)} : Over(g, n, p)
<1>1. /\ IsScreen(g) /\ g.pad = p /\ g.refresh = FALSE /\ g.shown \in Nat /\ g.back = 0
      /\ g.start \in Int /\ p \in Nat /\ o \in Nat /\ Len(s) \in Nat
  BY LineIs DEF Over, Redrawn
<1>2. Stay(e) = 1 + p + o /\ Prompt(e) = 1 + p
  BY OverIs, ZenonT(40) DEF Over
<1>3. g.pos = 1 + p + o \/ g.pos = 1 + p + 0 \/ g.pos = 1 + p + Len(s)
  BY <1>1, <1>2 DEF Redrawn
<1> QED BY <1>1, <1>3 DEF Over

(* What one command draws.                                                 *)
LEMMA StepIs ==
  ASSUME NEW e, NEW o, NEW p, Over(e, o, p), NEW n
  PROVE  /\ n \in Nat => Over(Step(e, To(n)), n, p)
         /\ n \in 0 .. o => Over(Step(e, Back(n)), o - n, p)
         /\ n \in Nat => Over(Step(e, Fwd(n)), o + n, p)
         /\ Len(n) \in Nat => Over(Step(e, Put(n)), o + Len(n), p)
         /\ Over(Step(e, Clear), o, p)
         /\ Over(Step(e, ClearAll(n)), o, p)
         /\ Over(Step(e, Grow(n)), o, p)
         /\ Over(Step(e, Bell), o, p)
         /\ Over(Step(e, Ask), o, p)
         /\ Len(line) \in Nat => Over(Step(e, All), o, p)
<1>1. /\ IsScreen(e) /\ e.pos \in Nat \ {0} /\ e.pad \in Nat /\ Prompt(e) = 1 + p
      /\ e.pos = 1 + p + o /\ p \in Nat /\ o \in Nat
  BY OverIs, ZenonT(40) DEF Over
<1>2. ASSUME n \in Nat PROVE Over(Step(e, To(n)), n, p)
  <2>1. PICK x : x = Prompt(e) + n /\ x = 1 + p + n
    BY <1>1
  <2>2. Step(e, To(n)) = MoveCursor(e, x)
    BY <2>1 DEF Step, To
  <2> QED BY <1>1, <1>2, <2>1, <2>2, MoveIs, OverGoes
<1>3. ASSUME n \in 0 .. o PROVE Over(Step(e, Back(n)), o - n, p)
  <2>1. Step(e, Back(n)) = MoveCursorBack(e, n)
    BY DEF Step, Back
  <2>2. Goes(MoveCursorBack(e, n), e, e.pos - n)
    BY <1>1, <1>3, BackIs
  <2>3. o - n \in Nat /\ e.pos - n = 1 + p + (o - n)
    BY <1>1, <1>3
  <2> QED BY <2>1, <2>2, <2>3, OverGoes
<1>4. ASSUME n \in Nat PROVE Over(Step(e, Fwd(n)), o + n, p)
  <2>1. Step(e, Fwd(n)) = MoveCursorFwd(e, n)
    BY DEF Step, Fwd
  <2>2. Goes(MoveCursorFwd(e, n), e, e.pos + n)
    BY <1>1, <1>4, FwdIs
  <2>3. o + n \in Nat /\ e.pos + n = 1 + p + (o + n)
    BY <1>1, <1>4
  <2> QED BY <2>1, <2>2, <2>3, OverGoes
<1>5. ASSUME Len(n) \in Nat PROVE Over(Step(e, Put(n)), o + Len(n), p)
  <2>1. Step(e, Put(n)) = CursorOutput(e, n)
    BY DEF Step, Put
  <2>2. Goes(CursorOutput(e, n), e, e.pos + Len(n))
    BY <1>1, <1>5, OutputIs
  <2>3. o + Len(n) \in Nat /\ e.pos + Len(n) = 1 + p + (o + Len(n))
    BY <1>1, <1>5
  <2> QED BY <2>1, <2>2, <2>3, OverGoes
<1>6. ASSUME NEW g, Goes(g, e, e.pos) PROVE Over(g, o, p)
  BY <1>1, <1>6, OverGoes
<1>7. Over(Step(e, Clear), o, p)
  <2>1. Step(e, Clear) = EraseHere(e)
    BY DEF Step, Clear
  <2> QED BY <1>1, <1>6, <2>1, EraseHereIs
<1>8. Over(Step(e, ClearAll(n)), o, p)
  <2>1. Step(e, ClearAll(n)) = CursorEraseEol(e, n)
    BY DEF Step, ClearAll
  <2> QED BY <1>1, <1>6, <2>1, EraseEolIs
<1>9. Over(Step(e, Grow(n)), o, p)
  <2>1. Step(e, Grow(n)) = Extend(e, n)
    BY DEF Step, Grow
  <2> QED BY <1>1, <1>6, <2>1, ExtendIs
<1>10. Over(Step(e, Bell), o, p)
  <2>1. PICK b : b = IF HasRight THEN 2 ELSE 0
    OBVIOUS
  <2>2. Step(e, Bell) = [e EXCEPT !.bell = b, !.needed = TRUE]
    BY <2>1 DEF Step, Bell
  <2>3. Goes(Step(e, Bell), e, e.pos)
    BY <1>1, <2>2 DEF Goes, IsScreen, Fields
  <2> QED BY <1>6, <2>3
<1>11. Over(Step(e, Ask), o, p)
  <2>1. Step(e, Ask) = [e EXCEPT !.needed = TRUE]
    BY DEF Step, Ask
  <2>2. Goes(Step(e, Ask), e, e.pos)
    BY <1>1, <2>1 DEF Goes, IsScreen, Fields
  <2> QED BY <1>6, <2>2
<1>12. ASSUME Len(line) \in Nat PROVE Over(Step(e, All), o, p)
  <2>1. Step(e, All) = RefreshVisual(e, line)
    BY DEF Step, All
  <2> QED BY <1>1, <1>6, <1>12, <2>1, VisualIs
<1> QED BY <1>2, <1>3, <1>4, <1>5, <1>7, <1>8, <1>9, <1>10, <1>11, <1>12

(* f[i] is what the first i of the n commands draw.                        *)
Traced(f, e, cmds, n) ==
  /\ f[0] = e /\ Draw(e, cmds) = f[n]
  /\ \A i \in 0 .. n : \A j \in 0 .. n : j = i + 1 => f[j] = Step(f[i], cmds[j])

(* The commands of an action are drawn one after the other.                *)
LEMMA DrawnIs ==
  ASSUME NEW e, NEW cmds, NEW n \in Nat, n = Len(cmds)
  PROVE  \E f : Traced(f, e, cmds, n)
<1> DEFINE Out(f, m) == f = [i \in 0 .. m |-> IF i = 0 THEN e ELSE Step(f[i - 1], cmds[i])]
<1>1. Draw(e, cmds) = (CHOOSE f : Out(f, n))[n]
  BY Zenon DEF Draw
<1>2. \E f : Out(f, n)
  <2> DEFINE S == {m \in 0 .. n : \E f : Out(f, m)}
  <2>1. 0 \in S
    <3>0. PICK z \in Nat : z = 0
      OBVIOUS
    <3> DEFINE h == [i \in 0 .. z |-> e]
    <3>1. \A i \in 0 .. z : h[i] = IF i = 0 THEN e ELSE Step(h[i - 1], cmds[i])
      BY <3>0
    <3>2. Out(h, 0)
      <4>1. Out(h, z)
        BY <3>1
      <4> QED BY <3>0, <4>1, Zenon
    <3> HIDE DEF Out, h
    <3>3. \E f : Out(f, 0)
      BY <3>2
    <3> QED BY <3>3
  <2>2. ASSUME NEW m \in 0 .. n, m < n, m \in S PROVE m + 1 \in S
    <3>1. PICK f : Out(f, m)
      BY <2>2
    <3> DEFINE h == [i \in 0 .. m + 1 |-> IF i <= m THEN f[i] ELSE Step(f[m], cmds[m + 1])]
    <3>2. \A i \in 0 .. m + 1 : h[i] = IF i = 0 THEN e ELSE Step(h[i - 1], cmds[i])
      <4> TAKE i \in 0 .. m + 1
      <4>1. CASE i <= m
        <5>1. h[i] = f[i] /\ (i # 0 => h[i - 1] = f[i - 1]) /\ i \in 0 .. m
          BY <4>1
        <5>2. f[i] = IF i = 0 THEN e ELSE Step(f[i - 1], cmds[i])
          BY <3>1, <5>1
        <5> QED BY <5>1, <5>2
      <4>2. CASE i = m + 1
        <5>1. h[i] = Step(f[m], cmds[m + 1]) /\ h[i - 1] = f[m] /\ i # 0
          BY <4>2
        <5> QED BY <4>2, <5>1
      <4> QED BY <4>1, <4>2
    <3>3. Out(h, m + 1)
      BY <3>2
    <3>4. m + 1 \in 0 .. n
      BY <2>2
    <3> HIDE DEF Out, h
    <3>5. \E x : Out(x, m + 1)
      BY <3>3
    <3> QED BY <3>4, <3>5
  <2>3. S \in SUBSET (0 .. n)
    OBVIOUS
  <2> HIDE DEF S
  <2>4. \A i \in 0 .. n : i \in S
    BY <2>1, <2>2, <2>3, Onward
  <2>5. n \in S
    BY <2>4
  <2> HIDE DEF Out
  <2> QED BY <2>5 DEF S
<1>3. PICK f : f = (CHOOSE x : Out(x, n)) /\ Out(f, n)
  <2> HIDE DEF Out
  <2>1. Out(CHOOSE x : Out(x, n), n)
    BY <1>2, Zenon
  <2> QED BY <2>1, Zenon
<1>4. \A i \in 0 .. n : f[i] = IF i = 0 THEN e ELSE Step(f[i - 1], cmds[i])
  BY <1>3, Zenon
<1>5. f[0] = e
  BY <1>4
<1>6. \A i \in 0 .. n : \A j \in 0 .. n : j = i + 1 => f[j] = Step(f[i], cmds[j])
  <2> SUFFICES ASSUME NEW i \in 0 .. n, NEW j \in 0 .. n, j = i + 1
               PROVE  f[j] = Step(f[i], cmds[j])
    OBVIOUS
  <2>1. PICK k \in 0 .. n : k = j /\ k # 0 /\ k - 1 = i
    OBVIOUS
  <2>2. PICK m : m = k - 1 /\ m = i
    BY <2>1
  <2>3. f[k] = IF k = 0 THEN e ELSE Step(f[k - 1], cmds[k])
    BY <1>4, Zenon
  <2>4. f[k] = Step(f[m], cmds[k])
    BY <2>1, <2>2, <2>3, Zenon
  <2> QED BY <2>1, <2>2, <2>4, Zenon
<1>7. Draw(e, cmds) = f[n]
  BY <1>1, <1>3
<1> HIDE DEF Out
<1> QED BY <1>5, <1>6, <1>7, Zenon DEF Traced

LEMMA DrawNone ==
  ASSUME NEW e
  PROVE  Draw(e, <<>>) = e
<1>1. 0 \in Nat /\ 0 = Len(<<>>)
  OBVIOUS
<1>2. PICK f : Traced(f, e, <<>>, 0)
  BY <1>1, DrawnIs, Zenon
<1>3. f[0] = e /\ Draw(e, <<>>) = f[0]
  BY <1>2, Zenon DEF Traced
<1> QED BY <1>3

(* What up to five commands do, one after the other.                       *)
LEMMA DrawMany ==
  ASSUME NEW e, NEW s, NEW n \in 1 .. 5, n = Len(s)
  PROVE  /\ n = 1 => Draw(e, s) = Step(e, s[1])
         /\ n = 2 => Draw(e, s) = Step(Step(e, s[1]), s[2])
         /\ n = 3 => Draw(e, s) = Step(Step(Step(e, s[1]), s[2]), s[3])
         /\ n = 4 => Draw(e, s) = Step(Step(Step(Step(e, s[1]), s[2]), s[3]), s[4])
         /\ n = 5 => Draw(e, s) = Step(Step(Step(Step(Step(e, s[1]), s[2]), s[3]), s[4]), s[5])
<1>0. n \in Nat
  OBVIOUS
<1>1. PICK f : /\ f[0] = e /\ Draw(e, s) = f[n]
               /\ \A i \in 0 .. n : \A j \in 0 .. n : j = i + 1 => f[j] = Step(f[i], s[j])
  <2>1. PICK f : Traced(f, e, s, n)
    BY <1>0, DrawnIs, Zenon
  <2> QED BY <2>1, Zenon DEF Traced
<1>2. f[1] = Step(f[0], s[1])
  BY <1>1
<1>3. n > 1 => f[2] = Step(f[1], s[2])
  BY <1>1
<1>4. n > 2 => f[3] = Step(f[2], s[3])
  BY <1>1
<1>5. n > 3 => f[4] = Step(f[3], s[4])
  BY <1>1
<1>6. n > 4 => f[5] = Step(f[4], s[5])
  BY <1>1
<1>7. n \in {1, 2, 3, 4, 5}
  OBVIOUS
<1>8. Draw(e, s) = f[n] /\ f[0] = e
  BY <1>1
<1>9. CASE n = 1
  BY <1>2, <1>8, <1>9
<1>10. CASE n = 2
  BY <1>2, <1>3, <1>8, <1>10
<1>11. CASE n = 3
  BY <1>2, <1>3, <1>4, <1>8, <1>11
<1>12. CASE n = 4
  BY <1>2, <1>3, <1>4, <1>5, <1>8, <1>12
<1>13. CASE n = 5
  BY <1>2, <1>3, <1>4, <1>5, <1>6, <1>8, <1>13
<1> QED BY <1>7, <1>9, <1>10, <1>11, <1>12, <1>13

LEMMA DrawOne ==
  ASSUME NEW e, NEW a
  PROVE  Draw(e, <<a>>) = Step(e, a)
<1>1. PICK s : s = <<a>>
  OBVIOUS
<1>2. Len(s) = 1 /\ s[1] = a
  BY <1>1
<1>3. Draw(e, s) = Step(e, s[1])
  BY <1>2, DrawMany
<1> QED BY <1>1, <1>2, <1>3

LEMMA DrawTwo ==
  ASSUME NEW e, NEW a, NEW b
  PROVE  Draw(e, <<a, b>>) = Step(Step(e, a), b)
<1>1. PICK s : s = <<a, b>>
  OBVIOUS
<1>2. Len(s) = 2 /\ s[1] = a /\ s[2] = b
  BY <1>1
<1>3. Draw(e, s) = Step(Step(e, s[1]), s[2])
  BY <1>2, DrawMany
<1> QED BY <1>1, <1>2, <1>3

LEMMA DrawThree ==
  ASSUME NEW e, NEW a, NEW b, NEW c
  PROVE  Draw(e, <<a, b, c>>) = Step(Step(Step(e, a), b), c)
<1>1. PICK s : s = <<a, b, c>>
  OBVIOUS
<1>2. Len(s) = 3 /\ s[1] = a /\ s[2] = b /\ s[3] = c
  BY <1>1
<1>3. Draw(e, s) = Step(Step(Step(e, s[1]), s[2]), s[3])
  BY <1>2, DrawMany
<1> QED BY <1>1, <1>2, <1>3

LEMMA DrawFour ==
  ASSUME NEW e, NEW a, NEW b, NEW c, NEW k
  PROVE  Draw(e, <<a, b, c, k>>) = Step(Step(Step(Step(e, a), b), c), k)
<1>1. PICK s : s = <<a, b, c, k>>
  OBVIOUS
<1>2. Len(s) = 4 /\ s[1] = a /\ s[2] = b /\ s[3] = c /\ s[4] = k
  BY <1>1
<1>3. Draw(e, s) = Step(Step(Step(Step(e, s[1]), s[2]), s[3]), s[4])
  BY <1>2, DrawMany
<1> QED BY <1>1, <1>2, <1>3

LEMMA DrawFive ==
  ASSUME NEW e, NEW a, NEW b, NEW c, NEW k, NEW l
  PROVE  Draw(e, <<a, b, c, k, l>>) = Step(Step(Step(Step(Step(e, a), b), c), k), l)
<1>1. PICK s : s = <<a, b, c, k, l>>
  OBVIOUS
<1>2. Len(s) = 5 /\ s[1] = a /\ s[2] = b /\ s[3] = c /\ s[4] = k /\ s[5] = l
  BY <1>1
<1>3. Draw(e, s) = Step(Step(Step(Step(Step(e, s[1]), s[2]), s[3]), s[4]), s[5])
  BY <1>2, DrawMany
<1> QED BY <1>1, <1>2, <1>3

(* Commands joined.                                                        *)
LEMMA JoinedIs ==
  ASSUME NEW T, NEW u \in Seq(T), NEW v \in Seq(T), NEW s, s = u \o v
  PROVE  /\ Len(s) = Len(u) + Len(v) /\ DOMAIN s = 1 .. Len(u) + Len(v)
         /\ \A j \in 1 .. Len(u) : s[j] = u[j]
         /\ \A i \in 1 .. Len(v), j \in 1 .. Len(u) + Len(v) : j = Len(u) + i => s[j] = v[i]
OBVIOUS


LEMMA DrawJoined ==
  ASSUME NEW e, NEW T, NEW u \in Seq(T), NEW v \in Seq(T)
  PROVE  Draw(e, u \o v) = Draw(Draw(e, u), v)
<1>1. PICK m \in Nat, n \in Nat : m = Len(u) /\ n = Len(v)
  OBVIOUS
<1>2. PICK s : s = u \o v
  OBVIOUS
<1>3. /\ Len(s) = m + n
      /\ \A j \in 1 .. m : s[j] = u[j]
      /\ \A i \in 1 .. n, j \in 1 .. m + n : j = m + i => s[j] = v[i]
  <2>1. /\ Len(s) = Len(u) + Len(v)
        /\ \A j \in 1 .. Len(u) : s[j] = u[j]
        /\ \A i \in 1 .. Len(v), j \in 1 .. Len(u) + Len(v) : j = Len(u) + i => s[j] = v[i]
    BY <1>2, JoinedIs
  <2> QED BY <1>1, <2>1
<1>4. PICK f : /\ f[0] = e /\ Draw(e, u) = f[m]
               /\ \A i \in 0 .. m : \A j \in 0 .. m : j = i + 1 => f[j] = Step(f[i], u[j])
  <2>1. m \in Nat /\ m = Len(u)
    BY <1>1
  <2>2. PICK f : Traced(f, e, u, m)
    BY <2>1, DrawnIs, Zenon
  <2> QED BY <2>2, Zenon DEF Traced
<1>5. PICK x : x = Draw(e, u)
  OBVIOUS
<1>6. PICK g : /\ g[0] = x /\ Draw(x, v) = g[n]
               /\ \A i \in 0 .. n : \A j \in 0 .. n : j = i + 1 => g[j] = Step(g[i], v[j])
  <2>1. n \in Nat /\ n = Len(v)
    BY <1>1
  <2>2. PICK g : Traced(g, x, v, n)
    BY <2>1, DrawnIs, Zenon
  <2> QED BY <2>2, Zenon DEF Traced
<1>7. PICK k \in Nat : k = m + n
  OBVIOUS
<1>8. PICK h : /\ h[0] = e /\ Draw(e, s) = h[k]
               /\ \A i \in 0 .. k : \A j \in 0 .. k : j = i + 1 => h[j] = Step(h[i], s[j])
  <2>1. k = Len(s) /\ k \in Nat
    BY <1>3, <1>7
  <2>2. PICK h : Traced(h, e, s, k)
    BY <2>1, DrawnIs, Zenon
  <2> QED BY <2>2, Zenon DEF Traced
<1>9. \A i \in 0 .. m : h[i] = f[i]
  <2> DEFINE S == {i \in 0 .. m : h[i] = f[i]}
  <2>1. 0 \in S
    BY <1>4, <1>8
  <2>2. ASSUME NEW i \in 0 .. m, i < m, i \in S PROVE i + 1 \in S
    <3>1. PICK j \in 1 .. m : j = i + 1
      BY <2>2
    <3>2. f[j] = Step(f[i], u[j])
      BY <1>4, <3>1
    <3>3. h[j] = Step(h[i], s[j])
      BY <1>7, <1>8, <3>1
    <3>4. h[j] = f[j]
      BY <1>3, <2>2, <3>2, <3>3
    <3> QED BY <3>1, <3>4
  <2>3. S \in SUBSET (0 .. m)
    OBVIOUS
  <2> HIDE DEF S
  <2>4. \A i \in 0 .. m : i \in S
    BY <2>1, <2>2, <2>3, Onward
  <2> QED BY <2>4 DEF S
<1>10. \A i \in 0 .. n : h[m + i] = g[i]
  <2> DEFINE S == {i \in 0 .. n : h[m + i] = g[i]}
  <2>1. 0 \in S
    <3>1. h[m] = f[m]
      BY <1>9
    <3>2. h[m + 0] = g[0]
      BY <1>4, <1>5, <1>6, <3>1
    <3> QED BY <3>2
  <2>2. ASSUME NEW i \in 0 .. n, i < n, i \in S PROVE i + 1 \in S
    <3>1. PICK j \in 1 .. n : j = i + 1
      BY <2>2
    <3>2. PICK p \in 0 .. k, q \in 1 .. k : p = m + i /\ q = p + 1 /\ q = m + j
      BY <1>7, <2>2, <3>1
    <3>3. g[j] = Step(g[i], v[j])
      BY <1>6, <3>1
    <3>4. h[q] = Step(h[p], s[q])
      BY <1>8, <3>2
    <3>5. s[q] = v[j] /\ h[p] = g[i]
      BY <1>3, <1>7, <2>2, <3>1, <3>2
    <3>6. h[q] = g[j]
      BY <3>3, <3>4, <3>5
    <3>7. h[m + j] = g[j]
      BY <3>2, <3>6
    <3> QED BY <3>1, <3>7
  <2>3. S \in SUBSET (0 .. n)
    OBVIOUS
  <2> HIDE DEF S
  <2>4. \A i \in 0 .. n : i \in S
    BY <2>1, <2>2, <2>3, Onward
  <2> QED BY <2>4 DEF S
<1>11. h[k] = g[n]
  BY <1>7, <1>10
<1> QED BY <1>2, <1>5, <1>6, <1>8, <1>11

(* One command, or none, before some others.                               *)
LEMMA DrawThen ==
  ASSUME NEW e, NEW a, NEW b
  PROVE  Draw(e, <<a>> \o <<b>>) = Draw(Draw(e, <<a>>), <<b>>)
<1>1. PICK T : <<a>> \in Seq(T) /\ <<b>> \in Seq(T)
  <2>1. <<a>> \in Seq({a, b}) /\ <<b>> \in Seq({a, b})
    OBVIOUS
  <2> QED BY <2>1, Zenon
<1>2. PICK u \in Seq(T), v \in Seq(T) : u = <<a>> /\ v = <<b>>
  BY <1>1
<1>3. Draw(e, u \o v) = Draw(Draw(e, u), v)
  BY DrawJoined
<1> QED BY <1>2, <1>3

LEMMA DrawOnly ==
  ASSUME NEW e, NEW a
  PROVE  Draw(e, <<>> \o <<a>>) = Draw(e, <<a>>)
<1>1. PICK T : <<>> \in Seq(T) /\ <<a>> \in Seq(T)
  <2>1. <<>> \in Seq({a}) /\ <<a>> \in Seq({a})
    OBVIOUS
  <2> QED BY <2>1, Zenon
<1>2. PICK u \in Seq(T), v \in Seq(T) : u = <<>> /\ v = <<a>>
  BY <1>1
<1>3. Draw(e, u \o v) = Draw(Draw(e, u), v)
  BY DrawJoined
<1> QED BY <1>2, <1>3, DrawNone

LEMMA DrawNoMore ==
  ASSUME NEW e, NEW a
  PROVE  Draw(e, <<a>> \o <<>>) = Draw(e, <<a>>)
<1>1. PICK T : <<a>> \in Seq(T) /\ <<>> \in Seq(T)
  <2>1. <<a>> \in Seq({a}) /\ <<>> \in Seq({a})
    OBVIOUS
  <2> QED BY <2>1, Zenon
<1>2. PICK u \in Seq(T), v \in Seq(T) : u = <<a>> /\ v = <<>>
  BY <1>1
<1>3. Draw(e, u \o v) = Draw(Draw(e, u), v)
  BY DrawJoined
<1> QED BY <1>2, <1>3, DrawNone

LEMMA DrawThenFour ==
  ASSUME NEW e, NEW a, NEW b, NEW c, NEW k, NEW l
  PROVE  Draw(e, <<a>> \o <<b, c, k, l>>) = Draw(Draw(e, <<a>>), <<b, c, k, l>>)
<1>1. PICK T : <<a>> \in Seq(T) /\ <<b, c, k, l>> \in Seq(T)
  <2>1. <<a>> \in Seq({a, b, c, k, l}) /\ <<b, c, k, l>> \in Seq({a, b, c, k, l})
    OBVIOUS
  <2> QED BY <2>1, Zenon
<1>2. PICK u \in Seq(T), v \in Seq(T) : u = <<a>> /\ v = <<b, c, k, l>>
  BY <1>1
<1>3. Draw(e, u \o v) = Draw(Draw(e, u), v)
  BY DrawJoined
<1> QED BY <1>2, <1>3

LEMMA DrawOnlyFour ==
  ASSUME NEW e, NEW b, NEW c, NEW k, NEW l
  PROVE  Draw(e, <<>> \o <<b, c, k, l>>) = Draw(e, <<b, c, k, l>>)
<1>1. PICK T : <<>> \in Seq(T) /\ <<b, c, k, l>> \in Seq(T)
  <2>1. <<>> \in Seq({b, c, k, l}) /\ <<b, c, k, l>> \in Seq({b, c, k, l})
    OBVIOUS
  <2> QED BY <2>1, Zenon
<1>2. PICK u \in Seq(T), v \in Seq(T) : u = <<>> /\ v = <<b, c, k, l>>
  BY <1>1
<1>3. Draw(e, u \o v) = Draw(Draw(e, u), v)
  BY DrawJoined
<1> QED BY <1>2, <1>3, DrawNone

LEMMA DrawTwoThen ==
  ASSUME NEW e, NEW a, NEW b, NEW k
  PROVE  Draw(e, (<<a, b>> \o <<>>) \o <<k>>) = Draw(Draw(e, <<a, b>>), <<k>>)
<1>1. PICK T : <<a, b>> \in Seq(T) /\ <<>> \in Seq(T) /\ <<k>> \in Seq(T)
  <2>1. <<a, b>> \in Seq({a, b, k}) /\ <<>> \in Seq({a, b, k}) /\ <<k>> \in Seq({a, b, k})
    OBVIOUS
  <2> QED BY <2>1, Zenon
<1>2. PICK u \in Seq(T), z \in Seq(T), v \in Seq(T) : u = <<a, b>> /\ z = <<>> /\ v = <<k>>
  BY <1>1
<1>3. PICK y \in Seq(T) : y = u \o z
  <2>1. u \o z \in Seq(T)
    BY ConcatProperties
  <2> QED BY <2>1, Zenon
<1>4. Draw(e, y \o v) = Draw(Draw(e, y), v)
  BY DrawJoined
<1>5. Draw(e, u \o z) = Draw(Draw(e, u), z)
  BY DrawJoined
<1>6. Draw(e, y) = Draw(e, u)
  BY <1>2, <1>3, <1>5, DrawNone
<1> QED BY <1>2, <1>3, <1>4, <1>6

LEMMA DrawTwoThenTwo ==
  ASSUME NEW e, NEW a, NEW b, NEW c, NEW k
  PROVE  Draw(e, (<<a, b>> \o <<c>>) \o <<k>>) = Draw(Draw(Draw(e, <<a, b>>), <<c>>), <<k>>)
<1>1. PICK T : <<a, b>> \in Seq(T) /\ <<c>> \in Seq(T) /\ <<k>> \in Seq(T)
  <2>1. /\ <<a, b>> \in Seq({a, b, c, k}) /\ <<c>> \in Seq({a, b, c, k})
        /\ <<k>> \in Seq({a, b, c, k})
    OBVIOUS
  <2> QED BY <2>1, Zenon
<1>2. PICK u \in Seq(T), z \in Seq(T), v \in Seq(T) : u = <<a, b>> /\ z = <<c>> /\ v = <<k>>
  BY <1>1
<1>3. PICK y \in Seq(T) : y = u \o z
  <2>1. u \o z \in Seq(T)
    BY ConcatProperties
  <2> QED BY <2>1, Zenon
<1>4. Draw(e, y \o v) = Draw(Draw(e, y), v)
  BY DrawJoined
<1>5. Draw(e, u \o z) = Draw(Draw(e, u), z)
  BY DrawJoined
<1> QED BY <1>2, <1>3, <1>4, <1>5

-----------------------------------------------------------------------------
(* What is drawn before the wait, and at the end of the line.              *)

LEMMA PadForIs ==
  ASSUME NEW s \in Lines
  PROVE  PadFor(s) \in Nat
<1> DEFINE fits == {p \in 0 .. Cols - 2 : ~Overflows(s, Cols - (1 + p))}
<1>1. fits \in SUBSET Nat
  OBVIOUS
<1>2. PadFor(s) = IF Len(s) + 1 < Cols \/ fits = {} THEN 0
                  ELSE CHOOSE p \in fits : \A q \in fits : p <= q
  BY Zenon DEF PadFor
<1> HIDE DEF fits
<1>3. CASE fits = {}
  BY <1>2, <1>3
<1>4. CASE fits # {}
  <2>1. \E p \in fits : \A q \in fits : p <= q
    BY <1>1, <1>4, LeastOf
  <2>2. PICK c : c = (CHOOSE p \in fits : \A q \in fits : p <= q) /\ c \in fits
    BY <2>1, Zenon
  <2>3. PadFor(s) = 0 \/ PadFor(s) = c
    BY <1>2, <2>2, Zenon
  <2>4. c \in Nat
    BY <1>1, <2>2, Zenon
  <2> QED BY <2>3, <2>4
<1> QED BY <1>3, <1>4

LEMMA PaddedIs ==
  ASSUME NEW e, NEW o, NEW p, Over(e, o, p), NEW s \in Lines, NEW on,
         NEW g, g = Padded(e, s, on)
  PROVE  \E q \in Nat : Over(g, o, q)
<1>1. PICK pad \in Nat : pad = PadFor(s)
  BY PadForIs
<1>2. /\ IsScreen(e) /\ e.pos = 1 + p + o /\ e.pad = p /\ p \in Nat /\ o \in Nat
      /\ e.back = 0 /\ e.refresh = FALSE /\ e.shown \in Nat /\ e.start \in Int
  BY DEF Over
<1>3. PICK u : u = e.erase + pad - e.pad
  OBVIOUS
<1>4. PICK a : a = [e EXCEPT !.pad = pad, !.erase = u, !.refresh = FALSE]
  OBVIOUS
<1>5. /\ IsScreen(a) /\ a.pad = pad /\ a.back = 0 /\ a.refresh = FALSE
      /\ a.shown = e.shown /\ a.start = e.start
  BY <1>2, <1>4 DEF IsScreen, Fields
<1>6. PICK b : b = MoveCursor(a, 0) /\ Goes(b, a, 0) /\ IsScreen(b)
  BY <1>5, MoveIs DEF Goes
<1>7. /\ b.pad = pad /\ b.back = 0 /\ b.refresh = FALSE /\ b.shown = e.shown
      /\ b.start = e.start /\ Stay(b) \in Nat
  BY <1>5, <1>6 DEF Goes, Stay
<1>8. PICK f : f = RefreshLine(b, s, on) /\ Redrawn(f, b, s)
  BY <1>1, <1>2, <1>6, <1>7, RefreshIs
<1>9. /\ IsScreen(f) /\ f.pad = pad /\ f.back = 0 /\ f.refresh = FALSE /\ f.shown \in Nat
      /\ f.start \in Int
  BY <1>2, <1>7, <1>8 DEF Redrawn
<1>10. PICK x : x = e.pos + pad - e.pad /\ x = 1 + pad + o
  BY <1>1, <1>2
<1>11. PICK h : h = MoveCursor(f, x) /\ Goes(h, f, x)
  BY <1>9, MoveIs
<1>12. Over(h, o, pad)
  BY <1>1, <1>2, <1>9, <1>10, <1>11 DEF Goes, Over
<1>13. PICK m : m = [e EXCEPT !.pad = pad]
  OBVIOUS
<1>14. g = e \/ g = h \/ (pad = e.pad /\ g = m)
  <2>1. PICK skip, again : /\ skip = ~(Len(s) + Prompt(e) >= Cols - 1 \/ e.pad # 0)
                           /\ again = (e.refresh \/ Len(s) + 1 < Cols \/ pad # e.pad)
    OBVIOUS
  <2>2. g = IF skip THEN e ELSE IF again THEN h ELSE m
    BY <1>1, <1>3, <1>4, <1>6, <1>8, <1>10, <1>11, <1>13, <2>1, Zenon DEF Padded
  <2>3. again \/ pad = e.pad
    BY <2>1, Zenon
  <2>4. CASE skip
    BY <2>2, <2>4, Zenon
  <2>5. CASE ~skip /\ again
    BY <2>2, <2>5, Zenon
  <2>6. CASE ~skip /\ ~again
    BY <2>2, <2>3, <2>6, Zenon
  <2> QED BY <2>4, <2>5, <2>6, Zenon
<1>15. pad = e.pad => Over(m, o, pad)
  BY <1>2, <1>13 DEF Over, IsScreen, Fields
<1>16. p \in Nat
  BY <1>2
<1> QED BY <1>1, <1>12, <1>14, <1>15, <1>16, Zenon

LEMMA ShowFollowsIs ==
  ASSUME NEW e, NEW o, NEW p, Over(e, o, p), NEW s \in Lines, NEW on,
         NEW g, g = ShowFollows(e, s, on)
  PROVE  \E n \in {o, 0, Len(s)} : Over(g, n, p)
<1>1. /\ IsScreen(e) /\ e.pos \in Nat /\ e.pad \in Nat /\ e.back = 0 /\ e.shown \in Nat
      /\ e.start \in Int
  BY OverIs DEF Over
<1>2. PICK moved : moved = (RowOf(e.was + Prompt(e)) # RowOf(Len(s) + Prompt(e)))
  OBVIOUS
<1>3. PICK a : a = IF moved /\ e.shown > 0 THEN OutputShow(e, s, on) ELSE e
  OBVIOUS
<1>4. \E n \in {o, 0, Len(s)} : Over(a, n, p)
  <2>1. CASE moved /\ e.shown > 0
    <3>1. Redrawn(a, e, s)
      BY <1>1, <1>3, <2>1, OutputShowIs
    <3> QED BY <3>1, OverRedrawn
  <2>2. CASE ~(moved /\ e.shown > 0)
    <3>1. a = e
      BY <1>3, <2>2, Zenon
    <3> QED BY <3>1
  <2> QED BY <2>1, <2>2
<1>5. PICK n \in {o, 0, Len(s)} : Over(a, n, p)
  BY <1>4
<1>6. PICK w : w = Len(s)
  OBVIOUS
<1>7. g = [a EXCEPT !.was = w]
  BY <1>2, <1>3, <1>6 DEF ShowFollows
<1>8. Goes(g, a, a.pos)
  BY <1>5, <1>7, Aside, ZenonT(40) DEF Over
<1>9. n \in Nat /\ a.pos = 1 + p + n
  BY <1>5 DEF Over
<1>10. Over(g, n, p)
  BY <1>5, <1>8, <1>9, OverGoes
<1> QED BY <1>5, <1>10

(* do_get_line, before the cursor of the command mode is put in its place. *)
LEMMA WaitingIs ==
  ASSUME NEW e, NEW o, NEW p, Over(e, o, p), NEW s \in Lines, NEW name, NEW on,
         NEW g, g = Waiting(e, s, name, on)
  PROVE  \E n \in {o, 0, Len(s)}, q \in Nat : Over(g, n, q)
<1>1. PICK a : a = Padded(e, s, on)
  OBVIOUS
<1>2. PICK q \in Nat : Over(a, o, q)
  BY <1>1, PaddedIs
<1>3. PICK b : b = ShowFollows(a, s, on)
  OBVIOUS
<1>4. PICK n \in {o, 0, Len(s)} : Over(b, n, q)
  BY <1>2, <1>3, ShowFollowsIs
<1>5. n \in Nat /\ b.pos = 1 + q + n /\ IsScreen(b) /\ b.pad \in Nat
  BY <1>4 DEF Over
<1>6. PICK c : c = VisualFollows(b, s, on)
  OBVIOUS
<1>7. Goes(c, b, b.pos)
  BY <1>5, <1>6, LineIs, VisualIs
<1>8. Over(c, n, q)
  BY <1>4, <1>5, <1>7, OverGoes
<1>9. g = RightPromptFollows(c, s, name)
  BY <1>1, <1>3, <1>6 DEF Waiting
<1>10. IsScreen(c) /\ c.pos = 1 + q + n
  BY <1>8 DEF Over
<1>11. PICK r : r = OutputRightPrompt(c, s, name, FALSE) /\ Goes(r, c, c.pos) /\ IsScreen(r)
  BY <1>10, RightPromptIs DEF Goes
<1>12. PICK x : x = [r EXCEPT !.needed = FALSE]
  OBVIOUS
<1>13. Goes(x, r, r.pos)
  BY <1>11, <1>12, Aside
<1>14. Goes(x, c, c.pos)
  BY <1>11, <1>13 DEF Goes
<1>15. Over(x, n, q)
  BY <1>5, <1>8, <1>10, <1>14, OverGoes
<1>16. g = x \/ g = c
  BY <1>9, <1>11, <1>12 DEF RightPromptFollows
<1>17. Over(g, n, q)
  BY <1>8, <1>15, <1>16
<1> QED BY <1>2, <1>4, <1>17

(* The show window is cleared.                                             *)
LEMMA ShowClearIs ==
  ASSUME NEW e, NEW o, NEW p, Over(e, o, p), NEW s \in Lines, NEW on,
         NEW g, g = ShowClear(e, s, on)
  PROVE  \E n \in {o, 0, Len(s)} : Over(g, n, p)
<1>1. PICK u : u = Len(s) + (Cols - ((Prompt(e) + Len(s)) % Cols)) + e.shown * Cols
  OBVIOUS
<1>2. PICK a : a = [e EXCEPT !.erase = u, !.shown = 0, !.start = 0]
  OBVIOUS
<1>3. g = RefreshLine(a, s, on)
  BY <1>1, <1>2 DEF ShowClear
<1>4. Over(a, o, p)
  BY <1>2 DEF Over, IsScreen, Fields
<1>5. IsScreen(a) /\ a.pad \in Nat /\ a.shown \in Nat /\ a.start \in Int /\ Stay(a) \in Nat
  BY <1>4, OverIs DEF Over
<1>6. Redrawn(g, a, s)
  BY <1>3, <1>5, RefreshIs
<1> QED BY <1>4, <1>6, OverRedrawn

LEMMA StepTo ==
  ASSUME NEW e, NEW o, NEW p, Over(e, o, p), NEW n \in Nat
  PROVE  Over(Step(e, To(n)), n, p)
BY StepIs

LEMMA StepBack ==
  ASSUME NEW e, NEW o, NEW p, Over(e, o, p), NEW n \in 0 .. o, NEW x, x = o - n
  PROVE  Over(Step(e, Back(n)), x, p)
<1>1. Over(Step(e, Back(n)), o - n, p)
  BY StepIs
<1> QED BY <1>1

LEMMA StepFwd ==
  ASSUME NEW e, NEW o, NEW p, Over(e, o, p), NEW n \in Nat, NEW x, x = o + n
  PROVE  Over(Step(e, Fwd(n)), x, p)
<1>1. Over(Step(e, Fwd(n)), o + n, p)
  BY StepIs
<1> QED BY <1>1

LEMMA StepPut ==
  ASSUME NEW e, NEW o, NEW p, Over(e, o, p), NEW s, Len(s) \in Nat, NEW x, x = o + Len(s)
  PROVE  Over(Step(e, Put(s)), x, p)
<1>1. Over(Step(e, Put(s)), o + Len(s), p)
  BY StepIs
<1> QED BY <1>1

LEMMA StepAside ==
  ASSUME NEW e, NEW o, NEW p, Over(e, o, p), NEW n
  PROVE  /\ Over(Step(e, Clear), o, p) /\ Over(Step(e, ClearAll(n)), o, p)
         /\ Over(Step(e, Grow(n)), o, p) /\ Over(Step(e, Bell), o, p)
         /\ Over(Step(e, Ask), o, p)
         /\ Len(line) \in Nat => Over(Step(e, All), o, p)
BY StepIs

LEMMA StepClearAll ==
  ASSUME NEW e, NEW o, NEW p, Over(e, o, p), NEW n
  PROVE  Over(Step(e, ClearAll(n)), o, p)
BY StepAside

LEMMA StepGrow ==
  ASSUME NEW e, NEW o, NEW p, Over(e, o, p), NEW n
  PROVE  Over(Step(e, Grow(n)), o, p)
BY StepAside

-----------------------------------------------------------------------------
(* Where the commands of the actions leave the cursor.                     *)

LEMMA OverFew ==
  ASSUME NEW e, NEW o, NEW p, Over(e, o, p), Len(line) \in Nat, NEW n
  PROVE  /\ Over(Draw(e, <<>>), o, p)
         /\ Over(Draw(e, <<Bell>>), o, p)
         /\ Over(Draw(e, <<Ask>>), o, p)
         /\ Over(Draw(e, <<Ask, All>>), o, p)
         /\ n \in Nat => Over(Draw(e, <<To(n)>>), n, p)
         /\ n \in Nat => Over(Draw(e, <<To(n), Ask, All>>), n, p)
         /\ n \in 0 .. o => Over(Draw(e, <<Back(n)>>), o - n, p)
         /\ n \in 0 .. o => Over(Draw(e, <<Ask, Back(n)>>), o - n, p)
         /\ n \in Nat => Over(Draw(e, <<Fwd(n)>>), o + n, p)
         /\ n \in Nat => Over(Draw(e, <<Ask, Fwd(n)>>), o + n, p)
         /\ Len(n) \in Nat => Over(Draw(e, <<Put(n)>>), o + Len(n), p)
         /\ Over(Draw(e, <<ClearAll(n)>>), o, p)
<1>1. PICK a : a = Step(e, Ask) /\ Over(a, o, p)
  BY StepAside
<1>2. Over(Draw(e, <<>>), o, p)
  BY DrawNone
<1>3. Over(Draw(e, <<Bell>>), o, p)
  BY DrawOne, StepAside
<1>4. Over(Draw(e, <<Ask>>), o, p)
  BY <1>1, DrawOne
<1>5. Over(Draw(e, <<Ask, All>>), o, p)
  <2>1. Draw(e, <<Ask, All>>) = Step(a, All)
    BY <1>1, DrawTwo
  <2> QED BY <1>1, <2>1, StepAside
<1>6. ASSUME n \in Nat PROVE Over(Draw(e, <<To(n)>>), n, p)
  BY <1>6, DrawOne, StepTo
<1>7. ASSUME n \in Nat PROVE Over(Draw(e, <<To(n), Ask, All>>), n, p)
  <2>1. PICK f : f = Step(e, To(n)) /\ Over(f, n, p)
    BY <1>7, StepTo
  <2>2. PICK g : g = Step(f, Ask) /\ Over(g, n, p)
    BY <2>1, StepAside
  <2>3. PICK h : h = Step(g, All) /\ Over(h, n, p)
    BY <2>2, StepAside
  <2>4. Draw(e, <<To(n), Ask, All>>) = h
    BY <2>1, <2>2, <2>3, DrawThree
  <2> QED BY <2>3, <2>4
<1>8. ASSUME n \in 0 .. o PROVE Over(Draw(e, <<Back(n)>>), o - n, p)
  BY <1>8, DrawOne, StepBack
<1>9. ASSUME n \in 0 .. o PROVE Over(Draw(e, <<Ask, Back(n)>>), o - n, p)
  <2>1. Draw(e, <<Ask, Back(n)>>) = Step(a, Back(n))
    BY <1>1, DrawTwo
  <2> QED BY <1>1, <1>9, <2>1, StepBack
<1>10. ASSUME n \in Nat PROVE Over(Draw(e, <<Fwd(n)>>), o + n, p)
  BY <1>10, DrawOne, StepFwd
<1>11. ASSUME n \in Nat PROVE Over(Draw(e, <<Ask, Fwd(n)>>), o + n, p)
  <2>1. Draw(e, <<Ask, Fwd(n)>>) = Step(a, Fwd(n))
    BY <1>1, DrawTwo
  <2> QED BY <1>1, <1>11, <2>1, StepFwd
<1>12. ASSUME Len(n) \in Nat PROVE Over(Draw(e, <<Put(n)>>), o + Len(n), p)
  BY <1>12, DrawOne, StepPut
<1>13. Over(Draw(e, <<ClearAll(n)>>), o, p)
  BY DrawOne, StepAside
<1> QED BY <1>2, <1>3, <1>4, <1>5, <1>6, <1>7, <1>8, <1>9, <1>10, <1>11, <1>12, <1>13

(* Text is put at the cursor, in a longer line or not, and the cursor goes *)
(* back.                                                                   *)
LEMMA OverPut ==
  ASSUME NEW e, NEW o, NEW p, Over(e, o, p), NEW s, Len(s) \in Nat, NEW m,
         NEW y, y = o + Len(s), NEW n \in 0 .. y, NEW x, x = y - n
  PROVE  /\ Over(Draw(e, <<Grow(m), Put(s)>>), y, p)
         /\ Over(Draw(e, <<Grow(m), Put(s), Back(n)>>), x, p)
         /\ Over(Draw(e, <<Put(s), Back(n)>>), x, p)
<1>1. PICK f : f = Step(e, Grow(m)) /\ Over(f, o, p)
  BY StepGrow
<1>2. PICK g, h : /\ g = Step(e, Put(s)) /\ Over(g, y, p)
                  /\ h = Step(f, Put(s)) /\ Over(h, y, p)
  BY <1>1, StepPut
<1>3. Over(Step(g, Back(n)), x, p) /\ Over(Step(h, Back(n)), x, p)
  BY <1>2, StepBack
<1>4. Draw(e, <<Grow(m), Put(s)>>) = h
  BY <1>1, <1>2, DrawTwo
<1>5. Draw(e, <<Grow(m), Put(s), Back(n)>>) = Step(h, Back(n))
  BY <1>1, <1>2, DrawThree
<1>6. Draw(e, <<Put(s), Back(n)>>) = Step(g, Back(n))
  BY <1>2, DrawTwo
<1> QED BY <1>2, <1>3, <1>4, <1>5, <1>6

(* The cursor goes back before the text is put.                            *)
LEMMA OverBackPut ==
  ASSUME NEW e, NEW o, NEW p, Over(e, o, p), NEW k \in 0 .. o, NEW s, Len(s) \in Nat, NEW m,
         NEW x, x = o - k, NEW y, y = x + Len(s), NEW n \in 0 .. y, NEW z, z = y - n
  PROVE  /\ Over(Draw(e, <<Back(k), Put(s), Back(n)>>), z, p)
         /\ Over(Draw(e, <<Back(k), Put(s), Clear, Back(n)>>), z, p)
         /\ Over(Draw(e, <<Grow(m), Back(k), Put(s), Back(n)>>), z, p)
<1>1. PICK f : f = Step(e, Back(k)) /\ Over(f, x, p)
  BY StepBack
<1>2. PICK g : g = Step(f, Put(s)) /\ Over(g, y, p)
  BY <1>1, StepPut
<1>3. PICK h : h = Step(g, Clear) /\ Over(h, y, p)
  BY <1>2, StepAside
<1>5. Over(Step(g, Back(n)), z, p) /\ Over(Step(h, Back(n)), z, p)
  BY <1>2, <1>3, StepBack
<1>6. PICK a : a = Step(e, Grow(m)) /\ Over(a, o, p)
  BY StepGrow
<1>7. PICK b : b = Step(a, Back(k)) /\ Over(b, x, p)
  BY <1>6, StepBack
<1>8. PICK c : c = Step(b, Put(s)) /\ Over(c, y, p)
  BY <1>7, StepPut
<1>9. Over(Step(c, Back(n)), z, p)
  BY <1>8, StepBack
<1>10. Draw(e, <<Back(k), Put(s), Back(n)>>) = Step(g, Back(n))
  BY <1>1, <1>2, DrawThree
<1>11. Draw(e, <<Back(k), Put(s), Clear, Back(n)>>) = Step(h, Back(n))
  BY <1>1, <1>2, <1>3, DrawFour
<1>12. Draw(e, <<Grow(m), Back(k), Put(s), Back(n)>>) = Step(c, Back(n))
  BY <1>6, <1>7, <1>8, DrawFour
<1> QED BY <1>5, <1>9, <1>10, <1>11, <1>12

(* The cursor goes to an offset of the line, before or after the text.     *)
LEMMA OverTo ==
  ASSUME NEW e, NEW o, NEW p, Over(e, o, p), NEW k \in Nat, NEW s, Len(s) \in Nat, NEW m,
         NEW u, NEW n \in Nat
  PROVE  /\ Over(Draw(e, <<To(k), Put(s)>>), k + Len(s), p)
         /\ Over(Draw(e, <<To(k), Put(s), ClearAll(u), To(n)>>), n, p)
         /\ Over(Draw(e, <<Grow(m), Put(s), ClearAll(u), To(n)>>), n, p)
         /\ Over(Draw(e, <<Grow(m), To(k), Put(s), ClearAll(u), To(n)>>), n, p)
<1>0. PICK x \in Nat, y \in Nat : x = k + Len(s) /\ y = o + Len(s)
  BY DEF Over
<1>1. PICK f : f = Step(e, To(k)) /\ Over(f, k, p)
  BY StepTo
<1>2. PICK g : g = Step(f, Put(s)) /\ Over(g, x, p)
  BY <1>0, <1>1, StepPut
<1>3. PICK h : h = Step(g, ClearAll(u)) /\ Over(h, x, p)
  BY <1>2, StepClearAll
<1>4. Over(Step(h, To(n)), n, p)
  BY <1>3, StepTo
<1>5. PICK a : a = Step(e, Grow(m)) /\ Over(a, o, p)
  BY StepGrow
<1>6. PICK b : b = Step(a, Put(s)) /\ Over(b, y, p)
  BY <1>0, <1>5, StepPut
<1>7. PICK c : c = Step(b, ClearAll(u)) /\ Over(c, y, p)
  BY <1>6, StepClearAll
<1>8. Over(Step(c, To(n)), n, p)
  BY <1>7, StepTo
<1>9. PICK q : q = Step(a, To(k)) /\ Over(q, k, p)
  BY <1>5, StepTo
<1>10. PICK r : r = Step(q, Put(s)) /\ Over(r, x, p)
  BY <1>0, <1>9, StepPut
<1>11. PICK w : w = Step(r, ClearAll(u)) /\ Over(w, x, p)
  BY <1>10, StepClearAll
<1>12. Over(Step(w, To(n)), n, p)
  BY <1>11, StepTo
<1>13. Draw(e, <<To(k), Put(s)>>) = g
  BY <1>1, <1>2, DrawTwo
<1>14. Draw(e, <<To(k), Put(s), ClearAll(u), To(n)>>) = Step(h, To(n))
  BY <1>1, <1>2, <1>3, DrawFour
<1>15. Draw(e, <<Grow(m), Put(s), ClearAll(u), To(n)>>) = Step(c, To(n))
  BY <1>5, <1>6, <1>7, DrawFour
<1>16. Draw(e, <<Grow(m), To(k), Put(s), ClearAll(u), To(n)>>) = Step(w, To(n))
  BY <1>5, <1>9, <1>10, <1>11, DrawFive
<1> QED BY <1>0, <1>2, <1>4, <1>8, <1>12, <1>13, <1>14, <1>15, <1>16

(* What was pasted is taken away, and nothing comes in its place.          *)
LEMMA OverTaken ==
  ASSUME NEW e, NEW o, NEW p, Over(e, o, p), NEW s, Len(s) \in Nat, NEW u,
         NEW y, y = o + Len(s), NEW n \in 0 .. y, NEW x, x = y - n
  PROVE  Over(Draw(e, <<Put(s), ClearAll(u), Back(n), Bell>>), x, p)
<1>1. PICK f : f = Step(e, Put(s)) /\ Over(f, y, p)
  BY StepPut
<1>2. PICK g : g = Step(f, ClearAll(u)) /\ Over(g, y, p)
  BY <1>1, StepClearAll
<1>3. PICK h : h = Step(g, Back(n)) /\ Over(h, x, p)
  BY <1>2, StepBack
<1>4. Over(Step(h, Bell), x, p)
  BY <1>3, StepAside
<1>5. Draw(e, <<Put(s), ClearAll(u), Back(n), Bell>>) = Step(h, Bell)
  BY <1>1, <1>2, <1>3, DrawFour
<1> QED BY <1>4, <1>5

-----------------------------------------------------------------------------
(* The invariant.                                                          *)

(* What takes the cursor, or a part of the line, between the columns of a  *)
(* character, or takes a text for what was pasted that is not.             *)
Careful == Habits \cap {"replaceEnd", "onWide", "killWide", "lateYank"} = {}

(* The texts of the yank buffer.                                           *)
Texts == {s \in Lines : Paired(s) /\ Narrow(s) /\ s # <<>>}

(* The cursor, or the place where it will be when the line is back, is not *)
(* between the columns of a character.                                     *)
Placed ==
  /\ done = "no" => Over(d, off, d.pad) /\ Edge(line, off)
  /\ done = "away" => /\ IsScreen(d) /\ d.pad \in Nat /\ d.shown \in Nat /\ d.start \in Int
                      /\ Stay(d) \in Nat /\ Edge(line, Stay(d) - Prompt(d))

Marked == visual => Edge(line, voff)

Ringed ==
  /\ yank \in [ring : Seq(Texts), off : Nat, idx : Nat]
  /\ yank.off <= Len(yank.ring) /\ yank.idx <= Len(yank.ring) + 1

(* What was pasted is in the line, which was before.base without it.       *)
PastedIn ==
  /\ pasted \in [start : Nat, size : Nat]
  /\ done = "exec" => pasted.size = 0
  /\ last = "paste" /\ pasted.size > 0 =>
       /\ Edge(line, pasted.start) /\ pasted.start + pasted.size <= End
       /\ Slice(line, 0, pasted.start) \o Slice(line, pasted.start + pasted.size, End)
            = before.base

(* The line before a kill is this one with the last text of the yank       *)
(* buffer where the kill was.                                              *)
Killed ==
  before.at >= 0 /\ "killPopped" \notin Habits =>
    /\ Len(yank.ring) > 0
    /\ Inserted(line, before.at, yank.ring[Len(yank.ring)]) = before.line

IInv ==
  /\ Paired(line) /\ mode \in Editing
  /\ Placed /\ Marked /\ Ringed /\ PastedIn /\ Killed

(* What a key does to the line and the cursor.                             *)
Typed ==
  /\ Paired(line')
  /\ \E o : Over(d', o, d.pad) /\ Edge(line', o)
  /\ mode' \in Editing /\ (visual' => Edge(line', voff'))

LEMMA KeyIs ==
  ASSUME IInv, NEW a, Pressed(a)
  PROVE  /\ Paired(line) /\ line \in Lines /\ End \in Nat
         /\ Over(d, off, d.pad) /\ Edge(line, off) /\ off \in 0 .. End /\ off \in Nat
         /\ done = "no" /\ mode \in Editing
         /\ "visual" \notin Bound(a) => ~visual
<1>1. done = "no" /\ Name \in Bound(a)
  BY DEF Pressed
<1>2. Paired(line) /\ mode \in Editing /\ Over(d, off, d.pad) /\ Edge(line, off)
  BY <1>1 DEF IInv, Placed
<1>3. line \in Lines /\ End \in Nat
  BY <1>2, Ends DEF End
<1>4. off \in 0 .. End /\ off \in Nat
  BY <1>2, <1>3 DEF Edge, End
<1>5. visual => Name = "visual"
  BY DEF Name
<1> QED BY <1>1, <1>2, <1>3, <1>4, <1>5, Zenon

LEMMA TypedBy ==
  ASSUME IInv, NEW new, NEW cmds, Becomes(new, cmds), d' = Draw(d, drawn'),
         Paired(new), NEW o, Over(Draw(d, cmds), o, d.pad), Edge(new, o),
         mode' \in Editing, visual' => Edge(new, voff')
  PROVE  Typed /\ last' = "other"
<1>1. line' = new /\ drawn' = cmds /\ last' = "other"
  BY DEF Becomes
<1>2. Over(d', o, d.pad) /\ Edge(line', o)
  BY <1>1, Zenon
<1> QED BY <1>1, <1>2, Zenon DEF Typed

(* The modes as they were, in a line that is as it was, or not in the      *)
(* visual mode.                                                            *)
LEMMA InModeIs ==
  ASSUME IInv, InMode, NEW new, new = line \/ ~visual
  PROVE  mode' \in Editing /\ (visual' => Edge(new, voff'))
<1>1. mode' = mode /\ visual' = visual /\ voff' = voff
  BY DEF InMode, modes
<1>2. mode \in Editing /\ (visual => Edge(line, voff))
  BY DEF IInv, Marked
<1> QED BY <1>1, <1>2, Zenon

LEMMA SetModeIs ==
  ASSUME NEW m \in Editing, SetMode(m), NEW new
  PROVE  mode' \in Editing /\ (visual' => Edge(new, voff'))
<1>1. mode' = m /\ visual' = FALSE
  BY DEF SetMode
<1> QED BY <1>1

(* A key that leaves the line as it is.                                    *)
LEMMA DrawsIs ==
  ASSUME IInv, NEW cmds, Draws(cmds), d' = Draw(d, drawn'),
         NEW o, Over(Draw(d, cmds), o, d.pad), Edge(line, o),
         mode' \in Editing, visual' => Edge(line, voff')
  PROVE  Typed /\ last' = "other" /\ line' = line
<1>1. Becomes(line, cmds) /\ Paired(line)
  BY DEF Draws, IInv
<1>2. line' = line
  BY <1>1 DEF Becomes
<1> QED BY <1>1, <1>2, TypedBy

LEMMA CellsPaired ==
  ASSUME NEW c \in Chars
  PROVE  /\ Paired(Cells(c)) /\ Len(Cells(c)) \in {1, 2}
         /\ c # Half /\ c \in Glyphs
<1>1. c \in {"x", "/", Blank, Wide}
  BY EditAssumption
<1>2. c # Half /\ c \in Glyphs
  BY <1>1 DEF Glyphs, Half, Blank, Wide
<1>3. CASE c = Wide
  <2>1. Cells(c) = <<Wide, Half>>
    BY <1>3 DEF Cells
  <2>2. PICK s : s = <<Wide, Half>>
    OBVIOUS
  <2>3. s \in Lines /\ Len(s) = 2 /\ s[1] = Wide /\ s[2] = Half
    BY <2>2 DEF Lines, Glyphs
  <2>4. Paired(s)
    BY <2>3 DEF Paired, Half, Wide
  <2> QED BY <1>2, <2>1, <2>2, <2>3, <2>4
<1>4. CASE c # Wide
  <2>1. Cells(c) = <<c>>
    BY <1>4 DEF Cells
  <2>2. PICK s : s = <<c>>
    OBVIOUS
  <2>3. s \in Lines /\ Len(s) = 1 /\ s[1] = c
    BY <1>2, <2>2 DEF Lines
  <2>4. Paired(s)
    BY <1>2, <1>4, <2>3 DEF Paired
  <2> QED BY <1>2, <2>1, <2>2, <2>3, <2>4
<1> QED BY <1>3, <1>4

-----------------------------------------------------------------------------
(* The keys that leave the line as it is.                                  *)

(* The moves to the left and to the right by one character.                *)
LEMMA OneAside ==
  ASSUME IInv, NEW a, Pressed(a)
  PROVE  /\ \E o : Over(Draw(d, LeftOne), o, d.pad) /\ Edge(line, o)
         /\ \E o : Over(Draw(d, RightOne), o, d.pad) /\ Edge(line, o)
<1>1. /\ Paired(line) /\ End \in Nat /\ Len(line) \in Nat /\ Over(d, off, d.pad)
      /\ Edge(line, off) /\ off \in 0 .. End /\ off \in Nat
  BY KeyIs DEF End
<1>2. \E o : Over(Draw(d, LeftOne), o, d.pad) /\ Edge(line, o)
  <2>1. CASE off > 0
    <3>1. WidthBack(off) \in 0 .. off /\ Edge(line, off - WidthBack(off))
      BY <1>1, <2>1, BackEdge
    <3>2. LeftOne = <<Back(WidthBack(off))>>
      BY <2>1 DEF LeftOne
    <3> QED BY <1>1, <3>1, <3>2, OverFew
  <2>2. CASE ~(off > 0)
    <3>1. LeftOne = <<>>
      BY <2>2 DEF LeftOne
    <3> QED BY <1>1, <3>1, OverFew
  <2> QED BY <2>1, <2>2
<1>3. \E o : Over(Draw(d, RightOne), o, d.pad) /\ Edge(line, o)
  <2>1. CASE off < End
    <3>1. WidthNext(off) \in Nat /\ Edge(line, off + WidthNext(off))
      BY <1>1, <2>1, NextEdge
    <3>2. RightOne = <<Fwd(WidthNext(off))>>
      BY <2>1 DEF RightOne
    <3> QED BY <1>1, <3>1, <3>2, OverFew
  <2>2. CASE ~(off < End)
    <3>1. RightOne = <<>>
      BY <2>2 DEF RightOne
    <3> QED BY <1>1, <3>1, OverFew
  <2> QED BY <2>1, <2>2
<1> QED BY <1>2, <1>3

(* The commands of keys that leave the cursor in the line, or take it to   *)
(* another place between two characters.                                   *)
LEMMA GoesTo ==
  ASSUME IInv, NEW a, Pressed(a)
  PROVE  /\ Over(Draw(d, <<>>), off, d.pad) /\ Over(Draw(d, <<Bell>>), off, d.pad)
         /\ Over(Draw(d, <<Ask>>), off, d.pad) /\ Over(Draw(d, <<Ask, All>>), off, d.pad)
         /\ \A i : Edge(line, i) => Over(Draw(d, <<To(i)>>), i, d.pad)
         /\ \A i : Edge(line, i) => Over(Draw(d, <<To(i), Ask, All>>), i, d.pad)
         /\ \A i : Edge(line, i) /\ i <= off => Over(Draw(d, <<Back(off - i)>>), i, d.pad)
         /\ \A i : Edge(line, i) /\ off <= i => Over(Draw(d, <<Fwd(i - off)>>), i, d.pad)
         /\ \A i : Edge(line, i) /\ off <= i => Over(Draw(d, <<Ask, Fwd(i - off)>>), i, d.pad)
         /\ Over(Draw(d, <<Ask, Back(off)>>), 0, d.pad)
         /\ Edge(line, off) /\ Edge(line, 0) /\ Edge(line, End)
<1>1. /\ Paired(line) /\ End \in Nat /\ Len(line) \in Nat /\ Over(d, off, d.pad)
      /\ Edge(line, off) /\ off \in 0 .. End /\ off \in Nat
  BY KeyIs DEF End
<1>2. Edge(line, 0) /\ Edge(line, End)
  BY <1>1, Ends DEF End
<1>3. \A i : Edge(line, i) => i \in Nat
  BY <1>1 DEF Edge
<1>4. /\ Over(Draw(d, <<>>), off, d.pad) /\ Over(Draw(d, <<Bell>>), off, d.pad)
      /\ Over(Draw(d, <<Ask>>), off, d.pad) /\ Over(Draw(d, <<Ask, All>>), off, d.pad)
  BY <1>1, OverFew, Zenon
<1>5. \A i : Edge(line, i) => Over(Draw(d, <<To(i)>>), i, d.pad)
  BY <1>1, <1>3, OverFew, Zenon
<1>6. \A i : Edge(line, i) => Over(Draw(d, <<To(i), Ask, All>>), i, d.pad)
  BY <1>1, <1>3, OverFew, Zenon
<1>7. ASSUME NEW i, Edge(line, i), i <= off PROVE Over(Draw(d, <<Back(off - i)>>), i, d.pad)
  <2>1. PICK n \in 0 .. off : n = off - i /\ off - n = i
    BY <1>1, <1>3, <1>7
  <2>2. Over(Draw(d, <<Back(n)>>), off - n, d.pad)
    BY <1>1, <2>1, OverFew
  <2> QED BY <2>1, <2>2
<1>8. ASSUME NEW i, Edge(line, i), off <= i
      PROVE  /\ Over(Draw(d, <<Fwd(i - off)>>), i, d.pad)
             /\ Over(Draw(d, <<Ask, Fwd(i - off)>>), i, d.pad)
  <2>1. PICK n \in Nat : n = i - off /\ off + n = i
    BY <1>1, <1>3, <1>8
  <2>2. Over(Draw(d, <<Fwd(n)>>), off + n, d.pad) /\ Over(Draw(d, <<Ask, Fwd(n)>>), off + n, d.pad)
    BY <1>1, <2>1, OverFew
  <2> QED BY <2>1, <2>2
<1>9. Over(Draw(d, <<Ask, Back(off)>>), 0, d.pad)
  <2>1. PICK n \in 0 .. off : n = off /\ off - n = 0
    BY <1>1
  <2>2. Over(Draw(d, <<Ask, Back(n)>>), off - n, d.pad)
    BY <1>1, <2>1, OverFew
  <2> QED BY <2>1, <2>2
<1> QED BY <1>1, <1>2, <1>4, <1>5, <1>6, <1>7, <1>8, <1>9

(* A key that only draws.                                                  *)
LEMMA OnlyDraws ==
  ASSUME IInv, NEW cmds, Draws(cmds), d' = Draw(d, drawn'), InMode,
         \E o : Over(Draw(d, cmds), o, d.pad) /\ Edge(line, o)
  PROVE  Typed /\ last' = "other" /\ line' = line
<1>1. mode' \in Editing /\ (visual' => Edge(line, voff'))
  BY InModeIs
<1> QED BY <1>1, DrawsIs

LEMMA MoveTyped ==
  ASSUME IInv, Careful, Move, d' = Draw(d, drawn')
  PROVE  Typed /\ last' = "other" /\ line' = line
<1>0. InMode
  BY DEF Move
<1>1. CASE Pressed("GOTO_BOL") /\ Draws(IF off # 0 THEN <<To(0)>> ELSE <<>>)
  <2>1. CASE off # 0
    BY <1>0, <1>1, <2>1, GoesTo, OnlyDraws
  <2>2. CASE off = 0
    BY <1>0, <1>1, <2>2, GoesTo, OnlyDraws
  <2> QED BY <2>1, <2>2
<1>2. CASE /\ Pressed("GOTO_EOL") /\ Draws(ToEol)
           /\ mode = "command" /\ WidthBack(End) = 2 => "onWide" \in Habits
  <2>1. off \in 0 .. End /\ End \in Nat /\ Paired(line) /\ Edge(line, End)
    BY <1>2, KeyIs, GoesTo
  <2>2. CASE mode # "command"
    <3>1. ToEol = <<Fwd(End - off)>> /\ off <= End
      BY <2>1, <2>2 DEF ToEol
    <3> QED BY <1>0, <1>2, <2>1, <3>1, GoesTo, OnlyDraws
  <2>3. CASE mode = "command" /\ off + 1 < End
    <3>1. PICK i : i = End - 1
      OBVIOUS
    <3>2. WidthBack(End) # 2
      BY <1>2, <2>3 DEF Careful
    <3>3. Edge(line, i)
      BY <2>1, <2>3, <3>1, <3>2, BackEdge
    <3>4. ToEol = <<Fwd(i - off)>> /\ off <= i
      <4>1. PICK n : n = i - off /\ n = End - (off + 1)
        BY <2>1, <3>1
      <4>2. ToEol = <<Fwd(n)>>
        BY <2>3, <4>1 DEF ToEol
      <4> QED BY <2>1, <2>3, <3>1, <4>1, <4>2
    <3> QED BY <1>0, <1>2, <3>3, <3>4, GoesTo, OnlyDraws
  <2>4. CASE mode = "command" /\ ~(off + 1 < End)
    <3>1. ToEol = <<>>
      BY <2>4 DEF ToEol
    <3> QED BY <1>0, <1>2, <3>1, GoesTo, OnlyDraws
  <2> QED BY <2>2, <2>3, <2>4
<1>3. CASE Pressed("GO_LEFT") /\ Draws(LeftOne)
  BY <1>0, <1>3, OneAside, OnlyDraws
<1>4. CASE Pressed("GO_RIGHT") /\ Draws(RightOne)
  BY <1>0, <1>4, OneAside, OnlyDraws
<1> QED BY <1>1, <1>2, <1>3, <1>4 DEF Move

LEMMA MoveWordTyped ==
  ASSUME IInv, Careful, MoveWord, d' = Draw(d, drawn')
  PROVE  Typed /\ last' = "other" /\ line' = line
<1>0. InMode
  BY DEF MoveWord
<1>1. PICK a : Pressed(a)
  BY DEF MoveWord
<1>2. /\ Paired(line) /\ End \in Nat /\ Edge(line, off) /\ off \in 0 .. End
  BY <1>1, KeyIs
<1>3. /\ Edge(line, PrevWord(off)) /\ PrevWord(off) <= off
      /\ Edge(line, PrevWordStart(off)) /\ PrevWordStart(off) <= off
      /\ Edge(line, NextWord(off)) /\ off <= NextWord(off)
      /\ Edge(line, NextWordStart(off)) /\ off <= NextWordStart(off)
  BY <1>2, WordsEdge
<1>4. CASE Draws(<<Back(off - PrevWord(off))>>)
  BY <1>0, <1>1, <1>3, <1>4, GoesTo, OnlyDraws
<1>5. CASE Draws(<<Back(off - PrevWordStart(off))>>)
  BY <1>0, <1>1, <1>3, <1>5, GoesTo, OnlyDraws
<1>6. CASE Draws(<<Fwd(NextWord(off) - off)>>)
  BY <1>0, <1>1, <1>3, <1>6, GoesTo, OnlyDraws
<1>7. CASE Draws(<<Fwd(NextWordStart(off) - off)>>)
  BY <1>0, <1>1, <1>3, <1>7, GoesTo, OnlyDraws
<1>8. CASE /\ off < End /\ Here(NextWordEnd(off)) = Half => "onWide" \in Habits
           /\ Draws(<<Fwd(NextWordEnd(off) - off)>>)
  <2>1. PICK i : i = NextWordEnd(off)
    OBVIOUS
  <2>2. i \in off .. End /\ (off < End => i < End) /\ (off >= End => i = off)
    BY <1>2, <2>1, WordEndIs
  <2>3. Edge(line, i)
    <3>1. CASE off < End
      <4>1. Here(i) # Half
        BY <1>8, <2>1, <3>1 DEF Careful
      <4> QED BY <1>2, <2>2, <4>1 DEF Edge, Here, End
    <3>2. CASE ~(off < End)
      <4>1. i = off
        BY <1>2, <2>2, <3>2
      <4> QED BY <1>2, <4>1
    <3> QED BY <3>1, <3>2
  <2>4. off <= i
    BY <1>2, <2>2
  <2> QED BY <1>0, <1>1, <1>8, <2>1, <2>3, <2>4, GoesTo, OnlyDraws
<1> QED BY <1>4, <1>5, <1>6, <1>7, <1>8 DEF MoveWord

LEMMA FindTyped ==
  ASSUME IInv, NEW c \in Chars, Find(c), d' = Draw(d, drawn')
  PROVE  Typed /\ last' = "other" /\ line' = line
<1>0. InMode
  BY DEF Find
<1>1. PICK till \in BOOLEAN : /\ Pressed(IF till THEN "TILL" ELSE "FIND")
                              /\ Draws(FoundNext(c, till)) \/ Draws(FoundPrev(c, till))
  BY DEF Find
<1>2. PICK a : Pressed(a)
  BY <1>1
<1>3. /\ Paired(line) /\ End \in Nat /\ Edge(line, off) /\ off \in 0 .. End /\ c # Half
  BY <1>2, KeyIs, CellsPaired
<1>4. \A i \in 0 .. End - 1 : Here(i) = c => Edge(line, i)
  BY <1>3 DEF Edge, Here, End
<1>5. CASE Draws(FoundNext(c, till))
  <2> DEFINE at == {i \in off + 1 .. End - 1 : Here(i) = c}
             i == CHOOSE k \in at : \A m \in at : k <= m
  <2>1. FoundNext(c, till) = IF at = {} THEN <<Bell>>
                             ELSE <<To(IF till THEN i - WidthBack(i) ELSE i)>>
    BY Zenon DEF FoundNext
  <2>2. at \in SUBSET Nat /\ \A k \in at : k \in 0 .. End - 1 /\ Here(k) = c /\ k > 0
    BY <1>3
  <2> HIDE DEF at
  <2>3. CASE at = {}
    BY <1>0, <1>2, <1>5, <2>1, <2>3, GoesTo, OnlyDraws
  <2>4. CASE at # {}
    <3>1. \E k \in at : \A m \in at : k <= m
      BY <2>2, <2>4, LeastOf
    <3>2. PICK j \in at : j = i
      BY <3>1, Zenon
    <3>3. Edge(line, j) /\ j > 0
      BY <1>4, <2>2, <3>2
    <3>4. Edge(line, j - WidthBack(j))
      BY <1>3, <3>3, BackEdge
    <3>5. PICK k : k = (IF till THEN j - WidthBack(j) ELSE j)
      OBVIOUS
    <3>6. Edge(line, k)
      BY <3>3, <3>4, <3>5
    <3> HIDE DEF i
    <3>7. FoundNext(c, till) = <<To(k)>>
      BY <2>1, <2>4, <3>2, <3>5
    <3> QED BY <1>0, <1>2, <1>5, <3>6, <3>7, GoesTo, OnlyDraws
  <2> QED BY <2>3, <2>4
<1>6. CASE Draws(FoundPrev(c, till))
  <2> DEFINE at == {i \in 0 .. off - 1 : Here(i) = c}
             i == CHOOSE k \in at : \A m \in at : m <= k
  <2>1. FoundPrev(c, till) = IF at = {} THEN <<Bell>>
                             ELSE <<To(IF till THEN i + WidthNext(i) ELSE i)>>
    BY Zenon DEF FoundPrev
  <2>2. at \in SUBSET (0 .. End) /\ \A k \in at : k \in 0 .. End - 1 /\ Here(k) = c
    BY <1>3
  <2> HIDE DEF at
  <2>3. CASE at = {}
    BY <1>0, <1>2, <1>6, <2>1, <2>3, GoesTo, OnlyDraws
  <2>4. CASE at # {}
    <3>1. \E k \in at : \A m \in at : m <= k
      BY <1>3, <2>2, <2>4, GreatestOf
    <3>2. PICK j \in at : j = i
      BY <3>1, Zenon
    <3>3. Edge(line, j) /\ j < End
      <4>1. j \in 0 .. End - 1 /\ Here(j) = c
        BY <2>2, <3>2, Zenon
      <4> QED BY <1>3, <1>4, <4>1
    <3>4. Edge(line, j + WidthNext(j))
      BY <1>3, <3>3, NextEdge
    <3>5. PICK k : k = (IF till THEN j + WidthNext(j) ELSE j)
      OBVIOUS
    <3>6. Edge(line, k)
      BY <3>3, <3>4, <3>5
    <3> HIDE DEF i
    <3>7. FoundPrev(c, till) = <<To(k)>>
      BY <2>1, <2>4, <3>2, <3>5
    <3> QED BY <1>0, <1>2, <1>6, <3>6, <3>7, GoesTo, OnlyDraws
  <2> QED BY <2>3, <2>4
<1> QED BY <1>1, <1>5, <1>6

LEMMA MatchParenTyped ==
  ASSUME IInv, MatchParen, d' = Draw(d, drawn')
  PROVE  Typed /\ last' = "other" /\ line' = line
<1>0. InMode /\ Pressed("MATCH_PAREN")
  BY DEF MatchParen
<1>1. Paired(line) /\ End \in Nat /\ Edge(line, 0) /\ Edge(line, End)
  BY <1>0, KeyIs, GoesTo
<1>2. CASE \E p \in {0, End} \cup {i \in 0 .. End - 1 : Here(i) = "x"} :
             p # off /\ Draws(<<To(p)>>)
  <2>1. PICK p \in {0, End} \cup {i \in 0 .. End - 1 : Here(i) = "x"} : Draws(<<To(p)>>)
    BY <1>2
  <2>2. Edge(line, p)
    BY <1>1, <2>1 DEF Edge, Here, End, Half
  <2> QED BY <1>0, <2>1, <2>2, GoesTo, OnlyDraws
<1>3. CASE Draws(<<Bell>>)
  BY <1>0, <1>3, GoesTo, OnlyDraws
<1> QED BY <1>2, <1>3 DEF MatchParen

LEMMA CaseWordTyped ==
  ASSUME IInv, CaseWord, d' = Draw(d, drawn')
  PROVE  Typed /\ last' = "other" /\ line' = line
<1>1. PICK word, end : word = SkipNext(Space, off) /\ end = NextBreakWord(word)
  OBVIOUS
<1>2. /\ Pressed("CASE_WORD") /\ InMode
      /\ Draws(IF word < End THEN <<Put(Slice(line, off, end))>> ELSE <<Bell>>)
  BY <1>1 DEF CaseWord
<1>3. /\ Paired(line) /\ Edge(line, off) /\ off \in Nat /\ Over(d, off, d.pad)
      /\ Len(line) \in Nat
  BY <1>2, KeyIs, Ends
<1>4. Edge(line, word) /\ off <= word
  BY <1>1, <1>3, SkipNextEdge DEF Skips
<1>5. Edge(line, end) /\ word <= end
  BY <1>1, <1>3, <1>4, WordsEdge
<1>6. off <= end /\ end \in Nat
  BY <1>3, <1>4, <1>5 DEF Edge
<1>7. PICK s : s = Slice(line, off, end) /\ Len(s) = end - off
  BY <1>3, <1>5, <1>6, SlicePaired
<1>8. Len(s) \in Nat /\ off + Len(s) = end
  BY <1>3, <1>6, <1>7
<1>9. Over(Draw(d, <<Put(s)>>), end, d.pad)
  <2>1. Over(Draw(d, <<Put(s)>>), off + Len(s), d.pad)
    BY <1>3, <1>8, OverFew
  <2> QED BY <1>8, <2>1
<1>10. CASE word < End
  <2>1. Draws(<<Put(s)>>)
    BY <1>2, <1>7, <1>10
  <2> QED BY <1>2, <1>5, <1>9, <2>1, OnlyDraws
<1>11. CASE ~(word < End)
  BY <1>2, <1>11, GoesTo, OnlyDraws
<1> QED BY <1>10, <1>11

LEMMA FlipCaseTyped ==
  ASSUME IInv, FlipCase, d' = Draw(d, drawn')
  PROVE  Typed /\ last' = "other" /\ line' = line
<1>1. /\ Pressed("FLIP_CASE") /\ InMode
      /\ Draws(IF off >= End THEN <<>>
               ELSE IF WidthNext(off) = 1 THEN <<Put(<<Here(off)>>)>> ELSE <<Fwd(2)>>)
  BY DEF FlipCase
<1>2. /\ Paired(line) /\ Edge(line, off) /\ off \in 0 .. End /\ Over(d, off, d.pad)
      /\ Len(line) \in Nat /\ End \in Nat
  BY <1>1, KeyIs, Ends
<1>3. CASE off >= End
  BY <1>1, <1>3, GoesTo, OnlyDraws
<1>4. CASE off < End
  <2>1. WidthNext(off) \in {1, 2} /\ Edge(line, off + WidthNext(off))
    BY <1>2, <1>4, NextEdge
  <2>2. CASE WidthNext(off) = 1
    <3>0. PICK s : s = <<Here(off)>>
      OBVIOUS
    <3>1. s = <<Here(off)>> /\ Len(s) = 1
      BY <3>0
    <3>2. Draws(<<Put(s)>>)
      BY <1>1, <1>2, <1>4, <2>2, <3>1
    <3>3. Over(Draw(d, <<Put(s)>>), off + Len(s), d.pad)
      BY <1>2, <3>1, OverFew
    <3>4. Edge(line, off + Len(s))
      BY <2>1, <2>2, <3>1
    <3> QED BY <1>1, <3>2, <3>3, <3>4, OnlyDraws
  <2>3. CASE WidthNext(off) = 2
    <3>1. PICK n \in Nat : n = 2
      OBVIOUS
    <3>2. Draws(<<Fwd(n)>>)
      BY <1>1, <1>2, <1>4, <2>3, <3>1
    <3>3. Over(Draw(d, <<Fwd(n)>>), off + n, d.pad)
      BY <1>2, OverFew
    <3>4. Edge(line, off + n)
      BY <2>1, <2>3, <3>1
    <3> QED BY <1>1, <3>2, <3>3, <3>4, OnlyDraws
  <2> QED BY <2>1, <2>2, <2>3
<1> QED BY <1>2, <1>3, <1>4

-----------------------------------------------------------------------------
(* The keys that change the mode.                                          *)

LEMMA InsertModeTyped ==
  ASSUME IInv, Careful, InsertMode, d' = Draw(d, drawn')
  PROVE  Typed /\ last' = "other" /\ line' = line
<1>0. SetMode("insert") /\ "insert" \in Editing
  BY DEF InsertMode, Editing
<1>1. mode' \in Editing /\ (visual' => Edge(line, voff'))
  BY <1>0, SetModeIs
<1>2. CASE Pressed("VI_INSERT") /\ Draws(<<Ask>>)
  BY <1>1, <1>2, GoesTo, DrawsIs
<1>3. CASE /\ Pressed("VI_APPEND") /\ AtColumn(off)
           /\ Draws(<<Ask>> \o IF off < End THEN <<Fwd(1)>> ELSE <<>>)
  <2>1. /\ Paired(line) /\ Edge(line, off) /\ off \in 0 .. End /\ Over(d, off, d.pad)
        /\ Len(line) \in Nat
    BY <1>3, KeyIs, Ends
  <2>2. PICK a, n : a = Ask /\ n = 1
    OBVIOUS
  <2>3. PICK e : e = Draw(d, <<a>>) /\ Over(e, off, d.pad)
    BY <2>1, <2>2, OverFew
  <2>4. CASE off < End
    <3>1. Edge(line, off + n)
      BY <1>3, <2>1, <2>2, <2>4, NextEdge DEF AtColumn, Careful
    <3>2. Over(Draw(e, <<Fwd(n)>>), off + n, d.pad)
      BY <2>1, <2>2, <2>3, OverFew
    <3>3. PICK b : b = Fwd(n)
      OBVIOUS
    <3>4. Draw(d, <<a>> \o <<b>>) = Draw(e, <<b>>)
      BY <2>3, DrawThen
    <3>5. Draws(<<a>> \o <<b>>)
      BY <1>3, <2>2, <2>4, <3>3
    <3>6. Over(Draw(d, <<a>> \o <<b>>), off + n, d.pad)
      BY <3>2, <3>3, <3>4
    <3> QED BY <1>1, <3>1, <3>5, <3>6, DrawsIs
  <2>5. CASE ~(off < End)
    <3>1. Draws(<<a>> \o <<>>)
      BY <1>3, <2>2, <2>5
    <3>2. Draw(d, <<a>> \o <<>>) = e
      BY <2>3, DrawNoMore
    <3>3. Over(Draw(d, <<a>> \o <<>>), off, d.pad)
      BY <2>3, <3>2
    <3> QED BY <1>1, <2>1, <3>1, <3>3, DrawsIs
  <2> QED BY <2>4, <2>5
<1>4. CASE Pressed("VI_APPEND_EOL") /\ Draws(<<Ask, Fwd(End - off)>>)
  <2>1. off <= End
    BY <1>4, KeyIs
  <2> QED BY <1>1, <1>4, <2>1, GoesTo, DrawsIs
<1>5. CASE Pressed("VI_INSERT_BOL") /\ Draws(<<Ask, Back(off)>>)
  BY <1>1, <1>5, GoesTo, DrawsIs
<1> QED BY <1>2, <1>3, <1>4, <1>5 DEF InsertMode

LEMMA ReplaceModeTyped ==
  ASSUME IInv, ReplaceMode, d' = Draw(d, drawn')
  PROVE  Typed /\ last' = "other" /\ line' = line
<1>1. Draws(<<Ask>>) /\ (Pressed("VI_REPLACE") \/ Pressed("REPLACE_MODE"))
  BY DEF ReplaceMode
<1>2. mode \in Editing /\ (visual => Edge(line, voff))
  BY DEF IInv, Marked
<1>3. mode' \in Editing /\ (visual' => Edge(line, voff'))
  BY <1>2 DEF ReplaceMode, Editing
<1> QED BY <1>1, <1>3, GoesTo, DrawsIs

LEMMA ViModeTyped ==
  ASSUME IInv, ViMode, d' = Draw(d, drawn')
  PROVE  Typed /\ last' = "other" /\ line' = line
<1>1. Draws(<<Ask>>) /\ Pressed("VI_MODE")
  BY DEF ViMode
<1>2. PICK m \in Editing : SetMode(m)
  BY DEF ViMode, Editing
<1>3. mode' \in Editing /\ (visual' => Edge(line, voff'))
  BY <1>2, SetModeIs
<1> QED BY <1>1, <1>3, GoesTo, DrawsIs

LEMMA ViEscTyped ==
  ASSUME IInv, ViEsc, d' = Draw(d, drawn')
  PROVE  Typed /\ last' = "other" /\ line' = line
<1>1. Pressed("VI_ESC")
  BY DEF ViEsc
<1>2. Over(d, off, d.pad) /\ Len(line) \in Nat /\ Edge(line, off)
  BY <1>1, KeyIs, Ends
<1>3. CASE SetMode("emacs") /\ Draws(<<Ask>>)
  <2>1. mode' \in Editing /\ (visual' => Edge(line, voff'))
    BY <1>3, SetModeIs DEF Editing
  <2> QED BY <1>1, <1>3, <2>1, GoesTo, DrawsIs
<1>4. CASE /\ SetMode("command")
           /\ Draws((IF mode = "insert" THEN LeftOne ELSE <<>>) \o <<Ask>>)
  <2>1. mode' \in Editing /\ (visual' => Edge(line, voff'))
    BY <1>4, SetModeIs DEF Editing
  <2>2. PICK k, a : k = (IF mode = "insert" THEN LeftOne ELSE <<>>) /\ a = Ask
    OBVIOUS
  <2>3. k = <<>> \/ (k = LeftOne /\ \E b : k = <<b>>)
    BY <2>2 DEF LeftOne
  <2>4. PICK o : Over(Draw(d, k), o, d.pad) /\ Edge(line, o)
    BY <1>1, <1>2, <2>3, OneAside, GoesTo
  <2>5. PICK e : e = Draw(d, k)
    OBVIOUS
  <2>6. Draw(d, k \o <<a>>) = Draw(e, <<a>>)
    <3>1. CASE k = <<>>
      BY <2>5, <3>1, DrawOnly, DrawNone
    <3>2. CASE \E b : k = <<b>>
      <4>1. PICK b : k = <<b>>
        BY <3>2
      <4>2. Draw(d, <<b>> \o <<a>>) = Draw(Draw(d, <<b>>), <<a>>)
        BY DrawThen
      <4> QED BY <2>5, <4>1, <4>2
    <3> QED BY <2>3, <3>1, <3>2
  <2>7. Over(Draw(e, <<a>>), o, d.pad)
    BY <1>2, <2>2, <2>4, <2>5, OverFew
  <2>8. Over(Draw(d, k \o <<a>>), o, d.pad)
    BY <2>6, <2>7
  <2>9. Draws(k \o <<a>>)
    BY <1>4, <2>2
  <2> QED BY <2>1, <2>4, <2>8, <2>9, DrawsIs
<1> QED BY <1>3, <1>4 DEF ViEsc

LEMMA VisualTyped ==
  ASSUME IInv, Visual, d' = Draw(d, drawn')
  PROVE  Typed /\ last' = "other" /\ line' = line
<1>1. PICK a : Pressed(a)
  BY DEF Visual
<1>2. mode \in Editing /\ mode' = mode /\ Edge(line, off)
  BY <1>1, KeyIs DEF Visual
<1>3. visual' => Edge(line, voff')
  BY <1>2 DEF Visual
<1>4. Draws(<<Ask, All>>) \/ Draws(<<Ask>>)
  BY DEF Visual
<1> QED BY <1>1, <1>2, <1>3, <1>4, GoesTo, DrawsIs

LEMMA BoundsEdge ==
  ASSUME IInv, NEW a, Pressed(a), visual
  PROVE  /\ Edge(line, VisualBounds.from) /\ Edge(line, VisualBounds.to)
         /\ VisualBounds.from <= VisualBounds.to
<1>1. Paired(line) /\ Edge(line, off) /\ End \in Nat
  BY KeyIs
<1>2. Edge(line, voff)
  BY DEF IInv, Marked
<1>3. PICK from, end : from = Least(off, voff) /\ end = Most(off, voff)
  OBVIOUS
<1>4. Edge(line, from) /\ Edge(line, end) /\ from <= end
  BY <1>1, <1>2, <1>3 DEF Least, Most, Edge
<1>5. PICK to : to = (IF end < End THEN end + WidthNext(end) ELSE end)
  OBVIOUS
<1>6. Edge(line, to) /\ end <= to
  <2>1. CASE end < End
    <3>1. WidthNext(end) \in {1, 2} /\ Edge(line, end + WidthNext(end))
      BY <1>1, <1>4, <2>1, NextEdge
    <3>2. end \in Int
      BY <1>4 DEF Edge
    <3> QED BY <1>5, <2>1, <3>1, <3>2
  <2>2. CASE ~(end < End)
    <3>1. to = end
      BY <1>5, <2>2
    <3> QED BY <1>4, <3>1 DEF Edge
  <2> QED BY <2>1, <2>2
<1>7. VisualBounds.from = from /\ VisualBounds.to = to
  BY <1>3, <1>5 DEF VisualBounds
<1>8. from <= to
  BY <1>4, <1>6 DEF Edge
<1> QED BY <1>4, <1>6, <1>7, <1>8

-----------------------------------------------------------------------------
(* The keys that change the line, which are not bound in the visual mode.  *)

EditKeys ==
  {"INSERT_CHAR", "VI_REPLACE_CHAR", "DELETE_CHAR", "VI_CHANGE_CHAR", "BACKSPACE",
   "TRANSPOSE", "TRANSPOSE_WORDS", "INCR_NUMBER", "UNDO", "ERASE_BOL", "ERASE_EOL",
   "ERASE_LINE", "ERASE_PREV_WORD", "ERASE_NEXT_WORD", "VI_ERASE_NEXT_WORD",
   "PASTE_INSERT", "PASTE_APPEND", "YANK_POP", "YANK_ARG"}

LEMMA NotVisual ==
  ASSUME IInv, NEW a \in EditKeys, Pressed(a)
  PROVE  ~visual
<1>1. "visual" \notin Bound(a)
  BY DEF Bound, Moving, ViMoving, Editing, EditKeys
<1> QED BY <1>1, KeyIs

LEMMA ChangesIs ==
  ASSUME IInv, NEW a \in EditKeys, Pressed(a), InMode,
         NEW new, NEW cmds, Becomes(new, cmds), d' = Draw(d, drawn'),
         Paired(new), NEW o, Over(Draw(d, cmds), o, d.pad), Edge(new, o)
  PROVE  Typed /\ last' = "other"
<1>1. ~visual
  BY NotVisual
<1>2. mode' \in Editing /\ (visual' => Edge(new, voff'))
  BY <1>1, InModeIs
<1> QED BY <1>2, TypedBy

LEMMA InsertTyped ==
  ASSUME IInv, NEW c \in Chars, Insert(c), d' = Draw(d, drawn')
  PROVE  Typed /\ last' = "other"
<1>1. PICK s, new : s = Cells(c) /\ new = Slice(line, 0, off) \o s \o Slice(line, off, End)
  OBVIOUS
<1>2. /\ Pressed("INSERT_CHAR") /\ InMode
      /\ Becomes(new, IF off >= End THEN <<Grow(off + Len(s)), Put(s)>>
                      ELSE <<Grow(Len(new)), Put(Slice(new, off, Len(new))), Back(End - off)>>)
  BY <1>1 DEF Insert
<1>3. /\ Paired(line) /\ Edge(line, off) /\ off \in 0 .. End /\ Over(d, off, d.pad)
      /\ Len(line) \in Nat /\ End \in Nat /\ End = Len(line)
  BY <1>2, KeyIs, Ends DEF End
<1>4. Paired(s) /\ Len(s) \in {1, 2}
  BY <1>1, CellsPaired
<1>5. new = Inserted(line, off, s)
  BY <1>1 DEF Inserted, End
<1>6. Paired(new) /\ Len(new) = End + Len(s) /\ Edge(new, off + Len(s)) /\ Edge(new, off)
  BY <1>3, <1>4, <1>5, InsertedPaired
<1>7. PICK o, w : o = off + Len(s) /\ w = Len(s)
  OBVIOUS
<1>8. "INSERT_CHAR" \in EditKeys
  BY DEF EditKeys
<1>9. CASE off >= End
  <2>1. PICK m, n : m = off + Len(s) /\ n = 0
    OBVIOUS
  <2>2. Becomes(new, <<Grow(m), Put(s)>>)
    BY <1>2, <1>9, <2>1
  <2>3. Over(Draw(d, <<Grow(m), Put(s)>>), o, d.pad)
    <3>1. n \in 0 .. o
      BY <1>3, <1>4, <1>7, <2>1
    <3>2. PICK x : x = o - n
      OBVIOUS
    <3>3. Len(s) \in Nat
      BY <1>4
    <3> QED BY <1>3, <1>7, <3>1, <3>2, <3>3, OverPut
  <2> QED BY <1>2, <1>6, <1>7, <1>8, <2>2, <2>3, ChangesIs
<1>10. CASE ~(off >= End)
  <2>1. PICK m, n, u, y : m = Len(new) /\ n = End - off /\ u = Slice(new, off, m) /\ y = off + Len(u)
    OBVIOUS
  <2>2. Becomes(new, <<Grow(m), Put(u), Back(n)>>)
    BY <1>2, <1>10, <2>1
  <2>3. Len(u) = m - off /\ Len(u) \in Nat
    <3>1. new \in Lines /\ off \in Nat /\ m \in Nat /\ off <= m /\ m <= Len(new)
      BY <1>3, <1>4, <1>6, <2>1, Ends
    <3>2. Len(u) = m - off
      BY <2>1, <3>1, SliceIs
    <3> QED BY <3>1, <3>2
  <2>4. n \in 0 .. y /\ o = y - n
    BY <1>3, <1>4, <1>6, <1>7, <1>10, <2>1, <2>3, SMTT(30)
  <2>5. Over(Draw(d, <<Grow(m), Put(u), Back(n)>>), o, d.pad)
    BY <1>3, <2>1, <2>3, <2>4, OverPut
  <2> QED BY <1>2, <1>6, <1>7, <1>8, <2>2, <2>5, ChangesIs
<1> QED BY <1>9, <1>10

(* A character in the place of another.                                    *)
LEMMA OverwriteIs ==
  ASSUME IInv, Careful, NEW a, Pressed(a), NEW c \in Chars, MayOverwrite(c),
         NEW back \in BOOLEAN, Overwrite(c, back)
  PROVE  \E new, cmds, o : /\ Becomes(new, cmds) /\ Paired(new)
                           /\ Over(Draw(d, cmds), o, d.pad) /\ Edge(new, o)
<1>1. PICK s, w, x : s = Cells(c) /\ w = Len(s) /\ x = WidthNext(off)
  OBVIOUS
<1>2. PICK new : new = Slice(line, 0, off) \o s \o Slice(line, off + x, End)
  OBVIOUS
<1>3. /\ Paired(line) /\ Edge(line, off) /\ off \in 0 .. End /\ Over(d, off, d.pad)
      /\ Len(line) \in Nat /\ End \in Nat /\ End = Len(line)
  BY KeyIs, Ends DEF End
<1>4. off < End
  BY <1>3 DEF MayOverwrite, Careful
<1>5. x \in {1, 2} /\ Edge(line, off + x) /\ off + x <= End
  <2>1. x \in {1, 2} /\ Edge(line, off + x)
    BY <1>1, <1>3, <1>4, NextEdge
  <2> QED BY <1>3, <2>1 DEF Edge
<1>6. Paired(s) /\ w \in {1, 2}
  BY <1>1, CellsPaired
<1>7. PICK rest, to, n : to = off + x /\ rest = Without(line, off, to) /\ n = End
  OBVIOUS
<1>8. /\ Paired(rest) /\ Len(rest) = off + n - to /\ Edge(rest, off)
      /\ Slice(rest, 0, off) = Slice(line, 0, off)
      /\ Slice(rest, off, Len(rest)) = Slice(line, to, n)
  <2>1. off <= to /\ Edge(line, to)
    BY <1>3, <1>5, <1>7
  <2>2. n = Len(line)
    BY <1>3, <1>7
  <2>3. rest = Without(line, off, to)
    BY <1>7
  <2> QED BY <1>3, <2>1, <2>2, <2>3, CutPaired
<1>9. new = Inserted(rest, off, s)
  BY <1>2, <1>7, <1>8 DEF Inserted
<1>10. Paired(new) /\ Len(new) = Len(rest) + w /\ Edge(new, off) /\ Edge(new, off + w)
  BY <1>1, <1>6, <1>8, <1>9, InsertedPaired
<1>11. Len(new) = off + (End - (off + x) + w)
  BY <1>3, <1>5, <1>6, <1>7, <1>8, <1>10
<1>12. PICK k, o : k = (IF back THEN w ELSE 0) /\ o = off + w - k
  OBVIOUS
<1>13. Edge(new, o) /\ k \in 0 .. off + w
  <2>1. o = off \/ o = off + w
    BY <1>3, <1>6, <1>12
  <2> QED BY <1>3, <1>6, <1>10, <1>12, <2>1
<1>14. CASE w = x
  <2>1. Becomes(new, <<Put(s), Back(k)>>)
    BY <1>1, <1>2, <1>4, <1>12, <1>14 DEF Overwrite
  <2>2. PICK y : y = off + Len(s) /\ y = off + w
    BY <1>1
  <2>3. o = y - k /\ k \in 0 .. y /\ Len(s) \in Nat
    <3>1. o = off + w - k /\ k \in 0 .. off + w /\ w \in {1, 2} /\ w = Len(s)
      BY <1>1, <1>6, <1>12, <1>13
    <3> QED BY <1>3, <2>2, <3>1
  <2>4. Over(Draw(d, <<Put(s), Back(k)>>), o, d.pad)
    BY <1>3, <2>2, <2>3, OverPut
  <2> QED BY <1>10, <1>13, <2>1, <2>4
<1>15. CASE w # x
  <2>1. PICK m, size, h, u : /\ m = Len(new) /\ size = End - (off + x) + w
                             /\ h = size - (IF back THEN 0 ELSE w)
                             /\ u = Slice(new, off, m)
    OBVIOUS
  <2>2. Len(u) = size /\ Len(u) \in Nat
    <3>1. new \in Lines /\ off \in Nat /\ m \in Nat /\ off <= m /\ m <= Len(new)
      BY <1>3, <1>5, <1>6, <1>10, <1>11, <2>1, Ends
    <3>2. Len(u) = m - off
      BY <2>1, <3>1, SliceIs
    <3> QED BY <1>3, <1>5, <1>6, <1>11, <2>1, <3>2
  <2>3. PICK a1, a2, a3, a4 : /\ a1 = Grow(m) /\ a2 = Put(u) /\ a3 = ClearAll(m)
                              /\ a4 = Back(h)
    OBVIOUS
  <2>4. Becomes(new, <<a1, a2>> \o (IF w < x THEN <<a3>> ELSE <<>>) \o <<a4>>)
    <3>1. ~(off >= End) /\ off < End
      BY <1>3, <1>4
    <3> QED BY <1>1, <1>2, <1>15, <2>1, <2>3, <3>1, Zenon DEF Overwrite
  <2>5. PICK y : y = off + Len(u)
    OBVIOUS
  <2>6. PICK e : e = Draw(d, <<a1, a2>>) /\ Over(e, y, d.pad)
    <3>1. y \in Nat
      BY <1>3, <2>2, <2>5
    <3>2. PICK q, r : q = 0 /\ r = y - q
      OBVIOUS
    <3>3. q \in 0 .. y
      BY <3>1, <3>2
    <3> QED BY <1>3, <2>2, <2>3, <2>5, <3>2, <3>3, OverPut
  <2>7. h \in 0 .. y /\ y - h = o
    BY <1>3, <1>5, <1>6, <1>12, <2>1, <2>2, <2>5
  <2>8. Over(Draw(e, <<a4>>), o, d.pad)
    <3>1. Over(Draw(e, <<Back(h)>>), y - h, d.pad)
      BY <1>3, <2>6, <2>7, OverFew
    <3> QED BY <2>3, <2>7, <3>1
  <2>9. CASE w < x
    <3>1. PICK f : f = Draw(e, <<a3>>) /\ Over(f, y, d.pad)
      <4>1. Over(Draw(e, <<ClearAll(m)>>), y, d.pad)
        BY <1>3, <2>6, OverFew
      <4> QED BY <2>3, <4>1
    <3>2. Over(Draw(f, <<a4>>), o, d.pad)
      <4>1. Over(Draw(f, <<Back(h)>>), y - h, d.pad)
        BY <1>3, <2>7, <3>1, OverFew
      <4> QED BY <2>3, <2>7, <4>1
    <3>3. Draw(d, (<<a1, a2>> \o <<a3>>) \o <<a4>>) = Draw(f, <<a4>>)
      BY <2>6, <3>1, DrawTwoThenTwo
    <3>4. Becomes(new, (<<a1, a2>> \o <<a3>>) \o <<a4>>)
      BY <2>4, <2>9
    <3>5. Over(Draw(d, (<<a1, a2>> \o <<a3>>) \o <<a4>>), o, d.pad)
      BY <3>2, <3>3
    <3> QED BY <1>10, <1>13, <3>4, <3>5
  <2>10. CASE ~(w < x)
    <3>1. Draw(d, (<<a1, a2>> \o <<>>) \o <<a4>>) = Draw(e, <<a4>>)
      BY <2>6, DrawTwoThen
    <3>2. Becomes(new, (<<a1, a2>> \o <<>>) \o <<a4>>)
      BY <2>4, <2>10
    <3>3. Over(Draw(d, (<<a1, a2>> \o <<>>) \o <<a4>>), o, d.pad)
      BY <2>8, <3>1
    <3> QED BY <1>10, <1>13, <3>2, <3>3
  <2> QED BY <2>9, <2>10
<1> QED BY <1>14, <1>15

LEMMA ReplaceTyped ==
  ASSUME IInv, Careful, NEW c \in Chars, Replace(c), d' = Draw(d, drawn')
  PROVE  Typed /\ last' = "other"
<1>1. PICK a \in EditKeys, back \in BOOLEAN : Pressed(a) /\ MayOverwrite(c) /\ Overwrite(c, back)
  BY DEF Replace, EditKeys
<1>2. InMode
  BY DEF Replace
<1>3. PICK new, cmds, o : /\ Becomes(new, cmds) /\ Paired(new)
                          /\ Over(Draw(d, cmds), o, d.pad) /\ Edge(new, o)
  BY <1>1, OverwriteIs
<1> QED BY <1>1, <1>2, <1>3, ChangesIs

(* The end of a key that deletes the character at i.                       *)
LEMMA DeleteAtIs ==
  ASSUME IInv, NEW a, Pressed(a), NEW i, NEW w, NEW back, Edge(line, i), w \in Nat,
         Edge(line, i + w), back \in 0 .. off, i = off - back, DeleteAt(i, w, back)
  PROVE  \E new, cmds : /\ Becomes(new, cmds) /\ Paired(new)
                        /\ Over(Draw(d, cmds), i, d.pad) /\ Edge(new, i)
<1>1. /\ Paired(line) /\ Edge(line, off) /\ off \in 0 .. End /\ Over(d, off, d.pad)
      /\ Len(line) \in Nat /\ End \in Nat /\ End = Len(line)
  BY KeyIs, Ends DEF End
<1>2. PICK to, new : to = i + w /\ new = Without(line, i, to)
  OBVIOUS
<1>3. i \in Nat /\ i <= to /\ to <= End /\ to \in Nat
  BY <1>1, <1>2 DEF Edge
<1>4. /\ Paired(new) /\ Len(new) = i + End - to /\ Edge(new, i)
  <2>1. Edge(line, to) /\ i <= to
    BY <1>2, <1>3
  <2>2. PICK n : n = End /\ n = Len(line)
    BY <1>1
  <2>3. new = Without(line, i, to)
    BY <1>2
  <2>4. Paired(new) /\ Len(new) = i + n - to /\ Edge(new, i)
    BY <1>1, <2>1, <2>2, <2>3, CutPaired
  <2> QED BY <2>2, <2>4
<1>5. PICK m, u, n, y : m = Len(new) /\ u = Slice(new, i, m) /\ n = m - i /\ y = i + Len(u)
  OBVIOUS
<1>6. Becomes(new, <<Back(back), Put(u), Clear, Back(n)>>)
  BY <1>1, <1>2, <1>5 DEF DeleteAt, Without
<1>7. Len(u) = n /\ n \in Nat
  <2>1. new \in Lines /\ m \in Nat /\ i <= m /\ m <= Len(new)
    BY <1>1, <1>3, <1>4, <1>5, Ends
  <2>2. Len(u) = m - i
    BY <1>3, <1>5, <2>1, SliceIs
  <2> QED BY <1>3, <1>5, <2>1, <2>2
<1>8. n \in 0 .. y /\ i = y - n
  <2>1. y = i + n
    BY <1>5, <1>7
  <2> QED BY <1>3, <1>7, <2>1
<1>9. Over(Draw(d, <<Back(back), Put(u), Clear, Back(n)>>), i, d.pad)
  BY <1>1, <1>5, <1>7, <1>8, OverBackPut, ZenonT(40)
<1> QED BY <1>4, <1>6, <1>9

LEMMA BackspaceTyped ==
  ASSUME IInv, Backspace, d' = Draw(d, drawn')
  PROVE  Typed /\ last' = "other"
<1>1. Pressed("BACKSPACE") /\ InMode /\ "BACKSPACE" \in EditKeys
  BY DEF Backspace, EditKeys
<1>2. Paired(line) /\ Edge(line, off) /\ off \in 0 .. End /\ End \in Nat
  BY <1>1, KeyIs
<1>3. CASE off > 0
  <2>1. PICK i, w : w = WidthBack(off) /\ i = off - w
    OBVIOUS
  <2>2. w \in {1, 2} /\ w <= off /\ Edge(line, i)
    BY <1>2, <1>3, <2>1, BackEdge
  <2>3. i + w = off /\ w \in 0 .. off
    BY <1>2, <2>1, <2>2
  <2>4. DeleteAt(i, w, w)
    BY <1>3, <2>1 DEF Backspace
  <2>5. PICK new, cmds : /\ Becomes(new, cmds) /\ Paired(new)
                         /\ Over(Draw(d, cmds), i, d.pad) /\ Edge(new, i)
    BY <1>1, <1>2, <2>1, <2>2, <2>3, <2>4, DeleteAtIs
  <2> QED BY <1>1, <2>5, ChangesIs
<1>4. CASE ~(off > 0)
  <2>1. Draws(<<>>)
    BY <1>4 DEF Backspace
  <2> QED BY <1>1, <2>1, GoesTo, OnlyDraws
<1> QED BY <1>3, <1>4

LEMMA DeleteTyped ==
  ASSUME IInv, Delete, d' = Draw(d, drawn')
  PROVE  Typed /\ last' = "other"
<1>1. PICK a \in EditKeys : Pressed(a)
  BY DEF Delete, EditKeys
<1>2. Paired(line) /\ Edge(line, off) /\ off \in 0 .. End /\ End \in Nat
  BY <1>1, KeyIs
<1>3. \A new : InMode \/ SetMode("insert") => mode' \in Editing /\ (visual' => Edge(new, voff'))
  <2>1. ~visual
    BY <1>1, NotVisual
  <2>2. "insert" \in Editing
    BY DEF Editing
  <2> QED BY <2>1, <2>2, InModeIs, SetModeIs
<1>4. InMode \/ SetMode("insert")
  BY DEF Delete
<1>5. CASE off < End
  <2>1. PICK w, back : w = WidthNext(off) /\ back = 0 /\ off = off - back
    BY <1>2
  <2>2. w \in {1, 2} /\ Edge(line, off + w)
    BY <1>2, <1>5, <2>1, NextEdge
  <2>3. DeleteAt(off, w, back)
    BY <1>5, <2>1 DEF Delete
  <2>4. w \in Nat /\ back \in 0 .. off
    BY <1>2, <2>1, <2>2
  <2>5. PICK new, cmds : /\ Becomes(new, cmds) /\ Paired(new)
                         /\ Over(Draw(d, cmds), off, d.pad) /\ Edge(new, off)
    BY <1>1, <1>2, <2>1, <2>2, <2>3, <2>4, DeleteAtIs
  <2>6. mode' \in Editing /\ (visual' => Edge(new, voff'))
    BY <1>3, <1>4
  <2> QED BY <2>5, <2>6, TypedBy
<1>6. CASE ~(off < End)
  <2>1. Draws(<<>>) \/ Draws(<<Ask>>)
    BY <1>6 DEF Delete
  <2>2. mode' \in Editing /\ (visual' => Edge(line, voff'))
    BY <1>3, <1>4
  <2> QED BY <1>1, <2>1, <2>2, GoesTo, DrawsIs
<1> QED BY <1>5, <1>6

LEMMA RestoreTyped ==
  ASSUME IInv, NEW r \in Restored, Restore(r), d' = Draw(d, drawn')
  PROVE  Typed /\ last' = "other"
<1>1. PICK s, o : s = r[1] /\ o = r[2]
  OBVIOUS
<1>2. Paired(s) /\ Edge(s, o)
  BY <1>1, EditAssumption
<1>3. PICK m, k : m = Len(s) /\ k = 0
  OBVIOUS
<1>4. /\ Pressed("UNDO") /\ InMode /\ "UNDO" \in EditKeys
      /\ Becomes(s, <<Grow(m), To(k), Put(s), ClearAll(m), To(o)>>)
  BY <1>1, <1>3 DEF Restore, EditKeys
<1>5. Over(d, off, d.pad) /\ o \in Nat /\ k \in Nat /\ Len(s) \in Nat
  BY <1>2, <1>3, <1>4, KeyIs, Ends DEF Edge
<1>6. Over(Draw(d, <<Grow(m), To(k), Put(s), ClearAll(m), To(o)>>), o, d.pad)
  BY <1>5, OverTo
<1> QED BY <1>2, <1>4, <1>6, ChangesIs

(* Five texts, one after the other.                                        *)
LEMMA FivePaired ==
  ASSUME NEW a, NEW b, NEW c, NEW k, NEW l,
         Paired(a) /\ Paired(b) /\ Paired(c) /\ Paired(k) /\ Paired(l)
  PROVE  \E n : /\ n = Len(a) + Len(b) + Len(c) + Len(k)
                /\ Paired(a \o b \o c \o k \o l) /\ a \o b \o c \o k \o l \in Lines
                /\ Edge(a \o b \o c \o k \o l, n) /\ n <= Len(a \o b \o c \o k \o l)
<1> DEFINE w == a \o b \o c \o k \o l
<1> DEFINE n == Len(a) + Len(b) + Len(c) + Len(k)
<1> HIDE DEF w, n
<1>1. Paired(a \o b) /\ Len(a \o b) = Len(a) + Len(b)
  BY JoinPaired
<1>2. PICK u : u = a \o b
  OBVIOUS
<1>3. Paired(u \o c) /\ Len(u \o c) = Len(u) + Len(c)
  BY <1>1, <1>2, JoinPaired
<1>4. PICK v : v = u \o c
  OBVIOUS
<1>5. Paired(v \o k) /\ Len(v \o k) = Len(v) + Len(k)
  BY <1>3, <1>4, JoinPaired
<1>6. PICK x : x = v \o k
  OBVIOUS
<1>7. /\ Paired(x) /\ Len(a) \in Nat /\ Len(b) \in Nat /\ Len(c) \in Nat /\ Len(k) \in Nat
      /\ Len(l) \in Nat
  BY <1>5, <1>6, Ends
<1>8. Len(x) = n /\ n \in Nat
  BY <1>1, <1>2, <1>3, <1>4, <1>5, <1>6, <1>7 DEF n
<1>9. Edge(x, Len(x))
  BY <1>7, Ends
<1>10. Paired(x \o l) /\ Len(x \o l) = Len(x) + Len(l) /\ Edge(x \o l, Len(x))
  BY <1>7, <1>9, JoinPaired
<1>11. w = x \o l
  BY <1>2, <1>4, <1>6 DEF w
<1>12. w \in Lines
  BY <1>10, <1>11, Ends
<1>13. Paired(w) /\ Edge(w, n) /\ n <= Len(w)
  BY <1>7, <1>8, <1>10, <1>11
<1> USE DEF w, n
<1> QED BY <1>12, <1>13, Zenon

(* Two parts of the line change places: the cursor goes after the second.  *)
LEMMA SwapIs ==
  ASSUME IInv, NEW a \in EditKeys, Pressed(a), InMode, d' = Draw(d, drawn'),
         NEW i, NEW iEnd, NEW j, NEW jEnd, Edge(line, i), Edge(line, iEnd),
         Edge(line, j), Edge(line, jEnd), Swap(i, iEnd, j, jEnd)
  PROVE  Typed /\ last' = "other"
<1>1. /\ Paired(line) /\ line \in Lines /\ End \in Nat /\ Over(d, off, d.pad) /\ Edge(line, off)
      /\ End = Len(line) /\ Edge(line, 0) /\ Edge(line, End)
  BY KeyIs, Ends DEF End
<1>2. CASE ~(i < iEnd /\ j < jEnd /\ iEnd <= j)
  <2>1. Draws(<<Bell>>)
    BY <1>2 DEF Swap
  <2>2. Over(Draw(d, <<Bell>>), off, d.pad)
    BY GoesTo
  <2> QED BY <2>1, <2>2, <1>1, OnlyDraws
<1>3. CASE i < iEnd /\ j < jEnd /\ iEnd <= j
  <2>1. PICK new : new = Slice(line, 0, i) \o Slice(line, j, jEnd) \o Slice(line, iEnd, j)
                           \o Slice(line, i, iEnd) \o Slice(line, jEnd, End)
    OBVIOUS
  <2>2. Becomes(new, <<To(i), Put(Slice(new, i, jEnd))>>)
    BY <1>3, <2>1 DEF Swap
  <2>3. /\ i \in 0 .. End /\ iEnd \in 0 .. End /\ j \in 0 .. End /\ jEnd \in 0 .. End
        /\ i <= iEnd /\ j <= jEnd /\ jEnd <= End
    <3>1. i \in 0 .. End /\ iEnd \in 0 .. End /\ j \in 0 .. End /\ jEnd \in 0 .. End
      BY <1>1 DEF Edge
    <3> QED BY <1>1, <1>3, <3>1
  <2>4. Paired(Slice(line, 0, i)) /\ Len(Slice(line, 0, i)) = i - 0
    BY <1>1, <2>3, SlicePaired
  <2>5. Paired(Slice(line, j, jEnd)) /\ Len(Slice(line, j, jEnd)) = jEnd - j
    BY <1>1, <1>3, <2>3, SlicePaired
  <2>6. Paired(Slice(line, iEnd, j)) /\ Len(Slice(line, iEnd, j)) = j - iEnd
    BY <1>1, <1>3, <2>3, SlicePaired
  <2>7. Paired(Slice(line, i, iEnd)) /\ Len(Slice(line, i, iEnd)) = iEnd - i
    BY <1>1, <1>3, <2>3, SlicePaired
  <2>8. Paired(Slice(line, jEnd, End)) /\ Len(Slice(line, jEnd, End)) = End - jEnd
    BY <1>1, <1>3, <2>3, SlicePaired
  <2>9. jEnd = Len(Slice(line, 0, i)) + Len(Slice(line, j, jEnd)) + Len(Slice(line, iEnd, j))
                 + Len(Slice(line, i, iEnd))
    BY <1>1, <2>3, <2>4, <2>5, <2>6, <2>7
  <2>10. Paired(new) /\ new \in Lines /\ Edge(new, jEnd) /\ jEnd <= Len(new)
    <3>1. PICK x : x = Slice(line, 0, i)
      OBVIOUS
    <3>2. PICK y : y = Slice(line, j, jEnd)
      OBVIOUS
    <3>3. PICK z : z = Slice(line, iEnd, j)
      OBVIOUS
    <3>4. PICK u : u = Slice(line, i, iEnd)
      OBVIOUS
    <3>5. PICK v : v = Slice(line, jEnd, End)
      OBVIOUS
    <3>6. new = x \o y \o z \o u \o v /\ jEnd = Len(x) + Len(y) + Len(z) + Len(u)
      BY <2>1, <2>9, <3>1, <3>2, <3>3, <3>4, <3>5
    <3>7. Paired(x) /\ Paired(y) /\ Paired(z) /\ Paired(u) /\ Paired(v)
      BY <2>4, <2>5, <2>6, <2>7, <2>8, <3>1, <3>2, <3>3, <3>4, <3>5
    <3>8. \E n : /\ n = Len(x) + Len(y) + Len(z) + Len(u)
                 /\ Paired(x \o y \o z \o u \o v) /\ x \o y \o z \o u \o v \in Lines
                 /\ Edge(x \o y \o z \o u \o v, n) /\ n <= Len(x \o y \o z \o u \o v)
      BY <3>7, FivePaired, Zenon
    <3> QED BY <3>6, <3>8, Zenon
  <2>11. Len(Slice(new, i, jEnd)) = jEnd - i
    BY <1>1, <1>3, <2>3, <2>10, SliceIs
  <2>12. Over(Draw(d, <<To(i), Put(Slice(new, i, jEnd))>>), jEnd, d.pad)
    <3>1. i \in Nat /\ Len(Slice(new, i, jEnd)) \in Nat /\ i + Len(Slice(new, i, jEnd)) = jEnd
      BY <1>1, <1>3, <2>3, <2>11
    <3>2. Over(Draw(d, <<To(i), Put(Slice(new, i, jEnd))>>), i + Len(Slice(new, i, jEnd)), d.pad)
      BY <1>1, <3>1, OverTo, 0 \in Nat
    <3> QED BY <3>1, <3>2
  <2> QED BY <2>2, <2>10, <2>12, ChangesIs
<1> QED BY <1>2, <1>3

LEMMA TransposeTyped ==
  ASSUME IInv, Transpose, d' = Draw(d, drawn')
  PROVE  Typed /\ last' = "other"
<1>1. InMode
  BY DEF Transpose
<1>2. ASSUME NEW k, Pressed(k)
      PROVE  Paired(line) /\ End \in Nat /\ Edge(line, off) /\ off \in Nat
  BY <1>2, KeyIs
<1>3. CASE \E b \in {IF off > 0 THEN off - WidthBack(off) ELSE off} :
             \E a \in {IF b > 0 THEN b - WidthBack(b) ELSE b} :
               Pressed("TRANSPOSE") /\ Swap(a, b, b, off)
  <2>1. PICK b \in {IF off > 0 THEN off - WidthBack(off) ELSE off} :
          \E a \in {IF b > 0 THEN b - WidthBack(b) ELSE b} :
            Pressed("TRANSPOSE") /\ Swap(a, b, b, off)
    BY <1>3
  <2>2. PICK a \in {IF b > 0 THEN b - WidthBack(b) ELSE b} :
          Pressed("TRANSPOSE") /\ Swap(a, b, b, off)
    BY <2>1
  <2>3. Edge(line, b)
    BY <2>1, <2>2, <1>2, BackEdge
  <2>4. Edge(line, a)
    BY <2>1, <2>2, <2>3, <1>2, BackEdge
  <2>5. "TRANSPOSE" \in EditKeys
    BY DEF EditKeys
  <2>6. Edge(line, off)
    BY <1>2, <2>2
  <2> QED BY <1>1, <2>2, <2>3, <2>4, <2>5, <2>6, SwapIs
<1>4. CASE \E b \in {IF off > 0 /\ Here(off - 1) \notin Space THEN PrevWord(off) ELSE off} :
             Pressed("TRANSPOSE_WORDS") /\ Swap(PrevWord(b), NextWord(PrevWord(b)), b, NextWord(b))
  <2>1. PICK b \in {IF off > 0 /\ Here(off - 1) \notin Space THEN PrevWord(off) ELSE off} :
          Pressed("TRANSPOSE_WORDS") /\ Swap(PrevWord(b), NextWord(PrevWord(b)), b, NextWord(b))
    BY <1>4
  <2>2. Edge(line, b)
    BY <2>1, <1>2, WordsEdge
  <2>3. Edge(line, PrevWord(b)) /\ Edge(line, NextWord(b))
    BY <2>1, <2>2, <1>2, WordsEdge
  <2>4. Edge(line, NextWord(PrevWord(b)))
    BY <2>1, <2>3, <1>2, WordsEdge
  <2>5. "TRANSPOSE_WORDS" \in EditKeys
    BY DEF EditKeys
  <2> QED BY <1>1, <2>1, <2>2, <2>3, <2>4, <2>5, SwapIs
<1> QED BY <1>3, <1>4 DEF Transpose

(* A number, written again, or with a digit more.                          *)
LEMMA IncrDecrTyped ==
  ASSUME IInv, IncrDecr, d' = Draw(d, drawn')
  PROVE  Typed /\ last' = "other"
<1>1. /\ Pressed("INCR_NUMBER") /\ InMode /\ "INCR_NUMBER" \in EditKeys
  BY DEF IncrDecr, EditKeys
<1>2. /\ Paired(line) /\ line \in Lines /\ End \in Nat /\ Over(d, off, d.pad) /\ Edge(line, off)
      /\ off \in 0 .. End /\ End = Len(line)
  BY <1>1, KeyIs DEF End
<1>3. CASE Draws(<<>>) \/ Draws(<<Bell>>)
  <2>1. Over(Draw(d, <<>>), off, d.pad) /\ Over(Draw(d, <<Bell>>), off, d.pad)
    BY <1>1, GoesTo
  <2> QED BY <1>1, <1>2, <1>3, <2>1, OnlyDraws
<1>4. ASSUME NEW i \in 0 .. off, NEW k \in off + 1 .. End,
             Draws(<<Back(off - i), Put(Slice(line, i, k)), Back(k - off)>>)
      PROVE  Typed /\ last' = "other"
  <2>1. Len(Slice(line, i, k)) = k - i
    BY <1>2, SliceIs
  <2>2. PICK s : s = Slice(line, i, k)
    OBVIOUS
  <2>3. /\ off - i \in 0 .. off /\ i = off - (off - i) /\ Len(s) \in Nat /\ k = i + Len(s)
        /\ k - off \in 0 .. k /\ off = k - (k - off)
    BY <1>2, <2>1, <2>2
  <2>4. Over(Draw(d, <<Back(off - i), Put(s), Back(k - off)>>), off, d.pad)
    BY <1>2, <2>3, OverBackPut
  <2> QED BY <1>1, <1>2, <1>4, <2>2, <2>4, OnlyDraws
<1>5. ASSUME NEW i \in 0 .. off, NEW k \in off + 1 .. End, NEW new,
             new = Slice(line, 0, i) \o <<"x">> \o Slice(line, i, End),
             \A j \in i .. k - 1 : Here(j) = "x",
             Becomes(new, <<Grow(End + 1), Back(off - i), Put(Slice(new, i, End + 1)),
                            Back(End - i - (off - i) + 1)>>)
      PROVE  Typed /\ last' = "other"
  <2>1. Here(i) = "x" /\ Here(off) = "x"
    BY <1>2, <1>5
  <2>2. Edge(line, i)
    BY <1>2, <2>1 DEF Edge, Here, Half
  <2>3. Paired(<<"x">>) /\ Len(<<"x">>) = 1
    BY DEF Paired, Lines, Glyphs, Half, Wide
  <2>4. new = Inserted(line, i, <<"x">>)
    BY <1>5, <1>2 DEF Inserted
  <2>5. Paired(new) /\ Len(new) = End + 1
    <3>1. PICK u : u = <<"x">>
      OBVIOUS
    <3>2. Paired(u) /\ new = Inserted(line, i, u)
      BY <2>3, <2>4, <3>1
    <3>3. Paired(line) /\ Edge(line, i)
      BY <1>2, <2>2
    <3>4. Paired(new) /\ Len(new) = Len(line) + Len(u)
      BY <3>2, <3>3, InsertedPaired
    <3> QED BY <1>2, <2>3, <3>1, <3>4
  <2>6. new \in Lines
    BY <2>5, Ends
  <2>7. Edge(new, off)
    <3>1. i \in Nat /\ i <= Len(line) /\ Slice(line, 0, i) \in Lines /\ Len(Slice(line, 0, i)) = i
      BY <1>2, BeginningIs
    <3>2. <<"x">> \in Lines
      BY DEF Lines, Glyphs
    <3>3. /\ Slice(line, 0, i) \o <<"x">> \in Lines /\ Len(Slice(line, 0, i) \o <<"x">>) = i + 1
          /\ (Slice(line, 0, i) \o <<"x">>)[i + 1] = "x"
      BY <3>1, <3>2, <2>3, ConcatIs
    <3>4. /\ Slice(line, i, End) \in Lines /\ Len(Slice(line, i, End)) = End - i
          /\ \A j \in 1 .. End - i : Slice(line, i, End)[j] = line[i + j]
      <4>1. i \in Nat /\ i <= End /\ End <= Len(line)
        BY <1>2
      <4> QED BY <4>1, <1>2, SliceIs
    <3>5. PICK u : u = Slice(line, 0, i) \o <<"x">>
      OBVIOUS
    <3>6. new = u \o Slice(line, i, End)
      BY <1>5, <3>5
    <3>7. \A j \in 1 .. i + 1 + (End - i) :
            new[j] = IF j <= i + 1 THEN u[j] ELSE Slice(line, i, End)[j - (i + 1)]
      BY <3>3, <3>4, <3>5, <3>6, ConcatIs
    <3>8. new[off + 1] = "x"
      <4>1. CASE off = i
        BY <4>1, <3>3, <3>5, <3>7, <1>2
      <4>2. CASE off > i
        <5>1. off - i \in 1 .. End - i /\ off + 1 \in 1 .. i + 1 + (End - i)
          BY <4>2, <1>2
        <5>2. new[off + 1] = Slice(line, i, End)[off + 1 - (i + 1)]
          BY <5>1, <3>7, <4>2, <1>2, SMTT(30)
        <5>3. off + 1 - (i + 1) = off - i /\ i + (off - i) = off
          BY <1>2
        <5>4. new[off + 1] = line[off]
          BY <5>1, <5>2, <5>3, <3>4
        <5>5. Here(off - 1) = "x" /\ Here(off - 1) = line[off]
          <6>1. off - 1 \in i .. k - 1 /\ off - 1 + 1 = off
            BY <1>2, <4>2
          <6> QED BY <6>1, <1>5 DEF Here
        <5> QED BY <5>4, <5>5
      <4> QED BY <4>1, <4>2, <1>2
    <3> QED BY <3>8, <1>2, <2>5 DEF Edge, Half
  <2>8. PICK y : y = End + 1
    OBVIOUS
  <2>9. Len(Slice(new, i, y)) = y - i
    <3>1. i \in Nat /\ y \in Nat /\ i <= y /\ y <= Len(new)
      BY <1>2, <2>5, <2>8
    <3> QED BY <3>1, <2>6, SliceIs
  <2>10. PICK s : s = Slice(new, i, y)
    OBVIOUS
  <2>11. PICK m : m = End - i - (off - i) + 1
    OBVIOUS
  <2>12. /\ off - i \in 0 .. off /\ i = off - (off - i) /\ Len(s) \in Nat /\ y = i + Len(s)
         /\ m \in 0 .. y /\ off = y - m
    BY <1>2, <2>8, <2>9, <2>10, <2>11
  <2>13. Over(Draw(d, <<Grow(y), Back(off - i), Put(s), Back(m)>>), off, d.pad)
    BY <1>2, <2>12, OverBackPut
  <2>14. Becomes(new, <<Grow(y), Back(off - i), Put(s), Back(m)>>)
    BY <1>5, <2>8, <2>10, <2>11
  <2> QED BY <1>1, <2>5, <2>7, <2>13, <2>14, ChangesIs
<1> QED BY <1>3, <1>4, <1>5 DEF IncrDecr

(***************************************************************************)
(* The yank buffer and the kills.                                          *)
(***************************************************************************)

(* What has no wide character is stored as it is.                          *)
LEMMA StoredIs ==
  ASSUME NEW s, Paired(s), Narrow(s)
  PROVE  Stored(s) = s
<1>1. s \in Seq(Glyphs) /\ DOMAIN s = 1 .. Len(s)
  BY DEF Paired, Lines
<1>2. \A i \in 1 .. Len(s) : s[i] # Half
  <2>1. SUFFICES ASSUME NEW i \in 1 .. Len(s), s[i] = Half PROVE FALSE
    OBVIOUS
  <2>2. i > 1 /\ s[i - 1] = Wide
    BY <2>1 DEF Paired
  <2>3. Len(s) \in Nat
    BY <1>1
  <2>4. i - 1 \in 1 .. Len(s)
    BY <2>1, <2>2, <2>3
  <2> QED BY <2>2, <2>4 DEF Narrow
<1>3. Stored(s) = [i \in 1 .. Len(s) |-> s[i]]
  BY <1>2 DEF Stored
<1> QED BY <1>1, <1>3

(* A kill leaves the ring as it should be, with what was killed at its end.*)
LEMMA YankedIs ==
  ASSUME IInv, Careful, NEW s, Paired(s), Yanked(s)
  PROVE  /\ Ringed'
         /\ s # <<>> /\ "killPopped" \notin Habits =>
              Len(yank'.ring) > 0 /\ yank'.ring[Len(yank'.ring)] = s
<1>1. Ringed
  BY DEF IInv
<1>2. Narrow(s)
  <2>1. ~\E i \in 1 .. Len(s) : s[i] = Wide
    BY DEF Yanked, Careful
  <2> QED BY <2>1 DEF Narrow
<1>3. s \in Lines
  BY Ends
<1>4. yank' = AddYank(s)
  BY DEF Yanked
<1>5. PICK ring, o, i : ring = yank.ring /\ o = yank.off /\ i = yank.idx
  OBVIOUS
<1>6. /\ ring \in Seq(Texts) /\ o \in Nat /\ i \in Nat /\ o <= Len(ring) /\ i <= Len(ring) + 1
      /\ Len(ring) \in Nat
  BY <1>1, <1>5 DEF Ringed
<1>7. CASE s = <<>> \/ (o # 0 /\ ring[o] = s)
  <2>1. yank' = yank
    BY <1>4, <1>5, <1>7 DEF AddYank
  <2>2. Ringed'
    BY <1>1, <2>1 DEF Ringed
  <2>3. ASSUME s # <<>>, "killPopped" \notin Habits
        PROVE  Len(yank'.ring) > 0 /\ yank'.ring[Len(yank'.ring)] = s
    <3>1. AddYank(s) = yank
      BY <1>4, <2>1
    <3>2. ~(AddYank(s) = yank /\ yank.off # Len(yank.ring))
      BY <2>3 DEF Yanked
    <3>3. o = Len(ring) /\ o # 0 /\ ring[o] = s
      BY <1>5, <1>7, <2>3, <3>1, <3>2
    <3>4. Len(ring) > 0 /\ ring[Len(ring)] = s
      BY <1>6, <3>3
    <3> QED BY <1>5, <2>1, <3>4
  <2> QED BY <2>2, <2>3
<1>8. CASE ~(s = <<>> \/ (o # 0 /\ ring[o] = s))
  <2>1. yank' = [ring |-> Append(ring, Stored(s)), off |-> Len(ring) + 1, idx |-> Len(ring) + 2]
    BY <1>4, <1>5, <1>8 DEF AddYank
  <2>2. s \in Texts
    BY <1>2, <1>3, <1>8 DEF Texts
  <2>3. PICK x : x = Append(ring, s)
    OBVIOUS
  <2>4. /\ x \in Seq(Texts) /\ Len(x) = Len(ring) + 1 /\ x[Len(ring) + 1] = s
    BY <1>6, <2>2, <2>3
  <2>5. yank' = [ring |-> x, off |-> Len(ring) + 1, idx |-> Len(ring) + 2]
    BY <1>2, <2>1, <2>3, StoredIs
  <2>6. Ringed'
    BY <1>6, <2>4, <2>5 DEF Ringed
  <2>7. Len(x) > 0 /\ x[Len(x)] = s
    BY <1>6, <2>4
  <2> QED BY <2>5, <2>6, <2>7
<1> QED BY <1>7, <1>8

(* What a step that takes a part of the line away at `from` says of it.    *)
Takes(from, s) ==
  /\ Off(d') = from /\ Inserted(line', from, s) = line

(* The part [from, to) of the line is killed.                              *)
LEMMA KillRangeIs ==
  ASSUME IInv, NEW a, Pressed(a), NEW from, NEW to, Edge(line, from), Edge(line, to),
         from <= to, NEW cmds \in {<<>>, <<Ask>>}, KillRange(from, to, cmds),
         d' = Draw(d, drawn')
  PROVE  /\ Paired(line') /\ last' = "other"
         /\ \E o : Over(d', o, d.pad) /\ Edge(line', o)
         /\ line' # line => from # to /\ Takes(from, Slice(line, from, to))
         /\ from = to => line' = line
<1>1. /\ Paired(line) /\ line \in Lines /\ End \in Nat /\ Over(d, off, d.pad) /\ Edge(line, off)
      /\ End = Len(line)
  BY KeyIs DEF End
<1>2. CASE from = to
  <2>1. Draws(cmds)
    BY <1>2 DEF KillRange
  <2>2. Over(Draw(d, <<>>), off, d.pad) /\ Over(Draw(d, <<Ask>>), off, d.pad)
    BY GoesTo
  <2>3. Over(Draw(d, cmds), off, d.pad)
    BY <2>2
  <2>4. line' = line /\ drawn' = cmds /\ last' = "other"
    BY <2>1 DEF Draws, Becomes
  <2>5. Over(d', off, d.pad)
    BY <2>3, <2>4
  <2> QED BY <1>1, <1>2, <2>4, <2>5
<1>3. CASE from # to
  <2>1. PICK new, n : new = Without(line, from, to) /\ n = Len(new)
    OBVIOUS
  <2>2. PICK s : s = Slice(new, from, n)
    OBVIOUS
  <2>3. Becomes(new, <<To(from), Put(s), ClearAll(n), To(from)>>)
    BY <1>3, <2>1, <2>2 DEF KillRange, Without, End
  <2>4. PICK l : l = Len(line)
    OBVIOUS
  <2>5. Paired(new) /\ Len(new) = from + l - to /\ Edge(new, from)
    BY <1>1, <2>1, <2>4, CutPaired
  <2>6. new \in Lines /\ n \in Nat /\ from \in Nat /\ from <= n
    BY <2>1, <2>5, Ends DEF Edge
  <2>7. Len(s) \in Nat
    BY <2>1, <2>2, <2>6, SliceIs
  <2>8. Over(Draw(d, <<To(from), Put(s), ClearAll(n), To(from)>>), from, d.pad)
    BY <1>1, <2>6, <2>7, OverTo
  <2>9. /\ line' = new /\ drawn' = <<To(from), Put(s), ClearAll(n), To(from)>>
        /\ last' = "other"
    BY <2>3 DEF Becomes
  <2>10. Over(d', from, d.pad)
    BY <2>8, <2>9
  <2>11. Off(d') = from
    BY <2>10, OverIs
  <2>12. Inserted(new, from, Slice(line, from, to)) = line
    BY <1>1, <2>1, CutBack
  <2>13. Takes(from, Slice(line, from, to))
    BY <2>9, <2>11, <2>12 DEF Takes
  <2> QED BY <1>3, <2>5, <2>9, <2>10, <2>13
<1> QED BY <1>2, <1>3

(* What a kill has taken away is at the end of the ring.                   *)
Lost ==
  line' # line /\ "killPopped" \notin Habits =>
    /\ Len(yank'.ring) > 0
    /\ Inserted(line', Off(d'), yank'.ring[Len(yank'.ring)]) = line

(* A kill, whatever the mode becomes.                                      *)
LEMMA KillIs ==
  ASSUME IInv, Careful, NEW a, Pressed(a), NEW from, NEW to, Edge(line, from), Edge(line, to),
         from <= to, NEW cmds \in {<<>>, <<Ask>>},
         Yanked(Slice(line, from, to)), KillRange(from, to, cmds), d' = Draw(d, drawn'),
         mode' \in Editing, ~visual'
  PROVE  Typed /\ last' = "other" /\ Ringed' /\ Lost
<1>1. Paired(line)
  BY DEF IInv
<1>2. PICK s : s = Slice(line, from, to)
  OBVIOUS
<1>3. Paired(s) /\ Len(s) = to - from
  BY <1>1, <1>2, SlicePaired
<1>4. /\ Paired(line') /\ last' = "other"
      /\ \E o : Over(d', o, d.pad) /\ Edge(line', o)
      /\ line' # line => from # to /\ Takes(from, Slice(line, from, to))
  BY KillRangeIs
<1>5. /\ Ringed'
      /\ s # <<>> /\ "killPopped" \notin Habits =>
           Len(yank'.ring) > 0 /\ yank'.ring[Len(yank'.ring)] = s
  BY <1>2, <1>3, YankedIs
<1>6. Typed
  BY <1>4 DEF Typed
<1>7. ASSUME line' # line, "killPopped" \notin Habits
      PROVE  /\ Len(yank'.ring) > 0
             /\ Inserted(line', Off(d'), yank'.ring[Len(yank'.ring)]) = line
  <2>1. from # to /\ Off(d') = from /\ Inserted(line', from, s) = line
    BY <1>2, <1>4, <1>7 DEF Takes
  <2>2. s # <<>>
    <3>1. from \in Int /\ to \in Int
      BY DEF Edge
    <3> QED BY <1>3, <2>1, <3>1
  <2>3. Len(yank'.ring) > 0 /\ yank'.ring[Len(yank'.ring)] = s
    BY <1>5, <1>7, <2>2
  <2> QED BY <2>1, <2>3
<1> QED BY <1>4, <1>5, <1>6, <1>7 DEF Lost

(* In the same mode, and on the way to the insert mode.                    *)
LEMMA KillsIs ==
  ASSUME IInv, Careful, NEW a, Pressed(a), NEW from, NEW to, Edge(line, from), Edge(line, to),
         from <= to, Kill(from, to), d' = Draw(d, drawn'), mode' \in Editing, ~visual'
  PROVE  Typed /\ last' = "other" /\ Ringed' /\ Lost
<1>1. Yanked(Slice(line, from, to)) /\ KillRange(from, to, <<>>)
  BY DEF Kill
<1> QED BY <1>1, KillIs

LEMMA ChangeIs ==
  ASSUME IInv, Careful, NEW a, Pressed(a), NEW from, NEW to, Edge(line, from), Edge(line, to),
         from <= to, Change(from, to), d' = Draw(d, drawn')
  PROVE  Typed /\ last' = "other" /\ Ringed' /\ Lost
<1>1. Yanked(Slice(line, from, to)) /\ KillRange(from, to, <<Ask>>)
  BY DEF Change
<1>2. mode' \in Editing /\ ~visual'
  BY DEF Change, SetMode, Editing
<1> QED BY <1>1, <1>2, KillIs

(* The places a kill goes from and to.                                     *)
LEMMA KillPlaces ==
  ASSUME IInv, NEW a, Pressed(a)
  PROVE  /\ Edge(line, 0) /\ Edge(line, off) /\ Edge(line, End) /\ 0 <= off /\ off <= End
         /\ 0 <= End
         /\ Edge(line, PrevWord(off)) /\ PrevWord(off) <= off
         /\ Edge(line, NextWord(off)) /\ off <= NextWord(off)
         /\ Edge(line, NextWordStart(off)) /\ off <= NextWordStart(off)
         /\ mode \in Editing
         /\ InMode /\ "visual" \notin Bound(a) => mode' \in Editing /\ ~visual'
<1>1. /\ Paired(line) /\ Edge(line, off) /\ off \in 0 .. End /\ End \in Nat /\ mode \in Editing
      /\ "visual" \notin Bound(a) => ~visual
  BY KeyIs
<1>2. Edge(line, 0) /\ Edge(line, End)
  BY <1>1, Ends DEF End
<1>3. InMode => mode' = mode /\ visual' = visual
  BY DEF InMode, modes
<1>4. /\ Edge(line, PrevWord(off)) /\ PrevWord(off) <= off
      /\ Edge(line, NextWord(off)) /\ off <= NextWord(off)
      /\ Edge(line, NextWordStart(off)) /\ off <= NextWordStart(off)
  BY <1>1, WordsEdge
<1> QED BY <1>1, <1>2, <1>3, <1>4

LEMMA EraseBolIs ==
  ASSUME IInv, Careful, EraseBol, d' = Draw(d, drawn')
  PROVE  Typed /\ last' = "other" /\ Ringed' /\ Lost
<1>1. Pressed("ERASE_BOL") /\ InMode /\ Kill(0, off)
  BY DEF EraseBol
<1>2. "visual" \notin Bound("ERASE_BOL")
  BY DEF Bound, Editing
<1> QED BY <1>1, <1>2, KillPlaces, KillsIs

LEMMA EraseLineIs ==
  ASSUME IInv, Careful, EraseLine, d' = Draw(d, drawn')
  PROVE  Typed /\ last' = "other" /\ Ringed' /\ Lost
<1>1. CASE Pressed("ERASE_LINE") /\ InMode /\ Kill(0, End)
  <2>1. "visual" \notin Bound("ERASE_LINE")
    BY DEF Bound
  <2> QED BY <1>1, <2>1, KillPlaces, KillsIs
<1>2. CASE Pressed("VI_CHANGE_LINE") /\ Change(0, End)
  BY <1>2, KillPlaces, ChangeIs
<1> QED BY <1>1, <1>2 DEF EraseLine

LEMMA ErasePrevWordIs ==
  ASSUME IInv, Careful, ErasePrevWord, d' = Draw(d, drawn')
  PROVE  Typed /\ last' = "other" /\ Ringed' /\ Lost
<1>1. /\ Pressed("ERASE_PREV_WORD") /\ InMode
      /\ Kill(PrevWord(off), off) \/ (Draws(<<Bell>>) /\ yank' = yank)
  BY DEF ErasePrevWord
<1>2. "visual" \notin Bound("ERASE_PREV_WORD")
  BY DEF Bound, Editing
<1>3. CASE Kill(PrevWord(off), off)
  BY <1>1, <1>2, <1>3, KillPlaces, KillsIs
<1>4. CASE Draws(<<Bell>>) /\ yank' = yank
  <2>1. Over(Draw(d, <<Bell>>), off, d.pad) /\ Edge(line, off)
    BY <1>1, GoesTo
  <2>2. Typed /\ last' = "other" /\ line' = line
    BY <1>1, <1>4, <2>1, OnlyDraws
  <2>3. Ringed'
    BY <1>4 DEF IInv, Ringed
  <2> QED BY <2>2, <2>3 DEF Lost
<1> QED BY <1>1, <1>3, <1>4

LEMMA EraseNextWordIs ==
  ASSUME IInv, Careful, EraseNextWord, d' = Draw(d, drawn')
  PROVE  Typed /\ last' = "other" /\ Ringed' /\ Lost
<1>1. CASE Pressed("ERASE_NEXT_WORD") /\ InMode /\ Kill(off, NextWord(off))
  <2>1. "visual" \notin Bound("ERASE_NEXT_WORD")
    BY DEF Bound, Editing
  <2> QED BY <1>1, <2>1, KillPlaces, KillsIs
<1>2. CASE Pressed("VI_ERASE_NEXT_WORD") /\ InMode /\ Kill(off, NextWordStart(off))
  <2>1. "visual" \notin Bound("VI_ERASE_NEXT_WORD")
    BY DEF Bound
  <2> QED BY <1>2, <2>1, KillPlaces, KillsIs
<1>3. CASE Pressed("VI_CHANGE_WORD") /\ Change(off, NextWord(off))
  BY <1>3, KillPlaces, ChangeIs
<1>4. CASE Pressed("VI_CHANGE_EOL") /\ Change(off, End)
  BY <1>4, KillPlaces, ChangeIs
<1>5. CASE Pressed("VI_CHANGE_BOL") /\ Change(0, off)
  BY <1>5, KillPlaces, ChangeIs
<1> QED BY <1>1, <1>2, <1>3, <1>4, <1>5 DEF EraseNextWord

LEMMA EraseVisualIs ==
  ASSUME IInv, Careful, EraseVisual, d' = Draw(d, drawn')
  PROVE  Typed /\ last' = "other" /\ Ringed' /\ Lost
<1>1. PICK from, to : from = VisualBounds.from /\ to = VisualBounds.to
  OBVIOUS
<1>2. CASE Pressed("VISUAL_CHANGE") /\ Change(from, to)
  <2>1. visual
    <3>1. Name \in {"visual"}
      BY <1>2 DEF Pressed, Bound
    <3>2. mode \in Editing
      BY DEF IInv
    <3> QED BY <3>1, <3>2 DEF Name, Editing
  <2>2. Edge(line, from) /\ Edge(line, to) /\ from <= to
    BY <1>1, <1>2, <2>1, BoundsEdge
  <2> QED BY <1>2, <2>2, ChangeIs
<1>3. CASE /\ Pressed("VISUAL_DELETE")
           /\ visual' = FALSE /\ UNCHANGED <<mode, replace, voff>>
           /\ Yanked(Slice(line, from, to)) /\ KillRange(from, to, <<Ask>>)
  <2>1. visual
    <3>1. Name \in {"visual"}
      BY <1>3 DEF Pressed, Bound
    <3>2. mode \in Editing
      BY DEF IInv
    <3> QED BY <3>1, <3>2 DEF Name, Editing
  <2>2. Edge(line, from) /\ Edge(line, to) /\ from <= to
    BY <1>1, <1>3, <2>1, BoundsEdge
  <2>3. mode' \in Editing /\ ~visual'
    BY <1>3 DEF IInv
  <2> QED BY <1>3, <2>2, <2>3, KillIs
<1> QED BY <1>1, <1>2, <1>3 DEF EraseVisual

LEMMA KillKeyIs ==
  ASSUME IInv, Careful, KillKey, d' = Draw(d, drawn')
  PROVE  Typed /\ last' = "other" /\ Ringed' /\ Lost
BY EraseBolIs, EraseLineIs, ErasePrevWordIs, EraseNextWordIs, EraseVisualIs DEF KillKey

LEMMA EmptyIs ==
  ASSUME NEW s \in Lines, NEW n \in Nat, n <= Len(s)
  PROVE  Slice(s, n, n) = <<>> /\ s \o <<>> = s
<1>1. Slice(s, n, n) \in Seq(Glyphs) /\ Len(Slice(s, n, n)) = 0
  <2>1. n - n = 0 /\ n <= n
    OBVIOUS
  <2> QED BY <2>1, SliceIs DEF Lines
<1>2. s \o <<>> = s
  BY DEF Lines
<1> QED BY <1>1, <1>2

(* Up to a place of it a line is a line, to which the rest can be put back.*)
LEMMA BeginningPaired ==
  ASSUME NEW s, Paired(s), NEW i, Edge(s, i), NEW w, w = Slice(s, 0, i)
  PROVE  /\ Paired(w) /\ Len(w) = i
         /\ \A j : Edge(s, j) /\ j <= i => Edge(w, j)
         /\ Inserted(w, i, Slice(s, i, Len(s))) = s
<1>1. s \in Lines /\ Len(s) \in Nat /\ i \in Nat /\ i <= Len(s) /\ Edge(s, 0) /\ Edge(s, Len(s))
  BY Ends DEF Edge
<1>2. Paired(w) /\ Len(w) = i /\ w \in Lines /\ \A j \in 1 .. i : w[j] = s[j]
  <2>1. Paired(w) /\ w \in Lines
    BY <1>1, SlicePaired
  <2>2. Len(w) = i /\ \A j \in 1 .. i : w[j] = s[j]
    BY <1>1, BeginningIs
  <2> QED BY <2>1, <2>2
<1>3. ASSUME NEW j, Edge(s, j), j <= i
      PROVE  Edge(w, j)
  <2>1. j \in Nat /\ j \in 0 .. Len(w)
    BY <1>1, <1>2, <1>3 DEF Edge
  <2>2. ASSUME j < Len(w) PROVE w[j + 1] # Half
    <3>1. j + 1 \in 1 .. i /\ j < Len(s)
      BY <1>1, <1>2, <2>1, <2>2
    <3> QED BY <1>2, <1>3, <3>1 DEF Edge
  <2> QED BY <2>1, <2>2 DEF Edge
<1>4. PICK v : v = Slice(s, i, Len(s))
  OBVIOUS
<1>5. v \in Lines /\ w \o v = s
  <2>1. v \in Lines
    BY <1>1, <1>4, SliceIs
  <2>2. Slice(s, 0, i) \o Slice(s, i, Len(s)) = Slice(s, 0, Len(s))
    <3>1. 0 \in Nat /\ 0 <= i /\ Len(s) <= Len(s)
      BY <1>1
    <3> QED BY <1>1, <3>1, SplitIs
  <2>3. Slice(s, 0, Len(s)) = s
    BY <1>1, WholeSlice
  <2> QED BY <1>4, <2>1, <2>2, <2>3
<1>6. Slice(w, 0, Len(w)) = w
  BY <1>2, WholeSlice
<1>7. Slice(w, Len(w), Len(w)) = <<>>
  BY <1>1, <1>2, EmptyIs
<1>8. (w \o v) \o <<>> = w \o v
  BY <1>1, <1>5, EmptyIs
<1>9. Inserted(w, Len(w), v) = s
  BY <1>5, <1>6, <1>7, <1>8 DEF Inserted
<1>10. Inserted(w, i, v) = s
  BY <1>2, <1>9
<1> QED BY <1>2, <1>3, <1>4, <1>10

(* ERASE_EOL: the cursor goes, in command mode, to what is the last        *)
(* character then.                                                         *)
LEMMA EraseEolIsKill ==
  ASSUME IInv, Careful, EraseEol, d' = Draw(d, drawn')
  PROVE  /\ Typed /\ last' = "other" /\ Ringed'
         /\ line' # line /\ "killPopped" \notin Habits =>
              /\ Len(yank'.ring) > 0
              /\ Inserted(line', off, yank'.ring[Len(yank'.ring)]) = line
<1>1. /\ Pressed("ERASE_EOL") /\ Yanked(Slice(line, off, End)) /\ InMode
      /\ "ERASE_EOL" \in EditKeys
  BY DEF EraseEol, EditKeys
<1>2. /\ Paired(line) /\ line \in Lines /\ End \in Nat /\ Over(d, off, d.pad) /\ Edge(line, off)
      /\ off \in 0 .. End /\ End = Len(line) /\ Edge(line, End)
  BY <1>1, KeyIs, Ends DEF End
<1>3. PICK s : s = Slice(line, off, End)
  OBVIOUS
<1>4. Paired(s) /\ Len(s) = End - off
  <2>1. off <= End
    BY <1>2
  <2> QED BY <1>2, <1>3, <2>1, SlicePaired
<1>5. /\ Ringed'
      /\ s # <<>> /\ "killPopped" \notin Habits =>
           Len(yank'.ring) > 0 /\ yank'.ring[Len(yank'.ring)] = s
  BY <1>1, <1>3, <1>4, YankedIs
<1>6. CASE off = End
  <2>1. Draws(<<>>)
    BY <1>6 DEF EraseEol
  <2>2. Over(Draw(d, <<>>), off, d.pad)
    BY <1>1, GoesTo
  <2>3. Typed /\ last' = "other" /\ line' = line
    BY <1>1, <1>2, <2>1, <2>2, OnlyDraws
  <2> QED BY <1>5, <2>3
<1>7. CASE off # End
  <2>1. PICK new : new = Slice(line, 0, off)
    OBVIOUS
  <2>2. PICK cmds : cmds = <<ClearAll(off)>> \o (IF mode = "command" THEN LeftOne ELSE <<>>)
    OBVIOUS
  <2>3. Becomes(new, cmds)
    BY <1>7, <2>1, <2>2 DEF EraseEol
  <2>4. /\ Paired(new) /\ Len(new) = off
        /\ \A j : Edge(line, j) /\ j <= off => Edge(new, j)
        /\ Inserted(new, off, Slice(line, off, Len(line))) = line
    BY <1>2, <2>1, BeginningPaired
  <2>5. Over(Draw(d, <<ClearAll(off)>>), off, d.pad)
    BY <1>2, OverFew
  <2>6. \E o : Over(Draw(d, cmds), o, d.pad) /\ Edge(new, o)
    <3>1. CASE mode = "command" /\ off > 0
      <4>1. PICK w : w = WidthBack(off)
        OBVIOUS
      <4>2. cmds = <<ClearAll(off)>> \o <<Back(w)>>
        BY <2>2, <3>1, <4>1 DEF LeftOne
      <4>3. w \in {1, 2} /\ w <= off /\ Edge(line, off - w)
        BY <1>2, <3>1, <4>1, BackEdge
      <4>4. PICK e : e = Draw(d, <<ClearAll(off)>>)
        OBVIOUS
      <4>5. w \in 0 .. off /\ off - w <= off
        BY <1>2, <4>3
      <4>6. Over(Draw(e, <<Back(w)>>), off - w, d.pad)
        BY <1>2, <2>5, <4>4, <4>5, OverFew
      <4>7. Draw(d, cmds) = Draw(e, <<Back(w)>>)
        BY <4>2, <4>4, DrawThen
      <4>8. Edge(new, off - w)
        BY <2>4, <4>3, <4>5
      <4> QED BY <4>6, <4>7, <4>8
    <3>2. CASE ~(mode = "command" /\ off > 0)
      <4>1. cmds = <<ClearAll(off)>> \o <<>>
        BY <2>2, <3>2, <1>2 DEF LeftOne
      <4>2. Draw(d, cmds) = Draw(d, <<ClearAll(off)>>)
        BY <4>1, DrawNoMore
      <4>3. Edge(new, off)
        BY <1>2, <2>4
      <4> QED BY <2>5, <4>2, <4>3
    <3> QED BY <3>1, <3>2
  <2>7. Typed /\ last' = "other"
    BY <1>1, <2>3, <2>4, <2>6, ChangesIs
  <2>8. line' = new
    BY <2>3 DEF Becomes
  <2>9. s # <<>>
    BY <1>2, <1>4, <1>7
  <2>10. Inserted(line', off, s) = line
    BY <1>2, <1>3, <2>4, <2>8
  <2> QED BY <1>5, <2>7, <2>9, <2>10
<1> QED BY <1>6, <1>7

(* YANK_LINE and the others.                                               *)
LEMMA YankKeyIs ==
  ASSUME IInv, Careful, YankKey, d' = Draw(d, drawn')
  PROVE  Typed /\ last' = "other" /\ Ringed' /\ line' = line
<1>1. ASSUME NEW a, Pressed(a), NEW from, NEW to, Edge(line, from), Edge(line, to), from <= to,
             Yanked(Slice(line, from, to))
      PROVE  Ringed'
  <2>1. Paired(line)
    BY DEF IInv
  <2>2. Paired(Slice(line, from, to))
    BY <1>1, <2>1, SlicePaired
  <2> QED BY <1>1, <2>2, YankedIs
<1>2. ASSUME NEW a, Pressed(a), Draws(<<>>), InMode
      PROVE  Typed /\ last' = "other" /\ line' = line
  <2>1. Over(Draw(d, <<>>), off, d.pad) /\ Edge(line, off)
    BY <1>2, GoesTo
  <2> QED BY <1>2, <2>1, OnlyDraws
<1>3. CASE Pressed("YANK_BOL") /\ Yanked(Slice(line, 0, off)) /\ Draws(<<>>) /\ InMode
  BY <1>1, <1>2, <1>3, KillPlaces
<1>4. CASE Pressed("YANK_EOL") /\ Yanked(Slice(line, off, End)) /\ Draws(<<>>) /\ InMode
  BY <1>1, <1>2, <1>4, KillPlaces
<1>5. CASE Pressed("YANK_LINE") /\ Yanked(line) /\ Draws(<<>>) /\ InMode
  <2>1. Paired(line)
    BY DEF IInv
  <2> QED BY <1>2, <1>5, <2>1, YankedIs
<1>6. CASE Pressed("YANK_WORD") /\ Yanked(Slice(line, off, NextWord(off))) /\ Draws(<<>>) /\ InMode
  BY <1>1, <1>2, <1>6, KillPlaces
<1>7. CASE /\ Pressed("VISUAL_YANK")
           /\ Yanked(Slice(line, VisualBounds.from, VisualBounds.to))
           /\ Draws(<<To(VisualBounds.from), Ask, All>>)
           /\ visual' = FALSE /\ UNCHANGED <<mode, replace, voff>>
  <2>1. visual
    <3>1. Name \in {"visual"}
      BY <1>7 DEF Pressed, Bound
    <3>2. mode \in Editing
      BY DEF IInv
    <3> QED BY <3>1, <3>2 DEF Name, Editing
  <2>2. PICK from, to : from = VisualBounds.from /\ to = VisualBounds.to
    OBVIOUS
  <2>3. Edge(line, from) /\ Edge(line, to) /\ from <= to
    BY <1>7, <2>1, <2>2, BoundsEdge
  <2>4. Ringed'
    BY <1>1, <1>7, <2>2, <2>3
  <2>5. Over(Draw(d, <<To(from), Ask, All>>), from, d.pad)
    BY <1>7, <2>3, GoesTo
  <2>6. mode' \in Editing /\ ~visual'
    BY <1>7 DEF IInv
  <2>7. Draws(<<To(from), Ask, All>>)
    BY <1>7, <2>2
  <2> QED BY <2>3, <2>4, <2>5, <2>6, <2>7, DrawsIs
<1> QED BY <1>3, <1>4, <1>5, <1>6, <1>7 DEF YankKey

(***************************************************************************)
(* What is pasted, and what takes its place.                               *)
(***************************************************************************)

(* What was pasted last is in the line, between the parts of base.         *)
PastedOn(base) ==
  /\ pasted' \in [start : Nat, size : Nat]
  /\ pasted'.size > 0 =>
       /\ Edge(line', pasted'.start) /\ pasted'.start + pasted'.size <= Len(line')
       /\ Slice(line', 0, pasted'.start) \o Slice(line', pasted'.start + pasted'.size, Len(line'))
            = base

(* The keys that paste are not those of the visual mode.                   *)
LEMMA TypedHere ==
  ASSUME IInv, NEW a \in EditKeys, Pressed(a), InMode, Paired(line'),
         NEW o, Over(d', o, d.pad), Edge(line', o)
  PROVE  Typed
<1>1. ~visual /\ mode \in Editing
  BY NotVisual DEF IInv
<1>2. ~visual' /\ mode' \in Editing
  BY <1>1 DEF InMode, modes
<1> QED BY <1>2 DEF Typed

(* The text put at i into base.                                            *)
LEMMA InsertedOn ==
  ASSUME NEW base, Paired(base), NEW i, Edge(base, i), NEW s, Paired(s),
         NEW new, new = Inserted(base, i, s), line' = new,
         pasted' = [start |-> i, size |-> Len(s)]
  PROVE  PastedOn(base) /\ Paired(line') /\ Edge(line', i + Len(s))
<1>1. PICK n, l, m : n = Len(s) /\ l = Len(base) /\ m = Len(new)
  OBVIOUS
<1>2. /\ n \in Nat /\ l \in Nat /\ i \in Nat /\ i <= l
  BY <1>1, Ends DEF Edge
<1>3. /\ Paired(new) /\ m = l + n /\ Edge(new, i) /\ Edge(new, i + n)
      /\ Slice(new, 0, i) \o Slice(new, i + n, m) = base
  BY <1>1, InsertedPaired
<1>4. pasted'.start = i /\ pasted'.size = n /\ pasted' \in [start : Nat, size : Nat]
  BY <1>1, <1>2
<1>5. i + n <= m
  BY <1>2, <1>3
<1> QED BY <1>1, <1>3, <1>4, <1>5 DEF PastedOn

(* The rest of a line.                                                     *)
LEMMA RestIs ==
  ASSUME NEW s, Paired(s), NEW i, i \in Nat, i <= Len(s), NEW m, m = Len(s),
         NEW u, u = Slice(s, i, Len(s))
  PROVE  Len(u) = m - i /\ m \in Nat /\ Len(u) \in Nat
<1>1. s \in Lines /\ Len(s) \in Nat
  BY Ends
<1>2. PICK n \in Nat : n = Len(s) /\ n <= Len(s) /\ i <= n
  BY <1>1
<1>3. Len(Slice(s, i, n)) = n - i
  BY <1>1, <1>2, SliceIs
<1>4. u = Slice(s, i, n) /\ m = n
  BY <1>2
<1>5. n - i \in Nat
  BY <1>2
<1> QED BY <1>3, <1>4, <1>5

(* PASTE_INSERT and PASTE_APPEND.                                          *)
LEMMA PasteIs ==
  ASSUME IInv, Careful, Paste, d' = Draw(d, drawn')
  PROVE  /\ Typed /\ last' = "paste" /\ Ringed' /\ done' = done
         /\ PastedOn(IF yank.ring = <<>> THEN before.base ELSE line)
<1>1. PICK n : n = Len(yank.ring)
  OBVIOUS
<1>2. PICK after, i, s, new :
        /\ after \in BOOLEAN
        /\ i = PasteAt(after) /\ s = yank.ring[n] /\ new = Inserted(line, i, s)
        /\ Pressed(IF after THEN "PASTE_APPEND" ELSE "PASTE_INSERT")
        /\ n = 0 => NotLate
        /\ IF n = 0 THEN line' = line /\ drawn' = <<Bell>> /\ UNCHANGED <<yank, pasted>>
           ELSE /\ line' = new
                /\ drawn' = <<Fwd(i - off)>> \o DrawInserted(new, i, s)
                /\ yank' = [yank EXCEPT !.idx = n]
                /\ pasted' = [start |-> i, size |-> Len(s)]
  BY <1>1 DEF Paste
<1>3. PICK a : a = (IF after THEN "PASTE_APPEND" ELSE "PASTE_INSERT")
  OBVIOUS
<1>4. a \in EditKeys /\ Pressed(a) /\ InMode /\ last' = "paste" /\ done' = done
  BY <1>2, <1>3 DEF EditKeys, Paste
<1>5. /\ Paired(line) /\ line \in Lines /\ End \in Nat /\ Over(d, off, d.pad) /\ Edge(line, off)
      /\ off \in 0 .. End /\ off \in Nat /\ End = Len(line)
  BY <1>4, KeyIs DEF End
<1>6. Ringed /\ PastedIn
  BY DEF IInv
<1>7. PICK ring : ring = yank.ring
  OBVIOUS
<1>8. ring \in Seq(Texts) /\ n = Len(ring) /\ n \in Nat
  BY <1>1, <1>6, <1>7 DEF Ringed
<1>9. CASE n = 0
  <2>1. line' = line /\ drawn' = <<Bell>> /\ yank' = yank /\ pasted' = pasted /\ NotLate
    BY <1>2, <1>9
  <2>2. Over(d', off, d.pad)
    BY <1>4, <2>1, GoesTo
  <2>3. Typed
    BY <1>4, <1>5, <2>1, <2>2, TypedHere
  <2>4. Ringed'
    BY <1>6, <2>1 DEF Ringed
  <2>5. yank.ring = <<>>
    <3>1. Len(ring) = 0
      BY <1>8, <1>9
    <3>2. ring = <<>>
      BY <1>8, <3>1
    <3> QED BY <1>7, <3>2
  <2>6. last = "paste" \/ ~(pasted.size > 0)
    BY <2>1 DEF NotLate, Careful
  <2>7. PastedOn(before.base)
    BY <1>5, <1>6, <2>1, <2>6 DEF PastedOn, PastedIn
  <2> QED BY <1>4, <2>3, <2>4, <2>5, <2>7
<1>10. CASE n # 0
  <2>1. /\ line' = new /\ drawn' = <<Fwd(i - off)>> \o DrawInserted(new, i, s)
        /\ yank' = [yank EXCEPT !.idx = n] /\ pasted' = [start |-> i, size |-> Len(s)]
    BY <1>2, <1>10
  <2>2. s \in Texts
    BY <1>2, <1>7, <1>8, <1>10
  <2>3. Paired(s) /\ Len(s) \in Nat
    BY <2>2, Ends DEF Texts
  <2>4. Edge(line, i) /\ off <= i
    <3>1. CASE after /\ off < End
      <4>1. WidthNext(off) \in {1, 2} /\ Edge(line, off + WidthNext(off))
        BY <1>5, <3>1, NextEdge
      <4>2. i = off + WidthNext(off)
        BY <1>2, <3>1 DEF PasteAt
      <4> QED BY <1>5, <4>1, <4>2
    <3>2. CASE ~(after /\ off < End)
      <4>1. i = off
        BY <1>2, <3>2 DEF PasteAt
      <4> QED BY <1>5, <4>1
    <3> QED BY <3>1, <3>2
  <2>5. i \in Nat
    BY <2>4, <1>5 DEF Edge
  <2>6. PastedOn(line) /\ Paired(line') /\ Edge(line', i + Len(s))
    BY <1>2, <1>5, <2>1, <2>3, <2>4, InsertedOn
  <2>7. PICK x, m, u : x = i + Len(s) /\ m = Len(new) /\ u = Slice(new, i, Len(new))
    OBVIOUS
  <2>8. x \in Nat /\ Len(u) \in Nat
    <3>1. new \in Lines /\ Len(new) \in Nat
      BY <2>1, <2>6, Ends
    <3>2. i <= Len(new)
      <4>1. Paired(line) /\ Edge(line, i) /\ Paired(s) /\ new = Inserted(line, i, s)
        BY <1>2, <1>5, <2>3, <2>4
      <4>2. Edge(new, i)
        BY <4>1, InsertedPaired
      <4> QED BY <4>2 DEF Edge
    <3>3. Paired(new)
      BY <2>1, <2>6
    <3>4. Len(u) \in Nat
      BY <2>5, <2>7, <3>2, <3>3, RestIs
    <3> QED BY <2>3, <2>5, <2>7, <3>4
  <2>9. drawn' = <<Fwd(i - off)>> \o <<Grow(m), Put(u), ClearAll(m), To(x)>>
    BY <2>1, <2>7 DEF DrawInserted
  <2>10. PICK e : e = Draw(d, <<Fwd(i - off)>>)
    OBVIOUS
  <2>11. Over(e, i, d.pad)
    BY <1>4, <2>4, <2>10, GoesTo
  <2>12. Over(Draw(e, <<Grow(m), Put(u), ClearAll(m), To(x)>>), x, d.pad)
    BY <2>5, <2>8, <2>11, OverTo
  <2>13. d' = Draw(e, <<Grow(m), Put(u), ClearAll(m), To(x)>>)
    BY <2>9, <2>10, DrawThenFour
  <2>14. Typed
    BY <1>4, <2>6, <2>7, <2>12, <2>13, TypedHere
  <2>15. Ringed'
    <3>1. yank \in [ring : Seq(Texts), off : Nat, idx : Nat] /\ yank.off <= n
      BY <1>1, <1>6 DEF Ringed
    <3>2. yank' = [ring |-> ring, off |-> yank.off, idx |-> n]
      BY <1>7, <2>1, <3>1
    <3> QED BY <1>8, <3>1, <3>2 DEF Ringed
  <2>16. yank.ring # <<>>
    BY <1>7, <1>8, <1>10
  <2> QED BY <1>4, <2>6, <2>14, <2>15, <2>16
<1> QED BY <1>9, <1>10

(* The line without what was pasted before.                                *)
LEMMA BaseIs ==
  ASSUME IInv, NEW a, Pressed(a), NEW i, i = IF Again THEN pasted.start ELSE off,
         NEW base, base = Without(line, i, off)
  PROVE  /\ Paired(base) /\ Edge(base, i) /\ i \in Nat /\ i <= off
         /\ base = IF Again THEN before.base ELSE line
         /\ Again => pasted.size \in 0 .. off /\ i = off - pasted.size
         /\ ~Again => i = off
<1>1. /\ Paired(line) /\ line \in Lines /\ End \in Nat /\ Edge(line, off)
      /\ off \in 0 .. End /\ off \in Nat /\ End = Len(line)
  BY KeyIs DEF End
<1>2. CASE Again
  <2>1. PICK x, z : x = pasted.start /\ z = pasted.size
    OBVIOUS
  <2>2. /\ x \in Nat /\ z \in Nat /\ Edge(line, x) /\ off = x + z /\ i = x
        /\ Slice(line, 0, x) \o Slice(line, x + z, End) = before.base
    BY <1>2, <2>1 DEF IInv, PastedIn, Again
  <2>3. i <= off /\ i \in Nat /\ z \in 0 .. off /\ i = off - z
    BY <1>1, <2>2
  <2>4. Paired(base) /\ Edge(base, i)
    BY <1>1, <2>2, <2>3, CutPaired
  <2>5. base = before.base
    BY <1>1, <2>2 DEF Without
  <2> QED BY <1>2, <2>1, <2>3, <2>4, <2>5
<1>3. CASE ~Again
  <2>1. i = off
    BY <1>3
  <2>2. Slice(line, 0, off) \o Slice(line, off, Len(line)) = Slice(line, 0, Len(line))
    <3>1. 0 \in Nat /\ 0 <= off /\ off <= Len(line) /\ Len(line) <= Len(line) /\ Len(line) \in Nat
      BY <1>1
    <3> QED BY <1>1, <3>1, SplitIs
  <2>3. base = line
    BY <1>1, <2>1, <2>2, WholeSlice DEF Without
  <2>4. i <= off /\ i \in Nat
    BY <1>1, <2>1
  <2> QED BY <1>1, <1>3, <2>1, <2>3, <2>4
<1> QED BY <1>2, <1>3

(* YANK_POP and the others.                                                *)
LEMMA SubstituteIs ==
  ASSUME IInv, Careful, NEW a \in EditKeys, Pressed(a), NEW found \in BOOLEAN, NEW s, Paired(s),
         Substitute(found, s), d' = Draw(d, drawn')
  PROVE  /\ Typed /\ last' = "paste" /\ done' = done
         /\ PastedOn(IF Again THEN before.base ELSE line)
<1>1. PICK i, base, new, back :
        /\ i = (IF Again THEN pasted.start ELSE off)
        /\ base = Without(line, i, off)
        /\ new = Inserted(base, i, s)
        /\ back = (IF Again THEN <<Back(pasted.size)>> ELSE <<>>)
  OBVIOUS
<1>2. /\ ~found => NotLate
      /\ IF found
          THEN /\ line' = new
               /\ drawn' = back \o DrawInserted(new, i, s)
               /\ pasted' = [start |-> i, size |-> Len(s)]
          ELSE /\ line' = base
               /\ drawn' = IF Again THEN back \o <<Put(Slice(base, i, Len(base))),
                                                   ClearAll(Len(base)),
                                                   Back(Len(base) - i), Bell>>
                            ELSE <<Bell>>
               /\ pasted' = IF last = "paste" THEN [start |-> 0, size |-> 0] ELSE pasted
      /\ last' = "paste" /\ InMode /\ done' = done
  BY <1>1, Zenon DEF Substitute, Without, End
<1>3. /\ Paired(line) /\ line \in Lines /\ End \in Nat /\ Over(d, off, d.pad) /\ Edge(line, off)
      /\ off \in 0 .. End /\ off \in Nat /\ End = Len(line)
  BY KeyIs DEF End
<1>4. /\ Paired(base) /\ Edge(base, i) /\ i \in Nat /\ i <= off
      /\ base = IF Again THEN before.base ELSE line
      /\ Again => pasted.size \in 0 .. off /\ i = off - pasted.size
      /\ ~Again => i = off
  BY <1>1, BaseIs
<1>5. PICK e : e = IF Again THEN Draw(d, <<Back(pasted.size)>>) ELSE d
  OBVIOUS
<1>6. Over(e, i, d.pad)
  <2>1. CASE Again
    BY <1>3, <1>4, <1>5, <2>1, OverFew
  <2>2. CASE ~Again
    BY <1>3, <1>4, <1>5, <2>2
  <2> QED BY <2>1, <2>2
<1>7. ASSUME NEW b, NEW c, NEW k, NEW l
      PROVE  Draw(d, back \o <<b, c, k, l>>) = Draw(e, <<b, c, k, l>>)
  <2>1. CASE Again
    <3>1. PICK y : y = Back(pasted.size)
      OBVIOUS
    <3>2. back = <<y>> /\ e = Draw(d, <<y>>)
      BY <1>1, <1>5, <2>1, <3>1
    <3>3. Draw(d, <<y>> \o <<b, c, k, l>>) = Draw(Draw(d, <<y>>), <<b, c, k, l>>)
      BY DrawThenFour
    <3> QED BY <3>2, <3>3
  <2>2. CASE ~Again
    <3>1. back = <<>> /\ e = d
      BY <1>1, <1>5, <2>2
    <3>2. Draw(d, <<>> \o <<b, c, k, l>>) = Draw(d, <<b, c, k, l>>)
      BY DrawOnlyFour
    <3> QED BY <3>1, <3>2
  <2> QED BY <2>1, <2>2
<1>8. CASE found
  <2>1. /\ line' = new /\ drawn' = back \o DrawInserted(new, i, s)
        /\ pasted' = [start |-> i, size |-> Len(s)]
    BY <1>2, <1>8
  <2>2. PastedOn(base) /\ Paired(line') /\ Edge(line', i + Len(s))
    BY <1>1, <1>4, <2>1, InsertedOn
  <2>3. PICK x, m, u : x = i + Len(s) /\ m = Len(new) /\ u = Slice(new, i, Len(new))
    OBVIOUS
  <2>4. x \in Nat /\ Len(u) \in Nat
    <3>1. new \in Lines /\ Len(new) \in Nat /\ Len(s) \in Nat
      BY <2>1, <2>2, Ends
    <3>2. i <= Len(new)
      <4>1. Edge(new, i)
        BY <1>1, <1>4, InsertedPaired
      <4> QED BY <4>1 DEF Edge
    <3>3. Paired(new)
      BY <2>1, <2>2
    <3>4. Len(u) \in Nat
      BY <1>4, <2>3, <3>2, <3>3, RestIs
    <3> QED BY <1>4, <2>3, <3>1, <3>4
  <2>5. drawn' = back \o <<Grow(m), Put(u), ClearAll(m), To(x)>>
    BY <2>1, <2>3 DEF DrawInserted
  <2>6. d' = Draw(e, <<Grow(m), Put(u), ClearAll(m), To(x)>>)
    BY <1>7, <2>5
  <2>7. Over(Draw(e, <<Grow(m), Put(u), ClearAll(m), To(x)>>), x, d.pad)
    BY <1>4, <1>6, <2>4, OverTo
  <2>8. Typed
    BY <1>2, <2>2, <2>3, <2>6, <2>7, TypedHere
  <2> QED BY <1>2, <1>4, <2>2, <2>8
<1>9. CASE ~found
  <2>1. /\ line' = base
        /\ pasted' = IF last = "paste" THEN [start |-> 0, size |-> 0] ELSE pasted
        /\ NotLate
    BY <1>2, <1>9
  <2>2. pasted' \in [start : Nat, size : Nat] /\ pasted'.size = 0
    <3>1. pasted \in [start : Nat, size : Nat]
      BY DEF IInv, PastedIn
    <3>2. last # "paste" => ~(pasted.size > 0)
      BY <2>1 DEF NotLate, Careful
    <3> QED BY <2>1, <3>1, <3>2
  <2>3. PastedOn(base)
    BY <2>2 DEF PastedOn
  <2>4. Over(d', i, d.pad)
    <3>1. CASE Again
      <4>1. PICK m, u, n : m = Len(base) /\ u = Slice(base, i, Len(base)) /\ n = Len(base) - i
        OBVIOUS
      <4>2. base \in Lines /\ m \in Nat /\ i <= m
        BY <1>4, <4>1, Ends DEF Edge
      <4>3. i <= Len(base)
        BY <4>1, <4>2
      <4>4. Len(u) = m - i
        <5>1. Paired(base) /\ i \in Nat
          BY <1>4
        <5> QED BY <4>1, <4>3, <5>1, RestIs
      <4>5. Len(u) \in Nat /\ m = i + Len(u) /\ n \in 0 .. m /\ i = m - n
        BY <1>4, <4>1, <4>2, <4>4
      <4>6. drawn' = back \o <<Put(u), ClearAll(m), Back(n), Bell>>
        BY <1>2, <1>9, <3>1, <4>1
      <4>7. d' = Draw(e, <<Put(u), ClearAll(m), Back(n), Bell>>)
        BY <1>7, <4>6
      <4>8. Over(Draw(e, <<Put(u), ClearAll(m), Back(n), Bell>>), i, d.pad)
        BY <1>6, <4>5, OverTaken
      <4> QED BY <4>7, <4>8
    <3>2. CASE ~Again
      <4>1. drawn' = <<Bell>>
        BY <1>2, <1>9, <3>2
      <4>2. Over(Draw(d, <<Bell>>), off, d.pad)
        BY GoesTo
      <4> QED BY <1>4, <3>2, <4>1, <4>2
    <3> QED BY <3>1, <3>2
  <2>5. Paired(line') /\ Edge(line', i)
    BY <1>4, <2>1
  <2>6. Typed
    BY <1>2, <2>4, <2>5, TypedHere
  <2> QED BY <1>2, <1>4, <2>3, <2>6
<1> QED BY <1>8, <1>9

LEMMA YankPopIs ==
  ASSUME IInv, Careful, YankPop, d' = Draw(d, drawn')
  PROVE  /\ Typed /\ last' = "paste" /\ Ringed' /\ done' = done
         /\ PastedOn(IF Again THEN before.base ELSE line)
<1>1. Pressed("YANK_POP") /\ "YANK_POP" \in EditKeys
  BY DEF YankPop, EditKeys
<1>2. PICK ring, o, x : ring = yank.ring /\ o = yank.off /\ x = yank.idx
  OBVIOUS
<1>3. /\ yank = [ring |-> ring, off |-> o, idx |-> x] /\ ring \in Seq(Texts) /\ Len(ring) \in Nat
      /\ o \in Nat /\ x \in Nat /\ o <= Len(ring) /\ x <= Len(ring) + 1
  BY <1>2 DEF IInv, Ringed
<1>4. CASE x > 1
  <2>1. yank' = Popped /\ Substitute(TRUE, ring[x - 1])
    BY <1>2, <1>4 DEF YankPop
  <2>2. x - 1 \in 1 .. Len(ring)
    BY <1>3, <1>4
  <2>3. ring[x - 1] \in Texts
    BY <1>3, <2>2
  <2>4. Paired(ring[x - 1])
    BY <2>3 DEF Texts
  <2>5. yank' = [ring |-> ring, off |-> x - 1, idx |-> x - 1]
    BY <1>2, <1>3, <2>1 DEF Popped
  <2>6. Ringed'
    BY <1>3, <2>2, <2>5 DEF Ringed
  <2> QED BY <1>1, <2>1, <2>4, <2>6, SubstituteIs
<1>5. CASE ~(x > 1)
  <2>1. yank' = PoppedOut /\ Substitute(FALSE, <<>>)
    BY <1>2, <1>5 DEF YankPop
  <2>2. Paired(<<>>)
    BY DEF Paired, Lines
  <2>3. yank' = [ring |-> ring, off |-> o, idx |-> Len(ring) + 1]
    BY <1>2, <1>3, <2>1 DEF PoppedOut
  <2>4. Ringed'
    BY <1>3, <2>3 DEF Ringed
  <2> QED BY <1>1, <2>1, <2>2, <2>4, SubstituteIs
<1> QED BY <1>4, <1>5

LEMMA YankArgIs ==
  ASSUME IInv, Careful, YankArg, d' = Draw(d, drawn')
  PROVE  /\ Typed /\ last' = "paste" /\ Ringed' /\ done' = done
         /\ PastedOn(IF Again THEN before.base ELSE line)
<1>1. Pressed("YANK_ARG") /\ "YANK_ARG" \in EditKeys /\ yank' = yank
  BY DEF YankArg, EditKeys
<1>2. Ringed'
  BY <1>1 DEF IInv, Ringed
<1>3. PICK found, s : /\ found \in BOOLEAN /\ Substitute(found, s)
                      /\ s = <<>> \/ \E r \in Restored : s = r[1]
  BY DEF YankArg
<1>4. Paired(<<>>)
  BY DEF Paired, Lines
<1>5. Paired(s)
  BY <1>3, <1>4, EditAssumption
<1> QED BY <1>1, <1>2, <1>3, <1>5, SubstituteIs

(***************************************************************************)
(* What is drawn without a key of the line, and the end of the line.       *)
(***************************************************************************)

(* The line as it is, with the cursor where a drawing leaves it.           *)
LEMMA DrawnOver ==
  ASSUME Paired(line), line' = line, done' = "no",
         NEW o, Edge(line, o), NEW n \in {o, 0, Len(line)}, NEW q, Over(d', n, q)
  PROVE  Placed'
<1>1. Edge(line, 0) /\ Edge(line, Len(line))
  BY Ends
<1>2. Edge(line', n)
  BY <1>1
<1>3. Off(d') = n /\ d'.pad = q
  BY OverIs DEF Over
<1>4. Over(d', Off(d'), d'.pad) /\ Edge(line', Off(d'))
  BY <1>2, <1>3
<1> QED BY <1>4 DEF Placed, off

(* Where the cursor is, while the line is edited.                          *)
LEMMA HereIs ==
  ASSUME IInv, done = "no"
  PROVE  /\ Paired(line) /\ line \in Lines /\ Over(d, off, d.pad) /\ Edge(line, off)
         /\ End = Len(line) /\ End \in Nat /\ mode \in Editing
BY Ends DEF IInv, Placed, End

LEMMA RedrawIs ==
  ASSUME IInv, Redraw
  PROVE  Placed'
<1>1. done = "no" /\ d' = RefreshLine(d, line, visual) /\ line' = line /\ done' = done
  BY DEF Redraw, Pressed, Kept
<1>2. /\ Paired(line) /\ line \in Lines /\ Over(d, off, d.pad) /\ Edge(line, off)
  BY <1>1, HereIs
<1>3. /\ IsScreen(d) /\ d.pad \in Nat /\ d.shown \in Nat /\ d.start \in Int /\ Stay(d) \in Nat
  BY <1>2, OverIs DEF Over
<1>4. Redrawn(d', d, line)
  BY <1>1, <1>2, <1>3, RefreshIs
<1>5. PICK n \in {off, 0, Len(line)} : Over(d', n, d.pad)
  BY <1>2, <1>4, OverRedrawn
<1> QED BY <1>1, <1>2, <1>5, DrawnOver

LEMMA ClearedIs ==
  ASSUME NEW e, NEW o, NEW p, Over(e, o, p), line \in Lines, NEW g, g = Cleared(e)
  PROVE  \E n \in {o, 0, Len(line)} : Over(g, n, p)
<1>1. CASE e.shown > 0
  BY <1>1, ShowClearIs DEF Cleared
<1>2. CASE ~(e.shown > 0)
  BY <1>2 DEF Cleared
<1> QED BY <1>1, <1>2

LEMMA ShowIs ==
  ASSUME IInv, Show
  PROVE  Placed'
<1>1. done = "no" /\ line' = line /\ done' = done
  BY DEF Show, Pressed, Kept
<1>2. /\ Paired(line) /\ line \in Lines /\ Over(d, off, d.pad) /\ Edge(line, off)
  BY <1>1, HereIs
<1>3. CASE \E k \in 1 .. MaxShown :
             d' = OutputShow([Cleared(d) EXCEPT !.shown = k], line, visual)
  <2>1. PICK k \in 1 .. MaxShown : d' = OutputShow([Cleared(d) EXCEPT !.shown = k], line, visual)
    BY <1>3
  <2>2. PICK g : g = Cleared(d)
    OBVIOUS
  <2>3. PICK n \in {off, 0, Len(line)} : Over(g, n, d.pad)
    BY <1>2, <2>2, ClearedIs
  <2>4. PICK e : e = [g EXCEPT !.shown = k]
    OBVIOUS
  <2>5. Over(e, n, d.pad) /\ e.back = 0
    BY <2>3, <2>4 DEF Over, IsScreen, Fields, Prompt
  <2>6. /\ IsScreen(e) /\ e.pad \in Nat /\ e.shown \in Nat /\ e.start \in Int /\ e.pos \in Nat
    BY <2>5, OverIs DEF Over
  <2>7. d' = OutputShow(e, line, visual)
    BY <2>1, <2>2, <2>4
  <2>8. Redrawn(d', e, line)
    BY <1>2, <2>5, <2>6, <2>7, OutputShowIs
  <2>9. PICK m \in {n, 0, Len(line)} : Over(d', m, d.pad)
    BY <1>2, <2>5, <2>8, OverRedrawn
  <2>10. m \in {off, 0, Len(line)}
    BY <2>3, <2>9
  <2> QED BY <1>1, <1>2, <2>9, <2>10, DrawnOver
<1>4. CASE d' = ShowClear(d, line, visual)
  <2>1. PICK n \in {off, 0, Len(line)} : Over(d', n, d.pad)
    BY <1>2, <1>4, ShowClearIs
  <2> QED BY <1>1, <1>2, <2>1, DrawnOver
<1> QED BY <1>3, <1>4 DEF Show

LEMMA NextLineIs ==
  ASSUME NextLine
  PROVE  Placed'
<1>1. PICK e : e = FreshScreen(Window)
  OBVIOUS
<1>2. /\ IsScreen(e) /\ e.pad = 0 /\ e.back = 0 /\ e.refresh = FALSE /\ e.shown = 0
      /\ e.start = 0
  BY <1>1 DEF FreshScreen, IsScreen, Fields
<1>3. PICK g : g = OutputPrompt(e)
  OBVIOUS
<1>4. Goes(g, e, Prompt(e))
  BY <1>2, <1>3, PromptIs
<1>5. PICK b : d' = [g EXCEPT !.bell = b] /\ line' = <<>>
  BY <1>1, <1>3 DEF NextLine
<1>6. Over(g, 0, 0)
  BY <1>2, <1>4 DEF Goes, Over, Prompt
<1>7. Goes(d', g, g.pos)
  BY <1>5, <1>6, Aside DEF Over
<1>8. Over(d', 0, 0)
  <2>1. g.pos = 1 + 0 + 0 /\ 0 \in Nat
    BY <1>6 DEF Over
  <2> QED BY <1>6, <1>7, <2>1, OverGoes
<1>9. Off(d') = 0 /\ d'.pad = 0
  BY <1>8, OverIs DEF Over
<1>10. Edge(line', 0)
  BY <1>5 DEF Edge
<1>11. done' = "no"
  BY DEF NextLine
<1> QED BY <1>8, <1>9, <1>10, <1>11 DEF Placed, off

(* When the program writes, the cursor is in the line, but to be drawn     *)
(* again.                                                                  *)
LEMMA LeaveIs ==
  ASSUME IInv, done = "no", NEW g, g = LeaveLine(d)
  PROVE  \E n \in {off, 0, Len(line)} : Over(g, n, d.pad)
<1>1. /\ Paired(line) /\ line \in Lines /\ Over(d, off, d.pad) /\ Edge(line, off)
      /\ End = Len(line) /\ End \in Nat
  BY HereIs
<1>2. PICK e : e = Cleared(d)
  OBVIOUS
<1>3. PICK n \in {off, 0, Len(line)} : Over(e, n, d.pad)
  BY <1>1, <1>2, ClearedIs
<1>4. PICK f : f = VisualFollows(e, line, visual)
  OBVIOUS
<1>5. Goes(f, e, e.pos)
  BY <1>1, <1>3, <1>4, OverIs, VisualIs
<1>6. n \in Nat /\ e.pos = 1 + d.pad + n
  BY <1>3 DEF Over
<1>7. Over(f, n, d.pad)
  BY <1>3, <1>5, <1>6, OverGoes
<1>8. g = OutputRightPrompt(f, line, mode, TRUE)
  BY <1>2, <1>4 DEF LeaveLine
<1>9. Goes(g, f, f.pos)
  BY <1>7, <1>8, OverIs, RightPromptIs
<1>10. f.pos = 1 + d.pad + n
  BY <1>7 DEF Over
<1>11. Over(g, n, d.pad)
  BY <1>6, <1>7, <1>9, <1>10, OverGoes
<1> QED BY <1>11

LEMMA SuspendIs ==
  ASSUME IInv, Suspend
  PROVE  Placed'
<1>1. /\ done = "no" /\ d' = [NewlineBelow(LeaveLine(d)) EXCEPT !.refresh = TRUE]
      /\ done' = "away" /\ line' = line
  BY DEF Suspend, Pressed
<1>2. Paired(line) /\ Edge(line, off)
  BY <1>1, HereIs
<1>3. PICK g : g = LeaveLine(d)
  OBVIOUS
<1>4. PICK n \in {off, 0, Len(line)} : Over(g, n, d.pad)
  BY <1>1, <1>3, LeaveIs
<1>5. PICK u : d' = [[g EXCEPT !.t = u] EXCEPT !.refresh = TRUE]
  BY <1>1, <1>3 DEF NewlineBelow, Newline
<1>6. /\ IsScreen(g) /\ g.shown \in Nat /\ g.start \in Int /\ g.pad = d.pad /\ g.pad \in Nat
      /\ g.pos = 1 + d.pad + n /\ n \in Nat /\ g.back = 0
  BY <1>4 DEF Over
<1>7. /\ IsScreen(d') /\ d'.shown = g.shown /\ d'.start = g.start /\ d'.pad = g.pad
      /\ d'.pos = g.pos /\ d'.back = g.back
  BY <1>5, <1>6 DEF IsScreen, Fields
<1>8. Stay(d') \in Nat /\ Stay(d') - Prompt(d') = n
  BY <1>6, <1>7 DEF Stay, Prompt
<1>9. Edge(line, n)
  BY <1>2, <1>4, Ends
<1> QED BY <1>1, <1>6, <1>7, <1>8, <1>9 DEF Placed

LEMMA ClearLineIs ==
  ASSUME IInv, ClearLine
  PROVE  Placed'
<1>1. /\ done = "no" /\ d' = ErasePrompt([d EXCEPT !.back = d.pos], line)
      /\ done' = "away" /\ line' = line
  BY DEF ClearLine
<1>2. Edge(line, off) /\ Over(d, off, d.pad)
  BY <1>1, HereIs
<1>3. /\ IsScreen(d) /\ d.shown \in Nat /\ d.start \in Int /\ d.pad \in Nat /\ d.pos \in Nat \ {0}
  BY <1>2, OverIs DEF Over
<1>4. PICK e : e = [d EXCEPT !.back = d.pos]
  OBVIOUS
<1>5. /\ IsScreen(e) /\ e.shown = d.shown /\ e.start = d.start /\ e.pad = d.pad /\ e.back = d.pos
  BY <1>3, <1>4 DEF IsScreen, Fields
<1>6. PICK f : f = MoveCursor(e, 0)
  OBVIOUS
<1>7. Goes(f, e, 0)
  BY <1>5, <1>6, MoveIs
<1>8. PICK g : g = CursorEraseEol(f, Len(line))
  OBVIOUS
<1>9. IsScreen(f)
  BY <1>7 DEF Goes
<1>10. Goes(g, f, f.pos)
  BY <1>8, <1>9, EraseEolIs
<1>11. PICK u : d' = [g EXCEPT !.t = u, !.refresh = TRUE]
  BY <1>1, <1>4, <1>6, <1>8 DEF ErasePrompt
<1>12. /\ IsScreen(g) /\ g.shown = d.shown /\ g.start = d.start /\ g.pad = d.pad /\ g.back = d.pos
  BY <1>5, <1>7, <1>10 DEF Goes
<1>13. /\ IsScreen(d') /\ d'.shown = d.shown /\ d'.start = d.start /\ d'.pad = d.pad
       /\ d'.back = d.pos
  BY <1>11, <1>12 DEF IsScreen, Fields
<1>14. Stay(d') \in Nat /\ Stay(d') - Prompt(d') = off
  BY <1>3, <1>13 DEF Stay, Prompt, off, Off
<1> QED BY <1>1, <1>2, <1>3, <1>13, <1>14 DEF Placed

LEMMA ResumeIs ==
  ASSUME IInv, Resume
  PROVE  Placed'
<1>1. /\ done = "away" /\ done' = "no" /\ line' = line
      /\ d' = [RefreshLine([d EXCEPT !.t = Window], line, visual) EXCEPT !.refresh = FALSE]
  BY DEF Resume
<1>2. /\ Paired(line) /\ line \in Lines /\ Len(line) \in Nat
      /\ IsScreen(d) /\ d.pad \in Nat /\ d.shown \in Nat /\ d.start \in Int
      /\ Stay(d) \in Nat /\ Edge(line, Stay(d) - Prompt(d))
  BY <1>1, Ends DEF IInv, Placed
<1>3. PICK e : e = [d EXCEPT !.t = Window]
  OBVIOUS
<1>4. /\ IsScreen(e) /\ e.pad = d.pad /\ e.shown = d.shown /\ e.start = d.start
      /\ Stay(e) = Stay(d) /\ Prompt(e) = Prompt(d)
  BY <1>2, <1>3 DEF IsScreen, Fields, Stay, Prompt
<1>5. PICK g : g = RefreshLine(e, line, visual)
  OBVIOUS
<1>6. Redrawn(g, e, line)
  BY <1>2, <1>4, <1>5, RefreshIs
<1>7. PICK o : o = Stay(d) - Prompt(d)
  OBVIOUS
<1>8. Prompt(d) = 1 + d.pad /\ Stay(d) = 1 + d.pad + o /\ Edge(line, o) /\ o \in Nat
  <2>1. Prompt(d) = 1 + d.pad /\ Edge(line, o)
    BY <1>2, <1>7 DEF Prompt
  <2>2. o \in 0 .. Len(line)
    BY <2>1 DEF Edge
  <2> QED BY <1>2, <1>7, <2>1, <2>2
<1>9. PICK n \in {o, 0, Len(line)} : g.pos = 1 + d.pad + n
  <2>1. CASE g.pos = Stay(e)
    BY <1>4, <1>8, <2>1
  <2>2. CASE g.pos \in {Prompt(e), Prompt(e) + Len(line)}
    <3>1. g.pos = Prompt(d) \/ g.pos = Prompt(d) + Len(line)
      BY <1>4, <2>2
    <3>2. g.pos = 1 + d.pad + 0 \/ g.pos = 1 + d.pad + Len(line)
      BY <1>2, <1>8, <3>1
    <3> QED BY <3>2
  <2> QED BY <1>6, <2>1, <2>2 DEF Redrawn
<1>10. /\ IsScreen(g) /\ g.pad = d.pad /\ g.shown \in Nat /\ g.back = 0 /\ g.start \in Int
  BY <1>2, <1>4, <1>6 DEF Redrawn
<1>11. d' = [g EXCEPT !.refresh = FALSE]
  BY <1>1, <1>3, <1>5
<1>12. n \in Nat
  BY <1>2, <1>8
<1>13. Over(d', n, d.pad)
  BY <1>2, <1>9, <1>10, <1>11, <1>12 DEF Over, IsScreen, Fields
<1> QED BY <1>1, <1>2, <1>8, <1>9, <1>13, DrawnOver

(* Before the program waits for input the cursor of the command mode is on *)
(* a character.                                                            *)
LEMMA WaitIs ==
  ASSUME IInv, Wait
  PROVE  Placed' /\ (mode = "command" /\ line # <<>> => Off(d') < End)
<1>1. done = "no" /\ done' = "no" /\ line' = line
  BY DEF Wait
<1>2. /\ Paired(line) /\ line \in Lines /\ Over(d, off, d.pad) /\ Edge(line, off)
      /\ End = Len(line) /\ End \in Nat
  BY <1>1, HereIs
<1>3. PICK g : g = Waiting(d, line, Name, visual)
  OBVIOUS
<1>4. PICK n \in {off, 0, Len(line)}, q \in Nat : Over(g, n, q)
  BY <1>2, <1>3, WaitingIs
<1>5. d' = OnLast(g)
  BY <1>3 DEF Wait
<1>6. /\ g.pos \in Nat \ {0} /\ g.pos = Prompt(g) + n /\ IsScreen(g) /\ Prompt(g) = 1 + q
      /\ n \in Nat /\ Off(g) = n
  BY <1>4, OverIs, ZenonT(40) DEF Over
<1>7. Edge(line, n) /\ n \in 0 .. End
  <2>1. Edge(line, n)
    BY <1>2, <1>4, Ends
  <2> QED BY <1>2, <2>1 DEF Edge
<1>8. CASE mode = "command" /\ line # <<>> /\ n = End
  <2>1. PICK w : w = WidthBack(End)
    OBVIOUS
  <2>2. End > 0
    BY <1>2, <1>8 DEF Lines
  <2>3. w \in {1, 2} /\ w <= End /\ Edge(line, End - w)
    <3>1. Edge(line, End)
      BY <1>7, <1>8
    <3> QED BY <1>2, <2>1, <2>2, <3>1, BackEdge
  <2>4. d' = MoveCursorBack(g, w)
    <3>1. g.pos = Prompt(g) + End
      BY <1>6, <1>8
    <3> QED BY <1>5, <1>8, <2>1, <3>1 DEF OnLast
  <2>5. Goes(d', g, g.pos - w)
    BY <1>6, <2>3, <2>4, BackIs
  <2>6. PICK o : o = End - w
    OBVIOUS
  <2>7. o \in Nat /\ g.pos - w = 1 + q + o /\ o < End
    BY <1>2, <1>4, <1>6, <1>8, <2>3, <2>6
  <2>8. Over(d', o, q)
    BY <1>4, <2>5, <2>7, OverGoes
  <2>9. Edge(line, o)
    BY <2>3, <2>6
  <2>10. Placed'
    BY <1>1, <1>2, <2>8, <2>9, DrawnOver
  <2>11. Off(d') = o
    BY <2>8, OverIs
  <2> QED BY <2>7, <2>10, <2>11
<1>9. CASE ~(mode = "command" /\ line # <<>> /\ n = End)
  <2>1. d' = g
    <3>1. n # End => g.pos # Prompt(g) + End
      BY <1>2, <1>6
    <3> QED BY <1>5, <1>9, <3>1 DEF OnLast
  <2>2. Placed'
    BY <1>1, <1>2, <1>4, <2>1, DrawnOver
  <2>3. mode = "command" /\ line # <<>> => Off(d') < End
    BY <1>2, <1>6, <1>7, <1>9, <2>1
  <2> QED BY <2>2, <2>3
<1> QED BY <1>8, <1>9

LEMMA TickIs ==
  ASSUME IInv, Tick
  PROVE  Placed'
<1>1. done = "no" /\ done' = "no" /\ line' = line
  BY DEF Tick
<1>2. Paired(line) /\ Over(d, off, d.pad) /\ Edge(line, off)
  BY <1>1, HereIs
<1>3. IsScreen(d) /\ off \in Nat /\ d.pos = 1 + d.pad + off
  BY <1>2 DEF Over
<1>4. Goes(d', d, d.pos)
  <2>1. CASE d' = PromptAgain(d)
    BY <1>3, <2>1, PromptAgainIs
  <2>2. CASE d' = [d EXCEPT !.bell = 1, !.needed = TRUE]
    <3>1. PICK e : e = [d EXCEPT !.bell = 1]
      OBVIOUS
    <3>2. Goes(e, d, d.pos)
      BY <1>3, <3>1, Aside
    <3>3. d' = [e EXCEPT !.needed = TRUE]
      BY <2>2, <3>1
    <3>4. IsScreen(e) /\ e.pos = d.pos
      BY <3>2 DEF Goes
    <3>5. Goes(d', e, e.pos)
      BY <3>3, <3>4, Aside
    <3> QED BY <3>2, <3>4, <3>5, GoesOn
  <2> QED BY <2>1, <2>2 DEF Tick
<1>5. Over(d', off, d.pad)
  BY <1>2, <1>3, <1>4, OverGoes
<1> QED BY <1>1, <1>2, <1>5, DrawnOver

(***************************************************************************)
(* The invariant.                                                          *)
(***************************************************************************)

(* After a key the cursor and the marked place are in the line.            *)
LEMMA TypedKeeps ==
  ASSUME Typed
  PROVE  Paired(line') /\ mode' \in Editing /\ Placed' /\ Marked'
<1>1. PICK o : Over(d', o, d.pad) /\ Edge(line', o)
  BY DEF Typed
<1>2. /\ Off(d') = o /\ d'.pad = d.pad /\ IsScreen(d') /\ d'.pad \in Nat /\ d'.shown \in Nat
      /\ d'.start \in Int /\ Stay(d') = d'.pos /\ d'.pos \in Nat
  BY <1>1, OverIs DEF Over
<1>3. Stay(d') - Prompt(d') = o
  BY <1>2 DEF Off
<1>4. Placed'
  BY <1>1, <1>2, <1>3 DEF Placed, off
<1> QED BY <1>4 DEF Typed, Marked

LEMMA KeptIs ==
  ASSUME IInv, Kept
  PROVE  Ringed' /\ pasted' = pasted /\ done' = done
BY DEF IInv, Kept, Ringed

LEMMA TypingIs ==
  ASSUME IInv, Careful, Typing, d' = Draw(d, drawn')
  PROVE  Typed /\ last' = "other" /\ Ringed' /\ pasted' = pasted /\ done' = done
<1>1. CASE \E c \in Chars : Insert(c) \/ Replace(c) \/ Find(c)
  <2>1. PICK c \in Chars : Insert(c) \/ Replace(c) \/ Find(c)
    BY <1>1
  <2>2. Typed /\ last' = "other"
    BY <2>1, InsertTyped, ReplaceTyped, FindTyped
  <2>3. Kept
    BY <2>1 DEF Insert, Replace, Find
  <2> QED BY <2>2, <2>3, KeptIs
<1>2. CASE Backspace \/ Delete
  <2>1. Typed /\ last' = "other"
    BY <1>2, BackspaceTyped, DeleteTyped
  <2>2. Kept
    BY <1>2 DEF Backspace, Delete
  <2> QED BY <2>1, <2>2, KeptIs
<1>3. CASE Move \/ MoveWord \/ MatchParen
  <2>1. Typed /\ last' = "other"
    BY <1>3, MoveTyped, MoveWordTyped, MatchParenTyped
  <2>2. Kept
    BY <1>3 DEF Move, MoveWord, MatchParen
  <2> QED BY <2>1, <2>2, KeptIs
<1>4. CASE CaseWord \/ FlipCase \/ Transpose \/ IncrDecr
  <2>1. Typed /\ last' = "other"
    BY <1>4, CaseWordTyped, FlipCaseTyped, TransposeTyped, IncrDecrTyped
  <2>2. Kept
    BY <1>4 DEF CaseWord, FlipCase, Transpose, IncrDecr
  <2> QED BY <2>1, <2>2, KeptIs
<1>5. CASE YankKey
  <2>1. Typed /\ last' = "other" /\ Ringed'
    BY <1>5, YankKeyIs
  <2>2. pasted' = pasted /\ done' = done
    BY <1>5 DEF YankKey
  <2> QED BY <2>1, <2>2
<1>6. CASE \E r \in Restored : Restore(r)
  <2>1. PICK r \in Restored : Restore(r)
    BY <1>6
  <2>2. Typed /\ last' = "other"
    BY <2>1, RestoreTyped
  <2>3. Kept
    BY <2>1 DEF Restore
  <2> QED BY <2>2, <2>3, KeptIs
<1>7. CASE InsertMode \/ ReplaceMode \/ ViMode \/ ViEsc \/ Visual
  <2>1. Typed /\ last' = "other"
    BY <1>7, InsertModeTyped, ReplaceModeTyped, ViModeTyped, ViEscTyped, VisualTyped
  <2>2. Kept
    BY <1>7 DEF InsertMode, ReplaceMode, ViMode, ViEsc, Visual
  <2> QED BY <2>1, <2>2, KeptIs
<1> QED BY <1>1, <1>2, <1>3, <1>4, <1>5, <1>6, <1>7 DEF Typing

(* Nothing is remembered of a kill.                                        *)
LEMMA Forgets ==
  ASSUME NEW base, Remember(-1, base)
  PROVE  Killed' /\ before'.base = IF last' = "paste" THEN base ELSE <<>>
BY DEF Remember, Killed

(* A key that pastes nothing.                                              *)
LEMMA OtherKeeps ==
  ASSUME IInv, Typed, last' = "other", Ringed', pasted' = pasted, done' = done, Killed'
  PROVE  IInv'
<1>1. Paired(line') /\ mode' \in Editing /\ Placed' /\ Marked'
  BY TypedKeeps
<1>2. PastedIn'
  BY DEF IInv, PastedIn
<1> QED BY <1>1, <1>2 DEF IInv

(* A key that pastes.                                                      *)
LEMMA PasteKeeps ==
  ASSUME IInv, NEW base, Typed, last' = "paste", Ringed', done' = done, done = "no",
         PastedOn(base), Remember(-1, base)
  PROVE  IInv'
<1>1. Paired(line') /\ mode' \in Editing /\ Placed' /\ Marked'
  BY TypedKeeps
<1>2. Killed' /\ before'.base = base
  BY Forgets
<1>3. PastedIn'
  BY <1>2 DEF PastedIn, PastedOn, End
<1> QED BY <1>1, <1>2, <1>3 DEF IInv

LEMMA KillKeyKeeps ==
  ASSUME IInv, Careful, KillKey, d' = Draw(d, drawn'), Remember(Off(d'), <<>>)
  PROVE  IInv'
<1>1. Typed /\ last' = "other" /\ Ringed' /\ Lost
  BY KillKeyIs
<1>2. pasted' = pasted /\ done' = done
  BY DEF KillKey
<1>3. Killed'
  <2>1. SUFFICES ASSUME before'.at >= 0, "killPopped" \notin Habits
                 PROVE  /\ Len(yank'.ring) > 0
                        /\ Inserted(line', before'.at, yank'.ring[Len(yank'.ring)]) = before'.line
    BY DEF Killed
  <2>2. line' # line
    BY <2>1 DEF Remember
  <2>3. before'.at = Off(d') /\ before'.line = line
    BY <2>1, <2>2 DEF Remember
  <2> QED BY <1>1, <2>1, <2>2, <2>3 DEF Lost
<1> QED BY <1>1, <1>2, <1>3, OtherKeeps

LEMMA EraseEolKeeps ==
  ASSUME IInv, Careful, EraseEol, d' = Draw(d, drawn'), Remember(off, <<>>)
  PROVE  IInv'
<1>1. /\ Typed /\ last' = "other" /\ Ringed'
      /\ line' # line /\ "killPopped" \notin Habits =>
           /\ Len(yank'.ring) > 0
           /\ Inserted(line', off, yank'.ring[Len(yank'.ring)]) = line
  BY EraseEolIsKill
<1>2. pasted' = pasted /\ done' = done
  BY DEF EraseEol
<1>3. Killed'
  <2>1. SUFFICES ASSUME before'.at >= 0, "killPopped" \notin Habits
                 PROVE  /\ Len(yank'.ring) > 0
                        /\ Inserted(line', before'.at, yank'.ring[Len(yank'.ring)]) = before'.line
    BY DEF Killed
  <2>2. line' # line
    BY <2>1 DEF Remember
  <2>3. before'.at = off /\ before'.line = line
    BY <2>1, <2>2 DEF Remember
  <2> QED BY <1>1, <2>1, <2>2, <2>3
<1> QED BY <1>1, <1>2, <1>3, OtherKeeps

LEMMA KeyKeeps ==
  ASSUME IInv, Careful, Key, d' = Draw(d, drawn')
  PROVE  IInv'
<1>1. CASE EraseEol /\ Remember(off, <<>>)
  BY <1>1, EraseEolKeeps
<1>2. CASE Paste /\ Remember(-1, IF yank.ring = <<>> THEN before.base ELSE line)
  <2>1. PICK base : base = IF yank.ring = <<>> THEN before.base ELSE line
    OBVIOUS
  <2>2. Typed /\ last' = "paste" /\ Ringed' /\ done' = done /\ PastedOn(base)
    BY <1>2, <2>1, PasteIs
  <2>3. done = "no"
    BY <1>2 DEF Paste, Pressed
  <2>4. Remember(-1, base)
    BY <1>2, <2>1
  <2> QED BY <2>2, <2>3, <2>4, PasteKeeps
<1>3. CASE (YankPop \/ YankArg) /\ Remember(-1, IF Again THEN before.base ELSE line)
  <2>1. PICK base : base = IF Again THEN before.base ELSE line
    OBVIOUS
  <2>2. Typed /\ last' = "paste" /\ Ringed' /\ done' = done /\ PastedOn(base)
    BY <1>3, <2>1, YankPopIs, YankArgIs
  <2>3. done = "no"
    BY <1>3 DEF YankPop, YankArg, Pressed
  <2>4. Remember(-1, base)
    BY <1>3, <2>1
  <2> QED BY <2>2, <2>3, <2>4, PasteKeeps
<1>4. CASE Typing /\ Remember(-1, before.base)
  <2>1. Typed /\ last' = "other" /\ Ringed' /\ pasted' = pasted /\ done' = done
    BY <1>4, TypingIs
  <2>2. Killed'
    BY <1>4, Forgets
  <2> QED BY <2>1, <2>2, OtherKeeps
<1> QED BY <1>1, <1>2, <1>3, <1>4 DEF Key

LEMMA DrawingKeeps ==
  ASSUME IInv, Drawing, Remember(-1, before.base)
  PROVE  IInv'
<1>1. Killed' /\ before'.base = IF last' = "paste" THEN before.base ELSE <<>>
  BY Forgets
<1>2. /\ Paired(line) /\ mode \in Editing /\ Placed /\ Marked /\ Ringed /\ PastedIn
  BY DEF IInv
<1>3. CASE Redraw \/ Show
  <2>1. Placed'
    BY <1>3, RedrawIs, ShowIs
  <2>2. /\ line' = line /\ mode' = mode /\ visual' = visual /\ voff' = voff
        /\ yank' = yank /\ pasted' = pasted /\ done' = done /\ last' = "other"
    BY <1>3 DEF Redraw, Show, InMode, modes, Kept
  <2>3. Marked' /\ Ringed' /\ PastedIn'
    BY <1>2, <2>2 DEF Marked, Ringed, PastedIn
  <2> QED BY <1>1, <1>2, <2>1, <2>2, <2>3 DEF IInv
<1>4. CASE Finish
  <2>1. /\ line' = line /\ done' = "exec" /\ last' = "other"
        /\ pasted' = [start |-> 0, size |-> 0]
        /\ yank' = [yank EXCEPT !.idx = IF yank.ring = <<>> THEN 0 ELSE Len(yank.ring) + 1]
        /\ SetMode(IF mode = "emacs" THEN "emacs" ELSE "insert")
    BY <1>4 DEF Finish
  <2>2. mode' \in Editing /\ visual' = FALSE
    BY <2>1 DEF SetMode, Editing
  <2>3. Placed' /\ Marked' /\ PastedIn'
    BY <2>1, <2>2 DEF Placed, Marked, PastedIn
  <2>4. Ringed'
    <3>1. PICK ring, o : ring = yank.ring /\ o = yank.off
      OBVIOUS
    <3>2. /\ yank \in [ring : Seq(Texts), off : Nat, idx : Nat] /\ ring \in Seq(Texts)
          /\ Len(ring) \in Nat /\ o \in Nat /\ o <= Len(ring)
      BY <1>2, <3>1 DEF Ringed
    <3>3. PICK x \in {0, Len(ring) + 1} : yank' = [ring |-> ring, off |-> o, idx |-> x]
      BY <2>1, <3>1, <3>2
    <3> QED BY <3>2, <3>3 DEF Ringed
  <2> QED BY <1>1, <1>2, <2>1, <2>2, <2>3, <2>4 DEF IInv
<1>5. CASE NextLine
  <2>1. Placed'
    BY <1>5, NextLineIs
  <2>2. /\ done = "exec" /\ line' = <<>> /\ done' = "no" /\ voff' = 0
        /\ mode' = mode /\ visual' = visual /\ yank' = yank /\ pasted' = pasted /\ last' = last
    BY <1>5 DEF NextLine
  <2>3. Paired(line') /\ Edge(line', 0)
    BY <2>2 DEF Paired, Lines, Edge
  <2>4. Marked' /\ Ringed' /\ PastedIn'
    BY <1>2, <2>2, <2>3 DEF Marked, Ringed, PastedIn
  <2> QED BY <1>1, <1>2, <2>1, <2>2, <2>3, <2>4 DEF IInv
<1>6. CASE Suspend
  <2>1. Placed'
    BY <1>6, SuspendIs
  <2>2. /\ done' = "away" /\ visual' = FALSE /\ last' = "other" /\ line' = line /\ mode' = mode
        /\ yank' = yank /\ pasted' = pasted
    BY <1>6 DEF Suspend
  <2>3. Marked' /\ Ringed' /\ PastedIn'
    BY <1>2, <2>2 DEF Marked, Ringed, PastedIn
  <2> QED BY <1>1, <1>2, <2>1, <2>2, <2>3 DEF IInv
<1>7. CASE ClearLine \/ Resume \/ Wait \/ Tick
  <2>1. Placed'
    BY <1>7, ClearLineIs, ResumeIs, WaitIs, TickIs
  <2>2. /\ line' = line /\ mode' = mode /\ visual' = visual /\ voff' = voff
        /\ yank' = yank /\ pasted' = pasted /\ last' = last /\ done' # "exec"
    BY <1>7 DEF ClearLine, Resume, Wait, Tick, modes
  <2>3. Marked' /\ Ringed'
    BY <1>2, <2>2 DEF Marked, Ringed
  <2>4. PastedIn'
    BY <1>1, <1>2, <2>2 DEF PastedIn, End
  <2> QED BY <1>1, <1>2, <2>1, <2>2, <2>3, <2>4 DEF IInv
<1> QED BY <1>3, <1>4, <1>5, <1>6, <1>7 DEF Drawing

LEMMA NextKeeps ==
  ASSUME IInv, Careful, [Next]_vars
  PROVE  IInv'
<1>1. CASE KillKey /\ d' = Draw(d, drawn') /\ Remember(Off(d'), <<>>)
  BY <1>1, KillKeyKeeps
<1>2. CASE Key /\ d' = Draw(d, drawn')
  BY <1>2, KeyKeeps
<1>3. CASE Drawing /\ drawn' = <<>> /\ Remember(-1, before.base)
  BY <1>3, DrawingKeeps
<1>4. CASE UNCHANGED vars
  <2>1. /\ line' = line /\ mode' = mode /\ visual' = visual /\ voff' = voff /\ d' = d
        /\ yank' = yank /\ pasted' = pasted /\ last' = last /\ done' = done /\ before' = before
    BY <1>4 DEF vars, modes
  <2>2. Placed' = Placed /\ Marked' = Marked /\ Ringed' = Ringed
    BY <2>1 DEF Placed, Marked, Ringed, off
  <2>3. PastedIn' = PastedIn /\ Killed' = Killed
    BY <2>1 DEF PastedIn, Killed, End
  <2> QED BY <2>1, <2>2, <2>3 DEF IInv
<1> QED BY <1>1, <1>2, <1>3, <1>4 DEF Next

LEMMA InitIs ==
  ASSUME Init
  PROVE  IInv
<1>1. PICK e : e = FreshScreen(Window)
  OBVIOUS
<1>2. /\ IsScreen(e) /\ e.pad = 0 /\ e.back = 0 /\ e.refresh = FALSE /\ e.shown = 0
      /\ e.start = 0
  BY <1>1 DEF FreshScreen, IsScreen, Fields
<1>3. d = OutputPrompt(e)
  BY <1>1 DEF Init
<1>4. Goes(d, e, Prompt(e))
  BY <1>2, <1>3, PromptIs
<1>5. Over(d, 0, 0)
  BY <1>2, <1>4 DEF Goes, Over, Prompt
<1>6. Off(d) = 0 /\ d.pad = 0
  BY <1>5, OverIs DEF Over
<1>7. Paired(line) /\ Edge(line, 0)
  BY DEF Init, Paired, Lines, Edge
<1>8. Placed
  BY <1>5, <1>6, <1>7 DEF Placed, Init, off
<1>9. mode \in Editing /\ Marked /\ Ringed /\ PastedIn
  BY DEF Init, Editing, Marked, Ringed, PastedIn
<1>10. Killed
  BY DEF Init, Nothing, Killed
<1> QED BY <1>7, <1>8, <1>9, <1>10 DEF IInv

(***************************************************************************)
(* The theorems.                                                           *)
(***************************************************************************)

(* However the keys, the drawing and the output of others follow each      *)
(* other, the invariant holds.                                             *)
LEMMA Invariant ==
  ASSUME Careful
  PROVE  Spec => []IInv
<1>1. Init => IInv
  BY InitIs
<1>2. IInv /\ [Next]_vars => IInv'
  BY NextKeeps
<1> QED BY <1>1, <1>2, PTL DEF Spec

(* State::dispatch moves the cursor by the widths of the characters next   *)
(* to it: in the edited line it is never between the two columns of a      *)
(* character, nor outside, and no column of a character is ever without    *)
(* the other, whatever is typed, deleted, swapped, killed and pasted.      *)
THEOREM CursorAtBoundary ==
  ASSUME Careful
  PROVE  Spec => []AtBoundary
<1>1. IInv => AtBoundary
  <2>1. SUFFICES ASSUME IInv PROVE AtBoundary
    OBVIOUS
  <2>2. Paired(line)
    BY <2>1 DEF IInv
  <2>3. \A i \in 1 .. End : line[i] = Half <=> i > 1 /\ line[i - 1] = Wide
    BY <2>2 DEF Paired, End
  <2>4. done = "no" => off \in 0 .. End /\ (off < End => Here(off) # Half)
    BY <2>1 DEF IInv, Placed, Edge, End, Here
  <2> QED BY <2>3, <2>4 DEF AtBoundary
<1>2. Spec => []IInv
  BY Invariant
<1> QED BY <1>1, <1>2, PTL

(* do_get_line, before it waits for input, leaves the cursor of the        *)
(* command mode on a character, also when it has drawn the whole line      *)
(* again, with another padding, to get there.                              *)
THEOREM CommandOnCharacter ==
  ASSUME Careful
  PROVE  Spec => OnCharacter
<1>1. IInv /\ [Next]_vars => [Wait /\ mode = "command" /\ line # <<>> => Off(d') < End]_vars
  BY WaitIs
<1>2. Spec => []IInv
  BY Invariant
<1> QED BY <1>1, <1>2, PTL DEF Spec, OnCharacter

(* YANK_POP and the yanks of arguments put their text in the place of what *)
(* was pasted just before, and of nothing else: without it, the line is    *)
(* the one that the first of them was pasted into.                         *)
THEOREM OnlyPastedIsReplaced ==
  ASSUME Careful
  PROVE  Spec => []PastedApart
<1>1. IInv => PastedApart
  BY DEF IInv, PastedIn, PastedApart
<1>2. Spec => []IInv
  BY Invariant
<1> QED BY <1>1, <1>2, PTL

(* What a kill takes away, add_yank keeps as the last text of the yank     *)
(* buffer, and a paste where it was brings the line back.                  *)
THEOREM KilledComesBack ==
  ASSUME Careful, "killPopped" \notin Habits
  PROVE  Spec => PasteRestores
<1>1. IInv /\ [Next]_vars =>
        [before.at >= 0 /\ Paste /\ pasted'.start = before.at => line' = before.line]_vars
  <2>1. SUFFICES ASSUME IInv, before.at >= 0, Paste, pasted'.start = before.at
                 PROVE  line' = before.line
    OBVIOUS
  <2>2. PICK n : n = Len(yank.ring)
    OBVIOUS
  <2>3. n > 0 /\ Inserted(line, before.at, yank.ring[n]) = before.line
    BY <2>1, <2>2 DEF IInv, Killed
  <2>4. n # 0
    BY <2>3
  <2>5. PICK i : /\ line' = Inserted(line, i, yank.ring[n])
                 /\ pasted' = [start |-> i, size |-> Len(yank.ring[n])]
    BY <2>1, <2>2, <2>4 DEF Paste
  <2>6. i = before.at
    BY <2>1, <2>5
  <2> QED BY <2>3, <2>5, <2>6
<1>2. Spec => []IInv
  BY Invariant
<1> QED BY <1>1, <1>2, PTL DEF Spec, PasteRestores
=============================================================================
