---------------------------- MODULE CodecProofs ----------------------------
(***************************************************************************)
(* The texts, proved for every value of up to three digits, every letter   *)
(* or digit the relay may write and any number of bytes it may replace:    *)
(* what is sent is read back, and what the relay leaves of it is taken for *)
(* one of the datagrams that Protocol has for it.                          *)
(***************************************************************************)
EXTENDS Codec, SequenceTheorems, WellFoundedInduction, TLAPS

-----------------------------------------------------------------------------
(* Induction and recursion over the numbers, for functions.                *)

LEMMA Minimum ==
    ASSUME NEW T \in SUBSET Nat, T # {}
    PROVE  \E m \in T : \A k \in T : m <= k
<1> DEFINE R == {ss \in Nat \X Nat : ss[1] < ss[2]}
<1>1. IsWellFoundedOn(R, Nat)
  BY NatLessThanWellFounded DEF OpToRel
<1>2. \A x, y \in T : x < y => <<x, y>> \in R
  OBVIOUS
<1> HIDE DEF R
<1>3. PICK m \in T : \A k \in T : ~ (<<k, m>> \in R)
  BY <1>1, WFMin
<1>4. \A k \in T : ~ (k < m)
  BY <1>2, <1>3
<1> QED
  BY <1>4

LEMMA Induction ==
    ASSUME NEW S \in SUBSET Nat, 0 \in S, \A n \in S : n + 1 \in S
    PROVE  \A n \in Nat : n \in S
<1> SUFFICES ASSUME Nat \ S # {} PROVE FALSE
  OBVIOUS
<1>1. PICK m \in Nat \ S : \A k \in Nat \ S : m <= k
  BY Minimum
<1>2. m # 0 /\ m - 1 \in Nat
  OBVIOUS
<1>3. m - 1 \in S
  BY <1>1, <1>2
<1> QED
  BY <1>2, <1>3

\* What is at V[i - 1] at i - 1 goes on to what is at V[i] at i, all in W.
GoesOn(n, W, V, base, step) ==
    /\ n \in Nat
    /\ V \in [0 .. n -> SUBSET W]
    /\ base \in V[0]
    /\ \A i \in 1 .. n : \A v \in V[i - 1] : step[i][v] \in V[i]

Recursive(n, W, V, base, step, f) ==
    /\ f \in [0 .. n -> W]
    /\ f[0] = base
    /\ \A i \in 1 .. n : f[i] = step[i][f[i - 1]]
    /\ \A i \in 0 .. n : f[i] \in V[i]

(* A function over 0..n is well defined by where it starts and how it goes *)
(* on.                                                                     *)
LEMMA Recursion ==
    ASSUME NEW n, NEW W, NEW V, NEW base, NEW step, GoesOn(n, W, V, base, step)
    PROVE  \E f : Recursive(n, W, V, base, step, f)
<1> USE DEF GoesOn
<1> DEFINE Good(f, k) == /\ f[0] = base
                         /\ \A i \in 1 .. k : f[i] = step[i][f[i - 1]]
                         /\ \A i \in 0 .. k : f[i] \in V[i]
           S == {k \in Nat : k <= n => \E f \in [0 .. k -> W] : Good(f, k)}
<1>1. \E f \in [0 .. 0 -> W] : Good(f, 0)
  <2> DEFINE f == [i \in 0 .. 0 |-> base]
  <2>1. f \in [0 .. 0 -> W] /\ Good(f, 0)
    OBVIOUS
  <2> QED
    BY <2>1
<1>2. ASSUME NEW k \in Nat, k + 1 <= n, NEW f \in [0 .. k -> W], Good(f, k)
      PROVE  \E g \in [0 .. k + 1 -> W] : Good(g, k + 1)
  <2> DEFINE g == [i \in 0 .. k + 1 |-> IF i = k + 1 THEN step[k + 1][f[k]] ELSE f[i]]
  <2>1. step[k + 1][f[k]] \in V[k + 1]
    BY <1>2
  <2>2. \A i \in 0 .. k : g[i] = f[i]
    OBVIOUS
  <2>3. g[k + 1] = step[k + 1][f[k]]
    OBVIOUS
  <2>4. g \in [0 .. k + 1 -> W]
    <3>1. V[k + 1] \subseteq W
      BY <1>2
    <3> QED
      BY <1>2, <2>1, <3>1
  <2> HIDE DEF g
  <2>5. \A i \in 0 .. k + 1 : i \in 0 .. k \/ i = k + 1
    OBVIOUS
  <2>6. \A i \in 0 .. k + 1 : g[i] \in V[i]
    BY <1>2, <2>1, <2>2, <2>3, <2>5
  <2>7. \A i \in 1 .. k + 1 : g[i] = step[i][g[i - 1]]
    <3> TAKE i \in 1 .. k + 1
    <3>1. i - 1 \in 0 .. k /\ (i \in 1 .. k \/ i = k + 1)
      OBVIOUS
    <3>2. CASE i \in 1 .. k
      <4>1. g[i] = f[i] /\ g[i - 1] = f[i - 1]
        BY <2>2, <3>1, <3>2
      <4> QED
        BY <1>2, <3>2, <4>1
    <3>3. CASE i = k + 1
      <4>1. g[i - 1] = f[k]
        BY <2>2, <3>3
      <4> QED
        BY <2>3, <3>3, <4>1
    <3> QED
      BY <3>1, <3>2, <3>3
  <2>8. g[0] = base
    BY <1>2, <2>2
  <2>9. Good(g, k + 1)
    BY <2>6, <2>7, <2>8
  <2> QED
    BY <2>4, <2>9
<1> HIDE DEF Good
<1>3. 0 \in S
  BY <1>1
<1>4. \A k \in S : k + 1 \in S
  BY <1>2
<1> HIDE DEF S
<1>5. n \in S
  BY <1>3, <1>4, Induction DEF S
<1>6. \E f \in [0 .. n -> W] : Good(f, n)
  BY <1>5 DEF S
<1> QED
  BY <1>6 DEF Good, Recursive

-----------------------------------------------------------------------------
(* The distance. *)

\* It is not the least of the three, but the largest.
LEMMA LargestOf ==
    ASSUME NEW a \in Nat, NEW b \in Nat, NEW c \in Nat
    PROVE  /\ min(a, b, c) \in Nat
           /\ a <= min(a, b, c) /\ b <= min(a, b, c) /\ c <= min(a, b, c)
BY DEF min

Rows(m) == [1 .. m + 1 -> Nat]

LEMMA LongerRow ==
    ASSUME NEW l \in Nat, NEW row \in Rows(l), NEW x \in Nat
    PROVE  /\ Append(row, x) \in Rows(l + 1)
           /\ \A i \in 1 .. l + 1 : Append(row, x)[i] = row[i]
           /\ Append(row, x)[l + 2] = x
<1>1. row \in Seq(Nat) /\ Len(row) = l + 1
  BY DEF Rows
<1>2. /\ Append(row, x) \in Seq(Nat)
      /\ Len(Append(row, x)) = l + 2
      /\ \A i \in 1 .. l + 1 : Append(row, x)[i] = row[i]
      /\ Append(row, x)[l + 2] = x
  BY <1>1, AppendProperties
<1>3. Append(row, x) \in [1 .. l + 2 -> Nat]
  BY <1>2, LenProperties
<1> QED
  BY <1>2, <1>3 DEF Rows

LEMMA NextRowIs ==
    ASSUME NEW C, NEW str_2 \in Seq(C), NEW c, NEW row \in Rows(Len(str_2))
    PROVE  LET m    == Len(str_2)
               next == NextRow(c, str_2, row)
           IN  /\ next \in Rows(m)
               /\ next[1] = row[1] + 1
               /\ \A l \in 1 .. m :
                      next[l + 1] = IF c = str_2[m + 1 - l]
                                    THEN row[l]
                                    ELSE min(row[l + 1], next[l], row[l])
<1> DEFINE m == Len(str_2)
           Cell(l, shorter) == IF c = str_2[m + 1 - l]
                               THEN row[l]
                               ELSE min(row[l + 1], shorter[l], row[l])
           base == <<row[1] + 1>>
           V    == [l \in 0 .. m |-> Rows(l)]
           step == [l \in 1 .. m |-> [shorter \in Rows(l - 1) |->
                                          Append(shorter, Cell(l, shorter))]]
           cells[l \in 0 .. m] ==
               IF l = 0
               THEN <<row[1] + 1>>
               ELSE LET shorter == cells[l - 1]
                    IN  Append(shorter, IF c = str_2[m + 1 - l]
                                        THEN row[l]
                                        ELSE min(row[l + 1], shorter[l], row[l]))
<1>1. NextRow(c, str_2, row) = cells[m]
  BY DEF NextRow
<1>2. m \in Nat /\ \A l \in 1 .. m + 1 : row[l] \in Nat
  BY DEF Rows
<1>3. V \in [0 .. m -> SUBSET Seq(Nat)] /\ base \in V[0]
  <2>1. \A l \in 0 .. m : Rows(l) \subseteq Seq(Nat)
    <3> TAKE l \in 0 .. m
    <3>1. \A r \in [1 .. l + 1 -> Nat] : r \in Seq(Nat)
      BY <1>2
    <3> QED
      BY <3>1 DEF Rows
  <2>2. V \in [0 .. m -> SUBSET Seq(Nat)]
    BY <2>1
  <2>3. V[0] = [1 .. 1 -> Nat]
    BY <1>2 DEF Rows
  <2>4. base \in [1 .. 1 -> Nat]
    BY <1>2
  <2> QED
    BY <2>2, <2>3, <2>4
<1>4. ASSUME NEW l \in 1 .. m, NEW shorter \in Rows(l - 1)
      PROVE  Cell(l, shorter) \in Nat /\ Append(shorter, Cell(l, shorter)) \in Rows(l)
  <2>1. shorter[l] \in Nat /\ row[l] \in Nat /\ row[l + 1] \in Nat
    BY <1>2, <1>4 DEF Rows
  <2>2. Cell(l, shorter) \in Nat
    BY <2>1, LargestOf
  <2> HIDE DEF Cell
  <2>3. l - 1 \in Nat /\ (l - 1) + 1 = l
    BY <1>2
  <2> QED
    BY <2>2, <2>3, LongerRow
<1>5. \A l \in 1 .. m : \A shorter \in V[l - 1] :
          step[l][shorter] = Append(shorter, Cell(l, shorter)) /\ step[l][shorter] \in V[l]
  <2> TAKE l \in 1 .. m
  <2>1. V[l - 1] = Rows(l - 1) /\ V[l] = Rows(l)
    BY <1>2
  <2> HIDE DEF V, Cell
  <2> QED
    BY <1>4, <2>1
<1>6. m \in Nat /\ NextRow(c, str_2, row) = cells[m]
  BY <1>1, <1>2
<1>7. cells = CHOOSE g : g = [l \in 0 .. m |-> IF l = 0 THEN base
                                     ELSE Append(g[l - 1], Cell(l, g[l - 1]))]
  OBVIOUS
<1>0. base[1] = row[1] + 1
  OBVIOUS
<1> HIDE DEF V, step, Cell, m, cells, base
<1>8. PICK f : Recursive(m, Seq(Nat), V, base, step, f)
  <2>1. GoesOn(m, Seq(Nat), V, base, step)
    BY <1>3, <1>5, <1>6 DEF GoesOn
  <2> QED
    BY <2>1, Recursion
<1>9. \A l \in 1 .. m : f[l] = Append(f[l - 1], Cell(l, f[l - 1]))
  <2> TAKE l \in 1 .. m
  <2>1. f[l - 1] \in V[l - 1]
    BY <1>6, <1>8 DEF Recursive
  <2> QED
    BY <1>5, <1>8, <2>1 DEF Recursive
<1>10. f = [l \in 0 .. m |-> IF l = 0 THEN base
                                      ELSE Append(f[l - 1], Cell(l, f[l - 1]))]
  <2>1. \A l \in 0 .. m : f[l] = IF l = 0 THEN base
                                      ELSE Append(f[l - 1], Cell(l, f[l - 1]))
    <3> TAKE l \in 0 .. m
    <3>1. CASE l = 0
      BY <1>8, <3>1 DEF Recursive
    <3>2. CASE l # 0
      <4>1. l \in 1 .. m
        BY <1>6, <3>2
      <4> QED
        BY <1>9, <3>2, <4>1
    <3> QED
      BY <3>1, <3>2
  <2> QED
    BY <1>8, <2>1 DEF Recursive
<1>11. cells = [l \in 0 .. m |-> IF l = 0 THEN base
                                      ELSE Append(cells[l - 1], Cell(l, cells[l - 1]))]
  BY <1>7, <1>10
<1>12. cells[0] = base
  BY <1>6, <1>11
<1>13. \A l \in 1 .. m : cells[l] = Append(cells[l - 1], Cell(l, cells[l - 1]))
  <2> TAKE l \in 1 .. m
  <2>1. l \in 0 .. m /\ l # 0
    BY <1>6
  <2> QED
    BY <1>11, <2>1
<1>14. \A l \in 1 .. m : \A r, r2 : r[l] = r2[l] => Cell(l, r) = Cell(l, r2)
  BY DEF Cell
\* A cell stays where it is when others are added.
<1> DEFINE Q(k) == /\ cells[k] \in Rows(k)
                   /\ cells[k][1] = row[1] + 1
                   /\ \A l \in 1 .. k : cells[k][l + 1] = Cell(l, cells[k])
           S == {k \in Nat : k <= m => Q(k)}
<1>15. Q(0)
  <2>1. base \in Rows(0)
    BY <1>2 DEF Rows, base
  <2> QED
    BY <1>0, <1>12, <2>1
<1>16. ASSUME NEW k \in Nat, k + 1 <= m, Q(k)
       PROVE  Q(k + 1)
  <2>1. cells[k + 1] = Append(cells[k], Cell(k + 1, cells[k]))
    BY <1>6, <1>13, <1>16
  <2>2. Cell(k + 1, cells[k]) \in Nat
    BY <1>4, <1>6, <1>16
  <2>3. /\ cells[k + 1] \in Rows(k + 1)
        /\ \A i \in 1 .. k + 1 : cells[k + 1][i] = cells[k][i]
        /\ cells[k + 1][k + 2] = Cell(k + 1, cells[k])
    <3>1. cells[k] \in Rows(k)
      BY <1>16
    <3> HIDE <1>16
    <3> DEFINE r == cells[k]
               x == Cell(k + 1, cells[k])
    <3>2. r \in Rows(k) /\ x \in Nat /\ cells[k + 1] = Append(r, x)
      BY <2>1, <2>2, <3>1
    <3> HIDE DEF r, x
    <3>3. /\ Append(r, x) \in Rows(k + 1)
          /\ \A i \in 1 .. k + 1 : Append(r, x)[i] = r[i]
          /\ Append(r, x)[k + 2] = x
      BY <3>2, LongerRow
    <3> QED
      BY <3>2, <3>3 DEF r, x
  <2>4. ASSUME NEW l \in 1 .. k + 1
        PROVE  cells[k + 1][l + 1] = Cell(l, cells[k + 1])
    <3>1. Cell(l, cells[k + 1]) = Cell(l, cells[k])
      BY <1>6, <1>14, <1>16, <2>3
    <3>2. CASE l = k + 1
      BY <1>16, <2>3, <3>1, <3>2
    <3>3. CASE l # k + 1
      <4>1. l \in 1 .. k /\ l + 1 \in 1 .. k + 1
        BY <1>16, <3>3
      <4> QED
        BY <1>16, <2>3, <3>1, <4>1
    <3> QED
      BY <3>2, <3>3
  <2> QED
    BY <1>16, <2>3, <2>4
<1> HIDE DEF Q
<1>17. 0 \in S
  BY <1>15
<1>18. \A k \in S : k + 1 \in S
  BY <1>6, <1>16
<1> HIDE DEF S
<1>19. m \in S
  BY <1>6, <1>17, <1>18, Induction DEF S
<1>20. Q(m)
  BY <1>6, <1>19 DEF S
<1> QED
  BY <1>6, <1>20 DEF Q, Cell, m

\* The rows, from that of the empty end of str_1.
LEMMA DistanceRows ==
    ASSUME NEW C, NEW str_1 \in Seq(C), NEW str_2 \in Seq(C)
    PROVE  LET n == Len(str_1)
               m == Len(str_2)
           IN  \E rows : /\ \A k \in 0 .. n : rows[k] \in Rows(m)
                         /\ \A l \in 0 .. m : rows[0][l + 1] = l
                         /\ \A k \in 1 .. n :
                                rows[k] = NextRow(str_1[n + 1 - k], str_2, rows[k - 1])
                         /\ LevenshteinDistance(str_1, str_2) = rows[n][m + 1]
<1> DEFINE n == Len(str_1)
           m == Len(str_2)
           base == [j \in 1 .. m + 1 |-> j - 1]
           Next1(k, row) == NextRow(str_1[n + 1 - k], str_2, row)
           V    == [k \in 0 .. n |-> Rows(m)]
           step == [k \in 1 .. n |-> [row \in Rows(m) |-> Next1(k, row)]]
           rows[k \in 0 .. n] ==
               IF k = 0
               THEN [j \in 1 .. Len(str_2) + 1 |-> j - 1]
               ELSE NextRow(str_1[Len(str_1) + 1 - k], str_2, rows[k - 1])
<1>1. LevenshteinDistance(str_1, str_2) = rows[n][m + 1]
  BY DEF LevenshteinDistance
<1>2. n \in Nat /\ m \in Nat
  OBVIOUS
<1>3. base \in Rows(m) /\ \A l \in 0 .. m : base[l + 1] = l
  BY <1>2 DEF Rows
<1>4. \A k \in 1 .. n, row \in Rows(m) : Next1(k, row) \in Rows(m)
  BY NextRowIs
<1>5. V \in [0 .. n -> SUBSET Rows(m)] /\ \A k \in 0 .. n : V[k] = Rows(m)
  OBVIOUS
<1> HIDE DEF Next1
<1>6. \A k \in 1 .. n, row \in Rows(m) : step[k][row] = Next1(k, row)
  OBVIOUS
<1>7. rows = CHOOSE g : g = [k \in 0 .. n |-> IF k = 0 THEN base ELSE Next1(k, g[k - 1])]
  BY DEF Next1
<1>8. n \in Nat /\ m \in Nat /\ LevenshteinDistance(str_1, str_2) = rows[n][m + 1]
  BY <1>1, <1>2
<1> HIDE DEF n, m, base, V, step, rows
<1>9. PICK f : Recursive(n, Rows(m), V, base, step, f)
  <2>1. GoesOn(n, Rows(m), V, base, step)
    <3>1. \A k \in 1 .. n : \A row \in V[k - 1] : step[k][row] \in V[k]
      BY <1>4, <1>5, <1>6, <1>8
    <3> QED
      BY <1>3, <1>5, <1>8, <3>1 DEF GoesOn
  <2> QED
    BY <2>1, Recursion
<1>10. f = [k \in 0 .. n |-> IF k = 0 THEN base ELSE Next1(k, f[k - 1])]
  <2>1. \A k \in 0 .. n : f[k] = IF k = 0 THEN base ELSE Next1(k, f[k - 1])
    <3> TAKE k \in 0 .. n
    <3>1. CASE k = 0
      BY <1>9, <3>1 DEF Recursive
    <3>2. CASE k # 0
      <4>1. k \in 1 .. n /\ k - 1 \in 0 .. n
        BY <1>8, <3>2
      <4>2. f[k - 1] \in Rows(m)
        BY <1>5, <1>9, <4>1 DEF Recursive
      <4> QED
        BY <1>6, <1>9, <3>2, <4>1, <4>2 DEF Recursive
    <3> QED
      BY <3>1, <3>2
  <2> QED
    BY <1>9, <2>1 DEF Recursive
<1>11. rows = [k \in 0 .. n |-> IF k = 0 THEN base ELSE Next1(k, rows[k - 1])]
  BY <1>7, <1>10
<1>12. rows[0] = base
  BY <1>8, <1>11
<1>13. \A k \in 1 .. n : rows[k] = Next1(k, rows[k - 1])
  <2> TAKE k \in 1 .. n
  <2>1. k \in 0 .. n /\ k # 0
    BY <1>8
  <2> QED
    BY <1>11, <2>1
<1> DEFINE S == {k \in Nat : k <= n => rows[k] \in Rows(m)}
<1>14. 0 \in S
  BY <1>3, <1>12
<1>15. \A k \in S : k + 1 \in S
  <2> SUFFICES ASSUME NEW k \in Nat, k + 1 <= n, rows[k] \in Rows(m)
               PROVE  rows[k + 1] \in Rows(m)
    BY <1>8
  <2>1. k + 1 \in 1 .. n /\ (k + 1) - 1 = k
    BY <1>8
  <2> QED
    BY <1>4, <1>13, <2>1
<1> HIDE DEF S
<1>16. \A k \in 0 .. n : rows[k] \in Rows(m)
  <2>1. S \in SUBSET Nat
    BY DEF S
  <2>2. \A k \in Nat : k \in S
    BY <1>14, <1>15, <2>1, Induction
  <2> QED
    BY <1>8, <2>2 DEF S
<1> QED
  BY <1>3, <1>8, <1>12, <1>13, <1>16 DEF Next1, n, m

(* D[k][l + 1] is the distance of the last k characters of a from the last *)
(* l of b.                                                                 *)
DistanceTable(D, a, b) ==
    LET n == Len(a)
        m == Len(b)
    IN  /\ \A k \in 0 .. n, l \in 0 .. m : D[k][l + 1] \in Nat
        /\ \A l \in 0 .. m : D[0][l + 1] = l
        /\ \A k \in 0 .. n : D[k][1] = k
        /\ \A k \in 1 .. n, l \in 1 .. m :
               IF a[n + 1 - k] = b[m + 1 - l]
               THEN D[k][l + 1] = D[k - 1][l]
               ELSE /\ D[k - 1][l + 1] <= D[k][l + 1]
                    /\ D[k][l] <= D[k][l + 1]
        /\ LevenshteinDistance(a, b) = D[n][m + 1]

LEMMA Distances ==
    ASSUME NEW C, NEW a \in Seq(C), NEW b \in Seq(C)
    PROVE  \E D : DistanceTable(D, a, b)
<1> DEFINE n == Len(a)
           m == Len(b)
<1>1. PICK D : /\ \A k \in 0 .. n : D[k] \in Rows(m)
               /\ \A l \in 0 .. m : D[0][l + 1] = l
               /\ \A k \in 1 .. n : D[k] = NextRow(a[n + 1 - k], b, D[k - 1])
               /\ LevenshteinDistance(a, b) = D[n][m + 1]
  BY DistanceRows
<1>2. n \in Nat /\ m \in Nat
  OBVIOUS
<1>3. ASSUME NEW k \in 1 .. n
      PROVE  /\ D[k][1] = D[k - 1][1] + 1
             /\ \A l \in 1 .. m :
                    D[k][l + 1] = IF a[n + 1 - k] = b[m + 1 - l]
                                  THEN D[k - 1][l]
                                  ELSE min(D[k - 1][l + 1], D[k][l], D[k - 1][l])
  <2> DEFINE row == D[k - 1]
             c   == a[n + 1 - k]
  <2>1. row \in Rows(Len(b)) /\ D[k] = NextRow(c, b, row)
    BY <1>1, <1>2
  <2> HIDE DEF row, c
  <2>2. /\ NextRow(c, b, row)[1] = row[1] + 1
        /\ \A l \in 1 .. m :
               NextRow(c, b, row)[l + 1] = IF c = b[m + 1 - l]
                                           THEN row[l]
                                           ELSE min(row[l + 1], NextRow(c, b, row)[l], row[l])
    BY <2>1, NextRowIs
  <2> QED
    BY <2>1, <2>2 DEF row, c
<1>4. \A k \in 0 .. n, l \in 0 .. m : D[k][l + 1] \in Nat
  <2> TAKE k \in 0 .. n, l \in 0 .. m
  <2>1. D[k] \in [1 .. m + 1 -> Nat] /\ l + 1 \in 1 .. m + 1
    BY <1>1, <1>2 DEF Rows
  <2> QED
    BY <2>1
<1>5. \A k \in 0 .. n : D[k][1] = k
  <2> DEFINE S == {k \in Nat : k <= n => D[k][1] = k}
  <2>1. 0 \in S
    BY <1>1, <1>2
  <2>2. \A k \in S : k + 1 \in S
    BY <1>2, <1>3
  <2>3. S \in SUBSET Nat
    OBVIOUS
  <2> HIDE DEF S
  <2>4. \A k \in Nat : k \in S
    BY <2>1, <2>2, <2>3, Induction
  <2> QED
    BY <1>2, <2>4 DEF S
<1>6. ASSUME NEW k \in 1 .. n, NEW l \in 1 .. m
      PROVE  IF a[n + 1 - k] = b[m + 1 - l]
             THEN D[k][l + 1] = D[k - 1][l]
             ELSE D[k - 1][l + 1] <= D[k][l + 1] /\ D[k][l] <= D[k][l + 1]
  <2>1. CASE a[n + 1 - k] = b[m + 1 - l]
    BY <1>3, <2>1
  <2>2. CASE a[n + 1 - k] # b[m + 1 - l]
    <3>1. D[k - 1][l + 1] \in Nat /\ D[k][l] \in Nat /\ D[k - 1][l] \in Nat
      <4>1. k - 1 \in 0 .. n /\ k \in 0 .. n /\ l \in 0 .. m /\ l - 1 \in 0 .. m
            /\ (l - 1) + 1 = l
        BY <1>2
      <4> QED
        BY <1>4, <4>1
    <3>2. D[k][l + 1] = min(D[k - 1][l + 1], D[k][l], D[k - 1][l])
      BY <1>3, <2>2
    <3> QED
      BY <2>2, <3>1, <3>2, LargestOf
  <2> QED
    BY <2>1, <2>2
<1> HIDE DEF n, m
<1>7. DistanceTable(D, a, b)
  BY <1>1, <1>4, <1>5, <1>6 DEF DistanceTable, n, m
<1> QED
  BY <1>7

-----------------------------------------------------------------------------
(* Resemblance. *)

(* The characters from..to of b are found in a, in their order, from start *)
(* on; e tells where.                                                      *)
FoundFrom(e, start, a, from, to, b) ==
    /\ \A i \in from .. to : e[i] \in start .. Len(a) /\ a[e[i]] = b[i]
    /\ \A i, j \in from .. to : i < j => e[i] < e[j]

(* Two texts at most t apart agree, in the order of their characters, up   *)
(* to the last t of them.                                                  *)
LEMMA Agree ==
    ASSUME NEW C, NEW a \in Seq(C), NEW b \in Seq(C), NEW t \in Nat,
           LevenshteinDistance(a, b) <= t
    PROVE  /\ \E e : FoundFrom(e, 1, a, 1, Len(b) - t, b)
           /\ \E e : FoundFrom(e, 1, b, 1, Len(a) - t, a)
<1> DEFINE n == Len(a)
           m == Len(b)
<1>1. PICK D : DistanceTable(D, a, b)
  BY Distances
<1>2. n \in Nat /\ m \in Nat /\ n = Len(a) /\ m = Len(b)
  OBVIOUS
<1>3. /\ \A k \in 0 .. n, l \in 0 .. m : D[k][l + 1] \in Nat
      /\ \A l \in 0 .. m : D[0][l + 1] = l
      /\ \A k \in 0 .. n : D[k][1] = k
      /\ D[n][m + 1] <= t
  BY <1>1 DEF DistanceTable
<1>4. ASSUME NEW k \in 1 .. n, NEW l \in 1 .. m, D[k][l + 1] <= t
      PROVE  \/ a[n + 1 - k] = b[m + 1 - l] /\ D[k - 1][l] <= t
             \/ D[k - 1][l + 1] <= t /\ D[k][l] <= t
  <2>1. IF a[n + 1 - k] = b[m + 1 - l]
        THEN D[k][l + 1] = D[k - 1][l]
        ELSE D[k - 1][l + 1] <= D[k][l + 1] /\ D[k][l] <= D[k][l + 1]
    BY <1>1 DEF DistanceTable
  <2>2. D[k][l + 1] \in Nat /\ D[k - 1][l + 1] \in Nat /\ D[k][l] \in Nat
    <3>1. k - 1 \in 0 .. n /\ k \in 0 .. n /\ l \in 0 .. m /\ l - 1 \in 0 .. m
          /\ (l - 1) + 1 = l
      BY <1>2
    <3> QED
      BY <1>3, <3>1
  <2>3. CASE a[n + 1 - k] = b[m + 1 - l]
    BY <1>4, <2>1, <2>3
  <2>4. CASE a[n + 1 - k] # b[m + 1 - l]
    <3> DEFINE x == D[k][l + 1]
               y == D[k - 1][l + 1]
               z == D[k][l]
    <3>1. x <= t /\ y <= x /\ z <= x /\ x \in Nat /\ y \in Nat /\ z \in Nat
      BY <1>4, <2>1, <2>2, <2>4
    <3> HIDE DEF x, y, z
    <3>2. y <= t /\ z <= t
      BY <3>1
    <3> QED
      BY <3>2 DEF y, z
  <2> QED
    BY <2>3, <2>4
<1> HIDE DEF n, m
<1>5. \E e : FoundFrom(e, 1, a, 1, m - t, b)
  <2> DEFINE P(k) == \A l \in 0 .. m : D[k][l + 1] <= t =>
                         \E e : FoundFrom(e, n + 1 - k, a, m + 1 - l, m - t, b)
             S    == {k \in Nat : k <= n => P(k)}
  <2>1. P(0)
    <3> TAKE l \in 0 .. m
    <3> HAVE D[0][l + 1] <= t
    <3>1. l <= t
      BY <1>3
    <3>2. (m + 1 - l) .. (m - t) = {}
      BY <1>2, <3>1
    <3> QED
      BY <3>2 DEF FoundFrom
  <2>2. ASSUME NEW k \in Nat, k + 1 <= n, P(k)
        PROVE  P(k + 1)
    <3> TAKE l \in 0 .. m
    <3> HAVE D[k + 1][l + 1] <= t
    <3>1. CASE l = 0
      <4>1. (m + 1 - l) .. (m - t) = {}
        BY <1>2, <3>1
      <4> QED
        BY <4>1 DEF FoundFrom
    <3>2. CASE l # 0 /\ a[n - k] = b[m + 1 - l] /\ D[k][l] <= t
      <4>1. l - 1 \in 0 .. m /\ (l - 1) + 1 = l /\ m + 1 - (l - 1) = m + 2 - l
        BY <1>2, <3>2
      <4>2. PICK f : FoundFrom(f, n + 1 - k, a, m + 2 - l, m - t, b)
        BY <2>2, <3>2, <4>1
      <4> DEFINE e == [i \in (m + 1 - l) .. (m - t) |->
                           IF i = m + 1 - l THEN n - k ELSE f[i]]
      <4>3. FoundFrom(e, n - k, a, m + 1 - l, m - t, b)
        <5>1. \A i \in (m + 1 - l) .. (m - t) :
                  \/ i = m + 1 - l /\ e[i] = n - k
                  \/ i \in (m + 2 - l) .. (m - t) /\ e[i] = f[i]
          <6> TAKE i \in (m + 1 - l) .. (m - t)
          <6>1. e[i] = IF i = m + 1 - l THEN n - k ELSE f[i]
            OBVIOUS
          <6> HIDE DEF e
          <6>2. i # m + 1 - l => i \in (m + 2 - l) .. (m - t)
            BY <1>2
          <6> QED
            BY <6>1, <6>2
        <5> HIDE DEF e
        <5>2. n - k \in 1 .. n
          BY <1>2, <2>2
        <5>3. \A i \in (m + 2 - l) .. (m - t) :
                  f[i] \in (n + 1 - k) .. n /\ a[f[i]] = b[i]
          BY <1>2, <4>2 DEF FoundFrom
        <5>4. \A i \in (m + 1 - l) .. (m - t) : e[i] \in (n - k) .. n /\ a[e[i]] = b[i]
          <6> TAKE i \in (m + 1 - l) .. (m - t)
          <6>1. CASE i = m + 1 - l /\ e[i] = n - k
            BY <1>2, <3>2, <5>2, <6>1
          <6>2. CASE i \in (m + 2 - l) .. (m - t) /\ e[i] = f[i]
            <7>1. e[i] \in (n + 1 - k) .. n /\ a[e[i]] = b[i]
              BY <5>3, <6>2
            <7> QED
              BY <1>2, <2>2, <7>1
          <6> QED
            BY <5>1, <6>1, <6>2
        <5>5. \A i, j \in (m + 1 - l) .. (m - t) : i < j => e[i] < e[j]
          <6> SUFFICES ASSUME NEW i \in (m + 1 - l) .. (m - t),
                              NEW j \in (m + 1 - l) .. (m - t), i < j
                       PROVE  e[i] < e[j]
            OBVIOUS
          <6>1. j \in (m + 2 - l) .. (m - t) /\ e[j] = f[j]
            BY <1>2, <5>1
          <6>2. CASE i = m + 1 - l /\ e[i] = n - k
            BY <1>2, <2>2, <5>3, <6>1, <6>2
          <6>3. CASE i \in (m + 2 - l) .. (m - t) /\ e[i] = f[i]
            BY <4>2, <6>1, <6>3 DEF FoundFrom
          <6> QED
            BY <5>1, <6>2, <6>3
        <5> QED
          BY <1>2, <5>4, <5>5 DEF FoundFrom
      <4>4. n + 1 - (k + 1) = n - k
        BY <1>2, <2>2
      <4> QED
        BY <4>3, <4>4
    <3>3. CASE D[k][l + 1] <= t
      <4>1. PICK e : FoundFrom(e, n + 1 - k, a, m + 1 - l, m - t, b)
        BY <2>2, <3>3
      <4>2. FoundFrom(e, n + 1 - (k + 1), a, m + 1 - l, m - t, b)
        <5>1. (n + 1 - k) .. n \subseteq (n + 1 - (k + 1)) .. n
          BY <1>2, <2>2
        <5> QED
          BY <1>2, <4>1, <5>1 DEF FoundFrom
      <4> QED
        BY <4>2
    <3> QED
      <4>1. CASE l # 0
        <5>1. k + 1 \in 1 .. n /\ l \in 1 .. m /\ (k + 1) - 1 = k /\ n + 1 - (k + 1) = n - k
          BY <1>2, <2>2, <4>1
        <5> QED
          BY <1>4, <3>2, <3>3, <4>1, <5>1
      <4> QED
        BY <3>1, <4>1
  <2> HIDE DEF P
  <2>3. S \in SUBSET Nat /\ 0 \in S /\ \A k \in S : k + 1 \in S
    BY <1>2, <2>1, <2>2
  <2> HIDE DEF S
  <2>4. \A k \in Nat : k \in S
    BY <2>3, Induction
  <2>5. P(n)
    BY <1>2, <2>4 DEF S
  <2>6. m \in 0 .. m /\ n + 1 - n = 1 /\ m + 1 - m = 1
    BY <1>2
  <2> QED
    BY <1>3, <2>5, <2>6 DEF P
<1>6. \E e : FoundFrom(e, 1, b, 1, n - t, a)
  <2> DEFINE P(l) == \A k \in 0 .. n : D[k][l + 1] <= t =>
                         \E e : FoundFrom(e, m + 1 - l, b, n + 1 - k, n - t, a)
             S    == {l \in Nat : l <= m => P(l)}
  <2>1. P(0)
    <3> TAKE k \in 0 .. n
    <3> HAVE D[k][0 + 1] <= t
    <3>1. k <= t
      BY <1>3
    <3>2. (n + 1 - k) .. (n - t) = {}
      BY <1>2, <3>1
    <3> QED
      BY <3>2 DEF FoundFrom
  <2>2. ASSUME NEW l \in Nat, l + 1 <= m, P(l)
        PROVE  P(l + 1)
    <3> TAKE k \in 0 .. n
    <3> HAVE D[k][l + 1 + 1] <= t
    <3>1. CASE k = 0
      <4>1. (n + 1 - k) .. (n - t) = {}
        <5>1. l + 1 <= t
          BY <1>2, <1>3, <2>2, <3>1
        <5> QED
          BY <1>2, <3>1
      <4> QED
        BY <4>1 DEF FoundFrom
    <3>2. CASE k # 0 /\ a[n + 1 - k] = b[m - l] /\ D[k - 1][l + 1] <= t
      <4>1. k - 1 \in 0 .. n /\ n + 1 - (k - 1) = n + 2 - k
        BY <1>2, <3>2
      <4>2. PICK f : FoundFrom(f, m + 1 - l, b, n + 2 - k, n - t, a)
        BY <2>2, <3>2, <4>1
      <4> DEFINE e == [i \in (n + 1 - k) .. (n - t) |->
                           IF i = n + 1 - k THEN m - l ELSE f[i]]
      <4>3. FoundFrom(e, m - l, b, n + 1 - k, n - t, a)
        <5>1. \A i \in (n + 1 - k) .. (n - t) :
                  \/ i = n + 1 - k /\ e[i] = m - l
                  \/ i \in (n + 2 - k) .. (n - t) /\ e[i] = f[i]
          <6> TAKE i \in (n + 1 - k) .. (n - t)
          <6>1. e[i] = IF i = n + 1 - k THEN m - l ELSE f[i]
            OBVIOUS
          <6> HIDE DEF e
          <6>2. i # n + 1 - k => i \in (n + 2 - k) .. (n - t)
            BY <1>2
          <6> QED
            BY <6>1, <6>2
        <5> HIDE DEF e
        <5>2. m - l \in 1 .. m
          BY <1>2, <2>2
        <5>3. \A i \in (n + 2 - k) .. (n - t) :
                  f[i] \in (m + 1 - l) .. m /\ b[f[i]] = a[i]
          BY <1>2, <4>2 DEF FoundFrom
        <5>4. \A i \in (n + 1 - k) .. (n - t) : e[i] \in (m - l) .. m /\ b[e[i]] = a[i]
          <6> TAKE i \in (n + 1 - k) .. (n - t)
          <6>1. CASE i = n + 1 - k /\ e[i] = m - l
            BY <1>2, <3>2, <5>2, <6>1
          <6>2. CASE i \in (n + 2 - k) .. (n - t) /\ e[i] = f[i]
            <7>1. e[i] \in (m + 1 - l) .. m /\ b[e[i]] = a[i]
              BY <5>3, <6>2
            <7> QED
              BY <1>2, <2>2, <7>1
          <6> QED
            BY <5>1, <6>1, <6>2
        <5>5. \A i, j \in (n + 1 - k) .. (n - t) : i < j => e[i] < e[j]
          <6> SUFFICES ASSUME NEW i \in (n + 1 - k) .. (n - t),
                              NEW j \in (n + 1 - k) .. (n - t), i < j
                       PROVE  e[i] < e[j]
            OBVIOUS
          <6>1. j \in (n + 2 - k) .. (n - t) /\ e[j] = f[j]
            BY <1>2, <5>1
          <6>2. CASE i = n + 1 - k /\ e[i] = m - l
            BY <1>2, <2>2, <5>3, <6>1, <6>2
          <6>3. CASE i \in (n + 2 - k) .. (n - t) /\ e[i] = f[i]
            BY <4>2, <6>1, <6>3 DEF FoundFrom
          <6> QED
            BY <5>1, <6>2, <6>3
        <5> QED
          BY <1>2, <5>4, <5>5 DEF FoundFrom
      <4>4. m + 1 - (l + 1) = m - l
        BY <1>2, <2>2
      <4> QED
        BY <4>3, <4>4
    <3>3. CASE D[k][l + 1] <= t
      <4>1. PICK e : FoundFrom(e, m + 1 - l, b, n + 1 - k, n - t, a)
        BY <2>2, <3>3
      <4>2. FoundFrom(e, m + 1 - (l + 1), b, n + 1 - k, n - t, a)
        <5>1. (m + 1 - l) .. m \subseteq (m + 1 - (l + 1)) .. m
          BY <1>2, <2>2
        <5> QED
          BY <1>2, <4>1, <5>1 DEF FoundFrom
      <4> QED
        BY <4>2
    <3> QED
      <4>1. CASE k # 0
        <5>1. k \in 1 .. n /\ l + 1 \in 1 .. m /\ m + 1 - (l + 1) = m - l
          BY <1>2, <2>2, <4>1
        <5> QED
          BY <1>4, <3>2, <3>3, <4>1, <5>1
      <4> QED
        BY <3>1, <4>1
  <2> HIDE DEF P
  <2>3. S \in SUBSET Nat /\ 0 \in S /\ \A l \in S : l + 1 \in S
    BY <1>2, <2>1, <2>2
  <2> HIDE DEF S
  <2>4. \A l \in Nat : l \in S
    BY <2>3, Induction
  <2>5. P(m)
    BY <1>2, <2>4 DEF S
  <2>6. n \in 0 .. n /\ n + 1 - n = 1 /\ m + 1 - m = 1
    BY <1>2
  <2> QED
    BY <1>3, <2>5, <2>6 DEF P
<1> QED
  BY <1>2, <1>5, <1>6

-----------------------------------------------------------------------------
(* Scanning. *)

\* Where a scan for a character in stops comes to its end.
StopsAt(n, stops, text) ==
    /\ n \in 0 .. Len(text)
    /\ n = Len(text) \/ text[n + 1] \in stops
    /\ \A i \in 1 .. n : text[i] \notin stops

LEMMA LengthBeforeIs ==
    ASSUME NEW C, NEW text \in Seq(C), NEW stops
    PROVE  /\ StopsAt(LengthBefore(stops, text), stops, text)
           /\ \A n : StopsAt(n, stops, text) => LengthBefore(stops, text) = n
<1>1. ASSUME NEW n, NEW o, StopsAt(n, stops, text), StopsAt(o, stops, text)
      PROVE  n = o
  <2>1. ASSUME NEW x, NEW y, StopsAt(x, stops, text), StopsAt(y, stops, text), x < y
        PROVE  FALSE
    <3>1. x + 1 \in 1 .. y /\ x # Len(text)
      BY <2>1 DEF StopsAt
    <3> QED
      BY <2>1, <3>1 DEF StopsAt
  <2>2. n \in Int /\ o \in Int
    BY <1>1 DEF StopsAt
  <2>3. ~ (n < o) /\ ~ (o < n)
    BY <1>1, <2>1
  <2> QED
    BY <2>2, <2>3
<1>2. \E n : StopsAt(n, stops, text)
  <2> DEFINE T == {n \in 0 .. Len(text) : n = Len(text) \/ text[n + 1] \in stops}
  <2>1. T \in SUBSET Nat /\ Len(text) \in T
    OBVIOUS
  <2>2. PICK m \in T : \A k \in T : m <= k
    <3> HIDE DEF T
    <3> QED
      BY <2>1, Minimum
  <2>3. \A i \in 1 .. m : text[i] \notin stops
    <3> TAKE i \in 1 .. m
    <3>1. i - 1 \in 0 .. Len(text) /\ (i - 1) + 1 = i /\ ~ (m <= i - 1)
      OBVIOUS
    <3> QED
      BY <2>2, <3>1
  <2>4. StopsAt(m, stops, text)
    BY <2>3 DEF StopsAt
  <2> QED
    BY <2>4
<1>3. LengthBefore(stops, text) = CHOOSE n \in 0 .. Len(text) : StopsAt(n, stops, text)
  BY DEF LengthBefore, StopsAt
<1>4. \A n : StopsAt(n, stops, text) => n \in 0 .. Len(text)
  BY DEF StopsAt
<1>5. StopsAt(LengthBefore(stops, text), stops, text)
  BY <1>2, <1>3, <1>4
<1> QED
  BY <1>1, <1>5

\* What a scan of at most max characters reads.
LEMMA ScanIs ==
    ASSUME NEW C, NEW text \in Seq(C), NEW max \in Nat, NEW stop
    PROVE  /\ \E n \in 0 .. Len(text) : Scan(text, max, stop) = SubSeq(text, 1, n)
           /\ \A n : n <= max /\ StopsAt(n, {stop}, text) =>
                         Scan(text, max, stop) = SubSeq(text, 1, n)
<1> DEFINE n == LengthBefore({stop}, text)
           part == SubSeq(text, 1, n)
<1>1. /\ StopsAt(n, {stop}, text)
      /\ \A o : StopsAt(o, {stop}, text) => n = o
  BY LengthBeforeIs
<1>2. n \in 0 .. Len(text) /\ n \in Nat
  BY <1>1 DEF StopsAt
<1>3. Scan(text, max, stop) = AtMost(max, part)
  BY DEF Scan
<1> HIDE DEF n
<1>4. part \in Seq(C) /\ Len(part) = n /\ \A i \in 1 .. n : part[i] = text[i]
  BY <1>2, SubSeqProperties
<1>5. CASE n <= max
  BY <1>1, <1>2, <1>3, <1>4, <1>5 DEF AtMost
<1>6. CASE ~ (n <= max)
  <2> DEFINE shorter == SubSeq(part, 1, max)
  <2>1. Scan(text, max, stop) = shorter
    BY <1>2, <1>3, <1>4, <1>6 DEF AtMost
  <2>2. max <= n /\ max \in 0 .. Len(text)
    BY <1>2, <1>6
  <2> HIDE DEF part
  <2>3. shorter = SubSeq(text, 1, max)
    <3>1. /\ shorter \in Seq(C) /\ Len(shorter) = max
          /\ \A i \in 1 .. max : shorter[i] = part[i]
      BY <1>2, <1>4, <2>2, SubSeqProperties
    <3>2. /\ SubSeq(text, 1, max) \in Seq(C) /\ Len(SubSeq(text, 1, max)) = max
          /\ \A i \in 1 .. max : SubSeq(text, 1, max)[i] = text[i]
      BY <2>2, SubSeqProperties
    <3>3. \A i \in 1 .. max : part[i] = text[i]
      BY <1>2, <1>4, <2>2
    <3> HIDE DEF shorter
    <3>4. \A i \in 1 .. Len(shorter) : shorter[i] = SubSeq(text, 1, max)[i]
      BY <3>1, <3>2, <3>3
    <3> QED
      BY <3>1, <3>2, <3>4, SeqEqual
  <2> QED
    BY <1>1, <1>2, <1>6, <2>1, <2>2, <2>3
<1> QED
  BY <1>2, <1>5, <1>6

\* ... when it stops at the most it may read.
LEMMA ScanIsCut ==
    ASSUME NEW C, NEW text \in Seq(C), NEW max \in Nat, NEW stop,
           NEW n, StopsAt(n, {stop}, text), max < n
    PROVE  Scan(text, max, stop) = SubSeq(text, 1, max)
<1> DEFINE part    == SubSeq(text, 1, n)
           shorter == SubSeq(part, 1, max)
<1>1. LengthBefore({stop}, text) = n
  BY LengthBeforeIs
<1>2. n \in 0 .. Len(text) /\ n \in Nat /\ max \in 0 .. n /\ max \in 0 .. Len(text)
  BY DEF StopsAt
<1>3. part \in Seq(C) /\ Len(part) = n /\ \A i \in 1 .. n : part[i] = text[i]
  BY <1>2, SubSeqProperties
<1>4. Scan(text, max, stop) = AtMost(max, part)
  BY <1>1 DEF Scan
<1> HIDE DEF part
<1>5. AtMost(max, part) = shorter
  BY <1>2, <1>3 DEF AtMost
<1>6. /\ shorter \in Seq(C) /\ Len(shorter) = max
      /\ \A i \in 1 .. max : shorter[i] = part[i]
  BY <1>2, <1>3, SubSeqProperties
<1>7. /\ SubSeq(text, 1, max) \in Seq(C) /\ Len(SubSeq(text, 1, max)) = max
      /\ \A i \in 1 .. max : SubSeq(text, 1, max)[i] = text[i]
  BY <1>2, SubSeqProperties
<1>8. \A i \in 1 .. max : part[i] = text[i]
  BY <1>2, <1>3
<1> HIDE DEF shorter
<1>9. shorter = SubSeq(text, 1, max)
  BY <1>6, <1>7, <1>8, SeqEqual
<1> QED
  BY <1>4, <1>9, <1>5

-----------------------------------------------------------------------------
(* The parts of a text. *)

Alphabet ==
    {"O", "p", "e", "n", "V", "a", "l", "v", "C", "o", "s", "G", "t", "L", "m", "T", "S",
     "M", "x", "r", "E"}

Numerals == {"0", "1", "2", "3", "4", "5", "6", "7", "8", "9"}

Symbols == Alphabet \cup Numerals \cup {"K", "#", "-", "!"}

LEMMA Separators ==
    /\ {"#", "!", "-", NUL} \cap (Alphabet \cup Numerals \cup {"K"}) = {}
    /\ NUL \notin {"#", "!", "-", "K", "O"}
    /\ Numerals \cap (Alphabet \cup {"K"}) = {}
BY DEF Alphabet, Numerals, NUL

IsWord(word) == word \in Seq(Alphabet) /\ Len(word) \in 3 .. KEYWORD_MAX_LENGTH

LEMMA LettersAreWords ==
    \A k \in Keywords : IsWord(Letters[GetKeywordStr[k]])
<1> USE DEF KEYWORD_MAX_LENGTH
<1>1. IsWord(Letters["OpenValve"])
  BY DEF Letters, IsWord, Alphabet
<1>2. IsWord(Letters["CloseValve"])
  BY DEF Letters, IsWord, Alphabet
<1>3. IsWord(Letters["GetLevel"])
  BY DEF Letters, IsWord, Alphabet
<1>4. IsWord(Letters["CommTest"])
  BY DEF Letters, IsWord, Alphabet
<1>5. IsWord(Letters["SetMax"])
  BY DEF Letters, IsWord, Alphabet
<1>6. IsWord(Letters["Open"])
  BY DEF Letters, IsWord, Alphabet
<1>7. IsWord(Letters["Close"])
  BY DEF Letters, IsWord, Alphabet
<1>8. IsWord(Letters["Level"])
  BY DEF Letters, IsWord, Alphabet
<1>9. IsWord(Letters["Comm"])
  BY DEF Letters, IsWord, Alphabet
<1>10. IsWord(Letters["Max"])
  BY DEF Letters, IsWord, Alphabet
<1>11. IsWord(Letters["Start"])
  BY DEF Letters, IsWord, Alphabet
<1>12. IsWord(Letters["Err"])
  BY DEF Letters, IsWord, Alphabet
<1> HIDE DEF KEYWORD_MAX_LENGTH
<1>13. \A k \in Keywords :
           GetKeywordStr[k] \in {"OpenValve", "CloseValve", "GetLevel", "CommTest", "SetMax",
                                 "Open", "Close", "Level", "Comm", "Max", "Start", "Err"}
  BY DEF Keywords, CommandKeywords, ResponseKeywords, GetKeywordStr
<1> QED
  BY <1>1, <1>2, <1>3, <1>4, <1>5, <1>6, <1>7, <1>8, <1>9, <1>10, <1>11, <1>12, <1>13

Digit(d) == DigitCharacters[d + 1]

LEMMA DigitsDiffer ==
    /\ \A d \in 0 .. 9 : Digit(d) \in Numerals
    /\ \A d, e \in 0 .. 9 : Digit(d) = Digit(e) => d = e
BY DEF Digit, DigitCharacters, Numerals

\* A number of up to three digits, read from its front.
IsNumeral(text, value) ==
    /\ text \in Seq(Numerals)
    /\ \E d, e, f \in 0 .. 9 :
           \/ Len(text) = 1 /\ text[1] = Digit(d) /\ value = d
           \/ /\ Len(text) = 2 /\ text[1] = Digit(d) /\ text[2] = Digit(e)
              /\ value = 10 * d + e
           \/ /\ Len(text) = 3 /\ text[1] = Digit(d) /\ text[2] = Digit(e) /\ text[3] = Digit(f)
              /\ value = 10 * (10 * d + e) + f

LEMMA DigitsIs ==
    ASSUME NEW value \in 0 .. 999
    PROVE  IsNumeral(Digits(value), value)
<1> DEFINE d == (value \div 100) % 10
           e == (value \div 10) % 10
           f == (value \div 1) % 10
           D == <<Digit(d)>>
           E == <<Digit(e)>>
           F == <<Digit(f)>>
           H == IF value >= 100 THEN D ELSE <<>>
           T == IF value >= 10 THEN E ELSE <<>>
<1>1. d \in 0 .. 9 /\ e \in 0 .. 9 /\ f \in 0 .. 9
  BY SMT
<1>2. value = 10 * (10 * d + e) + f
  BY SMT
<1>3. (value < 100 => d = 0) /\ (value < 10 => e = 0)
  BY SMT
<1>4. Digits(value) = H \o T \o F
  BY DEF Digits, Digit
<1> HIDE DEF d, e, f
<1>5. D \in Seq(Numerals) /\ E \in Seq(Numerals) /\ F \in Seq(Numerals)
  BY <1>1, DigitsDiffer
<1>6. Len(D) = 1 /\ Len(E) = 1 /\ Len(F) = 1 /\ D[1] = Digit(d) /\ E[1] = Digit(e) /\ F[1] = Digit(f)
  OBVIOUS
<1> HIDE DEF D, E, F
<1>7. /\ <<>> \o <<>> \o F = F
      /\ <<>> \o E \o F = E \o F
  BY <1>5, ConcatEmptySeq
<1>8. /\ E \o F \in Seq(Numerals) /\ Len(E \o F) = 2
      /\ (E \o F)[1] = Digit(e) /\ (E \o F)[2] = Digit(f)
  BY <1>5, <1>6, ConcatProperties
<1>9. /\ D \o E \in Seq(Numerals) /\ Len(D \o E) = 2
      /\ (D \o E)[1] = Digit(d) /\ (D \o E)[2] = Digit(e)
  BY <1>5, <1>6, ConcatProperties
<1>10. /\ D \o E \o F \in Seq(Numerals) /\ Len(D \o E \o F) = 3
       /\ (D \o E \o F)[1] = Digit(d) /\ (D \o E \o F)[2] = Digit(e) /\ (D \o E \o F)[3] = Digit(f)
  <2> DEFINE DE == D \o E
  <2> HIDE DEF DE
  <2>1. DE \in Seq(Numerals) /\ Len(DE) = 2 /\ DE[1] = Digit(d) /\ DE[2] = Digit(e)
    BY <1>9 DEF DE
  <2>2. /\ DE \o F \in Seq(Numerals)
        /\ Len(DE \o F) = Len(DE) + Len(F)
        /\ \A i \in 1 .. Len(DE) + Len(F) :
               (DE \o F)[i] = IF i <= Len(DE) THEN DE[i] ELSE F[i - Len(DE)]
    BY <1>5, <2>1, ConcatProperties
  <2>3. (DE \o F)[1] = DE[1] /\ (DE \o F)[2] = DE[2] /\ (DE \o F)[3] = F[1]
    BY <1>6, <2>1, <2>2
  <2> QED
    BY <1>6, <2>1, <2>2, <2>3 DEF DE
<1>11. CASE value < 10
  <2>1. H = <<>> /\ T = <<>>
    BY <1>11
  <2> HIDE DEF H, T
  <2>2. Digits(value) = F
    BY <1>4, <1>7, <2>1
  <2>3. value = f
    BY <1>1, <1>2, <1>3, <1>11
  <2>4. IsNumeral(F, f)
    BY <1>1, <1>5, <1>6 DEF IsNumeral
  <2> QED
    BY <2>2, <2>3, <2>4
<1>12. CASE value >= 10 /\ value < 100
  <2>1. H = <<>> /\ T = E
    BY <1>12
  <2> HIDE DEF H, T
  <2>2. Digits(value) = E \o F
    BY <1>4, <1>7, <2>1
  <2>3. value = 10 * e + f
    BY <1>1, <1>2, <1>3, <1>12
  <2>4. IsNumeral(E \o F, 10 * e + f)
    BY <1>1, <1>8 DEF IsNumeral
  <2> QED
    BY <2>2, <2>3, <2>4
<1>13. CASE value >= 100
  <2>1. H = D /\ T = E
    BY <1>13
  <2> HIDE DEF H, T
  <2>2. Digits(value) = D \o E \o F
    BY <1>4, <2>1
  <2>3. IsNumeral(D \o E \o F, 10 * (10 * d + e) + f)
    BY <1>1, <1>10 DEF IsNumeral
  <2> QED
    BY <1>2, <2>2, <2>3
<1> QED
  BY <1>11, <1>12, <1>13

DigitOf(c) == CHOOSE d \in 0 .. 9 : DigitCharacters[d + 1] = c

NotDigits(text) == {c \in ToSet(text) : ~ Contains(DigitCharacters, c)}

\* What atoi makes of up to three characters.
LEMMA AtoiUnrolled ==
    ASSUME NEW C, NEW text \in Seq(C), Len(text) \in 0 .. 3
    PROVE  LET n == LengthBefore(NotDigits(text), text)
               x == DigitOf(text[1])
               y == 10 * x + DigitOf(text[2])
               z == 10 * y + DigitOf(text[3])
           IN  /\ n \in 0 .. Len(text)
               /\ Atoi(text) = IF n = 0 THEN 0 ELSE IF n = 1 THEN x
                               ELSE IF n = 2 THEN y ELSE z
               /\ \A i \in 1 .. n : DigitOf(text[i]) \in 0 .. 9
<1> DEFINE length == LengthBefore(NotDigits(text), text)
           number[n \in 0 .. length] ==
               IF n = 0 THEN 0 ELSE 10 * number[n - 1] + DigitOf(text[n])
           x == DigitOf(text[1])
           y == 10 * x + DigitOf(text[2])
           z == 10 * y + DigitOf(text[3])
           g == [n \in 0 .. length |-> IF n = 0 THEN 0 ELSE IF n = 1 THEN x
                                       ELSE IF n = 2 THEN y ELSE z]
<1>1. Atoi(text) = number[length]
  BY DEF Atoi, DigitOf, NotDigits
<1>2. StopsAt(length, NotDigits(text), text)
  BY LengthBeforeIs
<1>3. length \in 0 .. Len(text) /\ length \in 0 .. 3
  BY <1>2 DEF StopsAt
<1>4. \A i \in 1 .. length : DigitOf(text[i]) \in 0 .. 9
  <2> TAKE i \in 1 .. length
  <2>1. i \in 1 .. Len(text) /\ text[i] \notin NotDigits(text)
    BY <1>2, <1>3 DEF StopsAt
  <2>2. Contains(DigitCharacters, text[i])
    BY <2>1 DEF NotDigits, ToSet
  <2>3. \E d \in 0 .. 9 : DigitCharacters[d + 1] = text[i]
    <3>1. PICK j \in 1 .. Len(DigitCharacters) : DigitCharacters[j] = text[i]
      BY <2>2 DEF Contains
    <3>2. Len(DigitCharacters) = 10
      BY DEF DigitCharacters
    <3>3. j - 1 \in 0 .. 9 /\ (j - 1) + 1 = j
      BY <3>2
    <3> QED
      BY <3>1, <3>3
  <2> QED
    BY <2>3 DEF DigitOf
<1> HIDE DEF length
<1>5. number = CHOOSE h : h = [n \in 0 .. length |->
                                   IF n = 0 THEN 0 ELSE 10 * h[n - 1] + DigitOf(text[n])]
  OBVIOUS
<1> HIDE DEF number
<1>6. g = [n \in 0 .. length |-> IF n = 0 THEN 0 ELSE 10 * g[n - 1] + DigitOf(text[n])]
  <2>1. \A n \in 0 .. length :
            g[n] = IF n = 0 THEN 0 ELSE 10 * g[n - 1] + DigitOf(text[n])
    <3> TAKE n \in 0 .. length
    <3>1. n \in {0, 1, 2, 3} /\ length \in 0 .. 3
      BY <1>3
    <3>2. CASE n = 0
      BY <3>2
    <3>3. CASE n = 1
      <4>1. g[0] = 0 /\ g[1] = x /\ 1 \in 1 .. length
        BY <3>1, <3>3
      <4>2. x \in 0 .. 9
        BY <1>4, <4>1
      <4> HIDE DEF g
      <4> QED
        BY <3>3, <4>1, <4>2
    <3>4. CASE n = 2
      BY <3>1, <3>4
    <3>5. CASE n = 3
      BY <3>1, <3>5
    <3> QED
      BY <3>1, <3>2, <3>3, <3>4, <3>5
  <2> QED
    BY <2>1
<1>7. number = [n \in 0 .. length |->
                    IF n = 0 THEN 0 ELSE 10 * number[n - 1] + DigitOf(text[n])]
  <2> HIDE DEF g
  <2> QED
    BY <1>5, <1>6
<1> HIDE DEF g
<1>8. \A n \in 0 .. length :
           number[n] = IF n = 0 THEN 0 ELSE 10 * number[n - 1] + DigitOf(text[n])
  BY <1>7
<1>9. number[0] = 0
  BY <1>3, <1>8
<1>10. length >= 1 => number[1] = x
  <2> SUFFICES ASSUME length >= 1 PROVE number[1] = x
    OBVIOUS
  <2>1. 1 \in 0 .. length /\ 1 \in 1 .. length
    BY <1>3
  <2>2. number[1] = 10 * number[1 - 1] + DigitOf(text[1]) /\ 1 - 1 = 0
    BY <1>8, <2>1
  <2>3. x \in 0 .. 9
    BY <1>4, <2>1
  <2> QED
    BY <1>9, <2>2, <2>3
<1>11. length >= 2 => number[2] = y
  BY <1>3, <1>8, <1>10
<1>12. length >= 3 => number[3] = z
  BY <1>3, <1>8, <1>11
<1>13. Atoi(text) = IF length = 0 THEN 0 ELSE IF length = 1 THEN x
                    ELSE IF length = 2 THEN y ELSE z
  <2> HIDE DEF x, y, z
  <2> QED
    BY <1>1, <1>3, <1>9, <1>10, <1>11, <1>12
<1> QED
  BY <1>3, <1>4, <1>13 DEF length

\* What is read is not a negative number.
LEMMA AtoiIsNatural ==
    ASSUME NEW C, NEW text \in Seq(C), Len(text) \in 0 .. 3
    PROVE  Atoi(text) \in Nat
<1> DEFINE n == LengthBefore(NotDigits(text), text)
           a == DigitOf(text[1])
           b == DigitOf(text[2])
           c == DigitOf(text[3])
<1>1. /\ n \in 0 .. Len(text)
      /\ Atoi(text) = IF n = 0 THEN 0 ELSE IF n = 1 THEN a
                      ELSE IF n = 2 THEN 10 * a + b ELSE 10 * (10 * a + b) + c
      /\ \A i \in 1 .. n : DigitOf(text[i]) \in 0 .. 9
  BY AtoiUnrolled
<1>2. n \in 0 .. 3
  BY <1>1
<1>3. (n >= 1 => a \in Nat) /\ (n >= 2 => b \in Nat) /\ (n >= 3 => c \in Nat)
  BY <1>1, <1>2
<1> HIDE DEF n, a, b, c
<1> QED
  BY <1>1, <1>2, <1>3

\* atoi reads a number back.
LEMMA AtoiIs ==
    ASSUME NEW value, NEW text, IsNumeral(text, value)
    PROVE  Atoi(text) = value
<1> DEFINE n == LengthBefore(NotDigits(text), text)
<1>1. text \in Seq(Numerals) /\ Len(text) \in 1 .. 3
  BY DEF IsNumeral
<1>2. NotDigits(text) = {}
  <2>1. \A c \in Numerals : Contains(DigitCharacters, c)
    BY DEF Contains, DigitCharacters, Numerals
  <2>2. ToSet(text) \subseteq Numerals
    BY <1>1 DEF ToSet
  <2> QED
    BY <2>1, <2>2 DEF NotDigits
<1>3. n = Len(text)
  <2>1. StopsAt(Len(text), NotDigits(text), text)
    BY <1>1, <1>2 DEF StopsAt
  <2> QED
    BY <1>1, <2>1, LengthBeforeIs
<1>4. \A d \in 0 .. 9 : DigitOf(Digit(d)) = d
  BY DigitsDiffer DEF Digit, DigitOf
<1> DEFINE a == DigitOf(text[1])
           b == DigitOf(text[2])
           c == DigitOf(text[3])
<1>5. Atoi(text) = IF n = 0 THEN 0 ELSE IF n = 1 THEN a
                   ELSE IF n = 2 THEN 10 * a + b ELSE 10 * (10 * a + b) + c
  BY <1>1, AtoiUnrolled
<1>6. PICK d, e, f \in 0 .. 9 :
           \/ Len(text) = 1 /\ text[1] = Digit(d) /\ value = d
           \/ /\ Len(text) = 2 /\ text[1] = Digit(d) /\ text[2] = Digit(e)
              /\ value = 10 * d + e
           \/ /\ Len(text) = 3 /\ text[1] = Digit(d) /\ text[2] = Digit(e) /\ text[3] = Digit(f)
              /\ value = 10 * (10 * d + e) + f
  BY DEF IsNumeral
<1>7. \/ n = 1 /\ a = d /\ value = d
      \/ n = 2 /\ a = d /\ b = e /\ value = 10 * d + e
      \/ n = 3 /\ a = d /\ b = e /\ c = f /\ value = 10 * (10 * d + e) + f
  BY <1>3, <1>4, <1>6
<1> HIDE DEF n, a, b, c
<1> QED
  BY <1>5, <1>7

\* The text of word and, unless it is empty, rest.
Parts(text, word, rest) ==
    LET w == Len(word)
    IN  /\ text \in Seq(Symbols)
        /\ \A i \in 1 .. w : text[i] = word[i]
        /\ \/ /\ rest = <<>>
              /\ Len(text) = w + 1
              /\ text[w + 1] = "!"
           \/ /\ rest # <<>>
              /\ Len(text) = w + Len(rest) + 2
              /\ text[w + 1] = "#"
              /\ text[Len(text)] = "!"
              /\ \A i \in 1 .. Len(rest) : text[w + 1 + i] = rest[i]

\* What is written for a value.
WrittenAs(rest, value) ==
    \/ value = NO_VALUE /\ rest = <<>>
    \/ value = OK_VALUE /\ rest = <<"O", "K">>
    \/ value \in 0 .. 999 /\ IsNumeral(rest, value)

Rests == Seq(Numerals \cup {"O", "K"})

LEMMA ComplementsAre ==
    ASSUME NEW value, NEW rest, WrittenAs(rest, value)
    PROVE  /\ rest \in Rests
           /\ Len(rest) \in 0 .. VALUE_MAX_LENGTH
           /\ GetTextValue(rest) = value
<1> USE DEF VALUE_MAX_LENGTH, Rests
<1>1. CASE value = NO_VALUE /\ rest = <<>>
  BY <1>1 DEF GetTextValue
<1>2. CASE value = OK_VALUE /\ rest = <<"O", "K">>
  BY <1>2 DEF GetTextValue
<1>3. CASE value \in 0 .. 999 /\ IsNumeral(rest, value)
  <2>1. rest \in Seq(Numerals) /\ Len(rest) \in 1 .. 3
    BY <1>3 DEF IsNumeral
  <2>2. rest[1] \in Numerals
    BY <2>1
  <2>3. rest # <<"O", "K">> /\ rest # <<>>
    <3>1. <<"O", "K">>[1] = "O" /\ Len(<<>>) = 0
      OBVIOUS
    <3> QED
      BY <2>1, <2>2, <3>1, Separators DEF Alphabet
  <2>4. GetTextValue(rest) = value
    BY <1>3, <2>3, AtoiIs DEF GetTextValue
  <2>5. rest \in Seq(Numerals \cup {"O", "K"})
    BY <2>1, SeqMonotonic
  <2> QED
    BY <2>1, <2>4, <2>5
<1> QED
  BY <1>1, <1>2, <1>3 DEF WrittenAs

LEMMA Concatenated ==
    ASSUME NEW C, NEW a \in Seq(C), NEW b \in Seq(C), NEW c \in Seq(C)
    PROVE  LET text == a \o b \o c
           IN  /\ text \in Seq(C)
               /\ Len(text) = Len(a) + Len(b) + Len(c)
               /\ \A i \in 1 .. Len(a) : text[i] = a[i]
               /\ \A i \in 1 .. Len(b) : text[Len(a) + i] = b[i]
               /\ \A i \in 1 .. Len(c) : text[Len(a) + Len(b) + i] = c[i]
<1> DEFINE ab == a \o b
           n  == Len(a)
           m  == Len(b)
<1>1. /\ ab \in Seq(C) /\ Len(ab) = n + m
      /\ \A i \in 1 .. n + m : ab[i] = IF i <= n THEN a[i] ELSE b[i - n]
  BY ConcatProperties
<1>2. n \in Nat /\ m \in Nat /\ Len(c) \in Nat /\ n = Len(a) /\ m = Len(b)
  OBVIOUS
<1> HIDE DEF ab, n, m
<1>3. /\ ab \o c \in Seq(C) /\ Len(ab \o c) = n + m + Len(c)
      /\ \A i \in 1 .. n + m + Len(c) : (ab \o c)[i] = IF i <= n + m THEN ab[i] ELSE c[i - (n + m)]
  BY <1>1, ConcatProperties
<1> DEFINE text == ab \o c
<1> HIDE DEF text
<1>4. \A i \in 1 .. n : text[i] = a[i]
  <2> TAKE i \in 1 .. n
  <2>1. i \in 1 .. n + m /\ i \in 1 .. n + m + Len(c) /\ i <= n /\ i <= n + m
    BY <1>2
  <2> QED
    BY <1>1, <1>3, <2>1 DEF text
<1>5. \A i \in 1 .. m : text[n + i] = b[i]
  <2> TAKE i \in 1 .. m
  <2>1. n + i \in 1 .. n + m /\ n + i \in 1 .. n + m + Len(c) /\ ~ (n + i <= n)
        /\ n + i <= n + m /\ (n + i) - n = i
    BY <1>2
  <2> QED
    BY <1>1, <1>3, <2>1 DEF text
<1>6. \A i \in 1 .. Len(c) : text[n + m + i] = c[i]
  <2> TAKE i \in 1 .. Len(c)
  <2>1. n + m + i \in 1 .. n + m + Len(c) /\ ~ (n + m + i <= n + m)
        /\ (n + m + i) - (n + m) = i
    BY <1>2
  <2> QED
    BY <1>3, <2>1 DEF text
<1> QED
  BY <1>2, <1>3, <1>4, <1>5, <1>6 DEF text, ab

\* rest is what follows the separator, if there is one.
Follows(rest, comp) ==
    /\ rest \in Seq(Symbols)
    /\ Len(rest) \in 0 .. VALUE_MAX_LENGTH
    /\ \/ rest = <<>> /\ comp = <<>>
       \/ rest # <<>> /\ comp = <<"#">> \o rest

LEMMA PartsAre ==
    ASSUME NEW p, NEW rest, Follows(rest, ComplementText(p.value)),
           IsWord(Letters[GetKeywordStr[p.keyword]])
    PROVE  Parts(FormatText(p), Letters[GetKeywordStr[p.keyword]], rest)
<1> DEFINE word == Letters[GetKeywordStr[p.keyword]]
           hash == <<"#">>
           last == <<"!">>
           comp == ComplementText(p.value)
           text == word \o comp \o last
<1>1. FormatText(p) = Written(text)
  BY DEF FormatText
<1>2. /\ word \in Seq(Symbols) /\ Len(word) \in 3 .. 10
      /\ hash \in Seq(Symbols) /\ Len(hash) = 1 /\ hash[1] = "#"
      /\ last \in Seq(Symbols) /\ Len(last) = 1 /\ last[1] = "!"
  <2>1. Alphabet \subseteq Symbols /\ "#" \in Symbols /\ "!" \in Symbols
    BY DEF Symbols
  <2>2. word \in Seq(Symbols) /\ Len(word) \in 3 .. 10
    <3> HIDE DEF word
    <3>1. IsWord(word)
      BY DEF word
    <3> QED
      BY <2>1, <3>1, SeqMonotonic DEF IsWord, KEYWORD_MAX_LENGTH
  <2> QED
    BY <2>1, <2>2
<1>3. \/ rest = <<>> /\ comp = <<>>
      \/ rest # <<>> /\ comp = hash \o rest
  BY DEF Follows
<1>4. rest \in Seq(Symbols) /\ Len(rest) \in 0 .. 3
  BY DEF Follows, VALUE_MAX_LENGTH
<1> HIDE DEF word, hash, last, comp, text
<1>5. /\ hash \o rest \in Seq(Symbols) /\ Len(hash \o rest) = Len(rest) + 1
      /\ (hash \o rest)[1] = "#"
      /\ \A i \in 1 .. Len(rest) : (hash \o rest)[i + 1] = rest[i]
  <2> DEFINE both == hash \o rest
  <2>1. /\ both \in Seq(Symbols) /\ Len(both) = Len(hash) + Len(rest)
        /\ \A i \in 1 .. Len(hash) + Len(rest) :
               both[i] = IF i <= Len(hash) THEN hash[i] ELSE rest[i - Len(hash)]
    BY <1>2, <1>4, ConcatProperties
  <2> HIDE DEF both
  <2>2. both[1] = "#"
    BY <1>2, <1>4, <2>1
  <2>3. \A i \in 1 .. Len(rest) : both[i + 1] = rest[i]
    <3> TAKE i \in 1 .. Len(rest)
    <3>1. i + 1 \in 1 .. Len(hash) + Len(rest) /\ ~ (i + 1 <= 1) /\ (i + 1) - 1 = i
      BY <1>2, <1>4
    <3> QED
      BY <1>2, <2>1, <3>1
  <2>4. Len(both) = Len(rest) + 1
    BY <1>2, <1>4, <2>1
  <2> QED
    BY <2>1, <2>2, <2>3, <2>4 DEF both
<1>6. comp \in Seq(Symbols) /\ Len(comp) \in 0 .. 4
  <2>1. CASE rest = <<>> /\ comp = <<>>
    BY <2>1
  <2>2. CASE rest # <<>> /\ comp = hash \o rest
    <3> DEFINE both == hash \o rest
    <3>1. comp = both /\ both \in Seq(Symbols) /\ Len(both) = Len(rest) + 1
      BY <1>5, <2>2
    <3> HIDE DEF both
    <3> DEFINE r == Len(rest)
    <3>2. r \in 0 .. 3 /\ Len(both) = r + 1
      BY <1>4, <3>1
    <3> HIDE DEF r
    <3>3. r + 1 \in 0 .. 4
      BY <3>2
    <3> QED
      BY <3>1, <3>2, <3>3
  <2> QED
    BY <1>3, <2>1, <2>2
<1> DEFINE w == Len(word)
           c == Len(comp)
           r == Len(rest)
<1>7. /\ w \in 3 .. 10 /\ c \in 0 .. 4 /\ r \in 0 .. 3
      /\ w = Len(word) /\ c = Len(comp) /\ r = Len(rest)
  BY <1>2, <1>4, <1>6
<1> HIDE DEF w, c, r
<1>8. /\ text \in Seq(Symbols)
      /\ Len(text) = w + c + 1
      /\ \A i \in 1 .. w : text[i] = word[i]
      /\ \A i \in 1 .. c : text[w + i] = comp[i]
      /\ text[w + c + 1] = "!"
  <2>1. /\ text \in Seq(Symbols)
        /\ Len(text) = Len(word) + Len(comp) + Len(last)
        /\ \A i \in 1 .. Len(word) : text[i] = word[i]
        /\ \A i \in 1 .. Len(comp) : text[Len(word) + i] = comp[i]
        /\ \A i \in 1 .. Len(last) : text[Len(word) + Len(comp) + i] = last[i]
    <3>1. word \in Seq(Symbols) /\ comp \in Seq(Symbols) /\ last \in Seq(Symbols)
      BY <1>2, <1>6
    <3> QED
      BY <3>1, Concatenated DEF text
  <2>2. \A i \in 1 .. 1 : text[w + c + i] = last[i]
    BY <1>2, <1>7, <2>1
  <2>3. text[w + c + 1] = last[1]
    BY <2>2
  <2> QED
    BY <1>2, <1>7, <2>1, <2>3
<1>9. FormatText(p) = text
  <2>1. Len(text) \in Nat /\ Len(text) <= 15
    <3>1. w \in 3 .. 10 /\ c \in 0 .. 4 /\ Len(text) = w + c + 1
      BY <1>7, <1>8
    <3> QED
      BY <3>1
  <2> QED
    BY <1>1, <2>1 DEF Written, AtMost, BUFFER_LENGTH
<1>10. CASE rest = <<>>
  <2>1. c = 0
    BY <1>3, <1>7, <1>10
  <2> QED
    BY <1>7, <1>8, <1>9, <1>10, <2>1 DEF Parts, word
<1>11. CASE rest # <<>>
  <2>1. comp = hash \o rest
    BY <1>3, <1>11
  <2>2. c = r + 1
    BY <1>5, <1>7, <2>1
  <2>3. text[w + 1] = "#"
    <3>1. 1 \in 1 .. c
      BY <1>7, <2>2
    <3> QED
      BY <1>5, <1>8, <2>1, <3>1
  <2>4. \A i \in 1 .. r : text[w + 1 + i] = rest[i]
    <3> TAKE i \in 1 .. r
    <3>1. i + 1 \in 1 .. c /\ w + 1 + i = w + (i + 1)
      BY <1>7, <2>2
    <3>2. text[w + (i + 1)] = comp[i + 1]
      BY <1>8, <3>1
    <3>3. comp[i + 1] = rest[i]
      BY <1>5, <1>7, <2>1
    <3> QED
      BY <3>1, <3>2, <3>3
  <2>5. Len(text) = w + r + 2 /\ w + c + 1 = w + r + 2
    BY <1>7, <1>8, <2>2
  <2>6. text[Len(text)] = "!"
    BY <1>8, <2>5
  <2> QED
    BY <1>7, <1>8, <1>9, <1>11, <2>3, <2>4, <2>5, <2>6 DEF Parts, word
<1> QED
  BY <1>10, <1>11

LEMMA WordAndRest ==
    ASSUME NEW p, p.keyword \in Keywords, p.value \in {NO_VALUE, OK_VALUE} \cup 0 .. 999
    PROVE  LET word == Letters[GetKeywordStr[p.keyword]]
           IN  /\ IsWord(word)
               /\ \E rest : WrittenAs(rest, p.value) /\ Parts(FormatText(p), word, rest)
<1> DEFINE word == Letters[GetKeywordStr[p.keyword]]
<1>0. /\ OK_VALUE # NO_VALUE
      /\ \A v \in 0 .. 999 : v # OK_VALUE /\ v # NO_VALUE
  BY DEF OK_VALUE, NO_VALUE
<1>2. IsWord(word)
  BY LettersAreWords
<1>3. \E rest : /\ WrittenAs(rest, p.value)
                /\ \/ rest = <<>> /\ ComplementText(p.value) = <<>>
                   \/ rest # <<>> /\ ComplementText(p.value) = <<"#">> \o rest
  <2>1. CASE p.value = NO_VALUE
    <3>1. ComplementText(p.value) = <<>>
      BY <1>0, <2>1 DEF ComplementText
    <3> QED
      BY <2>1, <3>1 DEF WrittenAs
  <2>2. CASE p.value = OK_VALUE
    <3> DEFINE hash == <<"#">>
               ok   == <<"O", "K">>
               both == <<"#", "O", "K">>
    <3>1. ComplementText(p.value) = both
      BY <2>2 DEF ComplementText
    <3>2. /\ hash \in Seq(Symbols) /\ ok \in Seq(Symbols) /\ both \in Seq(Symbols)
          /\ Len(hash) = 1 /\ Len(ok) = 2 /\ Len(both) = 3
          /\ hash[1] = both[1] /\ ok[1] = both[2] /\ ok[2] = both[3]
          /\ ok # <<>>
      BY DEF Symbols, Alphabet
    <3>3. WrittenAs(ok, p.value)
      BY <2>2 DEF WrittenAs
    <3> HIDE DEF hash, ok, both
    <3> DEFINE m == Len(hash)
               n == Len(ok)
    <3>4. /\ hash \o ok \in Seq(Symbols) /\ Len(hash \o ok) = m + n
          /\ \A i \in 1 .. m + n :
                 (hash \o ok)[i] = IF i <= m THEN hash[i] ELSE ok[i - m]
      <4>1. hash \in Seq(Symbols) /\ ok \in Seq(Symbols)
        BY <3>2
      <4> QED
        BY <4>1, ConcatProperties
    <3>5. (hash \o ok)[1] = hash[1] /\ (hash \o ok)[2] = ok[1] /\ (hash \o ok)[3] = ok[2]
      BY <3>2, <3>4
    <3>6. \A i \in 1 .. Len(hash \o ok) : (hash \o ok)[i] = both[i]
      <4> TAKE i \in 1 .. Len(hash \o ok)
      <4>1. i \in {1, 2, 3}
        BY <3>2, <3>4
      <4> QED
        BY <3>2, <3>5, <4>1
    <3>7. Len(hash \o ok) = Len(both)
      BY <3>2, <3>4
    <3>8. hash \o ok = both
      BY <3>2, <3>4, <3>6, <3>7, SeqEqual
    <3> QED
      BY <3>1, <3>2, <3>3, <3>8 DEF hash
  <2>3. CASE p.value \in 0 .. 999
    <3>1. p.value # OK_VALUE /\ p.value # NO_VALUE /\ ~ (p.value < 0)
      BY <1>0, <2>3
    <3>2. ComplementText(p.value) = <<"#">> \o Digits(p.value)
      BY <3>1 DEF ComplementText
    <3>3. IsNumeral(Digits(p.value), p.value)
      BY <2>3, DigitsIs
    <3>4. Digits(p.value) # <<>>
      BY <3>3 DEF IsNumeral
    <3> QED
      BY <2>3, <3>2, <3>3, <3>4 DEF WrittenAs
  <2> QED
    BY <2>1, <2>2, <2>3
<1>4. PICK rest : /\ WrittenAs(rest, p.value)
                  /\ \/ rest = <<>> /\ ComplementText(p.value) = <<>>
                     \/ rest # <<>> /\ ComplementText(p.value) = <<"#">> \o rest
  BY <1>3
<1>5. Follows(rest, ComplementText(p.value))
  <2>1. rest \in Seq(Numerals \cup {"O", "K"}) /\ Len(rest) \in 0 .. VALUE_MAX_LENGTH
    BY <1>4, ComplementsAre DEF Rests
  <2>2. Numerals \cup {"O", "K"} \subseteq Symbols
    BY DEF Symbols, Alphabet
  <2>3. rest \in Seq(Symbols)
    BY <2>1, <2>2, SeqMonotonic
  <2> QED
    BY <1>4, <2>1, <2>3 DEF Follows
<1>6. Parts(FormatText(p), word, rest)
  BY <1>2, <1>5, PartsAre
<1> QED
  BY <1>2, <1>4, <1>6

\* What the programs send.
LEMMA SentIs ==
    ASSUME NEW p \in SentPackets
    PROVE  LET word == Letters[GetKeywordStr[p.keyword]]
           IN  /\ p.keyword \in Keywords
               /\ IsWord(word)
               /\ \E rest : WrittenAs(rest, p.value) /\ Parts(FormatText(p), word, rest)
<1>1. p.keyword \in Keywords /\ p.value \in {NO_VALUE, OK_VALUE} \cup 0 .. 999
  <2>1. p \in [keyword : Keywords, value : Values \cup {NO_VALUE, OK_VALUE}]
    BY DEF SentPackets
  <2>2. Values \subseteq 0 .. 999
    <3>1. Values \subseteq 0 .. MAX_VALUE /\ MAX_VALUE < 1000
      BY CodecAssumption DEF MIN_VALUE
    <3> QED
      BY <3>1, MaxValueAssumption
  <2>3. p.value \in Values \cup {NO_VALUE, OK_VALUE} /\ p.keyword \in Keywords
    BY <2>1
  <2> DEFINE N == 0 .. 999
  <2>4. Values \subseteq N
    BY <2>2
  <2> HIDE DEF N
  <2>5. p.value \in {NO_VALUE, OK_VALUE} \cup N
    BY <2>3, <2>4
  <2> QED
    BY <2>3, <2>5 DEF N
<1> QED
  BY <1>1, WordAndRest

-----------------------------------------------------------------------------
(* What is sent is read back. *)

LEMMA TextFacts ==
    ASSUME NEW text, NEW word, NEW rest, Parts(text, word, rest), IsWord(word),
           NEW value, WrittenAs(rest, value)
    PROVE  /\ text \in Seq(Symbols)
           /\ Len(text) \in Len(word) + 1 .. BUFFER_LENGTH - 1
           /\ \A i \in 1 .. Len(word) : text[i] \notin {"#", "!"}
           /\ Contains(text, "!")
           /\ Contains(text, "#") <=> rest # <<>>
           /\ rest # <<>> => \A i \in 1 .. Len(rest) : text[Len(word) + 1 + i] # "!"
<1> DEFINE w == Len(word)
           r == Len(rest)
<1>1. /\ word \in Seq(Alphabet) /\ w \in 3 .. 10
      /\ rest \in Seq(Numerals \cup {"O", "K"}) /\ r \in 0 .. 3
  BY ComplementsAre DEF IsWord, Rests, KEYWORD_MAX_LENGTH, VALUE_MAX_LENGTH
<1>2. /\ \A i \in 1 .. w : word[i] \notin {"#", "!"}
      /\ \A i \in 1 .. r : rest[i] \notin {"#", "!"}
  <2>1. \A i \in 1 .. w : word[i] \in Alphabet
    BY <1>1
  <2>2. \A i \in 1 .. r : rest[i] \in Numerals \cup {"O", "K"}
    BY <1>1
  <2>3. "O" \in Alphabet
    BY DEF Alphabet
  <2> QED
    BY <2>1, <2>2, <2>3, Separators
<1>3. rest # <<>> => r # 0
  BY <1>1
<1>4. /\ text \in Seq(Symbols)
      /\ \A i \in 1 .. w : text[i] = word[i]
      /\ \/ rest = <<>> /\ Len(text) = w + 1 /\ text[w + 1] = "!"
         \/ /\ rest # <<>> /\ Len(text) = w + r + 2
            /\ text[w + 1] = "#" /\ text[Len(text)] = "!"
            /\ \A i \in 1 .. r : text[w + 1 + i] = rest[i]
  BY DEF Parts
<1> HIDE DEF w, r
<1>5. CASE rest = <<>> /\ Len(text) = w + 1 /\ text[w + 1] = "!"
  <2>1. Contains(text, "!")
    BY <1>1, <1>5 DEF Contains
  <2>2. \A i \in 1 .. Len(text) : text[i] # "#"
    BY <1>1, <1>2, <1>4, <1>5
  <2>3. ~ Contains(text, "#")
    BY <2>2 DEF Contains
  <2>4. Len(text) \in w + 1 .. 15
    BY <1>1, <1>5
  <2> QED
    BY <1>2, <1>4, <1>5, <2>1, <2>3, <2>4 DEF BUFFER_LENGTH, w
<1>6. CASE /\ rest # <<>> /\ Len(text) = w + r + 2
           /\ text[w + 1] = "#" /\ text[Len(text)] = "!"
           /\ \A i \in 1 .. r : text[w + 1 + i] = rest[i]
  <2>1. w + 1 \in 1 .. Len(text) /\ Len(text) \in 1 .. Len(text)
    BY <1>1, <1>6
  <2>2. Contains(text, "!") /\ Contains(text, "#")
    BY <1>6, <2>1 DEF Contains
  <2>3. Len(text) \in w + 1 .. 15
    BY <1>1, <1>6
  <2> QED
    BY <1>2, <1>4, <1>6, <2>2, <2>3 DEF BUFFER_LENGTH, w, r
<1> QED
  BY <1>4, <1>5, <1>6

LEMMA ReadBack ==
    ASSUME NEW text, NEW word, NEW rest, Parts(text, word, rest), IsWord(word),
           NEW value, WrittenAs(rest, value)
    PROVE  GetKeywordValue(text) = [word |-> word, value |-> rest]
<1> DEFINE w       == Len(word)
           r       == Len(rest)
           stop    == IF Contains(text, "#") THEN "#" ELSE "!"
           keyword == Scan(text, KEYWORD_MAX_LENGTH, stop)
           after   == SubSeq(text, Len(keyword) + 1, Len(text))
           read    == Scan(Tail(after), VALUE_MAX_LENGTH, "!")
<1>1. /\ word \in Seq(Alphabet) /\ w \in 3 .. 10 /\ w = Len(word)
      /\ rest \in Seq(Numerals \cup {"O", "K"}) /\ r \in 0 .. 3 /\ r = Len(rest)
  BY ComplementsAre DEF IsWord, Rests, KEYWORD_MAX_LENGTH, VALUE_MAX_LENGTH
<1>2. /\ text \in Seq(Symbols)
      /\ Len(text) \in w + 1 .. 15
      /\ \A i \in 1 .. w : text[i] \notin {"#", "!"}
      /\ Contains(text, "!")
      /\ Contains(text, "#") <=> rest # <<>>
      /\ rest # <<>> => \A i \in 1 .. r : text[w + 1 + i] # "!"
  BY TextFacts DEF BUFFER_LENGTH
<1>3. /\ \A i \in 1 .. w : text[i] = word[i]
      /\ text[w + 1] = stop
      /\ rest # <<>> => /\ Len(text) = w + r + 2
                        /\ text[Len(text)] = "!"
                        /\ \A i \in 1 .. r : text[w + 1 + i] = rest[i]
  BY <1>2 DEF Parts
<1>4. /\ stop \in {"#", "!"}
      /\ GetKeywordValue(text) =
             IF ~ Contains(text, "!") \/ keyword = <<>> THEN NothingRead
             ELSE IF ~ Contains(text, "#") THEN [word |-> keyword, value |-> <<>>]
             ELSE IF Head(after) = "#" /\ read # <<>> THEN [word |-> keyword, value |-> read]
             ELSE NothingRead
  BY DEF GetKeywordValue
<1>5. rest # <<>> => stop = "#" /\ r \in 1 .. 3
  BY <1>1, <1>2
<1> HIDE DEF w, r, stop, read
<1>6. keyword = word
  <2>1. StopsAt(w, {stop}, text)
    BY <1>1, <1>2, <1>3, <1>4 DEF StopsAt
  <2>2. KEYWORD_MAX_LENGTH \in Nat /\ w <= KEYWORD_MAX_LENGTH
    <3>1. w \in 3 .. 10
      BY <1>1
    <3> QED
      BY <3>1 DEF KEYWORD_MAX_LENGTH
  <2>3. keyword = SubSeq(text, 1, w)
    <3>1. \A n : n <= KEYWORD_MAX_LENGTH /\ StopsAt(n, {stop}, text) =>
                     keyword = SubSeq(text, 1, n)
      BY <1>2, <2>2, ScanIs
    <3> QED
      BY <2>1, <2>2, <3>1
  <2>4. /\ SubSeq(text, 1, w) \in Seq(Symbols) /\ Len(SubSeq(text, 1, w)) = w
        /\ \A i \in 1 .. w : SubSeq(text, 1, w)[i] = text[i]
    BY <1>1, <1>2, SubSeqProperties
  <2>5. word \in Seq(Symbols)
    BY <1>1, SeqMonotonic DEF Symbols
  <2> HIDE DEF keyword
  <2> QED
    BY <1>1, <1>3, <2>3, <2>4, <2>5, SeqEqual
<1> HIDE DEF keyword, after
<1>7. keyword # <<>>
  BY <1>1, <1>6
<1>8. CASE rest = <<>>
  BY <1>2, <1>4, <1>6, <1>7, <1>8
<1>9. CASE rest # <<>>
  <2>1. /\ after \in Seq(Symbols) /\ Len(after) = r + 2
        /\ \A i \in 1 .. r + 2 : after[i] = text[w + i]
    <3>1. after = SubSeq(text, w + 1, w + r + 2)
      BY <1>1, <1>3, <1>6, <1>9 DEF after
    <3>2. /\ SubSeq(text, w + 1, w + r + 2) \in Seq(Symbols)
          /\ Len(SubSeq(text, w + 1, w + r + 2)) = r + 2
          /\ \A i \in 1 .. r + 2 : SubSeq(text, w + 1, w + r + 2)[i] = text[(w + 1) + i - 1]
      <4> DEFINE m == w + 1
                 n == w + r + 2
      <4>1. m \in Int /\ n \in Int /\ m <= n /\ n - m + 1 = r + 2 /\ m \in 1 .. n /\ n = Len(text)
        BY <1>1, <1>3, <1>9
      <4>2. \A i \in m .. n : text[i] \in Symbols
        BY <1>2, <4>1
      <4> HIDE DEF m, n
      <4>3. /\ SubSeq(text, m, n) \in Seq(Symbols)
            /\ Len(SubSeq(text, m, n)) = IF m <= n THEN n - m + 1 ELSE 0
            /\ \A i \in 1 .. n - m + 1 : SubSeq(text, m, n)[i] = text[m + i - 1]
        BY <4>1, <4>2, SubSeqProperties
      <4> QED
        BY <4>1, <4>3 DEF m, n
    <3>3. \A i \in 1 .. r + 2 : (w + 1) + i - 1 = w + i
      BY <1>1
    <3> QED
      BY <3>1, <3>2, <3>3
  <2>2. Head(after) = "#"
    BY <1>1, <1>3, <1>5, <1>9, <2>1
  <2> DEFINE t == Tail(after)
  <2>3. t \in Seq(Symbols) /\ Len(t) = r + 1 /\ \A i \in 1 .. r + 1 : t[i] = text[w + 1 + i]
    <3>1. after # <<>>
      BY <1>1, <2>1
    <3>2. t \in Seq(Symbols) /\ Len(t) = Len(after) - 1 /\ \A i \in 1 .. Len(t) : t[i] = after[i + 1]
      BY <2>1, <3>1, HeadTailProperties
    <3> HIDE DEF t
    <3>3. Len(t) = r + 1
      BY <1>1, <2>1, <3>2
    <3>4. ASSUME NEW i \in 1 .. r + 1
          PROVE  t[i] = text[w + 1 + i]
      <4>1. i + 1 \in 1 .. r + 2 /\ w + (i + 1) = w + 1 + i
        BY <1>1
      <4> QED
        BY <2>1, <3>2, <3>3, <4>1
    <3> QED
      BY <3>2, <3>3, <3>4
  <2> HIDE DEF t
  <2>4. StopsAt(r, {"!"}, t)
    <3>1. t[r + 1] = "!"
      <4>1. w + 1 + (r + 1) = Len(text) /\ r + 1 \in 1 .. r + 1
        BY <1>1, <1>3, <1>9
      <4> QED
        BY <1>3, <1>9, <2>3, <4>1
    <3>2. \A i \in 1 .. r : t[i] # "!"
      BY <1>1, <1>2, <1>9, <2>3
    <3> QED
      BY <1>1, <2>3, <3>1, <3>2 DEF StopsAt
  <2>5. read = SubSeq(t, 1, r)
    <3>1. VALUE_MAX_LENGTH \in Nat /\ r <= VALUE_MAX_LENGTH
      <4>1. r \in 0 .. 3
        BY <1>1
      <4> QED
        BY <4>1 DEF VALUE_MAX_LENGTH
    <3>2. \A n : n <= VALUE_MAX_LENGTH /\ StopsAt(n, {"!"}, t) =>
                     Scan(t, VALUE_MAX_LENGTH, "!") = SubSeq(t, 1, n)
      BY <2>3, <3>1, ScanIs
    <3>3. read = Scan(t, VALUE_MAX_LENGTH, "!")
      BY DEF read, t
    <3> QED
      BY <2>4, <3>1, <3>2, <3>3
  <2>6. /\ SubSeq(t, 1, r) \in Seq(Symbols) /\ Len(SubSeq(t, 1, r)) = r
        /\ \A i \in 1 .. r : SubSeq(t, 1, r)[i] = t[i]
    BY <1>1, <2>3, SubSeqProperties
  <2>7. rest \in Seq(Symbols)
    <3>1. Numerals \cup {"O", "K"} \subseteq Symbols
      BY DEF Symbols, Alphabet
    <3> QED
      BY <1>1, <3>1, SeqMonotonic
  <2>8. read = rest
    BY <1>1, <1>3, <1>9, <2>3, <2>5, <2>6, <2>7, SeqEqual
  <2> QED
    BY <1>2, <1>4, <1>6, <1>7, <1>9, <2>2, <2>8
<1> QED
  BY <1>8, <1>9

\* Two words of a table differ in their first two letters.
LEMMA WordsDiffer ==
    /\ \A j, k \in CommandKeywords : j # k =>
           /\ GetKeywordStr[j] # GetKeywordStr[k]
           /\ Letters[GetKeywordStr[j]] # Letters[GetKeywordStr[k]]
    /\ \A j, k \in ResponseKeywords : j # k =>
           /\ GetKeywordStr[j] # GetKeywordStr[k]
           /\ Letters[GetKeywordStr[j]] # Letters[GetKeywordStr[k]]
<1> DEFINE w(k) == Letters[GetKeywordStr[k]]
<1>1. /\ w("OPEN_VALVE")[1] = "O" /\ w("OPEN_VALVE")[2] = "p"
      /\ w("CLOSE_VALVE")[1] = "C" /\ w("CLOSE_VALVE")[2] = "l"
      /\ w("GET_LEVEL")[1] = "G" /\ w("GET_LEVEL")[2] = "e"
      /\ w("COMM_TEST")[1] = "C" /\ w("COMM_TEST")[2] = "o"
      /\ w("SET_MAX")[1] = "S" /\ w("SET_MAX")[2] = "e"
      /\ w("START")[1] = "S" /\ w("START")[2] = "t"
  BY DEF Letters, GetKeywordStr
<1>2. /\ w("OPEN_VALVE_RESPONSE")[1] = "O" /\ w("OPEN_VALVE_RESPONSE")[2] = "p"
      /\ w("CLOSE_VALVE_RESPONSE")[1] = "C" /\ w("CLOSE_VALVE_RESPONSE")[2] = "l"
      /\ w("GET_LEVEL_RESPONSE")[1] = "L" /\ w("GET_LEVEL_RESPONSE")[2] = "e"
      /\ w("COMM_TEST_RESPONSE")[1] = "C" /\ w("COMM_TEST_RESPONSE")[2] = "o"
      /\ w("SET_MAX_RESPONSE")[1] = "M" /\ w("SET_MAX_RESPONSE")[2] = "a"
      /\ w("START_RESPONSE")[1] = "S" /\ w("START_RESPONSE")[2] = "t"
      /\ w("ERROR_RESPONSE")[1] = "E" /\ w("ERROR_RESPONSE")[2] = "r"
  BY DEF Letters, GetKeywordStr
<1> HIDE DEF w
<1>3. \A j, k \in CommandKeywords : j # k => w(j) # w(k)
  BY <1>1 DEF CommandKeywords
<1>4. \A j, k \in ResponseKeywords : j # k => w(j) # w(k)
  BY <1>2 DEF ResponseKeywords
<1> QED
  BY <1>3, <1>4 DEF w

LEMMA FunctionIsSeq ==
    ASSUME NEW C, NEW n \in Nat, NEW f \in [1 .. n -> C]
    PROVE  f \in Seq(C) /\ Len(f) = n
OBVIOUS

LEMMA ReceivedBack ==
    ASSUME NEW text \in Seq(Symbols), Len(text) \in 0 .. BUFFER_LENGTH - 1
    PROVE  ReceivedText(SentBuffer(text)) = text
<1> DEFINE n     == Len(text)
           bytes == SentBuffer(text)
           C     == Symbols \cup {NUL}
           part  == SubSeq(bytes, 1, n)
<1>1. n \in 0 .. 15 /\ n = Len(text)
  BY DEF BUFFER_LENGTH
<1>2. n \in 0 .. 15
  BY <1>1
<1>3. bytes = [i \in 1 .. 16 |-> IF i <= n THEN text[i] ELSE NUL]
  BY DEF SentBuffer, BUFFER_LENGTH
<1>4. \A i \in 1 .. n : text[i] \in Symbols
  BY <1>1
<1> HIDE DEF n, bytes, part
<1>5. bytes \in Seq(C) /\ Len(bytes) = 16
  <2>1. \A i \in 1 .. 16 : i <= n => i \in 1 .. n
    BY <1>2
  <2>2. \A i \in 1 .. 16 : (IF i <= n THEN text[i] ELSE NUL) \in C
    BY <1>4, <2>1
  <2> HIDE DEF C
  <2>3. bytes \in [1 .. 16 -> C]
    BY <1>3, <2>2
  <2> QED
    BY <2>3, FunctionIsSeq
<1>6. \A i \in 1 .. n : bytes[i] = text[i] /\ bytes[i] # NUL
  <2> TAKE i \in 1 .. n
  <2>1. i \in 1 .. 16 /\ i <= n
    BY <1>2
  <2>2. text[i] \in Symbols /\ NUL \notin Symbols
    BY <1>4, Separators DEF Symbols
  <2> QED
    BY <1>3, <2>1, <2>2
<1>7. bytes[n + 1] = NUL
  <2>1. n + 1 \in 1 .. 16 /\ ~ (n + 1 <= n)
    BY <1>2
  <2> QED
    BY <1>3, <2>1
<1>8. StopsAt(n, {NUL}, bytes)
  BY <1>2, <1>5, <1>6, <1>7 DEF StopsAt
<1>9. ReceivedText(bytes) = part
  BY <1>5, <1>8, LengthBeforeIs DEF ReceivedText, part
<1>10. part \in Seq(C) /\ Len(part) = n /\ \A i \in 1 .. n : part[i] = bytes[i]
  <2>1. \A i \in 1 .. n : bytes[i] \in C
    BY <1>4, <1>6
  <2>2. /\ SubSeq(bytes, 1, n) \in Seq(C)
        /\ Len(SubSeq(bytes, 1, n)) = IF 1 <= n THEN n - 1 + 1 ELSE 0
        /\ \A i \in 1 .. n - 1 + 1 : SubSeq(bytes, 1, n)[i] = bytes[1 + i - 1]
    BY <1>2, <2>1, SubSeqProperties
  <2>3. (IF 1 <= n THEN n - 1 + 1 ELSE 0) = n /\ n - 1 + 1 = n
    BY <1>2
  <2>4. \A i \in 1 .. n : 1 + i - 1 = i
    BY <1>2
  <2> QED
    BY <2>2, <2>3, <2>4 DEF part
<1>11. text \in Seq(C)
  <2>1. Symbols \subseteq C
    OBVIOUS
  <2> HIDE DEF C
  <2> QED
    BY <2>1, SeqMonotonic
<1> HIDE DEF C
<1>12. part = text
  BY <1>1, <1>6, <1>10, <1>11, SeqEqual
<1> QED
  BY <1>9, <1>12 DEF bytes

\* The table that holds the keyword of a packet that is sent.
LEMMA TableIs ==
    ASSUME packet \in SentPackets
    PROVE  /\ packet.keyword \in ReceiverKeywords
           /\ \A k \in ReceiverKeywords \ {packet.keyword} :
                  Letters[GetKeywordStr[k]] # Letters[GetKeywordStr[packet.keyword]]
<1>1. packet.keyword \in CommandKeywords \cup ResponseKeywords
  BY DEF SentPackets, IsPacketValid, CommandKeywords, ResponseKeywords
<1>2. CASE packet.keyword \in CommandKeywords
  BY <1>2, WordsDiffer DEF ReceiverKeywords
<1>3. CASE packet.keyword \notin CommandKeywords
  BY <1>1, <1>3, WordsDiffer DEF ReceiverKeywords
<1> QED
  BY <1>2, <1>3

ReadBackInv ==
    /\ packet \in SentPackets
    /\ ~ corrupted => buffer = SentBuffer(FormatText(packet))

LEMMA ReadBackInvHolds == Spec => []ReadBackInv
<1>1. Init => ReadBackInv
  BY DEF Init, ReadBackInv
<1>2. ReadBackInv /\ [Next]_codecVars => ReadBackInv'
  <2> SUFFICES ASSUME ReadBackInv, [Next]_codecVars PROVE ReadBackInv'
    OBVIOUS
  <2>1. CASE CorruptBytes
    BY <2>1 DEF CorruptBytes, ReadBackInv, SentPackets
  <2>2. CASE UNCHANGED codecVars
    BY <2>2 DEF codecVars, ReadBackInv
  <2> QED
    BY <2>1, <2>2 DEF Next
<1> QED
  BY <1>1, <1>2, PTL DEF Spec

(* A packet that reaches the other program as it was sent is read back as  *)
(* itself, for every keyword and every value of up to three digits         *)
(* (format_message, send_message, receive_message, get_keyword_value,      *)
(* get_value, parse_command, parse_response).                              *)
THEOREM SentIsReadBack == Spec => []RoundTrip
<1>1. ReadBackInv => RoundTrip
  <2> SUFFICES ASSUME ReadBackInv, ~ corrupted PROVE Parsed = packet
    BY DEF RoundTrip
  <2> DEFINE text  == FormatText(packet)
             word  == Letters[GetKeywordStr[packet.keyword]]
             table == ReceiverKeywords
             read  == GetKeywordValue(text)
             named == {k \in table : Letters[GetKeywordStr[k]] = read.word}
             valid == {p \in {Packet(k, GetTextValue(read.value)) : k \in named} :
                           IsPacketValid(p)}
  <2>1. packet \in SentPackets /\ buffer = SentBuffer(text)
    BY DEF ReadBackInv
  <2>2. packet.keyword \in Keywords /\ IsWord(word)
    BY <2>1, SentIs
  <2>3. PICK rest : WrittenAs(rest, packet.value) /\ Parts(text, word, rest)
    BY <2>1, SentIs
  <2>4. packet.keyword \in table
        /\ \A k \in table \ {packet.keyword} : Letters[GetKeywordStr[k]] # word
    BY <2>1, TableIs
  <2>5. Parsed = IF valid # {} THEN CHOOSE p \in valid : TRUE ELSE ErrorPacket
    <3>1. ReceivedText(buffer) = text
      <4> HIDE DEF text, word
      <4>1. text \in Seq(Symbols) /\ Len(text) \in Len(word) + 1 .. BUFFER_LENGTH - 1
        BY <2>2, <2>3, TextFacts
      <4> DEFINE w == Len(word)
                 n == Len(text)
      <4>2. w \in Nat /\ n \in w + 1 .. BUFFER_LENGTH - 1
        BY <2>2, <4>1 DEF IsWord
      <4> HIDE DEF w, n
      <4>3. n \in 0 .. BUFFER_LENGTH - 1
        BY <4>2 DEF BUFFER_LENGTH
      <4> QED
        BY <2>1, <4>1, <4>3, ReceivedBack DEF n
    <3> QED
      BY <3>1 DEF Parsed, ParseText
  <2>6. packet \in [keyword : Keywords, value : Values \cup {NO_VALUE, OK_VALUE}]
        /\ IsPacketValid(packet)
    BY <2>1 DEF SentPackets
  <2>7. packet = Packet(packet.keyword, packet.value)
    BY <2>6 DEF Packet
  <2> HIDE DEF text, word, table
  <2>8. read.word = word /\ read.value = rest
    BY <2>2, <2>3, ReadBack
  <2>9. GetTextValue(rest) = packet.value
    BY <2>3, ComplementsAre
  <2> HIDE DEF read
  <2>10. named = {packet.keyword}
    <3>1. Letters[GetKeywordStr[packet.keyword]] = word
      BY DEF word
    <3> QED
      BY <2>4, <2>8, <3>1
  <2> HIDE DEF named
  <2>11. valid = {packet}
    BY <2>6, <2>7, <2>8, <2>9, <2>10
  <2> HIDE DEF valid
  <2> QED
    BY <2>5, <2>11
<1> QED
  BY <1>1, ReadBackInvHolds, PTL

-----------------------------------------------------------------------------
(* What the relay leaves of a text. *)

\* The bytes of sent, but for any number that it has replaced.
Replaced(bytes, sent) ==
    /\ bytes \in [1 .. BUFFER_LENGTH -> Symbols \cup {NUL} \cup Characters]
    /\ \A i \in 1 .. BUFFER_LENGTH : bytes[i] = sent[i] \/ bytes[i] \in Characters

\* T is S, lengthened perhaps, but for the characters that were replaced.
Spoilt(T, S) ==
    /\ Len(S) <= Len(T)
    /\ \A j \in 1 .. Len(T) : T[j] \in Characters \/ (j \in 1 .. Len(S) /\ T[j] = S[j])

LEMMA SentBytes ==
    ASSUME NEW text \in Seq(Symbols)
    PROVE  SentBuffer(text) \in [1 .. BUFFER_LENGTH -> Symbols \cup {NUL}]
<1> DEFINE n == Len(text)
<1>1. n \in Nat /\ \A i \in 1 .. n : text[i] \in Symbols
  OBVIOUS
<1>2. SentBuffer(text) = [i \in 1 .. BUFFER_LENGTH |-> IF i <= n THEN text[i] ELSE NUL]
  BY DEF SentBuffer
<1> HIDE DEF n
<1>3. \A i \in 1 .. BUFFER_LENGTH : i <= n => i \in 1 .. n
  BY <1>1 DEF BUFFER_LENGTH
<1> QED
  BY <1>1, <1>2, <1>3

SpoiltInv ==
    /\ packet \in SentPackets
    /\ Replaced(buffer, SentBuffer(FormatText(packet)))

LEMMA SpoiltInvHolds == Spec => []SpoiltInv
<1>1. Init => SpoiltInv
  <2> SUFFICES ASSUME Init PROVE SpoiltInv
    OBVIOUS
  <2> DEFINE text == FormatText(packet)
  <2>1. packet \in SentPackets /\ buffer = SentBuffer(text)
    BY DEF Init
  <2>2. text \in Seq(Symbols)
    BY <2>1, SentIs DEF Parts
  <2> HIDE DEF text
  <2>3. SentBuffer(text) \in [1 .. BUFFER_LENGTH -> Symbols \cup {NUL}]
    BY <2>2, SentBytes
  <2>4. Replaced(buffer, SentBuffer(text))
    BY <2>1, <2>3 DEF Replaced
  <2> QED
    BY <2>1, <2>4 DEF SpoiltInv, text
<1>2. SpoiltInv /\ [Next]_codecVars => SpoiltInv'
  <2> SUFFICES ASSUME SpoiltInv, [Next]_codecVars PROVE SpoiltInv'
    OBVIOUS
  <2>1. CASE CorruptBytes
    <3> DEFINE sent == SentBuffer(FormatText(packet))
    <3>1. packet \in SentPackets /\ packet' = packet /\ Replaced(buffer, sent)
      BY <2>1 DEF SpoiltInv, CorruptBytes
    <3>2. SentPackets' = SentPackets /\ sent' = sent
      BY <3>1 DEF SentPackets
    <3>3. PICK replaced \in Replacements :
              buffer' = [i \in 1 .. BUFFER_LENGTH |->
                            IF i \in DOMAIN replaced THEN replaced[i] ELSE buffer[i]]
      BY <2>1 DEF CorruptBytes
    <3>4. \A i \in DOMAIN replaced : replaced[i] \in Characters
      BY CodecAssumption
    <3> HIDE DEF sent
    <3>5. Replaced(buffer', sent)
      BY <3>1, <3>3, <3>4 DEF Replaced
    <3> QED
      BY <3>1, <3>2, <3>5 DEF SpoiltInv, sent
  <2>2. CASE UNCHANGED codecVars
    BY <2>2 DEF codecVars, SpoiltInv, SentPackets
  <2> QED
    BY <2>1, <2>2 DEF Next
<1> QED
  BY <1>1, <1>2, PTL DEF Spec

LEMMA ReceivedSpoilt ==
    ASSUME NEW S \in Seq(Symbols), Len(S) \in 0 .. BUFFER_LENGTH - 1,
           NEW bytes, Replaced(bytes, SentBuffer(S))
    PROVE  /\ ReceivedText(bytes) \in Seq(Symbols \cup Characters)
           /\ Spoilt(ReceivedText(bytes), S)
<1> DEFINE n    == Len(S)
           C    == Symbols \cup Characters
           B    == Symbols \cup {NUL} \cup Characters
           sent == SentBuffer(S)
           m    == LengthBefore({NUL}, bytes)
           T    == SubSeq(bytes, 1, m)
<1>1. n \in 0 .. 15
  BY DEF BUFFER_LENGTH
<1>2. NUL \notin C
  <2>1. NUL \notin Symbols
    BY Separators DEF Symbols
  <2>2. NUL \notin Characters
    BY CodecAssumption DEF NUL
  <2> QED
    BY <2>1, <2>2
<1>3. \A i \in 1 .. n : S[i] \in Symbols
  OBVIOUS
<1>4. sent = [i \in 1 .. 16 |-> IF i <= n THEN S[i] ELSE NUL]
  BY DEF SentBuffer, BUFFER_LENGTH
<1>5. /\ bytes \in [1 .. 16 -> B]
      /\ \A i \in 1 .. 16 : bytes[i] = sent[i] \/ bytes[i] \in Characters
  BY DEF Replaced, BUFFER_LENGTH
<1>6. ReceivedText(bytes) = T
  BY DEF ReceivedText
<1> HIDE DEF n, sent, m
<1>7. bytes \in Seq(B) /\ Len(bytes) = 16
  <2> HIDE DEF B
  <2> QED
    BY <1>5, FunctionIsSeq
<1>8. /\ m \in 0 .. 16
      /\ m = 16 \/ bytes[m + 1] = NUL
      /\ \A i \in 1 .. m : bytes[i] # NUL
  <2>1. StopsAt(m, {NUL}, bytes)
    <3> HIDE DEF B
    <3> QED
      BY <1>7, LengthBeforeIs DEF m
  <2> QED
    BY <1>7, <2>1 DEF StopsAt
<1>9. n <= m
  <2> SUFFICES ASSUME m < n PROVE FALSE
    BY <1>1, <1>8
  <2>1. m + 1 \in 1 .. n /\ m + 1 \in 1 .. 16 /\ m + 1 <= n /\ bytes[m + 1] = NUL
    BY <1>1, <1>8
  <2>2. sent[m + 1] = S[m + 1] /\ S[m + 1] \in Symbols
    BY <1>3, <1>4, <2>1
  <2>3. bytes[m + 1] \in C
    BY <1>5, <2>1, <2>2
  <2> QED
    BY <1>2, <2>1, <2>3
<1>10. \A i \in 1 .. m : bytes[i] \in C
  <2> TAKE i \in 1 .. m
  <2>1. i \in 1 .. 16
    BY <1>8
  <2> QED
    BY <1>5, <1>8, <2>1
<1>11. /\ T \in Seq(C) /\ Len(T) = m
       /\ \A i \in 1 .. m : T[i] = bytes[i]
  <2> HIDE DEF C
  <2>1. /\ SubSeq(bytes, 1, m) \in Seq(C)
        /\ Len(SubSeq(bytes, 1, m)) = IF 1 <= m THEN m - 1 + 1 ELSE 0
        /\ \A i \in 1 .. m - 1 + 1 : SubSeq(bytes, 1, m)[i] = bytes[1 + i - 1]
    BY <1>8, <1>10, SubSeqProperties
  <2>2. (IF 1 <= m THEN m - 1 + 1 ELSE 0) = m /\ m - 1 + 1 = m
    BY <1>8
  <2>3. \A i \in 1 .. m : 1 + i - 1 = i
    BY <1>8
  <2> QED
    BY <2>1, <2>2, <2>3
<1> HIDE DEF T
<1>12. ASSUME NEW j \in 1 .. m, T[j] \notin Characters
       PROVE  j \in 1 .. n /\ T[j] = S[j]
  <2>1. j \in 1 .. 16
    BY <1>8
  <2>2. T[j] = sent[j] /\ T[j] # NUL
    BY <1>5, <1>8, <1>11, <1>12, <2>1
  <2>3. j <= n
    BY <1>4, <2>1, <2>2
  <2>4. j \in 1 .. n /\ sent[j] = S[j]
    BY <1>1, <1>4, <2>1, <2>3
  <2> QED
    BY <2>2, <2>4
<1>13. Spoilt(T, S)
  <2>1. Len(S) <= Len(T)
    BY <1>9, <1>11 DEF n
  <2> QED
    BY <1>11, <1>12, <2>1 DEF Spoilt, n
<1> QED
  BY <1>6, <1>11, <1>13

-----------------------------------------------------------------------------
(* How it is read. *)

(* What is read of T, when w characters were written before the separator  *)
(* and r after it: nothing; as many; or, the separator being replaced, one *)
(* word of them all, if it is not too long.                                *)
ReadAs(read, T, w, r) ==
    \/ read = NothingRead
    \/ \E n \in 1 .. Len(T) :
           /\ read.word = SubSeq(T, 1, n)
           /\ \/ r = 0 /\ n = w /\ read.value = <<>> /\ T[n + 1] = "!"
              \/ /\ r # 0 /\ n = w /\ read.value \in Seq(Symbols \cup Characters)
                 /\ Len(read.value) = r /\ Len(T) >= w + r + 2
              \/ r # 0 /\ (n = w + r + 1 \/ n = KEYWORD_MAX_LENGTH) /\ read.value = <<>>

LEMMA SeparatorsStay ==
    ASSUME NEW T, NEW S, Spoilt(T, S), NEW j \in 1 .. Len(T), T[j] \in {"#", "!"}
    PROVE  j \in 1 .. Len(S) /\ T[j] = S[j]
<1>1. T[j] \notin Characters
  BY CodecAssumption
<1> QED
  BY <1>1 DEF Spoilt

LEMMA ReadSpoilt ==
    ASSUME NEW S, NEW word, NEW rest, Parts(S, word, rest), IsWord(word),
           NEW value, WrittenAs(rest, value),
           NEW T \in Seq(Symbols \cup Characters), Spoilt(T, S)
    PROVE  ReadAs(GetKeywordValue(T), T, Len(word), Len(rest))
<1> DEFINE C       == Symbols \cup Characters
           w       == Len(word)
           r       == Len(rest)
           m       == Len(T)
           stop    == IF Contains(T, "#") THEN "#" ELSE "!"
           keyword == Scan(T, KEYWORD_MAX_LENGTH, stop)
           after   == SubSeq(T, Len(keyword) + 1, m)
           tail    == Tail(after)
           scanned == Scan(tail, VALUE_MAX_LENGTH, "!")
           read    == GetKeywordValue(T)
<1>1. /\ w \in 3 .. 10 /\ r \in 0 .. 3
      /\ \A i \in 1 .. w : word[i] \in Alphabet
      /\ \A i \in 1 .. r : rest[i] \in Numerals \cup {"O", "K"}
  BY ComplementsAre DEF IsWord, Rests, KEYWORD_MAX_LENGTH, VALUE_MAX_LENGTH
<1>2. rest = <<>> <=> r = 0
  <2>1. rest \in Rests
    BY ComplementsAre
  <2> QED
    BY <2>1 DEF Rests
<1>3. read = IF ~ Contains(T, "!") \/ keyword = <<>> THEN NothingRead
             ELSE IF ~ Contains(T, "#") THEN [word |-> keyword, value |-> <<>>]
             ELSE IF Head(after) = "#" /\ scanned # <<>>
                  THEN [word |-> keyword, value |-> scanned]
             ELSE NothingRead
  BY DEF GetKeywordValue
<1>4. /\ S \in Seq(Symbols)
      /\ \A i \in 1 .. w : S[i] = word[i]
      /\ r = 0 => Len(S) = w + 1 /\ S[w + 1] = "!"
      /\ r # 0 => /\ Len(S) = w + r + 2 /\ S[w + 1] = "#" /\ S[w + r + 2] = "!"
                  /\ \A i \in 1 .. r : S[w + 1 + i] = rest[i]
  BY <1>2 DEF Parts
<1>5. m \in Nat /\ m >= Len(S)
  BY DEF Spoilt
<1> HIDE DEF w, r, m, read, C
\* The separators can only be where they were.
<1>6. \A j \in 1 .. m : T[j] = "#" => r # 0 /\ j = w + 1
  <2> TAKE j \in 1 .. m
  <2> SUFFICES ASSUME T[j] = "#" PROVE r # 0 /\ j = w + 1
    OBVIOUS
  <2>1. j \in 1 .. Len(S) /\ S[j] = "#"
    BY SeparatorsStay DEF m
  <2>2. \A i \in 1 .. w : S[i] # "#"
    BY <1>1, <1>4, Separators
  <2>3. \A i \in 1 .. r : rest[i] # "#"
    BY <1>1, Separators DEF Alphabet
  <2>4. CASE r = 0
    <3>1. j \in 1 .. w \/ j = w + 1
      BY <1>1, <1>4, <2>1, <2>4
    <3> QED
      BY <1>4, <2>1, <2>2, <2>4, <3>1
  <2>5. CASE r # 0
    <3>1. \/ j \in 1 .. w \/ j = w + 1 \/ j = w + r + 2
          \/ j - w - 1 \in 1 .. r /\ w + 1 + (j - w - 1) = j
      BY <1>1, <1>4, <2>1, <2>5
    <3> QED
      BY <1>4, <2>1, <2>2, <2>3, <2>5, <3>1
  <2> QED
    BY <2>4, <2>5
<1>7. \A j \in 1 .. m : T[j] = "!" => j = IF r = 0 THEN w + 1 ELSE w + r + 2
  <2> TAKE j \in 1 .. m
  <2> SUFFICES ASSUME T[j] = "!" PROVE j = IF r = 0 THEN w + 1 ELSE w + r + 2
    OBVIOUS
  <2>1. j \in 1 .. Len(S) /\ S[j] = "!"
    BY SeparatorsStay DEF m
  <2>2. \A i \in 1 .. w : S[i] # "!"
    BY <1>1, <1>4, Separators
  <2>3. \A i \in 1 .. r : rest[i] # "!"
    BY <1>1, Separators DEF Alphabet
  <2>4. CASE r = 0
    <3>1. j \in 1 .. w \/ j = w + 1
      BY <1>1, <1>4, <2>1, <2>4
    <3> QED
      BY <2>1, <2>2, <2>4, <3>1
  <2>5. CASE r # 0
    <3>1. \/ j \in 1 .. w \/ j = w + 1 \/ j = w + r + 2
          \/ j - w - 1 \in 1 .. r /\ w + 1 + (j - w - 1) = j
      BY <1>1, <1>4, <2>1, <2>5
    <3> QED
      BY <1>4, <2>1, <2>2, <2>3, <2>5, <3>1
  <2> QED
    BY <2>4, <2>5
<1>8. /\ Contains(T, "#") <=> \E j \in 1 .. m : T[j] = "#"
      /\ Contains(T, "!") <=> \E j \in 1 .. m : T[j] = "!"
  BY DEF Contains, m
<1>9. ASSUME NEW n \in 1 .. m, n + 1 \in 1 .. m, T[n + 1] = stop,
             \A i \in 1 .. n : T[i] # stop
      PROVE  keyword = SubSeq(T, 1, IF n <= 10 THEN n ELSE 10)
  <2>1. StopsAt(n, {stop}, T)
    BY <1>5, <1>9 DEF StopsAt, m
  <2> HIDE DEF stop, keyword
  <2>2. CASE n <= 10
    <3>1. \A k : k <= KEYWORD_MAX_LENGTH /\ StopsAt(k, {stop}, T) =>
              Scan(T, KEYWORD_MAX_LENGTH, stop) = SubSeq(T, 1, k)
      BY ScanIs DEF KEYWORD_MAX_LENGTH
    <3> QED
      BY <2>1, <2>2, <3>1 DEF KEYWORD_MAX_LENGTH, keyword
  <2>3. CASE ~ (n <= 10)
    <3>1. KEYWORD_MAX_LENGTH \in Nat /\ KEYWORD_MAX_LENGTH < n
      BY <2>3 DEF KEYWORD_MAX_LENGTH
    <3>2. Scan(T, KEYWORD_MAX_LENGTH, stop) = SubSeq(T, 1, KEYWORD_MAX_LENGTH)
      BY <2>1, <3>1, ScanIsCut
    <3> QED
      BY <2>3, <3>2 DEF KEYWORD_MAX_LENGTH, keyword
  <2> QED
    BY <2>2, <2>3
<1>10. CASE ~ Contains(T, "!")
  BY <1>3, <1>10 DEF ReadAs, read
<1>11. CASE Contains(T, "!") /\ ~ Contains(T, "#")
  <2> DEFINE n == IF r = 0 THEN w ELSE w + r + 1
             k == IF n <= 10 THEN n ELSE 10
  <2>1. /\ n \in 1 .. m /\ n + 1 \in 1 .. m /\ T[n + 1] = "!"
        /\ \A i \in 1 .. n : T[i] # "!"
    <3>1. PICK j \in 1 .. m : T[j] = "!"
      BY <1>8, <1>11
    <3>2. j = n + 1 /\ n \in 1 .. m
      BY <1>1, <1>5, <1>7, <3>1
    <3>3. ASSUME NEW i \in 1 .. n, T[i] = "!" PROVE FALSE
      <4>1. i \in 1 .. m /\ i # n + 1
        BY <1>5, <3>2
      <4> QED
        BY <1>1, <1>7, <3>3, <4>1
    <3> QED
      BY <3>1, <3>2, <3>3
  <2>2. stop = "!"
    BY <1>11
  <2>3. keyword = SubSeq(T, 1, k)
    <3> HIDE DEF stop, keyword, n
    <3> QED
      BY <1>9, <2>1, <2>2
  <2>4. k \in 1 .. m
    BY <1>1, <1>5, <2>1
  <2>5. read = NothingRead \/ read = [word |-> keyword, value |-> <<>>]
    <3> HIDE DEF keyword, after, scanned
    <3> QED
      BY <1>3, <1>11
  <2>6. \/ r = 0 /\ k = w /\ T[k + 1] = "!"
        \/ r # 0 /\ (k = w + r + 1 \/ k = 10)
    BY <1>1, <2>1
  <2> HIDE DEF keyword, n, k, read
  <2> QED
    BY <2>3, <2>4, <2>5, <2>6 DEF ReadAs, read, w, r, m, KEYWORD_MAX_LENGTH
<1>12. CASE Contains(T, "!") /\ Contains(T, "#")
  <2>1. r \in 1 .. 3 /\ T[w + 1] = "#" /\ \A i \in 1 .. w : T[i] # "#"
    <3>1. PICK j \in 1 .. m : T[j] = "#"
      BY <1>8, <1>12
    <3>2. r # 0 /\ j = w + 1
      BY <1>6, <3>1
    <3>3. \A i \in 1 .. w : i \in 1 .. m /\ i # w + 1
      BY <1>1, <1>5, <3>1, <3>2
    <3> QED
      BY <1>1, <1>6, <3>1, <3>2, <3>3
  <2>2. /\ w + r + 2 \in 1 .. m /\ T[w + r + 2] = "!"
        /\ \A i \in 1 .. m : i # w + r + 2 => T[i] # "!"
    <3>1. PICK j \in 1 .. m : T[j] = "!"
      BY <1>8, <1>12
    <3> QED
      BY <1>1, <1>5, <1>7, <2>1, <3>1
  <2>3. stop = "#"
    BY <1>12
  <2>4. keyword = SubSeq(T, 1, w)
    <3>1. w \in 1 .. m /\ w + 1 \in 1 .. m /\ w <= 10
      BY <1>1, <1>5, <2>1, <2>2
    <3>2. keyword = SubSeq(T, 1, IF w <= 10 THEN w ELSE 10)
      <4> HIDE DEF stop, keyword
      <4> QED
        BY <1>9, <2>1, <2>3, <3>1
    <3> HIDE DEF keyword
    <3> QED
      BY <3>1, <3>2
  <2>5. Len(keyword) = w /\ keyword # <<>>
    <3>1. T \in Seq(C) /\ w \in 1 .. Len(T)
      BY <1>1, <2>1, <2>2 DEF C, m
    <3>2. Len(SubSeq(T, 1, w)) = w
      <4> HIDE DEF C
      <4> QED
        BY <3>1, SubSeqProperties
    <3> HIDE DEF keyword
    <3>3. Len(keyword) = w
      BY <2>4, <3>2
    <3>4. Len(<<>>) = 0 /\ w # 0
      BY <1>1
    <3> QED
      BY <3>3, <3>4
  <2>6. CASE read = NothingRead
    BY <2>6 DEF ReadAs, read
  <2>7. CASE read # NothingRead
    <3>1. read = [word |-> keyword, value |-> scanned]
      <4> HIDE DEF keyword, after, scanned
      <4> QED
        BY <1>3, <1>12, <2>7
    <3> HIDE DEF keyword, read
    <3>2. /\ after \in Seq(C) /\ Len(after) = m - w
          /\ \A i \in 1 .. m - w : after[i] = T[w + i]
      <4>1. after = SubSeq(T, w + 1, m)
        BY <2>5
      <4>2. /\ T \in Seq(C) /\ w + 1 \in 1 .. m + 1 /\ m = Len(T) /\ m \in Nat
            /\ w + 1 <= m
        BY <1>1, <1>5, <2>1, <2>2 DEF C, m
      <4>3. \A i \in w + 1 .. m : T[i] \in C
        BY <1>1, <4>2
      <4> DEFINE a == w + 1
      <4> HIDE DEF a, after, C
      <4>4. a \in Int /\ a <= m /\ m \in Int /\ \A i \in a .. m : T[i] \in C
        BY <1>1, <4>2, <4>3 DEF a
      <4>5. /\ SubSeq(T, a, m) \in Seq(C)
            /\ Len(SubSeq(T, a, m)) = IF a <= m THEN m - a + 1 ELSE 0
            /\ \A i \in 1 .. m - a + 1 : SubSeq(T, a, m)[i] = T[a + i - 1]
        BY <4>4, SubSeqProperties
      <4>6. m - a + 1 = m - w /\ \A i \in 1 .. m - w : a + i - 1 = w + i
        BY <1>1, <4>2 DEF a
      <4> QED
        BY <4>1, <4>4, <4>5, <4>6 DEF a
    <3> HIDE DEF after
    <3>3. /\ tail \in Seq(C) /\ Len(tail) = m - w - 1
          /\ \A i \in 1 .. m - w - 1 : tail[i] = T[w + 1 + i]
      <4>1. after # <<>>
        BY <1>1, <1>5, <2>1, <2>2, <3>2
      <4> HIDE DEF C
      <4>2. /\ tail \in Seq(C) /\ Len(tail) = Len(after) - 1
            /\ \A i \in 1 .. Len(tail) : tail[i] = after[i + 1]
        BY <3>2, <4>1, HeadTailProperties
      <4> HIDE DEF tail
      <4>3. Len(tail) = m - w - 1
        BY <3>2, <4>2
      <4>4. ASSUME NEW i \in 1 .. m - w - 1 PROVE tail[i] = T[w + 1 + i]
        <5>1. i + 1 \in 1 .. m - w /\ w + (i + 1) = w + 1 + i
          BY <1>1, <1>5
        <5> QED
          BY <3>2, <4>2, <4>3, <5>1
      <4> QED
        BY <4>2, <4>3, <4>4
    <3> HIDE DEF tail
    <3>4. StopsAt(r, {"!"}, tail)
      <4>1. r \in 0 .. Len(tail) /\ r + 1 \in 1 .. m - w - 1 /\ w + 1 + (r + 1) = w + r + 2
        BY <1>1, <1>5, <2>1, <2>2, <3>3
      <4>2. tail[r + 1] = "!"
        BY <2>2, <3>3, <4>1
      <4>3. \A i \in 1 .. r : i \in 1 .. m - w - 1 /\ w + 1 + i \in 1 .. m /\ w + 1 + i # w + r + 2
        BY <1>1, <1>5, <2>2, <3>3, <4>1
      <4>4. \A i \in 1 .. r : tail[i] # "!"
        BY <2>2, <3>3, <4>3
      <4> QED
        BY <4>1, <4>2, <4>4 DEF StopsAt
    <3>5. scanned = SubSeq(tail, 1, r)
      <4>1. VALUE_MAX_LENGTH \in Nat /\ r <= VALUE_MAX_LENGTH
        BY <1>1 DEF VALUE_MAX_LENGTH
      <4> HIDE DEF C
      <4>2. \A k : k <= VALUE_MAX_LENGTH /\ StopsAt(k, {"!"}, tail) =>
                       Scan(tail, VALUE_MAX_LENGTH, "!") = SubSeq(tail, 1, k)
        BY <3>3, <4>1, ScanIs
      <4> QED
        BY <3>4, <4>1, <4>2
    <3> HIDE DEF scanned
    <3>6. scanned \in Seq(C) /\ Len(scanned) = r
      <4>1. r \in 1 .. Len(tail)
        BY <1>1, <1>5, <2>1, <2>2, <3>3
      <4>2. \A i \in 1 .. r : tail[i] \in C
        BY <3>3, <4>1
      <4> HIDE DEF C
      <4>3. /\ SubSeq(tail, 1, r) \in Seq(C)
            /\ Len(SubSeq(tail, 1, r)) = IF 1 <= r THEN r - 1 + 1 ELSE 0
        BY <3>3, <4>1, <4>2, SubSeqProperties
      <4>4. 1 <= r /\ r - 1 + 1 = r
        BY <2>1
      <4> QED
        BY <3>5, <4>3, <4>4
    <3>7. w \in 1 .. m /\ m >= w + r + 2 /\ r # 0
      BY <1>1, <1>5, <2>1, <2>2
    <3>8. read.word = SubSeq(T, 1, w) /\ read.value = scanned
      BY <2>4, <3>1
    <3> QED
      BY <3>6, <3>7, <3>8 DEF ReadAs, read, w, r, m, C
  <2> QED
    BY <2>6, <2>7
<1> QED
  BY <1>10, <1>11, <1>12

-----------------------------------------------------------------------------
(* What it is parsed as. *)

LEMMA WordLengthIs ==
    \A k \in Keywords : WordLength[GetKeywordStr[k]] = Len(Letters[GetKeywordStr[k]])
<1>1. \A k \in Keywords :
          GetKeywordStr[k] \in {"OpenValve", "CloseValve", "GetLevel", "CommTest", "SetMax",
                                "Open", "Close", "Level", "Comm", "Max", "Start", "Err"}
  BY DEF Keywords, CommandKeywords, ResponseKeywords, GetKeywordStr
<1>2. /\ WordLength["OpenValve"] = 9 /\ WordLength["CloseValve"] = 10
      /\ WordLength["GetLevel"] = 8 /\ WordLength["CommTest"] = 8 /\ WordLength["SetMax"] = 6
      /\ WordLength["Open"] = 4 /\ WordLength["Close"] = 5 /\ WordLength["Level"] = 5
      /\ WordLength["Comm"] = 4 /\ WordLength["Max"] = 3 /\ WordLength["Start"] = 5
      /\ WordLength["Err"] = 3
  BY DEF WordLength
<1>3. /\ Len(Letters["OpenValve"]) = 9 /\ Len(Letters["CloseValve"]) = 10
      /\ Len(Letters["GetLevel"]) = 8 /\ Len(Letters["CommTest"]) = 8
      /\ Len(Letters["SetMax"]) = 6
  BY DEF Letters
<1>4. /\ Len(Letters["Open"]) = 4 /\ Len(Letters["Close"]) = 5 /\ Len(Letters["Level"]) = 5
      /\ Len(Letters["Comm"]) = 4 /\ Len(Letters["Max"]) = 3 /\ Len(Letters["Start"]) = 5
      /\ Len(Letters["Err"]) = 3
  BY DEF Letters
<1> QED
  BY <1>1, <1>2, <1>3, <1>4

\* The packets without a complement have words of 8, 5 and 3 letters.
LEMMA BareWords ==
    ASSUME NEW p, p.keyword \in Keywords, IsPacketValid(p), p.value = NO_VALUE
    PROVE  /\ WordLength[GetKeywordStr[p.keyword]] \in {8, 5, 3}
           /\ p.keyword \in ResponseKeywords => p.keyword = "ERROR_RESPONSE"
<1>1. p.keyword \in {"GET_LEVEL", "COMM_TEST", "START", "ERROR_RESPONSE"}
  <2>1. NO_VALUE \notin MIN_VALUE .. MAX_VALUE /\ NO_VALUE # OK_VALUE
    BY DEF NO_VALUE, OK_VALUE, MIN_VALUE
  <2> QED
    BY <2>1 DEF IsPacketValid
<1> QED
  BY <1>1 DEF WordLength, GetKeywordStr, ResponseKeywords

\* T begins with the word of p, and has room for the complement of p.
Begins(T, p) ==
    LET word == Letters[GetKeywordStr[p.keyword]]
    IN  /\ \A i \in 1 .. Len(word) : T[i] = word[i]
        /\ Len(T) >= Len(word)
        /\ p.value # NO_VALUE => Len(T) >= Len(word) + 3
        /\ p.keyword = "ERROR_RESPONSE" => T[4] = "!"

\* A packet that is read of a spoilt text is one that Altered has.
LEMMA ParsedSpoilt ==
    ASSUME packet \in SentPackets,
           NEW T \in Seq(Symbols \cup Characters), Spoilt(T, FormatText(packet))
    PROVE  LET p == ParseText(ReceiverKeywords, T)
           IN  \/ p = ErrorPacket
               \/ /\ p.keyword \in ReceiverKeywords
                  /\ IsPacketValid(p)
                  /\ p = Packet(p.keyword, p.value)
                  /\ Begins(T, p)
                  /\ Respelt(FormatMessage("peer", packet), p)
<1> DEFINE C     == Symbols \cup Characters
           word  == Letters[GetKeywordStr[packet.keyword]]
           read  == GetKeywordValue(T)
           named == {k \in ReceiverKeywords : Letters[GetKeywordStr[k]] = read.word}
           valid == {p \in {Packet(k, GetTextValue(read.value)) : k \in named} :
                         IsPacketValid(p)}
           p     == ParseText(ReceiverKeywords, T)
           w     == Len(word)
<1>1. p = IF valid # {} THEN CHOOSE q \in valid : TRUE ELSE ErrorPacket
  BY DEF ParseText
<1>2. packet.keyword \in Keywords /\ IsWord(word)
      /\ \E rest : WrittenAs(rest, packet.value) /\ Parts(FormatText(packet), word, rest)
  BY SentIs
<1>3. PICK rest : WrittenAs(rest, packet.value) /\ Parts(FormatText(packet), word, rest)
  BY <1>2
<1> DEFINE r == Len(rest)
<1>4. ReadAs(read, T, w, r)
  BY <1>2, <1>3, ReadSpoilt
<1>5. w \in 3 .. 10 /\ r \in 0 .. 3 /\ (r = 0 <=> packet.value = NO_VALUE)
  <2>1. w \in 3 .. 10
    BY <1>2 DEF IsWord, KEYWORD_MAX_LENGTH
  <2>2. rest \in Rests /\ Len(rest) \in 0 .. 3 /\ GetTextValue(rest) = packet.value
    BY <1>3, ComplementsAre DEF VALUE_MAX_LENGTH
  <2>3. rest = <<>> <=> packet.value = NO_VALUE
    <3>1. \A v \in 0 .. 999 : v # NO_VALUE
      BY DEF NO_VALUE
    <3>2. IsNumeral(rest, packet.value) => rest # <<>>
      BY DEF IsNumeral
    <3>3. <<"O", "K">> # <<>> /\ OK_VALUE # NO_VALUE
      BY DEF OK_VALUE, NO_VALUE
    <3> QED
      BY <1>3, <3>1, <3>2, <3>3 DEF WrittenAs
  <2>4. rest = <<>> <=> r = 0
    BY <2>2 DEF Rests
  <2> QED
    BY <2>1, <2>2, <2>3, <2>4
<1>6. w = WordLength[GetKeywordStr[packet.keyword]]
  BY <1>2, WordLengthIs
<1> HIDE DEF read, p, w, r, word, C
<1>7. CASE valid = {}
  BY <1>1, <1>7 DEF p
<1>8. CASE valid # {}
  <2>1. p \in valid
    BY <1>1, <1>8
  <2>2. PICK k \in named : p = Packet(k, GetTextValue(read.value)) /\ IsPacketValid(p)
    BY <2>1
  <2>3. /\ p.keyword = k /\ p.value = GetTextValue(read.value)
        /\ k \in ReceiverKeywords /\ k \in Keywords
        /\ Letters[GetKeywordStr[k]] = read.word
    BY <2>2 DEF Packet, ReceiverKeywords, Keywords
  <2> DEFINE own == Letters[GetKeywordStr[k]]
             o   == Len(own)
             t   == Len(T)
  <2>4. IsWord(own) /\ o = WordLength[GetKeywordStr[k]]
    BY <2>3, LettersAreWords, WordLengthIs
  <2>5. o \in 3 .. 10
    BY <2>4 DEF IsWord, KEYWORD_MAX_LENGTH
  <2>6. read # NothingRead
    <3>1. own = read.word /\ own \in Seq(Alphabet) /\ Len(own) # 0
      BY <2>3, <2>4, <2>5 DEF IsWord
    <3> HIDE DEF own
    <3>2. own # <<>>
      BY <3>1
    <3> QED
      BY <3>1, <3>2 DEF NothingRead
  <2>7. PICK n \in 1 .. t :
            /\ read.word = SubSeq(T, 1, n)
            /\ \/ r = 0 /\ n = w /\ read.value = <<>> /\ T[n + 1] = "!"
               \/ /\ r # 0 /\ n = w /\ read.value \in Seq(C)
                  /\ Len(read.value) = r /\ t >= w + r + 2
               \/ r # 0 /\ (n = w + r + 1 \/ n = KEYWORD_MAX_LENGTH) /\ read.value = <<>>
    BY <1>4, <2>6 DEF ReadAs, C
  <2>8. o = n /\ \A i \in 1 .. o : T[i] = own[i]
    <3>1. T \in Seq(C) /\ n \in 1 .. Len(T)
      BY <2>7 DEF C
    <3>2. Len(SubSeq(T, 1, n)) = n /\ \A i \in 1 .. n : SubSeq(T, 1, n)[i] = T[i]
      BY <3>1, SubSeqProperties
    <3>3. own = SubSeq(T, 1, n)
      BY <2>3, <2>7
    <3> HIDE DEF own
    <3> QED
      BY <3>2, <3>3
  <2>9. t \in Nat /\ t >= n
    BY <2>7
  <2>10. /\ read.value = <<>> => p.value = NO_VALUE
         /\ read.value \in Seq(C) /\ Len(read.value) = r /\ r # 0 => p.value # NO_VALUE
    <3>1. GetTextValue(<<>>) = NO_VALUE
      <4>1. <<>> # <<"O", "K">>
        OBVIOUS
      <4> QED
        BY <4>1 DEF GetTextValue
    <3>2. ASSUME NEW text \in Seq(C), Len(text) = r, r # 0 PROVE GetTextValue(text) # NO_VALUE
      <4>1. Len(text) \in 0 .. 3
        BY <1>5, <3>2
      <4>2. Atoi(text) \in Nat
        BY <4>1, AtoiIsNatural
      <4>3. text # <<>>
        BY <3>2
      <4>4. NO_VALUE \notin Nat /\ OK_VALUE # NO_VALUE
        BY DEF NO_VALUE, OK_VALUE
      <4> QED
        BY <4>2, <4>3, <4>4 DEF GetTextValue
    <3> QED
      BY <2>3, <3>1, <3>2
  <2>11. p.value = NO_VALUE => o \in {8, 5, 3} /\ (k \in ResponseKeywords => k = "ERROR_RESPONSE")
    BY <2>2, <2>3, <2>4, BareWords
  <2>12. k = "ERROR_RESPONSE" => o = 3 /\ p.value = NO_VALUE
    <3>1. k = "ERROR_RESPONSE" => o = 3
      BY <2>4 DEF WordLength, GetKeywordStr
    <3>2. k = "ERROR_RESPONSE" => p.value = NO_VALUE
      BY <2>2, <2>3 DEF IsPacketValid
    <3> QED
      BY <3>1, <3>2
  <2>13. FormatMessage("peer", packet).word = GetKeywordStr[packet.keyword]
         /\ (FormatMessage("peer", packet).complement.kind # "none" <=> packet.value # NO_VALUE)
    <3>1. OK_VALUE # NO_VALUE
      BY DEF OK_VALUE, NO_VALUE
    <3>2. Complement(packet.value).kind = "none" <=> packet.value = NO_VALUE
      BY <3>1 DEF Complement
    <3> QED
      BY <3>2 DEF FormatMessage
  <2> HIDE DEF own, o, t
  <2>14. \/ r = 0 /\ o = w /\ p.value = NO_VALUE /\ T[o + 1] = "!"
         \/ r # 0 /\ o = w /\ p.value # NO_VALUE /\ t >= o + 3
         \/ r # 0 /\ o = w + r + 1 /\ p.value = NO_VALUE
    <3>1. CASE r = 0 /\ n = w /\ read.value = <<>> /\ T[n + 1] = "!"
      BY <2>8, <2>10, <3>1
    <3>2. CASE /\ r # 0 /\ n = w /\ read.value \in Seq(C)
               /\ Len(read.value) = r /\ t >= w + r + 2
      BY <1>5, <2>8, <2>9, <2>10, <3>2
    <3>3. CASE r # 0 /\ (n = w + r + 1 \/ n = KEYWORD_MAX_LENGTH) /\ read.value = <<>>
      BY <2>8, <2>10, <2>11, <3>3 DEF KEYWORD_MAX_LENGTH
    <3> QED
      BY <2>7, <3>1, <3>2, <3>3
  <2>15. Begins(T, p)
    <3>1. k = "ERROR_RESPONSE" => T[4] = "!"
      BY <1>5, <2>12, <2>14
    <3>2. t >= o /\ (p.value # NO_VALUE => t >= o + 3)
      BY <2>8, <2>9, <2>14
    <3> QED
      BY <2>3, <2>8, <3>1, <3>2 DEF Begins, own, o, t
  <2>16. Respelt(FormatMessage("peer", packet), p)
    <3>1. \/ o - w = 0 /\ (p.value # NO_VALUE <=> packet.value # NO_VALUE)
          \/ o - w \in 2 .. 4 /\ p.value = NO_VALUE /\ packet.value # NO_VALUE
      BY <1>5, <2>5, <2>14
    <3> QED
      BY <1>6, <2>3, <2>4, <2>13, <3>1 DEF Respelt
  <2> QED
    BY <2>2, <2>3, <2>15, <2>16 DEF p, Packet
<1> QED
  BY <1>7, <1>8

-----------------------------------------------------------------------------
(* What it resembles. *)

\* What stands around the words of the texts that are sent.
Marks == Numerals \cup {"O", "K", "#", "!"}

LettersOf(word) == {word[i] : i \in 1 .. Len(word)}

LEMMA TextWithin ==
    ASSUME NEW text, NEW word, NEW rest, Parts(text, word, rest), IsWord(word),
           NEW value, WrittenAs(rest, value)
    PROVE  /\ text[1] = word[1]
           /\ Len(text) >= Len(word) + 1
           /\ \A j \in 1 .. Len(text) : text[j] \in LettersOf(word) \cup Marks
<1> DEFINE w == Len(word)
           r == Len(rest)
           n == Len(text)
<1>1. w \in 3 .. 10 /\ r \in 0 .. 3 /\ rest \in Rests
  BY ComplementsAre DEF IsWord, KEYWORD_MAX_LENGTH, VALUE_MAX_LENGTH
<1>2. \A i \in 1 .. r : rest[i] \in Marks
  BY <1>1 DEF Rests, Marks
<1>3. \A i \in 1 .. w : text[i] = word[i] /\ word[i] \in LettersOf(word)
  BY DEF Parts, LettersOf
<1>4. \/ n = w + 1 /\ text[w + 1] = "!"
      \/ /\ n = w + r + 2 /\ text[w + 1] = "#" /\ text[w + r + 2] = "!"
         /\ \A i \in 1 .. r : text[w + 1 + i] = rest[i]
  BY DEF Parts
<1>5. "!" \in Marks /\ "#" \in Marks
  BY DEF Marks
<1> HIDE DEF w, r, n
<1>6. n >= w + 1 /\ 1 \in 1 .. w
  BY <1>1, <1>4
<1>7. ASSUME NEW j \in 1 .. n PROVE text[j] \in LettersOf(word) \cup Marks
  <2>1. CASE n = w + 1 /\ text[w + 1] = "!"
    <3>1. j \in 1 .. w \/ j = w + 1
      BY <1>1, <2>1
    <3> QED
      BY <1>3, <1>5, <2>1, <3>1
  <2>2. CASE /\ n = w + r + 2 /\ text[w + 1] = "#" /\ text[w + r + 2] = "!"
             /\ \A i \in 1 .. r : text[w + 1 + i] = rest[i]
    <3>1. \/ j \in 1 .. w \/ j = w + 1 \/ j = w + r + 2
          \/ j - w - 1 \in 1 .. r /\ w + 1 + (j - w - 1) = j
      BY <1>1, <2>2
    <3> QED
      BY <1>2, <1>3, <1>5, <2>2, <3>1
  <2> QED
    BY <1>4, <2>1, <2>2
<1> QED
  BY <1>3, <1>6, <1>7 DEF w, n

ExpectedKeywords ==
    {"OPEN_VALVE_RESPONSE", "CLOSE_VALVE_RESPONSE", "GET_LEVEL_RESPONSE",
     "COMM_TEST_RESPONSE", "START_RESPONSE"}

(* One of the first letters of each reply is nowhere in the expected one,  *)
(* if that has another keyword: E, p, C or l, L, m, M, S.                  *)
LEMMA Telltale ==
    ASSUME NEW k \in ResponseKeywords, NEW x \in ExpectedKeywords, k # x
    PROVE  LET word == Letters[GetKeywordStr[k]]
               own  == Letters[GetKeywordStr[x]]
           IN  /\ \E i \in 1 .. 3 :
                      /\ i < Len(word)
                      /\ k = "ERROR_RESPONSE" => i = 1
                      /\ word[i] \notin LettersOf(own) \cup Marks
               /\ own[1] \notin {"E", "r", "!"}
<1> DEFINE w(j) == Letters[GetKeywordStr[j]]
<1>1. \A c \in {"E", "p", "C", "l", "L", "m", "M", "S"} : c \notin Marks
  <2>1. \A c \in {"E", "p", "C", "l", "L", "m", "M", "S"} : c \in Alphabet
    BY DEF Alphabet
  <2> QED
    BY <2>1, Separators DEF Marks
<1>2. /\ LettersOf(w("OPEN_VALVE_RESPONSE")) = {"O", "p", "e", "n"}
      /\ Len(w("OPEN_VALVE_RESPONSE")) = 4
      /\ w("OPEN_VALVE_RESPONSE")[1] = "O" /\ w("OPEN_VALVE_RESPONSE")[2] = "p"
  <2>1. w("OPEN_VALVE_RESPONSE") = <<"O", "p", "e", "n">>
    BY DEF Letters, GetKeywordStr
  <2>2. LettersOf(<<"O", "p", "e", "n">>) = {"O", "p", "e", "n"}
    BY DEF LettersOf
  <2> QED
    BY <2>1, <2>2
<1>3. /\ LettersOf(w("CLOSE_VALVE_RESPONSE")) = {"C", "l", "o", "s", "e"}
      /\ Len(w("CLOSE_VALVE_RESPONSE")) = 5
      /\ w("CLOSE_VALVE_RESPONSE")[1] = "C" /\ w("CLOSE_VALVE_RESPONSE")[2] = "l"
  <2>1. w("CLOSE_VALVE_RESPONSE") = <<"C", "l", "o", "s", "e">>
    BY DEF Letters, GetKeywordStr
  <2>2. LettersOf(<<"C", "l", "o", "s", "e">>) = {"C", "l", "o", "s", "e"}
    BY DEF LettersOf
  <2> QED
    BY <2>1, <2>2
<1>4. /\ LettersOf(w("GET_LEVEL_RESPONSE")) = {"L", "e", "v", "l"}
      /\ Len(w("GET_LEVEL_RESPONSE")) = 5
      /\ w("GET_LEVEL_RESPONSE")[1] = "L"
  <2>1. w("GET_LEVEL_RESPONSE") = <<"L", "e", "v", "e", "l">>
    BY DEF Letters, GetKeywordStr
  <2>2. LettersOf(<<"L", "e", "v", "e", "l">>) = {"L", "e", "v", "l"}
    BY DEF LettersOf
  <2> QED
    BY <2>1, <2>2
<1>5. /\ LettersOf(w("COMM_TEST_RESPONSE")) = {"C", "o", "m"}
      /\ Len(w("COMM_TEST_RESPONSE")) = 4
      /\ w("COMM_TEST_RESPONSE")[1] = "C" /\ w("COMM_TEST_RESPONSE")[3] = "m"
  <2>1. w("COMM_TEST_RESPONSE") = <<"C", "o", "m", "m">>
    BY DEF Letters, GetKeywordStr
  <2>2. LettersOf(<<"C", "o", "m", "m">>) = {"C", "o", "m"}
    BY DEF LettersOf
  <2> QED
    BY <2>1, <2>2
<1>6. /\ LettersOf(w("START_RESPONSE")) = {"S", "t", "a", "r"}
      /\ Len(w("START_RESPONSE")) = 5
      /\ w("START_RESPONSE")[1] = "S"
  <2>1. w("START_RESPONSE") = <<"S", "t", "a", "r", "t">>
    BY DEF Letters, GetKeywordStr
  <2>2. LettersOf(<<"S", "t", "a", "r", "t">>) = {"S", "t", "a", "r"}
    BY DEF LettersOf
  <2> QED
    BY <2>1, <2>2
<1>7. /\ Len(w("SET_MAX_RESPONSE")) = 3 /\ w("SET_MAX_RESPONSE")[1] = "M"
      /\ Len(w("ERROR_RESPONSE")) = 3 /\ w("ERROR_RESPONSE")[1] = "E"
  BY DEF Letters, GetKeywordStr
<1> HIDE DEF w
<1>8. w(x)[1] \notin {"E", "r", "!"}
  BY <1>2, <1>3, <1>4, <1>5, <1>6 DEF ExpectedKeywords
<1> DEFINE Tells(i) == w(k)[i] \notin LettersOf(w(x)) \cup Marks
<1>9. CASE k = "OPEN_VALVE_RESPONSE"
  <2>1. Tells(2)
    BY <1>1, <1>2, <1>3, <1>4, <1>5, <1>6, <1>9 DEF ExpectedKeywords
  <2> HIDE DEF Tells
  <2> QED
    BY <1>2, <1>8, <1>9, <2>1 DEF w, Tells
<1>10. CASE k = "CLOSE_VALVE_RESPONSE"
  <2>1. Tells(1) \/ Tells(2)
    BY <1>1, <1>2, <1>3, <1>4, <1>5, <1>6, <1>10 DEF ExpectedKeywords
  <2> HIDE DEF Tells
  <2> QED
    BY <1>3, <1>8, <1>10, <2>1 DEF w, Tells
<1>11. CASE k = "GET_LEVEL_RESPONSE"
  <2>1. Tells(1)
    BY <1>1, <1>2, <1>3, <1>4, <1>5, <1>6, <1>11 DEF ExpectedKeywords
  <2> HIDE DEF Tells
  <2> QED
    BY <1>4, <1>8, <1>11, <2>1 DEF w, Tells
<1>12. CASE k = "COMM_TEST_RESPONSE"
  <2>1. Tells(3)
    BY <1>1, <1>2, <1>3, <1>4, <1>5, <1>6, <1>12 DEF ExpectedKeywords
  <2> HIDE DEF Tells
  <2> QED
    <3>1. 3 \in 1 .. 3 /\ 3 < Len(w(k)) /\ k # "ERROR_RESPONSE"
      BY <1>5, <1>12
    <3> QED
      BY <1>8, <2>1, <3>1 DEF w, Tells
<1>13. CASE k = "SET_MAX_RESPONSE"
  <2>1. Tells(1)
    BY <1>1, <1>2, <1>3, <1>4, <1>5, <1>6, <1>7, <1>13 DEF ExpectedKeywords
  <2> HIDE DEF Tells
  <2> QED
    BY <1>7, <1>8, <1>13, <2>1 DEF w, Tells
<1>14. CASE k = "START_RESPONSE"
  <2>1. Tells(1)
    BY <1>1, <1>2, <1>3, <1>4, <1>5, <1>6, <1>14 DEF ExpectedKeywords
  <2> HIDE DEF Tells
  <2> QED
    BY <1>6, <1>8, <1>14, <2>1 DEF w, Tells
<1>15. CASE k = "ERROR_RESPONSE"
  <2>1. Tells(1)
    BY <1>1, <1>2, <1>3, <1>4, <1>5, <1>6, <1>7, <1>15 DEF ExpectedKeywords
  <2> HIDE DEF Tells
  <2> QED
    BY <1>7, <1>8, <1>15, <2>1 DEF w, Tells
<1> QED
  BY <1>9, <1>10, <1>11, <1>12, <1>13, <1>14, <1>15 DEF ResponseKeywords

Resemble(T, E) ==
    /\ \E e : FoundFrom(e, 1, T, 1, Len(E) - CORRUPTION_TOLERANCE, E)
    /\ \E f : FoundFrom(f, 1, E, 1, Len(T) - CORRUPTION_TOLERANCE, T)

\* The characters of E that count are in T.
LEMMA Found ==
    ASSUME NEW C, NEW T \in Seq(C), NEW E \in Seq(C), Resemble(T, E), NEW k \in Nat \ {0},
           Len(E) >= k + CORRUPTION_TOLERANCE
    PROVE  \E j \in 1 .. Len(T) : T[j] = E[k]
<1> DEFINE n == Len(E)
<1>1. n \in Nat /\ n >= k + 4
  BY DEF CORRUPTION_TOLERANCE
<1>2. PICK e : FoundFrom(e, 1, T, 1, n - 4, E)
  BY DEF Resemble, CORRUPTION_TOLERANCE
<1> HIDE DEF n
<1>3. k \in 1 .. n - 4
  BY <1>1
<1> QED
  BY <1>2, <1>3 DEF FoundFrom

LEMMA FoundBack ==
    ASSUME NEW C, NEW T \in Seq(C), NEW E \in Seq(C), Resemble(T, E), NEW k \in Nat \ {0},
           Len(T) >= k + CORRUPTION_TOLERANCE
    PROVE  \E j \in 1 .. Len(E) : E[j] = T[k]
<1> DEFINE n == Len(T)
<1>1. n \in Nat /\ n >= k + 4
  BY DEF CORRUPTION_TOLERANCE
<1>2. PICK f : FoundFrom(f, 1, E, 1, n - 4, T)
  BY DEF Resemble, CORRUPTION_TOLERANCE
<1> HIDE DEF n
<1>3. k \in 1 .. n - 4
  BY <1>1
<1> QED
  BY <1>2, <1>3 DEF FoundFrom

\* A text that is read as a reply resembles no expected one of another keyword.
LEMMA OthersDiffer ==
    ASSUME NEW T \in Seq(Symbols \cup Characters),
           NEW p, p.keyword \in ResponseKeywords, IsPacketValid(p), Begins(T, p),
           NEW expected, expected.keyword \in ExpectedKeywords, expected.keyword # p.keyword,
           expected.value \in {NO_VALUE, OK_VALUE} \cup 0 .. 999
    PROVE  ~ IsTextSimilar(T, expected)
<1> SUFFICES ASSUME IsTextSimilar(T, expected) PROVE FALSE
  OBVIOUS
<1> DEFINE C    == Symbols \cup Characters
           E    == FormatText(expected)
           word == Letters[GetKeywordStr[p.keyword]]
           own  == Letters[GetKeywordStr[expected.keyword]]
           t    == Len(T)
           w    == Len(word)
<1>1. expected.keyword \in Keywords /\ p.keyword \in Keywords
  BY DEF ExpectedKeywords, Keywords, ResponseKeywords
<1>2. IsWord(own) /\ \E rest : WrittenAs(rest, expected.value) /\ Parts(E, own, rest)
  BY <1>1, WordAndRest
<1>3. PICK rest : WrittenAs(rest, expected.value) /\ Parts(E, own, rest)
  BY <1>2
<1>4. IsWord(word)
  BY <1>1, LettersAreWords
<1>5. /\ \E i \in 1 .. 3 :
             /\ i < w
             /\ p.keyword = "ERROR_RESPONSE" => i = 1
             /\ word[i] \notin LettersOf(own) \cup Marks
      /\ own[1] \notin {"E", "r", "!"}
  BY Telltale
<1>6. PICK i \in 1 .. 3 :
          /\ i < w
          /\ p.keyword = "ERROR_RESPONSE" => i = 1
          /\ word[i] \notin LettersOf(own) \cup Marks
  BY <1>5
<1>7. /\ \A j \in 1 .. w : T[j] = word[j]
      /\ t >= w
      /\ p.value # NO_VALUE => t >= w + 3
      /\ p.keyword = "ERROR_RESPONSE" => T[4] = "!"
  BY DEF Begins
<1>8. T \in Seq(C) /\ LevenshteinDistance(T, E) <= CORRUPTION_TOLERANCE
  BY DEF IsTextSimilar
<1> HIDE DEF E, word, own, C
<1>9. /\ E[1] = own[1] /\ Len(E) >= Len(own) + 1
      /\ \A j \in 1 .. Len(E) : E[j] \in LettersOf(own) \cup Marks
  BY <1>2, <1>3, TextWithin
<1>10. E \in Seq(C) /\ Resemble(T, E)
  <2>1. E \in Seq(C)
    <3>1. E \in Seq(Symbols) /\ Symbols \subseteq C
      BY <1>3 DEF Parts, C
    <3> QED
      BY <3>1, SeqMonotonic
  <2>2. CORRUPTION_TOLERANCE \in Nat
    BY DEF CORRUPTION_TOLERANCE
  <2> QED
    BY <1>8, <2>1, <2>2, Agree DEF Resemble
<1>11. w \in 3 .. 10 /\ t \in Nat
  BY <1>4, <1>8 DEF IsWord, KEYWORD_MAX_LENGTH
<1>12. CASE t >= i + 4
  <2>1. T[i] = word[i] /\ i \in Nat \ {0} /\ Len(T) >= i + CORRUPTION_TOLERANCE
    <3>1. i \in 1 .. w /\ i \in Nat \ {0}
      BY <1>6, <1>11
    <3> QED
      BY <1>7, <1>12, <3>1 DEF CORRUPTION_TOLERANCE
  <2>2. \E j \in 1 .. Len(E) : E[j] = T[i]
    BY <1>8, <1>10, <2>1, FoundBack
  <2> QED
    BY <1>6, <1>9, <2>1, <2>2
<1>13. CASE ~ (t >= i + 4)
  <2> HIDE DEF t, w
  <2>1. p.value = NO_VALUE
    BY <1>6, <1>7, <1>11, <1>13
  <2>2. p.keyword = "ERROR_RESPONSE"
    BY <1>1, <2>1, BareWords
  <2>3. t \in 3 .. 4
    BY <1>6, <1>7, <1>11, <1>13, <2>2
  <2>4. \A j \in 1 .. t : T[j] \in {"E", "r", "!"}
    <3>1. w = 3 /\ word[1] = "E" /\ word[2] = "r" /\ word[3] = "r"
      BY <2>2 DEF word, w, Letters, GetKeywordStr
    <3>2. T[1] = "E" /\ T[2] = "r" /\ T[3] = "r" /\ T[4] = "!"
      <4>1. 1 \in 1 .. 3 /\ 2 \in 1 .. 3 /\ 3 \in 1 .. 3
        OBVIOUS
      <4> QED
        BY <1>7, <2>2, <3>1, <4>1
    <3>3. \A j \in 1 .. t : j \in {1, 2, 3, 4}
      BY <2>3
    <3> QED
      BY <3>2, <3>3
  <2>5. Len(E) >= 1 + CORRUPTION_TOLERANCE
    <3> DEFINE o == Len(own)
               n == Len(E)
    <3>1. o = WordLength[GetKeywordStr[expected.keyword]]
      BY <1>1, WordLengthIs DEF own
    <3>2. o \in {4, 5}
      BY <3>1 DEF WordLength, GetKeywordStr, ExpectedKeywords
    <3>3. n >= o + 1 /\ n \in Nat
      BY <1>9, <1>10
    <3> HIDE DEF o, n
    <3>4. n >= 5
      BY <3>2, <3>3
    <3> QED
      BY <3>4 DEF n, CORRUPTION_TOLERANCE
  <2>6. PICK j \in 1 .. Len(T) : T[j] = E[1]
    <3>1. 1 \in Nat \ {0}
      OBVIOUS
    <3> QED
      BY <1>8, <1>10, <2>5, <3>1, Found
  <2> QED
    BY <1>5, <1>9, <2>4, <2>6 DEF t
<1> QED
  BY <1>12, <1>13


-----------------------------------------------------------------------------
(* The datagrams of Protocol. *)

\* A packet that a receiver knows is read back from its datagram.
LEMMA DatagramRead ==
    ASSUME NEW p, p.keyword \in ReceiverKeywords, IsPacketValid(p),
           p = Packet(p.keyword, p.value)
    PROVE  ParseWith(ReceiverKeywords, FormatMessage("peer", p)) = p
<1> DEFINE sent   == FormatMessage("peer", p)
           named  == {k \in ReceiverKeywords : GetKeywordStr[k] = sent.word}
           parsed == {q \in {Packet(k, GetValue(sent.complement)) : k \in named} :
                          IsPacketValid(q)}
<1>1. /\ sent.form = "intact"
      /\ sent.word = GetKeywordStr[p.keyword]
      /\ sent.complement = Complement(p.value)
  BY DEF FormatMessage
<1>2. p.value \in {NO_VALUE, OK_VALUE} \cup 0 .. MAX_VALUE
  BY DEF IsPacketValid, MIN_VALUE
<1>3. GetValue(Complement(p.value)) = p.value
  <2>1. CASE p.value = OK_VALUE
    <3>1. Complement(p.value) = [kind |-> "ok", number |-> 0]
      BY <2>1 DEF Complement, OK_VALUE, NO_VALUE
    <3> QED
      BY <2>1, <3>1 DEF GetValue
  <2>2. CASE p.value = NO_VALUE
    <3>1. Complement(p.value) = [kind |-> "none", number |-> 0]
      BY <2>2 DEF Complement, OK_VALUE, NO_VALUE
    <3> QED
      BY <2>2, <3>1 DEF GetValue
  <2>3. CASE p.value \in 0 .. MAX_VALUE
    <3> DEFINE v == p.value
    <3> HIDE DEF v
    <3>1. v \in 0 .. MAX_VALUE
      BY <2>3 DEF v
    <3>2. v # OK_VALUE /\ v # NO_VALUE /\ ~ (v < 0)
      BY <3>1, MaxValueAssumption DEF OK_VALUE, NO_VALUE
    <3>3. Complement(v) = [kind |-> "number", number |-> v]
      BY <3>2 DEF Complement
    <3>4. GetValue([kind |-> "number", number |-> v]) = v
      BY <3>2 DEF GetValue
    <3> QED
      BY <3>3, <3>4 DEF v
  <2> QED
    BY <1>2, <2>1, <2>2, <2>3
<1> HIDE DEF sent
<1>4. named = {p.keyword}
  <2>1. \A k \in ReceiverKeywords : GetKeywordStr[k] = GetKeywordStr[p.keyword] => k = p.keyword
    BY WordsDiffer DEF ReceiverKeywords
  <2> QED
    BY <1>1, <2>1
<1> HIDE DEF named
<1>5. parsed = {p}
  BY <1>1, <1>3, <1>4
<1>6. ParseWith(ReceiverKeywords, sent) =
          IF sent.form = "intact" /\ parsed # {} THEN CHOOSE q \in parsed : TRUE
          ELSE ErrorPacket
  BY DEF ParseWith, named
<1> HIDE DEF parsed
<1> QED
  BY <1>1, <1>5, <1>6 DEF sent

\* A datagram that is no longer intact is read as nothing.
LEMMA SpoiltRead ==
    ASSUME NEW datagram, datagram.form # "intact"
    PROVE  ParseWith(ReceiverKeywords, datagram) = ErrorPacket
BY DEF ParseWith

LEMMA ExpectedAre ==
    ASSUME NEW expected \in ExpectedPackets
    PROVE  /\ expected.keyword \in ExpectedKeywords
           /\ IsPacketValid(Parsed) =>
                  expected.value \in {NO_VALUE, OK_VALUE} \cup 0 .. 999
<1>1. ASSUME NEW p, IsPacketValid(p)
      PROVE  p.value \in {NO_VALUE, OK_VALUE} \cup 0 .. 999
  <2> DEFINE v == p.value
  <2>1. v = NO_VALUE \/ v = OK_VALUE \/ v \in 0 .. MAX_VALUE
    BY <1>1 DEF IsPacketValid, MIN_VALUE
  <2>2. \A n \in 0 .. MAX_VALUE : n \in 0 .. 999
    <3>1. MAX_VALUE < 1000
      BY CodecAssumption
    <3> QED
      BY <3>1, MaxValueAssumption
  <2> HIDE DEF v
  <2>3. v = NO_VALUE \/ v = OK_VALUE \/ v \in 0 .. 999
    BY <2>1, <2>2
  <2> QED
    BY <2>3 DEF v
<1>2. CASE /\ expected \in SentPackets
           /\ expected.keyword \in {"OPEN_VALVE_RESPONSE", "CLOSE_VALVE_RESPONSE",
                                    "COMM_TEST_RESPONSE", "START_RESPONSE"}
  <2>1. IsPacketValid(expected)
    BY <1>2 DEF SentPackets
  <2>2. expected.keyword \in ExpectedKeywords
    BY <1>2 DEF ExpectedKeywords
  <2> QED
    BY <1>1, <2>1, <2>2
<1>3. CASE expected = Packet("GET_LEVEL_RESPONSE", Parsed.value)
  <2>1. expected.keyword = "GET_LEVEL_RESPONSE" /\ expected.value = Parsed.value
    BY <1>3 DEF Packet
  <2>2. expected.keyword \in ExpectedKeywords
    BY <2>1 DEF ExpectedKeywords
  <2> QED
    BY <1>1, <2>1, <2>2
<1> QED
  BY <1>2, <1>3 DEF ExpectedPackets

\* What the text is taken for, in the words of CorruptionCovered.
Taken(datagram, expected) ==
    /\ ParseWith(ReceiverKeywords, datagram) = Parsed
    /\ packet.keyword \in ResponseKeywords /\ Parsed.keyword # expected.keyword =>
           (IsPacketSimilar(datagram, expected) <=> IsTextSimilar(ReceivedText(buffer), expected))

LEMMA TakenCovers ==
    (\A expected \in ExpectedPackets :
         LET sent == FormatMessage("peer", packet)
         IN  \/ Taken(sent, expected)
             \/ /\ corrupted
                /\ \/ \E datagram \in Garbled(sent) : Taken(datagram, expected)
                   \/ \E datagram \in Altered(sent) : Taken(datagram, expected))
    => CorruptionCovered
BY DEF Taken, CorruptionCovered

(* Whatever the relay makes of a text, however many of its bytes it        *)
(* replaces and by whatever letters and digits, for all values of up to    *)
(* three digits, the programs take it for the datagram that was sent or,   *)
(* when it was corrupted, for one that Garbled or Altered give             *)
(* (corrupt_bytes, get_keyword_value, get_value, is_packet_valid,          *)
(* levenshtein_distance): CorruptionCovered.                               *)
THEOREM CorruptionIsCovered == Spec => []CorruptionCovered
<1>1. SpoiltInv /\ RoundTrip => CorruptionCovered
  <2> SUFFICES ASSUME SpoiltInv, RoundTrip, NEW expected \in ExpectedPackets
               PROVE  LET sent == FormatMessage("peer", packet)
                      IN  \/ Taken(sent, expected)
                          \/ /\ corrupted
                             /\ \/ \E datagram \in Garbled(sent) : Taken(datagram, expected)
                                \/ \E datagram \in Altered(sent) : Taken(datagram, expected)
    BY TakenCovers
  <2> DEFINE sent    == FormatMessage("peer", packet)
             T       == ReceivedText(buffer)
             S       == FormatText(packet)
             similar == IsTextSimilar(T, expected)
  <2>1. packet \in SentPackets /\ Replaced(buffer, SentBuffer(S))
    BY DEF SpoiltInv
  <2>2. S \in Seq(Symbols) /\ Len(S) \in 0 .. BUFFER_LENGTH - 1
    <3> DEFINE word == Letters[GetKeywordStr[packet.keyword]]
    <3>1. PICK rest : WrittenAs(rest, packet.value) /\ Parts(S, word, rest)
      BY <2>1, SentIs
    <3>2. IsWord(word)
      BY <2>1, SentIs
    <3> HIDE DEF S, word
    <3> DEFINE w == Len(word)
               n == Len(S)
    <3>3. S \in Seq(Symbols) /\ n \in w + 1 .. BUFFER_LENGTH - 1 /\ w \in Nat
      BY <3>1, <3>2, TextFacts DEF IsWord
    <3> HIDE DEF w, n
    <3>4. n \in 0 .. BUFFER_LENGTH - 1
      BY <3>3 DEF BUFFER_LENGTH
    <3> QED
      BY <3>3, <3>4 DEF n
  <2>3. T \in Seq(Symbols \cup Characters) /\ Spoilt(T, S)
    <3> HIDE DEF S
    <3> QED
      BY <2>1, <2>2, ReceivedSpoilt
  <2>4. \/ Parsed = ErrorPacket
        \/ /\ Parsed.keyword \in ReceiverKeywords
           /\ IsPacketValid(Parsed)
           /\ Parsed = Packet(Parsed.keyword, Parsed.value)
           /\ Begins(T, Parsed)
           /\ Respelt(sent, Parsed)
    BY <2>1, <2>3, ParsedSpoilt DEF Parsed
  <2>5. expected.keyword \in ExpectedKeywords
        /\ (IsPacketValid(Parsed) => expected.value \in {NO_VALUE, OK_VALUE} \cup 0 .. 999)
    BY ExpectedAre
  <2>6. expected.keyword \in ResponseKeywords
    BY <2>5 DEF ExpectedKeywords, ResponseKeywords
  <2>7. /\ sent.form = "intact"
        /\ sent \in [peer : {"peer"}, word : {sent.word}, complement : {sent.complement},
                     form : {"intact"}]
    BY DEF FormatMessage
  <2>8. sent.peer = "peer"
    BY DEF FormatMessage
  <2>9. IsPacketValid(packet)
    BY <2>1 DEF SentPackets
  <2> HIDE DEF sent, T, S
  <2>10. CASE Parsed = ErrorPacket
    <3>1. corrupted
      <4>1. packet # ErrorPacket
        BY <2>9 DEF ErrorPacket, Packet, IsPacketValid
      <4> QED
        BY <2>10, <4>1 DEF RoundTrip
    <3>2. CASE similar
      <4> DEFINE word == GetKeywordStr[expected.keyword]
                 near == [sent EXCEPT !.form = "near", !.complement = Unreadable, !.word = word]
      <4>1. near \in Garbled(sent)
        BY <2>6 DEF Garbled, ResponseWords
      <4>2. near.form = "near" /\ near.word = word
        BY <2>7
      <4> HIDE DEF near
      <4>3. ParseWith(ReceiverKeywords, near) = Parsed
        BY <2>10, <4>2, SpoiltRead
      <4>4. IsPacketSimilar(near, expected)
        BY <4>2 DEF IsPacketSimilar
      <4> QED
        BY <3>1, <3>2, <4>1, <4>3, <4>4 DEF Taken, sent, T
    <3>3. CASE ~ similar
      <4> DEFINE far == [sent EXCEPT !.form = "far", !.complement = Unreadable, !.word = ""]
      <4>1. far \in Garbled(sent)
        BY DEF Garbled
      <4>2. far.form = "far"
        BY <2>7
      <4> HIDE DEF far
      <4>3. ParseWith(ReceiverKeywords, far) = Parsed
        BY <2>10, <4>2, SpoiltRead
      <4>4. ~ IsPacketSimilar(far, expected)
        BY <4>2 DEF IsPacketSimilar
      <4> QED
        BY <3>1, <3>3, <4>1, <4>3, <4>4 DEF Taken, sent, T
    <3> QED
      BY <3>2, <3>3
  <2>11. CASE Parsed # ErrorPacket
    <3> DEFINE read == FormatMessage("peer", Parsed)
    <3>1. /\ Parsed.keyword \in ReceiverKeywords
          /\ IsPacketValid(Parsed)
          /\ Parsed = Packet(Parsed.keyword, Parsed.value)
          /\ Begins(T, Parsed)
          /\ Respelt(sent, Parsed)
      BY <2>4, <2>11
    <3>2. ParseWith(ReceiverKeywords, read) = Parsed
      BY <3>1, DatagramRead
    \* Neither the text nor the datagram resembles a reply with another keyword.
    <3>3. ASSUME packet.keyword \in ResponseKeywords, Parsed.keyword # expected.keyword
          PROVE  ~ IsPacketSimilar(read, expected) /\ ~ similar
      <4>1. ReceiverKeywords = ResponseKeywords
        BY <3>3 DEF ReceiverKeywords, ResponseKeywords, CommandKeywords
      <4>2. ~ similar
        BY <2>3, <2>5, <3>1, <3>3, <4>1, OthersDiffer
      <4>3. GetKeywordStr[Parsed.keyword] # GetKeywordStr[expected.keyword]
        BY <2>6, <3>1, <3>3, <4>1, WordsDiffer
      <4>4. read.word = GetKeywordStr[Parsed.keyword]
        BY DEF FormatMessage
      <4> HIDE DEF read
      <4> QED
        BY <4>2, <4>3, <4>4 DEF IsPacketSimilar
    <3>4. Taken(read, expected)
      BY <3>2, <3>3 DEF Taken, T
    <3>5. CASE Parsed = packet
      BY <3>4, <3>5
    <3>6. CASE Parsed # packet
      <4>1. corrupted
        BY <3>6 DEF RoundTrip
      <4> DEFINE k == Parsed.keyword
                 v == Parsed.value
      <4>2. k \in Keywords
        BY <3>1 DEF ReceiverKeywords, Keywords
      <4>3. v \in MIN_VALUE .. MAX_VALUE + 1 \cup {OK_VALUE, NO_VALUE}
        <5>1. v \in 0 .. MAX_VALUE \/ v = NO_VALUE \/ v = OK_VALUE
          BY <3>1 DEF IsPacketValid, MIN_VALUE
        <5> HIDE DEF v
        <5> QED
          BY <5>1, MaxValueAssumption DEF MIN_VALUE
      <4>4. Parsed \in [keyword : Keywords,
                        value   : MIN_VALUE .. MAX_VALUE + 1 \cup {OK_VALUE, NO_VALUE}]
        BY <3>1, <4>2, <4>3 DEF Packet
      <4> HIDE DEF k, v
      <4>5. read \in Altered(sent)
        BY <2>7, <2>8, <3>1, <4>4 DEF Altered, OtherPackets
      <4> QED
        BY <3>4, <4>1, <4>5 DEF sent
    <3> QED
      BY <3>5, <3>6
  <2> QED
    BY <2>10, <2>11
<1> QED
  BY <1>1, SpoiltInvHolds, SentIsReadBack, PTL

=============================================================================
