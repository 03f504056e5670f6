-------------------------- MODULE ImageProcessorProofs --------------------------
(***************************************************************************)
(* Proofs about ImageProcessor for any files, command lines, rounding and  *)
(* number of runs: what is written is what the filters promise of what was *)
(* read, what is written can be read, and a run that fails changes nothing.*)
(*                                                                         *)
(* Sums that the code slides, or takes one after the other, are shown to   *)
(* be those of the windows the filters are defined by; filters are taken   *)
(* from rows in the file to pixels as seen; the invariant puts them in     *)
(* their order and follows the files from run to run.                      *)
(***************************************************************************)
EXTENDS ImageProcessor, FilterProofs

-----------------------------------------------------------------------------
(* Numbers.                                                                *)

\* What is converted to a uint8_t is a byte, however it was rounded.
LEMMA TruncatedIsByte ==
  ASSUME NEW num \in Int, NEW den \in Nat \ {0}
  PROVE  Truncated(num, den) \in Byte
<1>1. num \div den \in Int
      OBVIOUS
<1>2. \A n \in Int : n % 256 \in Byte
      BY DEF Byte
<1> QED
    BY <1>1, <1>2 DEF Truncated

\* Total adds up the numbers one after the other.
LEMMA Sums ==
  ASSUME NEW N \in Nat, NEW s, \A k \in 1..N : s[k] \in Int
  PROVE  /\ Total(s, 0) = 0
         /\ \A n \in 0..N : Total(s, n) \in Int
         /\ \A n \in 1..N : Total(s, n) = Total(s, n - 1) + s[n]
<1> DEFINE F == [kx \in (1..N) \X Int |-> kx[2] + s[kx[1]]]
           Solves(n, g) == g = [k \in 0..n |-> IF k = 0 THEN 0 ELSE g[k - 1] + s[k]]
           sum(n) == CHOOSE g : Solves(n, g)
<1>1. F \in [(1..N) \X Int -> Int]
      OBVIOUS
<1>2. PICK g : g \in [0..N -> Int] /\ FilledBy(g, F, N, 0)
  <2>1. 0 \in Int
        OBVIOUS
  <2> HIDE DEF F
  <2> QED
      BY <1>1, <2>1, TableExists
<1>3. g[0] = 0 /\ \A k \in 1..N : g[k] = g[k - 1] + s[k]
  <2>1. ASSUME NEW k \in 1..N PROVE g[k] = g[k - 1] + s[k]
    <3>1. <<k, g[k - 1]>> \in (1..N) \X Int
          BY <1>2
    <3> QED
        BY <1>2, <3>1 DEF FilledBy
  <2> QED
      BY <1>2, <2>1 DEF FilledBy
<1>4. ASSUME NEW n \in 0..N PROVE Total(s, n) = g[n]
  <2> DEFINE low == [k \in 0..n |-> g[k]]
  <2>1. Solves(n, low)
    <3>1. ASSUME NEW k \in 0..n
          PROVE  g[k] = IF k = 0 THEN 0 ELSE low[k - 1] + s[k]
      <4>1. k # 0 => k \in 1..N /\ k - 1 \in 0..n
            OBVIOUS
      <4> QED
          BY <1>3, <4>1
    <3> QED
        BY <3>1
  <2>2. Solves(n, sum(n))
    <3> HIDE DEF Solves
    <3> QED
        BY <2>1
  <2>3. sum(n)[0] = 0 /\ \A k \in 1..n : sum(n)[k] = sum(n)[k - 1] + s[k]
    <3> HIDE DEF sum
    <3>1. \A k \in 0..n : sum(n)[k] = IF k = 0 THEN 0 ELSE sum(n)[k - 1] + s[k]
          BY <2>2
    <3>2. 0 \in 0..n /\ \A k \in 1..n : k \in 0..n /\ k # 0
          OBVIOUS
    <3> QED
        BY <3>1, <3>2
  <2>4. \A k \in 0..n : sum(n)[k] = g[k]
    <3> DEFINE h == sum(n)
    <3>1. n \in Nat /\ \A k \in 1..n : k \in 1..N
          OBVIOUS
    <3>2. g[0] = h[0] /\ \A k \in 1..n : g[k - 1] = h[k - 1] => g[k] = h[k]
      <4> HIDE DEF sum
      <4> QED
          BY <1>3, <2>3, <3>1
    <3> HIDE DEF h
    <3>3. \A k \in 0..n : g[k] = h[k]
          BY <3>1, <3>2, SameTable
    <3> QED
        BY <3>3 DEF h
  <2>5. Total(s, n) = sum(n)[n]
        BY DEF Total
  <2> QED
      BY <2>4, <2>5
<1>5. 0 \in 0..N /\ \A n \in 1..N : n \in 0..N /\ n - 1 \in 0..N
      OBVIOUS
<1> HIDE DEF F, sum, Solves
<1> QED
    BY <1>2, <1>3, <1>4, <1>5

\* Lists with the same numbers have the same sum.
LEMMA SameSum ==
  ASSUME NEW N \in Nat, NEW s, NEW t, \A k \in 1..N : s[k] \in Int /\ s[k] = t[k]
  PROVE  Total(s, N) = Total(t, N)
<1> DEFINE u == [n \in 0..N |-> Total(s, n)]
           v == [n \in 0..N |-> Total(t, n)]
<1>1. /\ Total(s, 0) = 0 /\ Total(t, 0) = 0
      /\ \A n \in 1..N : /\ Total(s, n) = Total(s, n - 1) + s[n]
                         /\ Total(t, n) = Total(t, n - 1) + t[n]
      BY Sums
<1>2. u[0] = v[0] /\ \A n \in 1..N : u[n - 1] = v[n - 1] => u[n] = v[n]
      BY <1>1
<1> HIDE DEF u, v
<1>3. u[N] = v[N]
      BY <1>2, SameTable
<1> QED
    BY <1>3 DEF u, v

\* The sum of m neighbours changes by the one that comes in and the one that
\* goes out when the m of them move on by one.
LEMMA SumMoves ==
  ASSUME NEW m \in Nat, NEW j \in Int, NEW f \in [Int -> Int]
  PROVE  Total([k \in 1..m |-> f[j + k]], m)
           = Total([k \in 1..m |-> f[j - 1 + k]], m) + f[j + m] - f[j]
<1> DEFINE s == [k \in 1..m |-> f[j + k]]
           t == [k \in 1..m |-> f[j - 1 + k]]
           u == [n \in 0..m |-> Total(s, n)]
           v == [n \in 0..m |-> Total(t, n) + f[j + n] - f[j]]
<1>1. \A k \in 1..m : s[k] \in Int /\ t[k] \in Int
      OBVIOUS
<1>2. /\ Total(s, 0) = 0 /\ Total(t, 0) = 0
      /\ \A n \in 0..m : Total(s, n) \in Int /\ Total(t, n) \in Int
      /\ \A n \in 1..m : /\ Total(s, n) = Total(s, n - 1) + s[n]
                         /\ Total(t, n) = Total(t, n - 1) + t[n]
  <2> HIDE DEF s, t
  <2> QED
      BY <1>1, Sums
<1>3. u[0] = v[0]
  <2>1. f[j + 0] = f[j] /\ f[j] \in Int
        OBVIOUS
  <2> HIDE DEF s, t
  <2> QED
      BY <1>2, <2>1
<1>4. ASSUME NEW n \in 1..m, u[n - 1] = v[n - 1] PROVE u[n] = v[n]
  <2>1. s[n] = f[j + n] /\ t[n] = f[j + (n - 1)] /\ f[j + (n - 1)] \in Int /\ f[j + n] \in Int
        /\ f[j] \in Int
        OBVIOUS
  <2>2. n \in 0..m /\ n - 1 \in 0..m
        OBVIOUS
  <2> HIDE DEF s, t
  <2> QED
      BY <1>2, <1>4, <2>1, <2>2
<1> HIDE DEF u, v
<1>5. u[m] = v[m]
      BY SMTT(30), <1>3, <1>4, SameTable
<1> QED
    BY <1>5 DEF u, v

-----------------------------------------------------------------------------
(* The sums that a blur slides along a row.                                *)

\* The element of 1..n that is next to i
Within(i, n) == IF i < 1 THEN 1 ELSE IF i > n THEN n ELSE i

\* The sum of the box of radius r around the j-th element of a line
BoxSum(line, n, r, j) ==
  Total([k \in 1..(2 * r + 1) |-> line[Within(j + k - r - 1, n)]], 2 * r + 1)

\* What val is before the first element.
LEMMA FirstBox ==
  ASSUME NEW n \in Nat, NEW line, \A i \in 1..n : line[i] \in Int,
         NEW r \in Nat, 2 * r + 1 <= n
  PROVE  BoxSum(line, n, r, 0) = (r + 1) * line[1] + Total(line, r)
<1> DEFINE m == 2 * r + 1
           x == line[1]
           s == [k \in 1..m |-> line[Within(0 + k - r - 1, n)]]
           u == [k \in 0..m |-> Total(s, k)]
           v == [k \in 0..m |-> IF k <= r + 1 THEN k * x
                                ELSE (r + 1) * x + Total(line, k - (r + 1))]
<1>1. m \in Nat /\ x \in Int /\ \A k \in 1..r : line[k] \in Int
      OBVIOUS
<1>2. ASSUME NEW k \in 1..m
      PROVE  s[k] = (IF k <= r + 1 THEN x ELSE line[k - (r + 1)]) /\ s[k] \in Int
      BY DEF Within
<1>3. /\ Total(s, 0) = 0
      /\ \A k \in 1..m : Total(s, k) = Total(s, k - 1) + s[k]
  <2> HIDE DEF s, m
  <2> QED
      BY <1>1, <1>2, Sums
<1>4. /\ Total(line, 0) = 0
      /\ \A k \in 0..r : Total(line, k) \in Int
      /\ \A k \in 1..r : Total(line, k) = Total(line, k - 1) + line[k]
      BY <1>1, Sums
<1>5. u[0] = v[0]
  <2>1. 0 * x = 0
        BY <1>1
  <2> HIDE DEF x, s
  <2> QED
      BY <1>3, <2>1
<1>6. ASSUME NEW k \in 1..m, u[k - 1] = v[k - 1] PROVE u[k] = v[k]
  <2>1. u[k] = v[k - 1] + s[k]
    <3> HIDE DEF s
    <3>1. k \in 0..m /\ k - 1 \in 0..m
          OBVIOUS
    <3>2. u[k] = Total(s, k) /\ u[k - 1] = Total(s, k - 1)
          BY <3>1
    <3> HIDE DEF u, v
    <3> QED
        BY <1>3, <1>6, <3>2
  <2>2. CASE k <= r + 1
    <3>1. v[k] = k * x /\ v[k - 1] = (k - 1) * x /\ s[k] = x
          BY <1>2, <2>2
    <3>2. k * x = (k - 1) * x + x
          BY <1>1
    <3> HIDE DEF u, v, s, x
    <3> QED
        BY <2>1, <3>1, <3>2
  <2>3. CASE k = r + 2
    <3>1. r >= 1
          BY <2>3
    <3>2. v[k] = (r + 1) * x + Total(line, 1) /\ v[k - 1] = (r + 1) * x /\ s[k] = line[1]
      <4>1. k - (r + 1) = 1 /\ k - 1 = r + 1 /\ k \in 0..m /\ k - 1 \in 0..m /\ ~(k <= r + 1)
            BY <2>3
      <4>2. s[k] = line[1]
            BY <1>2, <4>1
      <4> HIDE DEF s, x
      <4> QED
          BY <4>1, <4>2
    <3>3. Total(line, 1) = Total(line, 0) + line[1]
          BY <1>4, <3>1
    <3>4. (r + 1) * x \in Int
          BY <1>1
    <3> HIDE DEF u, v, s
    <3> QED
        BY <1>1, <1>4, <2>1, <3>2, <3>3, <3>4
  <2>4. CASE k > r + 2
    <3> DEFINE i == k - (r + 1)
    <3>1. i \in 1..r /\ i - 1 \in 0..r /\ k - 1 - (r + 1) = i - 1 /\ i \in 0..r
          BY <2>4
    <3>2. v[k] = (r + 1) * x + Total(line, i) /\ v[k - 1] = (r + 1) * x + Total(line, i - 1)
          /\ s[k] = line[i]
      <4>1. ~(k <= r + 1) /\ ~(k - 1 <= r + 1) /\ k \in 0..m /\ k - 1 \in 0..m
            BY <2>4
      <4>2. s[k] = line[i]
            BY <1>2, <4>1
      <4> HIDE DEF s, x
      <4> QED
          BY <3>1, <4>1, <4>2
    <3>3. Total(line, i) = Total(line, i - 1) + line[i] /\ Total(line, i - 1) \in Int
          BY <1>4, <3>1
    <3>4. (r + 1) * x \in Int /\ line[i] \in Int
          BY <1>1, <3>1
    <3> HIDE DEF u, v, s, i
    <3> QED
        BY <2>1, <3>2, <3>3, <3>4
  <2> QED
      BY <2>2, <2>3, <2>4
<1>7. u[m] = v[m]
  <2> HIDE DEF u, v, m
  <2>1. \A k \in 1..m : u[k - 1] = v[k - 1] => u[k] = v[k]
        BY <1>6
  <2>2. m \in Nat
        BY <1>1
  <2>3. \A k \in 0..m : u[k] = v[k]
        BY <1>5, <2>1, <2>2, SameTable
  <2> QED
      BY <2>2, <2>3
<1> HIDE DEF u, v
<1>8. v[m] = (r + 1) * x + Total(line, r)
  <2>1. CASE r = 0
    <3>1. v[m] = 1 * x
          BY <2>1 DEF v
    <3>2. (r + 1) * x = 1 * x /\ 1 * x = x
          BY <1>1, <2>1
    <3> HIDE DEF x
    <3> QED
        BY <1>1, <1>4, <2>1, <3>1, <3>2
  <2>2. CASE r # 0
    <3>1. ~(m <= r + 1) /\ m - (r + 1) = r /\ m \in 0..m
          BY <2>2
    <3> HIDE DEF x, m
    <3> QED
        BY <3>1 DEF v
  <2> QED
      BY <2>1, <2>2
<1>9. BoxSum(line, n, r, 0) = u[m]
      BY DEF BoxSum, u
<1> QED
    BY <1>7, <1>8, <1>9

\* The box of an element has one element that the box before it has not, and the
\* other way round.
LEMMA BoxMoves ==
  ASSUME NEW n \in Nat, NEW line \in [1..n -> Int], NEW r \in Nat, 2 * r + 1 <= n,
         NEW j \in 1..n
  PROVE  BoxSum(line, n, r, j) = BoxSum(line, n, r, j - 1)
           + (line[Smaller(j + r, n)]
                - (IF j <= r + 1 THEN line[1] ELSE line[j - r - 1]))
<1> DEFINE m == 2 * r + 1
           f == [i \in Int |-> line[Within(i - r - 1, n)]]
<1>1. m \in Nat /\ f \in [Int -> Int]
      BY DEF Within
<1>2. ASSUME NEW i \in Int
      PROVE  BoxSum(line, n, r, i) = Total([k \in 1..m |-> f[i + k]], m)
  <2>1. \A k \in 1..m : f[i + k] = line[Within(i + k - r - 1, n)]
        OBVIOUS
  <2>2. [k \in 1..m |-> f[i + k]] = [k \in 1..m |-> line[Within(i + k - r - 1, n)]]
    <3> HIDE DEF f
    <3> QED
        BY <2>1
  <2> QED
      BY <2>2 DEF BoxSum
<1>3. f[j + m] = line[Smaller(j + r, n)]
      BY DEF Within, Smaller
<1>4. f[j] = IF j <= r + 1 THEN line[1] ELSE line[j - r - 1]
  <2>1. j \in Int /\ f[j] = line[Within(j - r - 1, n)]
        OBVIOUS
  <2>2. Within(j - r - 1, n) = IF j <= r + 1 THEN 1 ELSE j - r - 1
        BY DEF Within
  <2> HIDE DEF f
  <2> QED
      BY <2>1, <2>2
<1>5. f[j + m] \in Int /\ f[j] \in Int /\ j - 1 \in Int /\ j \in Int
  <2>1. j + m \in Int /\ j - 1 \in Int /\ j \in Int
        OBVIOUS
  <2> HIDE DEF f, m
  <2> QED
      BY <1>1, <2>1
<1>6. ASSUME NEW k \in 1..m PROVE f[j - 1 + k] \in Int
  <2>1. j - 1 + k \in Int
        OBVIOUS
  <2> HIDE DEF f, m
  <2> QED
      BY <1>1, <2>1
<1>7. BoxSum(line, n, r, j - 1) \in Int
  <2> DEFINE s == [k \in 1..m |-> f[j - 1 + k]]
  <2>1. \A k \in 1..m : s[k] \in Int
    <3> HIDE DEF f
    <3> QED
        BY <1>6
  <2> HIDE DEF s
  <2>2. Total(s, m) \in Int
    <3> HIDE DEF m
    <3>1. m \in 0..m
          BY <1>1
    <3> QED
        BY <1>1, <2>1, <3>1, Sums
  <2>3. BoxSum(line, n, r, j - 1) = Total(s, m)
    <3> HIDE DEF f
    <3> QED
        BY <1>2, <1>5 DEF s
  <2> QED
      BY <2>2, <2>3
<1>8. BoxSum(line, n, r, j) = BoxSum(line, n, r, j - 1) + f[j + m] - f[j]
  <2>1. Total([k \in 1..m |-> f[j + k]], m)
          = Total([k \in 1..m |-> f[j - 1 + k]], m) + f[j + m] - f[j]
    <3> HIDE DEF f, m
    <3> QED
        BY <1>1, <1>5, SumMoves
  <2>2. /\ BoxSum(line, n, r, j) = Total([k \in 1..m |-> f[j + k]], m)
        /\ BoxSum(line, n, r, j - 1) = Total([k \in 1..m |-> f[j - 1 + k]], m)
    <3> HIDE DEF f, m
    <3> QED
        BY <1>2, <1>5
  <2> HIDE DEF f
  <2> QED
      BY <2>1, <2>2
<1> HIDE DEF f, m
<1> QED
    BY <1>3, <1>4, <1>5, <1>7, <1>8

\* HorBlur and TotalBlur leave the sum of the box around each element.
LEMMA SlideIs ==
  ASSUME NEW n \in Nat, NEW line \in [1..n -> Int], NEW r \in Nat, 2 * r + 1 <= n
  PROVE  /\ Slide(line, r) = [j \in 1..n |-> BoxSum(line, n, r, j)]
         /\ \A j \in 1..n : BoxSum(line, n, r, j) \in Int
<1> DEFINE Change(j) == line[Smaller(j + r, n)]
                          - (IF j <= r + 1 THEN line[1] ELSE line[j - r - 1])
           first == (r + 1) * line[1] + Total(line, r)
           Added(out, j) ==
             Append(out, (IF out = <<>> THEN first ELSE Last(out)) + Change(j))
           Solves(g) == g = [j \in 0..n |-> IF j = 0 THEN <<>> ELSE Added(g[j - 1], j)]
           slid == CHOOSE g : Solves(g)
           F == [jx \in (1..n) \X Seq(Int) |-> Added(jx[2], jx[1])]
<1>1. Len(line) = n
      BY ListIs
<1>2. Slide(line, r) = slid[n]
      BY <1>1 DEF Slide
<1>3. first \in Int /\ first = BoxSum(line, n, r, 0)
  <2>1. Total(line, r) \in Int
    <3>1. r \in 0..r /\ \A k \in 1..r : line[k] \in Int
          OBVIOUS
    <3> QED
        BY <3>1, Sums
  <2>2. line[1] \in Int /\ (r + 1) * line[1] \in Int
        OBVIOUS
  <2>3. BoxSum(line, n, r, 0) = first
    <3>1. \A i \in 1..n : line[i] \in Int
          OBVIOUS
    <3> QED
        BY <3>1, FirstBox
  <2> QED
      BY <2>1, <2>2, <2>3
<1>4. \A j \in 1..n : Change(j) \in Int
      BY DEF Smaller
<1>5. \A j \in 1..n : BoxSum(line, n, r, j) = BoxSum(line, n, r, j - 1) + Change(j)
      BY BoxMoves
<1> HIDE DEF first, Change
<1>6. ASSUME NEW out \in Seq(Int), NEW j \in 1..n
      PROVE  Added(out, j) \in Seq(Int)
  <2>1. out # <<>> => Last(out) \in Int
    <3>1. out # <<>> => Len(out) \in 1..Len(out)
          BY EmptySeq, LenProperties
    <3> QED
        BY <3>1, ElementOfSeq DEF Last
  <2> QED
      BY <1>3, <1>4, <2>1, AppendProperties
<1>7. F \in [(1..n) \X Seq(Int) -> Seq(Int)]
  <2>1. ASSUME NEW jx \in (1..n) \X Seq(Int) PROVE Added(jx[2], jx[1]) \in Seq(Int)
    <3>1. jx[1] \in 1..n /\ jx[2] \in Seq(Int)
          OBVIOUS
    <3> HIDE DEF Added
    <3> QED
        BY <1>6, <3>1
  <2> HIDE DEF Added
  <2> QED
      BY <2>1
<1>8. PICK g : g \in [0..n -> Seq(Int)] /\ FilledBy(g, F, n, <<>>)
  <2>1. <<>> \in Seq(Int)
        BY EmptySeq
  <2> HIDE DEF F
  <2> QED
      BY <1>7, <2>1, TableExists
<1> HIDE DEF Added
<1>9. g[0] = <<>> /\ \A j \in 1..n : g[j] = Added(g[j - 1], j)
  <2>1. ASSUME NEW j \in 1..n PROVE g[j] = Added(g[j - 1], j)
    <3>1. <<j, g[j - 1]>> \in (1..n) \X Seq(Int)
          BY <1>8
    <3> QED
        BY <1>8, <3>1 DEF FilledBy
  <2> QED
      BY <1>8, <2>1 DEF FilledBy
<1> HIDE DEF F
<1>10. Solves(g)
  <2>1. ASSUME NEW j \in 0..n
        PROVE  g[j] = IF j = 0 THEN <<>> ELSE Added(g[j - 1], j)
    <3>1. j # 0 => j \in 1..n
          OBVIOUS
    <3> QED
        BY <1>9, <3>1
  <2> QED
      BY <1>8, <2>1
<1>11. Solves(slid)
  <2> HIDE DEF Solves
  <2> QED
      BY <1>10
<1>12. slid[0] = <<>> /\ \A j \in 1..n : slid[j] = Added(slid[j - 1], j)
  <2> HIDE DEF slid
  <2>1. \A j \in 0..n : slid[j] = IF j = 0 THEN <<>> ELSE Added(slid[j - 1], j)
        BY <1>11
  <2>2. 0 \in 0..n /\ \A j \in 1..n : j \in 0..n /\ j # 0
        OBVIOUS
  <2> QED
      BY <2>1, <2>2
<1> HIDE DEF slid, Solves
<1> DEFINE Good == {j \in Nat : j <= n =>
                      /\ slid[j] \in Seq(Int) /\ Len(slid[j]) = j
                      /\ \A i \in 1..j : slid[j][i] = BoxSum(line, n, r, i)
                      /\ \A i \in 1..j : BoxSum(line, n, r, i) \in Int}
<1>13. 0 \in Good
  <2>1. slid[0] \in Seq(Int) /\ Len(slid[0]) = 0
        BY <1>12, EmptySeq
  <2> QED
      BY <2>1
<1>14. ASSUME NEW j \in Nat, j \in Good PROVE j + 1 \in Good
  <2>0. j + 1 \in Nat
        OBVIOUS
  <2>1. SUFFICES ASSUME j + 1 <= n
                 PROVE  /\ slid[j + 1] \in Seq(Int) /\ Len(slid[j + 1]) = j + 1
                        /\ \A i \in 1..(j + 1) : slid[j + 1][i] = BoxSum(line, n, r, i)
                        /\ \A i \in 1..(j + 1) : BoxSum(line, n, r, i) \in Int
        BY <2>0, Zenon
  <2> DEFINE out == slid[j]
             next == (IF out = <<>> THEN first ELSE Last(out)) + Change(j + 1)
  <2>2. /\ out \in Seq(Int) /\ Len(out) = j
        /\ \A i \in 1..j : out[i] = BoxSum(line, n, r, i) /\ BoxSum(line, n, r, i) \in Int
        BY <1>14, <2>1
  <2>3. slid[j + 1] = Append(out, next)
    <3>1. j + 1 \in 1..n /\ (j + 1) - 1 = j
          BY <2>1
    <3> QED
        BY <1>12, <3>1 DEF Added
  <2>4. next = BoxSum(line, n, r, j + 1) /\ next \in Int
    <3>1. /\ j + 1 \in 1..n /\ (j + 1) - 1 = j
          /\ BoxSum(line, n, r, j + 1) = BoxSum(line, n, r, j) + Change(j + 1)
          /\ Change(j + 1) \in Int
          BY <1>4, <1>5, <2>1
    <3>2. CASE j = 0
      <4>1. out = <<>>
            BY <2>2, <3>2, EmptySeq
      <4> QED
          BY <1>3, <3>1, <3>2, <4>1
    <3>3. CASE j # 0
      <4>1. out # <<>> /\ j \in 1..j
            BY <2>2, <3>3, EmptySeq
      <4>2. Last(out) = BoxSum(line, n, r, j) /\ BoxSum(line, n, r, j) \in Int
            BY <2>2, <4>1 DEF Last
      <4> QED
          BY <3>1, <4>1, <4>2
    <3> QED
        BY <3>2, <3>3
  <2> HIDE DEF out, next
  <2>5. /\ Append(out, next) \in Seq(Int) /\ Len(Append(out, next)) = j + 1
        /\ \A i \in 1..j : Append(out, next)[i] = out[i]
        /\ Append(out, next)[j + 1] = next
        BY <2>2, <2>4, AppendProperties
  <2>6. ASSUME NEW i \in 1..(j + 1)
        PROVE  /\ slid[j + 1][i] = BoxSum(line, n, r, i)
               /\ BoxSum(line, n, r, i) \in Int
    <3>1. i \in 1..j \/ i = j + 1
          OBVIOUS
    <3> QED
        BY <2>2, <2>3, <2>4, <2>5, <3>1
  <2> QED
      BY <2>3, <2>5, <2>6
<1>15. /\ slid[n] \in Seq(Int) /\ Len(slid[n]) = n
       /\ \A i \in 1..n : slid[n][i] = BoxSum(line, n, r, i) /\ BoxSum(line, n, r, i) \in Int
  <2> HIDE DEF Good
  <2>1. Nat \subseteq Good
        BY <1>13, <1>14, AllNumbers
  <2>2. n \in Good
        BY <2>1
  <2> QED
      BY <2>2 DEF Good
<1>16. slid[n] = [j \in 1..n |-> BoxSum(line, n, r, j)]
  <2>1. slid[n] \in [1..n -> Int]
        BY <1>15, LenProperties
  <2> QED
      BY <1>15, <2>1
<1> QED
    BY <1>2, <1>15, <1>16

-----------------------------------------------------------------------------
(* The blur.                                                               *)

\* Rows of numbers: h of them with w elements
Grid(h, w, T) == [1..h -> [1..w -> T]]

\* The sums of the boxes of radius r in each row, and in each column of these
BoxedRows(rows, h, w, r) ==
  [i \in 1..h |-> [j \in 1..w |-> BoxSum(rows[i], w, r, j)]]
BoxedColumns(rows, h, w, r) ==
  [i \in 1..h |-> [j \in 1..w |-> BoxSum([k \in 1..h |-> rows[k][j]], h, r, i)]]
Boxed(rows, h, w, r) == BoxedColumns(BoxedRows(rows, h, w, r), h, w, r)

\* HorBlur leaves the sums of the boxes in each row.
LEMMA HorBlurIs ==
  ASSUME NEW h \in Nat, NEW w \in Nat, NEW rows \in Grid(h, w, Int),
         NEW r \in Nat, h = 0 \/ 2 * r + 1 <= w
  PROVE  /\ HorBlur(rows, r) = BoxedRows(rows, h, w, r)
         /\ HorBlur(rows, r) \in Grid(h, w, Int)
<1> DEFINE e == [i \in 1..h |-> Slide(rows[i], r)]
           Solves(g) == g = [i \in 0..h |-> IF i = 0 THEN <<>>
                                           ELSE Append(g[i - 1], Slide(rows[i], r))]
           out == CHOOSE g : Solves(g)
<1>1. ASSUME NEW i \in 1..h
      PROVE  /\ Slide(rows[i], r) = [j \in 1..w |-> BoxSum(rows[i], w, r, j)]
             /\ Slide(rows[i], r) \in [1..w -> Int]
  <2>1. rows[i] \in [1..w -> Int]
        BY DEF Grid
  <2>2. /\ Slide(rows[i], r) = [j \in 1..w |-> BoxSum(rows[i], w, r, j)]
        /\ \A j \in 1..w : BoxSum(rows[i], w, r, j) \in Int
    <3>1. 2 * r + 1 <= w
          OBVIOUS
    <3> QED
        BY <2>1, <3>1, SlideIs
  <2> QED
      BY <2>2
<1>2. e = [i \in 1..h |-> [j \in 1..w |-> BoxSum(rows[i], w, r, j)]]
      BY <1>1
<1>3. e \in Grid(h, w, Int)
      BY <1>1 DEF Grid
<1>4. Len(rows) = h
      BY ListIs DEF Grid
<1>5. HorBlur(rows, r) = out[h]
      BY <1>4 DEF HorBlur
<1>6. ASSUME NEW g PROVE Solves(g) <=> Growing(g, h, e)
  <2>1. \A i \in 0..h : i # 0 => e[i] = Slide(rows[i], r)
        OBVIOUS
  <2> HIDE DEF e
  <2> QED
      BY <2>1 DEF Growing
<1>7. out[h] = e
  <2>1. e \in [1..h -> [1..w -> Int]]
        BY <1>3 DEF Grid
  <2> HIDE DEF e
  <2>2. (\E g : Growing(g, h, e)) /\ \A g : Growing(g, h, e) => g[h] = e
        BY <2>1, AppendTable
  <2> HIDE DEF Solves
  <2>3. Solves(out)
        BY <1>6, <2>2
  <2> QED
      BY <1>6, <2>2, <2>3
<1> HIDE DEF e, out
<1> QED
    BY <1>2, <1>3, <1>5, <1>6, <1>7 DEF BoxedRows

\* The columns of rows
Columns(rows, h, w) == [j \in 1..w |-> [i \in 1..h |-> rows[i][j]]]

\* Rows that are not empty become columns.
LEMMA TransposedIs ==
  ASSUME NEW T, NEW h \in Nat \ {0}, NEW w \in Nat, NEW rows \in Grid(h, w, T)
  PROVE  /\ Transposed(rows) = Columns(rows, h, w)
         /\ Transposed(rows) \in Grid(w, h, T)
<1>1. rows \in [1..h -> [1..w -> T]]
      BY DEF Grid
<1>2. rows # <<>> /\ DOMAIN rows = 1..h /\ DOMAIN rows[1] = 1..w
  <2>1. Len(rows) = h
        BY <1>1, ListIs
  <2>2. 1 \in 1..h
        OBVIOUS
  <2> QED
      BY <1>1, <2>1, <2>2
<1>3. \A j \in 1..w, i \in 1..h : rows[i][j] \in T
      BY <1>1
<1>4. Transposed(rows) = Columns(rows, h, w)
      BY <1>2 DEF Transposed, Columns
<1> QED
    BY <1>3, <1>4 DEF Grid, Columns

\* TotalBlur leaves the sums of the boxes in each column.
LEMMA TotalBlurIs ==
  ASSUME NEW h \in Nat, NEW w \in Nat, NEW rows \in Grid(h, w, Int),
         NEW r \in Nat, h = 0 \/ (w # 0 /\ 2 * r + 1 <= h)
  PROVE  /\ TotalBlur(rows, r) = BoxedColumns(rows, h, w, r)
         /\ TotalBlur(rows, r) \in Grid(h, w, Int)
<1>1. CASE h = 0
  <2>1. rows = <<>>
    <3>1. rows \in [1..0 -> [1..w -> Int]]
          BY <1>1 DEF Grid
    <3>2. rows \in Seq([1..w -> Int]) /\ Len(rows) = 0
          BY <3>1, ListIs
    <3> QED
        BY <3>2, EmptySeq
  <2>2. Transposed(rows) = rows
        BY <2>1 DEF Transposed
  <2>3. HorBlur(rows, r) \in Grid(0, w, Int)
        BY <1>1, HorBlurIs
  <2>4. HorBlur(rows, r) = <<>>
    <3>1. HorBlur(rows, r) \in [1..0 -> [1..w -> Int]]
          BY <2>3 DEF Grid
    <3>2. /\ HorBlur(rows, r) \in Seq([1..w -> Int])
          /\ Len(HorBlur(rows, r)) = 0
          BY <3>1, ListIs
    <3> QED
        BY <3>2, EmptySeq
  <2>5. TotalBlur(rows, r) = <<>>
        BY <2>1, <2>2, <2>4 DEF TotalBlur, Transposed
  <2>6. <<>> = BoxedColumns(rows, h, w, r) /\ <<>> \in Grid(h, w, Int)
    <3>1. BoxedColumns(rows, h, w, r)
            \in [1..0 -> {BoxedColumns(rows, h, w, r)[i] : i \in 1..0}]
          BY <1>1 DEF BoxedColumns
    <3> DEFINE boxed == BoxedColumns(rows, h, w, r)
               T == {boxed[i] : i \in 1..0}
    <3> HIDE DEF boxed, T
    <3>2. boxed \in [1..0 -> T]
          BY <3>1 DEF boxed, T
    <3>3. boxed \in Seq(T) /\ Len(boxed) = 0
          BY <3>2, ListIs
    <3>4. boxed = <<>>
          BY <3>3, EmptySeq
    <3> QED
        BY <2>1, <3>4 DEF boxed
  <2> QED
      BY <2>5, <2>6
<1>2. CASE h # 0
  <2> DEFINE turned == Columns(rows, h, w)
             boxed == BoxedRows(turned, w, h, r)
  <2>1. Transposed(rows) = turned /\ turned \in Grid(w, h, Int)
    <3>1. h \in Nat \ {0}
          BY <1>2
    <3> QED
        BY <3>1, TransposedIs
  <2>2. HorBlur(turned, r) = boxed /\ boxed \in Grid(w, h, Int)
    <3> HIDE DEF turned
    <3>1. 2 * r + 1 <= h
          BY <1>2
    <3> QED
        BY <2>1, <3>1, HorBlurIs
  <2>3. /\ Transposed(boxed) = Columns(boxed, w, h)
        /\ Transposed(boxed) \in Grid(h, w, Int)
    <3> HIDE DEF boxed
    <3>1. w \in Nat \ {0} /\ boxed \in Grid(w, h, Int)
          BY <1>2, <2>2
    <3> QED
        BY <3>1, TransposedIs
  <2>4. ASSUME NEW i \in 1..h, NEW j \in 1..w
        PROVE  boxed[j][i] = BoxSum([k \in 1..h |-> rows[k][j]], h, r, i)
        BY DEF BoxedRows, Columns
  <2>5. Transposed(boxed) = BoxedColumns(rows, h, w, r)
    <3> HIDE DEF boxed, turned
    <3> QED
        BY <2>3, <2>4 DEF BoxedColumns, Columns
  <2>6. TotalBlur(rows, r) = Transposed(boxed)
    <3> HIDE DEF boxed, turned
    <3> QED
        BY <2>1, <2>2 DEF TotalBlur
  <2> QED
      BY <2>3, <2>5, <2>6
<1> QED
    BY <1>1, <1>2

\* A box of radius r fits into a grid, or the grid is empty.
Fits(r, h, w) == h = 0 \/ (2 * r + 1 <= w /\ 2 * r + 1 <= h)

\* BoxBlur leaves the sums of the squares around the elements in one of its two
\* arrays, and FastGaussianBlur gives those of the array the third one did.
LEMMA GaussianIs ==
  ASSUME NEW h \in Nat, NEW w \in Nat, NEW plane \in Grid(h, w, Int),
         NEW boxes \in [1..3 -> Nat], \A i \in 1..3 : Fits(boxes[i], h, w)
  PROVE  /\ FastGaussianBlur(plane, boxes)
              = Boxed(Boxed(Boxed(plane, h, w, boxes[1]), h, w, boxes[2]), h, w, boxes[3])
         /\ FastGaussianBlur(plane, boxes) \in Grid(h, w, Int)
<1>1. ASSUME NEW rows \in Grid(h, w, Int), NEW other, NEW i \in 1..3
      PROVE  /\ BoxBlur([in |-> rows, out |-> other], boxes[i]).out
                  = Boxed(rows, h, w, boxes[i])
             /\ Boxed(rows, h, w, boxes[i]) \in Grid(h, w, Int)
  <2> DEFINE r == boxes[i]
             row == BoxedRows(rows, h, w, r)
  <2>1. r \in Nat
        OBVIOUS
  <2>2. (h = 0 \/ 2 * r + 1 <= w) /\ (h = 0 \/ (w # 0 /\ 2 * r + 1 <= h))
        BY <2>1 DEF Fits
  <2> HIDE DEF r
  <2>3. HorBlur(rows, r) = row /\ row \in Grid(h, w, Int)
        BY <2>1, <2>2, HorBlurIs
  <2>4. /\ TotalBlur(row, r) = BoxedColumns(row, h, w, r)
        /\ TotalBlur(row, r) \in Grid(h, w, Int)
    <3> HIDE DEF row
    <3> QED
        BY <2>1, <2>2, <2>3, TotalBlurIs
  <2>5. BoxBlur([in |-> rows, out |-> other], r).out = TotalBlur(HorBlur(rows, r), r)
        BY DEF BoxBlur
  <2> QED
      BY <2>3, <2>4, <2>5 DEF Boxed, r
<1> DEFINE p1 == Boxed(plane, h, w, boxes[1])
           p2 == Boxed(p1, h, w, boxes[2])
           p3 == Boxed(p2, h, w, boxes[3])
           first == BoxBlur([in |-> plane, out |-> plane], boxes[1])
           second == Crossed(BoxBlur(Crossed(first), boxes[2]))
<1>2. first.out = p1 /\ p1 \in Grid(h, w, Int)
      BY <1>1
<1> HIDE DEF p1, first
<1>3. second.in = p2 /\ p2 \in Grid(h, w, Int)
  <2>1. Crossed(first) = [in |-> p1, out |-> first.in]
        BY <1>2 DEF Crossed
  <2>2. /\ BoxBlur([in |-> p1, out |-> first.in], boxes[2]).out = p2
        /\ p2 \in Grid(h, w, Int)
        BY <1>1, <1>2
  <2>3. second.in = BoxBlur(Crossed(first), boxes[2]).out
        BY DEF Crossed
  <2> HIDE DEF second, p2
  <2> QED
      BY <2>1, <2>2, <2>3
<1>4. second = [in |-> second.in, out |-> second.out]
      BY DEF Crossed
<1> HIDE DEF p2, second
<1>5. BoxBlur(second, boxes[3]).out = p3 /\ p3 \in Grid(h, w, Int)
  <2>1. /\ BoxBlur([in |-> p2, out |-> second.out], boxes[3]).out = p3
        /\ p3 \in Grid(h, w, Int)
        BY <1>1, <1>3
  <2>2. second = [in |-> p2, out |-> second.out]
        BY <1>3, <1>4
  <2> HIDE DEF p3
  <2> QED
      BY <2>1, <2>2
<1>6. FastGaussianBlur(plane, boxes) = BoxBlur(second, boxes[3]).out
      BY DEF FastGaussianBlur, second, first
<1> QED
    BY <1>5, <1>6 DEF p1, p2

\* The greatest and the least of two numbers.
LEMMA MaxOfTwo ==
  ASSUME NEW a \in Int, NEW b \in Int
  PROVE  /\ Max({a, b}) = IF a >= b THEN a ELSE b
         /\ Min({a, b}) = IF a <= b THEN a ELSE b
<1>1. PICK hi \in {a, b} : \A y \in {a, b} : hi >= y
      OBVIOUS
<1>2. PICK lo \in {a, b} : \A y \in {a, b} : lo <= y
      OBVIOUS
<1>3. Max({a, b}) \in {a, b} /\ \A y \in {a, b} : Max({a, b}) >= y
      BY <1>1 DEF Max
<1>4. Min({a, b}) \in {a, b} /\ \A y \in {a, b} : Min({a, b}) <= y
      BY <1>2 DEF Min
<1> QED
    BY <1>3, <1>4

\* StdToBox gives three radii, whatever the deviation.
LEMMA BoxesAre ==
  ASSUME NEW sigma \in Int
  PROVE  /\ Boxes(sigma) \in [1..3 -> Nat]
         /\ Weight(Boxes(sigma)) \in Nat \ {0}
<1> DEFINE size == Max({sigma, -sigma})
           T == {n \in 1..(1 + size) : 2500 * n * n <= sigma * sigma + 2500}
           floor == Max(T)
           lower == IF floor % 2 = 0 THEN floor - 1 ELSE floor
           num   == 2500 * (3 * lower * lower + 12 * lower + 9) - 3 * sigma * sigma
           den   == 10000 * (lower + 1)
           m     == (2 * num + den) \div (2 * den)
<1>1. size \in Nat
  <2>1. -sigma \in Int
        OBVIOUS
  <2> QED
      BY <2>1, MaxOfTwo
<1> HIDE DEF size
<1>2. floor \in Nat /\ floor >= 1
  <2>1. 2 + size \in Nat /\ T \subseteq 0..((2 + size) - 1)
        BY <1>1
  <2>2. 1 \in T
    <3>1. sigma * sigma >= 0
          OBVIOUS
    <3>2. 1 \in 1..(1 + size) /\ 2500 * 1 * 1 <= sigma * sigma + 2500
          BY <1>1, <3>1
    <3> QED
        BY <3>2
  <2>3. T \subseteq 1..(1 + size)
        OBVIOUS
  <2> HIDE DEF T
  <2>4. Max(T) \in T
    <3> DEFINE k == 2 + size
    <3>1. k \in Nat /\ T \subseteq 0..(k - 1) /\ T # {}
          BY <2>1, <2>2
    <3> HIDE DEF k
    <3> QED
        BY <3>1, GreatestExists
  <2>5. floor \in 1..(1 + size)
        BY <2>3, <2>4
  <2> HIDE DEF floor
  <2> QED
      BY <1>1, <2>5
<1> HIDE DEF floor
<1>3. lower \in Nat /\ lower >= 1
      BY <1>2
<1>4. Boxes(sigma) = [i \in 1..3 |-> IF i <= m THEN (lower - 1) \div 2 ELSE (lower + 1) \div 2]
      BY DEF Boxes, floor, T, size
<1> HIDE DEF lower, m
<1>5. (lower - 1) \div 2 \in Nat /\ (lower + 1) \div 2 \in Nat
      BY <1>3
<1>6. Boxes(sigma) \in [1..3 -> Nat]
  <2>1. ASSUME NEW i \in 1..3
        PROVE  (IF i <= m THEN (lower - 1) \div 2 ELSE (lower + 1) \div 2) \in Nat
        BY <1>5
  <2> QED
      BY <1>4, <2>1
<1>7. Weight(Boxes(sigma)) \in Nat \ {0}
  <2> DEFINE b == Boxes(sigma)
             w(i) == (2 * b[i] + 1) * (2 * b[i] + 1)
  <2>1. ASSUME NEW a \in Nat \ {0}, NEW c \in Nat \ {0}
        PROVE  a * c \in Nat \ {0}
        BY <2>1
  <2>2. ASSUME NEW i \in 1..3 PROVE 2 * b[i] + 1 \in Nat \ {0}
    <3> HIDE DEF b
    <3>1. b[i] \in Nat
          BY <1>6 DEF b
    <3> QED
        BY <3>1
  <2> HIDE DEF b
  <2>3. \A i \in 1..3 : w(i) \in Nat \ {0}
        BY <2>1, <2>2
  <2>4. w(1) \in Nat \ {0} /\ w(2) \in Nat \ {0} /\ w(3) \in Nat \ {0}
        BY <2>3
  <2> HIDE DEF w
  <2>5. w(1) * w(2) \in Nat \ {0}
        BY <2>1, <2>4
  <2>6. w(1) * w(2) * w(3) \in Nat \ {0}
        BY <2>1, <2>4, <2>5
  <2> QED
      BY <2>6 DEF Weight, w, b
<1> QED
    BY <1>6, <1>7

-----------------------------------------------------------------------------
(* Pictures.                                                               *)

Pixels == [Colours -> Byte]
ImagesOf(h, w) == [width : {w}, height : {h}, pixels : Grid(h, w, Pixels)]
Images == UNION {ImagesOf(h, w) : h \in Nat, w \in Nat}

\* The picture of w times h pixels that is seen where f tells its pixels
View(h, w, f) == [width |-> w, height |-> h, at |-> [p \in (1..w) \X (1..h) |-> f[p]]]

\* An image as it is written in the code, and what is seen of it.
LEMMA ImageIs ==
  ASSUME NEW h \in Nat, NEW w \in Nat, NEW img \in ImagesOf(h, w)
  PROVE  /\ img = [width |-> w, height |-> h, pixels |-> img.pixels]
         /\ img.pixels \in [1..h -> [1..w -> Pixels]]
         /\ DOMAIN img.pixels = 1..h
         /\ \A i \in 1..h : DOMAIN img.pixels[i] = 1..w
         /\ \A i \in 1..h, j \in 1..w : img.pixels[i][j] \in Pixels
BY DEF ImagesOf, Grid

\* What is seen of an image, when f tells its pixels by column and row from the top.
LEMMA SeenIs ==
  ASSUME NEW h \in Nat, NEW w \in Nat, NEW img \in ImagesOf(h, w), NEW f,
         \A x \in 1..w, y \in 1..h : img.pixels[h + 1 - y][x] = f[<<x, y>>]
  PROVE  Seen(img) = View(h, w, f)
<1>1. img.width = w /\ img.height = h
      BY DEF ImagesOf
<1>2. \A p \in (1..w) \X (1..h) : img.pixels[h + 1 - p[2]][p[1]] = f[p]
      OBVIOUS
<1>3. [p \in (1..w) \X (1..h) |-> img.pixels[h + 1 - p[2]][p[1]]]
        = [p \in (1..w) \X (1..h) |-> f[p]]
      BY <1>2
<1> QED
    BY <1>1, <1>3 DEF Seen, View

\* An image that is given other pixels.
LEMMA PixelsReplaced ==
  ASSUME NEW h \in Nat, NEW w \in Nat, NEW img \in ImagesOf(h, w), NEW px
  PROVE  [img EXCEPT !.pixels = px] = [width |-> w, height |-> h, pixels |-> px]
<1>1. img \in [width : {w}, height : {h}, pixels : Grid(h, w, Pixels)]
      BY DEF ImagesOf
<1> QED
    BY <1>1

\* The pixels that are seen are those of the image.
LEMMA SeenPixels ==
  ASSUME NEW h \in Nat, NEW w \in Nat, NEW img \in ImagesOf(h, w)
  PROVE  \A p \in DOMAIN Seen(img).at : Seen(img).at[p] \in Pixels
<1>1. img.width = w /\ img.height = h
      BY DEF ImagesOf
<1>2. ASSUME NEW p \in (1..w) \X (1..h)
      PROVE  img.pixels[h + 1 - p[2]][p[1]] \in Pixels
  <2>1. p[1] \in 1..w /\ h + 1 - p[2] \in 1..h
        OBVIOUS
  <2> QED
      BY <2>1, ImageIs
<1> QED
    BY <1>1, <1>2 DEF Seen

\* px are the pixels of an image, and at those that are seen, as g changes them
Changed(img, h, w, g, px) == px = [i \in 1..h |-> [j \in 1..w |-> g[img.pixels[i][j]]]]
ChangedSeen(seen, g, at) == at = [p \in DOMAIN seen.at |-> g[seen.at[p]]]

\* Where the pixels of an image are changed one by one, so are those that are seen.
LEMMA OneByOne ==
  ASSUME NEW h \in Nat, NEW w \in Nat, NEW img \in ImagesOf(h, w),
         NEW g \in [Pixels -> Pixels], NEW px, NEW at,
         Changed(img, h, w, g, px), ChangedSeen(Seen(img), g, at)
  PROVE  /\ [img EXCEPT !.pixels = px] \in ImagesOf(h, w)
         /\ Seen([img EXCEPT !.pixels = px]) = [Seen(img) EXCEPT !.at = at]
<1> DEFINE new == [img EXCEPT !.pixels = px]
           seen == Seen(img)
<1>1. \A i \in 1..h, j \in 1..w : g[img.pixels[i][j]] \in Pixels
      BY ImageIs
<1>2. new = [width |-> w, height |-> h, pixels |-> px]
      BY PixelsReplaced
<1>3. new \in ImagesOf(h, w)
  <2>1. px \in Grid(h, w, Pixels)
        BY <1>1 DEF Grid, Changed
  <2> QED
      BY <1>2, <2>1 DEF ImagesOf
<1>4. /\ DOMAIN seen.at = (1..w) \X (1..h)
      /\ seen = [width |-> w, height |-> h, at |-> seen.at]
      /\ \A x \in 1..w, y \in 1..h : seen.at[<<x, y>>] = img.pixels[h + 1 - y][x]
  <2>1. img.width = w /\ img.height = h
        BY DEF ImagesOf
  <2> QED
      BY <2>1 DEF Seen
<1>5. ASSUME NEW x \in 1..w, NEW y \in 1..h
      PROVE  new.pixels[h + 1 - y][x] = at[<<x, y>>]
  <2>1. h + 1 - y \in 1..h
        OBVIOUS
  <2>2. new.pixels[h + 1 - y][x] = g[img.pixels[h + 1 - y][x]]
        BY <1>2, <2>1 DEF Changed
  <2> HIDE DEF seen
  <2>3. at[<<x, y>>] = g[seen.at[<<x, y>>]]
        BY <1>4 DEF seen, ChangedSeen
  <2> QED
      BY <1>4, <2>2, <2>3
<1> HIDE DEF new
<1>6. Seen(new) = View(h, w, at)
      BY <1>3, <1>5, SeenIs
<1>7. DOMAIN at = (1..w) \X (1..h) /\ at = [p \in DOMAIN at |-> at[p]]
      BY <1>4 DEF ChangedSeen
<1>8. View(h, w, at) = [width |-> w, height |-> h, at |-> at]
      BY <1>7 DEF View
<1> HIDE DEF seen
<1>9. [seen EXCEPT !.at = at] = [width |-> w, height |-> h, at |-> at]
      BY <1>4
<1> QED
    BY <1>3, <1>6, <1>8, <1>9 DEF new, seen

\* Grayscale makes the pixels that are seen gray.
LEMMA GrayIs ==
  ASSUME NEW h \in Nat, NEW w \in Nat, NEW img \in ImagesOf(h, w)
  PROVE  /\ MapPixels(img, Gray) \in ImagesOf(h, w)
         /\ Seen(MapPixels(img, Gray)) = OnSeen(Seen(img), Gray)
<1> DEFINE g == [p \in Pixels |-> Gray(p)]
           seen == Seen(img)
           px == [i \in DOMAIN img.pixels |-> [j \in DOMAIN img.pixels[i] |->
                    Gray(img.pixels[i][j])]]
           at == [p \in DOMAIN seen.at |-> Gray(seen.at[p])]
<1>1. ASSUME NEW p \in Pixels PROVE Gray(p) \in Pixels
  <2> DEFINE num == 114 * p[1] + 587 * p[2] + 299 * p[3]
  <2>1. num \in Int /\ 1000 \in Nat \ {0}
    <3>1. p[1] \in Int /\ p[2] \in Int /\ p[3] \in Int
          BY DEF Pixels, Byte, Colours
    <3> QED
        BY <3>1
  <2> HIDE DEF num
  <2>2. Truncated(num, 1000) \in Byte
        BY <2>1, TruncatedIsByte
  <2> QED
      BY <2>2 DEF Gray, Pixels, num
<1>2. g \in [Pixels -> Pixels] /\ \A p \in Pixels : g[p] = Gray(p)
      BY <1>1
<1> HIDE DEF g
<1>3. Changed(img, h, w, g, px)
      BY <1>2, ImageIs DEF Changed
<1>4. ChangedSeen(seen, g, at)
  <2>1. \A p \in DOMAIN seen.at : seen.at[p] \in Pixels
        BY SeenPixels
  <2> HIDE DEF seen
  <2> QED
      BY <1>2, <2>1 DEF ChangedSeen
<1>5. /\ MapPixels(img, Gray) = [img EXCEPT !.pixels = px]
      /\ OnSeen(Seen(img), Gray) = [Seen(img) EXCEPT !.at = at]
      BY DEF MapPixels, OnSeen
<1> HIDE DEF px, at
<1> QED
    BY <1>2, <1>3, <1>4, <1>5, OneByOne

\* Negative makes the pixels that are seen negative.
LEMMA NegatedIs ==
  ASSUME NEW h \in Nat, NEW w \in Nat, NEW img \in ImagesOf(h, w)
  PROVE  /\ MapPixels(img, Negated) \in ImagesOf(h, w)
         /\ Seen(MapPixels(img, Negated)) = OnSeen(Seen(img), Negated)
<1> DEFINE g == [p \in Pixels |-> Negated(p)]
           seen == Seen(img)
           px == [i \in DOMAIN img.pixels |-> [j \in DOMAIN img.pixels[i] |->
                    Negated(img.pixels[i][j])]]
           at == [p \in DOMAIN seen.at |-> Negated(seen.at[p])]
<1>1. ASSUME NEW p \in Pixels PROVE Negated(p) \in Pixels
      BY DEF Negated, Pixels, Byte
<1>2. g \in [Pixels -> Pixels] /\ \A p \in Pixels : g[p] = Negated(p)
      BY <1>1
<1> HIDE DEF g
<1>3. Changed(img, h, w, g, px)
      BY <1>2, ImageIs DEF Changed
<1>4. ChangedSeen(seen, g, at)
  <2>1. \A p \in DOMAIN seen.at : seen.at[p] \in Pixels
        BY SeenPixels
  <2> HIDE DEF seen
  <2> QED
      BY <1>2, <2>1 DEF ChangedSeen
<1>5. /\ MapPixels(img, Negated) = [img EXCEPT !.pixels = px]
      /\ OnSeen(Seen(img), Negated) = [Seen(img) EXCEPT !.at = at]
      BY DEF MapPixels, OnSeen
<1> HIDE DEF px, at
<1> QED
    BY <1>2, <1>3, <1>4, <1>5, OneByOne

Mixed(img, params) == MapPixels(img, LAMBDA p : CrossPolynomial(p, params))
MixedSeen(seen, params) == OnSeen(seen, LAMBDA p : CrossPolynomial(p, params))

\* The arguments of a polynomial have values.
Valued(params) == \A k \in 1..30 : Hundredths[params[k]] \in Int

\* CrossPolynomial puts the polynomials of their colours in place of the pixels.
LEMMA PolynomialIs ==
  ASSUME NEW h \in Nat, NEW w \in Nat, NEW img \in ImagesOf(h, w),
         NEW params, Valued(params)
  PROVE  /\ Mixed(img, params) \in ImagesOf(h, w)
         /\ Seen(Mixed(img, params)) = MixedSeen(Seen(img), params)
<1> DEFINE g == [p \in Pixels |-> CrossPolynomial(p, params)]
           seen == Seen(img)
           px == [i \in DOMAIN img.pixels |-> [j \in DOMAIN img.pixels[i] |->
                    CrossPolynomial(img.pixels[i][j], params)]]
           at == [p \in DOMAIN seen.at |-> CrossPolynomial(seen.at[p], params)]
<1>1. ASSUME NEW p \in Pixels PROVE CrossPolynomial(p, params) \in Pixels
  <2>1. ASSUME NEW c \in Colours PROVE Truncated(Polynomial(p, c, params), 25500) \in Byte
    <3> DEFINE blue == p[1]
               green == p[2]
               red == p[3]
               terms == <<255 * red, 255 * green, 255 * blue, red * red, green * green,
                          blue * blue, red * green, green * blue, blue * red, 255 * 255>>
               s == [i \in 1..10 |-> Hundredths[params[10 * (3 - c) + i]] * terms[i]]
    <3>1. blue \in Int /\ green \in Int /\ red \in Int
          BY DEF Pixels, Byte, Colours
    <3> HIDE DEF blue, green, red
    <3>2. ASSUME NEW a \in Int, NEW b \in Int PROVE a * b \in Int
          OBVIOUS
    <3>3. \A i \in 1..10 : terms[i] \in Int
          BY <3>1, <3>2
    <3> HIDE DEF terms
    <3>4. \A i \in 1..10 : s[i] \in Int
      <4>1. \A i \in 1..10 : 10 * (3 - c) + i \in 1..30
            BY DEF Colours
      <4> QED
          BY <3>2, <3>3, <4>1 DEF Valued
    <3> HIDE DEF s
    <3>5. Total(s, 10) \in Int
      <4>1. 10 \in Nat /\ 10 \in 0..10
            OBVIOUS
      <4> QED
          BY <3>4, <4>1, Sums
    <3>6. Polynomial(p, c, params) \in Int
          BY <3>5 DEF Polynomial, s, terms, red, green, blue
    <3> QED
        BY <3>6, TruncatedIsByte
  <2> QED
      BY <2>1 DEF CrossPolynomial, Pixels
<1>2. g \in [Pixels -> Pixels] /\ \A p \in Pixels : g[p] = CrossPolynomial(p, params)
      BY <1>1
<1> HIDE DEF g
<1>3. Changed(img, h, w, g, px)
      BY <1>2, ImageIs DEF Changed
<1>4. ChangedSeen(seen, g, at)
  <2>1. \A p \in DOMAIN seen.at : seen.at[p] \in Pixels
        BY SeenPixels
  <2> HIDE DEF seen
  <2> QED
      BY <1>2, <2>1 DEF ChangedSeen
<1>5. /\ Mixed(img, params) = [img EXCEPT !.pixels = px]
      /\ MixedSeen(Seen(img), params) = [Seen(img) EXCEPT !.at = at]
      BY DEF Mixed, MixedSeen, MapPixels, OnSeen
<1> HIDE DEF px, at
<1> QED
    BY <1>2, <1>3, <1>4, <1>5, OneByOne

\* White where every colour is above a hundredth of limit
Mark(pixel, limit) == IF \A c \in Colours : 100 * pixel[c] > limit THEN White ELSE Black
Marked(img, limit) == MapPixels(img, LAMBDA p : Mark(p, limit))
MarkedSeen(seen, limit) == OnSeen(seen, LAMBDA p : Mark(p, limit))

\* EdgeDetection ends with a threshold on the pixels that are seen.
LEMMA ThresholdIs ==
  ASSUME NEW h \in Nat, NEW w \in Nat, NEW img \in ImagesOf(h, w),
         NEW limit
  PROVE  /\ Marked(img, limit) \in ImagesOf(h, w)
         /\ Seen(Marked(img, limit)) = MarkedSeen(Seen(img), limit)
<1> DEFINE g == [p \in Pixels |-> Mark(p, limit)]
           seen == Seen(img)
           px == [i \in DOMAIN img.pixels |-> [j \in DOMAIN img.pixels[i] |->
                    Mark(img.pixels[i][j], limit)]]
           at == [p \in DOMAIN seen.at |-> Mark(seen.at[p], limit)]
<1>1. ASSUME NEW p \in Pixels PROVE Mark(p, limit) \in Pixels
      BY DEF Mark, White, Black, Pixels, Byte
<1>2. g \in [Pixels -> Pixels] /\ \A p \in Pixels : g[p] = Mark(p, limit)
      BY <1>1
<1> HIDE DEF g
<1>3. Changed(img, h, w, g, px)
      BY <1>2, ImageIs DEF Changed
<1>4. ChangedSeen(seen, g, at)
  <2>1. \A p \in DOMAIN seen.at : seen.at[p] \in Pixels
        BY SeenPixels
  <2> HIDE DEF seen
  <2> QED
      BY <1>2, <2>1 DEF ChangedSeen
<1>5. /\ Marked(img, limit) = [img EXCEPT !.pixels = px]
      /\ MarkedSeen(Seen(img), limit) = [Seen(img) EXCEPT !.at = at]
      BY DEF Marked, MarkedSeen, MapPixels, OnSeen
<1> HIDE DEF px, at
<1> QED
    BY <1>2, <1>3, <1>4, <1>5, OneByOne

\* One pixel everywhere makes an image.
LEMMA SpoiltIs ==
  ASSUME NEW h \in Nat, NEW w \in Nat, NEW img \in ImagesOf(h, w),
         NEW pixel \in {Black, White}
  PROVE  MapPixels(img, LAMBDA p : pixel) \in ImagesOf(h, w)
<1> DEFINE px == [i \in DOMAIN img.pixels |-> [j \in DOMAIN img.pixels[i] |-> pixel]]
<1>1. pixel \in Pixels
      BY DEF White, Black, Pixels, Byte
<1>2. px \in Grid(h, w, Pixels)
  <2>1. DOMAIN img.pixels = 1..h /\ \A i \in 1..h : DOMAIN img.pixels[i] = 1..w
        BY ImageIs
  <2> QED
      BY <1>1, <2>1 DEF Grid
<1>3. MapPixels(img, LAMBDA p : pixel) = [img EXCEPT !.pixels = px]
      BY DEF MapPixels
<1> HIDE DEF px
<1>4. [img EXCEPT !.pixels = px] = [width |-> w, height |-> h, pixels |-> px]
      BY PixelsReplaced
<1> QED
    BY <1>2, <1>3, <1>4 DEF ImagesOf

-----------------------------------------------------------------------------
(* Neighbours.                                                             *)

\* What next to 1..n is taken for an element is in it.
LEMMA WithinIs ==
  ASSUME NEW n \in Nat \ {0}, NEW k \in Int
  PROVE  /\ Within(k, n) \in 1..n
         /\ n + 1 - Within(k, n) = Within(n + 1 - k, n)
BY DEF Within

\* The element of 1..n nearest to k is k, or the end that k is beyond.
LEMMA NearestIs ==
  ASSUME NEW n \in Nat \ {0}, NEW k \in Int
  PROVE  Nearest(k, n) = Within(k, n)
<1> DEFINE Good(m) == \A o \in 1..n : Distance(k, m) <= Distance(k, o)
<1>1. Within(k, n) \in 1..n
      BY WithinIs
<1>2. Good(Within(k, n))
      BY <1>1 DEF Within, Distance
<1>3. ASSUME NEW m \in 1..n, Good(m) PROVE m = Within(k, n)
  <2>1. Distance(k, m) <= Distance(k, Within(k, n))
        BY <1>1, <1>3
  <2> QED
      BY <2>1 DEF Within, Distance
<1>4. Nearest(k, n) \in 1..n /\ Good(Nearest(k, n))
  <2>1. Nearest(k, n) = CHOOSE m \in 1..n : Good(m)
        BY DEF Nearest
  <2> HIDE DEF Good
  <2> QED
      BY <1>1, <1>2, <2>1
<1> QED
    BY <1>3, <1>4

\* What nearest_pixel does one step beyond an edge.
LEMMA InwardIs ==
  ASSUME NEW n \in Nat, NEW i \in 1..n, NEW d \in -1..1
  PROVE  Inward(i + d, n) = Within(i + d, n)
BY DEF Inward, Within

\* The sum of nine numbers.
LEMMA Nine ==
  ASSUME NEW s, \A k \in 1..9 : s[k] \in Int
  PROVE  Total(s, 9) = s[1] + s[2] + s[3] + s[4] + s[5] + s[6] + s[7] + s[8] + s[9]
<1>1. 9 \in Nat
      OBVIOUS
<1>2. /\ Total(s, 0) = 0
      /\ \A n \in 1..9 : Total(s, n) = Total(s, n - 1) + s[n]
      BY <1>1, Sums
<1>3. Total(s, 1) = s[1] /\ Total(s, 2) = Total(s, 1) + s[2] /\ Total(s, 3) = Total(s, 2) + s[3]
      BY <1>2
<1>4. /\ Total(s, 4) = Total(s, 3) + s[4] /\ Total(s, 5) = Total(s, 4) + s[5]
      /\ Total(s, 6) = Total(s, 5) + s[6]
      BY <1>2
<1>5. /\ Total(s, 7) = Total(s, 6) + s[7] /\ Total(s, 8) = Total(s, 7) + s[8]
      /\ Total(s, 9) = Total(s, 8) + s[9]
      BY <1>2
<1> QED
    BY <1>3, <1>4, <1>5

\* One colour of the pixel in row i and column j, or of the pixel next to it
Beside(img, h, w, i, j, c) == img.pixels[Within(i, h)][Within(j, w)][c]

\* centre times a pixel, less its four neighbours
Edges(img, h, w, centre, i, j, c) ==
  centre * Beside(img, h, w, i, j, c)
    - Beside(img, h, w, i, j - 1, c) - Beside(img, h, w, i, j + 1, c)
    - Beside(img, h, w, i - 1, j, c) - Beside(img, h, w, i + 1, j, c)

\* The sum of a matrix is a number.
LEMMA EdgesAre ==
  ASSUME NEW h \in Nat, NEW w \in Nat, NEW img \in ImagesOf(h, w), NEW centre \in Int,
         NEW i \in 1..h, NEW j \in 1..w, NEW c \in Colours
  PROVE  /\ \A a, b \in Int : Beside(img, h, w, a, b, c) \in Int
         /\ Edges(img, h, w, centre, i, j, c) \in Int
<1>1. ASSUME NEW a \in Int, NEW b \in Int
      PROVE  Beside(img, h, w, a, b, c) \in Int
  <2>1. Within(a, h) \in 1..h /\ Within(b, w) \in 1..w
    <3>1. h \in Nat \ {0} /\ w \in Nat \ {0}
          OBVIOUS
    <3> QED
        BY <3>1, WithinIs
  <2>2. img.pixels[Within(a, h)][Within(b, w)] \in Pixels
        BY <2>1, ImageIs
  <2>3. \A q \in Pixels : q[c] \in Int
        BY DEF Pixels, Byte
  <2> QED
      BY <2>2, <2>3 DEF Beside
<1>2. /\ i - 1 \in Int /\ i + 1 \in Int /\ j - 1 \in Int /\ j + 1 \in Int /\ i \in Int /\ j \in Int
      OBVIOUS
<1> DEFINE N(a, b) == Beside(img, h, w, a, b, c)
<1>3. /\ N(i, j) \in Int /\ N(i, j - 1) \in Int /\ N(i, j + 1) \in Int
      /\ N(i - 1, j) \in Int /\ N(i + 1, j) \in Int
      BY <1>1, <1>2
<1>4. Edges(img, h, w, centre, i, j, c)
        = centre * N(i, j) - N(i, j - 1) - N(i, j + 1) - N(i - 1, j) - N(i + 1, j)
      BY DEF Edges
<1> HIDE DEF N
<1>5. centre * N(i, j) \in Int
      BY <1>3
<1>6. Edges(img, h, w, centre, i, j, c) \in Int
      BY <1>3, <1>4, <1>5
<1> QED
    BY <1>1, <1>6

\* ApplyMatrix with the matrix of a cross gives every pixel that sum of the old
\* image, within a byte.
LEMMA CrossIs ==
  ASSUME NEW h \in Nat, NEW w \in Nat, NEW img \in ImagesOf(h, w), NEW centre \in Int
  PROVE  ApplyMatrix(img, Cross(centre))
           = [width |-> w, height |-> h,
              pixels |-> [i \in 1..h |-> [j \in 1..w |-> [c \in Colours |->
                            Clamp(Edges(img, h, w, centre, i, j, c))]]]]
<1> DEFINE M == Cross(centre)
           Term(i, j, c, di, dj) ==
             M[2 + di][2 + dj] *
               img.pixels[Inward(i + di, img.height)][Inward(j + dj, img.width)][c]
           s(i, j, c) ==
             [k \in 1..9 |-> Term(i, j, c, ((k - 1) \div 3) - 1, ((k - 1) % 3) - 1)]
<1>1. /\ img = [width |-> w, height |-> h, pixels |-> img.pixels]
      /\ DOMAIN img.pixels = 1..h
      /\ \A i \in 1..h : DOMAIN img.pixels[i] = 1..w
      BY ImageIs
<1>2. ASSUME NEW i \in 1..h, NEW j \in 1..w, NEW c \in Colours
      PROVE  Total(s(i, j, c), 9) = Edges(img, h, w, centre, i, j, c)
  <2> DEFINE N(a, b) == Beside(img, h, w, a, b, c)
  <2>1. /\ i - 1 \in Int /\ i + 1 \in Int /\ j - 1 \in Int /\ j + 1 \in Int /\ i \in Int /\ j \in Int
        OBVIOUS
  <2>2. \A a, b \in Int : N(a, b) \in Int
        BY EdgesAre
  <2>3. ASSUME NEW di \in -1..1, NEW dj \in -1..1
        PROVE  Term(i, j, c, di, dj) = M[2 + di][2 + dj] * N(i + di, j + dj)
    <3>1. img.height = h /\ img.width = w
          BY <1>1
    <3>2. Inward(i + di, h) = Within(i + di, h) /\ Inward(j + dj, w) = Within(j + dj, w)
          BY InwardIs
    <3> HIDE DEF M
    <3> QED
        BY <3>1, <3>2 DEF Beside
  <2>4. /\ M[1][1] = 0 /\ M[1][2] = -1 /\ M[1][3] = 0
        /\ M[2][1] = -1 /\ M[2][2] = centre /\ M[2][3] = -1
        /\ M[3][1] = 0 /\ M[3][2] = -1 /\ M[3][3] = 0
        BY DEF Cross
  <2> HIDE DEF M, N, Term
  <2>5. /\ s(i, j, c)[1] = Term(i, j, c, -1, -1) /\ s(i, j, c)[2] = Term(i, j, c, -1, 0)
        /\ s(i, j, c)[3] = Term(i, j, c, -1, 1) /\ s(i, j, c)[4] = Term(i, j, c, 0, -1)
        /\ s(i, j, c)[5] = Term(i, j, c, 0, 0) /\ s(i, j, c)[6] = Term(i, j, c, 0, 1)
        /\ s(i, j, c)[7] = Term(i, j, c, 1, -1) /\ s(i, j, c)[8] = Term(i, j, c, 1, 0)
        /\ s(i, j, c)[9] = Term(i, j, c, 1, 1)
        OBVIOUS
  <2>6. /\ Term(i, j, c, -1, -1) = 0 * N(i - 1, j - 1)
        /\ Term(i, j, c, -1, 0) = (-1) * N(i - 1, j)
        /\ Term(i, j, c, -1, 1) = 0 * N(i - 1, j + 1)
    <3>1. -1 \in -1..1 /\ 0 \in -1..1 /\ 1 \in -1..1
          OBVIOUS
    <3>2. /\ Term(i, j, c, -1, -1) = M[2 + -1][2 + -1] * N(i + -1, j + -1)
          /\ Term(i, j, c, -1, 0) = M[2 + -1][2 + 0] * N(i + -1, j + 0)
          /\ Term(i, j, c, -1, 1) = M[2 + -1][2 + 1] * N(i + -1, j + 1)
          BY <2>3, <3>1
    <3>3. /\ 2 + -1 = 1 /\ 2 + 0 = 2 /\ 2 + 1 = 3
          /\ i + -1 = i - 1 /\ i + 0 = i /\ j + -1 = j - 1 /\ j + 0 = j
          OBVIOUS
    <3> QED
        BY <2>4, <3>2, <3>3
  <2>7. /\ Term(i, j, c, 0, -1) = (-1) * N(i, j - 1)
        /\ Term(i, j, c, 0, 0) = centre * N(i, j)
        /\ Term(i, j, c, 0, 1) = (-1) * N(i, j + 1)
    <3>1. -1 \in -1..1 /\ 0 \in -1..1 /\ 1 \in -1..1
          OBVIOUS
    <3>2. /\ Term(i, j, c, 0, -1) = M[2 + 0][2 + -1] * N(i + 0, j + -1)
          /\ Term(i, j, c, 0, 0) = M[2 + 0][2 + 0] * N(i + 0, j + 0)
          /\ Term(i, j, c, 0, 1) = M[2 + 0][2 + 1] * N(i + 0, j + 1)
          BY <2>3, <3>1
    <3>3. /\ 2 + -1 = 1 /\ 2 + 0 = 2 /\ 2 + 1 = 3
          /\ i + -1 = i - 1 /\ i + 0 = i /\ j + -1 = j - 1 /\ j + 0 = j
          OBVIOUS
    <3> QED
        BY <2>4, <3>2, <3>3
  <2>8. /\ Term(i, j, c, 1, -1) = 0 * N(i + 1, j - 1)
        /\ Term(i, j, c, 1, 0) = (-1) * N(i + 1, j)
        /\ Term(i, j, c, 1, 1) = 0 * N(i + 1, j + 1)
    <3>1. -1 \in -1..1 /\ 0 \in -1..1 /\ 1 \in -1..1
          OBVIOUS
    <3>2. /\ Term(i, j, c, 1, -1) = M[2 + 1][2 + -1] * N(i + 1, j + -1)
          /\ Term(i, j, c, 1, 0) = M[2 + 1][2 + 0] * N(i + 1, j + 0)
          /\ Term(i, j, c, 1, 1) = M[2 + 1][2 + 1] * N(i + 1, j + 1)
          BY <2>3, <3>1
    <3>3. /\ 2 + -1 = 1 /\ 2 + 0 = 2 /\ 2 + 1 = 3
          /\ i + -1 = i - 1 /\ i + 0 = i /\ j + -1 = j - 1 /\ j + 0 = j
          OBVIOUS
    <3> QED
        BY <2>4, <3>2, <3>3
  <2>9. /\ N(i, j) \in Int /\ N(i, j - 1) \in Int /\ N(i, j + 1) \in Int
        /\ N(i - 1, j) \in Int /\ N(i + 1, j) \in Int /\ N(i - 1, j - 1) \in Int
        /\ N(i - 1, j + 1) \in Int /\ N(i + 1, j - 1) \in Int /\ N(i + 1, j + 1) \in Int
        /\ centre * N(i, j) \in Int
    <3>1. \A a \in Int : centre * a \in Int
          OBVIOUS
    <3> QED
        BY <2>1, <2>2, <3>1
  <2> DEFINE t == s(i, j, c)
  <2>10. /\ t[1] = 0 /\ t[2] = -N(i - 1, j) /\ t[3] = 0
         /\ t[4] = -N(i, j - 1) /\ t[5] = centre * N(i, j) /\ t[6] = -N(i, j + 1)
         /\ t[7] = 0 /\ t[8] = -N(i + 1, j) /\ t[9] = 0
    <3>1. \A a \in Int : 0 * a = 0 /\ (-1) * a = -a
          OBVIOUS
    <3> HIDE DEF s
    <3> QED
        BY <2>5, <2>6, <2>7, <2>8, <2>9, <3>1
  <2> HIDE DEF t
  <2>11. Total(t, 9) = t[1] + t[2] + t[3] + t[4] + t[5] + t[6] + t[7] + t[8] + t[9]
    <3>1. /\ t[1] \in Int /\ t[2] \in Int /\ t[3] \in Int /\ t[4] \in Int /\ t[5] \in Int
          /\ t[6] \in Int /\ t[7] \in Int /\ t[8] \in Int /\ t[9] \in Int
          BY <2>9, <2>10
    <3>2. \A k \in 1..9 : t[k] \in Int
          BY <3>1
    <3> QED
        BY <3>2, Nine
  <2>12. Edges(img, h, w, centre, i, j, c)
           = centre * N(i, j) - N(i, j - 1) - N(i, j + 1) - N(i - 1, j) - N(i + 1, j)
         BY DEF Edges, N
  <2>13. Total(t, 9) = Edges(img, h, w, centre, i, j, c)
         BY <2>9, <2>10, <2>11, <2>12
  <2> QED
      BY <2>13 DEF t
<1> DEFINE px == [i \in DOMAIN img.pixels |-> [j \in DOMAIN img.pixels[i] |->
                   [c \in Colours |-> Clamp(Total(s(i, j, c), 9))]]]
<1>3. ApplyMatrix(img, M) = [img EXCEPT !.pixels = px]
      BY DEF ApplyMatrix
<1>4. px = [i \in 1..h |-> [j \in 1..w |-> [c \in Colours |->
             Clamp(Edges(img, h, w, centre, i, j, c))]]]
  <2> HIDE DEF s
  <2> QED
      BY <1>1, <1>2
<1> HIDE DEF px
<1>5. [img EXCEPT !.pixels = px] = [width |-> w, height |-> h, pixels |-> px]
      BY PixelsReplaced
<1> QED
    BY <1>3, <1>4, <1>5

\* A neighbour in a picture as it is seen is one in the image.
LEMMA NeighbourIs ==
  ASSUME NEW h \in Nat \ {0}, NEW w \in Nat \ {0}, NEW img \in ImagesOf(h, w),
         NEW x \in Int, NEW y \in Int
  PROVE  Seen(img).at[<<Nearest(x, w), Nearest(y, h)>>]
           = img.pixels[Within(h + 1 - y, h)][Within(x, w)]
<1>1. img.width = w /\ img.height = h
      BY DEF ImagesOf
<1>2. /\ Nearest(x, w) = Within(x, w) /\ Within(x, w) \in 1..w
      /\ Nearest(y, h) = Within(y, h) /\ Within(y, h) \in 1..h
      /\ h + 1 - Within(y, h) = Within(h + 1 - y, h)
      BY NearestIs, WithinIs
<1> DEFINE p == <<Within(x, w), Within(y, h)>>
<1>3. p \in (1..w) \X (1..h) /\ p[1] = Within(x, w) /\ p[2] = Within(y, h)
      BY <1>2
<1> HIDE DEF p
<1>4. Seen(img).at[p] = img.pixels[h + 1 - p[2]][p[1]]
      BY <1>1, <1>3 DEF Seen
<1> QED
    BY <1>2, <1>3, <1>4 DEF p

\* The sharpening and the edges are those of the picture that is seen.
LEMMA ContrastIs ==
  ASSUME NEW h \in Nat, NEW w \in Nat, NEW img \in ImagesOf(h, w), NEW centre \in Int
  PROVE  /\ ApplyMatrix(img, Cross(centre)) \in ImagesOf(h, w)
         /\ Seen(ApplyMatrix(img, Cross(centre))) = Contrast(Seen(img), centre)
<1> DEFINE pixel(i, j) == [c \in Colours |-> Clamp(Edges(img, h, w, centre, i, j, c))]
           px == [i \in 1..h |-> [j \in 1..w |-> pixel(i, j)]]
           crossed == ApplyMatrix(img, Cross(centre))
<1>1. crossed = [width |-> w, height |-> h, pixels |-> px]
      BY CrossIs
<1>2. \A i \in 1..h, j \in 1..w : pixel(i, j) \in Pixels
  <2>1. \A n \in Int : Clamp(n) \in Byte
        BY DEF Clamp, Byte
  <2>2. \A i \in 1..h, j \in 1..w, c \in Colours : Edges(img, h, w, centre, i, j, c) \in Int
        BY EdgesAre
  <2> QED
      BY <2>1, <2>2 DEF Pixels
<1> HIDE DEF pixel
<1>3. crossed \in ImagesOf(h, w)
  <2>1. px \in Grid(h, w, Pixels)
        BY <1>2 DEF Grid
  <2> HIDE DEF px, crossed
  <2> QED
      BY <1>1, <2>1 DEF ImagesOf
<1> DEFINE at == Seen(img).at
           At(x, y, c) == at[<<Nearest(x, w), Nearest(y, h)>>][c]
           sum(x, y, c) == centre * At(x, y, c)
                 - At(x - 1, y, c) - At(x + 1, y, c) - At(x, y - 1, c) - At(x, y + 1, c)
           f == [p \in (1..w) \X (1..h) |-> [c \in Colours |->
                  Max({0, Min({255, sum(p[1], p[2], c)})})]]
<1>4. Contrast(Seen(img), centre) = View(h, w, f)
  <2>1. img.width = w /\ img.height = h
        BY DEF ImagesOf
  <2>2. /\ Seen(img) = [width |-> w, height |-> h, at |-> at]
        /\ DOMAIN at = (1..w) \X (1..h)
        BY <2>1 DEF Seen
  <2>3. Seen(img).width = w /\ Seen(img).height = h
        BY <2>2
  <2>4. Contrast(Seen(img), centre) = [Seen(img) EXCEPT !.at = [p \in DOMAIN @ |-> f[p]]]
    <3>1. \A p \in DOMAIN at : f[p] = [c \in Colours |->
                  Max({0, Min({255, sum(p[1], p[2], c)})})]
          BY <2>2
    <3>2. [p \in DOMAIN at |-> [c \in Colours |->
                  Max({0, Min({255, sum(p[1], p[2], c)})})]] = [p \in DOMAIN at |-> f[p]]
          BY <3>1
    <3>3. Contrast(Seen(img), centre)
            = [Seen(img) EXCEPT !.at = [p \in DOMAIN at |-> [c \in Colours |->
                  Max({0, Min({255, sum(p[1], p[2], c)})})]]]
          BY <2>3 DEF Contrast
    <3> HIDE DEF f, sum
    <3> QED
        BY <3>2, <3>3
  <2> HIDE DEF f, at
  <2> QED
      BY <2>2, <2>4 DEF View
<1>5. ASSUME NEW x \in 1..w, NEW y \in 1..h
      PROVE  crossed.pixels[h + 1 - y][x] = f[<<x, y>>]
  <2> DEFINE i == h + 1 - y
             N(a, b, c) == Beside(img, h, w, a, b, c)
  <2>1. i \in 1..h /\ crossed.pixels[i][x] = pixel(i, x)
    <3>1. i \in 1..h
          OBVIOUS
    <3> HIDE DEF crossed, i
    <3> QED
        BY <1>1, <3>1
  <2>2. ASSUME NEW a \in Int, NEW b \in Int, NEW c
        PROVE  At(a, b, c) = N(h + 1 - b, a, c)
    <3>1. h \in Nat \ {0} /\ w \in Nat \ {0}
          OBVIOUS
    <3> QED
        BY <3>1, NeighbourIs DEF Beside
  <2>3. ASSUME NEW c \in Colours
        PROVE  Clamp(Edges(img, h, w, centre, i, x, c)) = Max({0, Min({255, sum(x, y, c)})})
    <3>1. /\ At(x, y, c) = N(i, x, c) /\ At(x - 1, y, c) = N(i, x - 1, c)
          /\ At(x + 1, y, c) = N(i, x + 1, c) /\ At(x, y - 1, c) = N(i + 1, x, c)
          /\ At(x, y + 1, c) = N(i - 1, x, c)
      <4>1. /\ x \in Int /\ x - 1 \in Int /\ x + 1 \in Int
            /\ y \in Int /\ y - 1 \in Int /\ y + 1 \in Int
            /\ h + 1 - (y - 1) = i + 1 /\ h + 1 - (y + 1) = i - 1
            OBVIOUS
      <4>2. /\ At(x, y, c) = N(h + 1 - y, x, c) /\ At(x - 1, y, c) = N(h + 1 - y, x - 1, c)
            /\ At(x + 1, y, c) = N(h + 1 - y, x + 1, c)
            /\ At(x, y - 1, c) = N(h + 1 - (y - 1), x, c)
            /\ At(x, y + 1, c) = N(h + 1 - (y + 1), x, c)
        <5> HIDE DEF At, N
        <5> QED
            BY <2>2, <4>1
      <4> HIDE DEF At, N
      <4> QED
          BY <4>1, <4>2
    <3>2. Edges(img, h, w, centre, i, x, c) = centre * N(i, x, c)
            - N(i, x - 1, c) - N(i, x + 1, c) - N(i - 1, x, c) - N(i + 1, x, c)
          BY DEF Edges
    <3>3. /\ N(i, x, c) \in Int /\ N(i, x - 1, c) \in Int /\ N(i, x + 1, c) \in Int
          /\ N(i - 1, x, c) \in Int /\ N(i + 1, x, c) \in Int
          /\ Edges(img, h, w, centre, i, x, c) \in Int
      <4>1. /\ i \in Int /\ x \in Int /\ x - 1 \in Int /\ x + 1 \in Int /\ i - 1 \in Int
            /\ i + 1 \in Int
            OBVIOUS
      <4>2. /\ \A a, b \in Int : Beside(img, h, w, a, b, c) \in Int
            /\ Edges(img, h, w, centre, i, x, c) \in Int
        <5> HIDE DEF i
        <5> QED
            BY <2>1, EdgesAre
      <4> QED
          BY <4>1, <4>2
    <3> HIDE DEF N, At, i
    <3>4. centre * N(i, x, c) \in Int
          BY <3>3
    <3>5. sum(x, y, c) = Edges(img, h, w, centre, i, x, c)
          BY <3>1, <3>2, <3>3, <3>4
    <3>6. \A n \in Int : Clamp(n) = Max({0, Min({255, n})})
      <4>1. ASSUME NEW n \in Int PROVE Clamp(n) = Max({0, Min({255, n})})
        <5>1. 255 \in Int /\ 0 \in Int
              OBVIOUS
        <5>2. Min({255, n}) = (IF 255 <= n THEN 255 ELSE n)
              BY <5>1, MaxOfTwo
        <5> DEFINE least == Min({255, n})
        <5>3. least \in Int
              BY <5>2
        <5> HIDE DEF least
        <5>4. Max({0, least}) = IF 0 >= least THEN 0 ELSE least
              BY <5>1, <5>3, MaxOfTwo
        <5>5. least = (IF 255 <= n THEN 255 ELSE n)
              BY <5>2 DEF least
        <5>6. Clamp(n) = Max({0, least})
              BY <5>4, <5>5 DEF Clamp
        <5> QED
            BY <5>6 DEF least
      <4> QED
          BY <4>1
    <3> HIDE DEF sum
    <3> QED
        BY <3>3, <3>5, <3>6
  <2>4. f[<<x, y>>] = [c \in Colours |-> Max({0, Min({255, sum(x, y, c)})})]
    <3>1. <<x, y>> \in (1..w) \X (1..h) /\ <<x, y>>[1] = x /\ <<x, y>>[2] = y
          OBVIOUS
    <3> HIDE DEF sum
    <3> QED
        BY <3>1
  <2> HIDE DEF i, sum, f, crossed
  <2>5. pixel(i, x) = f[<<x, y>>]
        BY <2>3, <2>4 DEF pixel
  <2> QED
      BY <2>1, <2>5 DEF i
<1> HIDE DEF crossed, f
<1>6. Seen(crossed) = View(h, w, f)
      BY <1>3, <1>5, SeenIs
<1> QED
    BY <1>3, <1>4, <1>6 DEF crossed

-----------------------------------------------------------------------------
(* A crop and the detection of edges.                                      *)

\* The corner of a picture that a crop promises
Corner(seen, width, height) ==
  [width |-> width, height |-> height, at |-> [p \in (1..width) \X (1..height) |-> seen.at[p]]]

\* A crop keeps the upper left of the picture that is seen.
LEMMA CropIs ==
  ASSUME NEW h \in Nat, NEW w \in Nat, NEW img \in ImagesOf(h, w), NEW params,
         Value[params[1]] \in Nat, Value[params[2]] \in Nat
  PROVE  LET width  == Min({w, Value[params[1]]})
             height == Min({h, Value[params[2]]})
         IN  /\ width \in Nat /\ height \in Nat
             /\ Crop(img, params) \in ImagesOf(height, width)
             /\ Seen(Crop(img, params)) = Corner(Seen(img), width, height)
<1> DEFINE width  == Min({w, Value[params[1]]})
           height == Min({h, Value[params[2]]})
           px == [i \in 1..height |-> [j \in 1..width |-> img.pixels[h - height + i][j]]]
           cropped == Crop(img, params)
<1>1. /\ width = Smaller(w, Value[params[1]]) /\ width \in Nat /\ width <= w
      /\ height = Smaller(h, Value[params[2]]) /\ height \in Nat /\ height <= h
  <2>1. /\ width = (IF w <= Value[params[1]] THEN w ELSE Value[params[1]])
        /\ height = (IF h <= Value[params[2]] THEN h ELSE Value[params[2]])
    <3>1. w \in Int /\ h \in Int /\ Value[params[1]] \in Int /\ Value[params[2]] \in Int
          OBVIOUS
    <3> QED
        BY <3>1, MaxOfTwo
  <2> HIDE DEF width, height
  <2> QED
      BY <2>1 DEF Smaller
<1> HIDE DEF width, height
<1>2. /\ img = [width |-> w, height |-> h, pixels |-> img.pixels]
      /\ img.width = w /\ img.height = h
      /\ DOMAIN img.pixels = 1..h
      /\ \A i \in 1..h : DOMAIN img.pixels[i] = 1..w
      /\ \A i \in 1..h, j \in 1..w : img.pixels[i][j] \in Pixels
      BY ImageIs
<1> DEFINE low == SetImageHeight(img, height)
           narrow == SetImageWidth(low, width)
<1>3. low = [width |-> w, height |-> height, pixels |-> [i \in 1..height |-> img.pixels[i]]]
  <2>1. \A i \in 1..height : i \in DOMAIN img.pixels
        BY <1>1, <1>2
  <2>2. [i \in 1..height |-> IF i \in DOMAIN img.pixels THEN img.pixels[i] ELSE <<>>]
          = [i \in 1..height |-> img.pixels[i]]
        BY <2>1
  <2>3. low = [[img EXCEPT !.height = height] EXCEPT !.pixels =
                 [i \in 1..height |-> IF i \in DOMAIN img.pixels THEN img.pixels[i] ELSE <<>>]]
    <3>1. [img EXCEPT !.height = height].pixels = img.pixels
          BY <1>2
    <3> QED
        BY <3>1 DEF SetImageHeight
  <2> DEFINE rows == [i \in 1..height |-> img.pixels[i]]
  <2>4. [[img EXCEPT !.height = height] EXCEPT !.pixels = rows]
          = [width |-> w, height |-> height, pixels |-> rows]
    <3> HIDE DEF rows
    <3>1. [img EXCEPT !.height = height]
            = [width |-> w, height |-> height, pixels |-> img.pixels]
          BY <1>2
    <3> DEFINE less == [img EXCEPT !.height = height]
    <3> HIDE DEF less
    <3>2. less = [width |-> w, height |-> height, pixels |-> img.pixels]
          BY <3>1 DEF less
    <3>3. [less EXCEPT !.pixels = rows]
            = [width |-> w, height |-> height, pixels |-> rows]
          BY <3>2
    <3> QED
        BY <3>3 DEF less
  <2> QED
      BY <2>2, <2>3, <2>4
<1>4. /\ DOMAIN narrow.pixels = 1..height
      /\ \A i \in 1..height : DOMAIN narrow.pixels[i] = 1..width
      /\ \A new : [narrow EXCEPT !.pixels = new]
                    = [width |-> width, height |-> height, pixels |-> new]
  <2> DEFINE rows == [i \in 1..height |-> img.pixels[i]]
             cut == [i \in 1..height |-> [j \in 1..width |->
                      IF j \in DOMAIN rows[i] THEN rows[i][j] ELSE Black]]
  <2>1. low = [width |-> w, height |-> height, pixels |-> rows]
        BY <1>3
  <2> HIDE DEF rows, low
  <2>2. narrow = [width |-> width, height |-> height,
                  pixels |-> [i \in DOMAIN rows |-> [j \in 1..width |->
                      IF j \in DOMAIN rows[i] THEN rows[i][j] ELSE Black]]]
    <3> DEFINE wide == [low EXCEPT !.width = width]
               new == [i \in DOMAIN rows |-> [j \in 1..width |->
                      IF j \in DOMAIN rows[i] THEN rows[i][j] ELSE Black]]
    <3>1. wide = [width |-> width, height |-> height, pixels |-> rows] /\ low.pixels = rows
          BY <2>1
    <3>2. narrow = [wide EXCEPT !.pixels = [i \in DOMAIN @ |-> [j \in 1..width |->
                      IF j \in DOMAIN @[i] THEN @[i][j] ELSE Black]]]
          BY DEF SetImageWidth
    <3> HIDE DEF wide, narrow
    <3>3. [wide EXCEPT !.pixels = [i \in DOMAIN @ |-> [j \in 1..width |->
                      IF j \in DOMAIN @[i] THEN @[i][j] ELSE Black]]]
            = [wide EXCEPT !.pixels = new]
          BY <3>1
    <3> HIDE DEF new
    <3>4. [wide EXCEPT !.pixels = new]
            = [width |-> width, height |-> height, pixels |-> new]
          BY <3>1
    <3> QED
        BY <3>2, <3>3, <3>4 DEF new
  <2>3. DOMAIN rows = 1..height
        BY DEF rows
  <2> HIDE DEF narrow
  <2> QED
      BY <2>2, <2>3
<1> HIDE DEF low, narrow
<1>5. cropped = [width |-> width, height |-> height, pixels |-> px]
  <2>1. cropped = [narrow EXCEPT !.pixels =
          [i \in DOMAIN narrow.pixels |-> [j \in DOMAIN narrow.pixels[i] |->
            img.pixels[h - height + i][j]]]]
        BY <1>1, <1>2 DEF Crop, narrow, low
  <2>2. [i \in DOMAIN narrow.pixels |-> [j \in DOMAIN narrow.pixels[i] |->
            img.pixels[h - height + i][j]]] = px
        BY <1>4
  <2> HIDE DEF cropped, px
  <2> QED
      BY <1>4, <2>1, <2>2
<1>6. cropped \in ImagesOf(height, width)
  <2>1. ASSUME NEW i \in 1..height, NEW j \in 1..width
        PROVE  img.pixels[h - height + i][j] \in Pixels
    <3>1. h - height + i \in 1..h /\ j \in 1..w
          BY <1>1
    <3> QED
        BY <1>2, <3>1
  <2>2. px \in Grid(height, width, Pixels)
        BY <2>1 DEF Grid
  <2> HIDE DEF px, cropped
  <2> QED
      BY <1>5, <2>2 DEF ImagesOf
<1> DEFINE at == Seen(img).at
<1>7. ASSUME NEW x \in 1..width, NEW y \in 1..height
      PROVE  cropped.pixels[height + 1 - y][x] = at[<<x, y>>]
  <2>1. /\ height + 1 - y \in 1..height /\ h - height + (height + 1 - y) = h + 1 - y
        /\ <<x, y>> \in (1..w) \X (1..h)
        BY <1>1
  <2>2. cropped.pixels[height + 1 - y][x] = img.pixels[h + 1 - y][x]
    <3>1. px[height + 1 - y][x] = img.pixels[h - height + (height + 1 - y)][x]
          BY <2>1
    <3> HIDE DEF px, cropped
    <3> QED
        BY <1>5, <2>1, <3>1
  <2>3. at[<<x, y>>] = img.pixels[h + 1 - y][x]
        BY <1>2, <2>1 DEF Seen
  <2> QED
      BY <2>2, <2>3
<1> HIDE DEF cropped, at
<1>8. Seen(cropped) = View(height, width, at)
      BY <1>1, <1>6, <1>7, SeenIs
<1>9. View(height, width, at) = Corner(Seen(img), width, height)
      BY DEF View, Corner, at
<1> QED
    BY <1>1, <1>6, <1>8, <1>9 DEF cropped, width, height

\* The detection of edges, too.
LEMMA EdgeIs ==
  ASSUME NEW h \in Nat, NEW w \in Nat, NEW img \in ImagesOf(h, w), NEW params
  PROVE  /\ EdgeDetection(img, params) \in ImagesOf(h, w)
         /\ Seen(EdgeDetection(img, params)) =
              MarkedSeen(Contrast(OnSeen(Seen(img), Gray), 4), 255 * Hundredths[params[1]])
<1> DEFINE gray == MapPixels(img, Gray)
           edges == ApplyMatrix(gray, Cross(4))
           limit == 255 * Hundredths[params[1]]
<1>1. gray \in ImagesOf(h, w) /\ Seen(gray) = OnSeen(Seen(img), Gray)
      BY GrayIs
<1> HIDE DEF gray
<1>2. edges \in ImagesOf(h, w) /\ Seen(edges) = Contrast(Seen(gray), 4)
  <2>1. 4 \in Int
        OBVIOUS
  <2> QED
      BY <1>1, <2>1, ContrastIs
<1> HIDE DEF edges, limit
<1>3. /\ Marked(edges, limit) \in ImagesOf(h, w)
      /\ Seen(Marked(edges, limit)) = MarkedSeen(Seen(edges), limit)
      BY <1>2, ThresholdIs
<1>4. EdgeDetection(img, params) = Marked(edges, limit)
      BY DEF EdgeDetection, edges, gray, limit, Marked, Mark
<1> QED
    BY <1>1, <1>2, <1>3, <1>4 DEF limit

-----------------------------------------------------------------------------
(* Squares.                                                                *)

\* The elements in the square of radius r around element p of a picture, colour
\* by colour, and their sums: what Smoothed takes three times
Around(at, w, h, p, dx, dy) == at[<<Nearest(p[1] + dx, w), Nearest(p[2] + dy, h)>>]
SquareSum(at, w, h, r, p, c) ==
  Total([k \in 1..(2 * r + 1) |->
    Total([l \in 1..(2 * r + 1) |-> Around(at, w, h, p, l - r - 1, r + 1 - k)[c]],
          2 * r + 1)], 2 * r + 1)
SquareSums(at, w, h, r) ==
  [p \in DOMAIN at |-> [c \in Colours |-> SquareSum(at, w, h, r, p, c)]]

\* In at is seen what is in the grids of numbers of the three colours.
Shows(at, planes, h, w) ==
  /\ DOMAIN at = (1..w) \X (1..h)
  /\ \A x \in 1..w, y \in 1..h, c \in Colours :
       at[<<x, y>>][c] = planes[c][h + 1 - y][x]

\* The sum of a box is a number.
LEMMA BoxSumIs ==
  ASSUME NEW n \in Nat \ {0}, NEW line, \A i \in 1..n : line[i] \in Int,
         NEW r \in Nat, NEW j \in Int
  PROVE  /\ \A k \in 1..(2 * r + 1) : line[Within(j + k - r - 1, n)] \in Int
         /\ BoxSum(line, n, r, j) \in Int
<1> DEFINE m == 2 * r + 1
           s == [k \in 1..m |-> line[Within(j + k - r - 1, n)]]
<1>1. m \in Nat /\ m \in 0..m
      OBVIOUS
<1>2. ASSUME NEW k \in 1..m PROVE line[Within(j + k - r - 1, n)] \in Int
  <2>1. Within(j + k - r - 1, n) \in 1..n
    <3>1. j + k - r - 1 \in Int
          OBVIOUS
    <3> QED
        BY <3>1, WithinIs
  <2> QED
      BY <2>1
<1>3. \A k \in 1..m : s[k] \in Int
      BY <1>2
<1> HIDE DEF s, m
<1>4. Total(s, m) \in Int
      BY <1>1, <1>3, Sums
<1> QED
    BY <1>2, <1>4 DEF BoxSum, s, m

\* The sum of the square around a pixel that is seen is that of BoxBlur.
LEMMA SquareIs ==
  ASSUME NEW h \in Nat, NEW w \in Nat, NEW r \in Nat, NEW at, NEW planes,
         \A c \in Colours : planes[c] \in Grid(h, w, Int),
         Shows(at, planes, h, w),
         NEW x \in 1..w, NEW y \in 1..h, NEW c \in Colours
  PROVE  SquareSum(at, w, h, r, <<x, y>>, c) = Boxed(planes[c], h, w, r)[h + 1 - y][x]
<1> DEFINE m == 2 * r + 1
           i == h + 1 - y
           rows == planes[c]
           row(k) == Within(i + k - r - 1, h)
           inner(k) == [l \in 1..m |-> Around(at, w, h, <<x, y>>, l - r - 1, r + 1 - k)[c]]
           boxed == BoxedRows(rows, h, w, r)
           column == [k \in 1..h |-> boxed[k][x]]
           s == [k \in 1..m |-> Total(inner(k), m)]
           t == [k \in 1..m |-> column[row(k)]]
<1>1. /\ m \in Nat /\ i \in 1..h /\ h \in Nat \ {0} /\ w \in Nat \ {0} /\ x \in Int
      /\ i \in Int
      OBVIOUS
<1>2. \A a \in 1..h, b \in 1..w : rows[a][b] \in Int
      BY DEF Grid
<1>3. ASSUME NEW k \in 1..m
      PROVE  /\ row(k) \in 1..h
             /\ \A l \in 1..m : inner(k)[l] = rows[row(k)][Within(x + l - r - 1, w)]
  <2>1. i + k - r - 1 \in Int /\ y + (r + 1 - k) \in Int
        /\ h + 1 - (y + (r + 1 - k)) = i + k - r - 1
        OBVIOUS
  <2>2. row(k) \in 1..h
        BY <1>1, <2>1, WithinIs
  <2>3. ASSUME NEW l \in 1..m
        PROVE  inner(k)[l] = rows[row(k)][Within(x + l - r - 1, w)]
    <3>1. x + (l - r - 1) \in Int /\ x + (l - r - 1) = x + l - r - 1
          OBVIOUS
    <3> DEFINE b == Nearest(x + (l - r - 1), w)
               a == Nearest(y + (r + 1 - k), h)
    <3>2. b = Within(x + l - r - 1, w) /\ b \in 1..w
          BY <1>1, <3>1, NearestIs, WithinIs
    <3>3. a \in 1..h /\ h + 1 - a = row(k)
      <4>1. a = Within(y + (r + 1 - k), h)
            BY <1>1, <2>1, NearestIs
      <4>2. /\ Within(y + (r + 1 - k), h) \in 1..h
            /\ h + 1 - Within(y + (r + 1 - k), h) = Within(h + 1 - (y + (r + 1 - k)), h)
            BY <1>1, <2>1, WithinIs
      <4> HIDE DEF a, i
      <4> QED
          BY <2>1, <4>1, <4>2
    <3>4. inner(k)[l] = at[<<b, a>>][c]
          BY DEF Around
    <3> HIDE DEF b, a, inner, row
    <3>5. at[<<b, a>>][c] = planes[c][h + 1 - a][b]
          BY <3>2, <3>3 DEF Shows
    <3> QED
        BY <3>2, <3>3, <3>4, <3>5
  <2> QED
      BY <2>2, <2>3
<1> HIDE DEF i
<1>4. ASSUME NEW k \in 1..m
      PROVE  s[k] = t[k] /\ s[k] \in Int
  <2> DEFINE line == rows[row(k)]
             u == [l \in 1..m |-> line[Within(x + l - r - 1, w)]]
  <2>1. \A b \in 1..w : line[b] \in Int
        BY <1>2, <1>3
  <2>2. /\ \A l \in 1..m : line[Within(x + l - r - 1, w)] \in Int
        /\ BoxSum(line, w, r, x) \in Int
    <3> HIDE DEF line
    <3> QED
        BY <1>1, <2>1, BoxSumIs
  <2>3. Total(inner(k), m) = Total(u, m)
    <3> DEFINE v == inner(k)
    <3>1. \A l \in 1..m : v[l] = u[l] /\ v[l] \in Int
      <4> HIDE DEF inner
      <4> QED
          BY <1>3, <2>2
    <3> HIDE DEF u, v, m
    <3>2. Total(v, m) = Total(u, m)
          BY <1>1, <3>1, SameSum
    <3> QED
        BY <3>2 DEF v
  <2>4. Total(u, m) = BoxSum(line, w, r, x)
        BY DEF BoxSum
  <2>5. column[row(k)] = BoxSum(line, w, r, x)
    <3> HIDE DEF row
    <3> QED
        BY <1>3 DEF BoxedRows
  <2>6. s[k] = Total(inner(k), m) /\ t[k] = column[row(k)]
    <3> HIDE DEF inner, column, row, m
    <3> QED
        OBVIOUS
  <2> HIDE DEF s, t, u, line, inner, column, row
  <2> QED
      BY <2>2, <2>3, <2>4, <2>5, <2>6
<1>5. Total(s, m) = Total(t, m)
  <2> HIDE DEF s, t, m
  <2> QED
      BY <1>1, <1>4, SameSum
<1>6. Boxed(rows, h, w, r)[i][x] = Total(t, m)
  <2>1. Boxed(rows, h, w, r)[i][x] = BoxSum(column, h, r, i)
    <3> HIDE DEF boxed
    <3>1. BoxedColumns(boxed, h, w, r)[i][x] = BoxSum(column, h, r, i)
          BY <1>1 DEF BoxedColumns
    <3> QED
        BY <3>1 DEF Boxed, boxed
  <2>2. BoxSum(column, h, r, i) = Total(t, m)
    <3> HIDE DEF column
    <3> QED
        BY DEF BoxSum
  <2> QED
      BY <2>1, <2>2
<1>7. SquareSum(at, w, h, r, <<x, y>>, c) = Total(s, m)
      BY DEF SquareSum
<1> HIDE DEF s, t, m
<1> QED
    BY <1>5, <1>6, <1>7 DEF i

\* Sums of squares stay what is seen of the grids that BoxBlur leaves.
LEMMA SquaresShown ==
  ASSUME NEW h \in Nat, NEW w \in Nat, NEW r \in Nat, NEW at, NEW planes, NEW boxed,
         \A c \in Colours : planes[c] \in Grid(h, w, Int),
         \A c \in Colours : boxed[c] = Boxed(planes[c], h, w, r),
         Shows(at, planes, h, w)
  PROVE  Shows(SquareSums(at, w, h, r), boxed, h, w)
<1>1. DOMAIN at = (1..w) \X (1..h)
      BY DEF Shows
<1>2. DOMAIN SquareSums(at, w, h, r) = (1..w) \X (1..h)
      BY <1>1 DEF SquareSums
<1>3. ASSUME NEW x \in 1..w, NEW y \in 1..h, NEW c \in Colours
      PROVE  SquareSums(at, w, h, r)[<<x, y>>][c] = boxed[c][h + 1 - y][x]
  <2>1. SquareSum(at, w, h, r, <<x, y>>, c) = Boxed(planes[c], h, w, r)[h + 1 - y][x]
        BY SquareIs
  <2>2. <<x, y>> \in DOMAIN at
        BY <1>1
  <2> QED
      BY <2>1, <2>2 DEF SquareSums
<1> QED
    BY <1>2, <1>3 DEF Shows

\* The colours of an image, one grid for each.
Planes(img) ==
  [c \in Colours |-> [i \in DOMAIN img.pixels |-> [j \in DOMAIN img.pixels[i] |->
    img.pixels[i][j][c]]]]

\* Row by row and colour by colour an image is what is seen of it.
LEMMA PlanesShown ==
  ASSUME NEW h \in Nat, NEW w \in Nat, NEW img \in ImagesOf(h, w)
  PROVE  /\ \A c \in Colours : Planes(img)[c] \in Grid(h, w, Int)
         /\ Shows(Seen(img).at, Planes(img), h, w)
<1>1. /\ DOMAIN img.pixels = 1..h
      /\ \A i \in 1..h : DOMAIN img.pixels[i] = 1..w
      /\ \A i \in 1..h, j \in 1..w : img.pixels[i][j] \in Pixels
      /\ img.width = w /\ img.height = h
      BY ImageIs
<1>2. ASSUME NEW c \in Colours PROVE Planes(img)[c] \in Grid(h, w, Int)
  <2>1. \A i \in 1..h, j \in 1..w : img.pixels[i][j][c] \in Int
    <3>1. \A q \in Pixels : q[c] \in Int
          BY DEF Pixels, Byte
    <3> QED
        BY <1>1, <3>1
  <2>2. Planes(img)[c] = [i \in 1..h |-> [j \in 1..w |-> img.pixels[i][j][c]]]
        BY <1>1 DEF Planes
  <2> QED
      BY <2>1, <2>2 DEF Grid
<1>3. DOMAIN Seen(img).at = (1..w) \X (1..h)
      BY <1>1 DEF Seen
<1>4. ASSUME NEW x \in 1..w, NEW y \in 1..h, NEW c \in Colours
      PROVE  Seen(img).at[<<x, y>>][c] = Planes(img)[c][h + 1 - y][x]
  <2>1. h + 1 - y \in 1..h /\ <<x, y>> \in (1..w) \X (1..h)
        OBVIOUS
  <2>2. Seen(img).at[<<x, y>>] = img.pixels[h + 1 - y][x]
        BY <1>1, <2>1 DEF Seen
  <2>3. Planes(img)[c][h + 1 - y][x] = img.pixels[h + 1 - y][x][c]
        BY <1>1, <2>1 DEF Planes
  <2> QED
      BY <2>2, <2>3
<1> QED
    BY <1>2, <1>3, <1>4 DEF Shows

\* Boxes that Blur can use without walking out of its arrays fit into the image.
LEMMA BoxesFit ==
  ASSUME NEW h \in Nat, NEW w \in Nat, NEW img \in ImagesOf(h, w), NEW params,
         Hundredths[params[1]] \in Int, ~ Overruns(img, params), NEW n \in 1..3
  PROVE  Fits(Boxes(Hundredths[params[1]])[n], h, w)
<1> DEFINE boxes == Boxes(Hundredths[params[1]])
           r == boxes[n]
<1>1. boxes \in [1..3 -> Nat]
      BY BoxesAre
<1>2. img.width = w /\ img.height = h
      BY ImageIs
<1> HIDE DEF boxes
<1>3. r \in ToSet(boxes) /\ r \in Nat
      BY <1>1 DEF ToSet
<1> HIDE DEF r
<1>4. ~ (h > 0 /\ 2 * r + 1 > w) /\ ~ (w > 0 /\ 2 * r + 1 > h)
      BY <1>2, <1>3 DEF Overruns, boxes
<1>5. Fits(r, h, w)
      BY <1>3, <1>4 DEF Fits
<1> QED
    BY <1>5 DEF r, boxes

\* A blur that stays in its arrays gives the picture that is seen smoothed: the
\* sums that it slides over rows and columns, from one array to the other and
\* back, are those of the squares around the pixels.
LEMMA BlurIs ==
  ASSUME NEW h \in Nat, NEW w \in Nat, NEW img \in ImagesOf(h, w), NEW params,
         Hundredths[params[1]] \in Int, ~ Overruns(img, params)
  PROVE  /\ Blur(img, params) \in ImagesOf(h, w)
         /\ Seen(Blur(img, params)) = Smoothed(Seen(img), Boxes(Hundredths[params[1]]))
<1> DEFINE boxes == Boxes(Hundredths[params[1]])
           p0 == Planes(img)
           p1 == [c \in Colours |-> Boxed(p0[c], h, w, boxes[1])]
           p2 == [c \in Colours |-> Boxed(p1[c], h, w, boxes[2])]
           p3 == [c \in Colours |-> Boxed(p2[c], h, w, boxes[3])]
           weight == Weight(boxes)
<1>1. boxes \in [1..3 -> Nat] /\ weight \in Nat \ {0}
      BY BoxesAre
<1>2. \A n \in 1..3 : Fits(boxes[n], h, w)
      BY BoxesFit
<1> HIDE DEF boxes, weight
<1>3. ASSUME NEW c \in Colours
      PROVE  /\ FastGaussianBlur(p0[c], boxes) = p3[c]
             /\ p3[c] \in Grid(h, w, Int)
  <2>1. p0[c] \in Grid(h, w, Int)
        BY PlanesShown
  <2> DEFINE plane == p0[c]
  <2>2. p3[c] = Boxed(Boxed(Boxed(plane, h, w, boxes[1]), h, w, boxes[2]), h, w, boxes[3])
        OBVIOUS
  <2> HIDE DEF p0, p3, plane
  <2>3. plane \in Grid(h, w, Int)
        BY <2>1 DEF plane
  <2>4. /\ FastGaussianBlur(plane, boxes)
             = Boxed(Boxed(Boxed(plane, h, w, boxes[1]), h, w, boxes[2]), h, w, boxes[3])
        /\ FastGaussianBlur(plane, boxes) \in Grid(h, w, Int)
        BY <1>1, <1>2, <2>3, GaussianIs
  <2> QED
      BY <2>2, <2>4 DEF plane
<1> DEFINE pixel(i, j) == [c \in Colours |-> Truncated(p3[c][i][j], weight)]
           px == [i \in 1..h |-> [j \in 1..w |-> pixel(i, j)]]
           blurred == Blur(img, params)
<1>4. blurred = [width |-> w, height |-> h, pixels |-> px]
  <2> DEFINE new == [i \in DOMAIN img.pixels |-> [j \in DOMAIN img.pixels[i] |->
                      [c \in Colours |-> Truncated(
                        [d \in Colours |-> FastGaussianBlur(p0[d], boxes)][c][i][j], weight)]]]
  <2>1. /\ DOMAIN img.pixels = 1..h
        /\ \A i \in 1..h : DOMAIN img.pixels[i] = 1..w
        BY ImageIs
  <2>2. blurred = [img EXCEPT !.pixels = new]
    <3> DEFINE Plane(c) == [i \in DOMAIN img.pixels |-> [j \in DOMAIN img.pixels[i] |->
                     img.pixels[i][j][c]]]
               old == [c \in Colours |-> FastGaussianBlur(Plane(c), boxes)]
    <3>1. \A c \in Colours : Plane(c) = p0[c]
          BY DEF Planes
    <3>2. old = [d \in Colours |-> FastGaussianBlur(p0[d], boxes)]
      <4> HIDE DEF Plane, p0
      <4> QED
          BY <3>1
    <3>3. blurred = [img EXCEPT !.pixels = [i \in DOMAIN @ |-> [j \in DOMAIN @[i] |->
                      [c \in Colours |-> Truncated(old[c][i][j], weight)]]]]
          BY DEF Blur, boxes, weight
    <3> HIDE DEF old, blurred, p0
    <3> QED
        BY <3>2, <3>3
  <2>3. new = px
    <3> HIDE DEF p0, p3
    <3>1. \A c \in Colours, i \in 1..h, j \in 1..w :
            [d \in Colours |-> FastGaussianBlur(p0[d], boxes)][c][i][j] = p3[c][i][j]
          BY <1>3
    <3> QED
        BY <2>1, <3>1
  <2> HIDE DEF new, px, blurred
  <2> QED
      BY <2>2, <2>3, PixelsReplaced
<1>5. blurred \in ImagesOf(h, w)
  <2>1. ASSUME NEW i \in 1..h, NEW j \in 1..w PROVE pixel(i, j) \in Pixels
    <3> HIDE DEF p3
    <3>1. \A c \in Colours : p3[c][i][j] \in Int
          BY <1>3 DEF Grid
    <3>2. \A c \in Colours : Truncated(p3[c][i][j], weight) \in Byte
          BY <1>1, <3>1, TruncatedIsByte
    <3> QED
        BY <3>2 DEF Pixels
  <2> HIDE DEF pixel
  <2>2. px \in Grid(h, w, Pixels)
        BY <2>1 DEF Grid
  <2> HIDE DEF px, blurred
  <2> QED
      BY <1>4, <2>2 DEF ImagesOf
<1> DEFINE at == Seen(img).at
           s1 == SquareSums(at, w, h, boxes[1])
           s2 == SquareSums(s1, w, h, boxes[2])
           s3 == SquareSums(s2, w, h, boxes[3])
           f == [p \in (1..w) \X (1..h) |-> [c \in Colours |-> Truncated(s3[p][c], weight)]]
<1>6. Shows(s3, p3, h, w)
  <2>1. boxes[1] \in Nat /\ boxes[2] \in Nat /\ boxes[3] \in Nat
        BY <1>1
  <2>2. /\ \A c \in Colours : p0[c] \in Grid(h, w, Int)
        /\ Shows(at, p0, h, w)
        BY PlanesShown
  <2>3. ASSUME NEW rows \in Grid(h, w, Int), NEW n \in 1..3
        PROVE  Boxed(rows, h, w, boxes[n]) \in Grid(h, w, Int)
    <3> DEFINE r == boxes[n]
    <3>1. r \in Nat /\ Fits(r, h, w)
          BY <1>1, <1>2
    <3> HIDE DEF r
    <3>2. BoxedRows(rows, h, w, r) \in Grid(h, w, Int)
          BY <3>1, HorBlurIs DEF Fits
    <3>3. BoxedColumns(BoxedRows(rows, h, w, r), h, w, r) \in Grid(h, w, Int)
      <4>1. h = 0 \/ (w # 0 /\ 2 * r + 1 <= h)
            BY <3>1 DEF Fits
      <4> QED
          BY <3>1, <3>2, <4>1, TotalBlurIs
    <3> QED
        BY <3>3 DEF Boxed, r
  <2>4. \A c \in Colours : p1[c] = Boxed(p0[c], h, w, boxes[1])
        OBVIOUS
  <2>5. \A c \in Colours : p2[c] = Boxed(p1[c], h, w, boxes[2])
        OBVIOUS
  <2>6. \A c \in Colours : p3[c] = Boxed(p2[c], h, w, boxes[3])
        OBVIOUS
  <2> HIDE DEF p0, p1, p2, p3, at
  <2>7. Shows(s1, p1, h, w) /\ \A c \in Colours : p1[c] \in Grid(h, w, Int)
        BY <2>1, <2>2, <2>3, <2>4, SquaresShown
  <2> HIDE DEF s1
  <2>8. Shows(s2, p2, h, w) /\ \A c \in Colours : p2[c] \in Grid(h, w, Int)
        BY <2>1, <2>3, <2>5, <2>7, SquaresShown
  <2> HIDE DEF s2
  <2>9. Shows(s3, p3, h, w)
        BY <2>1, <2>6, <2>8, SquaresShown
  <2> QED
      BY <2>9
<1> HIDE DEF p3, s3
<1>7. ASSUME NEW x \in 1..w, NEW y \in 1..h
      PROVE  blurred.pixels[h + 1 - y][x] = f[<<x, y>>]
  <2>1. h + 1 - y \in 1..h /\ <<x, y>> \in (1..w) \X (1..h)
        OBVIOUS
  <2>2. \A c \in Colours : s3[<<x, y>>][c] = p3[c][h + 1 - y][x]
        BY <1>6 DEF Shows
  <2>3. f[<<x, y>>] = [c \in Colours |-> Truncated(s3[<<x, y>>][c], weight)]
        BY <2>1
  <2>4. blurred.pixels[h + 1 - y][x] = pixel(h + 1 - y, x)
    <3> HIDE DEF pixel, blurred
    <3> QED
        BY <1>4, <2>1
  <2> HIDE DEF f, blurred
  <2> QED
      BY <2>2, <2>3, <2>4
<1>8. Seen(blurred) = View(h, w, f)
  <2> HIDE DEF f, blurred
  <2> QED
      BY <1>5, <1>7, SeenIs
<1>9. Smoothed(Seen(img), boxes) = View(h, w, f)
  <2>1. img.width = w /\ img.height = h
        BY ImageIs
  <2>2. Seen(img) = [width |-> w, height |-> h, at |-> at] /\ DOMAIN at = (1..w) \X (1..h)
        BY <2>1 DEF Seen
  <2> DEFINE seen == Seen(img)
  <2>3. seen.width = w /\ seen.height = h /\ seen.at = at
        BY <2>2
  <2>4. Smoothed(seen, boxes)
          = [seen EXCEPT !.at = [p \in DOMAIN @ |-> [c \in Colours |->
              Truncated(s3[p][c], weight)]]]
    <3> HIDE DEF seen, at
    <3> QED
        BY <2>3 DEF Smoothed, s3, s2, s1, SquareSums, SquareSum, Around, weight
  <2> HIDE DEF at, seen
  <2>5. [seen EXCEPT !.at = [p \in DOMAIN @ |-> [c \in Colours |->
              Truncated(s3[p][c], weight)]]]
          = [width |-> w, height |-> h, at |-> f]
        BY <2>2, <2>3 DEF seen
  <2>6. [p \in (1..w) \X (1..h) |-> f[p]] = f
        OBVIOUS
  <2> HIDE DEF f
  <2> QED
      BY <2>4, <2>5, <2>6 DEF View, seen
<1> HIDE DEF f, blurred
<1> QED
    BY <1>5, <1>8, <1>9 DEF blurred, boxes

-----------------------------------------------------------------------------
(* One filter.                                                             *)

\* A filter that was created, does not throw and is defined on an image makes an
\* image of it, the one that is promised of the filter.
LEMMA FilterIs ==
  ASSUME NEW img \in Images, NEW T, NEW fs, fs.params \in Seq(T),
         Accepts(fs), ~ Throws(fs), ~ Undefined(fs, img)
  PROVE  /\ ApplyFilter(fs, img) \in Images
         /\ Seen(ApplyFilter(fs, img)) = Promised(fs, Seen(img))
<1>1. PICK h \in Nat, w \in Nat : img \in ImagesOf(h, w)
      BY DEF Images
<1>2. ASSUME NEW a \in Nat, NEW b \in Nat, NEW i \in ImagesOf(a, b)
      PROVE  i \in Images
      BY DEF Images
<1>3. Seen(img).width = w /\ Seen(img).height = h
      BY <1>1 DEF ImagesOf, Seen
<1>4. DOMAIN fs.params = 1..Len(fs.params)
      BY LenProperties
<1>5. CASE fs.name = "crop"
  <2>1. Len(fs.params) = 2 /\ ToSet(fs.params) \subseteq Digits \cap DOMAIN Value
        BY <1>5 DEF Accepts, Throws
  <2>2. fs.params[1] \in ToSet(fs.params) /\ fs.params[2] \in ToSet(fs.params)
        BY <1>4, <2>1 DEF ToSet
  <2>3. Value[fs.params[1]] \in Nat /\ Value[fs.params[2]] \in Nat
        BY <2>1, <2>2, NumbersAssumption
  <2> DEFINE width  == Min({w, Value[fs.params[1]]})
             height == Min({h, Value[fs.params[2]]})
  <2>4. /\ width \in Nat /\ height \in Nat
        /\ Crop(img, fs.params) \in ImagesOf(height, width)
        /\ Seen(Crop(img, fs.params)) = Corner(Seen(img), width, height)
        BY ZenonT(40), <1>1, <2>3, CropIs
  <2>5. ApplyFilter(fs, img) = Crop(img, fs.params)
        BY <1>5 DEF ApplyFilter
  <2>6. Promised(fs, Seen(img)) = Corner(Seen(img), width, height)
        BY <1>3, <1>5 DEF Promised, Corner
  <2> HIDE DEF width, height
  <2> QED
      BY <1>2, <2>4, <2>5, <2>6
<1>6. CASE fs.name = "gs"
  <2>1. ApplyFilter(fs, img) = MapPixels(img, Gray)
        BY <1>6 DEF ApplyFilter
  <2>2. Promised(fs, Seen(img)) = OnSeen(Seen(img), Gray)
        BY <1>6 DEF Promised
  <2> QED
      BY <1>1, <1>2, <2>1, <2>2, GrayIs
<1>7. CASE fs.name = "neg"
  <2>1. ApplyFilter(fs, img) = MapPixels(img, Negated)
        BY <1>7 DEF ApplyFilter
  <2>2. Promised(fs, Seen(img)) = OnSeen(Seen(img), Negated)
        BY <1>7 DEF Promised
  <2> QED
      BY <1>1, <1>2, <2>1, <2>2, NegatedIs
<1>8. CASE fs.name = "sharp"
  <2>1. ApplyFilter(fs, img) = ApplyMatrix(img, Cross(5))
        BY <1>8 DEF ApplyFilter
  <2>2. Promised(fs, Seen(img)) = Contrast(Seen(img), 5)
        BY <1>8 DEF Promised
  <2>3. 5 \in Int
        OBVIOUS
  <2> QED
      BY <1>1, <1>2, <2>1, <2>2, <2>3, ContrastIs
<1>9. CASE fs.name = "edge"
  <2> DEFINE params == fs.params
             marked == MarkedSeen(Contrast(OnSeen(Seen(img), Gray), 4),
                                  255 * Hundredths[params[1]])
  <2>1. ApplyFilter(fs, img) = EdgeDetection(img, params)
        BY <1>9 DEF ApplyFilter
  <2>2. Promised(fs, Seen(img)) = marked
        BY <1>9 DEF Promised, MarkedSeen, Mark
  <2> HIDE DEF params
  <2>3. /\ EdgeDetection(img, params) \in ImagesOf(h, w)
        /\ Seen(EdgeDetection(img, params)) = marked
        BY <1>1, EdgeIs
  <2> HIDE DEF marked
  <2> QED
      BY <1>2, <2>1, <2>2, <2>3
<1>10. CASE fs.name = "blur"
  <2>1. Len(fs.params) = 1 /\ fs.params[1] \in DOMAIN Hundredths /\ ~ Overruns(img, fs.params)
        BY <1>10 DEF Accepts, Undefined
  <2>2. Hundredths[fs.params[1]] \in Int
        BY <2>1, NumbersAssumption
  <2>3. ApplyFilter(fs, img) = Blur(img, fs.params)
        BY <1>10 DEF ApplyFilter
  <2>4. Promised(fs, Seen(img)) = Smoothed(Seen(img), Boxes(Hundredths[fs.params[1]]))
        BY <1>10 DEF Promised
  <2> QED
      BY <1>1, <1>2, <2>1, <2>2, <2>3, <2>4, BlurIs
<1>11. CASE fs.name = "crosspoly"
  <2> DEFINE params == fs.params
  <2>1. Len(params) = 30 /\ \A k \in DOMAIN params : Share(params[k])
        BY <1>11 DEF Accepts
  <2>2. \A k \in 1..30 : Hundredths[params[k]] \in Int
    <3>1. \A k \in 1..30 : Share(params[k])
          BY <1>4, <2>1
    <3>2. \A param : Share(param) => Hundredths[param] \in Int
          BY NumbersAssumption DEF Share
    <3> HIDE DEF params
    <3> QED
        BY <3>1, <3>2
  <2>3. ApplyFilter(fs, img) = Mixed(img, params)
        BY <1>11 DEF ApplyFilter, Mixed
  <2>4. Promised(fs, Seen(img)) = MixedSeen(Seen(img), params)
        BY <1>11 DEF Promised, MixedSeen
  <2> HIDE DEF params
  <2>5. /\ Mixed(img, params) \in ImagesOf(h, w)
        /\ Seen(Mixed(img, params)) = MixedSeen(Seen(img), params)
    <3>1. Valued(params)
          BY <2>2 DEF Valued
    <3> QED
        BY <1>1, <3>1, PolynomialIs
  <2> QED
      BY <1>2, <2>3, <2>4, <2>5
<1> QED
    BY <1>5, <1>6, <1>7, <1>8, <1>9, <1>10, <1>11 DEF Accepts

\* Two tables that go on in the same way.
InStep(g, h, n) ==
  g[0] = h[0] /\ \A i \in 1..n : g[i - 1] = h[i - 1] => g[i] = h[i]

\* Such tables end alike.
LEMMA SameEnd == ASSUME NEW n \in Nat, NEW g, NEW h, InStep(g, h, n) PROVE g[n] = h[n]
<1>1. \A i \in 0..n : g[i] = h[i]
      BY SameTable DEF InStep
<1> QED
    BY <1>1

\* What is promised of one filter more is promised of what is promised before it.
LEMMA PromisedMore ==
  ASSUME NEW T, NEW s \in Seq(T), NEW fs \in T, NEW seen
  PROVE  /\ PromisedOf(<<>>, seen) = seen
         /\ PromisedOf(Append(s, fs), seen) = Promised(fs, PromisedOf(s, seen))
<1> DEFINE Solves(t, g) == g = [n \in 0..Len(t) |->
                             IF n = 0 THEN seen ELSE Promised(t[n], g[n - 1])]
           table(t) == CHOOSE g : Solves(t, g)
<1>1. ASSUME NEW t \in Seq(T)
      PROVE  Solves(t, table(t))
  <2> DEFINE Upto(n, g) == g = [k \in 0..n |->
                             IF k = 0 THEN seen ELSE Promised(t[k], g[k - 1])]
             Good == {n \in Nat : \E g : Upto(n, g)}
  <2>1. 0 \in Good
    <3> DEFINE g == [k \in 0..0 |-> seen]
    <3>1. Upto(0, g)
          OBVIOUS
    <3> QED
        BY <3>1
  <2>2. ASSUME NEW n \in Nat, n \in Good PROVE n + 1 \in Good
    <3>1. PICK g : Upto(n, g)
          BY <2>2
    <3> DEFINE more == [k \in 0..(n + 1) |->
                         IF k = n + 1 THEN Promised(t[n + 1], g[n]) ELSE g[k]]
    <3>2. ASSUME NEW k \in 0..(n + 1)
          PROVE  more[k] = IF k = 0 THEN seen ELSE Promised(t[k], more[k - 1])
      <4>1. \A a \in 0..n : g[a] = IF a = 0 THEN seen ELSE Promised(t[a], g[a - 1])
            BY <3>1
      <4>2. CASE k = n + 1
        <5>1. k # 0 /\ k - 1 = n /\ n \in 0..(n + 1) /\ n # n + 1
              BY <4>2
        <5> QED
            BY <4>2, <5>1
      <4>3. CASE k # n + 1
        <5>1. k \in 0..n /\ (k # 0 => k - 1 \in 0..(n + 1) /\ k - 1 # n + 1)
              BY <4>3
        <5> QED
            BY <4>1, <4>3, <5>1
      <4> QED
          BY <4>2, <4>3
    <3>3. Upto(n + 1, more)
      <4>1. more = [k \in 0..(n + 1) |-> more[k]]
            OBVIOUS
      <4> HIDE DEF more
      <4> QED
          BY <3>2, <4>1
    <3> HIDE DEF Upto, more
    <3> QED
        BY <3>3
  <2> HIDE DEF Good
  <2>3. Nat \subseteq Good
        BY <2>1, <2>2, AllNumbers
  <2>4. Len(t) \in Good
        BY <2>3, LenProperties
  <2>5. \E g : Solves(t, g)
        BY <2>4 DEF Good
  <2> HIDE DEF Solves
  <2> QED
      BY <2>5
<1>2. ASSUME NEW t \in Seq(T)
      PROVE  /\ PromisedOf(t, seen) = table(t)[Len(t)]
             /\ \A n \in 0..Len(t) :
                  table(t)[n] = IF n = 0 THEN seen ELSE Promised(t[n], table(t)[n - 1])
  <2>1. PromisedOf(t, seen) = table(t)[Len(t)]
        BY DEF PromisedOf
  <2>2. Solves(t, table(t))
        BY <1>1
  <2> HIDE DEF table
  <2> QED
      BY <2>1, <2>2
<1> HIDE DEF table, Solves
<1>3. PromisedOf(<<>>, seen) = seen
  <2> DEFINE e == <<>>
  <2>1. e \in Seq(T) /\ Len(e) = 0
        BY EmptySeq
  <2> HIDE DEF e
  <2>2. /\ PromisedOf(e, seen) = table(e)[Len(e)]
        /\ \A n \in 0..Len(e) :
             table(e)[n] = IF n = 0 THEN seen ELSE Promised(e[n], table(e)[n - 1])
        BY <1>2, <2>1, Zenon
  <2>3. 0 \in 0..Len(e)
        BY <2>1
  <2>4. table(e)[0] = seen
        BY <2>2, <2>3
  <2> QED
      BY <2>1, <2>2, <2>4 DEF e
<1> DEFINE t == Append(s, fs)
           g == table(s)
           q == table(t)
<1>4. /\ t \in Seq(T) /\ Len(t) = Len(s) + 1 /\ Len(s) \in Nat
      /\ \A i \in 1..Len(s) : t[i] = s[i]
      /\ t[Len(s) + 1] = fs
      BY AppendProperties, LenProperties
<1> HIDE DEF t
<1>5. /\ PromisedOf(s, seen) = g[Len(s)]
      /\ \A n \in 0..Len(s) : g[n] = IF n = 0 THEN seen ELSE Promised(s[n], g[n - 1])
      BY <1>2
<1>6. /\ PromisedOf(t, seen) = q[Len(t)]
      /\ \A n \in 0..Len(t) : q[n] = IF n = 0 THEN seen ELSE Promised(t[n], q[n - 1])
      BY <1>2, <1>4
<1> HIDE DEF g, q
<1>7. g[0] = q[0] /\ \A n \in 1..Len(s) : g[n - 1] = q[n - 1] => g[n] = q[n]
  <2>1. 0 \in 0..Len(s) /\ 0 \in 0..Len(t)
        BY <1>4
  <2>2. \A n \in 1..Len(s) : n \in 0..Len(s) /\ n \in 0..Len(t) /\ n # 0
        BY <1>4
  <2> QED
      BY <1>4, <1>5, <1>6, <2>1, <2>2
<1>8. g[Len(s)] = q[Len(s)]
  <2>1. InStep(g, q, Len(s))
        BY <1>7 DEF InStep
  <2> QED
      BY <1>4, <2>1, SameEnd
<1>9. q[Len(t)] = Promised(fs, q[Len(s)])
  <2>1. Len(t) \in 0..Len(t) /\ Len(t) # 0 /\ Len(t) - 1 = Len(s)
        BY <1>4
  <2> QED
      BY <1>4, <1>6, <2>1
<1> QED
    BY <1>3, <1>5, <1>6, <1>8, <1>9 DEF t

\* Of no filter nothing is promised.
LEMMA PromisedOfNone == ASSUME NEW seen PROVE PromisedOf(<<>>, seen) = seen
<1> DEFINE T == {0}
<1>1. <<>> \in Seq(T) /\ 0 \in T
      BY EmptySeq
<1> HIDE DEF T
<1> QED
    BY <1>1, PromisedMore

-----------------------------------------------------------------------------
(* Bytes of files.                                                         *)

\* Where rows of length m begin.
LEMMA Multiples ==
  ASSUME NEW a \in Nat, NEW b \in Nat, NEW m \in Nat
  PROVE  /\ a * m \in Nat /\ b * m \in Nat /\ (a + 1) * m = a * m + m
         /\ a <= b => a * m <= b * m
<1>1. a * m \in Nat /\ b * m \in Nat /\ (a + 1) * m = a * m + m
      OBVIOUS
<1>2. ASSUME a <= b PROVE a * m <= b * m
  <2>1. PICK d \in Nat : b = a + d
    <3>1. b - a \in Nat /\ b = a + (b - a)
          BY <1>2
    <3> QED
        BY <3>1
  <2>2. b * m = a * m + d * m
        BY <2>1
  <2>3. d * m \in Nat
        OBVIOUS
  <2> QED
      BY <1>1, <2>2, <2>3
<1> QED
    BY <1>1, <1>2

\* flat has the elements of n rows of length m, one row after the other.
OneAfterTheOther(flat, rows, n, m) ==
  \A i \in 1..n, k \in 1..m :
    (i - 1) * m + k \in 1..(n * m) /\ flat[(i - 1) * m + k] = rows[i][k]

\* FlattenSeq on rows of one length puts each row where its number says.
LEMMA Flattened ==
  ASSUME NEW T, NEW n \in Nat, NEW m \in Nat, NEW s \in Grid(n, m, T)
  PROVE  /\ FlattenSeq(s) \in Seq(T) /\ Len(FlattenSeq(s)) = n * m
         /\ OneAfterTheOther(FlattenSeq(s), s, n, m)
<1> DEFINE flat == FlattenSeq(s)
<1>1. Len(s) = n
      BY ListIs DEF Grid
<1>2. ASSUME NEW i \in 1..n
      PROVE  s[i] \in Seq(T) /\ Len(s[i]) = m
  <2> DEFINE row == s[i]
  <2>1. row \in [1..m -> T]
        BY DEF Grid
  <2> HIDE DEF row
  <2>2. row \in Seq(T) /\ Len(row) = m
        BY <2>1, ListIs
  <2> QED
      BY <2>2 DEF row
<1>3. PICK g : /\ g[0] = <<>> /\ FlattenSeq(s) = g[Len(s)]
               /\ \A i \in 0..Len(s) : g[i] \in Seq(T)
               /\ \A i \in 1..Len(s) : g[i] = g[i - 1] \o s[i]
  <2>1. s \in [1..n -> Seq(T)]
        BY <1>2 DEF Grid
  <2>2. s \in Seq(Seq(T))
        BY <2>1, ListIs
  <2> QED
      BY <2>2, FlattenTable
<1>4. /\ g[0] = <<>> /\ flat = g[n]
      /\ \A i \in 1..n : g[i] = g[i - 1] \o s[i]
      BY <1>1, <1>3
<1> DEFINE Good == {i \in Nat : i <= n =>
                      /\ g[i] \in Seq(T) /\ Len(g[i]) = i * m
                      /\ \A a \in 1..i, k \in 1..m :
                           (a - 1) * m + k \in 1..(i * m) /\ g[i][(a - 1) * m + k] = s[a][k]}
<1>5. 0 \in Good
  <2>1. g[0] \in Seq(T) /\ Len(g[0]) = 0 /\ 0 * m = 0
        BY <1>4, EmptySeq
  <2> QED
      BY <2>1
<1>6. ASSUME NEW i \in Nat, i \in Good PROVE i + 1 \in Good
  <2>0. i + 1 \in Nat
        OBVIOUS
  <2>1. SUFFICES ASSUME i + 1 <= n
                 PROVE  /\ g[i + 1] \in Seq(T) /\ Len(g[i + 1]) = (i + 1) * m
                        /\ \A a \in 1..(i + 1), k \in 1..m :
                             /\ (a - 1) * m + k \in 1..((i + 1) * m)
                             /\ g[i + 1][(a - 1) * m + k] = s[a][k]
        BY Zenon, <2>0
  <2> DEFINE low == g[i]
             row == s[i + 1]
             new == low \o row
  <2>2. /\ low \in Seq(T) /\ Len(low) = i * m
        /\ \A a \in 1..i, k \in 1..m :
             (a - 1) * m + k \in 1..(i * m) /\ low[(a - 1) * m + k] = s[a][k]
        BY <1>6, <2>1
  <2>3. g[i + 1] = new /\ row \in Seq(T) /\ Len(row) = m
    <3>1. i + 1 \in 1..n /\ (i + 1) - 1 = i
          BY <2>1
    <3> QED
        BY <1>2, <1>4, <3>1
  <2> HIDE DEF low, row
  <2>4. /\ new \in Seq(T) /\ Len(new) = i * m + m
        /\ \A q \in 1..(i * m + m) : new[q] = IF q <= i * m THEN low[q] ELSE row[q - i * m]
    <3>1. /\ new \in Seq(T) /\ Len(new) = Len(low) + Len(row)
          /\ \A q \in 1..(Len(low) + Len(row)) :
               new[q] = IF q <= Len(low) THEN low[q] ELSE row[q - Len(low)]
          BY <2>2, <2>3, ConcatProperties
    <3>2. Len(low) = i * m /\ Len(row) = m
          BY <2>2, <2>3
    <3> HIDE DEF new
    <3> QED
        BY <3>1, <3>2
  <2>5. i * m \in Nat /\ (i + 1) * m = i * m + m
        BY Multiples
  <2> HIDE DEF new
  <2>6. ASSUME NEW a \in 1..(i + 1), NEW k \in 1..m
        PROVE  /\ (a - 1) * m + k \in 1..((i + 1) * m)
               /\ new[(a - 1) * m + k] = s[a][k]
    <3>1. CASE a = i + 1
      <4>1. (a - 1) * m + k = i * m + k
            BY <3>1
      <4> DEFINE p == i * m
      <4>2. p \in Nat /\ p + k \in 1..(p + m) /\ ~ (p + k <= p) /\ (p + k) - p = k
            BY <2>5
      <4> HIDE DEF p
      <4>3. new[p + k] = row[k]
            BY <2>4, <4>2 DEF p
      <4> QED
          BY <2>5, <3>1, <4>1, <4>2, <4>3 DEF p, row
    <3>2. CASE a # i + 1
      <4> DEFINE q == (a - 1) * m + k
                 p == i * m
      <4>1. a \in 1..i
            BY <3>2
      <4>2. q \in 1..p /\ low[q] = s[a][k]
            BY <2>2, <4>1
      <4>3. p \in Nat /\ (i + 1) * m = p + m
            BY <2>5
      <4> HIDE DEF q
      <4>4. /\ new \in Seq(T) /\ Len(new) = p + m
            /\ \A e \in 1..(p + m) : new[e] = IF e <= p THEN low[e] ELSE row[e - p]
            BY <2>4
      <4> HIDE DEF p
      <4>5. q \in 1..(p + m) /\ q <= p
            BY <4>2, <4>3
      <4>6. new[q] = s[a][k]
            BY <4>2, <4>4, <4>5
      <4> QED
          BY <4>3, <4>5, <4>6 DEF q
    <3> QED
        BY <3>1, <3>2
  <2> QED
      BY <2>3, <2>4, <2>5, <2>6
<1>7. /\ g[n] \in Seq(T) /\ Len(g[n]) = n * m
      /\ \A a \in 1..n, k \in 1..m :
           (a - 1) * m + k \in 1..(n * m) /\ g[n][(a - 1) * m + k] = s[a][k]
  <2> HIDE DEF Good
  <2>1. Nat \subseteq Good
        BY <1>5, <1>6, AllNumbers
  <2>2. n \in Good
        BY <2>1
  <2> QED
      BY <2>2 DEF Good
<1> HIDE DEF flat
<1> QED
    BY <1>4, <1>7 DEF flat, OneAfterTheOther

\* What is read is an image, also from a file that is too short.
LEMMA ReadIs ==
  ASSUME NEW file, file.data \in Seq(Byte), file.width \in Nat, file.height \in Nat
  PROVE  ReadRGBData(file) \in ImagesOf(file.height, file.width)
<1> DEFINE h == file.height
           w == file.width
           at(i, j, c) == ByteAt(file.data, (i - 1) * (3 * w + Padding(w)) + 3 * (j - 1) + c)
           px == [i \in 1..h |-> [j \in 1..w |-> [c \in Colours |-> at(i, j, c)]]]
<1>1. \A k : ByteAt(file.data, k) \in Byte
  <2>1. ASSUME NEW k PROVE ByteAt(file.data, k) \in Byte
    <3>1. CASE k \in DOMAIN file.data
      <4>1. file.data[k] \in Byte
            BY <3>1, ElementOfSeq, LenProperties
      <4> QED
          BY <3>1, <4>1 DEF ByteAt
    <3>2. CASE k \notin DOMAIN file.data
          BY <3>2 DEF ByteAt, Byte
    <3> QED
        BY <3>1, <3>2
  <2> QED
      BY <2>1
<1>2. \A i, j, c : at(i, j, c) \in Byte
      BY <1>1
<1>3. ReadRGBData(file) = [width |-> w, height |-> h, pixels |-> px]
      BY DEF ReadRGBData
<1> HIDE DEF at
<1>4. px \in Grid(h, w, Pixels)
      BY <1>2 DEF Grid, Pixels
<1> HIDE DEF px
<1> QED
    BY <1>3, <1>4 DEF ImagesOf

\* The rows that are written can be read back as they were, whatever their length
\* and its padding.
LEMMA ReadWritten ==
  ASSUME NEW h \in Nat, NEW w \in Nat, NEW img \in ImagesOf(h, w), NEW file,
         file.data = WriteRGBData(img), file.width = w, file.height = h
  PROVE  /\ WriteRGBData(img) \in Seq(Byte)
         /\ ReadRGBData(file) = img
<1> DEFINE px == img.pixels
           pad == Padding(w)
           zeros == [k \in 1..pad |-> 0]
           len == 3 * w + pad
           flat(i) == FlattenSeq(px[i])
           row(i) == flat(i) \o zeros
           rows == [i \in 1..h |-> row(i)]
           data == WriteRGBData(img)
<1>1. /\ img = [width |-> w, height |-> h, pixels |-> px]
      /\ img.width = w
      /\ px \in [1..h -> [1..w -> Pixels]] /\ DOMAIN px = 1..h
      BY ImageIs
<1>2. pad \in Nat
      BY DEF Padding
<1>3. data = FlattenSeq(rows)
      BY <1>1 DEF WriteRGBData
<1>4. zeros \in Seq(Byte) /\ Len(zeros) = pad
  <2>1. zeros \in [1..pad -> Byte]
        BY DEF Byte
  <2> HIDE DEF zeros, pad
  <2> QED
      BY <1>2, <2>1, ListIs
<1> HIDE DEF pad, px, zeros, data
<1>5. ASSUME NEW i \in 1..h
      PROVE  /\ row(i) \in [1..len -> Byte]
             /\ \A j \in 1..w, c \in Colours :
                  3 * (j - 1) + c \in 1..len /\ row(i)[3 * (j - 1) + c] = px[i][j][c]
  <2> DEFINE line == px[i]
  <2>1. line \in Grid(w, 3, Byte)
        BY <1>1 DEF Pixels, Colours, Grid
  <2> HIDE DEF line
  <2>2. 3 \in Nat
        OBVIOUS
  <2>3. /\ FlattenSeq(line) \in Seq(Byte) /\ Len(FlattenSeq(line)) = w * 3
        /\ OneAfterTheOther(FlattenSeq(line), line, w, 3)
        BY <2>1, <2>2, Flattened
  <2> DEFINE f == FlattenSeq(line)
             new == f \o zeros
  <2>4. f \in Seq(Byte) /\ Len(f) = 3 * w
        BY <2>3
  <2>5. ASSUME NEW j \in 1..w, NEW c \in 1..3
        PROVE  3 * (j - 1) + c \in 1..(3 * w) /\ f[3 * (j - 1) + c] = line[j][c]
    <3>1. 3 * (j - 1) + c = (j - 1) * 3 + c /\ 3 * w = w * 3
          OBVIOUS
    <3>2. (j - 1) * 3 + c \in 1..(w * 3) /\ f[(j - 1) * 3 + c] = line[j][c]
          BY <2>3 DEF OneAfterTheOther
    <3> HIDE DEF f
    <3> QED
        BY <3>1, <3>2
  <2> HIDE DEF f
  <2>6. /\ new \in Seq(Byte) /\ Len(new) = 3 * w + pad
        /\ \A k \in 1..(3 * w) : new[k] = f[k]
    <3>1. /\ new \in Seq(Byte) /\ Len(new) = Len(f) + Len(zeros)
          /\ \A k \in 1..(Len(f) + Len(zeros)) :
               new[k] = IF k <= Len(f) THEN f[k] ELSE zeros[k - Len(f)]
          BY <1>4, <2>4, ConcatProperties
    <3>2. Len(f) = 3 * w /\ Len(zeros) = pad
          BY <1>4, <2>4
    <3> HIDE DEF new
    <3> QED
        BY <1>2, <3>1, <3>2
  <2>7. new \in [1..len -> Byte]
    <3> HIDE DEF new
    <3> QED
        BY <2>6, LenProperties
  <2>8. ASSUME NEW j \in 1..w, NEW c \in Colours
        PROVE  3 * (j - 1) + c \in 1..len /\ new[3 * (j - 1) + c] = line[j][c]
    <3> DEFINE k == 3 * (j - 1) + c
    <3>1. k \in 1..(3 * w) /\ f[k] = line[j][c]
          BY <2>5 DEF Colours
    <3> HIDE DEF k, new
    <3>2. k \in 1..len
          BY <1>2, <3>1
    <3> QED
        BY <2>6, <3>1, <3>2 DEF k
  <2>9. row(i) = new
        BY DEF line, f
  <2> HIDE DEF new, row
  <2> QED
      BY <2>7, <2>8, <2>9 DEF line
<1> HIDE DEF row
<1>6. len \in Nat
      BY <1>2
<1>7. rows \in Grid(h, len, Byte) /\ \A i \in 1..h : rows[i] = row(i)
      BY <1>5 DEF Grid
<1> HIDE DEF rows
<1>8. /\ data \in Seq(Byte) /\ Len(data) = h * len
      /\ \A i \in 1..h, k \in 1..len :
           (i - 1) * len + k \in 1..(h * len) /\ data[(i - 1) * len + k] = rows[i][k]
  <2> HIDE DEF len
  <2>1. /\ data \in Seq(Byte) /\ Len(data) = h * len
        /\ OneAfterTheOther(data, rows, h, len)
        BY <1>3, <1>6, <1>7, Flattened
  <2> QED
      BY <2>1 DEF OneAfterTheOther
<1>9. DOMAIN data = 1..(h * len)
      BY <1>8, LenProperties
<1>10. ASSUME NEW i \in 1..h, NEW j \in 1..w, NEW c \in Colours
       PROVE  ByteAt(data, (i - 1) * len + 3 * (j - 1) + c) = px[i][j][c]
  <2> DEFINE k == 3 * (j - 1) + c
             p == (i - 1) * len
  <2>1. k \in 1..len /\ row(i)[k] = px[i][j][c]
        BY <1>5
  <2>2. p + k \in DOMAIN data /\ data[p + k] = rows[i][k]
    <3> HIDE DEF k, len
    <3> QED
        BY <1>8, <1>9, <2>1
  <2>3. (i - 1) * len + 3 * (j - 1) + c = p + k
    <3>1. p \in Int
          BY <1>6
    <3> HIDE DEF p
    <3> QED
        BY <3>1 DEF Colours, p
  <2> HIDE DEF p, k
  <2> QED
      BY <1>7, <2>1, <2>2, <2>3 DEF ByteAt
<1>11. ReadRGBData(file) = [width |-> w, height |-> h, pixels |->
         [i \in 1..h |-> [j \in 1..w |-> [c \in Colours |->
            ByteAt(data, (i - 1) * len + 3 * (j - 1) + c)]]]]
       BY DEF ReadRGBData, data, pad
<1>12. [i \in 1..h |-> [j \in 1..w |-> [c \in Colours |->
            ByteAt(data, (i - 1) * len + 3 * (j - 1) + c)]]] = px
  <2> HIDE DEF len
  <2>1. \A i \in 1..h, j \in 1..w :
          [c \in Colours |-> ByteAt(data, (i - 1) * len + 3 * (j - 1) + c)] = px[i][j]
    <3>1. \A i \in 1..h, j \in 1..w : px[i][j] = [c \in Colours |-> px[i][j][c]]
          BY <1>1 DEF Pixels
    <3> QED
        BY <1>10, <3>1
  <2> DEFINE pixel(i, j) == [c \in Colours |-> ByteAt(data, (i - 1) * len + 3 * (j - 1) + c)]
  <2>2. \A i \in 1..h, j \in 1..w : pixel(i, j) = px[i][j]
        BY <2>1
  <2> HIDE DEF pixel
  <2>3. [i \in 1..h |-> [j \in 1..w |-> pixel(i, j)]] = [i \in 1..h |-> [j \in 1..w |-> px[i][j]]]
        BY <2>2
  <2>4. px = [i \in 1..h |-> [j \in 1..w |-> px[i][j]]]
        BY <1>1
  <2> QED
      BY <2>3, <2>4 DEF pixel
<1> QED
    BY <1>1, <1>8, <1>11, <1>12 DEF data

\* A number has one remainder.
LEMMA RemainderUnique ==
  ASSUME NEW n \in Int, NEW m \in Nat \ {0}, NEW q \in Int, NEW r \in 0..(m - 1),
         n = m * q + r
  PROVE  n % m = r
OBVIOUS

\* The sizes that WriteBmp leaves fit a uint32_t and are as far apart as before.
LEMMA SizesKept ==
  ASSUME NEW a \in 0..(Word - 1), NEW b \in 0..(Word - 1), NEW n \in Nat
  PROVE  LET pixels == n % Word
             size == (a - b + pixels) % Word
         IN  /\ pixels \in 0..(Word - 1) /\ size \in 0..(Word - 1)
             /\ (size - pixels) % Word = (a - b) % Word
<1> DEFINE pixels == n % Word
           sum == a - b + pixels
           size == sum % Word
<1>1. Word \in Nat \ {0}
      BY WordAssumption
<1>2. pixels \in 0..(Word - 1)
      BY <1>1
<1> HIDE DEF pixels
<1>3. sum \in Int
      BY <1>2
<1>4. size \in 0..(Word - 1) /\ sum \div Word \in Int /\ sum = Word * (sum \div Word) + size
  <2> HIDE DEF sum
  <2>1. sum = Word * (sum \div Word) + (sum % Word)
        BY <1>1, <1>3, Z3
  <2>2. sum \div Word \in Int /\ sum % Word \in 0..(Word - 1)
        BY <1>1, <1>3
  <2> QED
      BY <2>1, <2>2
<1> DEFINE q == sum \div Word
<1>5. q \in Int /\ a - b = Word * q + (size - pixels)
  <2> HIDE DEF size, q
  <2>1. q \in Int /\ sum = Word * q + size
        BY <1>4 DEF q
  <2>2. Word * q \in Int
        BY <1>1, <2>1
  <2> QED
      BY <1>2, <1>4, <2>1, <2>2
<1> HIDE DEF size, q, sum
<1>6. ASSUME NEW x \in Int, NEW y \in Int, NEW k \in Int, x = Word * k + y
      PROVE  x % Word = y % Word
  <2> DEFINE d == y \div Word
             r == y % Word
  <2>1. d \in Int /\ r \in 0..(Word - 1) /\ y = Word * d + r
    <3>1. y = Word * d + r
          BY <1>1, Z3
    <3> QED
        BY <1>1, <3>1
  <2> HIDE DEF d, r
  <2>2. x = Word * (k + d) + r
        BY <1>1, <1>6, <2>1
  <2>3. k + d \in Int
        BY <2>1
  <2>4. x % Word = r
        BY <1>1, <2>1, <2>2, <2>3, RemainderUnique
  <2> QED
      BY <2>4 DEF r
<1>7. size - pixels \in Int /\ a - b \in Int
      BY <1>2, <1>4
<1>8. (a - b) % Word = (size - pixels) % Word
      BY <1>5, <1>6, <1>7
<1> QED
    BY <1>2, <1>4, <1>8 DEF size, sum, pixels

-----------------------------------------------------------------------------
(* The command line.                                                       *)

Texts == UNION {{args[i].text : i \in DOMAIN args} : args \in CommandLines}
Calls == [name : Texts, params : Seq(Texts)]

\* CommandLineParser makes filters with parameters of the arguments.
LEMMA ParseIs ==
  ASSUME NEW args \in CommandLines
  PROVE  Parse(args) \in Seq(Calls)
<1> DEFINE Added(fs, arg) ==
             IF arg.dash THEN Append(fs, [name |-> arg.text, params |-> <<>>])
             ELSE [fs EXCEPT ![Len(fs)].params = Append(@, arg.text)]
           len == Len(args)
           Solves(g) == g = [n \in 0..len |-> IF n = 0 THEN <<>> ELSE Added(g[n - 1], args[n])]
           parsed == CHOOSE g : Solves(g)
           F == [nx \in (1..len) \X Seq(Calls) |-> Added(nx[2], args[nx[1]])]
<1>1. len \in Nat /\ \A n \in 1..len : args[n].text \in Texts
  <2>1. args \in Seq([dash : BOOLEAN, text : {args[i].text : i \in DOMAIN args}])
        BY CommandLinesAssumption
  <2>2. DOMAIN args = 1..len /\ len \in Nat
        BY <2>1, LenProperties
  <2>3. \A n \in DOMAIN args : args[n].text \in Texts
        BY DEF Texts
  <2> QED
      BY <2>2, <2>3
<1>2. Parse(args) = parsed[len]
      BY DEF Parse
<1> HIDE DEF len
<1>3. ASSUME NEW fs \in Seq(Calls), NEW n \in 1..len
      PROVE  Added(fs, args[n]) \in Seq(Calls)
  <2>1. args[n].text \in Texts
        BY <1>1
  <2>2. CASE args[n].dash
    <3>1. [name |-> args[n].text, params |-> <<>>] \in Calls
          BY <2>1, EmptySeq DEF Calls
    <3> QED
        BY <2>2, <3>1, AppendProperties
  <2>3. CASE ~ args[n].dash
    <3> DEFINE new == [fs EXCEPT ![Len(fs)].params = Append(@, args[n].text)]
    <3>1. DOMAIN fs = 1..Len(fs) /\ Len(fs) \in Nat /\ \A i \in 1..Len(fs) : fs[i] \in Calls
          BY LenProperties, ElementOfSeq
    <3>2. CASE Len(fs) = 0
      <4>1. Len(fs) \notin DOMAIN fs
            BY <3>1, <3>2
      <4>2. new = fs
            BY <3>1, <4>1
      <4> QED
          BY <2>3, <4>2
    <3>3. CASE Len(fs) # 0
      <4> DEFINE last == fs[Len(fs)]
                 longer == [last EXCEPT !.params = Append(@, args[n].text)]
      <4>1. last \in Calls
            BY <3>1, <3>3
      <4>2. longer \in Calls
        <5>1. last.params \in Seq(Texts)
              BY <4>1 DEF Calls
        <5> DEFINE p == Append(last.params, args[n].text)
        <5>2. p \in Seq(Texts)
              BY <2>1, <5>1, AppendProperties
        <5> HIDE DEF p, last
        <5>3. [last EXCEPT !.params = p] \in Calls
              BY <4>1, <5>2 DEF Calls
        <5> QED
            BY <5>3 DEF p
      <4>3. new = [fs EXCEPT ![Len(fs)] = longer]
            OBVIOUS
      <4> HIDE DEF longer, last, new
      <4>4. new \in [1..Len(fs) -> Calls]
        <5>1. fs \in [1..Len(fs) -> Calls]
              BY <3>1
        <5> QED
            BY <4>2, <4>3, <5>1
      <4>5. new \in Seq(Calls)
        <5> DEFINE k == Len(fs)
        <5>1. k \in Nat /\ new \in [1..k -> Calls]
              BY <3>1, <4>4
        <5> HIDE DEF k
        <5> QED
            BY <5>1, ListIs
      <4> QED
          BY <2>3, <4>5 DEF new
    <3> QED
        BY <3>2, <3>3
  <2> QED
      BY <2>2, <2>3
<1>4. F \in [(1..len) \X Seq(Calls) -> Seq(Calls)]
  <2>1. ASSUME NEW nx \in (1..len) \X Seq(Calls) PROVE Added(nx[2], args[nx[1]]) \in Seq(Calls)
    <3>1. nx[1] \in 1..len /\ nx[2] \in Seq(Calls)
          OBVIOUS
    <3> HIDE DEF Added
    <3> QED
        BY <1>3, <3>1
  <2> HIDE DEF Added
  <2> QED
      BY <2>1
<1>5. PICK g : g \in [0..len -> Seq(Calls)] /\ FilledBy(g, F, len, <<>>)
  <2>1. <<>> \in Seq(Calls)
        BY EmptySeq
  <2> HIDE DEF F
  <2> QED
      BY <1>1, <1>4, <2>1, TableExists
<1> HIDE DEF Added
<1>6. g[0] = <<>> /\ \A n \in 1..len : g[n] = Added(g[n - 1], args[n])
  <2>1. ASSUME NEW n \in 1..len PROVE g[n] = Added(g[n - 1], args[n])
    <3>1. n - 1 \in 0..len
          BY <1>1
    <3>2. <<n, g[n - 1]>> \in (1..len) \X Seq(Calls)
          BY <1>5, <3>1
    <3> QED
        BY <1>5, <3>2 DEF FilledBy
  <2> QED
      BY <1>5, <2>1 DEF FilledBy
<1> HIDE DEF F
<1>7. Solves(g)
  <2>1. ASSUME NEW n \in 0..len
        PROVE  g[n] = IF n = 0 THEN <<>> ELSE Added(g[n - 1], args[n])
    <3>1. n # 0 => n \in 1..len
          BY <1>1
    <3> QED
        BY <1>6, <3>1
  <2> QED
      BY <1>5, <2>1
<1>8. Solves(parsed)
  <2> HIDE DEF Solves
  <2> QED
      BY <1>7
<1>9. parsed[0] = <<>> /\ \A n \in 1..len : parsed[n] = Added(parsed[n - 1], args[n])
  <2> HIDE DEF parsed
  <2>1. \A n \in 0..len : parsed[n] = IF n = 0 THEN <<>> ELSE Added(parsed[n - 1], args[n])
        BY <1>8
  <2>2. 0 \in 0..len /\ \A n \in 1..len : n \in 0..len /\ n # 0
        BY <1>1
  <2> QED
      BY <2>1, <2>2
<1> HIDE DEF parsed, Solves
<1>10. parsed[len] = g[len]
  <2>1. InStep(parsed, g, len)
        BY <1>6, <1>9 DEF InStep
  <2> QED
      BY <1>1, <2>1, SameEnd
<1>11. g[len] \in Seq(Calls)
       BY <1>1, <1>5
<1> QED
    BY <1>2, <1>10, <1>11

-----------------------------------------------------------------------------
(* The invariant.                                                          *)

File == [bits : Nat, width : Int, height : Int, size : 0..(Word - 1),
         imageSize : 0..(Word - 1), data : Seq(Byte)]
Header == [size : 0..(Word - 1), imageSize : 0..(Word - 1)]

\* The size fields of h are as far apart as in a file that was there at first, or
\* as in headers that nobody filled in
AsFarApart(h) ==
  \E picture \in Pictures \cup Leftovers :
    (h.size - h.imageSize) % Word = (picture.size - picture.imageSize) % Word

\* Every file has its headers or is too short for them
Sound(file) == file = Headless \/ (file \in File /\ AsFarApart(file))

\* The files that were written can be read, and give the image that was written
FilesInv ==
  /\ DOMAIN files \subseteq Names
  /\ \A name \in DOMAIN files : Sound(files[name])
  /\ DOMAIN shown \subseteq DOMAIN files
  /\ \A name \in DOMAIN shown :
       Readable(files[name]) /\ ReadRGBData(files[name]) = shown[name]

VariablesInv ==
  /\ pc \in {"idle", "read", "create", "apply", "write"}
  /\ exit \in {"none", "success", "error", "terminated"}
  /\ input \in Names /\ output \in Names
  /\ header \in Header /\ runs \in 0..MaxRuns /\ spoilt \in BOOLEAN
  /\ image \in Images /\ loaded \in Images
  /\ filters \in Seq(Calls) /\ todo \in Seq(Calls)

\* The filters of the command line are the done and those still to do, and the
\* image is what the done ones promise
Halfway ==
  \E done \in Seq(Calls) :
    /\ filters = done \o todo
    /\ ~ spoilt => Seen(image) = PromisedOf(done, Seen(loaded))

RunInv ==
  /\ pc # "idle" => exit = "none"
  /\ pc \in {"create", "apply", "write"} => AsFarApart(header)
  /\ pc \in {"read", "create"} => ~ spoilt
  /\ pc = "create" => image = loaded
  /\ pc = "apply" => \A i \in DOMAIN todo : Accepts(todo[i])
  /\ pc = "write" \/ exit = "success" => todo = <<>>
  /\ pc \in {"apply", "write"} \/ exit = "success" => Halfway

ImageInv == FilesInv /\ VariablesInv /\ RunInv

\* What the variables hold at first.
LEMMA NothingRead == NoHeader \in Header /\ NoImage \in Images
<1>1. NoHeader \in Header
      BY WordAssumption DEF NoHeader, Header
<1>2. NoImage.pixels \in Grid(0, 0, Pixels)
      BY DEF NoImage, Grid
<1>3. NoImage \in ImagesOf(0, 0)
      BY <1>2 DEF NoImage, ImagesOf
<1> QED
    BY <1>1, <1>3 DEF Images

\* Before the first run the files are those that were there.
LEMMA ImageInit == Init => ImageInv
<1> SUFFICES ASSUME Init PROVE ImageInv
    OBVIOUS
<1>1. FilesInv
  <2>1. PICK picture \in Pictures \cup {Headless} : files = [name \in Present |-> picture]
        BY DEF Init
  <2>2. Sound(picture)
        BY PicturesAssumption DEF Sound, File, AsFarApart
  <2>3. DOMAIN files \subseteq Names
        BY <2>1, NamesAssumption
  <2>4. \A name \in DOMAIN files : files[name] = picture
        BY <2>1
  <2>5. DOMAIN shown = {}
        BY DEF Init
  <2> QED
      BY <2>2, <2>3, <2>4, <2>5 DEF FilesInv
<1>2. VariablesInv
  <2>1. input \in Names /\ output \in Names
        BY NamesAssumption DEF Init
  <2>2. runs \in 0..MaxRuns
        BY MaxRunsAssumption DEF Init
  <2>3. filters \in Seq(Calls) /\ todo \in Seq(Calls)
        BY EmptySeq DEF Init
  <2> QED
      BY <2>1, <2>2, <2>3, NothingRead DEF Init, VariablesInv
<1>3. RunInv
      BY DEF Init, RunInv
<1> QED
    BY <1>1, <1>2, <1>3 DEF ImageInv

\* A run begins with the files as they are and with nothing done.
LEMMA StartKeeps ==
  ASSUME ImageInv, NEW in \in Names, NEW out \in Names, NEW args \in CommandLines,
         Start(in, out, args)
  PROVE  ImageInv'
<1>1. FilesInv'
      BY DEF ImageInv, FilesInv, Start
<1>2. VariablesInv'
  <2>1. Parse(args) \in Seq(Calls) /\ <<>> \in Seq(Calls)
        BY ParseIs, EmptySeq
  <2>2. filters' \in Seq(Calls) /\ todo' \in Seq(Calls)
        BY <2>1 DEF Start
  <2>3. runs' \in 0..MaxRuns
        BY MaxRunsAssumption DEF ImageInv, VariablesInv, Start
  <2>4. pc' \in {"idle", "read"} /\ exit' \in {"none", "error"}
        BY DEF Start, Return
  <2> QED
      BY <2>2, <2>3, <2>4, NothingRead DEF Start, VariablesInv
<1>3. RunInv'
  <2>1. \/ pc' = "idle" /\ exit' = "error"
        \/ pc' = "read" /\ exit' = "none"
        BY DEF Start, Return
  <2> QED
      BY <2>1 DEF Start, RunInv
<1> QED
    BY <1>1, <1>2, <1>3 DEF ImageInv

\* What is read is an image, and its sizes are as far apart as the file's.
LEMMA ReadKeeps == ImageInv /\ ReadBmp => ImageInv'
<1> SUFFICES ASSUME ImageInv, ReadBmp PROVE ImageInv'
    OBVIOUS
<1>1. FilesInv'
      BY DEF ImageInv, FilesInv, ReadBmp
<1>2. ASSUME NEW file \in Contents(files[input]), Opens(input), Readable(file),
             header' = [size |-> file.size, imageSize |-> file.imageSize],
             image' = ReadRGBData(file), loaded' = image',
             pc' = "create", UNCHANGED exit
      PROVE  ImageInv'
  <2>1. file \in File /\ AsFarApart(file)
    <3>1. CASE files[input] = Headless
      <4>1. file \in Leftovers
            BY <1>2, <3>1 DEF Contents
      <4>2. file \in File
            BY <4>1, LeftoversAssumption, EmptySeq DEF File
      <4> QED
          BY <4>1, <4>2 DEF AsFarApart
    <3>2. CASE files[input] # Headless
      <4>1. input \in DOMAIN files /\ file = files[input]
            BY <1>2, <3>2 DEF Contents, Opens
      <4> QED
          BY <3>2, <4>1 DEF ImageInv, FilesInv, Sound
    <3> QED
        BY <3>1, <3>2
  <2>2. header' = [size |-> file.size, imageSize |-> file.imageSize]
        /\ image' = ReadRGBData(file) /\ loaded' = image'
        BY <1>2
  <2>4. file.width \in Nat /\ file.height \in Nat
        BY <1>2, <2>1 DEF Readable, File
  <2>5. pc' = "create" /\ exit' = exit /\ exit = "none" /\ ~ spoilt /\ spoilt' = spoilt
        BY <1>2 DEF ReadBmp, ImageInv, RunInv
  <2>6. image' \in Images
    <3>1. ReadRGBData(file) \in ImagesOf(file.height, file.width)
          BY <2>1, <2>4, ReadIs DEF File
    <3> QED
        BY <2>2, <2>4, <3>1 DEF Images
  <2>7. header' \in Header /\ AsFarApart(header)'
        BY <2>1, <2>2 DEF File, Header, AsFarApart
  <2>8. VariablesInv'
        BY <2>2, <2>5, <2>6, <2>7 DEF ImageInv, VariablesInv, ReadBmp
  <2>9. RunInv'
        BY <2>2, <2>5, <2>7 DEF RunInv
  <2> QED
      BY <1>1, <2>8, <2>9 DEF ImageInv
<1>3. CASE Return("error") /\ UNCHANGED <<header, image, loaded>>
  <2>1. pc' = "idle" /\ exit' = "error" /\ UNCHANGED <<header, image, loaded>>
        BY <1>3 DEF Return
  <2>2. VariablesInv'
        BY <2>1 DEF ImageInv, VariablesInv, ReadBmp
  <2>3. RunInv'
        BY <2>1 DEF RunInv
  <2> QED
      BY <1>1, <2>2, <2>3 DEF ImageInv
<1> QED
    BY <1>2, <1>3 DEF ReadBmp

\* Every filter that is to be applied has been accepted, and none is done.
LEMMA CreateKeeps == ImageInv /\ CreateFilters => ImageInv'
<1> SUFFICES ASSUME ImageInv, CreateFilters PROVE ImageInv'
    OBVIOUS
<1>1. FilesInv'
      BY DEF ImageInv, FilesInv, CreateFilters
<1>2. CASE \A i \in DOMAIN filters : Accepts(filters[i])
  <2>1. pc' = "apply" /\ todo' = filters /\ exit' = exit
        BY <1>2 DEF CreateFilters
  <2>2. VariablesInv'
        BY <2>1 DEF ImageInv, VariablesInv, CreateFilters
  <2>3. AsFarApart(header)'
        BY DEF ImageInv, RunInv, CreateFilters, AsFarApart
  <2>4. \A i \in DOMAIN todo' : Accepts(todo'[i])
        BY <1>2, <2>1
  <2>5. Halfway'
    <3>1. image = loaded /\ ~ spoilt /\ filters \in Seq(Calls)
          BY DEF ImageInv, RunInv, VariablesInv, CreateFilters
    <3>2. filters' = <<>> \o todo' /\ <<>> \in Seq(Calls)
          BY <2>1, <3>1, EmptySeq, ConcatProperties DEF CreateFilters
    <3>3. PromisedOf(<<>>, Seen(loaded)) = Seen(loaded)
          BY PromisedOfNone
    <3> QED
        BY <3>1, <3>2, <3>3 DEF Halfway, CreateFilters
  <2>6. exit' = "none"
        BY <2>1 DEF ImageInv, RunInv, CreateFilters
  <2> QED
      BY <1>1, <2>1, <2>2, <2>3, <2>4, <2>5, <2>6 DEF ImageInv, RunInv
<1>3. CASE ~ \A i \in DOMAIN filters : Accepts(filters[i])
  <2>1. pc' = "idle" /\ exit' = "error" /\ UNCHANGED todo
        BY <1>3 DEF CreateFilters, Return
  <2>2. VariablesInv'
        BY <2>1 DEF ImageInv, VariablesInv, CreateFilters
  <2>3. RunInv'
        BY <2>1 DEF RunInv
  <2> QED
      BY <1>1, <2>2, <2>3 DEF ImageInv
<1> QED
    BY <1>2, <1>3

\* What holds of every filter to apply holds of the next and of those after it.
LEMMA AllAfterHead ==
  ASSUME NEW s \in Seq(Calls), s # <<>>, \A i \in DOMAIN s : Accepts(s[i])
  PROVE  /\ Head(s) \in Calls /\ Tail(s) \in Seq(Calls)
         /\ Accepts(Head(s)) /\ \A i \in DOMAIN Tail(s) : Accepts(Tail(s)[i])
<1>1. /\ Head(s) \in Calls /\ Tail(s) \in Seq(Calls) /\ Len(Tail(s)) = Len(s) - 1
      /\ \A i \in 1..Len(Tail(s)) : Tail(s)[i] = s[i + 1]
      BY HeadTailProperties
<1>2. DOMAIN s = 1..Len(s) /\ Len(s) \in Nat /\ Len(s) # 0
      BY EmptySeq, LenProperties
<1>3. DOMAIN Tail(s) = 1..Len(Tail(s))
      BY <1>1, LenProperties
<1>4. Head(s) = s[1]
      OBVIOUS
<1> QED
    BY <1>1, <1>2, <1>3, <1>4

\* A filter that is applied does what is promised of it to what is promised of
\* those before it.
LEMMA ApplyKeeps == ImageInv /\ Apply => ImageInv'
<1> SUFFICES ASSUME ImageInv, Apply PROVE ImageInv'
    OBVIOUS
<1>1. FilesInv'
      BY DEF ImageInv, FilesInv, Apply
<1>2. CASE Throws(Head(todo))
  <2>1. pc' = "idle" /\ exit' = "terminated" /\ UNCHANGED <<image, todo>>
        BY <1>2 DEF Apply, Return
  <2>2. VariablesInv'
        BY <2>1 DEF ImageInv, VariablesInv, Apply
  <2>3. RunInv'
        BY <2>1 DEF RunInv
  <2> QED
      BY <1>1, <2>2, <2>3 DEF ImageInv
<1>3. CASE ~ Throws(Head(todo))
  <2> DEFINE fs == Head(todo)
             rest == Tail(todo)
  <2>1. /\ pc = "apply" /\ todo # <<>> /\ ~ Undefined(fs, image)
        /\ image' = ApplyFilter(fs, image) /\ todo' = rest
        /\ UNCHANGED <<pc, exit, filters, header, loaded, spoilt>>
        BY <1>3 DEF Apply
  <2>2. todo \in Seq(Calls) /\ image \in Images /\ todo # <<>>
        BY <2>1 DEF ImageInv, VariablesInv
  <2>3. fs \in Calls /\ rest \in Seq(Calls) /\ Accepts(fs)
        /\ \A i \in DOMAIN rest : Accepts(rest[i])
    <3>1. \A i \in DOMAIN todo : Accepts(todo[i])
          BY <2>1 DEF ImageInv, RunInv
    <3> QED
        BY <2>2, <3>1, AllAfterHead
  <2> HIDE DEF fs, rest
  <2>4. /\ ApplyFilter(fs, image) \in Images
        /\ Seen(ApplyFilter(fs, image)) = Promised(fs, Seen(image))
    <3>1. fs.params \in Seq(Texts)
          BY <2>3 DEF Calls
    <3>2. ~ Throws(fs)
          BY <1>3 DEF fs
    <3> QED
        BY <2>1, <2>2, <2>3, <3>1, <3>2, FilterIs
  <2>5. VariablesInv'
        BY <2>1, <2>3, <2>4 DEF ImageInv, VariablesInv, Apply
  <2>6. Halfway'
    <3>1. PICK done \in Seq(Calls) :
                 /\ filters = done \o todo
                 /\ ~ spoilt => Seen(image) = PromisedOf(done, Seen(loaded))
          BY <2>1 DEF ImageInv, RunInv, Halfway
    <3> DEFINE more == Append(done, fs)
    <3>2. more \in Seq(Calls)
          BY <2>3, AppendProperties
    <3>3. filters' = more \o todo'
          BY <2>1, <2>2, <3>1, MoveHead DEF fs, rest
    <3>4. PromisedOf(more, Seen(loaded)) = Promised(fs, PromisedOf(done, Seen(loaded)))
          BY <2>3, PromisedMore
    <3>5. ~ spoilt' => Seen(image') = PromisedOf(more, Seen(loaded'))
          BY <2>1, <2>4, <3>1, <3>4
    <3> HIDE DEF more
    <3>6. Seen(image)' = Seen(image') /\ Seen(loaded)' = Seen(loaded')
          BY DEF Seen
    <3> QED
        BY <3>2, <3>3, <3>5 DEF Halfway
  <2>7. AsFarApart(header)'
        BY <2>1 DEF ImageInv, RunInv, AsFarApart
  <2>8. exit = "none" /\ \A i \in DOMAIN todo' : Accepts(todo'[i])
        BY <2>1, <2>3 DEF ImageInv, RunInv
  <2>9. RunInv'
        BY <2>1, <2>6, <2>7, <2>8 DEF RunInv
  <2> QED
      BY <1>1, <2>5, <2>9 DEF ImageInv
<1> QED
    BY <1>2, <1>3

\* A filter that is not defined leaves an image, of which nothing is said.
LEMMA SpoilKeeps == ImageInv /\ ApplySpoils => ImageInv'
<1> SUFFICES ASSUME ImageInv, ApplySpoils PROVE ImageInv'
    OBVIOUS
<1>1. FilesInv'
      BY DEF ImageInv, FilesInv, ApplySpoils
<1>2. CASE Return("terminated") /\ UNCHANGED <<image, todo>>
  <2>1. pc' = "idle" /\ exit' = "terminated" /\ spoilt' = TRUE
        BY <1>2 DEF ApplySpoils, Return
  <2>2. VariablesInv'
        BY <1>2, <2>1 DEF ImageInv, VariablesInv, ApplySpoils
  <2>3. RunInv'
        BY <2>1 DEF RunInv
  <2> QED
      BY <1>1, <2>2, <2>3 DEF ImageInv
<1>3. ASSUME NEW pixel \in {Black, White},
             image' = MapPixels(image, LAMBDA p : pixel),
             todo' = Tail(todo), UNCHANGED <<pc, exit>>
      PROVE  ImageInv'
  <2> DEFINE fs == Head(todo)
             rest == Tail(todo)
  <2>1. /\ pc = "apply" /\ todo # <<>> /\ spoilt' = TRUE
        /\ UNCHANGED <<filters, header, loaded>>
        BY DEF ApplySpoils
  <2>2. todo \in Seq(Calls) /\ image \in Images
        BY DEF ImageInv, VariablesInv
  <2>3. fs \in Calls /\ rest \in Seq(Calls)
        /\ \A i \in DOMAIN rest : Accepts(rest[i])
    <3>1. \A i \in DOMAIN todo : Accepts(todo[i])
          BY <2>1 DEF ImageInv, RunInv
    <3> QED
        BY <2>1, <2>2, <3>1, AllAfterHead
  <2>4. image' \in Images
    <3>1. PICK h \in Nat, w \in Nat : image \in ImagesOf(h, w)
          BY <2>2 DEF Images
    <3>2. MapPixels(image, LAMBDA p : pixel) \in ImagesOf(h, w)
          BY <3>1, SpoiltIs
    <3> QED
        BY <1>3, <3>2 DEF Images
  <2>5. VariablesInv'
        BY <1>3, <2>1, <2>3, <2>4 DEF ImageInv, VariablesInv, ApplySpoils
  <2>6. Halfway'
    <3>1. PICK done \in Seq(Calls) : filters = done \o todo
          BY <2>1 DEF ImageInv, RunInv, Halfway
    <3> DEFINE more == Append(done, fs)
    <3>2. more \in Seq(Calls)
          BY <2>3, AppendProperties
    <3>3. filters' = more \o todo'
          BY <1>3, <2>1, <2>2, <3>1, MoveHead
    <3> HIDE DEF more
    <3> QED
        BY <2>1, <3>2, <3>3 DEF Halfway
  <2>7. AsFarApart(header)'
        BY <2>1 DEF ImageInv, RunInv, AsFarApart
  <2>8. exit = "none" /\ \A i \in DOMAIN todo' : Accepts(todo'[i])
        BY <1>3, <2>1, <2>3 DEF ImageInv, RunInv
  <2>9. RunInv'
        BY <1>3, <2>1, <2>6, <2>7, <2>8 DEF RunInv
  <2> QED
      BY <1>1, <2>5, <2>9 DEF ImageInv
<1> QED
    BY <1>2, <1>3 DEF ApplySpoils

\* What is known of the other files is not lost when one is replaced.
LEMMA PutKeeps ==
  ASSUME ImageInv, NEW file, Sound(file), files' = Put(files, output, file),
         shown' = Without(output)
  PROVE  FilesInv'
<1>1. FilesInv /\ output \in Names
      BY DEF ImageInv, VariablesInv
<1>2. /\ DOMAIN files' = {output} \cup DOMAIN files
      /\ DOMAIN shown' = DOMAIN shown \ {output}
      BY DEF Put, Without
<1>3. ASSUME NEW name \in DOMAIN files' PROVE Sound(files'[name])
      BY <1>1, <1>2 DEF FilesInv, Put
<1>4. ASSUME NEW name \in DOMAIN shown'
      PROVE  Readable(files'[name]) /\ ReadRGBData(files'[name]) = shown'[name]
      BY <1>1, <1>2 DEF FilesInv, Put, Without
<1>5. DOMAIN files' \subseteq Names /\ DOMAIN shown' \subseteq DOMAIN files'
      BY <1>1, <1>2 DEF FilesInv
<1> QED
    BY <1>3, <1>4, <1>5 DEF FilesInv, Sound, AsFarApart, Readable, ReadRGBData

\* An output that has been emptied is not one that can be read.
LEMMA OutputKeeps == ImageInv /\ CreateOutput => ImageInv'
<1> SUFFICES ASSUME ImageInv, CreateOutput PROVE ImageInv'
    OBVIOUS
<1>1. /\ pc = "apply" /\ pc' = "write" /\ todo = <<>>
      /\ UNCHANGED <<input, output, filters, header, image, todo, exit, runs, loaded,
                     spoilt>>
      BY DEF CreateOutput
<1>2. FilesInv'
  <2>1. CASE UNCHANGED <<files, shown>>
        BY <2>1 DEF ImageInv, FilesInv
  <2>2. CASE files' = Put(files, output, Headless) /\ shown' = Without(output)
        BY <2>2, PutKeeps DEF Sound
  <2> QED
      BY <2>1, <2>2 DEF CreateOutput
<1>3. VariablesInv'
      BY <1>1 DEF ImageInv, VariablesInv
<1>4. RunInv'
  <2>1. exit = "none" /\ AsFarApart(header) /\ Halfway
        BY <1>1 DEF ImageInv, RunInv
  <2>2. AsFarApart(header)'
        BY <1>1, <2>1 DEF AsFarApart
  <2>3. Halfway'
        BY <1>1, <2>1 DEF Halfway, Seen
  <2> QED
      BY <1>1, <2>1, <2>2, <2>3 DEF RunInv
<1> QED
    BY <1>2, <1>3, <1>4 DEF ImageInv

\* What is written can be read and gives the image again, and its sizes are as
\* far apart as those that were read.
LEMMA WrittenIs ==
  ASSUME ImageInv, pc = "write"
  PROVE  LET head == HeaderOf(header, image)
         IN  /\ head \in Header /\ Written(head) \in File /\ AsFarApart(Written(head))
             /\ Readable(Written(head)) /\ ReadRGBData(Written(head)) = image
<1> DEFINE head == HeaderOf(header, image)
           file == Written(head)
<1>1. PICK h \in Nat, w \in Nat : image \in ImagesOf(h, w)
      BY DEF ImageInv, VariablesInv, Images
<1>2. image.height = h /\ image.width = w
      BY <1>1 DEF ImagesOf
<1>3. head \in Header /\ AsFarApart(head)
  <2>1. header.size \in 0..(Word - 1) /\ header.imageSize \in 0..(Word - 1)
        BY DEF ImageInv, VariablesInv, Header
  <2>2. w * h \in Nat
        BY <1>1
  <2> DEFINE a == header.size
             b == header.imageSize
             n == w * h
             pixels == n % Word
             size == (a - b + pixels) % Word
  <2>3. head = [size |-> size, imageSize |-> pixels]
        BY <1>2 DEF HeaderOf
  <2> HIDE DEF n, head, a, b
  <2>4. /\ pixels \in 0..(Word - 1) /\ size \in 0..(Word - 1)
        /\ (size - pixels) % Word = (a - b) % Word
        BY <2>1, <2>2, SizesKept DEF n, a, b
  <2> HIDE DEF pixels, size
  <2>5. AsFarApart(header)
        BY DEF ImageInv, RunInv
  <2>6. head.size = size /\ head.imageSize = pixels
        BY <2>3
  <2>7. head \in Header
        BY <2>3, <2>4 DEF Header
  <2> QED
      BY <2>4, <2>5, <2>6, <2>7 DEF AsFarApart, a, b
<1> HIDE DEF head
<1>4. /\ file.data = WriteRGBData(image) /\ file.width = w /\ file.height = h
      /\ file.bits = BitsPerPixel /\ file.size = head.size
      /\ file.imageSize = head.imageSize
      BY <1>2 DEF Written
<1>5. WriteRGBData(image) \in Seq(Byte) /\ ReadRGBData(file) = image
  <2> HIDE DEF file
  <2> QED
      BY <1>1, <1>4, ReadWritten
<1>6. file \in File
      BY <1>1, <1>2, <1>3, <1>5 DEF Written, File, Header, BitsPerPixel
<1> HIDE DEF file
<1>7. AsFarApart(file) /\ Readable(file)
      BY <1>1, <1>3, <1>4 DEF AsFarApart, Readable
<1> QED
    BY <1>3, <1>5, <1>6, <1>7 DEF file, head

\* Everything but the files, after an output was written.
LEMMA Succeeded ==
  ASSUME ImageInv, pc = "write", Return("success"), header' \in Header,
         UNCHANGED <<input, output, filters, image, todo, runs, loaded, spoilt>>
  PROVE  VariablesInv' /\ RunInv'
<1>1. /\ pc' = "idle" /\ exit' = "success" /\ todo' = <<>>
      BY DEF Return, ImageInv, RunInv
<1>2. VariablesInv'
      BY <1>1 DEF ImageInv, VariablesInv
<1>3. Halfway'
      BY DEF ImageInv, RunInv, Halfway, Seen
<1> QED
    BY <1>1, <1>2, <1>3 DEF RunInv

\* The file that was written is shown.
LEMMA WriteKeeps == ImageInv /\ WriteBmp => ImageInv'
<1> SUFFICES ASSUME ImageInv, WriteBmp PROVE ImageInv'
    OBVIOUS
<1>1. CASE ~ Opens(output)
  <2>1. pc' = "idle" /\ exit' = "error" /\ UNCHANGED <<files, header, shown>>
        BY <1>1 DEF WriteBmp, Return
  <2>2. FilesInv'
        BY <2>1 DEF ImageInv, FilesInv
  <2>3. VariablesInv'
        BY <2>1 DEF ImageInv, VariablesInv, WriteBmp
  <2>4. RunInv'
        BY <2>1 DEF RunInv
  <2> QED
      BY <2>2, <2>3, <2>4 DEF ImageInv
<1>2. CASE Opens(output)
  <2> DEFINE head == HeaderOf(header, image)
             file == Written(head)
  <2>1. /\ pc = "write" /\ Return("success") /\ header' = head
        /\ UNCHANGED <<input, output, filters, image, todo, runs, loaded, spoilt>>
        BY <1>2 DEF WriteBmp
  <2>2. files' = Put(files, output, file) /\ shown' = Put(shown, output, image)
    <3>1. files' = Put(files, output, Written(header')) /\ header' = head
          /\ shown' = Put(shown, output, image)
          BY <1>2 DEF WriteBmp
    <3> QED
        BY <3>1
  <2>3. /\ head \in Header /\ file \in File /\ AsFarApart(file)
        /\ Readable(file) /\ ReadRGBData(file) = image
        BY <2>1, WrittenIs
  <2> HIDE DEF head, file
  <2>4. FilesInv'
    <3>1. FilesInv /\ output \in Names
          BY DEF ImageInv, VariablesInv
    <3>2. DOMAIN files' = {output} \cup DOMAIN files
          /\ DOMAIN shown' = {output} \cup DOMAIN shown
          BY <2>2 DEF Put
    <3>3. ASSUME NEW name \in DOMAIN files' PROVE Sound(files'[name])
          BY <2>2, <2>3, <3>1, <3>2 DEF FilesInv, Put, Sound
    <3>4. ASSUME NEW name \in DOMAIN shown'
          PROVE  Readable(files'[name]) /\ ReadRGBData(files'[name]) = shown'[name]
          BY <2>2, <2>3, <3>1, <3>2 DEF FilesInv, Put
    <3>5. DOMAIN files' \subseteq Names /\ DOMAIN shown' \subseteq DOMAIN files'
          BY <3>1, <3>2 DEF FilesInv
    <3> QED
        BY <3>3, <3>4, <3>5 DEF FilesInv, Sound, AsFarApart, Readable, ReadRGBData
  <2>5. VariablesInv' /\ RunInv'
        BY <2>1, <2>3, Succeeded
  <2> QED
      BY <2>4, <2>5 DEF ImageInv
<1> QED
    BY <1>1, <1>2

\* A file whose end is missing still has its headers or is too short for them.
LEMMA CutKeeps == ImageInv /\ WriteBmpCut => ImageInv'
<1> SUFFICES ASSUME ImageInv, WriteBmpCut PROVE ImageInv'
    OBVIOUS
<1> DEFINE head == HeaderOf(header, image)
           file == Written(head)
           data == WriteRGBData(image)
<1>1. /\ pc = "write" /\ Return("success") /\ header' = head /\ shown' = Without(output)
      /\ UNCHANGED <<input, output, filters, image, todo, runs, loaded, spoilt>>
      BY DEF WriteBmpCut
<1>2. head \in Header /\ file \in File /\ AsFarApart(file)
      BY <1>1, WrittenIs
<1>3. VariablesInv' /\ RunInv'
      BY <1>1, <1>2, Succeeded
<1>4. CASE files' = Put(files, output, Headless)
  <2>1. FilesInv'
        BY <1>1, <1>4, PutKeeps DEF Sound
  <2> QED
      BY <1>3, <2>1 DEF ImageInv
<1>5. ASSUME NEW n \in CutAt, n < Len(data),
             files' = Put(files, output, [Written(header') EXCEPT !.data = SubSeq(@, 1, n)])
      PROVE  ImageInv'
  <2> DEFINE cut == [file EXCEPT !.data = SubSeq(@, 1, n)]
  <2>1. files' = Put(files, output, cut)
        BY <1>1, <1>5
  <2>2. file.data = data /\ data \in Seq(Byte)
        BY <1>2 DEF Written, File
  <2>3. SubSeq(data, 1, n) \in Seq(Byte)
    <3>1. n \in Nat /\ Len(data) \in Nat
          BY <2>2, CutAtAssumption, LenProperties
    <3>2. \A i \in 1..n : data[i] \in Byte
          BY <1>5, <2>2, <3>1, ElementOfSeq
    <3> HIDE DEF data
    <3> QED
        BY <1>5, <2>2, <3>1, <3>2, SubSeqProperties
  <2> HIDE DEF file, data
  <2>4. cut \in File
        BY <1>2, <2>2, <2>3 DEF File
  <2>5. cut.size = file.size /\ cut.imageSize = file.imageSize
        BY <1>2 DEF File
  <2>6. AsFarApart(cut)
        BY <1>2, <2>5 DEF AsFarApart
  <2> HIDE DEF cut
  <2>7. FilesInv'
        BY <1>1, <2>1, <2>4, <2>6, PutKeeps DEF Sound
  <2> QED
      BY <1>3, <2>7 DEF ImageInv
<1> HIDE DEF head, file, data
<1> QED
    BY <1>4, <1>5 DEF WriteBmpCut, data

\* Nothing the program does disturbs the invariant.
LEMMA ImageNext == ImageInv /\ [Next]_vars => ImageInv'
<1> SUFFICES ASSUME ImageInv, [Next]_vars PROVE ImageInv'
    OBVIOUS
<1>1. CASE UNCHANGED vars
  <2>1. FilesInv'
        BY <1>1 DEF vars, ImageInv, FilesInv
  <2>2. VariablesInv'
        BY <1>1 DEF vars, ImageInv, VariablesInv
  <2>3. RunInv'
        BY <1>1 DEF vars, ImageInv, RunInv, Halfway, AsFarApart, Seen
  <2> QED
      BY <2>1, <2>2, <2>3 DEF ImageInv
<1>2. CASE Next
      BY <1>2, StartKeeps, ReadKeeps, CreateKeeps, ApplyKeeps, SpoilKeeps,
         OutputKeeps, WriteKeeps, CutKeeps DEF Next
<1> QED
    BY <1>1, <1>2

\* At every moment the files that were written give the images that were written,
\* and the image is what the filters done so far promise.
THEOREM ImageInvariant == Spec => []ImageInv
<1> QED
    BY ImageInit, ImageNext, PTL DEF Spec

\* An image is never other than its sizes say.
LEMMA ImagesAre == ASSUME NEW img \in Images PROVE IsImage(img)
<1>1. PICK h \in Nat, w \in Nat : img \in ImagesOf(h, w)
      BY DEF Images
<1>2. /\ img.height = h /\ img.width = w /\ img.pixels \in [1..h -> [1..w -> Pixels]]
      BY <1>1 DEF ImagesOf, Grid
<1>3. Len(img.pixels) = h /\ DOMAIN img.pixels = 1..h
      BY <1>2, ListIs
<1>4. ASSUME NEW i \in 1..h
      PROVE  Len(img.pixels[i]) = w /\ DOMAIN img.pixels[i] = 1..w
  <2>1. img.pixels[i] \in [1..w -> Pixels]
        BY <1>2
  <2> QED
      BY <2>1, ListIs
<1>5. \A i \in 1..h : \A j \in 1..w : img.pixels[i][j] \in [Colours -> Byte]
      BY <1>2 DEF Pixels
<1> QED
    BY <1>2, <1>3, <1>4, <1>5 DEF IsImage

\* Image keeps its sizes apart from its rows, and they agree with them through
\* every filter; every colour is a byte.
THEOREM ImageTypeCorrect == Spec => []TypeOK
<1>1. ImageInv => TypeOK
  <2> SUFFICES ASSUME ImageInv PROVE TypeOK
      OBVIOUS
  <2>1. ASSUME NEW name \in DOMAIN files PROVE ToSet(files[name].data) \subseteq Byte
    <3>1. files[name] = Headless => files[name].data \in Seq(Byte)
          BY EmptySeq DEF Headless
    <3>2. files[name] # Headless => files[name].data \in Seq(Byte)
          BY DEF ImageInv, FilesInv, Sound, File
    <3>3. files[name].data \in Seq(Byte)
          BY <3>1, <3>2
    <3> QED
        BY <3>3, LenProperties, ElementOfSeq DEF ToSet
  <2>2. IsImage(image) /\ IsImage(loaded)
        BY ImagesAre DEF ImageInv, VariablesInv
  <2> QED
      BY <2>1, <2>2 DEF TypeOK, ImageInv, FilesInv, VariablesInv, Header
<1> QED
    BY <1>1, ImageInvariant, PTL

\* What WriteRGBData wrote ReadRGBData reads, for images of every size, and no
\* number of runs moves the two size fields apart.
THEOREM WrittenIsRead == Spec => []ReadsBack
<1>1. ImageInv => ReadsBack
  <2> SUFFICES ASSUME ImageInv, NEW name \in DOMAIN shown
               PROVE  /\ Readable(files[name]) /\ ReadRGBData(files[name]) = shown[name]
                      /\ AsFarApart(files[name])
      BY DEF ReadsBack, AsFarApart
  <2>1. Readable(files[name]) /\ ReadRGBData(files[name]) = shown[name]
        /\ Sound(files[name])
        BY DEF ImageInv, FilesInv
  <2>2. files[name] # Headless
        BY <2>1 DEF Readable, BitsPerPixel, Headless
  <2> QED
      BY <2>1, <2>2 DEF Sound
<1> QED
    BY <1>1, ImageInvariant, PTL

\* A run that succeeds has applied the filters of its command line, each of them
\* as it is meant and in their order, to the image that it read.
THEOREM FiltersDoAsAsked == Spec => []FilteredAsAsked
<1>1. ImageInv => FilteredAsAsked
  <2> SUFFICES ASSUME ImageInv, exit = "success", ~ spoilt
               PROVE  Seen(image) = PromisedOf(filters, Seen(loaded))
      BY DEF FilteredAsAsked
  <2>1. PICK done \in Seq(Calls) :
               /\ filters = done \o todo
               /\ Seen(image) = PromisedOf(done, Seen(loaded))
        BY DEF ImageInv, RunInv, Halfway
  <2>2. todo = <<>>
        BY DEF ImageInv, RunInv
  <2>3. filters = done
        BY <2>1, <2>2, ConcatProperties, EmptySeq
  <2> QED
      BY <2>1, <2>3
<1> QED
    BY <1>1, ImageInvariant, PTL

-----------------------------------------------------------------------------
(* Failures.                                                               *)

\* Before the first run nothing has been written.
LEMMA NothingWrittenInit == Init => NothingWritten /\ FailureLosesOutputOnly
BY DEF Init, NothingWritten, FailureLosesOutputOnly

\* Only CreateOutput changes the files of a run that may still fail, and it may
\* fail only if the output cannot be opened for reading.
LEMMA NothingWrittenNext ==
  NothingWritten /\ FailureLosesOutputOnly /\ [Next]_vars
    => NothingWritten' /\ FailureLosesOutputOnly'
<1> SUFFICES ASSUME NothingWritten, FailureLosesOutputOnly, [Next]_vars
             PROVE  NothingWritten' /\ FailureLosesOutputOnly'
    OBVIOUS
<1> USE DEF NothingWritten, FailureLosesOutputOnly
<1>1. ASSUME NEW in \in Names, NEW out \in Names, NEW args \in CommandLines,
             Start(in, out, args)
      PROVE  NothingWritten' /\ FailureLosesOutputOnly'
  <2>1. files' = before' /\ pc' \in {"idle", "read"} /\ (pc' # "idle" => exit' = "none")
        BY <1>1 DEF Start, Return
  <2> QED
      BY <2>1
<1>2. CASE ReadBmp
  <2>1. /\ pc = "read" /\ files' = before'
        /\ pc' = "idle" \/ (pc' = "create" /\ Opens(input) /\ UNCHANGED <<input, exit>>)
        BY <1>2 DEF ReadBmp, Return
  <2> QED
      BY <2>1 DEF Opens
<1>3. CASE CreateFilters
  <2>1. /\ pc = "create" /\ files' = before' /\ input' = input
        /\ pc' = "idle" \/ (pc' = "apply" /\ exit' = exit)
        BY <1>3 DEF CreateFilters, Return
  <2> QED
      BY <2>1
<1>4. CASE Apply
  <2>1. /\ pc = "apply" /\ files' = before' /\ input' = input
        /\ pc' = "idle" \/ (pc' = "apply" /\ exit' = exit)
        BY <1>4 DEF Apply, Return
  <2> QED
      BY <2>1
<1>5. CASE ApplySpoils
  <2>1. /\ pc = "apply" /\ files' = before' /\ input' = input
        /\ pc' = "idle" \/ (pc' = "apply" /\ exit' = exit)
        BY <1>5 DEF ApplySpoils, Return
  <2> QED
      BY <2>1
<1>6. CASE CreateOutput
  <2>1. /\ pc = "apply" /\ pc' = "write" /\ files = before
        /\ UNCHANGED <<before, input, output, todo, exit>> /\ todo = <<>>
        BY <1>6 DEF CreateOutput
  <2>2. files' = IF output \in Unwritable THEN before ELSE Put(before, output, Headless)
        BY <1>6, <2>1 DEF CreateOutput
  <2> QED
      BY <2>1, <2>2
<1>7. CASE WriteBmp
  <2>1. CASE Opens(output)
    <3>1. pc' = "idle" /\ exit' = "success"
          BY <1>7, <2>1 DEF WriteBmp, Return
    <3> QED
        BY <3>1
  <2>2. CASE ~ Opens(output)
    <3>1. /\ pc = "write" /\ pc' = "idle" /\ exit' = "error"
          /\ UNCHANGED <<files, before, input, output, todo>>
          BY <1>7, <2>2 DEF WriteBmp, Return
    <3>2. CASE output \in Unwritable
          BY <3>1, <3>2
    <3>3. CASE output \notin Unwritable
      <4>1. files = Put(before, output, Headless)
            BY <3>1, <3>3
      <4>2. output \in DOMAIN files
            BY <4>1 DEF Put
      <4>3. output \in Unreadable /\ output # input /\ todo = <<>>
            BY <2>2, <3>1, <3>3, <4>2 DEF Opens
      <4> QED
          BY <3>1, <3>3, <4>1, <4>3
    <3> QED
        BY <3>2, <3>3
  <2> QED
      BY <2>1, <2>2
<1>8. CASE WriteBmpCut
  <2>1. pc' = "idle" /\ exit' = "success"
        BY <1>8 DEF WriteBmpCut, Return
  <2> QED
      BY <2>1
<1>9. CASE UNCHANGED vars
      BY <1>9 DEF vars
<1> QED
    BY <1>1, <1>2, <1>3, <1>4, <1>5, <1>6, <1>7, <1>8, <1>9 DEF Next

\* What fails, in the command line, in reading, in a filter or in opening the
\* output, costs no file, but that an output which can be written and not read is
\* left empty.
THEOREM FailureIsSafe == Spec => []FailureLosesOutputOnly
<1> QED
    BY NothingWrittenInit, NothingWrittenNext, PTL DEF Spec

=============================================================================
