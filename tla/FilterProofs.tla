----------------------------- MODULE FilterProofs -----------------------------
(***************************************************************************)
(* What Filter returns, keeps and drops, for any list, and the lemmas about*)
(* lists, induction over numbers and functions defined by recursion that   *)
(* the proofs about the other modules cite.                                *)
(***************************************************************************)
EXTENDS Filters, SequencesExt, SequenceTheorems, WellFoundedInduction, TLAPS

-----------------------------------------------------------------------------
(* Induction over numbers, as a fact about sets of them.                   *)

\* A set that has 0, and n + 1 with every n, has all natural numbers.
LEMMA AllNumbers ==
  ASSUME NEW S, 0 \in S, \A n \in Nat : n \in S => n + 1 \in S
  PROVE  Nat \subseteq S
<1> DEFINE Less == {ss \in Nat \X Nat : ss[1] < ss[2]}
           Rest == Nat \ S
<1>1. IsWellFoundedOn(Less, Nat)
      BY NatLessThanWellFounded DEF OpToRel
<1>2. SUFFICES ASSUME Rest # {} PROVE FALSE
      OBVIOUS
<1> HIDE DEF Less
<1>3. PICK x \in Rest : \A y \in Rest : ~(<<y, x>> \in Less)
      BY <1>1, <1>2, WFMin
<1>4. x # 0 /\ x - 1 \in Nat /\ (x - 1) + 1 = x
      BY <1>3
<1>5. x - 1 \in Rest
      BY <1>3, <1>4
<1>6. <<x - 1, x>> \in Less
      BY <1>3, <1>4 DEF Less
<1> QED
    BY <1>3, <1>5, <1>6

\* Division with remainder.
LEMMA Division ==
  ASSUME NEW n \in Nat, NEW m \in Nat \ {0}
  PROVE  /\ n \div m \in Nat /\ n % m \in 0..(m - 1)
         /\ n = m * (n \div m) + (n % m)
<1>1. n = m * (n \div m) + (n % m)
      BY Z3
<1>2. n \div m \in Nat
      OBVIOUS
<1>3. n % m \in 0..(m - 1)
      OBVIOUS
<1> QED
    BY <1>1, <1>2, <1>3

\* g is filled by F from its first entry on
FilledBy(g, F, N, first) ==
  g[0] = first /\ \A i \in 1..N : g[i] = F[<<i, g[i - 1]>>]

\* A table that is filled from its first entry on exists.
LEMMA TableExists ==
  ASSUME NEW N \in Nat, NEW S, NEW first \in S, NEW F \in [(1..N) \X S -> S]
  PROVE  \E g \in [0..N -> S] : FilledBy(g, F, N, first)
<1> DEFINE Fills(g, n) == /\ g \in [0..N -> S] /\ g[0] = first
                          /\ \A i \in 1..N : i <= n => g[i] = F[<<i, g[i - 1]>>]
           Filled == {n \in Nat : n <= N => \E g : Fills(g, n)}
<1>1. 0 \in Filled
  <2> DEFINE g == [i \in 0..N |-> first]
  <2>1. Fills(g, 0)
        OBVIOUS
  <2> QED
      BY <2>1
<1>2. ASSUME NEW n \in Nat, n \in Filled
      PROVE  n + 1 \in Filled
  <2>1. SUFFICES ASSUME n + 1 <= N PROVE \E g : Fills(g, n + 1)
        OBVIOUS
  <2>2. PICK g : Fills(g, n)
        BY <1>2, <2>1
  <2>3. n \in 0..N /\ n + 1 \in 1..N
        BY <2>1
  <2>4. g[n] \in S /\ F[<<n + 1, g[n]>>] \in S
        BY <2>2, <2>3
  <2> DEFINE h == [g EXCEPT ![n + 1] = F[<<n + 1, g[n]>>]]
  <2>5. h \in [0..N -> S] /\ h[0] = first
        BY <2>2, <2>3, <2>4
  <2>6. ASSUME NEW i \in 1..N, i <= n + 1
        PROVE  h[i] = F[<<i, h[i - 1]>>]
    <3>1. i - 1 \in 0..N /\ i - 1 # n + 1 /\ h[i - 1] = g[i - 1]
          BY <2>2, <2>6
    <3>2. CASE i = n + 1
          BY <2>2, <2>3, <3>1, <3>2
    <3>3. CASE i <= n
      <4>1. g[i] = F[<<i, g[i - 1]>>]
            BY <2>2, <3>3
      <4>2. h[i] = g[i]
            BY <2>2, <3>3
      <4> QED
          BY <3>1, <4>1, <4>2
    <3> QED
        BY <2>6, <3>2, <3>3
  <2> HIDE DEF h
  <2> QED
      BY <2>5, <2>6
<1> HIDE DEF Filled
<1>3. N \in Filled
      BY <1>1, <1>2, AllNumbers
<1> QED
    BY <1>3 DEF Filled, FilledBy

\* Two tables filled in the same way are the same as far as both go.
LEMMA SameTable ==
  ASSUME NEW N \in Nat, NEW g, NEW h, g[0] = h[0],
         \A i \in 1..N : g[i - 1] = h[i - 1] => g[i] = h[i]
  PROVE  \A n \in 0..N : g[n] = h[n]
<1> DEFINE Same == {n \in Nat : n <= N => g[n] = h[n]}
<1>1. 0 \in Same
      OBVIOUS
<1>2. ASSUME NEW n \in Nat, n \in Same PROVE n + 1 \in Same
  <2>1. SUFFICES ASSUME n + 1 <= N PROVE g[n + 1] = h[n + 1]
        OBVIOUS
  <2>2. n + 1 \in 1..N /\ (n + 1) - 1 = n /\ g[n] = h[n]
        BY <1>2, <2>1
  <2> QED
      BY <2>2
<1> HIDE DEF Same
<1>3. Nat \subseteq Same
      BY <1>1, <1>2, AllNumbers
<1> QED
    BY <1>3 DEF Same

\* The same for lists: what has the empty list, and every longer one with it.
LEMMA AllLists ==
  ASSUME NEW T, NEW S, <<>> \in S,
         \A s \in Seq(T), x \in T : s \in S => Append(s, x) \in S
  PROVE  Seq(T) \subseteq S
<1> DEFINE Lengths == {n \in Nat : \A s \in Seq(T) : Len(s) = n => s \in S}
<1>1. 0 \in Lengths
  <2>1. ASSUME NEW s \in Seq(T), Len(s) = 0
        PROVE  s = <<>>
        BY <2>1, EmptySeq
  <2> QED
      BY <2>1
<1>2. ASSUME NEW n \in Nat, n \in Lengths
      PROVE  n + 1 \in Lengths
  <2>1. SUFFICES ASSUME NEW s \in Seq(T), Len(s) = n + 1 PROVE s \in S
        OBVIOUS
  <2>2. s # <<>>
        BY <2>1, EmptySeq
  <2>3. PICK r \in Seq(T), x \in T : s = Append(r, x)
        BY <2>2, SequenceEmptyOrAppend
  <2>4. Len(r) = n
    <3>1. Len(s) = Len(r) + 1 /\ Len(r) \in Nat
          BY <2>3, AppendProperties, LenProperties
    <3> QED
        BY <2>1, <3>1
  <2> QED
      BY <1>2, <2>3, <2>4
<1> HIDE DEF Lengths
<1>3. Nat \subseteq Lengths
      BY <1>1, <1>2, AllNumbers
<1>4. ASSUME NEW s \in Seq(T)
      PROVE  s \in S
  <2>1. Len(s) \in Lengths
        BY <1>3, LenProperties
  <2> QED
      BY <2>1 DEF Lengths
<1> QED
    BY <1>4

\* An element added to a list is added to its range.
LEMMA AppendRange ==
  ASSUME NEW T, NEW s \in Seq(T), NEW x \in T
  PROVE  Range(Append(s, x)) = Range(s) \cup {x}
<1> DEFINE t == Append(s, x)
<1>1. /\ t \in Seq(T) /\ Len(t) = Len(s) + 1 /\ Len(s) \in Nat
      /\ \A i \in 1..Len(s) : t[i] = s[i]
      /\ t[Len(s) + 1] = x
      BY AppendProperties, LenProperties
<1>2. DOMAIN t = 1..(Len(s) + 1) /\ DOMAIN s = 1..Len(s)
      BY <1>1, LenProperties
<1> HIDE DEF t
<1>3. Range(t) = Range(s) \cup {x}
      BY <1>1, <1>2 DEF Range
<1> QED
    BY <1>3 DEF t

-----------------------------------------------------------------------------
(* Lists that are made by appending.                                       *)

\* A function on 1..n is a list of length n.
LEMMA ListIs ==
  ASSUME NEW T, NEW n \in Nat, NEW s \in [1..n -> T]
  PROVE  s \in Seq(T) /\ Len(s) = n
<1>1. s \in Seq(T)
      BY SeqDef
<1>2. DOMAIN s = 1..Len(s) /\ Len(s) \in Nat
      BY <1>1, LenProperties
<1> QED
    BY <1>1, <1>2

\* g is the table of the first elements of e, with one more each time.
Growing(g, n, e) ==
  g = [i \in 0..n |-> IF i = 0 THEN <<>> ELSE Append(g[i - 1], e[i])]

\* There is one, and it ends with e.
LEMMA AppendTable ==
  ASSUME NEW T, NEW n \in Nat, NEW e \in [1..n -> T]
  PROVE  /\ \E g : Growing(g, n, e)
         /\ \A g : Growing(g, n, e) => g[n] = e
<1> DEFINE low == [i \in 0..n |-> [k \in 1..i |-> e[k]]]
<1>1. low[0] = <<>>
      OBVIOUS
<1>2. ASSUME NEW i \in 1..n PROVE low[i] = Append(low[i - 1], e[i])
  <2> DEFINE s == low[i - 1]
             t == Append(s, e[i])
  <2>1. s \in Seq(T) /\ Len(s) = i - 1 /\ e[i] \in T
    <3>1. s \in [1..(i - 1) -> T] /\ i - 1 \in Nat
          OBVIOUS
    <3> HIDE DEF s
    <3> QED
        BY <3>1, ListIs
  <2>2. \A k \in 1..(i - 1) : s[k] = e[k]
        OBVIOUS
  <2> HIDE DEF s
  <2>3. /\ t \in Seq(T) /\ Len(t) = i /\ t[i] = e[i]
        /\ \A k \in 1..(i - 1) : t[k] = e[k]
        BY <2>1, <2>2, AppendProperties
  <2> HIDE DEF t
  <2>4. t \in [1..i -> T]
        BY <2>3, LenProperties
  <2>5. \A k \in 1..i : t[k] = e[k]
        BY <2>3
  <2>6. t = [k \in 1..i |-> e[k]]
        BY <2>4, <2>5
  <2>7. low[i] = [k \in 1..i |-> e[k]]
        OBVIOUS
  <2> HIDE DEF low
  <2> QED
      BY <2>6, <2>7 DEF t, s
<1>3. Growing(low, n, e)
  <2>1. ASSUME NEW i \in 0..n
        PROVE  low[i] = IF i = 0 THEN <<>> ELSE Append(low[i - 1], e[i])
    <3>1. i # 0 => i \in 1..n
          OBVIOUS
    <3> HIDE DEF low
    <3> QED
        BY <1>1, <1>2, <3>1
  <2>2. low = [i \in 0..n |-> low[i]]
        OBVIOUS
  <2> HIDE DEF low
  <2> QED
      BY <2>1, <2>2 DEF Growing
<1>4. low[n] = e
      OBVIOUS
<1> HIDE DEF low
<1>5. ASSUME NEW g, Growing(g, n, e) PROVE g[n] = e
  <2>1. \A i \in 0..n : g[i] = IF i = 0 THEN <<>> ELSE Append(g[i - 1], e[i])
        BY <1>5 DEF Growing
  <2>2. 0 \in 0..n /\ \A i \in 1..n : i \in 0..n /\ i # 0
        OBVIOUS
  <2> DEFINE Same == {i \in Nat : i <= n => g[i] = low[i]}
  <2>3. 0 \in Same
        BY <1>1, <2>1, <2>2
  <2>4. ASSUME NEW i \in Nat, i \in Same PROVE i + 1 \in Same
    <3>1. SUFFICES ASSUME i + 1 <= n PROVE g[i + 1] = low[i + 1]
          OBVIOUS
    <3>2. i + 1 \in 1..n /\ i + 1 \in 0..n /\ i + 1 # 0 /\ (i + 1) - 1 = i /\ g[i] = low[i]
          BY <2>4, <3>1
    <3> QED
        BY <1>2, <2>1, <3>2
  <2> HIDE DEF Same
  <2>5. n \in Same
    <3>1. Nat \subseteq Same
          BY <2>3, <2>4, AllNumbers
    <3> QED
        BY <3>1
  <2> QED
      BY <1>4, <2>5 DEF Same
<1> QED
    BY <1>3, <1>5

-----------------------------------------------------------------------------
(* Least and greatest elements.                                            *)

\* A set of natural numbers that is not empty has a least element.
LEMMA LeastExists ==
  ASSUME NEW T, T \subseteq Nat, T # {}
  PROVE  Min(T) \in T /\ \A y \in T : Min(T) <= y
<1> DEFINE Less == {ss \in Nat \X Nat : ss[1] < ss[2]}
<1>1. IsWellFoundedOn(Less, Nat)
      BY NatLessThanWellFounded DEF OpToRel
<1> HIDE DEF Less
<1>2. PICK x \in T : \A y \in T : ~(<<y, x>> \in Less)
      BY <1>1, WFMin
<1>3. ASSUME NEW y \in T
      PROVE  x <= y
  <2>1. x \in Nat /\ y \in Nat
        OBVIOUS
  <2>2. y < x => <<y, x>> \in Less
        BY <2>1 DEF Less
  <2> QED
      BY <1>2, <2>1, <2>2
<1> QED
    BY <1>3 DEF Min

\* A set of natural numbers below a bound that is not empty has a greatest one.
LEMMA GreatestExists ==
  ASSUME NEW n \in Nat, NEW T, T \subseteq 0..(n - 1), T # {}
  PROVE  Max(T) \in T /\ \A y \in T : Max(T) >= y
<1> DEFINE Gaps == {n - y : y \in T}
<1>1. Gaps \subseteq Nat /\ Gaps # {}
  <2>1. ASSUME NEW y \in T
        PROVE  n - y \in Nat
    <3>1. y \in 0..(n - 1)
          OBVIOUS
    <3> QED
        BY <3>1
  <2>2. PICK y \in T : TRUE
        OBVIOUS
  <2>3. n - y \in Gaps
        OBVIOUS
  <2> QED
      BY <2>1, <2>3
<1>2. Min(Gaps) \in Gaps /\ \A g \in Gaps : Min(Gaps) <= g
      BY <1>1, LeastExists
<1>3. PICK x \in T : Min(Gaps) = n - x
      BY <1>2
<1>4. ASSUME NEW y \in T
      PROVE  x >= y
  <2>1. n - x <= n - y
        BY <1>2, <1>3
  <2>2. x \in Int /\ y \in Int
        OBVIOUS
  <2> QED
      BY <2>1, <2>2
<1> QED
    BY <1>4 DEF Max

-----------------------------------------------------------------------------
(* The function Filter is defined by.                                      *)

\* Its value at n, from its values below n
Step(s, kept, g, n) ==
  IF n = 0 THEN <<>>
  ELSE IF s[n] \in kept THEN Append(g[n - 1], s[n])
  ELSE g[n - 1]

\* There is such a function, and Filter is its value at the length of the list.
LEMMA FilterTable ==
  ASSUME NEW T, NEW s \in Seq(T), NEW kept
  PROVE  \E g : /\ Filter(s, kept) = g[Len(s)]
                /\ \A n \in 0..Len(s) : g[n] = Step(s, kept, g, n)
<1> DEFINE N == Len(s)
           Solves(g, n) == g = [i \in 0..n |-> Step(s, kept, g, i)]
           Solved == {n \in Nat : \E g : Solves(g, n)}
           Left == CHOOSE g : Solves(g, N)
<1>1. 0 \in Solved
  <2> DEFINE g == [i \in 0..0 |-> <<>>]
  <2>1. Solves(g, 0)
        BY DEF Step
  <2> QED
      BY <2>1
<1>2. ASSUME NEW n \in Nat, n \in Solved
      PROVE  n + 1 \in Solved
  <2>1. PICK g : Solves(g, n)
        BY <1>2
  <2> DEFINE h == [i \in 0..(n + 1) |-> IF i = n + 1 THEN Step(s, kept, g, n + 1)
                                                     ELSE g[i]]
  <2>2. ASSUME NEW i \in 0..(n + 1)
        PROVE  h[i] = Step(s, kept, h, i)
    <3>1. i # 0 => h[i - 1] = g[i - 1]
          OBVIOUS
    <3>2. Step(s, kept, h, i) = Step(s, kept, g, i)
          BY <3>1 DEF Step
    <3>3. CASE i = n + 1
          BY <3>2, <3>3
    <3>4. CASE i \in 0..n
      <4>1. g[i] = Step(s, kept, g, i)
            BY <2>1, <3>4
      <4>2. h[i] = g[i]
            BY <3>4
      <4> QED
          BY <3>2, <4>1, <4>2
    <3> QED
        BY <3>3, <3>4
  <2>3. Solves(h, n + 1)
        BY <2>2
  <2> HIDE DEF h, Solves
  <2> QED
      BY <2>3
<1>3. N \in Solved
  <2> HIDE DEF Solved
  <2>1. N \in Nat
        OBVIOUS
  <2> QED
      BY <1>1, <1>2, <2>1, AllNumbers
<1>4. Solves(Left, N)
      BY <1>3
<1>5. Filter(s, kept) = Left[N]
      BY DEF Filter, Step
<1>6. \A n \in 0..N : Left[n] = Step(s, kept, Left, n)
  <2> HIDE DEF Left
  <2> QED
      BY <1>4
<1> HIDE DEF Left
<1> QED
    BY <1>5, <1>6

\* Nothing is left of nothing.
LEMMA FilterEmpty == ASSUME NEW kept PROVE Filter(<<>>, kept) = <<>>
<1> DEFINE s == <<>>
<1>1. s \in Seq({}) /\ Len(s) = 0
      BY EmptySeq
<1> HIDE DEF s
<1>2. PICK g : /\ Filter(s, kept) = g[Len(s)]
               /\ \A n \in 0..Len(s) : g[n] = Step(s, kept, g, n)
      BY <1>1, FilterTable
<1>3. g[0] = <<>>
      BY <1>1, <1>2 DEF Step
<1>4. Filter(s, kept) = <<>>
      BY <1>1, <1>2, <1>3
<1> QED
    BY <1>4 DEF s

\* What is left of a list of elements of T is one.
LEMMA FilterSeq ==
  ASSUME NEW T, NEW s \in Seq(T), NEW kept
  PROVE  Filter(s, kept) \in Seq(T)
<1>1. PICK g : /\ Filter(s, kept) = g[Len(s)]
               /\ \A n \in 0..Len(s) : g[n] = Step(s, kept, g, n)
      BY FilterTable
<1> DEFINE Fine == {n \in Nat : n <= Len(s) => g[n] \in Seq(T)}
<1>2. Len(s) \in Nat
      OBVIOUS
<1>3. 0 \in Fine
  <2>1. g[0] = <<>>
        BY <1>1, <1>2 DEF Step
  <2> QED
      BY <2>1, EmptySeq
<1>4. ASSUME NEW n \in Nat, n \in Fine
      PROVE  n + 1 \in Fine
  <2>1. SUFFICES ASSUME n + 1 <= Len(s) PROVE g[n + 1] \in Seq(T)
        OBVIOUS
  <2>2. g[n] \in Seq(T) /\ s[n + 1] \in T
        BY <1>2, <1>4, <2>1
  <2>3. g[n + 1] = Step(s, kept, g, n + 1)
    <3>1. n + 1 \in 0..Len(s)
          BY <1>2, <2>1
    <3> QED
        BY <1>1, <3>1
  <2>4. g[n + 1] = Append(g[n], s[n + 1]) \/ g[n + 1] = g[n]
        BY <2>3 DEF Step
  <2>5. Append(g[n], s[n + 1]) \in Seq(T)
        BY <2>2, AppendProperties
  <2> QED
      BY <2>2, <2>4, <2>5
<1> HIDE DEF Fine
<1>5. Len(s) \in Fine
      BY <1>2, <1>3, <1>4, AllNumbers
<1> QED
    BY <1>1, <1>2, <1>5 DEF Fine

\* The last element of a list comes last, or is dropped.
LEMMA FilterAppend ==
  ASSUME NEW T, NEW s \in Seq(T), NEW x \in T, NEW kept
  PROVE  Filter(Append(s, x), kept) =
           IF x \in kept THEN Append(Filter(s, kept), x) ELSE Filter(s, kept)
<1> DEFINE t == Append(s, x)
           N == Len(s)
<1>1. /\ t \in Seq(T) /\ Len(t) = N + 1 /\ N \in Nat
      /\ \A i \in 1..N : t[i] = s[i]
      /\ t[N + 1] = x
      BY AppendProperties
<1> HIDE DEF t, N
<1>2. PICK g : /\ Filter(s, kept) = g[N]
               /\ \A n \in 0..N : g[n] = Step(s, kept, g, n)
      BY FilterTable DEF N
<1>3. PICK h : /\ Filter(t, kept) = h[N + 1]
               /\ \A n \in 0..(N + 1) : h[n] = Step(t, kept, h, n)
  <2>1. PICK f : /\ Filter(t, kept) = f[Len(t)]
                 /\ \A n \in 0..Len(t) : f[n] = Step(t, kept, f, n)
        BY <1>1, FilterTable
  <2> QED
      BY <1>1, <2>1
<1> DEFINE Same == {n \in Nat : n <= N => g[n] = h[n]}
<1>4. 0 \in Same
      BY <1>1, <1>2, <1>3 DEF Step
<1>5. ASSUME NEW n \in Nat, n \in Same
      PROVE  n + 1 \in Same
  <2>1. SUFFICES ASSUME n + 1 <= N PROVE g[n + 1] = h[n + 1]
        OBVIOUS
  <2>2. g[n] = h[n] /\ t[n + 1] = s[n + 1]
        BY <1>1, <1>5, <2>1
  <2>3. g[n + 1] = Step(s, kept, g, n + 1) /\ h[n + 1] = Step(t, kept, h, n + 1)
    <3>1. n + 1 \in 0..N /\ n + 1 \in 0..(N + 1)
          BY <1>1, <2>1
    <3> QED
        BY <1>2, <1>3, <3>1
  <2> QED
      BY <2>2, <2>3 DEF Step
<1> HIDE DEF Same
<1>6. N \in Same
      BY <1>1, <1>4, <1>5, AllNumbers
<1>7. g[N] = h[N]
      BY <1>1, <1>6 DEF Same
<1>8. h[N + 1] = IF x \in kept THEN Append(h[N], x) ELSE h[N]
      BY <1>1, <1>3 DEF Step
<1> QED
    BY <1>2, <1>3, <1>7, <1>8 DEF t

-----------------------------------------------------------------------------
(* What is left, and what is not.                                          *)

\* The elements that are left are those of the list that are to be kept.
LEMMA FilterRange ==
  ASSUME NEW T, NEW s \in Seq(T), NEW kept
  PROVE  Range(Filter(s, kept)) = Range(s) \cap kept
<1> DEFINE Good == {t \in Seq(T) : Range(Filter(t, kept)) = Range(t) \cap kept}
<1>1. <<>> \in Good
  <2>1. <<>> \in Seq(T)
        BY EmptySeq
  <2>2. Range(<<>>) = {}
        BY DEF Range
  <2> QED
      BY <2>1, <2>2, FilterEmpty
<1>2. ASSUME NEW t \in Seq(T), NEW x \in T, t \in Good
      PROVE  Append(t, x) \in Good
  <2>1. /\ Append(t, x) \in Seq(T)
        /\ Range(Append(t, x)) = Range(t) \cup {x}
        BY AppendProperties, AppendRange
  <2>2. Range(Append(Filter(t, kept), x)) = Range(Filter(t, kept)) \cup {x}
    <3>1. Filter(t, kept) \in Seq(T)
          BY FilterSeq
    <3> QED
        BY <3>1, AppendRange
  <2>3. Filter(Append(t, x), kept) =
          IF x \in kept THEN Append(Filter(t, kept), x) ELSE Filter(t, kept)
        BY FilterAppend
  <2> QED
      BY <1>2, <2>1, <2>2, <2>3
<1> HIDE DEF Good
<1>3. s \in Good
      BY <1>1, <1>2, AllLists
<1> QED
    BY <1>3 DEF Good

\* An element added to the second of two lists is added to both together.
LEMMA AppendConcat ==
  ASSUME NEW T, NEW s \in Seq(T), NEW t \in Seq(T), NEW x \in T
  PROVE  Append(s \o t, x) = s \o Append(t, x)
<1>1. s \o t \in Seq(T) /\ <<x>> \in Seq(T)
      BY ConcatProperties
<1>2. Append(s \o t, x) = (s \o t) \o <<x>> /\ Append(t, x) = t \o <<x>>
      BY <1>1, AppendIsConcat
<1> QED
    BY <1>1, <1>2, ConcatAssociative

\* Two lists are filtered one after the other.
LEMMA FilterConcat ==
  ASSUME NEW T, NEW s \in Seq(T), NEW t \in Seq(T), NEW kept
  PROVE  Filter(s \o t, kept) = Filter(s, kept) \o Filter(t, kept)
<1> DEFINE F(u) == Filter(u, kept)
           Good == {u \in Seq(T) : F(s \o u) = F(s) \o F(u)}
<1>1. ASSUME NEW u \in Seq(T)
      PROVE  F(u) \in Seq(T)
      BY FilterSeq
<1>2. <<>> \in Good
  <2>1. <<>> \in Seq(T) /\ s \o <<>> = s /\ F(s) \o <<>> = F(s)
        BY <1>1, EmptySeq, ConcatEmptySeq
  <2> QED
      BY <2>1, FilterEmpty
<1>3. ASSUME NEW u \in Seq(T), NEW x \in T, u \in Good
      PROVE  Append(u, x) \in Good
  <2>1. Append(u, x) \in Seq(T) /\ s \o u \in Seq(T)
        BY AppendProperties, ConcatProperties
  <2>2. s \o Append(u, x) = Append(s \o u, x)
        BY AppendConcat
  <2>3. /\ F(s \o Append(u, x)) = IF x \in kept THEN Append(F(s \o u), x) ELSE F(s \o u)
        /\ F(Append(u, x)) = IF x \in kept THEN Append(F(u), x) ELSE F(u)
        BY <2>1, <2>2, FilterAppend
  <2>4. Append(F(s) \o F(u), x) = F(s) \o Append(F(u), x)
    <3>1. F(s) \in Seq(T) /\ F(u) \in Seq(T)
          BY <1>1
    <3>2. ASSUME NEW a \in Seq(T), NEW b \in Seq(T)
          PROVE  a \o Append(b, x) = Append(a \o b, x)
          BY AppendConcat
    <3> HIDE DEF F
    <3> QED
        BY <3>1, <3>2
  <2>5. F(s \o u) = F(s) \o F(u)
        BY <1>3
  <2> HIDE DEF F
  <2> QED
      BY <2>1, <2>3, <2>4, <2>5
<1> HIDE DEF Good
<1>4. t \in Good
      BY <1>2, <1>3, AllLists
<1> QED
    BY <1>4 DEF Good

\* A list is left as it is if all of it is to be kept, and nothing is left of it
\* if none of it is.
LEMMA FilterAllOrNone ==
  ASSUME NEW T, NEW s \in Seq(T), NEW kept
  PROVE  /\ Range(s) \subseteq kept => Filter(s, kept) = s
         /\ Range(s) \cap kept = {} => Filter(s, kept) = <<>>
<1> DEFINE Good == {t \in Seq(T) :
                      /\ Range(t) \subseteq kept => Filter(t, kept) = t
                      /\ Range(t) \cap kept = {} => Filter(t, kept) = <<>>}
<1>1. <<>> \in Good
      BY EmptySeq, FilterEmpty
<1>2. ASSUME NEW t \in Seq(T), NEW x \in T, t \in Good
      PROVE  Append(t, x) \in Good
  <2>1. /\ Append(t, x) \in Seq(T)
        /\ Range(Append(t, x)) = Range(t) \cup {x}
        /\ Filter(Append(t, x), kept) =
              IF x \in kept THEN Append(Filter(t, kept), x) ELSE Filter(t, kept)
        BY AppendProperties, AppendRange, FilterAppend
  <2> QED
      BY <1>2, <2>1
<1> HIDE DEF Good
<1>3. s \in Good
      BY <1>1, <1>2, AllLists
<1> QED
    BY <1>3 DEF Good

\* An element a list has not got twice is not left twice.
LEMMA AppendOnce ==
  ASSUME NEW T, NEW s \in Seq(T), NEW x \in T
  PROVE  IsInjective(Append(s, x)) <=> IsInjective(s) /\ x \notin Range(s)
<1> DEFINE t == Append(s, x)
<1>1. /\ t \in Seq(T) /\ Len(t) = Len(s) + 1 /\ Len(s) \in Nat
      /\ \A i \in 1..Len(s) : t[i] = s[i]
      /\ t[Len(s) + 1] = x
      BY AppendProperties, LenProperties
<1>2. DOMAIN t = 1..(Len(s) + 1) /\ DOMAIN s = 1..Len(s)
      BY <1>1, LenProperties
<1> HIDE DEF t
<1>3. ASSUME IsInjective(t)
      PROVE  IsInjective(s) /\ x \notin Range(s)
  <2>1. \A i \in 1..Len(s) : s[i] = x => i = Len(s) + 1
        BY <1>1, <1>2, <1>3 DEF IsInjective
  <2>2. x \notin Range(s)
        BY <1>1, <1>2, <2>1 DEF Range
  <2>3. \A i, j \in 1..Len(s) : t[i] = t[j] => i = j
        BY <1>1, <1>2, <1>3 DEF IsInjective
  <2> QED
      BY <1>1, <1>2, <2>2, <2>3 DEF IsInjective
<1>4. ASSUME IsInjective(s), x \notin Range(s)
      PROVE  IsInjective(t)
  <2>1. \A i \in 1..Len(s) : s[i] # x
        BY <1>2, <1>4 DEF Range
  <2> QED
      BY <1>1, <1>2, <1>4, <2>1 DEF IsInjective
<1> QED
    BY <1>3, <1>4 DEF t

\* Nothing is repeated in what is left of a list without repetitions.
LEMMA FilterOnce ==
  ASSUME NEW T, NEW s \in Seq(T), IsInjective(s), NEW kept
  PROVE  IsInjective(Filter(s, kept))
<1> DEFINE Good == {t \in Seq(T) : IsInjective(t) => IsInjective(Filter(t, kept))}
<1>1. <<>> \in Good
      BY EmptySeq, FilterEmpty
<1>2. ASSUME NEW t \in Seq(T), NEW x \in T, t \in Good
      PROVE  Append(t, x) \in Good
  <2>1. /\ Append(t, x) \in Seq(T) /\ Filter(t, kept) \in Seq(T)
        /\ Range(Filter(t, kept)) = Range(t) \cap kept
        /\ Filter(Append(t, x), kept) =
              IF x \in kept THEN Append(Filter(t, kept), x) ELSE Filter(t, kept)
        BY AppendProperties, FilterSeq, FilterRange, FilterAppend
  <2>2. /\ IsInjective(Append(t, x)) <=> IsInjective(t) /\ x \notin Range(t)
        /\ IsInjective(Append(Filter(t, kept), x)) <=>
             IsInjective(Filter(t, kept)) /\ x \notin Range(Filter(t, kept))
        BY <2>1, AppendOnce
  <2> QED
      BY <1>2, <2>1, <2>2
<1> HIDE DEF Good
<1>3. s \in Good
      BY <1>1, <1>2, AllLists
<1> QED
    BY <1>3 DEF Good

\* One element less to keep leaves a list without repetitions one shorter.
LEMMA FilterOneLess ==
  ASSUME NEW T, NEW s \in Seq(T), IsInjective(s), NEW kept, NEW y \in kept
  PROVE  LET less == Filter(s, kept \ {y})
         IN  IF y \in Range(s) THEN Len(Filter(s, kept)) = Len(less) + 1
                               ELSE Filter(s, kept) = less
<1> DEFINE All(t) == Filter(t, kept)
           Less(t) == Filter(t, kept \ {y})
           Good == {t \in Seq(T) : IsInjective(t) =>
                      IF y \in Range(t) THEN Len(All(t)) = Len(Less(t)) + 1
                                        ELSE All(t) = Less(t)}
<1>1. <<>> \in Good
  <2>1. Range(<<>>) = {}
        BY DEF Range
  <2> QED
      BY <2>1, EmptySeq, FilterEmpty
<1>2. ASSUME NEW t \in Seq(T), NEW x \in T, t \in Good, IsInjective(Append(t, x))
      PROVE  IF y \in Range(Append(t, x))
               THEN Len(All(Append(t, x))) = Len(Less(Append(t, x))) + 1
               ELSE All(Append(t, x)) = Less(Append(t, x))
  <2>1. /\ All(t) \in Seq(T) /\ Less(t) \in Seq(T)
        /\ All(Append(t, x)) = IF x \in kept THEN Append(All(t), x) ELSE All(t)
        /\ Less(Append(t, x)) =
             IF x \in kept \ {y} THEN Append(Less(t), x) ELSE Less(t)
    <3>1. All(t) \in Seq(T) /\ Less(t) \in Seq(T)
          BY FilterSeq
    <3>2. All(Append(t, x)) = IF x \in kept THEN Append(All(t), x) ELSE All(t)
          BY FilterAppend
    <3>3. Less(Append(t, x)) =
            IF x \in kept \ {y} THEN Append(Less(t), x) ELSE Less(t)
          BY FilterAppend
    <3> QED
        BY <3>1, <3>2, <3>3
  <2>2. /\ Range(Append(t, x)) = Range(t) \cup {x}
        /\ IsInjective(t) /\ x \notin Range(t)
        BY <1>2, AppendRange, AppendOnce
  <2>3. IF y \in Range(t) THEN Len(All(t)) = Len(Less(t)) + 1
                          ELSE All(t) = Less(t)
        BY <1>2, <2>2
  <2> HIDE DEF All, Less, Good
  <2>4. /\ Len(Append(All(t), x)) = Len(All(t)) + 1
        /\ Len(Append(Less(t), x)) = Len(Less(t)) + 1
        /\ Len(All(t)) \in Nat /\ Len(Less(t)) \in Nat
        BY <2>1, AppendProperties, LenProperties
  <2>5. CASE y = x
        BY <2>1, <2>2, <2>3, <2>4, <2>5
  <2>6. CASE y # x /\ y \in Range(t)
        BY <2>1, <2>2, <2>3, <2>4, <2>6
  <2>7. CASE y # x /\ y \notin Range(t)
        BY <2>1, <2>2, <2>3, <2>7
  <2> QED
      BY <2>5, <2>6, <2>7
<1>3. ASSUME NEW t \in Seq(T), NEW x \in T, t \in Good
      PROVE  Append(t, x) \in Good
  <2>1. Append(t, x) \in Seq(T)
        BY AppendProperties
  <2> QED
      BY <1>2, <1>3, <2>1
<1> HIDE DEF Good
<1>4. s \in Good
      BY <1>1, <1>3, AllLists
<1> QED
    BY <1>4 DEF Good

-----------------------------------------------------------------------------
(* Lists that lose one element.                                            *)

\* RemoveAt moves what follows the element up.
LEMMA RemoveAtElements ==
  ASSUME NEW T, NEW s \in Seq(T), NEW at \in DOMAIN s
  PROVE  /\ RemoveAt(s, at) \in Seq(T)
         /\ Len(RemoveAt(s, at)) = Len(s) - 1
         /\ \A i \in 1..Len(RemoveAt(s, at)) :
              RemoveAt(s, at)[i] = IF i < at THEN s[i] ELSE s[i + 1]
<1> DEFINE less == RemoveAt(s, at)
           low == SubSeq(s, 1, at - 1)
           high == SubSeq(s, at + 1, Len(s))
<1>a. at \in 1..Len(s) /\ DOMAIN s = 1..Len(s) /\ Len(s) \in Nat
      BY LenProperties
<1>1. less = low \o high
      BY DEF RemoveAt
<1>2. /\ low \in Seq(T) /\ Len(low) = at - 1
      /\ \A i \in 1..(at - 1) : low[i] = s[i]
  <2>1. at - 1 \in Nat /\ \A i \in 1..(at - 1) : s[i] \in T
        BY <1>a
  <2>2. /\ low \in Seq(T)
        /\ Len(low) = IF 1 <= at - 1 THEN (at - 1) - 1 + 1 ELSE 0
        /\ \A i \in 1..((at - 1) - 1 + 1) : low[i] = s[1 + i - 1]
        BY <2>1, SubSeqProperties
  <2> QED
      BY <2>1, <2>2
<1>3. /\ high \in Seq(T) /\ Len(high) = Len(s) - at
      /\ \A i \in 1..(Len(s) - at) : high[i] = s[at + i]
  <2>1. /\ at + 1 \in Nat /\ Len(s) - at \in Nat
        /\ \A i \in (at + 1)..Len(s) : s[i] \in T
        BY <1>a
  <2>2. /\ high \in Seq(T)
        /\ Len(high) = IF at + 1 <= Len(s) THEN Len(s) - (at + 1) + 1 ELSE 0
        /\ \A i \in 1..(Len(s) - (at + 1) + 1) : high[i] = s[at + 1 + i - 1]
        BY <1>a, <2>1, SubSeqProperties
  <2> QED
      BY <1>a, <2>1, <2>2
<1> HIDE DEF low, high, less
<1>4. /\ less \in Seq(T)
      /\ Len(less) = Len(low) + Len(high)
      /\ \A i \in 1..Len(less) :
           less[i] = IF i <= Len(low) THEN low[i] ELSE high[i - Len(low)]
  <2>1. low \in Seq(T) /\ high \in Seq(T)
        BY <1>2, <1>3
  <2> QED
      BY <1>1, <2>1, ConcatProperties
<1>5. Len(less) = Len(s) - 1
      BY <1>a, <1>2, <1>3, <1>4
<1>6. ASSUME NEW i \in 1..Len(less)
      PROVE  less[i] = IF i < at THEN s[i] ELSE s[i + 1]
  <2>1. CASE i < at
        BY <1>a, <1>2, <1>4, <2>1
  <2>2. CASE i >= at
    <3>1. less[i] = high[i - (at - 1)]
          BY <1>a, <1>2, <1>4, <2>2
    <3>2. i - (at - 1) \in 1..(Len(s) - at)
          BY <1>a, <1>5, <2>2
    <3>3. less[i] = s[at + (i - (at - 1))]
          BY <1>3, <3>1, <3>2
    <3> QED
        BY <1>a, <2>2, <3>3
  <2> QED
      BY <1>a, <2>1, <2>2
<1> QED
    BY <1>4, <1>5, <1>6 DEF less

\* Tail takes the first element of a list without repetitions out of its range.
LEMMA TailOnce ==
  ASSUME NEW T, NEW s \in Seq(T), s # <<>>
  PROVE  /\ Range(s) = {Head(s)} \cup Range(Tail(s))
         /\ IsInjective(s) => IsInjective(Tail(s)) /\ Head(s) \notin Range(Tail(s))
<1> DEFINE t == Tail(s)
<1>1. /\ t \in Seq(T) /\ Len(t) = Len(s) - 1 /\ Len(s) \in Nat \ {0}
      /\ \A i \in 1..Len(t) : t[i] = s[i + 1]
      /\ Head(s) = s[1]
      BY HeadTailProperties, EmptySeq, LenProperties
<1>2. DOMAIN t = 1..(Len(s) - 1) /\ DOMAIN s = 1..Len(s)
      BY <1>1, LenProperties
<1> HIDE DEF t
<1>3. Range(s) = {Head(s)} \cup Range(t)
  <2>1. \A i \in 2..Len(s) : i - 1 \in 1..(Len(s) - 1) /\ s[i] = t[i - 1]
        BY <1>1
  <2>2. Range(s) \subseteq {Head(s)} \cup Range(t)
    <3>1. ASSUME NEW i \in 1..Len(s)
          PROVE  s[i] \in {Head(s)} \cup Range(t)
      <4>1. i = 1 \/ i \in 2..Len(s)
            OBVIOUS
      <4> QED
          BY <1>1, <1>2, <2>1, <4>1 DEF Range
    <3> QED
        BY <1>2, <3>1 DEF Range
  <2>3. {Head(s)} \cup Range(t) \subseteq Range(s)
        BY <1>1, <1>2 DEF Range
  <2> QED
      BY <2>2, <2>3
<1>4. ASSUME IsInjective(s)
      PROVE  IsInjective(t) /\ Head(s) \notin Range(t)
  <2>1. \A i, j \in 1..Len(s) : s[i] = s[j] => i = j
        BY <1>2, <1>4 DEF IsInjective
  <2>2. \A i \in DOMAIN t : i + 1 \in 1..Len(s) /\ i + 1 # 1 /\ t[i] = s[i + 1]
        BY <1>1, <1>2
  <2>3. Head(s) \notin Range(t)
        BY <1>1, <2>1, <2>2 DEF Range
  <2>4. ASSUME NEW i \in DOMAIN t, NEW j \in DOMAIN t, t[i] = t[j]
        PROVE  i = j
    <3>1. i + 1 = j + 1
          BY <2>1, <2>2, <2>4
    <3> QED
        BY <1>2, <3>1
  <2> QED
      BY <2>3, <2>4 DEF IsInjective
<1> QED
    BY <1>3, <1>4 DEF t

\* What is taken from the front of one list and put at the end of the list
\* before it leaves the two together as they were.
LEMMA MoveHead ==
  ASSUME NEW T, NEW s \in Seq(T), NEW t \in Seq(T), t # <<>>
  PROVE  Append(s, Head(t)) \o Tail(t) = s \o t
<1> DEFINE h == Head(t)
           u == Tail(t)
<1>1. h \in T /\ u \in Seq(T) /\ <<h>> \in Seq(T)
      BY HeadTailProperties
<1>2. t = <<h>> \o u
  <2>1. Len(t) = 1 + Len(u) /\ \A i \in 1..Len(u) : u[i] = t[i + 1]
        BY HeadTailProperties, EmptySeq
  <2>2. /\ <<h>> \o u \in Seq(T) /\ Len(<<h>> \o u) = 1 + Len(u)
        /\ \A i \in 1..(1 + Len(u)) :
             (<<h>> \o u)[i] = IF i <= 1 THEN h ELSE u[i - 1]
        BY <1>1, ConcatProperties
  <2>3. h = t[1] /\ Len(u) \in Nat
        BY <1>1
  <2> HIDE DEF h, u
  <2>4. \A i \in 1..Len(t) : t[i] = (<<h>> \o u)[i]
        BY <2>1, <2>2, <2>3
  <2> QED
      BY <2>1, <2>2, <2>4, SeqEqual
<1> HIDE DEF h, u
<1>3. Append(s, h) = s \o <<h>>
      BY <1>1, AppendIsConcat
<1>4. (s \o <<h>>) \o u = s \o (<<h>> \o u)
      BY <1>1, ConcatAssociative
<1> QED
    BY <1>2, <1>3, <1>4 DEF h, u

\* A list from which an element is removed has no new elements.
LEMMA RemoveAtRange ==
  ASSUME NEW T, NEW s \in Seq(T), NEW at \in DOMAIN s
  PROVE  Range(RemoveAt(s, at)) \subseteq Range(s)
<1> DEFINE less == RemoveAt(s, at)
<1>1. /\ less \in Seq(T) /\ Len(less) = Len(s) - 1
      /\ \A i \in 1..Len(less) : less[i] = IF i < at THEN s[i] ELSE s[i + 1]
      BY RemoveAtElements
<1> HIDE DEF less
<1>2. /\ DOMAIN less = 1..Len(less) /\ DOMAIN s = 1..Len(s)
      /\ Len(s) \in Nat /\ Len(less) \in Nat
      BY <1>1, LenProperties
<1>3. ASSUME NEW i \in 1..Len(less)
      PROVE  less[i] \in Range(s)
  <2>1. i \in DOMAIN s /\ i + 1 \in DOMAIN s
        BY <1>1, <1>2
  <2> QED
      BY <1>1, <2>1 DEF Range
<1>4. Range(less) \subseteq Range(s)
      BY <1>2, <1>3 DEF Range
<1> QED
    BY <1>4 DEF less

\* A list begins with itself, and with whatever it began with before an element
\* is put at its end.
LEMMA PrefixAppend ==
  ASSUME NEW T, NEW s \in Seq(T), NEW t \in Seq(T), NEW x \in T
  PROVE  /\ IsPrefix(t, t)
         /\ IsPrefix(s, t) => IsPrefix(s, Append(t, x))
<1> DEFINE u == Append(t, x)
<1>1. /\ u \in Seq(T) /\ Len(u) = Len(t) + 1
      /\ \A i \in 1..Len(t) : u[i] = t[i]
      /\ Len(s) \in Nat /\ Len(t) \in Nat
      BY AppendProperties, LenProperties
<1> HIDE DEF u
<1>2. ASSUME Len(s) <= Len(t)
      PROVE  SubSeq(u, 1, Len(s)) = SubSeq(t, 1, Len(s))
  <2> DEFINE n == Len(s)
  <2>1. \A i \in 1..n : u[i] \in T /\ t[i] \in T /\ u[i] = t[i]
        BY <1>1, <1>2, ElementOfSeq
  <2>2. n \in Nat /\ 1 \in Int /\ n \in Int
        BY <1>1
  <2> HIDE DEF n
  <2>3. /\ SubSeq(u, 1, n) \in Seq(T)
        /\ Len(SubSeq(u, 1, n)) = IF 1 <= n THEN n - 1 + 1 ELSE 0
        /\ \A i \in 1..(n - 1 + 1) : SubSeq(u, 1, n)[i] = u[1 + i - 1]
        BY <2>1, <2>2, SubSeqProperties
  <2>4. /\ SubSeq(t, 1, n) \in Seq(T)
        /\ Len(SubSeq(t, 1, n)) = IF 1 <= n THEN n - 1 + 1 ELSE 0
        /\ \A i \in 1..(n - 1 + 1) : SubSeq(t, 1, n)[i] = t[1 + i - 1]
        BY <2>1, <2>2, SubSeqProperties
  <2>5. Len(SubSeq(u, 1, n)) = n /\ Len(SubSeq(t, 1, n)) = n
        BY <2>2, <2>3, <2>4
  <2>6. \A i \in 1..n : SubSeq(u, 1, n)[i] = u[i] /\ SubSeq(t, 1, n)[i] = t[i]
        BY <2>2, <2>3, <2>4
  <2>7. SubSeq(u, 1, n) = SubSeq(t, 1, n)
        BY <2>1, <2>3, <2>4, <2>5, <2>6, SeqEqual
  <2> QED
      BY <2>7 DEF n
<1>3. IsPrefix(t, t)
      BY <1>1 DEF IsPrefix
<1>4. IsPrefix(s, t) => IsPrefix(s, u)
      BY <1>1, <1>2 DEF IsPrefix
<1> QED
    BY <1>3, <1>4 DEF u

\* What follows a place in a list, when another list is put at its end.
LEMMA RestConcat ==
  ASSUME NEW T, NEW s \in Seq(T), NEW t \in Seq(T), NEW n \in 0..Len(s)
  PROVE  /\ SubSeq(s, n + 1, Len(s)) \in Seq(T)
         /\ SubSeq(s \o t, n + 1, Len(s \o t)) = SubSeq(s, n + 1, Len(s)) \o t
<1> DEFINE u == s \o t
           k == Len(s)
           m == Len(t)
<1>1. /\ u \in Seq(T) /\ Len(u) = k + m /\ k \in Nat /\ m \in Nat
      /\ n \in Nat /\ n <= k
      /\ \A i \in 1..(k + m) : u[i] = IF i <= k THEN s[i] ELSE t[i - k]
      BY ConcatProperties, LenProperties
<1>2. \A i \in (n + 1)..k : s[i] \in T
      BY <1>1, ElementOfSeq
<1>3. \A i \in (n + 1)..(k + m) : u[i] \in T
      BY <1>1, ElementOfSeq
<1> DEFINE a == SubSeq(s, n + 1, k)
           b == SubSeq(u, n + 1, k + m)
           c == a \o t
<1> HIDE DEF u, k, m
<1>4. /\ a \in Seq(T) /\ Len(a) = k - n
      /\ \A i \in 1..(k - n) : a[i] = s[n + i]
  <2>1. n + 1 \in Int /\ k \in Int
        BY <1>1
  <2>2. /\ a \in Seq(T)
        /\ Len(a) = IF n + 1 <= k THEN k - (n + 1) + 1 ELSE 0
        /\ \A i \in 1..(k - (n + 1) + 1) : a[i] = s[(n + 1) + i - 1]
        BY <1>2, <2>1, SubSeqProperties
  <2> QED
      BY <1>1, <2>2
<1>5. /\ b \in Seq(T) /\ Len(b) = (k - n) + m
      /\ \A i \in 1..((k - n) + m) : b[i] = u[n + i]
  <2>1. n + 1 \in Int /\ k + m \in Int
        BY <1>1
  <2>2. /\ b \in Seq(T)
        /\ Len(b) = IF n + 1 <= k + m THEN (k + m) - (n + 1) + 1 ELSE 0
        /\ \A i \in 1..((k + m) - (n + 1) + 1) : b[i] = u[(n + 1) + i - 1]
        BY <1>3, <2>1, SubSeqProperties
  <2> QED
      BY <1>1, <2>2
<1> HIDE DEF a, b
<1>6. /\ c \in Seq(T) /\ Len(c) = (k - n) + m
      /\ \A i \in 1..((k - n) + m) : c[i] = IF i <= k - n THEN a[i] ELSE t[i - (k - n)]
  <2>1. /\ c \in Seq(T) /\ Len(c) = Len(a) + Len(t)
        /\ \A i \in 1..(Len(a) + Len(t)) :
             c[i] = IF i <= Len(a) THEN a[i] ELSE t[i - Len(a)]
        BY <1>4, ConcatProperties
  <2>2. Len(a) = k - n /\ Len(t) = m
        BY <1>4 DEF m
  <2> HIDE DEF c
  <2> QED
      BY <2>1, <2>2
<1> HIDE DEF c
<1>7. ASSUME NEW i \in 1..Len(b)
      PROVE  b[i] = c[i]
  <2>1. i \in 1..((k - n) + m) /\ n + i \in 1..(k + m) /\ k - n \in Nat
        BY <1>1, <1>5
  <2>2. b[i] = IF n + i <= k THEN s[n + i] ELSE t[(n + i) - k]
        BY <1>1, <1>5, <2>1
  <2>3. CASE i <= k - n
    <3>1. i \in 1..(k - n) /\ n + i <= k
          BY <1>1, <2>1, <2>3
    <3> QED
        BY <1>4, <1>6, <2>1, <2>2, <2>3, <3>1
  <2>4. CASE i > k - n
    <3>1. ~(n + i <= k) /\ ~(i <= k - n) /\ (n + i) - k = i - (k - n)
          BY SMTT(30), <1>1, <2>1, <2>4
    <3> QED
        BY <1>6, <2>1, <2>2, <3>1
  <2> QED
      BY <1>1, <2>1, <2>3, <2>4
<1>8. b = c
      BY <1>5, <1>6, <1>7, SeqEqual
<1> QED
    BY <1>1, <1>4, <1>8 DEF a, b, c, u, k

\* The same when an element is put there.
LEMMA RestAppend ==
  ASSUME NEW T, NEW s \in Seq(T), NEW x \in T, NEW n \in 0..Len(s)
  PROVE  /\ SubSeq(s, n + 1, Len(s)) \in Seq(T)
         /\ SubSeq(Append(s, x), n + 1, Len(s) + 1) = Append(SubSeq(s, n + 1, Len(s)), x)
<1> DEFINE since == SubSeq(s, n + 1, Len(s))
<1>1. <<x>> \in Seq(T) /\ Append(s, x) = s \o <<x>> /\ Len(Append(s, x)) = Len(s) + 1
      BY AppendIsConcat, AppendProperties
<1>2. since \in Seq(T) /\ SubSeq(s \o <<x>>, n + 1, Len(s \o <<x>>)) = since \o <<x>>
      BY <1>1, RestConcat
<1> HIDE DEF since
<1>3. Append(since, x) = since \o <<x>>
      BY <1>2, AppendIsConcat
<1> QED
    BY <1>1, <1>2, <1>3 DEF since

-----------------------------------------------------------------------------
(* Lists of lists, one after the other.                                    *)

\* FlattenSeq is the last entry of a table that has one list more each time.
LEMMA FlattenTable ==
  ASSUME NEW T, NEW s \in Seq(Seq(T))
  PROVE  \E g : /\ g[0] = <<>> /\ FlattenSeq(s) = g[Len(s)]
                /\ \A i \in 0..Len(s) : g[i] \in Seq(T)
                /\ \A i \in 1..Len(s) : g[i] = g[i - 1] \o s[i]
<1> DEFINE n == Len(s)
           Solves(g) == g = [i \in 1..n |-> IF i = 1 THEN s[i] ELSE g[i - 1] \o s[i]]
           F == [ix \in (1..n) \X Seq(T) |-> ix[2] \o s[ix[1]]]
<1>1. n \in Nat /\ \A i \in 1..n : s[i] \in Seq(T)
      BY LenProperties, ElementOfSeq
<1>2. PICK g : g \in [0..n -> Seq(T)] /\ FilledBy(g, F, n, <<>>)
  <2>1. <<>> \in Seq(T)
        BY EmptySeq
  <2>2. F \in [(1..n) \X Seq(T) -> Seq(T)]
    <3>1. ASSUME NEW ix \in (1..n) \X Seq(T) PROVE ix[2] \o s[ix[1]] \in Seq(T)
      <4>1. ix[1] \in 1..n /\ ix[2] \in Seq(T)
            OBVIOUS
      <4> QED
          BY <1>1, <4>1, ConcatProperties
    <3> QED
        BY <3>1
  <2> HIDE DEF F, n
  <2> QED
      BY <1>1, <2>1, <2>2, TableExists
<1>3. g[0] = <<>> /\ \A i \in 0..n : g[i] \in Seq(T)
      BY <1>2 DEF FilledBy
<1>4. ASSUME NEW i \in 1..n PROVE g[i] = g[i - 1] \o s[i]
  <2>1. i - 1 \in 0..n
        BY <1>1
  <2>2. <<i, g[i - 1]>> \in (1..n) \X Seq(T)
        BY <1>3, <2>1
  <2> QED
      BY <1>2, <2>2 DEF FilledBy
<1>5. FlattenSeq(s) = g[n]
  <2>1. CASE n = 0
    <3>1. s = <<>>
          BY <2>1, EmptySeq
    <3>2. FlattenSeq(s) = s
          BY <2>1 DEF FlattenSeq
    <3> QED
        BY <1>3, <2>1, <3>1, <3>2
  <2>2. CASE n # 0
    <3> DEFINE e == CHOOSE f : Solves(f)
               low == [i \in 1..n |-> g[i]]
    <3>1. FlattenSeq(s) = e[n]
          BY <2>2 DEF FlattenSeq
    <3> HIDE DEF n
    <3>2. \A i \in 1..n : low[i] = IF i = 1 THEN s[i] ELSE low[i - 1] \o s[i]
      <4>1. ASSUME NEW i \in 1..n, i = 1 PROVE low[i] = s[i]
        <5>1. 1 \in 1..n /\ 1 - 1 = 0
              BY <4>1
        <5>2. s[1] \in Seq(T) /\ g[1] = g[1 - 1] \o s[1]
              BY <1>1, <1>4, <5>1
        <5>3. <<>> \o s[1] = s[1]
              BY <5>2, ConcatEmptySeq
        <5>4. g[1] = s[1]
              BY <1>3, <5>1, <5>2, <5>3
        <5> QED
            BY <4>1, <5>1, <5>4
      <4>2. ASSUME NEW i \in 1..n, i # 1 PROVE low[i] = low[i - 1] \o s[i]
        <5>1. i - 1 \in 1..n
              BY <1>1, <4>2
        <5> QED
            BY <1>4, <5>1
      <4> QED
          BY <4>1, <4>2
    <3>3. Solves(low)
      <4>1. low = [i \in 1..n |-> low[i]]
            OBVIOUS
      <4> HIDE DEF low
      <4> QED
          BY <3>2, <4>1
    <3>4. Solves(e)
      <4> HIDE DEF Solves, low
      <4> QED
          BY <3>3
    <3> HIDE DEF e
    <3>5. \A i \in 1..n : e[i] = IF i = 1 THEN s[i] ELSE e[i - 1] \o s[i]
          BY <3>4
    <3>6. low[n] = g[n]
          BY <1>1, <2>2
    <3> HIDE DEF low, Solves
    <3> DEFINE Same == {i \in Nat : i \in 1..n => e[i] = low[i]}
    <3>7. 0 \in Same
          OBVIOUS
    <3>8. ASSUME NEW i \in Nat, i \in Same PROVE i + 1 \in Same
      <4>1. SUFFICES ASSUME i + 1 \in 1..n PROVE e[i + 1] = low[i + 1]
            OBVIOUS
      <4>2. CASE i = 0
            BY <3>2, <3>5, <4>1, <4>2
      <4>3. CASE i # 0
        <5>1. i \in 1..n /\ (i + 1) - 1 = i /\ i + 1 # 1 /\ e[i] = low[i]
              BY <1>1, <3>8, <4>1, <4>3
        <5> QED
            BY <3>2, <3>5, <4>1, <5>1
      <4> QED
          BY <4>2, <4>3
    <3> HIDE DEF Same
    <3>9. n \in Same
          BY <1>1, <3>7, <3>8, AllNumbers
    <3> QED
        BY <1>1, <2>2, <3>1, <3>6, <3>9 DEF Same
  <2> QED
      BY <2>1, <2>2
<1> QED
    BY <1>3, <1>4, <1>5

\* Without lists there is nothing, and one list more comes behind the others.
LEMMA FlattenAppend ==
  ASSUME NEW T, NEW s \in Seq(Seq(T)), NEW x \in Seq(T)
  PROVE  /\ FlattenSeq(<<>>) = <<>> /\ FlattenSeq(s) \in Seq(T)
         /\ FlattenSeq(Append(s, x)) = FlattenSeq(s) \o x
<1> DEFINE t == Append(s, x)
           n == Len(s)
<1>1. FlattenSeq(<<>>) = <<>>
      BY DEF FlattenSeq
<1>2. /\ n \in Nat /\ t \in Seq(Seq(T)) /\ Len(t) = n + 1
      /\ \A i \in 1..n : t[i] = s[i]
      /\ t[n + 1] = x
      BY LenProperties, AppendProperties
<1> HIDE DEF t
<1>3. PICK g : /\ g[0] = <<>> /\ FlattenSeq(s) = g[n]
               /\ \A i \in 0..n : g[i] \in Seq(T)
               /\ \A i \in 1..n : g[i] = g[i - 1] \o s[i]
      BY FlattenTable
<1>4. PICK h : /\ h[0] = <<>> /\ FlattenSeq(t) = h[Len(t)]
               /\ \A i \in 0..Len(t) : h[i] \in Seq(T)
               /\ \A i \in 1..Len(t) : h[i] = h[i - 1] \o t[i]
      BY <1>2, FlattenTable
<1> HIDE DEF n
<1>5. g[n] = h[n]
  <2>1. ASSUME NEW i \in 1..n, g[i - 1] = h[i - 1] PROVE g[i] = h[i]
    <3>1. i \in 1..Len(t) /\ t[i] = s[i]
          BY <1>2
    <3> QED
        BY <1>3, <1>4, <2>1, <3>1
  <2>2. /\ n \in Nat /\ g[0] = h[0]
        /\ \A i \in 1..n : g[i - 1] = h[i - 1] => g[i] = h[i]
        BY <1>2, <1>3, <1>4, <2>1
  <2>3. \A i \in 0..n : g[i] = h[i]
        BY ZenonT(30), <2>2, SameTable
  <2> QED
      BY <2>2, <2>3
<1>6. h[n + 1] = h[n] \o x
  <2>1. n + 1 \in 1..Len(t) /\ (n + 1) - 1 = n
        BY <1>2
  <2> QED
      BY <1>2, <1>4, <2>1
<1> QED
    BY <1>1, <1>2, <1>3, <1>4, <1>5, <1>6 DEF t

=============================================================================
