--------------------------- MODULE TextMessageProofs ---------------------------
(***************************************************************************)
(* Proofs about TextMessage for any size of a byte, number of bytes in a   *)
(* uint32_t, lines and names: a number read back from its bytes is the     *)
(* number, a field taken from the end of a body is the one put there last, *)
(* and so a client shows what was typed.                                   *)
(***************************************************************************)
EXTENDS TextMessage, FilterProofs

-----------------------------------------------------------------------------
(* Numbers and their bytes.                                                *)

\* Power is a table like that.
LEMMA Powers ==
  /\ Power[0] = 1
  /\ \A i \in 0..Width : Power[i] \in Nat \ {0}
  /\ \A i \in 1..Width : Power[i] = Base * Power[i - 1]
<1> DEFINE S == Nat \ {0}
           F == [ix \in (1..Width) \X S |-> Base * ix[2]]
           Solves(g) == g = [n \in 0..Width |-> IF n = 0 THEN 1 ELSE Base * g[n - 1]]
<1>1. Width \in Nat /\ Base \in Nat \ {0}
      BY BytesAssumption
<1>2. ASSUME NEW x \in S PROVE Base * x \in S
      BY <1>1
<1>3. F \in [(1..Width) \X S -> S]
      BY <1>2
<1>4. 1 \in S
      OBVIOUS
<1>5. PICK g \in [0..Width -> S] : /\ g[0] = 1
                                   /\ \A i \in 1..Width : g[i] = F[<<i, g[i - 1]>>]
  <2> HIDE DEF F, S
  <2>1. \E g \in [0..Width -> S] : FilledBy(g, F, Width, 1)
        BY <1>1, <1>3, <1>4, TableExists
  <2> QED
      BY <2>1 DEF FilledBy
<1>6. ASSUME NEW i \in 1..Width PROVE g[i] = Base * g[i - 1]
  <2>1. i - 1 \in 0..Width
        BY <1>1
  <2>2. <<i, g[i - 1]>> \in (1..Width) \X S
        BY <1>5, <2>1
  <2> QED
      BY <1>5, <2>2
<1>7. Solves(g)
  <2>1. ASSUME NEW n \in 0..Width
        PROVE  g[n] = IF n = 0 THEN 1 ELSE Base * g[n - 1]
    <3>1. n # 0 => n \in 1..Width
          BY <1>1
    <3> QED
        BY <1>5, <1>6, <3>1
  <2> QED
      BY <2>1
<1>8. Solves(Power)
  <2> HIDE DEF Solves
  <2>1. Power = CHOOSE f : Solves(f)
        BY DEF Power, Solves
  <2> QED
      BY <1>7, <2>1
<1>9. \A n \in 0..Width : Power[n] = IF n = 0 THEN 1 ELSE Base * Power[n - 1]
      BY <1>8
<1>10. Power[0] = 1 /\ \A i \in 1..Width : Power[i] = Base * Power[i - 1]
  <2>1. 0 \in 0..Width /\ \A i \in 1..Width : i \in 0..Width /\ i # 0
        BY <1>1
  <2> QED
      BY <1>9, <2>1
<1>11. \A i \in 0..Width : Power[i] \in S
  <2> DEFINE Fine == {n \in Nat : n <= Width => Power[n] \in S}
  <2>1. 0 \in Fine
        BY <1>10
  <2>2. ASSUME NEW n \in Nat, n \in Fine PROVE n + 1 \in Fine
    <3>1. SUFFICES ASSUME n + 1 <= Width PROVE Power[n + 1] \in S
          OBVIOUS
    <3>2. Power[n] \in S /\ n + 1 \in 1..Width /\ (n + 1) - 1 = n
          BY <1>1, <2>2, <3>1
    <3>3. Power[n + 1] = Base * Power[n]
          BY <1>10, <3>2
    <3> QED
        BY <1>2, <3>2, <3>3
  <2> HIDE DEF Fine
  <2>3. Nat \subseteq Fine
        BY <2>1, <2>2, AllNumbers
  <2> QED
      BY <1>1, <2>3 DEF Fine
<1> QED
    BY <1>10, <1>11

\* The quotient and the remainder are the only ones.
LEMMA DivisionUnique ==
  ASSUME NEW n \in Nat, NEW m \in Nat \ {0}, NEW q \in Nat, NEW r \in 0..(m - 1),
         n = m * q + r
  PROVE  n % m = r
OBVIOUS

\* The low digits of a number and the next one make one digit more of them.
LEMMA NextDigit ==
  ASSUME NEW n \in Nat, NEW p \in Nat \ {0}, NEW b \in Nat \ {0}
  PROVE  n % (b * p) = (n % p) + ((n \div p) % b) * p
<1> DEFINE high == n \div p
           low  == n % p
           digit == high % b
           rest == high \div b
<1>1. high \in Nat /\ low \in 0..(p - 1) /\ n = p * high + low
      BY Division
<1> HIDE DEF high, low
<1>2. rest \in Nat /\ digit \in 0..(b - 1) /\ high = b * rest + digit
      BY <1>1, Division
<1> HIDE DEF rest, digit
<1>3. n = (b * p) * rest + (low + digit * p)
  <2>1. p * (b * rest + digit) = (b * p) * rest + digit * p
        BY <1>1, <1>2
  <2> QED
      BY <1>1, <1>2, <2>1
<1>4. low + digit * p \in Nat /\ low + digit * p < b * p
  <2>1. digit * p <= (b - 1) * p /\ digit * p \in Nat
        BY <1>2
  <2>2. (b - 1) * p + p = b * p
        OBVIOUS
  <2> QED
      BY <1>1, <2>1, <2>2
<1>5. b * p \in Nat \ {0}
      OBVIOUS
<1>6. n % (b * p) = low + digit * p
  <2> DEFINE m == b * p
             r == low + digit * p
  <2>1. m \in Nat \ {0} /\ r \in 0..(m - 1) /\ n = m * rest + r
        BY <1>3, <1>4, <1>5
  <2> HIDE DEF m, r
  <2>2. n % m = r
        BY <1>2, <2>1, DivisionUnique
  <2> QED
      BY <2>2 DEF m, r
<1> QED
    BY <1>6 DEF high, low, digit

\* The bytes of a number are bytes, as many as a uint32_t has.
LEMMA BytesOfNumber ==
  ASSUME NEW n \in Nat
  PROVE  BytesOf(n) \in Seq(Byte) /\ Len(BytesOf(n)) = Width
<1>1. Width \in Nat /\ Base \in Nat \ {0}
      BY BytesAssumption
<1>2. ASSUME NEW i \in 1..Width
      PROVE  (n \div Power[i - 1]) % Base \in Byte
  <2>1. i - 1 \in 0..Width
        BY <1>1
  <2>2. Power[i - 1] \in Nat \ {0}
        BY <2>1, Powers
  <2>3. n \div Power[i - 1] \in Nat
        BY <2>2, Division
  <2> QED
      BY <1>1, <2>3, Division DEF Byte
<1>3. BytesOf(n) \in [1..Width -> Byte]
      BY <1>2 DEF BytesOf
<1>4. BytesOf(n) \in Seq(Byte)
      BY <1>1, <1>3, SeqDef
<1>5. Len(BytesOf(n)) = Width
      BY <1>1, <1>3, <1>4, LenProperties
<1> QED
    BY <1>4, <1>5

\* Taking a number from its bytes gives the number, as far as it fits.
LEMMA RoundTrip == ASSUME NEW n \in Nat PROVE ValueOf(BytesOf(n)) = Uint(n)
<1> DEFINE bytes == BytesOf(n)
           F == [ix \in (1..Width) \X Nat |-> ix[2] + bytes[ix[1]] * Power[ix[1] - 1]]
           Solves(g) == g = [i \in 0..Width |->
                               IF i = 0 THEN 0 ELSE g[i - 1] + bytes[i] * Power[i - 1]]
           low == CHOOSE g : Solves(g)
<1>1. Width \in Nat /\ Base \in Nat \ {0}
      BY BytesAssumption
<1>2. ASSUME NEW i \in 1..Width
      PROVE  /\ i \in 0..Width /\ i - 1 \in 0..Width /\ i # 0
             /\ Power[i - 1] \in Nat \ {0}
             /\ bytes[i] = (n \div Power[i - 1]) % Base /\ bytes[i] \in Nat
  <2>1. i \in 0..Width /\ i - 1 \in 0..Width /\ i # 0
        BY <1>1
  <2>2. Power[i - 1] \in Nat \ {0}
        BY <2>1, Powers
  <2>3. bytes[i] = (n \div Power[i - 1]) % Base
        BY DEF BytesOf
  <2>4. n \div Power[i - 1] \in Nat
        BY <2>2, Division
  <2>5. bytes[i] \in Nat
        BY <1>1, <2>3, <2>4, Division
  <2> QED
      BY <2>1, <2>2, <2>3, <2>5
<1> HIDE DEF bytes
<1>3. F \in [(1..Width) \X Nat -> Nat]
  <2>1. ASSUME NEW ix \in (1..Width) \X Nat
        PROVE  ix[2] + bytes[ix[1]] * Power[ix[1] - 1] \in Nat
    <3>1. ix[1] \in 1..Width /\ ix[2] \in Nat
          OBVIOUS
    <3>2. bytes[ix[1]] \in Nat /\ Power[ix[1] - 1] \in Nat
          BY <1>2, <3>1
    <3>3. bytes[ix[1]] * Power[ix[1] - 1] \in Nat
          BY <3>2
    <3> QED
        BY <3>1, <3>3
  <2> QED
      BY <2>1
<1>4. PICK g \in [0..Width -> Nat] : /\ g[0] = 0
                                     /\ \A i \in 1..Width : g[i] = F[<<i, g[i - 1]>>]
  <2> HIDE DEF F
  <2>1. \E g \in [0..Width -> Nat] : FilledBy(g, F, Width, 0)
        BY <1>1, <1>3, TableExists
  <2> QED
      BY <2>1 DEF FilledBy
<1>5. Solves(g)
  <2>1. ASSUME NEW i \in 1..Width PROVE g[i] = g[i - 1] + bytes[i] * Power[i - 1]
    <3>1. <<i, g[i - 1]>> \in (1..Width) \X Nat
          BY <1>2, <1>4
    <3> QED
        BY <1>4, <3>1
  <2>2. ASSUME NEW i \in 0..Width
        PROVE  g[i] = IF i = 0 THEN 0 ELSE g[i - 1] + bytes[i] * Power[i - 1]
    <3>1. i # 0 => i \in 1..Width
          BY <1>1
    <3> QED
        BY <1>4, <2>1, <3>1
  <2> QED
      BY <2>2
<1>6. \A i \in 0..Width :
        low[i] = IF i = 0 THEN 0 ELSE low[i - 1] + bytes[i] * Power[i - 1]
  <2>1. Solves(low)
    <3> HIDE DEF Solves
    <3> QED
        BY <1>5
  <2> HIDE DEF low
  <2> QED
      BY <2>1
<1>7. ValueOf(bytes) = low[Width]
      BY DEF ValueOf
<1> HIDE DEF low
<1>8. low[Width] = n % Power[Width]
  <2> DEFINE Right == {k \in Nat : k <= Width => low[k] = n % Power[k]}
  <2>1. 0 \in Right
    <3>1. low[0] = 0
          BY <1>1, <1>6
    <3>2. n % 1 = 0
          OBVIOUS
    <3> QED
        BY <3>1, <3>2, Powers
  <2>2. ASSUME NEW k \in Nat, k \in Right PROVE k + 1 \in Right
    <3>1. SUFFICES ASSUME k + 1 <= Width PROVE low[k + 1] = n % Power[k + 1]
          OBVIOUS
    <3>2. k + 1 \in 1..Width /\ (k + 1) - 1 = k /\ low[k] = n % Power[k]
          BY <1>1, <2>2, <3>1
    <3>3. low[k + 1] = low[k] + bytes[k + 1] * Power[k]
          BY <1>2, <1>6, <3>2
    <3>4. Power[k] \in Nat \ {0} /\ bytes[k + 1] = (n \div Power[k]) % Base
          BY <1>2, <3>2
    <3>5. Power[k + 1] = Base * Power[k]
          BY <3>2, Powers
    <3>6. n % (Base * Power[k]) = (n % Power[k]) + ((n \div Power[k]) % Base) * Power[k]
          BY <1>1, <3>4, NextDigit
    <3> QED
        BY <3>2, <3>3, <3>4, <3>5, <3>6
  <2> HIDE DEF Right
  <2>3. Nat \subseteq Right
        BY <2>1, <2>2, AllNumbers
  <2> QED
      BY <1>1, <2>3 DEF Right
<1> QED
    BY <1>7, <1>8 DEF Uint, bytes

-----------------------------------------------------------------------------
(* Fields at the end of a body.                                            *)

\* A message whose header.size is the length of its body
Sized(body) == [size |-> Len(body), body |-> body]

Limit == Power[Width]

\* A number that fits a uint32_t is not changed by being held in one.
LEMMA Fits ==
  /\ Limit \in Nat \ {0}
  /\ \A n \in Nat : Uint(n) \in 0..(Limit - 1) /\ (n < Limit => Uint(n) = n)
<1>1. Limit \in Nat \ {0}
  <2>1. Width \in 0..Width
        BY BytesAssumption
  <2> QED
      BY <2>1, Powers DEF Limit
<1>2. ASSUME NEW n \in Nat
      PROVE  Uint(n) \in 0..(Limit - 1) /\ (n < Limit => Uint(n) = n)
  <2>1. Uint(n) = n % Limit
        BY DEF Uint, Limit
  <2>2. n % Limit \in 0..(Limit - 1)
        BY <1>1, Division
  <2>3. n < Limit => n % Limit = n
        BY <1>1
  <2> QED
      BY <2>1, <2>2, <2>3
<1> QED
    BY <1>1, <1>2

\* << on a message that has room for more.
LEMMA PushSized ==
  ASSUME NEW b \in Seq(Byte), NEW c \in Seq(Byte), Len(b) + Len(c) < Limit
  PROVE  Push(Sized(b), c) = Sized(b \o c)
<1>1. Len(b) + Len(c) \in Nat /\ Len(b \o c) = Len(b) + Len(c)
      BY ConcatProperties, LenProperties
<1>2. Uint(Len(b) + Len(c)) = Len(b \o c)
      BY <1>1, Fits
<1> QED
    BY <1>2 DEF Push, Sized

\* >> takes what the last << has put there, and leaves what was there before.
LEMMA PopSized ==
  ASSUME NEW b \in Seq(Byte), NEW c \in Seq(Byte), Len(b) + Len(c) < Limit
  PROVE  /\ LastBytes(Sized(b \o c), Len(c)) = c
         /\ Taken(Sized(b \o c), Len(c)) = c
         /\ Pop(Sized(b \o c), Len(c)) = Sized(b)
<1> DEFINE body == b \o c
           m == Len(b)
           n == Len(c)
<1>1. /\ m \in Nat /\ n \in Nat /\ body \in Seq(Byte) /\ Len(body) = m + n
      /\ \A i \in 1..(m + n) : body[i] = IF i <= m THEN b[i] ELSE c[i - m]
      /\ DOMAIN b = 1..m /\ DOMAIN c = 1..n
      BY ConcatProperties, LenProperties
<1>2. /\ b = [i \in 1..m |-> b[i]] /\ c = [i \in 1..n |-> c[i]]
      BY <1>1, SeqDef
<1>3. Sized(body).body = body
      BY DEF Sized
<1>4. LastBytes(Sized(body), n) = SubSeq(body, m + 1, m + n)
  <2>1. Len(body) - n + 1 = m + 1
        BY <1>1
  <2> QED
      BY <1>1, <1>3, <2>1 DEF LastBytes
<1>5. Pop(Sized(body), n) = [size |-> Uint(m), body |-> SubSeq(body, 1, m)]
  <2>1. Len(body) - n = m
        BY <1>1
  <2> QED
      BY <1>3, <2>1 DEF Pop
<1>6. Taken(Sized(body), n) = Reverse([i \in 1..n |-> body[m + n - i + 1]])
      BY SMTT(30), <1>1, <1>3 DEF Taken
<1> HIDE DEF body, m, n
<1>7. SubSeq(body, m + 1, m + n) = c
  <2>1. SubSeq(body, m + 1, m + n) = [i \in 1..n |-> body[i + m]]
    <3>1. /\ SubSeq(body, m + 1, m + n) \in Seq(Byte)
          /\ Len(SubSeq(body, m + 1, m + n)) = n
          /\ \A i \in 1..n : SubSeq(body, m + 1, m + n)[i] = body[i + m]
          BY <1>1, SubSeqProperties
    <3> QED
        BY <3>1, SeqDef, LenProperties
  <2>2. \A i \in 1..n : body[i + m] = c[i]
        BY <1>1
  <2> QED
      BY <1>2, <2>1, <2>2
<1>8. SubSeq(body, 1, m) = b
  <2>1. SubSeq(body, 1, m) = [i \in 1..m |-> body[i]]
    <3>1. /\ SubSeq(body, 1, m) \in Seq(Byte)
          /\ Len(SubSeq(body, 1, m)) = m
          /\ \A i \in 1..m : SubSeq(body, 1, m)[i] = body[i]
          BY <1>1, SubSeqProperties
    <3> QED
        BY <3>1, SeqDef, LenProperties
  <2>2. \A i \in 1..m : body[i] = b[i]
        BY <1>1
  <2> QED
      BY <1>2, <2>1, <2>2
<1>9. Reverse([i \in 1..n |-> body[m + n - i + 1]]) = c
  <2> DEFINE back == [i \in 1..n |-> body[m + n - i + 1]]
  <2>1. \A i \in 1..n : back[i] = c[n - i + 1] /\ n - i + 1 \in 1..n
        BY <1>1
  <2>2. \A i \in 1..n : c[i] \in Byte
        BY <1>1, ElementOfSeq
  <2>3. back \in [1..n -> Byte]
        BY <2>1, <2>2
  <2>4. Len(back) = n
    <3>1. back \in Seq(Byte) /\ DOMAIN back = 1..n
          BY <1>1, <2>3, SeqDef
    <3> HIDE DEF back
    <3> QED
        BY <1>1, <3>1, LenProperties
  <2> HIDE DEF back
  <2>5. Reverse(back) = [i \in 1..n |-> back[(n - i) + 1]]
        BY <2>4 DEF Reverse
  <2>6. \A i \in 1..n : back[(n - i) + 1] = c[i]
    <3>1. \A i \in 1..n : (n - i) + 1 \in 1..n /\ n - ((n - i) + 1) + 1 = i
          BY <1>1
    <3> QED
        BY <2>1, <3>1
  <2>7. Reverse(back) = c
        BY <1>2, <2>5, <2>6
  <2> QED
      BY <2>7 DEF back
<1>10. Uint(m) = m
  <2>1. m < Limit
        BY <1>1, Fits DEF m, n
  <2> QED
      BY <1>1, <2>1, Fits
<1> QED
    BY <1>4, <1>5, <1>6, <1>7, <1>8, <1>9, <1>10 DEF Sized, body, m, n

-----------------------------------------------------------------------------
(* The message on its way.                                                 *)

\* What the server sends, in the order of the body
Layout(line, name) == ((line \o BytesOf(Len(line))) \o name) \o <<Len(name)>>

\* A line and a name that may be sent
Sendable(line, name) ==
  /\ line \in Seq(Byte) /\ Len(line) <= MaxText
  /\ name \in Seq(Byte) /\ Len(name) < Base

\* The parts of a message to a client, and that they fit.
LEMMA Parts ==
  ASSUME NEW line, NEW name, Sendable(line, name)
  PROVE  LET digits == BytesOf(Len(line))
         IN  /\ line \in Seq(Byte) /\ name \in Seq(Byte)
             /\ digits \in Seq(Byte) /\ Len(digits) = Width
             /\ line \o digits \in Seq(Byte)
             /\ (line \o digits) \o name \in Seq(Byte)
             /\ <<Len(name)>> \in Seq(Byte) /\ Len(<<Len(name)>>) = 1
             /\ Layout(line, name) \in Seq(Byte)
             /\ Len(line) \in Nat /\ Len(line) < Limit
             /\ Len(line) + Width < Limit
             /\ Len(line \o digits) + Len(name) < Limit
             /\ Len((line \o digits) \o name) + 1 < Limit
<1> DEFINE digits == BytesOf(Len(line))
<1>1. /\ line \in Seq(Byte) /\ name \in Seq(Byte)
      /\ Len(line) \in Nat /\ Len(name) \in Nat
      /\ Len(line) <= MaxText /\ Len(name) < Base
      BY LenProperties DEF Sendable
<1>2. digits \in Seq(Byte) /\ Len(digits) = Width
      BY <1>1, BytesOfNumber
<1> HIDE DEF digits
<1>3. /\ line \o digits \in Seq(Byte) /\ Len(line \o digits) = Len(line) + Width
      BY <1>1, <1>2, ConcatProperties
<1>4. /\ (line \o digits) \o name \in Seq(Byte)
      /\ Len((line \o digits) \o name) = Len(line \o digits) + Len(name)
      BY <1>1, <1>3, ConcatProperties
<1>5. Len(name) \in Byte
      BY <1>1, BytesAssumption DEF Byte
<1>6. <<Len(name)>> \in Seq(Byte) /\ Len(<<Len(name)>>) = 1
      BY <1>5
<1>7. ((line \o digits) \o name) \o <<Len(name)>> \in Seq(Byte)
      BY <1>4, <1>6, ConcatProperties
<1>8. MaxText \in Nat /\ Width \in Nat /\ Base \in Nat /\ Limit \in Nat
      /\ MaxText + Width + Base < Limit
      BY BoundsAssumption, BytesAssumption, Fits DEF Limit
<1>9. Len(line) + Width + Len(name) + 1 < Limit
      BY <1>1, <1>8
<1> QED
    BY <1>1, <1>2, <1>3, <1>4, <1>6, <1>7, <1>8, <1>9 DEF Layout, digits

\* The whole message has room in a header.size.
LEMMA LayoutFits ==
  ASSUME NEW line, NEW name, Sendable(line, name)
  PROVE  Layout(line, name) \in Seq(Byte) /\ Len(Layout(line, name)) < Limit
<1> DEFINE before == (line \o BytesOf(Len(line))) \o name
<1>1. /\ before \in Seq(Byte) /\ <<Len(name)>> \in Seq(Byte)
      /\ Len(<<Len(name)>>) = 1 /\ Len(before) + 1 < Limit
      BY Parts
<1> HIDE DEF before
<1>2. /\ before \o <<Len(name)>> \in Seq(Byte)
      /\ Len(before \o <<Len(name)>>) = Len(before) + 1
      BY <1>1, ConcatProperties
<1> QED
    BY <1>1, <1>2 DEF Layout, before

\* The client composes the line, and the server what Layout says.
LEMMA Composed ==
  ASSUME NEW line, NEW name, Sendable(line, name)
  PROVE  /\ Compose(line) = Sized(line)
         /\ MakeMessageToClient(Sized(line), name) = Sized(Layout(line, name))
<1> DEFINE digits == BytesOf(Len(line))
<1>1. /\ line \in Seq(Byte) /\ name \in Seq(Byte) /\ digits \in Seq(Byte)
      /\ line \o digits \in Seq(Byte) /\ (line \o digits) \o name \in Seq(Byte)
      /\ <<Len(name)>> \in Seq(Byte) /\ Len(<<Len(name)>>) = 1 /\ Len(digits) = Width
      /\ Len(line) \in Nat /\ Len(line) < Limit /\ Len(line) + Width < Limit
      /\ Len(line \o digits) + Len(name) < Limit
      /\ Len((line \o digits) \o name) + 1 < Limit
      BY Parts
<1> HIDE DEF digits
<1>2. Push(EmptyMessage, line) = Sized(line)
  <2>1. <<>> \in Seq(Byte) /\ Len(<<>>) = 0 /\ <<>> \o line = line
        BY <1>1, EmptySeq, ConcatEmptySeq
  <2>2. EmptyMessage = Sized(<<>>)
        BY <2>1 DEF EmptyMessage, Sized
  <2>3. Len(<<>>) + Len(line) < Limit
        BY <1>1, <2>1
  <2> QED
      BY <1>1, <2>1, <2>2, <2>3, PushSized
<1>3. Push(Sized(line), digits) = Sized(line \o digits)
      BY <1>1, PushSized
<1>4. Push(Sized(line \o digits), name) = Sized((line \o digits) \o name)
      BY <1>1, PushSized
<1>5. Push(Sized((line \o digits) \o name), <<Len(name)>>) = Sized(Layout(line, name))
  <2>1. Len((line \o digits) \o name) + Len(<<Len(name)>>) < Limit
        BY <1>1
  <2>2. Push(Sized((line \o digits) \o name), <<Len(name)>>)
          = Sized(((line \o digits) \o name) \o <<Len(name)>>)
        BY <1>1, <2>1, PushSized
  <2> QED
      BY <2>2 DEF Layout, digits
<1>6. Sized(line).body = line /\ Sized(line).size = Len(line)
      BY DEF Sized
<1>7. Len(name) % Base = Len(name)
  <2>1. Len(name) \in Nat /\ Len(name) < Base /\ Base \in Nat \ {0}
        BY <1>1, LenProperties, BytesAssumption DEF Sendable
  <2> QED
      BY <2>1
<1>8. MakeMessageToClient(Sized(line), name)
        = Push(Push(Push(Push(EmptyMessage, line), digits), name), <<Len(name)>>)
      BY <1>6, <1>7 DEF MakeMessageToClient, digits
<1> QED
    BY <1>2, <1>3, <1>4, <1>5, <1>8 DEF Compose

\* A client takes the fields out one by one, each as it was put in.
LEMMA TakenApart ==
  ASSUME NEW line, NEW name, Sendable(line, name), NEW m, m = Sized(Layout(line, name))
  PROVE  /\ LongEnough(m)
         /\ Taken(AfterNameLength(m), NameLength(m)) = name
         /\ Taken(AfterTextLength(m), TextLength(m)) = line
         /\ Pop(AfterTextLength(m), TextLength(m)) = EmptyMessage
<1> DEFINE digits == BytesOf(Len(line))
           b2 == line \o digits
           b3 == b2 \o name
<1>1. /\ line \in Seq(Byte) /\ name \in Seq(Byte) /\ digits \in Seq(Byte)
      /\ b2 \in Seq(Byte) /\ b3 \in Seq(Byte)
      /\ <<Len(name)>> \in Seq(Byte) /\ Len(<<Len(name)>>) = 1 /\ Len(digits) = Width
      /\ Len(line) \in Nat /\ Len(line) < Limit /\ Len(line) + Width < Limit
      /\ Len(b2) + Len(name) < Limit /\ Len(b3) + 1 < Limit
      BY Parts
<1>2. m = Sized(b3 \o <<Len(name)>>)
      BY DEF Layout
<1>3. ValueOf(digits) = Len(line)
  <2>1. ValueOf(digits) = Uint(Len(line))
        BY <1>1, RoundTrip
  <2> QED
      BY <1>1, <2>1, Fits
<1> HIDE DEF digits, b2, b3
<1>4. NameLength(m) = Len(name) /\ AfterNameLength(m) = Sized(b3)
  <2>1. Len(b3) + Len(<<Len(name)>>) < Limit
        BY <1>1
  <2>2. /\ LastBytes(m, Len(<<Len(name)>>)) = <<Len(name)>>
        /\ Pop(m, Len(<<Len(name)>>)) = Sized(b3)
        BY ZenonT(40), <1>1, <1>2, <2>1, PopSized
  <2>3. LastBytes(m, 1) = <<Len(name)>> /\ Pop(m, 1) = Sized(b3)
        BY <1>1, <2>2
  <2> QED
      BY <2>3 DEF NameLength, AfterNameLength
<1>5. /\ AfterName(m) = Sized(b2)
      /\ Taken(AfterNameLength(m), NameLength(m)) = name
  <2>1. Pop(Sized(b3), Len(name)) = Sized(b2) /\ Taken(Sized(b3), Len(name)) = name
        BY <1>1, PopSized DEF b3
  <2> QED
      BY <1>4, <2>1 DEF AfterName
<1>6. TextLength(m) = Len(line) /\ AfterTextLength(m) = Sized(line)
  <2>1. LastBytes(Sized(b2), Width) = digits /\ Pop(Sized(b2), Width) = Sized(line)
        BY <1>1, PopSized DEF b2
  <2> QED
      BY <1>3, <1>5, <2>1 DEF TextLength, AfterTextLength
<1>7. /\ Taken(Sized(line), Len(line)) = line
      /\ Pop(Sized(line), Len(line)) = EmptyMessage
  <2>1. <<>> \in Seq(Byte) /\ Len(<<>>) = 0 /\ <<>> \o line = line
        BY <1>1, EmptySeq, ConcatEmptySeq
  <2>2. Len(<<>>) + Len(line) < Limit
        BY <1>1, <2>1
  <2>3. /\ Taken(Sized(<<>> \o line), Len(line)) = line
        /\ Pop(Sized(<<>> \o line), Len(line)) = Sized(<<>>)
        BY <1>1, <2>1, <2>2, PopSized
  <2> QED
      BY <2>1, <2>3 DEF EmptyMessage, Sized
<1>8. LongEnough(m)
  <2>1. /\ Len(b3 \o <<Len(name)>>) = Len(b3) + 1 /\ Len(b3) = Len(b2) + Len(name)
        /\ Len(b2) = Len(line) + Width
    <3>1. Len(line \o digits) = Len(line) + Len(digits)
          BY <1>1, ConcatProperties
    <3>2. Len(b2 \o name) = Len(b2) + Len(name)
          BY <1>1, ConcatProperties
    <3>3. Len(b3 \o <<Len(name)>>) = Len(b3) + Len(<<Len(name)>>)
          BY <1>1, ConcatProperties
    <3> QED
        BY <1>1, <3>1, <3>2, <3>3 DEF b2, b3
  <2>2. Len(b2) \in Nat /\ Len(b3) \in Nat /\ Len(name) \in Nat /\ Width \in Nat
        BY <1>1, LenProperties, BytesAssumption
  <2>3. /\ Len(m.body) = Len(b3) + 1
        /\ Len(AfterNameLength(m).body) = Len(b3)
        /\ Len(AfterName(m).body) = Len(b2)
        /\ Len(AfterTextLength(m).body) = Len(line)
        BY <1>2, <1>4, <1>5, <1>6, <2>1 DEF Sized
  <2>4. Len(m.body) >= 1 /\ Len(AfterNameLength(m).body) >= NameLength(m)
        BY <1>4, <2>1, <2>2, <2>3
  <2>5. Len(AfterName(m).body) >= Width
        BY <1>1, <2>1, <2>2, <2>3
  <2>6. Len(AfterTextLength(m).body) >= TextLength(m)
        BY <1>1, <1>6, <2>3
  <2> QED
      BY <2>4, <2>5, <2>6 DEF LongEnough
<1> QED
    BY <1>5, <1>6, <1>7, <1>8

-----------------------------------------------------------------------------
(* The inductive invariant, and what follows from it.                      *)

\* In every place the message is what the line and the name make of it there
MessageInv ==
  /\ place \in {"nowhere", "server", "client", "shown"}
  /\ text \in Seq(Char) /\ sender \in Seq(Char)
  /\ Sendable(text, sender)
  /\ message = CASE place = "server" -> Sized(text)
                 [] place = "client" -> Sized(Layout(text, sender))
                 [] OTHER -> EmptyMessage
  /\ shown = IF place = "shown" THEN [name |-> sender, text |-> text]
                                ELSE NothingShown

\* What is made of characters is made of bytes, and nothing may be sent.
LEMMA CharsAreBytes ==
  /\ Seq(Char) \subseteq Seq(Byte)
  /\ <<>> \in Seq(Char) /\ Sendable(<<>>, <<>>)
<1>1. Char \subseteq Byte
      BY BytesAssumption DEF Byte
<1>2. ASSUME NEW s \in Seq(Char) PROVE s \in Seq(Byte)
  <2>1. /\ Len(s) \in Nat /\ s = [i \in 1..Len(s) |-> s[i]]
        /\ \A i \in 1..Len(s) : s[i] \in Char
        BY LenProperties, ElementOfSeq
  <2>2. s \in [1..Len(s) -> Byte]
        BY <1>1, <2>1
  <2> QED
      BY <2>1, <2>2, SeqDef
<1>3. <<>> \in Seq(Char) /\ <<>> \in Seq(Byte) /\ Len(<<>>) = 0
      BY EmptySeq
<1> QED
    BY <1>2, <1>3, BytesAssumption, BoundsAssumption DEF Sendable

\* Nothing has been typed in the first state.
LEMMA MessageInit == Init => MessageInv
BY CharsAreBytes DEF Init, MessageInv

\* A line that is typed may be sent.
LEMMA LineSendable ==
  ASSUME NEW line \in Lines, NEW name \in Names
  PROVE  line \in Seq(Char) /\ name \in Seq(Char) /\ Sendable(line, name)
<1>1. PICK n \in 0..MaxText : line \in [1..n -> Char]
      BY DEF Lines
<1>2. n \in Nat /\ n <= MaxText
      BY <1>1, BoundsAssumption
<1>3. line \in Seq(Char)
      BY <1>1, <1>2, SeqDef
<1>4. Len(line) = n
      BY <1>1, <1>2, <1>3, LenProperties
<1>5. name \in Seq(Char) /\ Len(name) < Base
      BY NamesAssumption
<1> QED
    BY <1>2, <1>3, <1>4, <1>5, CharsAreBytes DEF Sendable

\* Every step keeps the invariant.
LEMMA MessageNext == MessageInv /\ [Next]_vars => MessageInv'
<1> SUFFICES ASSUME MessageInv, [Next]_vars PROVE MessageInv'
    OBVIOUS
<1>1. ASSUME NEW line \in Lines, NEW name \in Names, Type(line, name)
      PROVE  MessageInv'
  <2>1. line \in Seq(Char) /\ name \in Seq(Char) /\ Sendable(line, name)
        BY LineSendable
  <2>2. /\ text' = line /\ sender' = name /\ place' = "server"
        /\ message' = Sized(line) /\ shown' = NothingShown
    <3>1. Compose(line) = Sized(line)
          BY <2>1, Composed
    <3> QED
        BY <1>1, <3>1 DEF Type
  <2> QED
      BY <2>1, <2>2 DEF MessageInv, Sendable, Sized
<1>2. CASE SendToClient
  <2>1. Sendable(text, sender) /\ message = Sized(text)
        BY <1>2 DEF SendToClient, MessageInv
  <2>2. MakeMessageToClient(message, sender) = Sized(Layout(text, sender))
        BY <2>1, Composed
  <2>3. /\ message' = Sized(Layout(text, sender)) /\ place' = "client"
        /\ UNCHANGED <<text, sender, shown>> /\ place = "server"
        BY <1>2, <2>2 DEF SendToClient
  <2> QED
      BY <2>3 DEF MessageInv, Sendable, Sized, Layout
<1>3. CASE OnTextMessage
  <2>1. Sendable(text, sender) /\ message = Sized(Layout(text, sender))
        BY <1>3 DEF OnTextMessage, MessageInv
  <2>2. /\ LongEnough(message)
        /\ Taken(AfterNameLength(message), NameLength(message)) = sender
        /\ Taken(AfterTextLength(message), TextLength(message)) = text
        /\ Pop(AfterTextLength(message), TextLength(message)) = EmptyMessage
        BY <2>1, TakenApart
  <2>3. /\ shown' = [name |-> sender, text |-> text] /\ message' = EmptyMessage
        /\ place' = "shown" /\ UNCHANGED <<text, sender>>
        BY <1>3, <2>2 DEF OnTextMessage
  <2> QED
      BY <2>3 DEF MessageInv, Sendable
<1>4. CASE UNCHANGED vars
      BY <1>4 DEF vars, MessageInv, Sendable, Sized, Layout
<1> QED
    BY <1>1, <1>2, <1>3, <1>4 DEF Next

\* The inductive invariant holds in every state.
THEOREM MessageInvariant == Spec => []MessageInv
BY MessageInit, MessageNext, PTL DEF Spec

\* Every variable has its type; a header.size always fits its uint32_t.
THEOREM MessageTypeCorrect == Spec => []TypeOK
<1>1. MessageInv => TypeOK
  <2> SUFFICES ASSUME MessageInv PROVE TypeOK
      OBVIOUS
  <2>1. Seq(Char) \subseteq Seq(Byte) /\ <<>> \in Seq(Byte)
        BY CharsAreBytes
  <2>2. shown \in [name : Seq(Byte), text : Seq(Byte)]
        BY <2>1 DEF MessageInv, NothingShown
  <2>3. ASSUME NEW b \in Seq(Byte), Len(b) < Limit
        PROVE  Sized(b) \in [size : 0..(Limit - 1), body : Seq(Byte)]
        BY <2>3, LenProperties, Fits DEF Sized
  <2>4. \E b \in Seq(Byte) : Len(b) < Limit /\ message = Sized(b)
    <3>1. CASE place = "server"
          BY <3>1, Parts DEF MessageInv
    <3>2. CASE place = "client"
      <4>1. Layout(text, sender) \in Seq(Byte) /\ Len(Layout(text, sender)) < Limit
            BY LayoutFits DEF MessageInv
      <4> QED
          BY <3>2, <4>1 DEF MessageInv
    <3>3. CASE place \notin {"server", "client"}
      <4>1. EmptyMessage = Sized(<<>>) /\ Len(<<>>) < Limit
            BY <2>1, EmptySeq, Fits DEF EmptyMessage, Sized
      <4> QED
          BY <2>1, <3>3, <4>1 DEF MessageInv
    <3> QED
        BY <3>1, <3>2, <3>3
  <2>5. message \in [size : 0..(Power[Width] - 1), body : Seq(Byte)]
        BY <2>3, <2>4 DEF Limit
  <2> QED
      BY <2>2, <2>5 DEF MessageInv, TypeOK
<1> QED
    BY <1>1, MessageInvariant, PTL

\* What a client shows is the line typed at the other end under the name of its
\* sender, with nothing left over, however long a byte and a uint32_t are.
THEOREM LinesAreShown == Spec => []ShownAsTyped
<1>1. MessageInv => ShownAsTyped
      BY DEF MessageInv, ShownAsTyped
<1> QED
    BY <1>1, MessageInvariant, PTL

\* Whenever a connection is given the message, header.size is the length of its
\* body: the reader at the other end takes that many bytes, no more and no fewer.
THEOREM SizesAreLengths == Spec => []SizeIsLength
<1>1. MessageInv => SizeIsLength
      BY DEF MessageInv, SizeIsLength, Sized
<1> QED
    BY <1>1, MessageInvariant, PTL

\* No field is taken from a body too short for it.
THEOREM NoFieldTooShort == Spec => []NeverTooShort
<1>1. MessageInv => NeverTooShort
      BY DEF MessageInv, NeverTooShort
<1> QED
    BY <1>1, MessageInvariant, PTL

=============================================================================
