-------------------------- MODULE SerializationProofs --------------------------
(***************************************************************************)
(* Proofs about Serialization for any names, strings, values of 32 bits,   *)
(* objects in any number and text streams of any kind: the size an object  *)
(* keeps is the number of bytes it serializes to, however structs are      *)
(* nested, and a primitive is read back from its bytes as it was.          *)
(***************************************************************************)
EXTENDS Serialization, FilterProofs

-----------------------------------------------------------------------------
(* Integers and their bytes.                                               *)

\* A shifted integer is an integer.
LEMMA ShiftedInt ==
  ASSUME NEW n \in Int, NEW bytes \in Nat
  PROVE  Shifted(n, bytes) \in Int
<1>1. CASE bytes > 3
      BY <1>1 DEF Shifted
<1>2. CASE bytes \in 0..3
  <2>1. Weight[bytes + 1] \in Nat \ {0}
        BY <1>2 DEF Weight
  <2> HIDE DEF Weight
  <2> DEFINE weight == Weight[bytes + 1]
  <2>2. n \div weight \in Int
    <3> HIDE DEF weight
    <3>1. weight \in Nat \ {0}
          BY <2>1 DEF weight
    <3> QED
        BY <3>1
  <2> QED
      BY <1>2, <2>2 DEF Shifted
<1> QED
    BY <1>1, <1>2

\* encode writes as many bytes as the value's type has.
LEMMA EncodeBytes ==
  ASSUME NEW n \in Int, NEW w \in Nat
  PROVE  Encode(n, w) \in Seq(Byte) /\ Len(Encode(n, w)) = w
<1>1. ASSUME NEW i \in 1..w PROVE Shifted(n, w - i) % 256 \in Byte
  <2>1. w - i \in Nat
        OBVIOUS
  <2>2. Shifted(n, w - i) \in Int
        BY <2>1, ShiftedInt
  <2> QED
      BY <2>2 DEF Byte
<1>2. Encode(n, w) \in [1..w -> Byte]
      BY <1>1 DEF Encode
<1> QED
    BY <1>2, ListIs

\* A size is written in four bytes, a number of members in eight.
LEMMA NumberBytes ==
  ASSUME NEW n \in Nat
  PROVE  /\ Encode(n, 4) \in Seq(Byte) /\ Len(Encode(n, 4)) = 4
         /\ Encode(n, 8) \in Seq(Byte) /\ Len(Encode(n, 8)) = 8
<1>1. n \in Int /\ 4 \in Nat /\ 8 \in Nat
      OBVIOUS
<1> QED
    BY <1>1, EncodeBytes

\* What decode makes of four bytes.
LEMMA DecodeFour ==
  ASSUME NEW b \in Seq(Byte), Len(b) = 4
  PROVE  Decode(b) = 256 * (256 * (256 * b[1] + b[2]) + b[3]) + b[4]
<1> DEFINE Solves(g) ==
             g = [i \in 0..Len(b) |-> IF i = 0 THEN 0 ELSE 256 * g[i - 1] + b[i]]
           h == [i \in 0..Len(b) |->
                   IF i = 0 THEN 0
                   ELSE IF i = 1 THEN b[1]
                   ELSE IF i = 2 THEN 256 * b[1] + b[2]
                   ELSE IF i = 3 THEN 256 * (256 * b[1] + b[2]) + b[3]
                   ELSE 256 * (256 * (256 * b[1] + b[2]) + b[3]) + b[4]]
           e == CHOOSE g : Solves(g)
<1>1. b[1] \in Nat /\ b[2] \in Nat /\ b[3] \in Nat /\ b[4] \in Nat
  <2>1. \A i \in 1..4 : b[i] \in Byte
        BY ElementOfSeq
  <2>2. \A x \in Byte : x \in Nat
        BY DEF Byte
  <2> HIDE DEF h
  <2> QED
      BY <2>1, <2>2
<1>2. Solves(h)
  <2>1. ASSUME NEW i \in 0..Len(b)
        PROVE  h[i] = IF i = 0 THEN 0 ELSE 256 * h[i - 1] + b[i]
    <3>1. i \in {0, 1, 2, 3, 4}
          OBVIOUS
    <3> QED
        BY <1>1, <3>1
  <2>2. h = [i \in 0..Len(b) |-> h[i]]
        OBVIOUS
  <2> HIDE DEF h
  <2> QED
      BY <2>1, <2>2
<1>3. Solves(e)
  <2> HIDE DEF Solves, h
  <2> QED
      BY <1>2
<1>4. Decode(b) = e[Len(b)]
      BY DEF Decode
<1> HIDE DEF e
<1>5. \A i \in 0..4 : e[i] = IF i = 0 THEN 0 ELSE 256 * e[i - 1] + b[i]
      BY <1>3
<1>6. /\ e[0] = 0 /\ e[1] = 256 * e[0] + b[1] /\ e[2] = 256 * e[1] + b[2]
      /\ e[3] = 256 * e[2] + b[3] /\ e[4] = 256 * e[3] + b[4]
      BY <1>5
<1> QED
    BY <1>1, <1>4, <1>6

\* A number of less than 32 bits is the number its four bytes spell.
LEMMA DecodeEncoded ==
  ASSUME NEW n \in Nat, n <= MaxInt32
  PROVE  Decode(Encode(n, 4)) = n
<1> DEFINE b == Encode(n, 4)
           low == n \div 256
           middle == low \div 256
           high == middle \div 256
<1>1. b \in Seq(Byte) /\ Len(b) = 4
      BY NumberBytes
<1>2. /\ low \in Nat /\ n = 256 * low + (n % 256)
      /\ middle \in Nat /\ low = 256 * middle + (low % 256)
      /\ high \in Nat /\ middle = 256 * high + (middle % 256)
      /\ n % 256 \in Nat /\ low % 256 \in Nat /\ middle % 256 \in Nat
  <2>1. ASSUME NEW m \in Nat
        PROVE  m \div 256 \in Nat /\ m % 256 \in Nat /\ m = 256 * (m \div 256) + (m % 256)
    <3>1. m \div 256 \in Nat /\ m = 256 * (m \div 256) + (m % 256)
          BY Division
    <3> QED
        BY <3>1
  <2>2. low \in Nat /\ n % 256 \in Nat /\ n = 256 * low + (n % 256)
        BY <2>1
  <2> HIDE DEF low
  <2>3. middle \in Nat /\ low % 256 \in Nat /\ low = 256 * middle + (low % 256)
        BY <2>1, <2>2
  <2> HIDE DEF middle
  <2>4. high \in Nat /\ middle % 256 \in Nat /\ middle = 256 * high + (middle % 256)
        BY <2>1, <2>3
  <2> QED
      BY <2>2, <2>3, <2>4
<1>3. n \div (256 * 256) = middle /\ n \div (256 * 256 * 256) = high
      BY SMT
<1>4. high % 256 = high
  <2>1. n \div 16777216 < 256 /\ 256 * 256 * 256 = 16777216
        BY SMT DEF MaxInt32
  <2>2. high < 256
        BY SMT, <1>3, <2>1
  <2> HIDE DEF high
  <2> QED
      BY SMT, <1>2, <2>2
<1>5. /\ b[1] = high % 256 /\ b[2] = middle % 256
      /\ b[3] = low % 256 /\ b[4] = n % 256
  <2>1. /\ b[1] = Shifted(n, 3) % 256 /\ b[2] = Shifted(n, 2) % 256
        /\ b[3] = Shifted(n, 1) % 256 /\ b[4] = Shifted(n, 0) % 256
        BY DEF Encode
  <2>2. /\ Shifted(n, 3) = n \div (256 * 256 * 256) /\ Shifted(n, 2) = n \div (256 * 256)
        /\ Shifted(n, 1) = n \div 256 /\ Shifted(n, 0) = n
        BY DEF Shifted, Weight
  <2> HIDE DEF b
  <2> QED
      BY <1>3, <2>1, <2>2
<1> HIDE DEF b, low, middle, high
<1>6. n = 256 * (256 * (256 * b[1] + b[2]) + b[3]) + b[4]
      BY <1>2, <1>4, <1>5
<1> QED
    BY <1>1, <1>6, DecodeFour DEF b

-----------------------------------------------------------------------------
(* What the parts of an object serialize to.                               *)

\* Every type has a size.
LEMMA TypeSizes == \A t \in 1..11 : SizeOf[t] \in Nat \ {0}
<1>1. ASSUME NEW t \in 1..11 PROVE SizeOf[t] \in Nat \ {0}
  <2>1. SizeOf[t] = CASE t \in {1, 5, 9} -> 1 [] t \in {2, 6} -> 2
                      [] t \in {3, 7, 10} -> 4 [] OTHER -> 8
        BY DEF SizeOf
  <2>2. SizeOf[t] \in {1, 2, 4, 8}
        BY <2>1
  <2> QED
      BY <2>2
<1> QED
    BY <1>1

\* What a primitive or an element holds is an integer.
LEMMA ValuesAreInts == \A t \in Types : Values[t] \subseteq Int
<1>1. MaxInt32 \in Nat
      BY SMT DEF MaxInt32
<1> HIDE DEF MaxInt32
<1>2. \A n \in Int32 : n \in Int
      BY <1>1 DEF Int32
<1> QED
    BY <1>2, ValuesAssumption

\* No object is larger than a number of 32 bits.
LEMMA SizesAreNumbers == MaxSize \in Nat /\ MaxSize <= MaxInt32
<1>1. MaxInt32 \in Nat
      BY SMT DEF MaxInt32
<1> HIDE DEF MaxInt32
<1> QED
    BY <1>1, BoundsAssumption

\* Lists of one length, one after the other.
LEMMA FlattenEven ==
  ASSUME NEW T, NEW m \in Nat, NEW s \in Seq(Seq(T)),
         \A i \in 1..Len(s) : Len(s[i]) = m
  PROVE  FlattenSeq(s) \in Seq(T) /\ Len(FlattenSeq(s)) = m * Len(s)
<1> DEFINE n == Len(s)
<1>1. n \in Nat /\ \A i \in 1..n : s[i] \in Seq(T)
      BY LenProperties, ElementOfSeq
<1>2. PICK g : /\ g[0] = <<>> /\ FlattenSeq(s) = g[n]
               /\ \A i \in 0..n : g[i] \in Seq(T)
               /\ \A i \in 1..n : g[i] = g[i - 1] \o s[i]
      BY FlattenTable
<1> HIDE DEF n
<1> DEFINE Right == {i \in Nat : i <= n => Len(g[i]) = m * i}
<1>3. 0 \in Right
      BY <1>2, EmptySeq
<1>4. ASSUME NEW i \in Nat, i \in Right PROVE i + 1 \in Right
  <2>1. SUFFICES ASSUME i + 1 <= n PROVE Len(g[i + 1]) = m * (i + 1)
        OBVIOUS
  <2>2. i + 1 \in 1..n /\ i \in 0..n /\ (i + 1) - 1 = i /\ Len(g[i]) = m * i
        BY <1>1, <1>4, <2>1
  <2>3. g[i + 1] = g[i] \o s[i + 1] /\ g[i] \in Seq(T) /\ s[i + 1] \in Seq(T)
        BY <1>1, <1>2, <2>2
  <2>4. Len(g[i + 1]) = Len(g[i]) + Len(s[i + 1])
        BY <2>3, ConcatProperties
  <2>5. Len(s[i + 1]) = m
        BY <2>2 DEF n
  <2>6. m * (i + 1) = m * i + m
        OBVIOUS
  <2> QED
      BY <2>2, <2>4, <2>5, <2>6
<1> HIDE DEF Right
<1>5. n \in Right
      BY <1>1, <1>3, <1>4, AllNumbers
<1>6. Len(g[n]) = m * n
      BY <1>1, <1>5 DEF Right
<1>7. g[n] \in Seq(T)
      BY <1>1, <1>2
<1> QED
    BY <1>2, <1>6, <1>7 DEF n

\* What is known of an object.
LEMMA ObjectFields ==
  ASSUME NEW o \in Objects
  PROVE  /\ o.wrapper \in Wrappers /\ o.name \in Names /\ o.name \in Seq(Byte)
         /\ o.type \in 0..11 /\ o.length \in Nat
         /\ o.size \in Nat /\ o.size <= MaxSize /\ o.size <= MaxInt32
         /\ o.data \in Seq(Byte) /\ o.members \in [Wrappers -> Seq(Seq(Byte))]
         /\ o # Nothing /\ o # Moved
<1>1. /\ o.wrapper \in Wrappers /\ o.name \in Names /\ o.type \in 0..11
      /\ o.length \in Nat /\ o.size \in 0..MaxSize
      /\ o.data \in Seq(Byte) /\ o.members \in [Wrappers -> Seq(Seq(Byte))]
      BY DEF Objects
<1>2. o.name \in Seq(Byte)
      BY <1>1, StringsAssumption
<1>3. o.size \in Nat /\ o.size <= MaxSize /\ o.size <= MaxInt32
  <2> HIDE DEF MaxInt32
  <2>1. MaxInt32 \in Nat
        BY SMT DEF MaxInt32
  <2> QED
      BY <1>1, <2>1, SizesAreNumbers
<1>4. o # Nothing /\ o # Moved
  <2>1. o.wrapper # 0 /\ o.wrapper # -1
        BY <1>1 DEF Wrappers
  <2> QED
      BY <2>1 DEF Nothing, Moved
<1> QED
    BY <1>1, <1>2, <1>3, <1>4

\* Two lists of bytes, one after the other.
LEMMA Joined ==
  ASSUME NEW s \in Seq(Byte), NEW t \in Seq(Byte)
  PROVE  s \o t \in Seq(Byte) /\ Len(s \o t) = Len(s) + Len(t)
  BY ConcatProperties

\* One byte.
LEMMA OneByte ==
  ASSUME NEW x \in Byte
  PROVE  <<x>> \in Seq(Byte) /\ Len(<<x>>) = 1
<1>1. <<x>> \in [1..1 -> Byte]
      OBVIOUS
<1> QED
    BY <1>1, ListIs

\* Object::serialize: two numbers, the name and the wrapper.
LEMMA HeaderBytes ==
  ASSUME NEW o \in Objects
  PROVE  Header(o) \in Seq(Byte) /\ Len(Header(o)) = 9 + Len(o.name)
<1> DEFINE a == Encode(o.size, 4)
           b == Encode(Len(o.name), 4)
           w == <<o.wrapper>>
<1>1. o.name \in Seq(Byte) /\ Len(o.name) \in Nat /\ o.size \in Nat
      BY ObjectFields, LenProperties
<1>2. o.wrapper \in Byte
      BY ObjectFields DEF Wrappers, Byte
<1>3. a \in Seq(Byte) /\ Len(a) = 4
      BY <1>1, NumberBytes
<1>4. b \in Seq(Byte) /\ Len(b) = 4
      BY <1>1, NumberBytes
<1>5. w \in Seq(Byte) /\ Len(w) = 1
      BY <1>2, OneByte
<1>6. Header(o) = a \o b \o o.name \o w
      BY DEF Header
<1> HIDE DEF a, b, w
<1>7. a \o b \in Seq(Byte) /\ Len(a \o b) = 8
  <2>1. a \o b \in Seq(Byte) /\ Len(a \o b) = Len(a) + Len(b)
        BY <1>3, <1>4, Joined
  <2> QED
      BY <1>3, <1>4, <2>1
<1>8. a \o b \o o.name \in Seq(Byte) /\ Len(a \o b \o o.name) = 8 + Len(o.name)
      BY <1>1, <1>7, Joined
<1>9. a \o b \o o.name \o w \in Seq(Byte)
      /\ Len(a \o b \o o.name \o w) = 8 + Len(o.name) + 1
      BY <1>5, <1>8, Joined
<1> QED
    BY <1>1, <1>6, <1>9

\* The members of one kind: their number and what each of them serializes to.
LEMMA EntitiesBytes ==
  ASSUME NEW m \in Seq(Seq(Byte))
  PROVE  /\ FlattenSeq(m) \in Seq(Byte) /\ Entities(m) \in Seq(Byte)
         /\ Len(Entities(m)) = 8 + Len(FlattenSeq(m)) /\ Len(FlattenSeq(m)) \in Nat
<1>1. FlattenSeq(m) \in Seq(Byte)
  <2>1. <<>> \in Seq(Byte)
        BY EmptySeq
  <2> QED
      BY <2>1, FlattenAppend
<1>2. Len(m) \in Nat /\ Len(FlattenSeq(m)) \in Nat
      BY <1>1, LenProperties
<1>3. Encode(Len(m), 8) \in Seq(Byte) /\ Len(Encode(Len(m), 8)) = 8
      BY <1>2, NumberBytes
<1> QED
    BY <1>1, <1>2, <1>3, Joined DEF Entities, SizeT

\* Object::serialize and the serialize of each kind.
LEMMA SerializedBytes ==
  ASSUME NEW o \in Objects
  PROVE  /\ Serialize(o) \in Seq(Byte)
         /\ o.wrapper = Primitive =>
              Len(Serialize(o)) = 10 + Len(o.name) + Len(o.data)
         /\ o.wrapper \in {Array, String} =>
              Len(Serialize(o)) = 14 + Len(o.name) + Len(o.data)
         /\ o.wrapper = Struct =>
              Len(Serialize(o)) =
                41 + Len(o.name) + Len(FlattenSeq(o.members[1]))
                  + Len(FlattenSeq(o.members[2])) + Len(FlattenSeq(o.members[3]))
                  + Len(FlattenSeq(o.members[4]))
<1> DEFINE h == Header(o)
           t == <<o.type>>
           l == Encode(o.length, 4)
           e == [w \in 1..4 |-> Entities(o.members[w])]
           name == Len(o.name)
           data == Len(o.data)
           k1 == Len(FlattenSeq(o.members[1]))
           k2 == Len(FlattenSeq(o.members[2]))
           k3 == Len(FlattenSeq(o.members[3]))
           k4 == Len(FlattenSeq(o.members[4]))
           size == Len(Serialize(o))
           Right == /\ Serialize(o) \in Seq(Byte)
                    /\ o.wrapper = Primitive => size = 10 + name + data
                    /\ o.wrapper \in {Array, String} => size = 14 + name + data
                    /\ o.wrapper = Struct =>
                         size = 41 + name + k1 + k2 + k3 + k4
<1>1. /\ o.wrapper \in 1..4 /\ o.data \in Seq(Byte) /\ data \in Nat
      /\ o.name \in Seq(Byte) /\ name \in Nat /\ o.length \in Nat
      /\ o.type \in 0..11 /\ \A w \in 1..4 : o.members[w] \in Seq(Seq(Byte))
      BY ObjectFields, LenProperties DEF Wrappers
<1>2. h \in Seq(Byte) /\ Len(h) = 9 + name
      BY HeaderBytes
<1>3. t \in Seq(Byte) /\ Len(t) = 1
  <2>1. o.type \in Byte
        BY <1>1 DEF Byte
  <2> QED
      BY <2>1, OneByte
<1>4. l \in Seq(Byte) /\ Len(l) = 4
      BY <1>1, NumberBytes
<1>5. /\ e[1] \in Seq(Byte) /\ Len(e[1]) = 8 + k1 /\ k1 \in Nat
      /\ e[2] \in Seq(Byte) /\ Len(e[2]) = 8 + k2 /\ k2 \in Nat
      /\ e[3] \in Seq(Byte) /\ Len(e[3]) = 8 + k3 /\ k3 \in Nat
      /\ e[4] \in Seq(Byte) /\ Len(e[4]) = 8 + k4 /\ k4 \in Nat
  <2>1. ASSUME NEW w \in 1..4
        PROVE  /\ e[w] \in Seq(Byte) /\ Len(FlattenSeq(o.members[w])) \in Nat
               /\ Len(e[w]) = 8 + Len(FlattenSeq(o.members[w]))
        BY <1>1, EntitiesBytes
  <2> HIDE DEF e
  <2> QED
      BY <2>1
<1>6. /\ o.wrapper = 1 => Serialize(o) = h \o (t \o o.data)
      /\ o.wrapper \in {2, 3} => Serialize(o) = h \o (t \o l \o o.data)
      /\ o.wrapper = 4 => Serialize(o) = h \o (e[1] \o e[2] \o e[3] \o e[4])
  <2>1. ASSUME o.wrapper = 1 PROVE Serialize(o) = h \o (t \o o.data)
        BY <2>1 DEF Serialize, Primitive, Array, String, Struct
  <2>2. ASSUME o.wrapper \in {2, 3} PROVE Serialize(o) = h \o (t \o l \o o.data)
    <3>1. o.wrapper # Primitive /\ o.wrapper \in {Array, String} /\ o.wrapper # Struct
          BY <2>2 DEF Primitive, Array, String, Struct
    <3> HIDE DEF Primitive, Array, String, Struct
    <3> QED
        BY Zenon, <3>1 DEF Serialize
  <2>3. ASSUME o.wrapper = 4 PROVE Serialize(o) = h \o (e[1] \o e[2] \o e[3] \o e[4])
    <3>1. o.wrapper # Primitive /\ o.wrapper \notin {Array, String} /\ o.wrapper = Struct
          BY <2>3 DEF Primitive, Array, String, Struct
    <3>2. /\ e[1] = Entities(o.members[Primitive]) /\ e[2] = Entities(o.members[Array])
          /\ e[3] = Entities(o.members[String]) /\ e[4] = Entities(o.members[Struct])
          BY DEF Primitive, Array, String, Struct
    <3> HIDE DEF Primitive, Array, String, Struct, e
    <3> QED
        BY Zenon, <3>1, <3>2 DEF Serialize
  <2> HIDE DEF h, t, l, e
  <2> QED
      BY <2>1, <2>2, <2>3
<1> HIDE DEF h, t, l, e, name, data, k1, k2, k3, k4, size
<1>7. ASSUME o.wrapper = 1 PROVE Right
  <2>1. t \o o.data \in Seq(Byte) /\ Len(t \o o.data) = Len(t) + data
        BY <1>1, <1>3, Joined DEF data
  <2>2. Serialize(o) \in Seq(Byte) /\ size = Len(h) + Len(t \o o.data)
        BY <1>2, <1>6, <1>7, <2>1, Joined DEF size
  <2>3. size = 10 + name + data
        BY <1>1, <1>2, <1>3, <2>1, <2>2
  <2> QED
      BY <1>7, <2>2, <2>3 DEF Primitive, Array, String, Struct
<1>8. ASSUME o.wrapper \in {2, 3} PROVE Right
  <2>1. t \o l \in Seq(Byte) /\ Len(t \o l) = Len(t) + Len(l)
        BY <1>3, <1>4, Joined
  <2>2. /\ t \o l \o o.data \in Seq(Byte)
        /\ Len(t \o l \o o.data) = Len(t \o l) + data
        BY <1>1, <2>1, Joined DEF data
  <2>3. Serialize(o) \in Seq(Byte) /\ size = Len(h) + Len(t \o l \o o.data)
        BY <1>2, <1>6, <1>8, <2>2, Joined DEF size
  <2>4. size = 14 + name + data
        BY <1>1, <1>2, <1>3, <1>4, <2>1, <2>2, <2>3
  <2>5. o.wrapper # Primitive /\ o.wrapper # Struct
        BY <1>8 DEF Primitive, Struct
  <2> HIDE DEF Primitive, Struct, Array, String
  <2> QED
      BY <2>3, <2>4, <2>5
<1>9. ASSUME o.wrapper = 4 PROVE Right
  <2>1. e[1] \in Seq(Byte) /\ e[2] \in Seq(Byte) /\ e[3] \in Seq(Byte) /\ e[4] \in Seq(Byte)
        BY <1>5
  <2>2. e[1] \o e[2] \in Seq(Byte) /\ Len(e[1] \o e[2]) = Len(e[1]) + Len(e[2])
        BY <2>1, Joined
  <2>3. /\ e[1] \o e[2] \o e[3] \in Seq(Byte)
        /\ Len(e[1] \o e[2] \o e[3]) = Len(e[1] \o e[2]) + Len(e[3])
        BY <2>1, <2>2, Joined
  <2>4. /\ e[1] \o e[2] \o e[3] \o e[4] \in Seq(Byte)
        /\ Len(e[1] \o e[2] \o e[3] \o e[4]) = Len(e[1] \o e[2] \o e[3]) + Len(e[4])
        BY <2>1, <2>3, Joined
  <2>5. /\ Serialize(o) \in Seq(Byte)
        /\ size = Len(h) + Len(e[1] \o e[2] \o e[3] \o e[4])
        BY <1>2, <1>6, <1>9, <2>4, Joined DEF size
  <2>6. size = 41 + name + k1 + k2 + k3 + k4
    <3>1. name \in Nat /\ Len(h) = 9 + name
          BY <1>1, <1>2
    <3>2. Len(e[1] \o e[2]) = 16 + k1 + k2
          BY <1>5, <2>2
    <3>3. Len(e[1] \o e[2] \o e[3]) = 24 + k1 + k2 + k3
          BY <1>5, <2>3, <3>2
    <3>4. Len(e[1] \o e[2] \o e[3] \o e[4]) = 32 + k1 + k2 + k3 + k4
          BY <1>5, <2>4, <3>3
    <3> QED
        BY <1>5, <2>5, <3>1, <3>4
  <2>7. o.wrapper # Primitive /\ o.wrapper \notin {Array, String}
        BY <1>9 DEF Primitive, Array, String
  <2> HIDE DEF Primitive, Struct, Array, String
  <2> QED
      BY <2>5, <2>6, <2>7
<1>10. Right
  <2> HIDE DEF Right
  <2>1. o.wrapper = 1 \/ o.wrapper \in {2, 3} \/ o.wrapper = 4
        BY <1>1
  <2> QED
      BY <1>7, <1>8, <1>9, <2>1
<1> QED
    BY Zenon, <1>10 DEF name, data, k1, k2, k3, k4, size

\* encode of the elements of an Array, one after the other.
LEMMA ElementsBytes ==
  ASSUME NEW n \in Nat, NEW values \in [1..n -> Int], NEW w \in Nat
  PROVE  EncodeAll(values, w) \in Seq(Byte) /\ Len(EncodeAll(values, w)) = w * n
<1> DEFINE s == [i \in DOMAIN values |-> Encode(values[i], w)]
<1>1. \A i \in 1..n : Encode(values[i], w) \in Seq(Byte) /\ Len(Encode(values[i], w)) = w
      BY EncodeBytes
<1>2. s \in [1..n -> Seq(Byte)]
      BY <1>1
<1>3. s \in Seq(Seq(Byte)) /\ Len(s) = n
      BY <1>2, ListIs
<1>4. \A i \in 1..Len(s) : Len(s[i]) = w
      BY <1>1, <1>3
<1>5. EncodeAll(values, w) = FlattenSeq(s)
      BY DEF EncodeAll
<1> HIDE DEF s
<1>6. FlattenSeq(s) \in Seq(Byte) /\ Len(FlattenSeq(s)) = w * Len(s)
      BY <1>3, <1>4, FlattenEven
<1> QED
    BY <1>3, <1>5, <1>6

\* What a file is written with.
LEMMA WrittenBytes ==
  ASSUME NEW bytes \in Seq(Byte)
  PROVE  Written(bytes) \in Seq(Byte)
<1> DEFINE s == [i \in DOMAIN bytes |-> IF bytes[i] = 10 THEN Newline ELSE <<bytes[i]>>]
<1>1. Len(bytes) \in Nat /\ DOMAIN bytes = 1..Len(bytes)
      /\ \A i \in 1..Len(bytes) : bytes[i] \in Byte
      BY LenProperties, ElementOfSeq
<1>2. \A i \in 1..Len(bytes) : <<bytes[i]>> \in Seq(Byte)
      BY <1>1, OneByte
<1>3. s \in [1..Len(bytes) -> Seq(Byte)]
      BY <1>1, <1>2, StringsAssumption
<1>4. s \in Seq(Seq(Byte))
      BY <1>1, <1>3, ListIs
<1>5. Written(bytes) = FlattenSeq(s)
      BY DEF Written
<1> HIDE DEF s
<1>6. <<>> \in Seq(Byte)
      BY EmptySeq
<1> QED
    BY <1>4, <1>5, <1>6, FlattenAppend

-----------------------------------------------------------------------------
(* What each operation makes of objects that fit their buffers.            *)

\* A new object has no members.
LEMMA NoMembersIs ==
  /\ NoMembers \in [Wrappers -> Seq(Seq(Byte))]
  /\ \A w \in 1..4 : Len(FlattenSeq(NoMembers[w])) = 0
<1>1. <<>> \in Seq(Seq(Byte)) /\ <<>> \in Seq(Byte) /\ Len(<<>>) = 0
      BY EmptySeq
<1>2. FlattenSeq(<<>>) = <<>>
      BY <1>1, FlattenAppend
<1> QED
    BY <1>1, <1>2 DEF NoMembers, Wrappers

\* Primitive's constructor.
LEMMA PrimitiveFits ==
  ASSUME NEW name \in Names, NEW t \in Types, NEW value \in Values[t],
         NewPrimitive(name, t, value).size <= MaxSize
  PROVE  NewPrimitive(name, t, value) \in Objects /\ Fits(NewPrimitive(name, t, value))
<1> DEFINE o == NewPrimitive(name, t, value)
           bytes == Encode(value, SizeOf[t])
<1>1. t \in 1..11 /\ SizeOf[t] \in Nat
      BY ValuesAssumption, TypeSizes
<1>2. value \in Int
      BY ValuesAreInts
<1>3. bytes \in Seq(Byte) /\ Len(bytes) = SizeOf[t]
      BY <1>1, <1>2, EncodeBytes
<1>4. name \in Seq(Byte) /\ Len(name) \in Nat
      BY StringsAssumption, LenProperties
<1> HIDE DEF bytes
<1>5. o = [wrapper |-> 1, name |-> name, type |-> t, length |-> 0,
           size |-> Len(name) + 10 + SizeOf[t], data |-> bytes, members |-> NoMembers]
  <2>1. Len(name) + 4 + 1 + 4 + 1 + SizeOf[t] = Len(name) + 10 + SizeOf[t]
        BY <1>1, <1>4
  <2> QED
      BY <2>1 DEF NewPrimitive, ObjectSize, Primitive, bytes
<1>6. o.size <= MaxSize
      OBVIOUS
<1> HIDE DEF o
<1>7. o.size \in 0..MaxSize
  <2>1. o.size = Len(name) + 10 + SizeOf[t]
        BY <1>5
  <2> QED
      BY <1>1, <1>4, <1>6, <2>1, SizesAreNumbers
<1>8. o \in Objects
  <2>1. 1 \in Wrappers /\ t \in 0..11 /\ 0 \in Nat
        BY <1>1 DEF Wrappers
  <2> QED
      BY <1>3, <1>5, <1>7, <2>1, NoMembersIs DEF Objects
<1>9. Len(Serialize(o)) = 10 + Len(o.name) + Len(o.data)
      BY <1>5, <1>8, SerializedBytes DEF Primitive
<1>10. Len(Serialize(o)) = o.size
  <2>1. o.name = name /\ o.data = bytes /\ o.size = Len(name) + 10 + SizeOf[t]
        BY <1>5
  <2> QED
      BY <1>1, <1>3, <1>4, <1>9, <2>1
<1>11. /\ o.type \in Types /\ Len(o.data) = SizeOf[o.type]
       /\ o.length = 0 /\ o.members = NoMembers
       BY <1>3, <1>5
<1> QED
    BY <1>8, <1>10, <1>11 DEF Fits, o

\* Array's constructor.
LEMMA ArrayFits ==
  ASSUME NEW name \in Names, NEW t \in Types, NEW n \in 0..MaxLength,
         NEW values \in [1..n -> Values[t]], NewArray(name, t, values).size <= MaxSize
  PROVE  NewArray(name, t, values) \in Objects /\ Fits(NewArray(name, t, values))
<1> DEFINE o == NewArray(name, t, values)
           bytes == EncodeAll(values, SizeOf[t])
           product == SizeOf[t] * n
<1>1. t \in 1..11 /\ SizeOf[t] \in Nat /\ n \in Nat /\ product \in Nat
  <2>1. t \in 1..11 /\ SizeOf[t] \in Nat
        BY ValuesAssumption, TypeSizes
  <2>2. n \in Nat
        BY BoundsAssumption
  <2> QED
      BY <2>1, <2>2
<1>2. values \in [1..n -> Int]
      BY ValuesAreInts
<1>3. bytes \in Seq(Byte) /\ Len(bytes) = product
      BY <1>1, <1>2, ElementsBytes
<1>4. name \in Seq(Byte) /\ Len(name) \in Nat
      BY StringsAssumption, LenProperties
<1>5. Len(values) = n
      BY <1>1, <1>2, ListIs
<1> HIDE DEF bytes
<1>6. o = [wrapper |-> 2, name |-> name, type |-> t, length |-> n,
           size |-> Len(name) + 14 + product, data |-> bytes, members |-> NoMembers]
  <2>1. SizeOf[t] * Len(values) = product
        BY <1>5
  <2> HIDE DEF product
  <2>2. Len(name) + 4 + 1 + 4 + 1 + 4 + product = Len(name) + 14 + product
        BY <1>1, <1>4
  <2> QED
      BY <1>5, <2>1, <2>2 DEF NewArray, ObjectSize, Array, bytes
<1>7. o.size <= MaxSize
      OBVIOUS
<1> HIDE DEF o, product
<1>8. o.size \in 0..MaxSize
  <2>1. o.size = Len(name) + 14 + product
        BY <1>6
  <2> QED
      BY <1>1, <1>4, <1>7, <2>1, SizesAreNumbers
<1>9. o \in Objects
  <2>1. 2 \in Wrappers /\ t \in 0..11
        BY <1>1 DEF Wrappers
  <2> QED
      BY <1>1, <1>3, <1>6, <1>8, <2>1, NoMembersIs DEF Objects
<1>10. o.wrapper \in {Array, String} /\ o.wrapper # Primitive
       BY <1>6 DEF Primitive, Array
<1>11. Len(Serialize(o)) = 14 + Len(o.name) + Len(o.data)
       BY <1>9, <1>10, SerializedBytes
<1>12. Len(Serialize(o)) = o.size
  <2>1. o.name = name /\ o.data = bytes /\ o.size = Len(name) + 14 + product
        BY <1>6
  <2> QED
      BY <1>1, <1>3, <1>4, <1>11, <2>1
<1> QED
    BY <1>9, <1>10, <1>12 DEF Fits, o

\* String's constructor.
LEMMA StringFits ==
  ASSUME NEW name \in Names, NEW t \in Types, NEW chars \in Strings,
         NewString(name, t, chars).size <= MaxSize
  PROVE  NewString(name, t, chars) \in Objects /\ Fits(NewString(name, t, chars))
<1> DEFINE o == NewString(name, t, chars)
<1>1. /\ name \in Seq(Byte) /\ Len(name) \in Nat /\ chars \in Seq(Byte)
      /\ Len(chars) \in Nat
      BY StringsAssumption, LenProperties
<1>2. o = [wrapper |-> 3, name |-> name, type |-> t, length |-> Len(chars),
           size |-> Len(name) + 14 + Len(chars), data |-> chars, members |-> NoMembers]
  <2>1. Len(name) + 4 + 1 + 4 + 1 + 4 + Len(chars) = Len(name) + 14 + Len(chars)
        BY <1>1
  <2> QED
      BY <2>1 DEF NewString, ObjectSize, String
<1>3. o.size <= MaxSize
      OBVIOUS
<1> HIDE DEF o
<1>4. o.size \in 0..MaxSize
  <2>1. o.size = Len(name) + 14 + Len(chars)
        BY <1>2
  <2> QED
      BY <1>1, <1>3, <2>1, SizesAreNumbers
<1>5. o \in Objects
  <2>1. 3 \in Wrappers /\ t \in 0..11
        BY ValuesAssumption DEF Wrappers
  <2> QED
      BY <1>1, <1>2, <1>4, <2>1, NoMembersIs DEF Objects
<1>6. o.wrapper \in {Array, String} /\ o.wrapper # Primitive
      BY <1>2 DEF Primitive, String
<1>7. Len(Serialize(o)) = 14 + Len(o.name) + Len(o.data)
      BY <1>5, <1>6, SerializedBytes
<1>8. Len(Serialize(o)) = o.size
  <2>1. o.name = name /\ o.data = chars /\ o.size = Len(name) + 14 + Len(chars)
        BY <1>2
  <2> QED
      BY <1>1, <1>7, <2>1
<1> QED
    BY <1>5, <1>6, <1>8 DEF Fits, o

\* Struct's constructor.
LEMMA StructFits ==
  ASSUME NEW name \in Names, NewStruct(name).size <= MaxSize
  PROVE  NewStruct(name) \in Objects /\ Fits(NewStruct(name))
<1> DEFINE o == NewStruct(name)
<1>1. name \in Seq(Byte) /\ Len(name) \in Nat
      BY StringsAssumption, LenProperties
<1>2. o = [wrapper |-> 4, name |-> name, type |-> 0, length |-> 0,
           size |-> Len(name) + 41, data |-> <<>>, members |-> NoMembers]
  <2>1. Len(name) + 4 + 1 + 4 + 4 * 8 = Len(name) + 41
        BY <1>1
  <2> QED
      BY <2>1 DEF NewStruct, ObjectSize, Struct, SizeT
<1>3. o.size <= MaxSize
      OBVIOUS
<1> HIDE DEF o
<1>4. o.size \in 0..MaxSize
  <2>1. o.size = Len(name) + 41
        BY <1>2
  <2> QED
      BY <1>1, <1>3, <2>1, SizesAreNumbers
<1>5. o \in Objects
  <2>1. 4 \in Wrappers /\ 0 \in 0..11 /\ 0 \in Nat
        BY DEF Wrappers
  <2>2. <<>> \in Seq(Byte)
        BY EmptySeq
  <2> QED
      BY <1>2, <1>4, <2>1, <2>2, NoMembersIs DEF Objects
<1>6. o.wrapper = Struct /\ o.wrapper # Primitive
      BY <1>2 DEF Primitive, Struct
<1>7. Len(Serialize(o)) =
        41 + Len(o.name) + Len(FlattenSeq(o.members[1]))
          + Len(FlattenSeq(o.members[2])) + Len(FlattenSeq(o.members[3]))
          + Len(FlattenSeq(o.members[4]))
      BY <1>5, <1>6, SerializedBytes
<1>8. Len(Serialize(o)) = o.size
  <2>1. o.name = name /\ o.members = NoMembers /\ o.size = Len(name) + 41
        BY <1>2
  <2>2. /\ Len(FlattenSeq(o.members[1])) = 0 /\ Len(FlattenSeq(o.members[2])) = 0
        /\ Len(FlattenSeq(o.members[3])) = 0 /\ Len(FlattenSeq(o.members[4])) = 0
        BY <2>1, NoMembersIs
  <2> QED
      BY <1>1, <1>7, <2>1, <2>2
<1> QED
    BY <1>5, <1>6, <1>8 DEF Fits, o

\* One of four terms grows.
LEMMA OneTermMore ==
  ASSUME NEW l \in Int, NEW p \in Int, NEW q \in Int, NEW r \in Int, NEW s \in Int,
         NEW c \in Int
  PROVE  /\ l + (p + c) + q + r + s = l + p + q + r + s + c
         /\ l + p + (q + c) + r + s = l + p + q + r + s + c
         /\ l + p + q + (r + c) + s = l + p + q + r + s + c
         /\ l + p + q + r + (s + c) = l + p + q + r + s + c
  OBVIOUS

\* Struct::AddObject adds to size_ what the object takes in the buffer.
LEMMA MemberFits ==
  ASSUME NEW s \in Objects, NEW o \in Objects, Fits(s), Fits(o),
         s.wrapper = Struct, s.size + o.size <= MaxSize
  PROVE  WithMember(s, o) \in Objects /\ Fits(WithMember(s, o))
<1> DEFINE r == WithMember(s, o)
           bytes == Serialize(o)
           k == o.wrapper
           before(w) == Len(FlattenSeq(s.members[w]))
           after(w) == Len(FlattenSeq(r.members[w]))
           b1 == before(1)
           b2 == before(2)
           b3 == before(3)
           b4 == before(4)
           a1 == after(1)
           a2 == after(2)
           a3 == after(3)
           a4 == after(4)
<1>1. /\ s.size \in Nat /\ o.size \in Nat /\ k \in 1..4
      /\ s.name \in Names /\ s.name \in Seq(Byte) /\ Len(s.name) \in Nat
      /\ s.members \in [1..4 -> Seq(Seq(Byte))]
      BY ObjectFields, LenProperties DEF Wrappers
<1>2. bytes \in Seq(Byte) /\ Len(bytes) = o.size
      BY SerializedBytes DEF Fits
<1> HIDE DEF bytes
<1>3. r = [s EXCEPT !.size = s.size + o.size,
                    !.members = [s.members EXCEPT ![k] = Append(s.members[k], bytes)]]
      BY DEF WithMember, GetSize, bytes
<1>4. /\ r.wrapper = Struct /\ r.name = s.name /\ r.size = s.size + o.size
      /\ r.members = [s.members EXCEPT ![k] = Append(s.members[k], bytes)]
      /\ r.type = s.type /\ r.length = s.length /\ r.data = s.data
      /\ r = [wrapper |-> s.wrapper, name |-> s.name, type |-> s.type,
              length |-> s.length, size |-> s.size + o.size, data |-> s.data,
              members |-> [s.members EXCEPT ![k] = Append(s.members[k], bytes)]]
      BY <1>3 DEF Objects
<1> HIDE DEF r, k
<1>5. \A w \in 1..4 : s.members[w] \in Seq(Seq(Byte))
      BY <1>1
<1>6. \A w \in 1..4 : r.members[w] = IF w = k THEN Append(s.members[w], bytes)
                                     ELSE s.members[w]
      BY <1>1, <1>4
<1>7. r \in Objects
  <2>1. Append(s.members[k], bytes) \in Seq(Seq(Byte))
        BY <1>1, <1>2, <1>5, AppendProperties
  <2>2. [s.members EXCEPT ![k] = Append(s.members[k], bytes)] \in [Wrappers -> Seq(Seq(Byte))]
        BY <1>1, <2>1 DEF Wrappers
  <2>3. s.size + o.size \in 0..MaxSize
        BY <1>1, SizesAreNumbers
  <2>4. /\ s.wrapper \in Wrappers /\ s.type \in 0..11 /\ s.length \in Nat
        /\ s.data \in Seq(Byte)
        BY ObjectFields
  <2> QED
      BY <1>1, <1>4, <2>2, <2>3, <2>4 DEF Objects
<1>8. /\ b1 \in Nat /\ b2 \in Nat /\ b3 \in Nat /\ b4 \in Nat
      /\ Len(Serialize(s)) = 41 + Len(s.name) + b1 + b2 + b3 + b4
      /\ Len(Serialize(s)) = s.size
  <2>1. \A w \in 1..4 : before(w) \in Nat
        BY <1>5, EntitiesBytes
  <2>2. b1 \in Nat /\ b2 \in Nat /\ b3 \in Nat /\ b4 \in Nat
    <3> HIDE DEF before
    <3> QED
        BY <2>1
  <2>3. Len(Serialize(s)) = 41 + Len(s.name) + b1 + b2 + b3 + b4
        BY SerializedBytes
  <2>4. Len(Serialize(s)) = s.size
        BY DEF Fits
  <2> HIDE DEF b1, b2, b3, b4
  <2> QED
      BY <2>2, <2>3, <2>4
<1>9. \A w \in 1..4 : after(w) = IF w = k THEN before(w) + o.size ELSE before(w)
  <2>1. SUFFICES ASSUME NEW w \in 1..4
                 PROVE  after(w) = IF w = k THEN before(w) + o.size ELSE before(w)
        OBVIOUS
  <2>2. CASE w # k
        BY <1>6, <2>2
  <2>3. CASE w = k
    <3> DEFINE f == FlattenSeq(s.members[w])
    <3>1. FlattenSeq(r.members[w]) = f \o bytes /\ f \in Seq(Byte)
      <4>1. r.members[w] = Append(s.members[w], bytes)
            BY <1>6, <2>3
      <4>2. FlattenSeq(Append(s.members[w], bytes)) = f \o bytes /\ f \in Seq(Byte)
            BY <1>2, <1>5, FlattenAppend
      <4> QED
          BY <4>1, <4>2
    <3>2. before(w) = Len(f)
          OBVIOUS
    <3> HIDE DEF f
    <3>3. Len(f \o bytes) = Len(f) + Len(bytes)
          BY <1>2, <3>1, Joined
    <3>4. after(w) = Len(f) + o.size
          BY <1>2, <3>1, <3>3
    <3> HIDE DEF before, after
    <3> QED
        BY <2>3, <3>2, <3>4
  <2> QED
      BY <2>2, <2>3
<1>10. Len(Serialize(r)) = 41 + Len(s.name) + a1 + a2 + a3 + a4
       BY <1>4, <1>7, SerializedBytes
<1>11. /\ a1 = IF k = 1 THEN b1 + o.size ELSE b1
       /\ a2 = IF k = 2 THEN b2 + o.size ELSE b2
       /\ a3 = IF k = 3 THEN b3 + o.size ELSE b3
       /\ a4 = IF k = 4 THEN b4 + o.size ELSE b4
  <2> HIDE DEF before, after
  <2> QED
      BY <1>9
<1> HIDE DEF before, after, b1, b2, b3, b4, a1, a2, a3, a4
<1>12. Len(Serialize(r)) = r.size
  <2>1. k = 1 \/ k = 2 \/ k = 3 \/ k = 4
        BY <1>1
  <2> DEFINE l == 41 + Len(s.name)
  <2>2. /\ l \in Int /\ b1 \in Int /\ b2 \in Int /\ b3 \in Int /\ b4 \in Int
        /\ o.size \in Int
        BY <1>1, <1>8
  <2> HIDE DEF l
  <2>3. /\ l + (b1 + o.size) + b2 + b3 + b4 = l + b1 + b2 + b3 + b4 + o.size
        /\ l + b1 + (b2 + o.size) + b3 + b4 = l + b1 + b2 + b3 + b4 + o.size
        /\ l + b1 + b2 + (b3 + o.size) + b4 = l + b1 + b2 + b3 + b4 + o.size
        /\ l + b1 + b2 + b3 + (b4 + o.size) = l + b1 + b2 + b3 + b4 + o.size
        BY <2>2, OneTermMore
  <2>4. Len(Serialize(r)) = l + a1 + a2 + a3 + a4
        BY <1>10 DEF l
  <2>5. Len(Serialize(r)) = l + b1 + b2 + b3 + b4 + o.size
    <3>1. CASE k = 1
          BY <1>11, <2>3, <2>4, <3>1
    <3>2. CASE k = 2
          BY <1>11, <2>3, <2>4, <3>2
    <3>3. CASE k = 3
          BY <1>11, <2>3, <2>4, <3>3
    <3>4. CASE k = 4
          BY <1>11, <2>3, <2>4, <3>4
    <3> QED
        BY <2>1, <3>1, <3>2, <3>3, <3>4
  <2>6. Len(Serialize(s)) = l + b1 + b2 + b3 + b4
        BY <1>8 DEF l
  <2> QED
      BY <1>4, <1>8, <2>5, <2>6
<1>13. r.wrapper # Primitive
       BY <1>4 DEF Primitive, Struct
<1> QED
    BY <1>7, <1>12, <1>13 DEF Fits, r

\* What was put between two lists of bytes is found there.
LEMMA Middle ==
  ASSUME NEW a \in Seq(Byte), NEW s \in Seq(Byte), NEW z \in Seq(Byte)
  PROVE  /\ SubSeq((a \o s) \o z, Len(a) + 1, Len(a) + Len(s)) = s
         /\ \A i \in 1..Len(s) : ((a \o s) \o z)[Len(a) + i] = s[i]
<1> DEFINE u == a \o s
           b == u \o z
<1>1. Len(a) \in Nat /\ Len(s) \in Nat /\ Len(z) \in Nat
      BY LenProperties
<1>2. /\ u \in Seq(Byte) /\ Len(u) = Len(a) + Len(s)
      /\ \A i \in 1..(Len(a) + Len(s)) :
           u[i] = IF i <= Len(a) THEN a[i] ELSE s[i - Len(a)]
      BY ConcatProperties
<1> HIDE DEF u
<1>3. /\ b \in Seq(Byte) /\ Len(b) = Len(u) + Len(z)
      /\ \A i \in 1..(Len(u) + Len(z)) :
           b[i] = IF i <= Len(u) THEN u[i] ELSE z[i - Len(u)]
  <2>1. u \in Seq(Byte)
        BY <1>2
  <2> QED
      BY <2>1, ConcatProperties
<1> HIDE DEF b
<1> DEFINE m == Len(a)
           n == Len(s)
<1>4. m \in Nat /\ n \in Nat /\ Len(u) = m + n
      BY <1>1, <1>2
<1>5. ASSUME NEW i \in 1..n PROVE b[m + i] = s[i] /\ s[i] \in Byte
  <2>1. s[i] \in Byte
        BY ElementOfSeq
  <2> HIDE DEF m, n
  <2>2. /\ m + i \in 1..(m + n) /\ ~(m + i <= m) /\ (m + i) - m = i
        BY <1>4
  <2>3. u[m + i] = s[i]
        BY <1>2, <2>2 DEF m, n
  <2>4. m + i \in 1..(Len(u) + Len(z)) /\ m + i <= Len(u)
        BY <1>1, <1>4, <2>2
  <2>5. b[m + i] = u[m + i]
        BY <1>3, <2>4
  <2> QED
      BY <2>1, <2>3, <2>5
<1> DEFINE r == SubSeq(b, m + 1, m + n)
<1>6. r \in Seq(Byte) /\ Len(r) = n /\ \A i \in 1..n : r[i] = b[m + i]
  <2> HIDE DEF m, n
  <2>1. m + 1 \in Int /\ m + n \in Int /\ (m + n) - (m + 1) + 1 = n
        /\ \A i \in Int : (m + 1) + i - 1 = m + i
        BY <1>4
  <2>2. \A i \in (m + 1)..(m + n) : b[i] \in Byte
    <3>1. ASSUME NEW i \in (m + 1)..(m + n) PROVE b[i] \in Byte
      <4>1. i - m \in 1..n /\ m + (i - m) = i
            BY <1>4
      <4>2. b[m + (i - m)] \in Byte
            BY <1>5, <4>1 DEF n
      <4> QED
          BY <4>1, <4>2
    <3> QED
        BY <3>1
  <2> DEFINE p == m + 1
             q == m + n
  <2>3. p \in Int /\ q \in Int /\ \A i \in p..q : b[i] \in Byte
        BY <2>1, <2>2
  <2>4. r = SubSeq(b, p, q)
        OBVIOUS
  <2> HIDE DEF p, q, r
  <2>5. /\ SubSeq(b, p, q) \in Seq(Byte)
        /\ Len(SubSeq(b, p, q)) = IF p <= q THEN q - p + 1 ELSE 0
        /\ \A i \in 1..(q - p + 1) : SubSeq(b, p, q)[i] = b[p + i - 1]
        BY <2>3, SubSeqProperties
  <2> QED
      BY <1>4, <2>1, <2>4, <2>5 DEF p, q
<1>7. r = s
  <2> HIDE DEF r
  <2> QED
      BY <1>5, <1>6, SeqEqual
<1> QED
    BY <1>5, <1>7 DEF b, u

\* The same of a list that is known to be made of the three.
LEMMA Found ==
  ASSUME NEW a \in Seq(Byte), NEW s \in Seq(Byte), NEW z \in Seq(Byte),
         NEW b, b = (a \o s) \o z,
         NEW i, NEW j, Len(a) + 1 = i, Len(a) + Len(s) = j
  PROVE  SubSeq(b, i, j) = s
<1>1. SubSeq((a \o s) \o z, Len(a) + 1, Len(a) + Len(s)) = s
      BY Middle
<1> QED
    BY Zenon, <1>1

\* Primitive::deserialize makes of a primitive's bytes the primitive.
LEMMA ReadBack ==
  ASSUME NEW o \in Objects, Fits(o), o.wrapper = Primitive
  PROVE  Deserialize(Serialize(o)) = o
<1> DEFINE a == Encode(o.size, 4)
           c == Encode(Len(o.name), 4)
           n == o.name
           w == <<o.wrapper>>
           t == <<o.type>>
           d == o.data
           b == Serialize(o)
           l == Len(n)
           h == ((a \o c) \o n) \o w
           rest == t \o d
<1>1. /\ n \in Seq(Byte) /\ l \in Nat /\ d \in Seq(Byte) /\ o.size \in Nat
      /\ o.size <= MaxInt32 /\ o.wrapper \in Byte /\ o.type \in Byte
  <2>1. o.wrapper \in Wrappers /\ o.type \in 0..11
        BY ObjectFields
  <2>2. o.wrapper \in Byte /\ o.type \in Byte
        BY <2>1 DEF Wrappers, Byte
  <2> QED
      BY <2>2, ObjectFields, LenProperties
<1>2. a \in Seq(Byte) /\ Len(a) = 4
      BY <1>1, NumberBytes
<1>3. c \in Seq(Byte) /\ Len(c) = 4
      BY <1>1, NumberBytes
<1>4. w \in Seq(Byte) /\ Len(w) = 1 /\ t \in Seq(Byte) /\ Len(t) = 1
      BY <1>1, OneByte
<1>5. w[1] = o.wrapper /\ t[1] = o.type
      OBVIOUS
<1>6. b = h \o rest
  <2>1. o.wrapper = 1
        BY DEF Primitive
  <2>2. Serialize(o) = Header(o) \o (t \o d)
        BY <2>1 DEF Serialize, Primitive, Array, String, Struct
  <2>3. Header(o) = h
        BY DEF Header
  <2> QED
      BY Zenon, <2>2, <2>3
<1>7. Len(d) = SizeOf[o.type] /\ o.type \in 1..11 /\ l <= MaxInt32
  <2>1. Len(d) = SizeOf[o.type] /\ o.type \in Types /\ Len(b) = o.size
        BY DEF Fits
  <2>2. o.type \in 1..11
        BY <2>1, ValuesAssumption
  <2>3. Len(b) = 10 + l + Len(d) /\ Len(d) \in Nat
    <3>1. Len(d) \in Nat
          BY <1>1, LenProperties
    <3>2. Len(b) = 10 + l + Len(d)
      <4> HIDE DEF Primitive
      <4> QED
          BY SerializedBytes
    <3> QED
        BY <3>1, <3>2
  <2>4. MaxInt32 \in Nat
        BY SMT DEF MaxInt32
  <2> HIDE DEF b, l, d, MaxInt32
  <2> QED
      BY <1>1, <2>1, <2>2, <2>3, <2>4
<1>8. Decode(a) = o.size
      BY <1>1, DecodeEncoded
<1>9. Decode(c) = l
      BY <1>1, <1>7, DecodeEncoded
<1>10. /\ o = [wrapper |-> o.wrapper, name |-> n, type |-> o.type, length |-> 0,
               size |-> o.size, data |-> d, members |-> NoMembers]
  <2>1. o.length = 0 /\ o.members = NoMembers
        BY DEF Fits
  <2>2. o = [wrapper |-> o.wrapper, name |-> o.name, type |-> o.type,
             length |-> o.length, size |-> o.size, data |-> o.data,
             members |-> o.members]
        BY DEF Objects
  <2> QED
      BY <2>1, <2>2
<1> HIDE DEF a, c, n, w, t, d, b, rest
<1>11. /\ a \o c \in Seq(Byte) /\ Len(a \o c) = 8
       /\ (a \o c) \o n \in Seq(Byte) /\ Len((a \o c) \o n) = 8 + l
       /\ h \in Seq(Byte) /\ Len(h) = 9 + l
       /\ rest \in Seq(Byte)
  <2>1. a \o c \in Seq(Byte) /\ Len(a \o c) = Len(a) + Len(c)
        BY <1>2, <1>3, Joined
  <2>2. (a \o c) \o n \in Seq(Byte) /\ Len((a \o c) \o n) = Len(a \o c) + l
        BY <1>1, <2>1, Joined
  <2>3. h \in Seq(Byte) /\ Len(h) = Len((a \o c) \o n) + Len(w)
        BY <1>4, <2>2, Joined
  <2>4. rest \in Seq(Byte)
        BY <1>1, <1>4, Joined DEF rest
  <2> HIDE DEF h, l
  <2>5. Len(a \o c) = 8 /\ Len((a \o c) \o n) = 8 + l /\ Len(h) = 9 + l
        BY <1>1, <1>2, <1>3, <1>4, <2>1, <2>2, <2>3
  <2> QED
      BY <2>1, <2>2, <2>3, <2>4, <2>5
<1>12. /\ w \o rest \in Seq(Byte) /\ n \o (w \o rest) \in Seq(Byte)
       /\ c \o (n \o (w \o rest)) \in Seq(Byte)
       /\ b = ((a \o c) \o n) \o (w \o rest)
       /\ b = (a \o c) \o (n \o (w \o rest))
       /\ b = (<<>> \o a) \o (c \o (n \o (w \o rest)))
       /\ b = (h \o t) \o d /\ b = ((h \o t) \o d) \o <<>>
  <2>1. \A x, y, z \in Seq(Byte) : (x \o y) \o z = x \o (y \o z)
        BY ConcatAssociative
  <2>2. w \o rest \in Seq(Byte)
        BY <1>4, <1>11, Joined
  <2>3. n \o (w \o rest) \in Seq(Byte)
        BY <1>1, <2>2, Joined
  <2>4. c \o (n \o (w \o rest)) \in Seq(Byte)
        BY <1>3, <2>3, Joined
  <2>5. b = ((a \o c) \o n) \o (w \o rest)
    <3> DEFINE u == (a \o c) \o n
    <3>1. u \in Seq(Byte) /\ w \in Seq(Byte) /\ rest \in Seq(Byte)
          BY <1>4, <1>11
    <3>2. b = (u \o w) \o rest
          BY Zenon, <1>6 DEF h
    <3> HIDE DEF u
    <3>3. b = u \o (w \o rest)
          BY Zenon, <2>1, <3>1, <3>2
    <3> QED
        BY Zenon, <3>3 DEF u
  <2>6. b = (a \o c) \o (n \o (w \o rest))
    <3> DEFINE u == a \o c
               v == w \o rest
    <3>1. u \in Seq(Byte) /\ n \in Seq(Byte) /\ v \in Seq(Byte)
          BY <1>1, <1>11, <2>2
    <3>2. b = (u \o n) \o v
          BY Zenon, <2>5
    <3> HIDE DEF u, v
    <3>3. b = u \o (n \o v)
          BY Zenon, <2>1, <3>1, <3>2
    <3> QED
        BY Zenon, <3>3 DEF u, v
  <2>7. b = a \o (c \o (n \o (w \o rest)))
        BY Zenon, <1>2, <1>3, <2>1, <2>3, <2>6
  <2>8. <<>> \o a = a
        BY <1>2, ConcatEmptySeq
  <2> HIDE DEF h
  <2>9. b = (h \o t) \o d
    <3>1. h \in Seq(Byte) /\ t \in Seq(Byte) /\ d \in Seq(Byte)
          BY <1>1, <1>4, <1>11
    <3>2. b = h \o (t \o d)
          BY Zenon, <1>6 DEF rest
    <3> QED
        BY Zenon, <2>1, <3>1, <3>2
  <2>10. b \in Seq(Byte)
         BY <1>6, <1>11, Joined
  <2>11. b \o <<>> = b
         BY <2>10, ConcatEmptySeq
  <2> QED
      BY Zenon, <2>2, <2>3, <2>4, <2>5, <2>6, <2>7, <2>8, <2>9, <2>11
<1>13. SubSeq(b, 1, 4) = a /\ SubSeq(b, 5, 8) = c
  <2>1. <<>> \in Seq(Byte) /\ Len(<<>>) = 0
        BY EmptySeq
  <2>2. /\ Len(<<>>) + 1 = 1 /\ Len(<<>>) + Len(a) = 4
        /\ Len(a) + 1 = 5 /\ Len(a) + Len(c) = 8
        BY <1>2, <1>3, <2>1
  <2>3. /\ a \in Seq(Byte) /\ c \in Seq(Byte) /\ c \o (n \o (w \o rest)) \in Seq(Byte)
        /\ n \o (w \o rest) \in Seq(Byte) /\ b = (a \o c) \o (n \o (w \o rest))
        /\ b = (<<>> \o a) \o (c \o (n \o (w \o rest)))
        BY Zenon, <1>2, <1>3, <1>12
  <2>4. SubSeq(b, 1, 4) = a
        BY <2>1, <2>2, <2>3, Found
  <2>5. SubSeq(b, 5, 8) = c
        BY <2>2, <2>3, Found
  <2> QED
      BY <2>4, <2>5
<1>14. SubSeq(b, 9, 8 + l) = n
  <2>1. /\ a \o c \in Seq(Byte) /\ n \in Seq(Byte) /\ w \o rest \in Seq(Byte)
        /\ b = ((a \o c) \o n) \o (w \o rest)
        BY Zenon, <1>1, <1>11, <1>12
  <2>2. Len(a \o c) + 1 = 9 /\ Len(a \o c) + Len(n) = 8 + l
    <3>1. Len(n) = l
          OBVIOUS
    <3> HIDE DEF l
    <3> QED
        BY <1>1, <1>11, <3>1
  <2> HIDE DEF l
  <2> QED
      BY <2>1, <2>2, Found
<1>15. b[8 + l + 1] = o.wrapper
  <2>1. \A i \in 1..Len(w) : b[Len((a \o c) \o n) + i] = w[i]
        BY <1>4, <1>11, <1>6, Middle DEF h
  <2>2. b[Len((a \o c) \o n) + 1] = w[1]
        BY <1>4, <2>1
  <2>3. Len((a \o c) \o n) = 8 + l
        BY <1>11
  <2> QED
      BY Zenon, <1>5, <2>2, <2>3
<1>16. b[8 + l + 2] = o.type
  <2>1. \A i \in 1..Len(t) : b[Len(h) + i] = t[i]
    <3>1. h \in Seq(Byte) /\ t \in Seq(Byte) /\ d \in Seq(Byte) /\ b = (h \o t) \o d
          BY Zenon, <1>1, <1>4, <1>11, <1>12
    <3> HIDE DEF h
    <3> QED
        BY <3>1, Middle
  <2>2. b[Len(h) + 1] = t[1]
        BY <1>4, <2>1
  <2>3. Len(h) + 1 = 8 + l + 2
    <3> HIDE DEF h, l
    <3> QED
        BY <1>1, <1>11
  <2> QED
      BY Zenon, <1>5, <2>2, <2>3
<1>17. SubSeq(b, 8 + l + 3, 8 + l + 2 + Len(d)) = d
  <2>1. h \o t \in Seq(Byte) /\ Len(h \o t) = Len(h) + Len(t)
        BY <1>4, <1>11, Joined
  <2>2. <<>> \in Seq(Byte)
        BY EmptySeq
  <2> HIDE DEF h, l
  <2>3. Len(h \o t) + 1 = 8 + l + 3 /\ Len(h \o t) + Len(d) = 8 + l + 2 + Len(d)
    <3>1. Len(d) \in Nat
          BY <1>1, LenProperties
    <3> QED
        BY <1>1, <1>4, <1>11, <2>1, <3>1
  <2>4. /\ h \o t \in Seq(Byte) /\ d \in Seq(Byte)
        /\ b = ((h \o t) \o d) \o <<>>
        BY Zenon, <1>1, <1>12, <2>1
  <2> QED
      BY <2>2, <2>3, <2>4, Found
<1>18. GetTypeSize(o.type) = Len(d)
  <2>1. DOMAIN SizeOf = 1..11
        BY DEF SizeOf
  <2> QED
      BY <1>7, <2>1 DEF GetTypeSize
<1> HIDE DEF h, l
<1>19. Deserialize(b) =
         [wrapper |-> o.wrapper, name |-> n, type |-> o.type, length |-> 0,
          size |-> o.size, data |-> d, members |-> NoMembers]
       BY <1>8, <1>9, <1>13, <1>14, <1>15, <1>16, <1>17, <1>18 DEF Deserialize
<1> QED
    BY <1>10, <1>19 DEF b

-----------------------------------------------------------------------------
(* The inductive invariant, from the initial state on.                     *)

\* What may be kept under an Id.
Sound(o) == o \in {Nothing, Moved} \/ (o \in Objects /\ Fits(o))

\* The part of the invariant about the objects, one Id at a time.
LEMMA SoundTable ==
  ASSUME NEW f
  PROVE  (/\ f \in [Ids -> Objects \cup {Nothing, Moved}]
          /\ \A o \in {f[id] : id \in Ids} \ {Nothing, Moved} : Fits(o))
         <=> (f = [id \in Ids |-> f[id]] /\ \A id \in Ids : Sound(f[id]))
<1>1. ASSUME f \in [Ids -> Objects \cup {Nothing, Moved}],
             \A o \in {f[id] : id \in Ids} \ {Nothing, Moved} : Fits(o)
      PROVE  f = [id \in Ids |-> f[id]] /\ \A id \in Ids : Sound(f[id])
  <2>1. f = [id \in Ids |-> f[id]]
        BY <1>1
  <2>2. ASSUME NEW id \in Ids PROVE Sound(f[id])
    <3>1. f[id] \in Objects \cup {Nothing, Moved}
          BY <1>1
    <3>2. CASE f[id] \in {Nothing, Moved}
          BY <3>2 DEF Sound
    <3>3. CASE f[id] \notin {Nothing, Moved}
      <4>1. Fits(f[id])
            BY <1>1, <3>3
      <4> QED
          BY <3>1, <3>3, <4>1 DEF Sound
    <3> QED
        BY <3>2, <3>3
  <2> QED
      BY <2>1, <2>2
<1>2. ASSUME f = [id \in Ids |-> f[id]], \A id \in Ids : Sound(f[id])
      PROVE  /\ f \in [Ids -> Objects \cup {Nothing, Moved}]
             /\ \A o \in {f[id] : id \in Ids} \ {Nothing, Moved} : Fits(o)
  <2>1. \A id \in Ids : f[id] \in Objects \cup {Nothing, Moved}
        BY <1>2 DEF Sound
  <2>2. f \in [Ids -> Objects \cup {Nothing, Moved}]
        BY <1>2, <2>1
  <2>3. ASSUME NEW o \in {f[id] : id \in Ids} \ {Nothing, Moved} PROVE Fits(o)
        BY <1>2 DEF Sound
  <2> QED
      BY <2>2, <2>3
<1> QED
    BY <1>1, <1>2

\* What the invariant says of the object under an Id.
LEMMA ObjectUnder ==
  ASSUME ObjectsInv, NEW id \in Ids
  PROVE  /\ Sound(objects[id])
         /\ objects[id].wrapper \in Wrappers => objects[id] \in Objects /\ Fits(objects[id])
<1>1. Sound(objects[id])
      BY Zenon, SoundTable DEF ObjectsInv, Live
<1>2. ASSUME objects[id].wrapper \in Wrappers
      PROVE  objects[id] # Nothing /\ objects[id] # Moved
      BY <1>2 DEF Nothing, Moved, Wrappers
<1> QED
    BY <1>1, <1>2 DEF Sound

\* The same of the objects after a step.
LEMMA SoundAfter ==
  ASSUME objects' = [x \in Ids |-> objects'[x]], \A x \in Ids : Sound(objects'[x])
  PROVE  ObjectsInv'
  BY Zenon, SoundTable DEF ObjectsInv, Live

\* One object more keeps the invariant.
LEMMA OneMore ==
  ASSUME SerializationInv, NEW id \in Ids, NEW o \in Objects, Fits(o),
         objects' = [objects EXCEPT ![id] = o], UNCHANGED <<files, source>>
  PROVE  SerializationInv'
<1>1. ObjectsInv'
  <2>1. objects \in [Ids -> Objects \cup {Nothing, Moved}]
        BY DEF SerializationInv, ObjectsInv
  <2>2. objects' = [x \in Ids |-> objects'[x]]
        BY <2>1
  <2>3. ASSUME NEW x \in Ids PROVE Sound(objects'[x])
    <3>1. CASE x = id
          BY <2>1, <3>1 DEF Sound
    <3>2. CASE x # id
      <4>1. objects'[x] = objects[x]
            BY <2>1, <3>2
      <4>2. Sound(objects[x])
            BY ObjectUnder DEF SerializationInv
      <4> QED
          BY <4>1, <4>2
    <3> QED
        BY <3>1, <3>2
  <2> QED
      BY <2>2, <2>3, SoundAfter
<1>2. FilesInv'
      BY DEF SerializationInv, FilesInv
<1> QED
    BY <1>1, <1>2 DEF SerializationInv

\* Nothing is created, and every file is empty.
LEMMA SerializationInit == Init => SerializationInv
<1> SUFFICES ASSUME Init PROVE SerializationInv
    OBVIOUS
<1>1. ObjectsInv
  <2>1. objects = [x \in Ids |-> objects[x]] /\ \A x \in Ids : Sound(objects[x])
        BY DEF Init, Sound
  <2> QED
      BY Zenon, <2>1, SoundTable DEF ObjectsInv, Live
<1>2. FilesInv
  <2>1. files \in [Names -> Seq(Byte)]
    <3>1. <<>> \in Seq(Byte)
          BY EmptySeq
    <3> QED
        BY <3>1 DEF Init
  <2>2. source \in [Names -> Objects \cup {Nothing}]
        BY DEF Init
  <2>3. \A name \in Names : source[name] = Nothing
        BY DEF Init
  <2> QED
      BY <2>1, <2>2, <2>3 DEF FilesInv
<1> QED
    BY <1>1, <1>2 DEF SerializationInv

\* AddObject: the struct has the object's bytes, and the object is gone.
LEMMA AddObjectKeeps ==
  ASSUME SerializationInv, NEW struct \in Ids, NEW id \in Ids, AddObject(struct, id)
  PROVE  SerializationInv'
<1> DEFINE s == objects[struct]
           o == objects[id]
           r == WithMember(s, o)
<1>1. /\ struct # id /\ s.wrapper = Struct /\ o.wrapper \in Wrappers
      /\ s.size + o.size <= MaxSize
      /\ objects' = [objects EXCEPT ![struct] = r, ![id] = Moved]
      BY DEF AddObject, GetSize
<1>2. ObjectsInv /\ objects \in [Ids -> Objects \cup {Nothing, Moved}]
      BY DEF SerializationInv, ObjectsInv
<1>3. s \in Objects /\ Fits(s) /\ o \in Objects /\ Fits(o)
  <2>1. s.wrapper \in Wrappers
        BY <1>1 DEF Struct, Wrappers
  <2> QED
      BY <1>1, <1>2, <2>1, ObjectUnder
<1> HIDE DEF s, o
<1>4. r \in Objects /\ Fits(r)
      BY <1>1, <1>3, MemberFits
<1> HIDE DEF r
<1>5. ObjectsInv'
  <2>1. objects' = [x \in Ids |-> objects'[x]]
        BY <1>1, <1>2
  <2>2. ASSUME NEW x \in Ids PROVE Sound(objects'[x])
    <3>1. CASE x = id
          BY <1>1, <1>2, <3>1 DEF Sound
    <3>2. CASE x = struct
          BY <1>1, <1>2, <1>4, <3>2 DEF Sound
    <3>3. CASE x # id /\ x # struct
      <4>1. objects'[x] = objects[x]
            BY <1>1, <1>2, <3>3
      <4> QED
          BY <1>2, <4>1, ObjectUnder
    <3> QED
        BY <3>1, <3>2, <3>3
  <2> QED
      BY <2>1, <2>2, SoundAfter
<1>6. FilesInv'
      BY DEF SerializationInv, FilesInv, AddObject
<1> QED
    BY <1>5, <1>6 DEF SerializationInv

\* SerializeNSave: the file named after the object holds what it serializes to.
LEMMA SaveKeeps ==
  ASSUME SerializationInv, NEW id \in Ids, SerializeNSave(id)
  PROVE  SerializationInv'
<1> DEFINE o == objects[id]
<1>1. ObjectsInv /\ FilesInv
      BY DEF SerializationInv
<1>2. o \in Objects /\ Fits(o)
      BY <1>1, ObjectUnder DEF SerializeNSave
<1>3. /\ files' = [files EXCEPT ![o.name] = Written(Serialize(o))]
      /\ source' = [source EXCEPT ![o.name] = o] /\ objects' = objects
      BY DEF SerializeNSave
<1> HIDE DEF o
<1>4. o.name \in Names /\ Written(Serialize(o)) \in Seq(Byte)
  <2>1. Serialize(o) \in Seq(Byte)
        BY <1>2, SerializedBytes
  <2> QED
      BY <1>2, <2>1, ObjectFields, WrittenBytes
<1>5. ObjectsInv'
      BY <1>1, <1>3 DEF ObjectsInv, Live
<1>6. FilesInv'
  <2>1. files \in [Names -> Seq(Byte)] /\ source \in [Names -> Objects \cup {Nothing}]
        BY <1>1 DEF FilesInv
  <2>2. files' \in [Names -> Seq(Byte)] /\ source' \in [Names -> Objects \cup {Nothing}]
        BY <1>2, <1>3, <1>4, <2>1
  <2>3. ASSUME NEW name \in Names, source'[name] # Nothing
        PROVE  /\ Fits(source'[name]) /\ source'[name].name = name
               /\ files'[name] = Written(Serialize(source'[name]))
    <3>1. CASE name = o.name
      <4>1. source'[name] = o /\ files'[name] = Written(Serialize(o))
            BY <1>3, <2>1, <3>1
      <4> QED
          BY <1>2, <3>1, <4>1
    <3>2. CASE name # o.name
      <4>1. source'[name] = source[name] /\ files'[name] = files[name]
            BY <1>3, <2>1, <3>2
      <4> QED
          BY <1>1, <2>3, <4>1 DEF FilesInv
    <3> QED
        BY <3>1, <3>2
  <2> QED
      BY <2>2, <2>3 DEF FilesInv
<1> QED
    BY <1>5, <1>6 DEF SerializationInv

\* What is read from the file of a primitive is the primitive.
LEMMA FileReadBack ==
  ASSUME FilesInv, NEW name \in Names, source[name].wrapper = Primitive,
         WrittenAsIs(source[name])
  PROVE  /\ Deserialize(files[name]) = source[name]
         /\ source[name] \in Objects /\ Fits(source[name])
<1>1. source[name] # Nothing
      BY DEF Nothing, Primitive
<1>2. source[name] \in Objects /\ Fits(source[name])
      BY <1>1 DEF FilesInv
<1>3. files[name] = Serialize(source[name])
      BY <1>1 DEF FilesInv, WrittenAsIs
<1> QED
    BY <1>2, <1>3, ReadBack

\* Load and deserialize: the object that was saved.
LEMMA LoadKeeps ==
  ASSUME SerializationInv, NEW id \in Ids, NEW name \in Names, LoadPrimitive(id, name)
  PROVE  SerializationInv'
<1>1. source[name].wrapper = Primitive /\ WrittenAsIs(source[name]) /\ FilesInv
      BY DEF LoadPrimitive, SerializationInv
<1>2. /\ Deserialize(files[name]) = source[name]
      /\ source[name] \in Objects /\ Fits(source[name])
      BY <1>1, FileReadBack
<1>3. objects' = [objects EXCEPT ![id] = source[name]] /\ UNCHANGED <<files, source>>
      BY <1>2 DEF LoadPrimitive
<1> QED
    BY <1>2, <1>3, OneMore

\* Every step keeps the invariant.
LEMMA SerializationNext == SerializationInv /\ [Next]_vars => SerializationInv'
<1> SUFFICES ASSUME SerializationInv, [Next]_vars PROVE SerializationInv'
    OBVIOUS
<1>1. ASSUME NEW id \in Ids, NEW o \in Objects, Fits(o), Create(id, o)
      PROVE  SerializationInv'
      BY <1>1, OneMore DEF Create
<1>2. ASSUME NEW id \in Ids, NEW name \in Names, CreatePrimitive(id, name)
      PROVE  SerializationInv'
  <2>1. PICK t \in Types : \E value \in Values[t] : Create(id, NewPrimitive(name, t, value))
        BY <1>2 DEF CreatePrimitive
  <2>2. PICK value \in Values[t] : Create(id, NewPrimitive(name, t, value))
        BY <2>1
  <2>3. NewPrimitive(name, t, value).size <= MaxSize
        BY <2>2 DEF Create
  <2>4. NewPrimitive(name, t, value) \in Objects /\ Fits(NewPrimitive(name, t, value))
        BY <2>3, PrimitiveFits
  <2> QED
      BY <1>1, <2>2, <2>4
<1>3. ASSUME NEW id \in Ids, NEW name \in Names, CreateArray(id, name)
      PROVE  SerializationInv'
  <2>1. PICK t \in Types, n \in 0..MaxLength :
          \E values \in [1..n -> Values[t]] : Create(id, NewArray(name, t, values))
        BY <1>3 DEF CreateArray
  <2>2. PICK values \in [1..n -> Values[t]] : Create(id, NewArray(name, t, values))
        BY <2>1
  <2>3. NewArray(name, t, values).size <= MaxSize
        BY <2>2 DEF Create
  <2>4. NewArray(name, t, values) \in Objects /\ Fits(NewArray(name, t, values))
        BY <2>3, ArrayFits
  <2> QED
      BY <1>1, <2>2, <2>4
<1>4. ASSUME NEW id \in Ids, NEW name \in Names, CreateString(id, name)
      PROVE  SerializationInv'
  <2>1. PICK t \in Types, chars \in Strings : Create(id, NewString(name, t, chars))
        BY <1>4 DEF CreateString
  <2>2. NewString(name, t, chars).size <= MaxSize
        BY <2>1 DEF Create
  <2>3. NewString(name, t, chars) \in Objects /\ Fits(NewString(name, t, chars))
        BY <2>2, StringFits
  <2> QED
      BY <1>1, <2>1, <2>3
<1>5. ASSUME NEW id \in Ids, NEW name \in Names, CreateStruct(id, name)
      PROVE  SerializationInv'
  <2>1. Create(id, NewStruct(name))
        BY <1>5 DEF CreateStruct
  <2>2. NewStruct(name).size <= MaxSize
        BY <2>1 DEF Create
  <2>3. NewStruct(name) \in Objects /\ Fits(NewStruct(name))
        BY <2>2, StructFits
  <2> QED
      BY <1>1, <2>1, <2>3
<1>6. CASE UNCHANGED vars
      BY <1>6 DEF vars, SerializationInv, ObjectsInv, FilesInv, Live
<1>7. CASE Next
      BY <1>2, <1>3, <1>4, <1>5, <1>7, LoadKeeps, AddObjectKeeps, SaveKeeps DEF Next
<1> QED
    BY <1>6, <1>7

-----------------------------------------------------------------------------
(* The theorems.                                                           *)

\* Every object fits its buffer, and every file holds what was saved to it last.
THEOREM SerializationInvariant == Spec => []SerializationInv
<1>1. Init => SerializationInv
      BY SerializationInit
<1>2. SerializationInv /\ [Next]_vars => SerializationInv'
      BY SerializationNext
<1> QED
    BY <1>1, <1>2, PTL DEF Spec

\* Objects have one of the four wrappers, a name and bytes of data; files hold
\* bytes.
THEOREM SerializationTypeCorrect == Spec => []TypeOK
<1>1. ASSUME SerializationInv PROVE TypeOK
  <2>1. \A object \in Live : object \in Objects
        BY <1>1 DEF SerializationInv, ObjectsInv, Live
  <2>2. ASSUME NEW object \in Live
        PROVE  /\ object.wrapper \in Wrappers /\ object.name \in Names
               /\ object.data \in Seq(Byte) /\ DOMAIN object.members = Wrappers
    <3>1. /\ object.wrapper \in Wrappers /\ object.name \in Names
          /\ object.data \in Seq(Byte) /\ object.members \in [Wrappers -> Seq(Seq(Byte))]
          BY <2>1, ObjectFields
    <3> QED
        BY <3>1
  <2>3. files \in [Names -> Seq(Byte)]
        BY <1>1 DEF SerializationInv, FilesInv
  <2> QED
      BY <2>2, <2>3 DEF TypeOK
<1> QED
    BY <1>1, SerializationInvariant, PTL

\* The size an object keeps is the number of bytes serialize writes, whatever
\* was moved into it: the buffer SerializeNSave allocates is never overrun.
THEOREM BufferIsFilled == Spec => []BufferFilled
<1>1. ASSUME SerializationInv PROVE BufferFilled
      BY <1>1 DEF SerializationInv, ObjectsInv, BufferFilled, Fits
<1> QED
    BY <1>1, SerializationInvariant, PTL

\* Primitive::deserialize gives back the primitive that was saved last, if the
\* text stream wrote its bytes as they were.
THEOREM LoadedIsSaved == Spec => []LoadedAsSaved
<1>1. ASSUME SerializationInv PROVE LoadedAsSaved
      BY <1>1, FileReadBack DEF SerializationInv, LoadedAsSaved
<1> QED
    BY <1>1, SerializationInvariant, PTL

=============================================================================
