----------------------------- MODULE Serialization -----------------------------
(***************************************************************************)
(* serialization/: objects that keep their own serialized size, written to *)
(* a buffer of that size and from there to a file.  A Primitive can be     *)
(* read back.  A program creates objects, moves them into structs with     *)
(* AddObject, saves them and loads primitives, as src/main.cpp does.       *)
(*                                                                         *)
(* Nothing reads or changes an object once it is in a struct, so a struct  *)
(* keeps of its members what they serialize to.                            *)
(*                                                                         *)
(* Integers are written most significant byte first, in two's complement;  *)
(* only values of 32 bits occur.  A float is the integer its bits spell,   *)
(* as encode<float> takes it.  The program never decodes a value, and the  *)
(* decode<float> and decode<double> nobody calls are left out.             *)
(***************************************************************************)
EXTENDS Integers, Sequences, SequencesExt

CONSTANTS
  Ids,        \* bound: the objects the program creates
  Names,      \* names of objects
  Types,      \* the values of Core::Type in use
  Values,     \* Values[t]: what a Primitive or an element of type t holds
  MaxLength,  \* bound: elements of an Array
  Strings,    \* what a String holds
  Newline,    \* the bytes the text stream of Save writes for a byte 10
  MaxSize     \* bound: no object serializes to more bytes

MaxInt32 == 2147483647
Int32 == (-MaxInt32 - 1)..MaxInt32
Byte  == 0..255

ASSUME StringsAssumption ==
  Names \subseteq Seq(Byte) /\ Strings \subseteq Seq(Byte) /\ Newline \in Seq(Byte)
ASSUME ValuesAssumption ==
  Types \subseteq 1..11 /\ \A t \in Types : Values[t] \subseteq Int32
ASSUME BoundsAssumption == MaxLength \in Nat /\ MaxSize \in 0..MaxInt32

VARIABLES
  objects,    \* objects[id]: Nothing, the object, or Moved (into a struct)
  files,      \* files[name]: the bytes of its file
  source      \* source[name]: the object last saved to it, or Nothing (history)

vars == <<objects, files, source>>

\* Core::Wrapper
Primitive == 1
Array     == 2
String    == 3
Struct    == 4
Wrappers  == 1..4

\* sizeof of the type a value of Core::Type t is held in, and of size_t
SizeOf == [t \in 1..11 |-> CASE t \in {1, 5, 9} -> 1 [] t \in {2, 6} -> 2
                             [] t \in {3, 7, 10} -> 4 [] OTHER -> 8]
SizeT == 8

Nothing == [wrapper |-> 0]
Moved   == [wrapper |-> -1]

\* n >> (8 * bytes): rounded down, so that a negative n ends as -1
Weight == <<1, 256, 256 * 256, 256 * 256 * 256>>
Shifted(n, bytes) ==
  IF bytes > 3 THEN (IF n < 0 THEN -1 ELSE 0) ELSE n \div Weight[bytes + 1]

-----------------------------------------------------------------------------
(* Variants of the operations below with one mistake each.                 *)

\* Bytes are not cut to eight bits
EncodeWide(n, w) == [i \in 1..w |-> Shifted(n, w - i)]

\* GetSize of a struct is the number of its members
SizeOfMembers(object) ==
  IF object.wrapper = Struct THEN Len(object.members[Primitive]) ELSE object.size

\* The types of eight bytes are taken for types of four
TypeSizeShort(t) == IF SizeOf[t] = 8 THEN 4 ELSE SizeOf[t]

-----------------------------------------------------------------------------
(* Core: encoding and decoding.                                            *)

Encode(n, w) == [i \in 1..w |-> Shifted(n, w - i) % 256]
Decode(bytes) ==
  LET high[i \in 0..Len(bytes)] ==
        IF i = 0 THEN 0 ELSE 256 * high[i - 1] + bytes[i]
  IN  high[Len(bytes)]

EncodeAll(values, w) ==
  FlattenSeq([i \in DOMAIN values |-> Encode(values[i], w)])

GetTypeSize(t) == IF t \in DOMAIN SizeOf THEN SizeOf[t] ELSE 0

-----------------------------------------------------------------------------
(* Creating objects.  Each constructor adds what it serializes to size_.    *)

NoMembers == [w \in Wrappers |-> <<>>]
ObjectSize(name) == Len(name) + 4 + 1 + 4

\* The type that is passed is that of the template's argument, as in every call of
\* main.cpp; the code does not compare the two
NewPrimitive(name, t, value) ==
  [wrapper |-> Primitive, name |-> name, type |-> t, length |-> 0,
   size |-> ObjectSize(name) + 1 + SizeOf[t],
   data |-> Encode(value, SizeOf[t]), members |-> NoMembers]

NewArray(name, t, values) ==
  [wrapper |-> Array, name |-> name, type |-> t, length |-> Len(values),
   size |-> ObjectSize(name) + 1 + 4 + SizeOf[t] * Len(values),
   data |-> EncodeAll(values, SizeOf[t]), members |-> NoMembers]

NewString(name, t, chars) ==
  [wrapper |-> String, name |-> name, type |-> t, length |-> Len(chars),
   size |-> ObjectSize(name) + 1 + 4 + Len(chars),
   data |-> chars, members |-> NoMembers]

NewStruct(name) ==
  [wrapper |-> Struct, name |-> name, type |-> 0, length |-> 0,
   size |-> ObjectSize(name) + 4 * SizeT,
   data |-> <<>>, members |-> NoMembers]

GetSize(object) == object.size

-----------------------------------------------------------------------------
(* Serializing and deserializing.                                          *)

Header(object) ==
  Encode(object.size, 4) \o Encode(Len(object.name), 4) \o object.name
    \o <<object.wrapper>>

Entities(members) == Encode(Len(members), SizeT) \o FlattenSeq(members)

Serialize(object) ==
  Header(object) \o
  CASE object.wrapper = Primitive -> <<object.type>> \o object.data
    [] object.wrapper \in {Array, String} ->
         <<object.type>> \o Encode(object.length, 4) \o object.data
    [] object.wrapper = Struct ->
         Entities(object.members[Primitive]) \o Entities(object.members[Array])
           \o Entities(object.members[String]) \o Entities(object.members[Struct])

\* Struct::AddObject
WithMember(struct, object) ==
  [struct EXCEPT !.size = @ + GetSize(object),
                 !.members[object.wrapper] = Append(@, Serialize(object))]

\* Primitive::deserialize
Deserialize(buffer) ==
  LET nameLength == Decode(SubSeq(buffer, 5, 8))
      at == 8 + nameLength
      type == buffer[at + 2]
  IN  [wrapper |-> buffer[at + 1], name |-> SubSeq(buffer, 9, at),
       type |-> type, length |-> 0, size |-> Decode(SubSeq(buffer, 1, 4)),
       data |-> SubSeq(buffer, at + 3, at + 2 + GetTypeSize(type)),
       members |-> NoMembers]

\* Core::Save writes to a stream in text mode, Core::Load reads in binary mode
Written(bytes) ==
  FlattenSeq([i \in DOMAIN bytes |-> IF bytes[i] = 10 THEN Newline ELSE <<bytes[i]>>])

\* The file of the object is what was serialized
WrittenAsIs(object) == Written(Serialize(object)) = Serialize(object)

-----------------------------------------------------------------------------
Init ==
  /\ objects = [id \in Ids |-> Nothing]
  /\ files = [name \in Names |-> <<>>]
  /\ source = [name \in Names |-> Nothing]

Create(id, object) ==
  /\ objects[id] = Nothing /\ object.size <= MaxSize
  /\ objects' = [objects EXCEPT ![id] = object]
  /\ UNCHANGED <<files, source>>

CreatePrimitive(id, name) ==
  \E t \in Types : \E value \in Values[t] : Create(id, NewPrimitive(name, t, value))
CreateArray(id, name) ==
  \E t \in Types, n \in 0..MaxLength : \E values \in [1..n -> Values[t]] :
    Create(id, NewArray(name, t, values))
CreateString(id, name) ==
  \E t \in Types, chars \in Strings : Create(id, NewString(name, t, chars))
CreateStruct(id, name) == Create(id, NewStruct(name))

\* The object is moved into the struct; what is left has no definite size, and
\* the program does not use it again
AddObject(struct, id) ==
  /\ struct # id /\ objects[struct].wrapper = Struct
  /\ objects[id].wrapper \in Wrappers
  /\ objects[struct].size + GetSize(objects[id]) <= MaxSize
  /\ objects' = [objects EXCEPT ![struct] = WithMember(@, objects[id]),
                                ![id] = Moved]
  /\ UNCHANGED <<files, source>>

\* Core::SerializeNSave; the file is named after the object
SerializeNSave(id) ==
  /\ objects[id].wrapper \in Wrappers
  /\ files' = [files EXCEPT ![objects[id].name] = Written(Serialize(objects[id]))]
  /\ source' = [source EXCEPT ![objects[id].name] = objects[id]]
  /\ UNCHANGED objects

\* Core::Load and Primitive::deserialize of a file that holds a primitive.  Three
\* kinds of loads are left out: of a file that was changed in writing, which gives
\* other data or runs past the end of the buffer, depending on where the byte is;
\* of a file that is not there, where the buffer is empty and is read past its end;
\* and by a program that does not run in a directory named build: it saves to the
\* directory it runs in and loads from ../build, so it finds no file or another one.
LoadPrimitive(id, name) ==
  /\ objects[id] = Nothing
  /\ source[name].wrapper = Primitive /\ WrittenAsIs(source[name])
  /\ objects' = [objects EXCEPT ![id] = Deserialize(files[name])]
  /\ UNCHANGED <<files, source>>

Next ==
  \E id \in Ids :
    \/ \E name \in Names :
         \/ CreatePrimitive(id, name) \/ CreateArray(id, name)
         \/ CreateString(id, name) \/ CreateStruct(id, name)
         \/ LoadPrimitive(id, name)
    \/ \E struct \in Ids : AddObject(struct, id)
    \/ SerializeNSave(id)

Spec == Init /\ [][Next]_vars

-----------------------------------------------------------------------------
Live == {objects[id] : id \in Ids} \ {Nothing, Moved}

TypeOK ==
  /\ \A object \in Live :
       /\ object.wrapper \in Wrappers /\ object.name \in Names
       /\ object.data \in Seq(Byte)
       /\ DOMAIN object.members = Wrappers
  /\ files \in [Names -> Seq(Byte)]

\* The size an object keeps, added up by its constructors and by every
\* AddObject, is the number of bytes it serializes to: SerializeNSave allocates
\* that many and writes without a check.
BufferFilled == \A object \in Live : Len(Serialize(object)) = object.size

\* A primitive read from a file is the one last saved under that name, unless
\* the text stream changed its bytes: name length and data size, which the
\* reader takes from the file, are found where they were written.
LoadedAsSaved ==
  \A name \in Names :
    source[name].wrapper = Primitive /\ WrittenAsIs(source[name])
      => Deserialize(files[name]) = source[name]

-----------------------------------------------------------------------------
(* The inductive invariant.                                                *)

Objects ==
  [wrapper : Wrappers, name : Names, type : 0..11, length : Nat,
   size : 0..MaxSize, data : Seq(Byte), members : [Wrappers -> Seq(Seq(Byte))]]

\* The object fits its buffer, and one that is read back has nothing but what
\* the reader sets
Fits(object) ==
  /\ Len(Serialize(object)) = object.size
  /\ object.wrapper = Primitive =>
       /\ object.type \in Types /\ Len(object.data) = SizeOf[object.type]
       /\ object.length = 0 /\ object.members = NoMembers

ObjectsInv ==
  /\ objects \in [Ids -> Objects \cup {Nothing, Moved}]
  /\ \A object \in Live : Fits(object)

\* A file holds what was written to it last
FilesInv ==
  /\ files \in [Names -> Seq(Byte)]
  /\ source \in [Names -> Objects \cup {Nothing}]
  /\ \A name \in Names : source[name] # Nothing =>
       /\ Fits(source[name]) /\ source[name].name = name
       /\ files[name] = Written(Serialize(source[name]))

SerializationInv == ObjectsInv /\ FilesInv

=============================================================================
