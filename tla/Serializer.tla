--------------------------------- MODULE Serializer ---------------------------------
(***************************************************************************)
(* What Serializer (util/serializer.h) writes for a value of a type, and   *)
(* what it reads for it. Numbers have the width of their type, highest     *)
(* byte first; strings and containers have their size in front, a uint64.  *)
(*                                                                         *)
(* A std::string is written through the one overload that takes            *)
(* std::string&. A string that is an element of a container or of a tuple  *)
(* is const when it is written: the template write(const T&) takes it,     *)
(* which has no case for strings and writes nothing.                       *)
(*                                                                         *)
(* Lists and sets are written and read as vectors are, and all maps like   *)
(* each other: the elements are in the order the container has them.       *)
(* Floating point numbers, whose bytes are copied as they are, are left    *)
(* out, and so are containers of containers.                               *)
(***************************************************************************)
EXTENDS Integers, Sequences, SequencesExt

sizeof == [bool |-> 1, int8 |-> 1, uint8 |-> 1, int16 |-> 2, uint16 |-> 2,
           int32 |-> 4, uint32 |-> 4, int64 |-> 8, uint64 |-> 8]

Scalar == DOMAIN sizeof
Signed == {"bool", "int8", "int16", "int32", "int64"}

\* A type is a record: a scalar or a string, a vector, a map.
Num(name) == [kind |-> name]
Str == [kind |-> "string"]
VectorOf(type) == [kind |-> "vector", of |-> type]
MapOf(key, type) == [kind |-> "map", key |-> key, of |-> type]

IsScalar(type) == type.kind \in Scalar

\* What an element of a container and a pair are made of.
ElementType == {Num(name) : name \in Scalar} \cup {Str}

Type ==
    ElementType \cup {VectorOf(type) : type \in ElementType}
        \cup {MapOf(key, type) : key, type \in ElementType}

-----------------------------------------------------------------------------
(* Buffer: writeInt8 to writeUint64, readInt8 to readUint64.               *)

Byte == 0..255

\* v, and what is left of it when its lowest byte is dropped again and again.
Shifts(v, n) ==
    LET rest[k \in 0..n] == IF k = 0 THEN v ELSE rest[k - 1] \div 256
    IN  rest

\* The n bytes of v in two's complement.
Bytes(v, n) ==
    LET rest == Shifts(v, n) IN [k \in 1..n |-> rest[n - k] % 256]

\* The numbers of a type: of the width of the type, with a sign or without.
\* 0 and 1, which a bool has, are among those of its byte.
Fits(name, v) ==
    LET top == Shifts(v, sizeof[name] - 1)[sizeof[name] - 1]
    IN  top \in IF name \in Signed THEN -128..127 ELSE Byte

ElementValues(type) ==
    IF IsScalar(type) THEN {v \in Int : Fits(type.kind, v)} ELSE Seq(Byte)

\* The elements of a set and the pairs of a map are in the order they are written in.
ValuesOf(type) ==
    CASE type.kind = "vector" -> Seq(ElementValues(type.of))
      [] type.kind = "map" -> Seq(ElementValues(type.key) \X ElementValues(type.of))
      [] OTHER -> ElementValues(type)

\* Wrong: the sign is lost.
ValueUnsigned(bytes, signed) ==
    LET upTo[k \in 1..Len(bytes)] ==
            IF k = 1 THEN bytes[1] ELSE upTo[k - 1] * 256 + bytes[k]
    IN  upTo[Len(bytes)]

Value(bytes, signed) ==
    LET lead == IF signed /\ bytes[1] >= 128 THEN bytes[1] - 256 ELSE bytes[1]
        upTo[k \in 1..Len(bytes)] == IF k = 1 THEN lead ELSE upTo[k - 1] * 256 + bytes[k]
    IN  upTo[Len(bytes)]

-----------------------------------------------------------------------------
(* operator<<                                                              *)

WriteNum(name, v) == Bytes(v, sizeof[name])

Size(n) == WriteNum("uint64", n)

\* std::string&
WriteStr(chars) == Size(Len(chars)) \o chars

\* An element of a container: a scalar or a const string.
WriteElement(type, v) == IF IsScalar(type) THEN WriteNum(type.kind, v) ELSE <<>>

WritePair(type, p) == WriteElement(type.key, p[1]) \o WriteElement(type.of, p[2])

\* An element of a tuple, const as well. A map is the sequence of its pairs.
WriteConst(type, v) ==
    CASE type.kind = "vector" ->
           Size(Len(v)) \o FlattenSeq([k \in 1..Len(v) |-> WriteElement(type.of, v[k])])
      [] type.kind = "map" ->
           Size(Len(v)) \o FlattenSeq([k \in 1..Len(v) |-> WritePair(type, v[k])])
      [] OTHER -> WriteElement(type, v)

\* A variable: a string takes the overload for std::string&.
Write(type, v) == IF type.kind = "string" THEN WriteStr(v) ELSE WriteConst(type, v)

\* TupleSerializer::serialize
WriteTuple(types, values) ==
    FlattenSeq([k \in 1..Len(types) |-> WriteConst(types[k], values[k])])

-----------------------------------------------------------------------------
(* operator>>. What is read: the value, where the buffer stands then, and  *)
(* whether checkRead let it happen.                                        *)

Got(v, position) == [ok |-> TRUE, val |-> v, pos |-> position]
Thrown == [ok |-> FALSE, val |-> 0, pos |-> 0]

\* checkRead
Has(data, pos, len) == pos + len <= Len(data)

ReadNum(name, data, pos) ==
    IF Has(data, pos, sizeof[name])
    THEN Got(Value(SubSeq(data, pos + 1, pos + sizeof[name]), name \in Signed),
             pos + sizeof[name])
    ELSE Thrown

\* Bound: of the sizes that are written.
SizeBound == 256 * 256 * 256

\* A size that is larger than the buffer is read as one that is just too large. Either
\* throws, but for elements that are strings: reading those takes nothing, and there are
\* fewer of them here.
ReadSize(data, pos) ==
    IF ~Has(data, pos, 8) THEN Thrown
    ELSE IF \E k \in 1..5 : data[pos + k] # 0 THEN Got(Len(data) + 1, pos + 8)
    ELSE ReadNum("uint64", data, pos)

ReadStr(data, pos) ==
    LET size == ReadSize(data, pos) IN
    IF size.ok /\ Has(data, size.pos, size.val)
    THEN Got(SubSeq(data, size.pos + 1, size.pos + size.val), size.pos + size.val)
    ELSE Thrown

\* read(t) has no case for strings either: the string stays empty.
ReadElement(type, data, pos) ==
    IF IsScalar(type) THEN ReadNum(type.kind, data, pos) ELSE Got(<<>>, pos)

\* Neither element of a pair is const when it is read.
ReadMember(type, data, pos) ==
    IF IsScalar(type) THEN ReadNum(type.kind, data, pos) ELSE ReadStr(data, pos)

ReadPair(type, data, pos) ==
    LET first == ReadMember(type.key, data, pos)
        second == ReadMember(type.of, data, first.pos)
    IN  IF first.ok /\ second.ok THEN Got(<<first.val, second.val>>, second.pos) ELSE Thrown

\* One value behind another, if both are there.
Behind(before, next) ==
    IF before.ok /\ next.ok THEN Got(Append(before.val, next.val), next.pos) ELSE Thrown

ReadContainer(type, data, pos) ==
    LET size == ReadSize(data, pos)
        One(p) == IF type.kind = "map" THEN ReadPair(type, data, p)
                  ELSE ReadElement(type.of, data, p)
        upTo[k \in 0..size.val] ==
            IF k = 0 THEN Got(<<>>, size.pos) ELSE Behind(upTo[k - 1], One(upTo[k - 1].pos))
    IN  IF size.ok THEN upTo[size.val] ELSE Thrown

Read(type, data, pos) ==
    IF type.kind \in {"vector", "map"} THEN ReadContainer(type, data, pos)
    ELSE ReadMember(type, data, pos)

\* TupleSerializer::deserialize
ReadTuple(types, data, pos) ==
    LET upTo[k \in 0..Len(types)] ==
            IF k = 0 THEN Got(<<>>, pos)
            ELSE Behind(upTo[k - 1], Read(types[k], data, upTo[k - 1].pos))
    IN  upTo[Len(types)]

=============================================================================
