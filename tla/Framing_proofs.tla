------------------------------- MODULE Framing_proofs -------------------------------
(***************************************************************************)
(* A connection keeps the messages apart, for all messages, any number of  *)
(* them and every way recv cuts the stream.                                *)
(*                                                                         *)
(* IInv says where every byte is (Held): behind those of the messages that *)
(* were read, the stream of all that were sent has what is received of the *)
(* next one, then what is on its way, and then what was lost. So what is   *)
(* received agrees with the next message as far as it goes, its size is    *)
(* read as it was written, and the receiver waits for exactly the rest of  *)
(* it (Receiving). A part is left short only where the stream has ended    *)
(* within a message, and then bytes were lost (HeldDrained).               *)
(***************************************************************************)
EXTENDS Framing, Serializer_proofs

(* Contents.                                                               *)

\* What the arguments of a call are written as.
Pieces(m) == [k \in 1..Len(m.types) |-> WriteConst(m.types[k], m.values[k])]

\* The content of a request: the name with its size, and the arguments behind each other.
LEMMA RequestWritten ==
    ASSUME NEW m \in Requests
    PROVE  /\ m.name \in Seq(Byte) /\ m.types \in Seq(Type)
           /\ Pieces(m) \in Seq(Seq(Byte)) /\ Len(Pieces(m)) = Len(m.types)
           /\ FlattenSeq(Pieces(m)) \in Seq(Byte)
           /\ RequestContent(m) = WriteStr(m.name) \o FlattenSeq(Pieces(m))
           /\ WriteStr(m.name) \in Seq(Byte)
           /\ Len(WriteStr(m.name)) = 8 + Len(m.name)
           /\ RequestContent(m) \in Seq(Byte)
           /\ Len(RequestContent(m)) = 8 + Len(m.name) + Len(FlattenSeq(Pieces(m)))
           /\ Len(RequestContent(m)) < SizeBound
<1>1. /\ m.name \in Seq(Byte) /\ m.types \in Seq(Type)
      /\ \A k \in 1..Len(m.types) : m.values[k] \in ValuesOf(m.types[k])
      /\ Len(RequestContent(m)) < SizeBound
  BY MessageAssumption DEF IsMessage
<1>2. Len(m.types) \in Nat /\ \A k \in 1..Len(m.types) : m.types[k] \in Type
  BY <1>1
<1>3. \A k \in 1..Len(m.types) : WriteConst(m.types[k], m.values[k]) \in Seq(Byte)
  BY <1>1, <1>2, ConstWritten
<1>4. Pieces(m) \in Seq(Seq(Byte)) /\ Len(Pieces(m)) = Len(m.types)
  <2>1. Pieces(m) \in [1..Len(m.types) -> Seq(Byte)]
    BY <1>3 DEF Pieces
  <2> QED BY <1>2, <2>1
<1> DEFINE f == FlattenSeq(Pieces(m))
           a == Size(Len(m.name))
           b == m.name
<1>5. f \in Seq(Byte)
  BY <1>4, FlattenPlaces
<1>6. RequestContent(m) = WriteStr(m.name) \o f
  BY DEF RequestContent, WriteTuple, Pieces
<1>7. a \in Seq(Byte) /\ Len(a) = 8 /\ b \in Seq(Byte)
  <2>1. Len(m.name) \in Int
    BY <1>1
  <2> QED BY <1>1, <2>1, SizeBytes
<1>8. WriteStr(m.name) = a \o b
  BY DEF WriteStr
<1> HIDE DEF f, a
<1>9. WriteStr(m.name) \in Seq(Byte) /\ Len(WriteStr(m.name)) = 8 + Len(m.name)
  <2>1. a \o b \in Seq(Byte) /\ Len(a \o b) = Len(a) + Len(b)
    BY <1>7, ConcatProperties
  <2> QED BY <1>7, <1>8, <2>1
<1>10. RequestContent(m) \in Seq(Byte)
       /\ Len(RequestContent(m)) = 8 + Len(m.name) + Len(f)
  <2>1. /\ WriteStr(m.name) \o f \in Seq(Byte)
        /\ Len(WriteStr(m.name) \o f) = Len(WriteStr(m.name)) + Len(f)
    BY <1>5, <1>9, ConcatProperties
  <2> QED BY <1>6, <1>9, <2>1
<1> QED BY <1>1, <1>4, <1>5, <1>6, <1>9, <1>10 DEF f

\* A call whose values are kept is read as what it was, or, where it ends before, as
\* nothing.
LEMMA RequestFound ==
    ASSUME NEW m \in Requests, \A k \in 1..Len(m.types) : Kept(m.types[k]),
           NEW buf \in Seq(Byte), NEW p \in Nat, Agrees(buf, p, RequestContent(m)),
           NEW name, name = ReadStr(buf, p)
    PROVE  (IF name.ok THEN ReadTuple(m.types, buf, name.pos) ELSE Thrown)
             = Found(buf, p, Len(RequestContent(m)), m.values)
<1> DEFINE s == Pieces(m)
           n == 8 + Len(m.name)
<1>1. /\ m.name \in Seq(Byte) /\ m.types \in Seq(Type)
      /\ s \in Seq(Seq(Byte)) /\ Len(s) = Len(m.types)
      /\ FlattenSeq(s) \in Seq(Byte)
      /\ RequestContent(m) = WriteStr(m.name) \o FlattenSeq(s)
      /\ WriteStr(m.name) \in Seq(Byte)
      /\ Len(WriteStr(m.name)) = n
      /\ Len(RequestContent(m)) = n + Len(FlattenSeq(s))
      /\ Len(RequestContent(m)) < SizeBound
  BY RequestWritten
<1>2. /\ m.values = [k \in 1..Len(m.types) |-> m.values[k]]
      /\ \A k \in 1..Len(m.types) : m.values[k] \in ValuesOf(m.types[k])
  BY MessageAssumption DEF IsMessage
<1>3. /\ Len(m.types) \in Nat /\ \A k \in 1..Len(m.types) : m.types[k] \in Type
      /\ Len(m.name) \in Nat /\ Len(FlattenSeq(s)) \in Nat /\ Len(buf) \in Nat
  <2>1. m.types \in Seq(Type) /\ m.name \in Seq(Byte) /\ FlattenSeq(s) \in Seq(Byte)
    BY <1>1
  <2> HIDE DEF s
  <2>2. Len(m.types) \in Nat /\ \A k \in 1..Len(m.types) : m.types[k] \in Type
    BY <2>1
  <2>3. Len(m.name) \in Nat /\ Len(FlattenSeq(s)) \in Nat /\ Len(buf) \in Nat
    BY <2>1
  <2> QED BY <2>2, <2>3
<1>4. Agrees(buf, p, WriteStr(m.name)) /\ Agrees(buf, p + n, FlattenSeq(s))
  <2>1. Agrees(buf, p, WriteStr(m.name)) /\ Agrees(buf, p + Len(WriteStr(m.name)), FlattenSeq(s))
    <3> HIDE DEF s
    <3> QED BY <1>1, AgreesConcat
  <2> QED BY <1>1, <2>1
<1>5. Len(m.name) < SizeBound
  BY <1>1, <1>3 DEF SizeBound
<1>6. name = Found(buf, p, n, m.name)
  BY <1>1, <1>4, <1>5, StrFound
<1>7. \E V : m.values \in Seq(V)
  <2> DEFINE V == {m.values[k] : k \in 1..Len(m.types)}
  <2>1. m.values \in [1..Len(m.types) -> V]
    BY <1>2
  <2> HIDE DEF V
  <2>2. m.values \in Seq(V)
    <3> DEFINE u == m.values
               l == Len(m.types)
    <3>1. u \in [1..l -> V] /\ l \in Nat
      BY <1>3, <2>1
    <3> HIDE DEF u, l
    <3>2. u \in Seq(V)
      BY <3>1, SeqDef
    <3> QED BY <3>2 DEF u
  <2> QED BY <2>2
<1>8. Len(m.values) = Len(m.types)
  BY <1>2, <1>3
<1>9. ValuesFound(m.types, m.values, s, buf)
  <2>1. ASSUME NEW k \in 1..Len(m.values), NEW q \in Nat, Agrees(buf, q, s[k])
        PROVE  Found(buf, q, Len(s[k]), m.values[k]) = Read(m.types[k], buf, q)
    <3> DEFINE type == m.types[k]
               v == m.values[k]
    <3>1. k \in 1..Len(m.types) /\ k \in 1..Len(s)
      BY <1>1, <1>8
    <3>2. type \in Type /\ Kept(type) /\ v \in ValuesOf(type)
      BY <1>2, <1>3, <3>1
    <3>3. s[k] = WriteConst(type, v)
      BY <3>1 DEF Pieces
    <3>4. Len(s[k]) <= Len(FlattenSeq(s))
      <4> HIDE DEF s
      <4> QED BY <1>1, <3>1, PieceLength
    <3>5. Len(s[k]) \in Nat
      <4> HIDE DEF s
      <4> QED BY <1>1, <3>1
    <3>6. Len(WriteConst(type, v)) < SizeBound
      <4> HIDE DEF s, type, v
      <4> QED BY <1>1, <1>3, <3>3, <3>4, <3>5 DEF SizeBound
    <3>7. Agrees(buf, q, WriteConst(type, v))
      BY <2>1, <3>3
    <3> HIDE DEF s, type, v
    <3>8. Read(type, buf, q) = Found(buf, q, Len(WriteConst(type, v)), v)
      BY <3>2, <3>6, <3>7, ConstFound
    <3>9. Found(buf, q, Len(s[k]), v) = Read(type, buf, q)
      BY <3>3, <3>8
    <3> QED BY <3>9 DEF type, v
  <2> HIDE DEF s
  <2> QED BY <1>1, <1>8, <2>1 DEF ValuesFound
<1> HIDE DEF s
<1>10. CASE p + n <= Len(buf)
  <2>1. name = Got(m.name, p + n)
    BY <1>6, <1>10 DEF Found
  <2>2. name.ok = TRUE /\ name.pos = p + n
    BY <2>1 DEF Got
  <2>3. p + n \in Nat
    BY <1>3
  <2>4. ReadTuple(m.types, buf, p + n) = Found(buf, p + n, Len(FlattenSeq(s)), m.values)
    <3> HIDE DEF n
    <3> QED BY <1>1, <1>4, <1>7, <1>9, <1>10, <2>3, TupleFound
  <2>5. Found(buf, p + n, Len(FlattenSeq(s)), m.values)
          = Found(buf, p, Len(RequestContent(m)), m.values)
    <3>1. p + n + Len(FlattenSeq(s)) = p + Len(RequestContent(m))
      BY <1>1, <1>3
    <3> QED BY <3>1 DEF Found
  <2> QED BY <2>2, <2>4, <2>5
<1>11. CASE ~(p + n <= Len(buf))
  <2>1. name = Thrown
    BY <1>6, <1>11 DEF Found
  <2>2. name.ok = FALSE
    BY <2>1 DEF Thrown
  <2>3. ~(p + Len(RequestContent(m)) <= Len(buf))
    BY <1>1, <1>3, <1>11
  <2> QED BY <2>2, <2>3 DEF Found
<1> QED BY <1>10, <1>11

\* The content of an answer is its one value.
LEMMA AnswerWritten ==
    ASSUME NEW m \in Answers
    PROVE  /\ m.types \in Seq(Type) /\ Len(m.types) = 1
           /\ m.types[1] \in Type /\ m.values[1] \in ValuesOf(m.types[1])
           /\ m.values = <<m.values[1]>>
           /\ AnswerContent(m) \in Seq(Byte)
           /\ Len(AnswerContent(m)) < SizeBound
<1>1. /\ m.types \in Seq(Type) /\ Len(m.types) = 1
      /\ m.values = [k \in 1..Len(m.types) |-> m.values[k]]
      /\ \A k \in 1..Len(m.types) : m.values[k] \in ValuesOf(m.types[k])
      /\ Len(AnswerContent(m)) < SizeBound
  BY MessageAssumption DEF IsMessage
<1>2. m.types[1] \in Type /\ m.values[1] \in ValuesOf(m.types[1])
  BY <1>1
<1>3. m.values = <<m.values[1]>>
  <2>1. m.values = [k \in 1..1 |-> m.values[k]]
    BY <1>1
  <2> QED BY <2>1
<1>4. AnswerContent(m) \in Seq(Byte)
  <2>1. CASE m.types[1].kind = "string"
    <3>1. m.values[1] \in Seq(Byte)
      BY <1>2, <2>1, TypeCases DEF ValuesOf, ElementValues
    <3>2. Size(Len(m.values[1])) \in Seq(Byte)
      <4>1. Len(m.values[1]) \in Int
        BY <3>1
      <4> QED BY <4>1, SizeBytes
    <3> QED BY <2>1, <3>1, <3>2, ConcatProperties DEF AnswerContent, Write, WriteStr
  <2>2. CASE m.types[1].kind # "string"
    <3>1. WriteConst(m.types[1], m.values[1]) \in Seq(Byte)
      BY <1>2, ConstWritten
    <3> QED BY <2>2, <3>1 DEF AnswerContent, Write
  <2> QED BY <2>1, <2>2
<1> QED BY <1>1, <1>2, <1>3, <1>4

\* An answer that is kept has a content. It is read as what it was, or, where it ends
\* before, as nothing.
LEMMA AnswerFound ==
    ASSUME NEW m \in Answers, Kept(m.types[1]) \/ m.types[1] = Str,
           NEW buf \in Seq(Byte), NEW p \in Nat, p <= Len(buf),
           Agrees(buf, p, AnswerContent(m))
    PROVE  /\ Len(AnswerContent(m)) \in Nat \ {0}
           /\ ReadTuple(m.types, buf, p) = Found(buf, p, Len(AnswerContent(m)), m.values)
<1> DEFINE type == m.types[1]
           v == m.values[1]
           w == AnswerContent(m)
<1>1. /\ m.types \in Seq(Type) /\ Len(m.types) = 1
      /\ type \in Type /\ v \in ValuesOf(type) /\ m.values = <<v>>
      /\ w \in Seq(Byte) /\ Len(w) < SizeBound
  BY AnswerWritten
<1>2. Len(w) \in Nat
  BY <1>1
<1>3. \A q \in Nat : Agrees(buf, q, w) => Read(type, buf, q) = Found(buf, q, Len(w), v)
      /\ Len(w) # 0
  <2>1. CASE type = Str
    <3>1. type.kind = "string" /\ ~IsScalar(type)
      BY <2>1, ScalarSizes DEF Str, IsScalar
    <3>2. v \in Seq(Byte)
      BY <1>1, <3>1 DEF ValuesOf, ElementValues
    <3>3. w = WriteStr(v)
      BY <3>1 DEF AnswerContent, Write
    <3>4. Len(w) = 8 + Len(v) /\ Len(v) \in Nat
      <4> DEFINE a == Size(Len(v))
      <4>1. Len(v) \in Int /\ Len(v) \in Nat
        BY <3>2
      <4>2. a \in Seq(Byte) /\ Len(a) = 8
        BY <4>1, SizeBytes
      <4>3. w = a \o v
        BY <3>3 DEF WriteStr
      <4> HIDE DEF a, v, w
      <4>4. Len(a \o v) = Len(a) + Len(v)
        BY <3>2, <4>2, ConcatProperties
      <4> QED BY <4>1, <4>2, <4>3, <4>4
    <3>5. Len(v) < SizeBound
      BY <1>1, <3>4 DEF SizeBound
    <3>6. ASSUME NEW q \in Nat, Agrees(buf, q, w)
          PROVE  Read(type, buf, q) = Found(buf, q, Len(w), v)
      <4>1. Agrees(buf, q, WriteStr(v))
        BY <3>3, <3>6
      <4>2. ReadStr(buf, q) = Found(buf, q, 8 + Len(v), v)
        <5> HIDE DEF v
        <5> QED BY <3>2, <3>5, <4>1, StrFound
      <4>3. Read(type, buf, q) = ReadStr(buf, q)
        BY <3>1 DEF Read, ReadMember
      <4> QED BY <3>4, <4>2, <4>3
    <3> HIDE DEF type, v, w
    <3> QED BY <3>4, <3>6
  <2>2. CASE type # Str
    <3>1. Kept(type) /\ type.kind # "string"
      BY <1>1, <2>2, TypeCases, ScalarSizes DEF IsScalar
    <3>2. w = WriteConst(type, v)
      BY <3>1 DEF AnswerContent, Write
    <3> HIDE DEF type, v, w
    <3>3. Len(w) # 0
      BY <1>1, <3>1, <3>2, KeptLength
    <3>4. ASSUME NEW q \in Nat, Agrees(buf, q, w)
          PROVE  Read(type, buf, q) = Found(buf, q, Len(w), v)
      <4>1. Agrees(buf, q, WriteConst(type, v)) /\ Len(WriteConst(type, v)) < SizeBound
        BY <1>1, <3>2, <3>4
      <4> QED BY <1>1, <3>1, <3>2, <4>1, ConstFound
    <3> QED BY <3>3, <3>4
  <2> QED BY <2>1, <2>2
<1> DEFINE s == <<w>>
<1>4. s \in Seq(Seq(Byte)) /\ Len(s) = 1 /\ s[1] = w
  BY <1>1
<1>5. FlattenSeq(s) = w
  <2>1. FlattenSeq(s) \in Seq(Byte)
    BY <1>4, FlattenPlaces
  <2>2. PICK e : /\ IsPlaces(e, s)
                 /\ Len(FlattenSeq(s)) = e[Len(s)]
                 /\ \A k \in 1..Len(s) : \A j \in 1..Len(s[k]) :
                      /\ e[k - 1] + j \in 1..Len(FlattenSeq(s))
                      /\ FlattenSeq(s)[e[k - 1] + j] = s[k][j]
    BY <1>4, FlattenPlaces
  <2> HIDE DEF s, w
  <2>3. e[0] = 0 /\ e[1] = Len(w)
    BY <1>2, <1>4, <2>2 DEF IsPlaces
  <2>4. Len(FlattenSeq(s)) = Len(w)
    BY <1>4, <2>2, <2>3
  <2>5. ASSUME NEW j \in 1..Len(w) PROVE FlattenSeq(s)[j] = w[j]
    <3>1. 1 \in 1..Len(s) /\ s[1] = w /\ e[1 - 1] = 0
      BY <1>4, <2>3
    <3>2. FlattenSeq(s)[e[1 - 1] + j] = s[1][j]
      BY <2>2, <3>1
    <3>3. e[1 - 1] + j = j
      BY <1>2, <3>1
    <3> QED BY <3>1, <3>2, <3>3
  <2> QED BY <1>1, <2>1, <2>4, <2>5, SeqEqual
<1>6. ValuesFound(m.types, m.values, s, buf)
  <2>1. Len(m.values) = 1 /\ m.values[1] = v
    BY <1>1
  <2>2. ASSUME NEW k \in 1..Len(m.values), NEW q \in Nat, Agrees(buf, q, s[k])
        PROVE  Found(buf, q, Len(s[k]), m.values[k]) = Read(m.types[k], buf, q)
    <3>1. k = 1
      BY <2>1
    <3>2. s[k] = w /\ m.values[k] = v /\ m.types[k] = type
      BY <1>4, <3>1
    <3> HIDE DEF s, w, v, type
    <3> QED BY <1>3, <2>2, <3>2
  <2> HIDE DEF s
  <2> QED BY <1>1, <1>4, <2>1, <2>2 DEF ValuesFound
<1>7. \E V : m.values \in Seq(V)
  <2>1. m.values = <<v>>
    BY <1>1
  <2> HIDE DEF v
  <2>2. <<v>> \in Seq({v})
    OBVIOUS
  <2> QED BY <2>1, <2>2
<1> HIDE DEF s, w, v, type
<1>8. Agrees(buf, p, FlattenSeq(s))
  BY <1>5 DEF w
<1>9. ReadTuple(m.types, buf, p) = Found(buf, p, Len(FlattenSeq(s)), m.values)
  BY <1>4, <1>6, <1>7, <1>8, TupleFound
<1> QED BY <1>2, <1>3, <1>5, <1>9 DEF w

-----------------------------------------------------------------------------
(* The stream.                                                             *)

\* The messages of a direction w, the contents and the bytes of the messages s.
MessagesOf(w) == IF w = "request" THEN Requests ELSE Answers
ContentOf(w, m) == IF w = "request" THEN RequestContent(m) ELSE AnswerContent(m)
Encoded(w, s, k) == encode(IF w = "request" THEN 0 ELSE 4, k, ContentOf(w, s[k]))

\* The parts of the header follow each other and are 20 bytes.
LEMMA HeaderParts ==
    /\ Len(Header) = 6 /\ Offset[1] = 0 /\ Offset[7] = 20 /\ HeaderSize = 20
    /\ \A p \in 1..6 : Header[p] \in Nat \ {0} /\ Offset[p + 1] = Offset[p] + Header[p]
    /\ \A p \in 1..7 : Offset[p] \in 0..20
<1>1. /\ Header[1] = 1 /\ Header[2] = 1 /\ Header[3] = 1 /\ Header[4] = 1 /\ Header[5] = 8
      /\ Header[6] = 8 /\ Len(Header) = 6
  BY DEF Header
<1>2. /\ Offset[1] = 0 /\ Offset[2] = 1 /\ Offset[3] = 2 /\ Offset[4] = 3 /\ Offset[5] = 4
      /\ Offset[6] = 12 /\ Offset[7] = 20
  BY DEF Offset, HeaderSize
<1>3. ASSUME NEW p \in 1..6
      PROVE  Header[p] \in Nat \ {0} /\ Offset[p + 1] = Offset[p] + Header[p]
  <2>1. p = 1 \/ p = 2 \/ p = 3 \/ p = 4 \/ p = 5 \/ p = 6
    OBVIOUS
  <2> QED BY <1>1, <1>2, <2>1
<1>4. ASSUME NEW p \in 1..7 PROVE Offset[p] \in 0..20
  <2>1. p = 1 \/ p = 2 \/ p = 3 \/ p = 4 \/ p = 5 \/ p = 6 \/ p = 7
    OBVIOUS
  <2> QED BY <1>2, <2>1
<1> QED BY <1>1, <1>2, <1>3, <1>4 DEF HeaderSize

\* The bytes of the header in front of the size of the content.
HeaderOf(type, seq) ==
    WriteNum("uint8", 102) \o WriteNum("uint8", 1) \o WriteNum("uint8", type)
        \o WriteNum("uint8", 0) \o Size(seq)

\* Twelve bytes are in front of the size of the content.
LEMMA HeaderOfWritten ==
    ASSUME NEW type \in Int, NEW seq \in Int
    PROVE  HeaderOf(type, seq) \in Seq(Byte) /\ Len(HeaderOf(type, seq)) = 12
<1> DEFINE a == WriteNum("uint8", 102)
           b == WriteNum("uint8", 1)
           c == WriteNum("uint8", type)
           d == WriteNum("uint8", 0)
           e == Size(seq)
<1>1. \A v \in Int : WriteNum("uint8", v) \in Seq(Byte) /\ Len(WriteNum("uint8", v)) = 1
  <2>1. "uint8" \in Scalar /\ sizeof["uint8"] = 1
    BY ScalarSizes
  <2>2. ASSUME NEW v \in Int
        PROVE  WriteNum("uint8", v) \in Seq(Byte) /\ Len(WriteNum("uint8", v)) = 1
    BY <2>1, NumberWritten
  <2> QED BY <2>2
<1>2. a \in Seq(Byte) /\ b \in Seq(Byte) /\ c \in Seq(Byte) /\ d \in Seq(Byte)
      /\ Len(a) = 1 /\ Len(b) = 1 /\ Len(c) = 1 /\ Len(d) = 1
  BY <1>1
<1>3. e \in Seq(Byte) /\ Len(e) = 8
  BY SizeBytes
<1>4. HeaderOf(type, seq) = a \o b \o c \o d \o e
  BY DEF HeaderOf
<1> HIDE DEF a, b, c, d, e
<1>5. a \o b \in Seq(Byte) /\ Len(a \o b) = 2
  BY <1>2, ConcatProperties
<1>6. a \o b \o c \in Seq(Byte) /\ Len(a \o b \o c) = 3
  <2> DEFINE x == a \o b
  <2>1. x \in Seq(Byte) /\ Len(x) = 2
    BY <1>5
  <2> HIDE DEF x
  <2>2. x \o c \in Seq(Byte) /\ Len(x \o c) = Len(x) + Len(c)
    BY <1>2, <2>1, ConcatProperties
  <2>3. Len(x \o c) = 3
    BY <1>2, <2>1, <2>2
  <2> QED BY <2>2, <2>3 DEF x
<1>7. a \o b \o c \o d \in Seq(Byte) /\ Len(a \o b \o c \o d) = 4
  <2> DEFINE x == a \o b \o c
  <2>1. x \in Seq(Byte) /\ Len(x) = 3
    BY <1>6
  <2> HIDE DEF x
  <2>2. x \o d \in Seq(Byte) /\ Len(x \o d) = Len(x) + Len(d)
    BY <1>2, <2>1, ConcatProperties
  <2>3. Len(x \o d) = 4
    BY <1>2, <2>1, <2>2
  <2> QED BY <2>2, <2>3 DEF x
<1>8. a \o b \o c \o d \o e \in Seq(Byte) /\ Len(a \o b \o c \o d \o e) = 12
  <2> DEFINE x == a \o b \o c \o d
  <2>1. x \in Seq(Byte) /\ Len(x) = 4
    BY <1>7
  <2> HIDE DEF x
  <2>2. x \o e \in Seq(Byte) /\ Len(x \o e) = Len(x) + Len(e)
    BY <1>3, <2>1, ConcatProperties
  <2>3. Len(x \o e) = 12
    BY <1>3, <2>1, <2>2
  <2> QED BY <2>2, <2>3 DEF x
<1> QED BY <1>4, <1>8

\* A message is its header and its content, which is a string with its size.
LEMMA EncodeWritten ==
    ASSUME NEW type \in Int, NEW seq \in Int, NEW content \in Seq(Byte)
    PROVE  /\ encode(type, seq, content) = HeaderOf(type, seq) \o WriteStr(content)
           /\ WriteStr(content) \in Seq(Byte)
           /\ Len(WriteStr(content)) = 8 + Len(content)
           /\ encode(type, seq, content) \in Seq(Byte)
           /\ Len(encode(type, seq, content)) = HeaderSize + Len(content)
<1> DEFINE f == HeaderOf(type, seq)
           a == Size(Len(content))
           w == WriteStr(content)
<1>1. encode(type, seq, content) = f \o w
  BY DEF encode, HeaderOf
<1>2. f \in Seq(Byte) /\ Len(f) = 12
  BY HeaderOfWritten
<1>3. a \in Seq(Byte) /\ Len(a) = 8 /\ Len(content) \in Nat
  <2>1. Len(content) \in Int /\ Len(content) \in Nat
    OBVIOUS
  <2> QED BY <2>1, SizeBytes
<1>4. w = a \o content
  BY DEF WriteStr
<1> HIDE DEF f, a, w
<1>5. w \in Seq(Byte) /\ Len(w) = 8 + Len(content)
  <2>1. a \o content \in Seq(Byte) /\ Len(a \o content) = Len(a) + Len(content)
    BY <1>3, ConcatProperties
  <2> QED BY <1>3, <1>4, <2>1
<1>6. f \o w \in Seq(Byte) /\ Len(f \o w) = Len(f) + Len(w)
  BY <1>2, <1>5, ConcatProperties
<1>7. encode(type, seq, content) \in Seq(Byte)
      /\ Len(encode(type, seq, content)) = HeaderSize + Len(content)
  BY <1>1, <1>2, <1>3, <1>5, <1>6 DEF HeaderSize
<1> QED BY <1>1, <1>5, <1>7 DEF f, w

\* A buffer that holds a message has the size of the content at its place, and the content
\* behind it.
LEMMA EncodeAgrees ==
    ASSUME NEW type \in Int, NEW seq \in Int, NEW content \in Seq(Byte),
           NEW buf \in Seq(Byte), Agrees(buf, 0, encode(type, seq, content))
    PROVE  Agrees(buf, 12, Size(Len(content))) /\ Agrees(buf, HeaderSize, content)
<1>1. /\ encode(type, seq, content) = HeaderOf(type, seq) \o WriteStr(content)
      /\ WriteStr(content) \in Seq(Byte)
  BY EncodeWritten
<1>2. HeaderOf(type, seq) \in Seq(Byte) /\ Len(HeaderOf(type, seq)) = 12
  BY HeaderOfWritten
<1>3. Agrees(buf, 0 + Len(HeaderOf(type, seq)), WriteStr(content))
  <2>1. Agrees(buf, 0, HeaderOf(type, seq) \o WriteStr(content))
    BY <1>1
  <2>2. 0 \in Nat
    OBVIOUS
  <2> QED BY <1>1, <1>2, <2>1, <2>2, AgreesConcat
<1>4. Agrees(buf, 12, WriteStr(content))
  <2>1. 0 + Len(HeaderOf(type, seq)) = 12
    BY <1>2
  <2> QED BY <1>3, <2>1
<1>5. Size(Len(content)) \in Seq(Byte) /\ Len(Size(Len(content))) = 8
  <2>1. Len(content) \in Int
    OBVIOUS
  <2> QED BY <2>1, SizeBytes
<1>6. Agrees(buf, 12, Size(Len(content))) /\ Agrees(buf, 12 + Len(Size(Len(content))), content)
  <2>1. Agrees(buf, 12, Size(Len(content)) \o content)
    BY <1>4 DEF WriteStr
  <2>2. 12 \in Nat
    OBVIOUS
  <2> QED BY <1>5, <2>1, <2>2, AgreesConcat
<1>7. 12 + Len(Size(Len(content))) = HeaderSize
  BY <1>5 DEF HeaderSize
<1> QED BY <1>6, <1>7

\* Every message that was sent was written as 20 bytes and its content.
LEMMA EncodedFacts ==
    ASSUME NEW w \in {"request", "answer"}, NEW s \in Seq(MessagesOf(w)), NEW k \in 1..Len(s)
    PROVE  /\ s[k] \in MessagesOf(w)
           /\ ContentOf(w, s[k]) \in Seq(Byte)
           /\ Len(ContentOf(w, s[k])) < SizeBound
           /\ Encoded(w, s, k) \in Seq(Byte)
           /\ Len(Encoded(w, s, k)) = HeaderSize + Len(ContentOf(w, s[k]))
<1>1. s[k] \in MessagesOf(w)
  OBVIOUS
<1>2. ContentOf(w, s[k]) \in Seq(Byte) /\ Len(ContentOf(w, s[k])) < SizeBound
  BY <1>1, RequestWritten, AnswerWritten DEF MessagesOf, ContentOf
<1> DEFINE type == IF w = "request" THEN 0 ELSE 4
           content == ContentOf(w, s[k])
<1>3. type \in Int /\ k \in Int /\ content \in Seq(Byte)
  BY <1>2
<1>4. Encoded(w, s, k) = encode(type, k, content)
  BY DEF Encoded
<1> HIDE DEF type, content
<1>5. Encoded(w, s, k) \in Seq(Byte) /\ Len(Encoded(w, s, k)) = HeaderSize + Len(content)
  BY <1>3, <1>4, EncodeWritten
<1> QED BY <1>1, <1>2, <1>5 DEF content

\* A buffer that holds a message that was sent has its size and its content in their places.
LEMMA EncodedAgrees ==
    ASSUME NEW w \in {"request", "answer"}, NEW s \in Seq(MessagesOf(w)), NEW k \in 1..Len(s),
           NEW buf \in Seq(Byte), Agrees(buf, 0, Encoded(w, s, k))
    PROVE  /\ Agrees(buf, 12, Size(Len(ContentOf(w, s[k]))))
           /\ Agrees(buf, HeaderSize, ContentOf(w, s[k]))
<1> DEFINE type == IF w = "request" THEN 0 ELSE 4
           content == ContentOf(w, s[k])
<1>1. type \in Int /\ k \in Int /\ content \in Seq(Byte)
  BY EncodedFacts
<1>2. Agrees(buf, 0, encode(type, k, content))
  BY DEF Encoded
<1> HIDE DEF type, content
<1>3. Agrees(buf, 12, Size(Len(content))) /\ Agrees(buf, HeaderSize, content)
  BY <1>1, <1>2, EncodeAgrees
<1> QED BY <1>3 DEF content

\* whole holds the bytes of the messages s behind each other, they end at ends.
Layout(w, s, whole, ends) ==
    /\ whole \in Seq(Byte)
    /\ ends \in [0..Len(s) -> Nat]
    /\ ends[0] = 0 /\ ends[Len(s)] = Len(whole)
    /\ \A k \in 1..Len(s) :
         /\ ends[k] = ends[k - 1] + Len(Encoded(w, s, k))
         /\ ends[k] <= Len(whole)
         /\ \A j \in 1..Len(Encoded(w, s, k)) : whole[ends[k - 1] + j] = Encoded(w, s, k)[j]

\* Behind its first b bytes, whole has d and then u.
InPlace(whole, b, d, u) ==
    /\ b + Len(d) + Len(u) <= Len(whole)
    /\ \A j \in 1..Len(d) : d[j] = whole[b + j]
    /\ \A j \in 1..Len(u) : u[j] = whole[b + Len(d) + j]

\* What is sent next changes nothing of what was sent.
LEMMA AppendedMessage ==
    ASSUME NEW w \in {"request", "answer"}, NEW s \in Seq(MessagesOf(w)), NEW m \in MessagesOf(w),
           NEW k \in 1..Len(s)
    PROVE  Encoded(w, Append(s, m), k) = Encoded(w, s, k)
<1>1. Append(s, m)[k] = s[k]
  OBVIOUS
<1> QED BY <1>1 DEF Encoded

\* What is sent next has its place behind all others.
LEMMA LayoutAppend ==
    ASSUME NEW w \in {"request", "answer"}, NEW s \in Seq(MessagesOf(w)), NEW m \in MessagesOf(w),
           NEW whole, NEW ends, Layout(w, s, whole, ends),
           NEW x, x = Encoded(w, Append(s, m), Len(s) + 1)
    PROVE  /\ x \in Seq(Byte)
           /\ \E places : /\ Layout(w, Append(s, m), whole \o x, places)
                          /\ \A k \in 0..Len(s) : places[k] = ends[k]
<1> DEFINE t == Append(s, m)
           n == Len(s)
           places == [k \in 0..n + 1 |-> IF k = n + 1 THEN ends[n] + Len(x) ELSE ends[k]]
<1>1. t \in Seq(MessagesOf(w)) /\ Len(t) = n + 1 /\ n \in Nat
  OBVIOUS
<1>2. /\ whole \in Seq(Byte) /\ ends \in [0..n -> Nat] /\ ends[0] = 0 /\ ends[n] = Len(whole)
      /\ \A k \in 1..n : /\ ends[k] = ends[k - 1] + Len(Encoded(w, s, k))
                         /\ ends[k] <= Len(whole)
                         /\ \A j \in 1..Len(Encoded(w, s, k)) :
                              whole[ends[k - 1] + j] = Encoded(w, s, k)[j]
  BY DEF Layout
<1>3. x \in Seq(Byte)
  <2>1. n + 1 \in 1..Len(t)
    BY <1>1
  <2> HIDE DEF t, n
  <2>2. Encoded(w, t, n + 1) \in Seq(Byte)
    BY <1>1, <2>1, EncodedFacts
  <2> QED BY <2>2 DEF t, n
<1>4. \A k \in 1..n : Encoded(w, t, k) = Encoded(w, s, k)
  BY AppendedMessage
<1>5. /\ Encoded(w, t, n + 1) = x
      /\ \A k \in 1..n : Encoded(w, s, k) \in Seq(Byte) /\ Len(Encoded(w, s, k)) \in Nat
  <2>1. ASSUME NEW k \in 1..n
        PROVE Encoded(w, s, k) \in Seq(Byte) /\ Len(Encoded(w, s, k)) \in Nat
    <3>1. Encoded(w, s, k) \in Seq(Byte)
      BY EncodedFacts
    <3> QED BY <3>1
  <2> QED BY <2>1
<1> HIDE DEF t, n
<1> DEFINE y == whole \o x
<1>6. /\ y \in Seq(Byte) /\ Len(y) = Len(whole) + Len(x) /\ Len(x) \in Nat /\ Len(whole) \in Nat
      /\ \A j \in 1..Len(whole) : y[j] = whole[j]
      /\ \A j \in 1..Len(x) : y[Len(whole) + j] = x[j]
  <2>1. Len(x) \in Nat /\ Len(whole) \in Nat
    BY <1>2, <1>3
  <2>2. /\ whole \o x \in Seq(Byte)
        /\ Len(whole \o x) = Len(whole) + Len(x)
        /\ \A i \in 1..Len(whole) + Len(x) :
             (whole \o x)[i] = IF i <= Len(whole) THEN whole[i] ELSE x[i - Len(whole)]
    BY <1>2, <1>3, ConcatProperties
  <2>3. \A j \in 1..Len(whole) : y[j] = whole[j]
    BY <2>1, <2>2
  <2>4. ASSUME NEW j \in 1..Len(x) PROVE y[Len(whole) + j] = x[j]
    <3>1. /\ Len(whole) + j \in 1..Len(whole) + Len(x) /\ ~(Len(whole) + j <= Len(whole))
          /\ (Len(whole) + j) - Len(whole) = j
      BY <2>1
    <3> QED BY <2>2, <3>1
  <2> QED BY <2>1, <2>2, <2>3, <2>4
<1> HIDE DEF y
<1>7. /\ places \in [0..n + 1 -> Nat] /\ places[n + 1] = Len(y)
      /\ \A k \in 0..n : places[k] = ends[k]
  <2>1. ends[n] + Len(x) \in Nat /\ ends[n] + Len(x) = Len(y)
    BY <1>2, <1>6
  <2>2. \A k \in 0..n : ends[k] \in Nat /\ k \in 0..n + 1 /\ k # n + 1
    BY <1>1, <1>2
  <2>3. \A k \in 0..n + 1 : k # n + 1 => k \in 0..n
    BY <1>1
  <2>4. n + 1 \in 0..n + 1
    BY <1>1
  <2> QED BY <2>1, <2>2, <2>3, <2>4
<1> HIDE DEF places
<1>8. ASSUME NEW k \in 1..n + 1
      PROVE  /\ places[k] = places[k - 1] + Len(Encoded(w, t, k))
             /\ places[k] <= Len(y)
             /\ \A j \in 1..Len(Encoded(w, t, k)) : y[places[k - 1] + j] = Encoded(w, t, k)[j]
  <2>1. CASE k = n + 1
    <3>1. k - 1 = n /\ n \in 0..n
      BY <1>1, <2>1
    <3>2. places[k - 1] = Len(whole) /\ places[k] = Len(y) /\ Encoded(w, t, k) = x
      BY <1>2, <1>5, <1>7, <2>1, <3>1
    <3> QED BY <1>6, <3>2
  <2>2. CASE k # n + 1
    <3>1. k \in 1..n /\ k \in 0..n /\ k - 1 \in 0..n
      BY <1>1, <2>2
    <3>2. /\ places[k] = ends[k] /\ places[k - 1] = ends[k - 1]
          /\ ends[k - 1] \in Nat /\ ends[k] \in Nat
      BY <1>2, <1>7, <3>1
    <3>3. Encoded(w, t, k) = Encoded(w, s, k)
      BY <1>4, <3>1
    <3>4. /\ ends[k] = ends[k - 1] + Len(Encoded(w, s, k)) /\ ends[k] <= Len(whole)
          /\ Len(Encoded(w, s, k)) \in Nat
      BY <1>2, <1>5, <3>1
    <3>5. ASSUME NEW j \in 1..Len(Encoded(w, s, k))
          PROVE  y[ends[k - 1] + j] = Encoded(w, s, k)[j]
      <4>1. ends[k - 1] + j \in 1..Len(whole)
        BY <1>6, <3>2, <3>4
      <4>2. whole[ends[k - 1] + j] = Encoded(w, s, k)[j]
        BY <1>2, <3>1
      <4> QED BY <1>6, <4>1, <4>2
    <3>6. ends[k] <= Len(y)
      BY <1>6, <3>2, <3>4
    <3> QED BY <3>2, <3>3, <3>4, <3>5, <3>6
  <2> QED BY <2>1, <2>2
<1>9. places[0] = 0
  BY <1>1, <1>2, <1>7
<1>10. Layout(w, t, y, places)
  BY <1>1, <1>6, <1>7, <1>8, <1>9 DEF Layout
<1>11. Layout(w, Append(s, m), whole \o x, places) /\ \A k \in 0..Len(s) : places[k] = ends[k]
  BY <1>7, <1>10 DEF t, y, n
<1> QED BY <1>3, <1>11

\* What is received is the message that is its turn.
LEMMA CurrentAgrees ==
    ASSUME NEW w \in {"request", "answer"}, NEW s \in Seq(MessagesOf(w)),
           NEW whole, NEW ends, Layout(w, s, whole, ends), NEW a \in Nat, a < Len(s),
           NEW d \in Seq(Byte), NEW u \in Seq(Byte), InPlace(whole, ends[a], d, u)
    PROVE  /\ Agrees(d, 0, Encoded(w, s, a + 1))
           /\ ends[a] \in Nat /\ ends[a + 1] \in Nat
           /\ ends[a + 1] = ends[a] + Len(Encoded(w, s, a + 1))
           /\ ends[a + 1] <= Len(whole)
<1>1. a + 1 \in 1..Len(s) /\ a \in 0..Len(s) /\ a + 1 \in 0..Len(s) /\ (a + 1) - 1 = a
  OBVIOUS
<1>2. /\ ends[a] \in Nat /\ ends[a + 1] \in Nat
      /\ ends[a + 1] = ends[a] + Len(Encoded(w, s, a + 1)) /\ ends[a + 1] <= Len(whole)
      /\ \A j \in 1..Len(Encoded(w, s, a + 1)) : whole[ends[a] + j] = Encoded(w, s, a + 1)[j]
  BY <1>1 DEF Layout
<1>3. ASSUME NEW j \in 1..Len(Encoded(w, s, a + 1)), 0 + j <= Len(d)
      PROVE  d[0 + j] = Encoded(w, s, a + 1)[j]
  <2>1. 0 + j = j /\ j \in 1..Len(d)
    BY <1>3
  <2>2. d[j] = whole[ends[a] + j]
    BY <2>1 DEF InPlace
  <2> QED BY <1>2, <2>1, <2>2
<1> QED BY <1>2, <1>3 DEF Agrees

\* The first n elements of a sequence, and the others.
LEMMA Cut ==
    ASSUME NEW s \in Seq(Byte), NEW n \in 0..Len(s)
    PROVE  /\ SubSeq(s, 1, n) \in Seq(Byte) /\ Len(SubSeq(s, 1, n)) = n
           /\ \A j \in 1..n : SubSeq(s, 1, n)[j] = s[j]
           /\ SubSeq(s, n + 1, Len(s)) \in Seq(Byte) /\ Len(SubSeq(s, n + 1, Len(s))) = Len(s) - n
           /\ \A j \in 1..Len(s) - n : SubSeq(s, n + 1, Len(s))[j] = s[n + j]
<1>1. Len(s) \in Nat /\ n \in Nat
  OBVIOUS
<1>2. \A i \in 1..n : s[i] \in Byte
  BY <1>1, ElementOfSeq
<1>3. \A i \in n + 1..Len(s) : s[i] \in Byte
  BY <1>1, ElementOfSeq
<1>4. /\ SubSeq(s, 1, n) \in Seq(Byte)
      /\ Len(SubSeq(s, 1, n)) = IF 1 <= n THEN n - 1 + 1 ELSE 0
      /\ \A i \in 1..n - 1 + 1 : SubSeq(s, 1, n)[i] = s[1 + i - 1]
  BY <1>1, <1>2, SubSeqProperties
<1>5. /\ SubSeq(s, n + 1, Len(s)) \in Seq(Byte)
      /\ Len(SubSeq(s, n + 1, Len(s))) = IF n + 1 <= Len(s) THEN Len(s) - (n + 1) + 1 ELSE 0
      /\ \A i \in 1..Len(s) - (n + 1) + 1 : SubSeq(s, n + 1, Len(s))[i] = s[n + 1 + i - 1]
  <2>1. n + 1 \in Int /\ Len(s) \in Int
    BY <1>1
  <2> QED BY <1>3, <2>1, SubSeqProperties
<1>6. \A j \in 1..n : SubSeq(s, 1, n)[j] = s[j]
  <2>1. \A j \in 1..n : j \in 1..n - 1 + 1 /\ 1 + j - 1 = j
    BY <1>1
  <2> QED BY <1>4, <2>1
<1>7. \A j \in 1..Len(s) - n : SubSeq(s, n + 1, Len(s))[j] = s[n + j]
  <2>1. \A j \in 1..Len(s) - n : j \in 1..Len(s) - (n + 1) + 1 /\ n + 1 + j - 1 = n + j
    BY <1>1
  <2> QED BY <1>5, <2>1
<1>8. Len(SubSeq(s, 1, n)) = n
  BY <1>1, <1>4
<1>9. Len(SubSeq(s, n + 1, Len(s))) = Len(s) - n
  BY <1>1, <1>5
<1> QED BY <1>4, <1>5, <1>6, <1>7, <1>8, <1>9

\* Bytes that are received stay in their place.
LEMMA PlaceRecv ==
    ASSUME NEW whole, NEW b \in Nat, NEW d \in Seq(Byte), NEW u \in Seq(Byte),
           InPlace(whole, b, d, u), NEW n \in 0..Len(u)
    PROVE  LET d2 == d \o SubSeq(u, 1, n)
               u2 == SubSeq(u, n + 1, Len(u))
           IN  /\ d2 \in Seq(Byte) /\ Len(d2) = Len(d) + n
               /\ u2 \in Seq(Byte) /\ Len(u2) = Len(u) - n
               /\ InPlace(whole, b, d2, u2)
<1> DEFINE c == SubSeq(u, 1, n)
           d2 == d \o c
           u2 == SubSeq(u, n + 1, Len(u))
<1>1. Len(d) \in Nat /\ Len(u) \in Nat /\ n \in Nat /\ n <= Len(u)
  OBVIOUS
<1>2. /\ c \in Seq(Byte) /\ Len(c) = n /\ \A j \in 1..n : c[j] = u[j]
      /\ u2 \in Seq(Byte) /\ Len(u2) = Len(u) - n /\ \A j \in 1..Len(u) - n : u2[j] = u[n + j]
  BY Cut
<1> HIDE DEF c, d2, u2
<1>3. d2 \in Seq(Byte) /\ Len(d2) = Len(d) + n
      /\ \A i \in 1..Len(d) + n : d2[i] = IF i <= Len(d) THEN d[i] ELSE c[i - Len(d)]
  <2>1. d2 = d \o c
    BY DEF d2
  <2>2. /\ d \o c \in Seq(Byte) /\ Len(d \o c) = Len(d) + Len(c)
        /\ \A i \in 1..Len(d) + Len(c) : (d \o c)[i] = IF i <= Len(d) THEN d[i] ELSE c[i - Len(d)]
    BY <1>2, ConcatProperties
  <2> QED BY <1>2, <2>1, <2>2
<1>4. /\ b + Len(d) + Len(u) <= Len(whole)
      /\ \A j \in 1..Len(d) : d[j] = whole[b + j]
      /\ \A j \in 1..Len(u) : u[j] = whole[b + Len(d) + j]
  BY DEF InPlace
<1>5. ASSUME NEW j \in 1..Len(d2) PROVE d2[j] = whole[b + j]
  <2>0. j \in 1..Len(d) + n
    BY <1>3
  <2>1. CASE j <= Len(d)
    <3>1. j \in 1..Len(d)
      BY <1>1, <2>1
    <3> QED BY <1>3, <1>4, <2>0, <2>1, <3>1
  <2>2. CASE ~(j <= Len(d))
    <3>1. j - Len(d) \in 1..n /\ j - Len(d) \in 1..Len(u)
      BY <1>1, <2>0, <2>2
    <3>2. d2[j] = u[j - Len(d)]
      BY <1>2, <1>3, <2>0, <2>2, <3>1
    <3>3. b + Len(d) + (j - Len(d)) = b + j
      BY <1>1
    <3> QED BY <1>4, <3>1, <3>2, <3>3
  <2> QED BY <2>1, <2>2
<1>6. ASSUME NEW j \in 1..Len(u2) PROVE u2[j] = whole[b + Len(d2) + j]
  <2>1. j \in 1..Len(u) - n /\ n + j \in 1..Len(u)
    BY <1>1, <1>2
  <2>2. Len(d2) = Len(d) + n
    BY <1>3
  <2>3. b + Len(d) + (n + j) = b + Len(d2) + j
    BY <1>1, <2>2
  <2> QED BY <1>2, <1>4, <2>1, <2>3
<1>7. b + Len(d2) + Len(u2) = b + Len(d) + Len(u)
  <2>1. Len(d2) = Len(d) + n /\ Len(u2) = Len(u) - n
    BY <1>2, <1>3
  <2> QED BY <1>1, <2>1
<1>8. InPlace(whole, b, d2, u2)
  BY <1>4, <1>5, <1>6, <1>7 DEF InPlace
<1> QED BY <1>2, <1>3, <1>8 DEF c, d2, u2

\* So do those that remain when the connection ends early, or a part is not kept.
LEMMA PlaceShort ==
    ASSUME NEW whole \in Seq(Byte), NEW b \in Nat, NEW d \in Seq(Byte), NEW u \in Seq(Byte),
           InPlace(whole, b, d, u), NEW n \in 0..Len(u), NEW m \in 0..Len(d)
    PROVE  /\ InPlace(whole, b, d, SubSeq(u, 1, n))
           /\ u = <<>> => InPlace(whole, b, SubSeq(d, 1, m), u)
<1>1. Len(d) \in Nat /\ Len(u) \in Nat /\ n \in Nat /\ n <= Len(u) /\ m \in Nat /\ m <= Len(d)
      /\ Len(whole) \in Nat
  OBVIOUS
<1>2. Len(SubSeq(u, 1, n)) = n /\ \A j \in 1..n : SubSeq(u, 1, n)[j] = u[j]
  BY Cut
<1>3. Len(SubSeq(d, 1, m)) = m /\ \A j \in 1..m : SubSeq(d, 1, m)[j] = d[j]
  BY Cut
<1>4. /\ b + Len(d) + Len(u) <= Len(whole)
      /\ \A j \in 1..Len(d) : d[j] = whole[b + j]
      /\ \A j \in 1..Len(u) : u[j] = whole[b + Len(d) + j]
  BY DEF InPlace
<1>5. InPlace(whole, b, d, SubSeq(u, 1, n))
  <2> DEFINE c == SubSeq(u, 1, n)
  <2>1. Len(c) = n /\ \A j \in 1..Len(c) : j \in 1..Len(u) /\ c[j] = u[j]
    BY <1>1, <1>2
  <2> HIDE DEF c
  <2>2. b + Len(d) + Len(c) <= Len(whole)
    BY <1>1, <1>4, <2>1
  <2>3. InPlace(whole, b, d, c)
    BY <1>4, <2>1, <2>2 DEF InPlace
  <2> QED BY <2>3 DEF c
<1>6. ASSUME u = <<>> PROVE InPlace(whole, b, SubSeq(d, 1, m), u)
  <2> DEFINE c == SubSeq(d, 1, m)
  <2>1. Len(c) = m /\ \A j \in 1..Len(c) : j \in 1..Len(d) /\ c[j] = d[j]
    BY <1>1, <1>3
  <2> HIDE DEF c
  <2>2. Len(u) = 0
    BY <1>6
  <2>3. b + Len(c) + Len(u) <= Len(whole)
    BY <1>1, <1>4, <2>1, <2>2
  <2>4. \A j \in 1..Len(u) : u[j] = whole[b + Len(c) + j]
    BY <2>2
  <2>5. InPlace(whole, b, c, u)
    BY <1>4, <2>1, <2>3, <2>4 DEF InPlace
  <2> QED BY <2>5 DEF c
<1> QED BY <1>5, <1>6

\* What is sent is behind all that has been sent.
LEMMA PlaceSend ==
    ASSUME NEW whole \in Seq(Byte), NEW b \in Nat, NEW d \in Seq(Byte), NEW u \in Seq(Byte),
           InPlace(whole, b, d, u), NEW x \in Seq(Byte), b + Len(d) + Len(u) = Len(whole)
    PROVE  /\ u \o x \in Seq(Byte)
           /\ InPlace(whole \o x, b, d, u \o x)
           /\ b + Len(d) + Len(u \o x) = Len(whole \o x)
<1>1. Len(d) \in Nat /\ Len(u) \in Nat /\ Len(x) \in Nat /\ Len(whole) \in Nat
  OBVIOUS
<1> DEFINE v == u \o x
           y == whole \o x
<1>2. /\ v \in Seq(Byte) /\ Len(v) = Len(u) + Len(x)
      /\ \A i \in 1..Len(u) + Len(x) : v[i] = IF i <= Len(u) THEN u[i] ELSE x[i - Len(u)]
  BY ConcatProperties
<1>3. /\ Len(y) = Len(whole) + Len(x)
      /\ \A i \in 1..Len(whole) + Len(x) : y[i] = IF i <= Len(whole) THEN whole[i]
                                                  ELSE x[i - Len(whole)]
  BY ConcatProperties
<1> HIDE DEF v, y
<1>4. /\ \A j \in 1..Len(d) : d[j] = whole[b + j]
      /\ \A j \in 1..Len(u) : u[j] = whole[b + Len(d) + j]
  BY DEF InPlace
<1>5. ASSUME NEW j \in 1..Len(d) PROVE d[j] = y[b + j]
  <2>1. b + j \in 1..Len(whole) + Len(x) /\ b + j <= Len(whole)
    BY <1>1
  <2> QED BY <1>3, <1>4, <2>1
<1>6. ASSUME NEW j \in 1..Len(v) PROVE v[j] = y[b + Len(d) + j]
  <2>0. j \in 1..Len(u) + Len(x) /\ b + Len(d) + j \in 1..Len(whole) + Len(x)
    BY <1>1, <1>2
  <2>1. CASE j <= Len(u)
    <3>1. j \in 1..Len(u) /\ b + Len(d) + j <= Len(whole)
      BY <1>1, <2>0, <2>1
    <3>2. v[j] = u[j] /\ y[b + Len(d) + j] = whole[b + Len(d) + j]
      BY <1>2, <1>3, <2>0, <2>1, <3>1
    <3> QED BY <1>4, <3>1, <3>2
  <2>2. CASE ~(j <= Len(u))
    <3>0. b + Len(d) + Len(u) = Len(whole)
      OBVIOUS
    <3>1. ~(b + Len(d) + j <= Len(whole)) /\ b + Len(d) + j - Len(whole) = j - Len(u)
      <4>1. j \in Int /\ ~(j <= Len(u))
        BY <1>1, <2>0, <2>2
      <4> QED BY <1>1, <3>0, <4>1
    <3>2. v[j] = x[j - Len(u)] /\ y[b + Len(d) + j] = x[b + Len(d) + j - Len(whole)]
      BY <1>2, <1>3, <2>0, <2>2, <3>1
    <3> QED BY <3>1, <3>2
  <2> QED BY <2>1, <2>2
<1>7. b + Len(d) + Len(v) = Len(y)
  BY <1>1, <1>2, <1>3
<1>8. InPlace(y, b, d, v)
  <2>1. b + Len(d) + Len(v) <= Len(y)
    BY <1>1, <1>2, <1>3
  <2> QED BY <1>5, <1>6, <2>1 DEF InPlace
<1> QED BY <1>2, <1>7, <1>8 DEF v, y

\* When a message has been read the next one begins, if there is any.
LEMMA PlaceNext ==
    ASSUME NEW whole \in Seq(Byte), NEW b \in Nat, NEW d \in Seq(Byte), NEW u \in Seq(Byte),
           InPlace(whole, b, d, u), NEW c \in Nat, c <= Len(whole),
           c = b + Len(d) \/ u = <<>>
    PROVE  InPlace(whole, c, <<>>, u)
<1>1. Len(d) \in Nat /\ Len(u) \in Nat /\ Len(whole) \in Nat
  OBVIOUS
<1>2. Len(<<>>) = 0 /\ 1..0 = {}
  OBVIOUS
<1>3. b + Len(d) + Len(u) <= Len(whole) /\ \A j \in 1..Len(u) : u[j] = whole[b + Len(d) + j]
  BY DEF InPlace
<1>4. CASE u = <<>>
  <2>1. Len(u) = 0
    BY <1>4
  <2> QED BY <1>1, <2>1 DEF InPlace
<1>5. CASE c = b + Len(d)
  <2>1. c + 0 + Len(u) <= Len(whole)
    BY <1>1, <1>3, <1>5
  <2>2. \A j \in 1..Len(u) : u[j] = whole[c + 0 + j]
    <3>1. c + 0 = b + Len(d)
      BY <1>1, <1>5
    <3> QED BY <1>3, <3>1
  <2> QED BY <1>2, <2>1, <2>2 DEF InPlace
<1> QED BY <1>4, <1>5

-----------------------------------------------------------------------------
(* What is read of a message.                                              *)

\* Whether a message of a direction has strings that get lost.
LosesIn(w, type) ==
    CASE type.kind = "vector" -> type.of = Str
      [] type.kind = "map" -> Str \in {type.key, type.of}
      [] OTHER -> w = "request" /\ type = Str

LostIn(w, m) == \E k \in 1..Len(m.types) : LosesIn(w, m.types[k])

\* HasLostString speaks of the direction of the connection.
LEMMA LostThere ==
    \A m : HasLostString(m) <=> LostIn(way, m)
<1>1. \A type : LosesString(type) <=> LosesIn(way, type)
  BY DEF LosesString, LosesIn
<1> QED BY <1>1 DEF HasLostString, LostIn

\* Only what LosesString names is not kept.
LEMMA NotLost ==
    ASSUME NEW w, NEW type
    PROVE  /\ w = "request" /\ ~LosesIn(w, type) => Kept(type)
           /\ w = "answer" /\ ~LosesIn(w, type) => Kept(type) \/ type = Str
BY DEF LosesIn, Kept

\* The size of the content is read from the header when it is all there.
LEMMA SizeOfContent ==
    ASSUME way \in {"request", "answer"}, sent \in Seq(MessagesOf(way)), NEW k \in 1..Len(sent),
           data \in Seq(Byte), Agrees(data, 0, Encoded(way, sent, k))
    PROVE  /\ Len(data) >= HeaderSize =>
                /\ ContentSize.ok = TRUE
                /\ ContentSize.val = Len(ContentOf(way, sent[k]))
           /\ Len(data) < HeaderSize => ContentSize.ok = FALSE
<1> DEFINE n == Len(ContentOf(way, sent[k]))
<1>1. n \in Nat /\ n < SizeBound
  <2>1. ContentOf(way, sent[k]) \in Seq(Byte) /\ n < SizeBound
    BY EncodedFacts
  <2> QED BY <2>1
<1>2. Agrees(data, 12, Size(n))
  BY EncodedAgrees
<1> HIDE DEF n
<1>3. ReadNum("uint64", data, 12) = Found(data, 12, 8, n)
  <2>1. 12 \in Nat
    OBVIOUS
  <2> QED BY <1>1, <1>2, <2>1, SizeNumber
<1>4. ContentSize = Found(data, 12, 8, n)
  <2>1. HeaderSize - 8 = 12
    BY DEF HeaderSize
  <2> QED BY <1>3, <2>1 DEF ContentSize
<1>5. Len(data) \in Nat
  OBVIOUS
<1>6. ASSUME Len(data) >= HeaderSize PROVE ContentSize.ok = TRUE /\ ContentSize.val = n
  <2>1. 12 + 8 <= Len(data)
    BY <1>5, <1>6 DEF HeaderSize
  <2>2. ContentSize = Got(n, 12 + 8)
    BY <1>4, <2>1 DEF Found
  <2> QED BY <2>2 DEF Got
<1>7. ASSUME Len(data) < HeaderSize PROVE ContentSize.ok = FALSE
  <2>1. ~(12 + 8 <= Len(data))
    BY <1>5, <1>7 DEF HeaderSize
  <2>2. ContentSize = Thrown
    BY <1>4, <2>1 DEF Found
  <2> QED BY <2>2 DEF Thrown
<1> QED BY <1>6, <1>7 DEF n

\* What is read of a message: its values if all of it is there, and nothing otherwise,
\* or of an answer whatever there was before.
LEMMA ContentFound ==
    ASSUME way \in {"request", "answer"}, sent \in Seq(MessagesOf(way)), NEW k \in 1..Len(sent),
           data \in Seq(Byte), Agrees(data, 0, Encoded(way, sent, k)),
           HeaderSize <= Len(data), Len(data) <= Len(Encoded(way, sent, k)),
           ~LostIn(way, sent[k])
    PROVE  \/ ReadContent(sent[k]).ok = TRUE /\ ReadContent(sent[k]).val = sent[k].values
           \/ /\ Len(data) < Len(Encoded(way, sent, k))
              /\ ReadContent(sent[k]).ok = TRUE => /\ way = "answer"
                                                   /\ ReadContent(sent[k]).val = Undefined
<1> DEFINE m == sent[k]
           c == ContentOf(way, m)
<1>1. /\ m \in MessagesOf(way) /\ c \in Seq(Byte)
      /\ Len(Encoded(way, sent, k)) = HeaderSize + Len(c)
  BY EncodedFacts
<1>2. Agrees(data, HeaderSize, c)
  BY EncodedAgrees
<1>3. HeaderSize \in Nat /\ Len(data) \in Nat /\ Len(c) \in Nat
  BY <1>1 DEF HeaderSize
<1>4. ~LostIn(way, m)
  OBVIOUS
<1>5. HeaderSize <= Len(data) /\ Len(data) <= HeaderSize + Len(c)
  BY <1>1
<1>6. SUFFICES \/ ReadContent(m).ok = TRUE /\ ReadContent(m).val = m.values
               \/ /\ Len(data) < HeaderSize + Len(c)
                  /\ ReadContent(m).ok = TRUE => way = "answer" /\ ReadContent(m).val = Undefined
  BY <1>1
<1> DEFINE f == Found(data, HeaderSize, Len(c), m.values)
<1>7. /\ HeaderSize + Len(c) <= Len(data) => f.ok = TRUE /\ f.val = m.values
      /\ ~(HeaderSize + Len(c) <= Len(data)) => f.ok = FALSE
  BY DEF Found, Got, Thrown
<1>8. CASE way = "request"
  <2>1. m \in Requests /\ c = RequestContent(m)
    BY <1>1, <1>8 DEF MessagesOf, ContentOf
  <2>2. \A j \in 1..Len(m.types) : Kept(m.types[j])
    BY <1>4, <1>8, NotLost DEF LostIn
  <2>3. ReadContent(m) = f
    <3> DEFINE name == ReadStr(data, HeaderSize)
    <3>1. ReadContent(m) = IF name.ok THEN ReadTuple(m.types, data, name.pos) ELSE Thrown
      BY <1>8 DEF ReadContent, ReadRequest
    <3>2. (IF name.ok THEN ReadTuple(m.types, data, name.pos) ELSE Thrown)
             = Found(data, HeaderSize, Len(RequestContent(m)), m.values)
      <4> HIDE DEF m, c, f
      <4> QED BY <1>2, <1>3, <2>1, <2>2, RequestFound
    <3> QED BY <2>1, <3>1, <3>2
  <2> HIDE DEF m, c, f
  <2> QED BY <1>3, <1>7, <2>3
<1>9. CASE way = "answer"
  <2>1. m \in Answers /\ c = AnswerContent(m)
    BY <1>1, <1>9 DEF MessagesOf, ContentOf
  <2>2. Kept(m.types[1]) \/ m.types[1] = Str
    <3>1. Len(m.types) = 1
      BY <2>1, MessageAssumption
    <3> QED BY <1>4, <1>9, <3>1, NotLost DEF LostIn
  <2>3. Len(c) \in Nat \ {0} /\ ReadTuple(m.types, data, HeaderSize) = f
    <3> HIDE DEF m, c
    <3> QED BY <1>2, <1>3, <1>5, <2>1, <2>2, AnswerFound
  <2>4. CASE HeaderSize >= Len(data)
    <3>1. ReadContent(m) = Got(Undefined, HeaderSize)
      BY <1>9, <2>4 DEF ReadContent, ReadAnswer
    <3>2. ReadContent(m).val = Undefined
      BY <3>1 DEF Got
    <3>3. Len(data) < HeaderSize + Len(c)
      BY <1>3, <1>5, <2>3, <2>4
    <3> QED BY <1>9, <3>2, <3>3
  <2>5. CASE ~(HeaderSize >= Len(data))
    <3>1. ReadContent(m) = f
      BY <1>9, <2>3, <2>5 DEF ReadContent, ReadAnswer
    <3> HIDE DEF m, c, f
    <3> QED BY <1>3, <1>7, <3>1
  <2> QED BY <2>4, <2>5
<1> QED BY <1>8, <1>9

-----------------------------------------------------------------------------
(* Where the bytes are.                                                    *)

\* Of the bytes of the messages s, those of the first n have been read, d are received, u on
\* their way and gone lost; those that are lost would have come last.
Held(w, s, n, d, u, gone) ==
    \E whole, ends :
        /\ Layout(w, s, whole, ends)
        /\ InPlace(whole, ends[n], d, u)
        /\ ends[n] + Len(d) + Len(u) + gone = Len(whole) \/ (u = <<>> /\ gone > 0)

\* The end of each message is a place in the stream, that of the last one its end.
LEMMA LayoutFacts ==
    ASSUME NEW w, NEW s \in Seq(MessagesOf(w)), NEW whole, NEW ends, Layout(w, s, whole, ends),
           NEW n \in 0..Len(s)
    PROVE  /\ whole \in Seq(Byte) /\ Len(whole) \in Nat /\ ends[n] \in Nat
           /\ ends[0] = 0 /\ ends[Len(s)] = Len(whole)
<1>1. whole \in Seq(Byte) /\ ends \in [0..Len(s) -> Nat]
  BY DEF Layout
<1> QED BY <1>1 DEF Layout

\* What is received is the next message, as far as it has come.
LEMMA HeldAgrees ==
    ASSUME NEW w \in {"request", "answer"}, NEW s \in Seq(MessagesOf(w)),
           NEW n \in 0..Len(s), n # Len(s), NEW d \in Seq(Byte), NEW u \in Seq(Byte), NEW gone,
           Held(w, s, n, d, u, gone)
    PROVE  Agrees(d, 0, Encoded(w, s, n + 1))
<1>1. PICK whole, ends : Layout(w, s, whole, ends) /\ InPlace(whole, ends[n], d, u)
  BY DEF Held
<1>2. n \in Nat /\ n < Len(s)
  OBVIOUS
<1> QED BY <1>1, <1>2, CurrentAgrees

\* When nothing is lost and nothing is on its way, all of the next message has come.
LEMMA HeldDrained ==
    ASSUME NEW w \in {"request", "answer"}, NEW s \in Seq(MessagesOf(w)),
           NEW n \in 0..Len(s), n # Len(s), NEW d \in Seq(Byte), Held(w, s, n, d, <<>>, 0)
    PROVE  Len(d) >= Len(Encoded(w, s, n + 1))
<1> DEFINE u == <<>>
<1>1. u \in Seq(Byte) /\ Len(u) = 0 /\ Held(w, s, n, d, u, 0)
  OBVIOUS
<1> HIDE DEF u
<1>2. PICK whole, ends : /\ Layout(w, s, whole, ends) /\ InPlace(whole, ends[n], d, u)
                         /\ ends[n] + Len(d) + Len(u) + 0 = Len(whole) \/ (u = <<>> /\ 0 > 0)
  BY <1>1 DEF Held
<1>3. n \in Nat /\ n < Len(s)
  OBVIOUS
<1>4. /\ ends[n] \in Nat /\ ends[n + 1] \in Nat
      /\ ends[n + 1] = ends[n] + Len(Encoded(w, s, n + 1)) /\ ends[n + 1] <= Len(whole)
  <2>1. u \in Seq(Byte)
    BY <1>1
  <2> QED BY <1>2, <1>3, <2>1, CurrentAgrees
<1>5. Encoded(w, s, n + 1) \in Seq(Byte)
  <2>1. n + 1 \in 1..Len(s)
    BY <1>3
  <2> QED BY <2>1, EncodedFacts
<1>6. /\ Len(d) \in Nat /\ Len(u) = 0 /\ Len(Encoded(w, s, n + 1)) \in Nat
      /\ Len(whole) \in Nat
  BY <1>1, <1>2, <1>5 DEF Layout
<1>7. ends[n] + Len(d) + Len(u) + 0 = Len(whole)
  BY <1>2
<1> QED BY <1>4, <1>6, <1>7

\* While bytes are on their way a message has not been read.
LEMMA HeldMore ==
    ASSUME NEW w \in {"request", "answer"}, NEW s \in Seq(MessagesOf(w)),
           NEW n \in 0..Len(s), NEW d \in Seq(Byte), NEW u \in Seq(Byte), NEW gone,
           Held(w, s, n, d, u, gone), u # <<>>
    PROVE  n # Len(s)
<1> SUFFICES ASSUME n = Len(s) PROVE FALSE
  OBVIOUS
<1>1. PICK whole, ends : Layout(w, s, whole, ends) /\ InPlace(whole, ends[n], d, u)
  BY DEF Held
<1>2. ends[n] = Len(whole) /\ ends[n] \in Nat
  BY <1>1, LayoutFacts
<1>3. Len(d) \in Nat /\ Len(u) \in Nat /\ Len(u) # 0
  OBVIOUS
<1>4. ends[n] + Len(d) + Len(u) <= Len(whole)
  BY <1>1 DEF InPlace
<1> QED BY <1>2, <1>3, <1>4

\* Message::encode and send put a message behind the others.
LEMMA HeldSend ==
    ASSUME NEW w \in {"request", "answer"}, NEW s \in Seq(MessagesOf(w)), NEW m \in MessagesOf(w),
           NEW n \in 0..Len(s), NEW d \in Seq(Byte), NEW u \in Seq(Byte), Held(w, s, n, d, u, 0)
    PROVE  LET x == Encoded(w, Append(s, m), Len(s) + 1)
           IN  u \o x \in Seq(Byte) /\ Held(w, Append(s, m), n, d, u \o x, 0)
<1> DEFINE x == Encoded(w, Append(s, m), Len(s) + 1)
<1>1. PICK whole, ends : /\ Layout(w, s, whole, ends) /\ InPlace(whole, ends[n], d, u)
                         /\ ends[n] + Len(d) + Len(u) + 0 = Len(whole) \/ (u = <<>> /\ 0 > 0)
  BY DEF Held
<1>2. /\ x \in Seq(Byte)
      /\ \E places : /\ Layout(w, Append(s, m), whole \o x, places)
                     /\ \A k \in 0..Len(s) : places[k] = ends[k]
  BY <1>1, LayoutAppend
<1> HIDE DEF x
<1>3. PICK places : /\ Layout(w, Append(s, m), whole \o x, places)
                    /\ \A k \in 0..Len(s) : places[k] = ends[k]
  BY <1>2
<1>4. whole \in Seq(Byte) /\ Len(whole) \in Nat /\ ends[n] \in Nat
  BY <1>1, LayoutFacts
<1>5. Len(d) \in Nat /\ Len(u) \in Nat
  OBVIOUS
<1>6. ends[n] + Len(d) + Len(u) = Len(whole)
  BY <1>1, <1>4, <1>5
<1>7. /\ u \o x \in Seq(Byte)
      /\ InPlace(whole \o x, ends[n], d, u \o x)
      /\ ends[n] + Len(d) + Len(u \o x) = Len(whole \o x)
  <2> DEFINE b == ends[n]
  <2>1. InPlace(whole, b, d, u) /\ b \in Nat /\ b + Len(d) + Len(u) = Len(whole)
    BY <1>1, <1>4, <1>6
  <2>2. whole \in Seq(Byte) /\ x \in Seq(Byte)
    BY <1>2, <1>4
  <2> HIDE DEF b
  <2>3. /\ u \o x \in Seq(Byte) /\ InPlace(whole \o x, b, d, u \o x)
        /\ b + Len(d) + Len(u \o x) = Len(whole \o x)
    BY <2>1, <2>2, PlaceSend
  <2> QED BY <2>3 DEF b
<1>8. /\ InPlace(whole \o x, places[n], d, u \o x)
      /\ places[n] + Len(d) + Len(u \o x) + 0 = Len(whole \o x)
  <2>1. places[n] = ends[n]
    BY <1>3
  <2>2. Len(u \o x) \in Nat
    BY <1>7
  <2>3. ends[n] + Len(d) + Len(u \o x) + 0 = ends[n] + Len(d) + Len(u \o x)
    BY <1>4, <1>5, <2>2
  <2> QED BY <1>7, <2>1, <2>3
<1>9. Held(w, Append(s, m), n, d, u \o x, 0)
  BY <1>3, <1>8 DEF Held
<1> QED BY <1>7, <1>9 DEF x

\* The peer ends: the bytes behind its end are lost, none in front of it.
LEMMA HeldEnd ==
    ASSUME NEW w \in {"request", "answer"}, NEW s \in Seq(MessagesOf(w)),
           NEW n \in 0..Len(s), NEW d \in Seq(Byte), NEW u \in Seq(Byte), Held(w, s, n, d, u, 0),
           NEW k \in 0..Len(u)
    PROVE  SubSeq(u, 1, k) \in Seq(Byte) /\ Held(w, s, n, d, SubSeq(u, 1, k), Len(u) - k)
<1>1. PICK whole, ends : /\ Layout(w, s, whole, ends) /\ InPlace(whole, ends[n], d, u)
                         /\ ends[n] + Len(d) + Len(u) + 0 = Len(whole) \/ (u = <<>> /\ 0 > 0)
  BY DEF Held
<1> DEFINE v == SubSeq(u, 1, k)
<1>2. v \in Seq(Byte) /\ Len(v) = k
  BY Cut
<1>3. whole \in Seq(Byte) /\ Len(whole) \in Nat /\ ends[n] \in Nat
  BY <1>1, LayoutFacts
<1>4. Len(d) \in Nat /\ Len(u) \in Nat /\ k \in Nat /\ 0 \in 0..Len(d)
  OBVIOUS
<1>5. InPlace(whole, ends[n], d, v)
  BY <1>1, <1>3, <1>4, PlaceShort
<1> HIDE DEF v
<1>6. ends[n] + Len(d) + Len(v) + (Len(u) - k) = Len(whole)
  <2>1. ends[n] + Len(d) + Len(u) + 0 = Len(whole) /\ Len(v) = k
    BY <1>1, <1>2
  <2> QED BY <1>3, <1>4, <2>1
<1>7. Held(w, s, n, d, v, Len(u) - k)
  BY <1>1, <1>5, <1>6 DEF Held
<1> QED BY <1>2, <1>7 DEF v

\* recv takes the next bytes of the stream.
LEMMA HeldRecv ==
    ASSUME NEW w \in {"request", "answer"}, NEW s \in Seq(MessagesOf(w)),
           NEW n \in 0..Len(s), NEW d \in Seq(Byte), NEW u \in Seq(Byte), NEW gone \in Nat,
           Held(w, s, n, d, u, gone), u # <<>>, NEW k \in 0..Len(u)
    PROVE  LET d2 == d \o SubSeq(u, 1, k)
               u2 == SubSeq(u, k + 1, Len(u))
           IN  /\ d2 \in Seq(Byte) /\ Len(d2) = Len(d) + k
               /\ u2 \in Seq(Byte) /\ Len(u2) = Len(u) - k
               /\ Held(w, s, n, d2, u2, gone)
<1>1. PICK whole, ends : /\ Layout(w, s, whole, ends) /\ InPlace(whole, ends[n], d, u)
                         /\ ends[n] + Len(d) + Len(u) + gone = Len(whole)
  BY DEF Held
<1> DEFINE d2 == d \o SubSeq(u, 1, k)
           u2 == SubSeq(u, k + 1, Len(u))
<1>2. whole \in Seq(Byte) /\ Len(whole) \in Nat /\ ends[n] \in Nat
  BY <1>1, LayoutFacts
<1>3. /\ d2 \in Seq(Byte) /\ Len(d2) = Len(d) + k
      /\ u2 \in Seq(Byte) /\ Len(u2) = Len(u) - k
      /\ InPlace(whole, ends[n], d2, u2)
  BY <1>1, <1>2, PlaceRecv
<1> HIDE DEF d2, u2
<1>4. ends[n] + Len(d2) + Len(u2) + gone = Len(whole)
  <2>1. Len(d) \in Nat /\ Len(u) \in Nat /\ k \in Nat
    OBVIOUS
  <2>2. ends[n] + Len(d) + Len(u) + gone = Len(whole)
        /\ Len(d2) = Len(d) + k /\ Len(u2) = Len(u) - k
    BY <1>1, <1>3
  <2> QED BY <1>2, <2>1, <2>2
<1>5. Held(w, s, n, d2, u2, gone)
  BY <1>1, <1>3, <1>4 DEF Held
<1> QED BY <1>3, <1>5 DEF d2, u2

\* What is dropped of a part was of a message that lost bytes.
LEMMA HeldFails ==
    ASSUME NEW w \in {"request", "answer"}, NEW s \in Seq(MessagesOf(w)),
           NEW n \in 0..Len(s), NEW d \in Seq(Byte), NEW u \in Seq(Byte), NEW gone \in Nat,
           gone # 0, u = <<>>, Held(w, s, n, d, u, gone), NEW k \in 0..Len(d)
    PROVE  Held(w, s, n, SubSeq(d, 1, k), u, gone)
<1>1. PICK whole, ends : Layout(w, s, whole, ends) /\ InPlace(whole, ends[n], d, u)
  BY DEF Held
<1>2. whole \in Seq(Byte) /\ ends[n] \in Nat
  BY <1>1, LayoutFacts
<1>3. 0 \in 0..Len(u)
  OBVIOUS
<1>4. InPlace(whole, ends[n], SubSeq(d, 1, k), u)
  BY <1>1, <1>2, <1>3, PlaceShort
<1>5. u = <<>> /\ gone > 0
  OBVIOUS
<1> QED BY <1>1, <1>4, <1>5 DEF Held

\* The next message begins where the one that was read ends, unless there are none to come.
LEMMA HeldHandle ==
    ASSUME NEW w \in {"request", "answer"}, NEW s \in Seq(MessagesOf(w)),
           NEW n \in 0..Len(s), n # Len(s), NEW d \in Seq(Byte), NEW u \in Seq(Byte),
           NEW gone \in Nat, Held(w, s, n, d, u, gone),
           Len(d) <= Len(Encoded(w, s, n + 1)),
           Len(d) = Len(Encoded(w, s, n + 1)) \/ u = <<>>
    PROVE  Held(w, s, n + 1, <<>>, u, gone)
<1> DEFINE e == Len(Encoded(w, s, n + 1))
<1>1. PICK whole, ends : /\ Layout(w, s, whole, ends) /\ InPlace(whole, ends[n], d, u)
                         /\ \/ ends[n] + Len(d) + Len(u) + gone = Len(whole)
                            \/ u = <<>> /\ gone > 0
  BY DEF Held
<1>2. n \in Nat /\ n < Len(s) /\ n + 1 \in 1..Len(s)
  OBVIOUS
<1>3. /\ ends[n] \in Nat /\ ends[n + 1] \in Nat
      /\ ends[n + 1] = ends[n] + e /\ ends[n + 1] <= Len(whole)
  BY <1>1, <1>2, CurrentAgrees
<1>4. Encoded(w, s, n + 1) \in Seq(Byte)
  BY <1>2, EncodedFacts
<1>5. e \in Nat /\ Len(d) \in Nat /\ Len(u) \in Nat
  BY <1>4
<1>6. whole \in Seq(Byte) /\ Len(whole) \in Nat
  BY <1>1, LayoutFacts
<1>7. Len(d) <= e /\ (Len(d) = e \/ u = <<>>)
  OBVIOUS
<1> HIDE DEF e
<1>8. InPlace(whole, ends[n + 1], <<>>, u)
  <2>1. ends[n + 1] = ends[n] + Len(d) \/ u = <<>>
    BY <1>3, <1>7
  <2> QED BY <1>1, <1>3, <1>6, <2>1, PlaceNext
<1>9. Len(<<>>) = 0
  OBVIOUS
<1>10. ends[n + 1] + 0 + Len(u) + gone = Len(whole) \/ (u = <<>> /\ gone > 0)
  <2>1. CASE u = <<>> /\ gone > 0
    BY <2>1
  <2>2. CASE ends[n] + Len(d) + Len(u) + gone = Len(whole)
    <3>1. CASE Len(d) = e
      BY <1>3, <1>5, <1>6, <2>2, <3>1
    <3>2. CASE Len(d) # e
      <4>1. u = <<>> /\ Len(d) < e
        BY <1>5, <1>7, <3>2
      <4>2. Len(u) = 0
        BY <4>1
      <4>3. gone > 0
        BY <1>3, <1>5, <1>6, <2>2, <4>1, <4>2
      <4> QED BY <4>1, <4>3
    <3> QED BY <3>1, <3>2
  <2> QED BY <1>1, <2>1, <2>2
<1> QED BY <1>1, <1>8, <1>9, <1>10 DEF Held

-----------------------------------------------------------------------------
(* The invariant.                                                          *)

IsSeq(s) == Len(s) \in Nat /\ s = [k \in 1..Len(s) |-> s[k]]

\* The length the data of the message behind the first n have when part p is there.
Until(w, s, n, p) == IF p <= 6 THEN Offset[p + 1] ELSE Len(Encoded(w, s, n + 1))

Shape ==
    /\ way \in {"request", "answer"}
    /\ sent \in Seq(MessagesOf(way))
    /\ wire \in Seq(Byte) /\ data \in Seq(Byte)
    /\ alive \in BOOLEAN
    /\ lost \in Nat
    /\ part \in 1..7 /\ left \in Nat
    /\ state \in {"open", "closed", "terminated"}
    /\ IsSeq(arrived) /\ Len(arrived) \in 0..Len(sent)

\* A part that is shorter than it should be is the last one.
Receiving ==
    /\ Len(data) + left <= Until(way, sent, Len(arrived), part)
    /\ Len(data) + left = Until(way, sent, Len(arrived), part) \/ (wire = <<>> /\ ~alive)
    /\ part = 7 => Len(arrived) # Len(sent) /\ HeaderSize <= Len(data)
    /\ data # <<>> => Len(arrived) # Len(sent)

Ends ==
    /\ alive => lost = 0
    /\ state = "closed" => ~alive /\ data = <<>> /\ wire = <<>>
    /\ state = "terminated" => lost > 0 \/ \E k \in 1..Len(sent) : LostIn(way, sent[k])

Arrived(w, s, a, gone) ==
    \A k \in 1..Len(a) :
        \/ a[k] = s[k].values
        \/ LostIn(w, s[k])
        \/ a[k] = Undefined /\ w = "answer" /\ gone > 0

IInv ==
    /\ Shape
    /\ Receiving
    /\ Ends
    /\ Arrived(way, sent, arrived, lost)
    /\ Held(way, sent, Len(arrived), data, wire, lost)

\* Before the first message the receiver waits for one byte.
LEMMA InitInv == Init => IInv
<1> SUFFICES ASSUME Init PROVE IInv
  OBVIOUS
<1>1. /\ way \in {"request", "answer"} /\ sent = <<>> /\ wire = <<>> /\ arrived = <<>>
      /\ data = <<>> /\ alive = TRUE /\ lost = 0 /\ part = 1 /\ left = 1 /\ state = "open"
  BY DEF Init, Header
<1>2. <<>> \in Seq(Byte) /\ <<>> \in Seq(MessagesOf(way)) /\ Len(<<>>) = 0 /\ 1..0 = {}
      /\ IsSeq(<<>>)
  BY DEF IsSeq
<1>3. Shape
  BY <1>1, <1>2 DEF Shape
<1>4. Until(way, sent, Len(arrived), part) = 1
  BY <1>1 DEF Until, Offset
<1>5. Receiving
  BY <1>1, <1>2, <1>4 DEF Receiving
<1>6. Ends
  BY <1>1 DEF Ends
<1>7. Arrived(way, sent, arrived, lost)
  BY <1>1, <1>2 DEF Arrived
<1> DEFINE ends == [k \in 0..0 |-> 0]
<1>8. Layout(way, <<>>, <<>>, ends)
  BY <1>2 DEF Layout
<1>9. InPlace(<<>>, ends[0], <<>>, <<>>)
  BY <1>2 DEF InPlace
<1>10. ends[0] + Len(<<>>) + Len(<<>>) + 0 = Len(<<>>)
  BY <1>2
<1> HIDE DEF ends
<1>11. Held(way, <<>>, 0, <<>>, <<>>, 0)
  BY <1>8, <1>9, <1>10 DEF Held
<1>12. Held(way, sent, Len(arrived), data, wire, lost)
  BY <1>1, <1>2, <1>11
<1> QED BY <1>3, <1>5, <1>6, <1>7, <1>12 DEF IInv

\* A message that is sent disturbs none that is being received.
LEMMA SendInv ==
    ASSUME IInv, NEW m \in Messages, Send(m)
    PROVE  IInv'
<1> DEFINE t == Append(sent, m)
           x == Encoded(way, t, Len(sent) + 1)
           n == Len(arrived)
<1>1. Shape /\ Receiving /\ Ends /\ Arrived(way, sent, arrived, lost)
      /\ Held(way, sent, n, data, wire, lost)
  BY DEF IInv
<1>2. /\ way \in {"request", "answer"} /\ sent \in Seq(MessagesOf(way))
      /\ wire \in Seq(Byte) /\ data \in Seq(Byte) /\ n \in 0..Len(sent)
  BY <1>1 DEF Shape
<1>3. m \in MessagesOf(way)
  BY DEF Messages, MessagesOf
<1>4. t \in Seq(MessagesOf(way)) /\ Len(t) = Len(sent) + 1 /\ t[Len(sent) + 1] = m
      /\ Len(sent) \in Nat /\ \A k \in 1..Len(sent) : t[k] = sent[k]
  BY <1>2, <1>3
<1>5. sent' = t /\ wire' = wire \o x
  <2>1. Content(m) = ContentOf(way, m)
    BY DEF Content, ContentOf
  <2>2. x = encode(IF way = "request" THEN 0 ELSE 4, Len(sent) + 1, ContentOf(way, m))
    BY <1>4 DEF Encoded
  <2> HIDE DEF x, t
  <2> QED BY <2>1, <2>2 DEF Send, t
<1>6. /\ way' = way /\ alive' = alive /\ lost' = lost /\ data' = data /\ part' = part
      /\ left' = left /\ arrived' = arrived /\ state' = state /\ alive
  BY DEF Send
<1>7. lost = 0 /\ state # "closed"
  BY <1>1, <1>6 DEF Ends
<1>8. wire \o x \in Seq(Byte) /\ Held(way, t, n, data, wire \o x, 0)
  <2>1. Held(way, sent, n, data, wire, 0)
    BY <1>1, <1>7
  <2> HIDE DEF n
  <2> QED BY <1>2, <1>3, <2>1, HeldSend
<1>9. \A k \in 1..Len(sent) : Encoded(way, t, k) = Encoded(way, sent, k)
  BY <1>2, <1>3, AppendedMessage
<1> HIDE DEF t, x
<1>10. Shape'
  <2>1. n \in 0..Len(t)
    BY <1>2, <1>4
  <2>2. IsSeq(arrived)'
    BY <1>1, <1>6 DEF Shape, IsSeq
  <2> QED BY <1>1, <1>4, <1>5, <1>6, <1>8, <2>1, <2>2 DEF Shape
<1>11. Receiving'
  <2>1. part = 7 => n + 1 \in 1..Len(sent)
    BY <1>1, <1>2, <1>4 DEF Receiving
  <2>2. part \in 1..7
    BY <1>1 DEF Shape
  <2>3. Until(way, t, n, part) = Until(way, sent, n, part)
    BY <1>9, <2>1, <2>2 DEF Until
  <2>4. /\ Len(data) + left = Until(way, sent, n, part)
        /\ Len(data) + left <= Until(way, sent, n, part)
    BY <1>1, <1>6 DEF Receiving
  <2>5. n # Len(t)
    BY <1>2, <1>4
  <2>6. part = 7 => HeaderSize <= Len(data)
    BY <1>1 DEF Receiving
  <2>7. (Len(data) + left <= Until(way, sent, n, part))'
        /\ (Len(data) + left = Until(way, sent, n, part))'
    BY <1>5, <1>6, <2>3, <2>4
  <2>8. (part = 7 => HeaderSize <= Len(data))' /\ (n # Len(sent))'
    BY <1>5, <1>6, <2>5, <2>6
  <2> QED BY <2>7, <2>8 DEF Receiving
<1>12. Ends'
  <2>1. state = "terminated" => \E k \in 1..Len(t) : LostIn(way, t[k])
    <3>1. ASSUME state = "terminated" PROVE \E k \in 1..Len(t) : LostIn(way, t[k])
      <4>1. PICK k \in 1..Len(sent) : LostIn(way, sent[k])
        BY <1>1, <1>7, <3>1 DEF Ends
      <4>2. k \in 1..Len(t) /\ t[k] = sent[k]
        BY <1>4
      <4> QED BY <4>1, <4>2
    <3> QED BY <3>1
  <2> QED BY <1>5, <1>6, <1>7, <2>1 DEF Ends
<1>13. Arrived(way, sent, arrived, lost)'
  <2>1. ASSUME NEW k \in 1..n PROVE k \in 1..Len(sent) /\ t[k] = sent[k]
    BY <1>2, <1>4
  <2>2. Arrived(way, t, arrived, lost)
    BY <1>1, <2>1 DEF Arrived
  <2> QED BY <1>5, <1>6, <2>2
<1>14. Held(way, sent, n, data, wire, lost)'
  BY <1>5, <1>6, <1>7, <1>8
<1> QED BY <1>10, <1>11, <1>12, <1>13, <1>14 DEF IInv

\* The peer ends once, with what had left it still on its way.
LEMMA EndInv ==
    ASSUME IInv, NEW k \in 0..Len(wire), End(k)
    PROVE  IInv'
<1> DEFINE v == SubSeq(wire, 1, k)
           n == Len(arrived)
<1>1. Shape /\ Receiving /\ Ends /\ Arrived(way, sent, arrived, lost)
      /\ Held(way, sent, n, data, wire, lost)
  BY DEF IInv
<1>2. /\ way \in {"request", "answer"} /\ sent \in Seq(MessagesOf(way))
      /\ wire \in Seq(Byte) /\ data \in Seq(Byte) /\ n \in 0..Len(sent)
  BY <1>1 DEF Shape
<1>3. /\ way' = way /\ sent' = sent /\ data' = data /\ part' = part /\ left' = left
      /\ arrived' = arrived /\ state' = state
      /\ alive /\ alive' = FALSE /\ wire' = v /\ lost' = Len(wire) - k
  BY DEF End
<1>4. lost = 0 /\ state # "closed"
  BY <1>1, <1>3 DEF Ends
<1>5. Len(wire) - k \in Nat
  BY <1>2
<1>6. v \in Seq(Byte) /\ Held(way, sent, n, data, v, Len(wire) - k)
  <2>1. Held(way, sent, n, data, wire, 0)
    BY <1>1, <1>4
  <2> HIDE DEF n
  <2> QED BY <1>2, <2>1, HeldEnd
<1> HIDE DEF v
<1>7. Shape'
  <2>1. IsSeq(arrived)'
    BY <1>1, <1>3 DEF Shape, IsSeq
  <2> QED BY <1>1, <1>3, <1>5, <1>6, <2>1 DEF Shape
<1>8. Receiving'
  BY <1>1, <1>3 DEF Receiving
<1>9. Ends'
  <2>1. state = "terminated" => \E j \in 1..Len(sent) : LostIn(way, sent[j])
    BY <1>1, <1>4 DEF Ends
  <2> QED BY <1>3, <1>4, <2>1 DEF Ends
<1>10. Arrived(way, sent, arrived, lost)'
  <2>1. Arrived(way, sent, arrived, Len(wire) - k)
    BY <1>1, <1>4 DEF Arrived
  <2> QED BY <1>3, <2>1
<1>11. Held(way, sent, n, data, wire, lost)'
  BY <1>3, <1>6
<1> QED BY <1>7, <1>8, <1>9, <1>10, <1>11 DEF IInv

\* A part ends within its message.
LEMMA UntilFacts ==
    ASSUME NEW w \in {"request", "answer"}, NEW s \in Seq(MessagesOf(w)), NEW n \in 0..Len(s),
           NEW p \in 1..7
    PROVE  /\ p <= 6 \/ n # Len(s) => Until(w, s, n, p) \in Nat
           /\ n # Len(s) => /\ Len(Encoded(w, s, n + 1)) \in Nat
                            /\ HeaderSize <= Len(Encoded(w, s, n + 1))
                            /\ Until(w, s, n, p) <= Len(Encoded(w, s, n + 1))
           /\ p <= 6 => Until(w, s, n, p) = Offset[p + 1] /\ Until(w, s, n, p) <= HeaderSize
<1>1. ASSUME p <= 6
      PROVE  /\ Until(w, s, n, p) \in Nat /\ Until(w, s, n, p) = Offset[p + 1]
             /\ Until(w, s, n, p) <= HeaderSize
  <2>1. Until(w, s, n, p) = Offset[p + 1] /\ p + 1 \in 1..7
    BY <1>1 DEF Until
  <2>2. Offset[p + 1] \in 0..20
    BY <2>1, HeaderParts
  <2>3. Offset[p + 1] \in Nat /\ Offset[p + 1] <= 20
    <3>1. \A o \in 0..20 : o \in Nat /\ o <= 20
      OBVIOUS
    <3> QED BY <2>2, <3>1
  <2>4. Offset[p + 1] <= HeaderSize
    BY <2>3 DEF HeaderSize
  <2> QED BY <2>1, <2>3, <2>4
<1>2. ASSUME n # Len(s)
      PROVE  /\ Len(Encoded(w, s, n + 1)) \in Nat
             /\ HeaderSize <= Len(Encoded(w, s, n + 1))
  <2>1. n + 1 \in 1..Len(s)
    BY <1>2
  <2>2. /\ ContentOf(w, s[n + 1]) \in Seq(Byte)
        /\ Len(Encoded(w, s, n + 1)) = HeaderSize + Len(ContentOf(w, s[n + 1]))
    BY <2>1, EncodedFacts
  <2>3. Len(ContentOf(w, s[n + 1])) \in Nat
    BY <2>2
  <2> QED BY <2>2, <2>3 DEF HeaderSize
<1>3. ASSUME ~(p <= 6) PROVE Until(w, s, n, p) = Len(Encoded(w, s, n + 1))
  BY <1>3 DEF Until
<1>4. HeaderSize \in Nat
  BY DEF HeaderSize
<1>5. ASSUME n # Len(s)
      PROVE  Until(w, s, n, p) <= Len(Encoded(w, s, n + 1)) /\ Until(w, s, n, p) \in Nat
  BY <1>1, <1>2, <1>3, <1>4, <1>5
<1> QED BY <1>1, <1>2, <1>5

\* No more is received than a part waits for.
LEMMA RecvInv ==
    ASSUME IInv, wire # <<>>, NEW k \in {1, LowerOf(left, Len(wire))}, Recv(k)
    PROVE  IInv'
<1> DEFINE n == Len(arrived)
           d2 == data \o SubSeq(wire, 1, k)
           u2 == SubSeq(wire, k + 1, Len(wire))
           goal == Until(way, sent, n, part)
<1>1. Shape /\ Receiving /\ Ends /\ Arrived(way, sent, arrived, lost)
      /\ Held(way, sent, n, data, wire, lost)
  BY DEF IInv
<1>2. /\ way \in {"request", "answer"} /\ sent \in Seq(MessagesOf(way)) /\ lost \in Nat
      /\ wire \in Seq(Byte) /\ data \in Seq(Byte) /\ n \in 0..Len(sent) /\ left \in Nat
  BY <1>1 DEF Shape
<1>3. /\ way' = way /\ sent' = sent /\ alive' = alive /\ lost' = lost /\ part' = part
      /\ arrived' = arrived /\ state' = state
      /\ state = "open" /\ left > 0 /\ wire' = u2 /\ data' = d2 /\ left' = left - k
  BY DEF Recv
<1>4. k \in 0..Len(wire) /\ k \in 0..left
  <2>1. Len(wire) \in Nat /\ Len(wire) # 0
    BY <1>2
  <2> QED BY <1>2, <1>3, <2>1 DEF LowerOf
<1>5. /\ d2 \in Seq(Byte) /\ Len(d2) = Len(data) + k
      /\ u2 \in Seq(Byte) /\ Len(u2) = Len(wire) - k
      /\ Held(way, sent, n, d2, u2, lost)
  <2> HIDE DEF n
  <2> QED BY <1>1, <1>2, <1>4, HeldRecv
<1>6. n # Len(sent)
  <2> HIDE DEF n
  <2> QED BY <1>1, <1>2, HeldMore
<1> HIDE DEF d2, u2
<1>7. Shape'
  <2>1. IsSeq(arrived)'
    BY <1>1, <1>3 DEF Shape, IsSeq
  <2>2. left - k \in Nat
    BY <1>2, <1>4
  <2> QED BY <1>1, <1>3, <1>5, <2>1, <2>2 DEF Shape
<1>8. Receiving'
  <2>1. Len(data) + left = goal /\ Len(data) + left <= goal
    BY <1>1 DEF Receiving
  <2>2. part = 7 => HeaderSize <= Len(data)
    BY <1>1 DEF Receiving
  <2> HIDE DEF goal, n
  <2>3. Len(data) \in Nat /\ Len(d2) = Len(data) + k /\ k \in Nat
    BY <1>2, <1>4, <1>5
  <2>4. Len(d2) + (left - k) = Len(data) + left
    BY <1>2, <2>3
  <2>5. part = 7 => HeaderSize <= Len(d2)
    BY <2>2, <2>3 DEF HeaderSize
  <2>6. (Len(data) + left = Until(way, sent, n, part))'
        /\ (Len(data) + left <= Until(way, sent, n, part))'
    BY <1>3, <2>1, <2>4 DEF goal, n
  <2>7. (part = 7 => HeaderSize <= Len(data))' /\ (n # Len(sent))'
    BY <1>3, <1>6, <2>5 DEF n
  <2> QED BY <2>6, <2>7 DEF Receiving, n
<1>9. Ends'
  BY <1>1, <1>3 DEF Ends
<1>10. Arrived(way, sent, arrived, lost)'
  BY <1>1, <1>3
<1>11. Held(way, sent, n, data, wire, lost)'
  BY <1>3, <1>5
<1> QED BY <1>7, <1>8, <1>9, <1>10, <1>11 DEF IInv

\* A part is left short only at the end of the connection.
LEMMA RecvEndInv ==
    ASSUME IInv, RecvEnd
    PROVE  IInv'
<1>1. Shape /\ Receiving /\ Ends /\ Arrived(way, sent, arrived, lost)
      /\ Held(way, sent, Len(arrived), data, wire, lost)
  BY DEF IInv
<1>2. /\ way' = way /\ sent' = sent /\ wire' = wire /\ alive' = alive /\ lost' = lost
      /\ data' = data /\ part' = part /\ arrived' = arrived /\ state' = state
      /\ left > 0 /\ wire = <<>> /\ ~alive /\ left' = 0
  BY DEF RecvEnd
<1>3. Shape'
  <2>1. IsSeq(arrived)'
    BY <1>1, <1>2 DEF Shape, IsSeq
  <2> QED BY <1>1, <1>2, <2>1 DEF Shape
<1>4. Receiving'
  <2> DEFINE goal == Until(way, sent, Len(arrived), part)
  <2>1. Len(data) \in Nat /\ left \in Nat /\ Len(data) + left <= goal
    BY <1>1 DEF Shape, Receiving
  <2>2. goal \in Int
    <3>1. part \in 1..7 /\ (part <= 6 \/ Len(arrived) # Len(sent))
      BY <1>1 DEF Shape, Receiving
    <3>2. goal \in Nat
      BY <1>1, <3>1, UntilFacts DEF Shape
    <3> QED BY <3>2
  <2> HIDE DEF goal
  <2>3. Len(data) + 0 <= goal
    BY <2>1, <2>2
  <2>4. (Len(data) + left <= Until(way, sent, Len(arrived), part))'
    BY <1>2, <2>3 DEF goal
  <2> QED BY <1>1, <1>2, <2>4 DEF Receiving
<1>5. Ends'
  BY <1>1, <1>2 DEF Ends
<1>6. Arrived(way, sent, arrived, lost)'
  BY <1>1, <1>2
<1>7. Held(way, sent, Len(arrived), data, wire, lost)'
  BY <1>1, <1>2
<1> QED BY <1>3, <1>4, <1>5, <1>6, <1>7 DEF IInv

\* recv fails only where a message has lost bytes, or where nothing has come of one.
LEMMA RecvFailsInv ==
    ASSUME IInv, RecvFails
    PROVE  IInv'
<1> DEFINE n == Len(arrived)
           k == LowerOf(Len(data), Offset[part])
           goal == Until(way, sent, n, part)
<1>1. Shape /\ Receiving /\ Ends /\ Arrived(way, sent, arrived, lost)
      /\ Held(way, sent, n, data, wire, lost)
  BY DEF IInv
<1>2. /\ way \in {"request", "answer"} /\ sent \in Seq(MessagesOf(way)) /\ lost \in Nat
      /\ wire \in Seq(Byte) /\ data \in Seq(Byte) /\ n \in 0..Len(sent) /\ left \in Nat
      /\ part \in 1..7
  BY <1>1 DEF Shape
<1>3. /\ way' = way /\ sent' = sent /\ wire' = wire /\ alive' = alive /\ lost' = lost
      /\ part' = part /\ arrived' = arrived /\ state' = state
      /\ state = "open" /\ left > 0 /\ wire = <<>> /\ ~alive /\ left' = 0
      /\ data' = SubSeq(data, 1, k)
  BY DEF RecvFails
<1>4. Len(data) \in Nat /\ Offset[part] \in Nat /\ Offset[part] <= HeaderSize
  <2>1. Offset[part] \in 0..20
    BY <1>2, HeaderParts
  <2>2. Len(data) \in Nat
    BY <1>2
  <2>3. Offset[part] \in Nat /\ Offset[part] <= 20
    BY <2>1
  <2>4. Offset[part] <= HeaderSize
    BY <2>3 DEF HeaderSize
  <2> QED BY <2>2, <2>3, <2>4
<1>5. k \in 0..Len(data) /\ k <= Len(data) /\ k <= Offset[part]
      /\ (Offset[part] <= Len(data) => k = Offset[part])
  BY <1>4 DEF LowerOf
<1>6. Len(data) + left <= goal /\ (part = 7 => n # Len(sent) /\ HeaderSize <= Len(data))
      /\ (data # <<>> => n # Len(sent))
  BY <1>1 DEF Receiving
<1> HIDE DEF k
<1>7. SubSeq(data, 1, k) \in Seq(Byte) /\ Len(SubSeq(data, 1, k)) = k
  BY <1>2, <1>5, Cut
<1>8. (part <= 6 \/ n # Len(sent) => goal \in Nat)
      /\ (n # Len(sent) => /\ Len(Encoded(way, sent, n + 1)) \in Nat
                           /\ goal <= Len(Encoded(way, sent, n + 1)))
  <2> HIDE DEF n
  <2> QED BY <1>2, UntilFacts
<1> HIDE DEF goal, n
<1>9. lost = 0 => data = <<>> /\ n = Len(sent)
  <2>1. ASSUME lost = 0, n # Len(sent) PROVE FALSE
    <3>1. Held(way, sent, n, data, <<>>, 0)
      BY <1>1, <1>3, <2>1 DEF n
    <3>2. Len(data) >= Len(Encoded(way, sent, n + 1))
      BY <1>2, <2>1, <3>1, HeldDrained
    <3> QED BY <1>2, <1>3, <1>4, <1>6, <1>8, <2>1, <3>2
  <2> QED BY <1>6, <2>1
<1>10. Shape'
  <2>1. IsSeq(arrived)'
    BY <1>1, <1>3 DEF Shape, IsSeq
  <2> QED BY <1>1, <1>3, <1>7, <2>1 DEF Shape
<1>11. Receiving'
  <2>1. goal \in Nat
    <3>1. part <= 6 \/ part = 7
      BY <1>2
    <3> QED BY <1>6, <1>8, <3>1
  <2>2. k + 0 <= goal
    BY <1>2, <1>4, <1>5, <1>6, <2>1
  <2>3. part = 7 => HeaderSize <= k
    <3>1. Offset[7] = HeaderSize
      BY HeaderParts
    <3> QED BY <1>5, <1>6, <3>1
  <2>4. k # 0 => data # <<>>
    BY <1>5
  <2>5. SubSeq(data, 1, k) # <<>> => n # Len(sent)
    BY <1>6, <1>7, <2>4
  <2>6. (Len(data) + left <= Until(way, sent, Len(arrived), part))'
    BY <1>3, <1>7, <2>2 DEF goal, n
  <2>7. /\ (part = 7 => Len(arrived) # Len(sent) /\ HeaderSize <= Len(data))'
        /\ (data # <<>> => Len(arrived) # Len(sent))'
    BY <1>3, <1>6, <1>7, <2>3, <2>5 DEF n
  <2>8. (wire = <<>> /\ ~alive)'
    BY <1>3
  <2> QED BY <2>6, <2>7, <2>8 DEF Receiving
<1>12. Ends'
  BY <1>1, <1>3 DEF Ends
<1>13. Arrived(way, sent, arrived, lost)'
  BY <1>1, <1>3
<1>14. Held(way, sent, n, SubSeq(data, 1, k), wire, lost)
  <2>1. CASE lost = 0
    <3>1. data = <<>> /\ k = 0
      BY <1>4, <1>5, <1>9, <2>1
    <3>2. SubSeq(data, 1, k) = data
      BY <3>1, <1>7
    <3> QED BY <1>1, <3>2 DEF n
  <2>2. CASE lost # 0
    BY <1>1, <1>2, <1>3, <1>5, <2>2, HeldFails DEF n
  <2> QED BY <2>1, <2>2
<1>15. Held(way, sent, Len(arrived), data, wire, lost)'
  BY <1>3, <1>14 DEF n
<1> QED BY <1>10, <1>11, <1>12, <1>13, <1>15 DEF IInv

\* The next part of the header begins where the last one ended.
LEMMA NextPartInv ==
    ASSUME IInv, NextPart
    PROVE  IInv'
<1>1. Shape /\ Receiving /\ Ends /\ Arrived(way, sent, arrived, lost)
      /\ Held(way, sent, Len(arrived), data, wire, lost)
  BY DEF IInv
<1>2. /\ way' = way /\ sent' = sent /\ wire' = wire /\ alive' = alive /\ lost' = lost
      /\ data' = data /\ arrived' = arrived /\ state' = state
      /\ left = 0 /\ part < 6 /\ part' = part + 1 /\ left' = Header[part + 1]
  BY HeaderParts DEF NextPart
<1>3. part \in 1..5 /\ part + 1 \in 1..6 /\ part + 1 \in 1..7 /\ part + 2 \in 1..7
  BY <1>1, <1>2 DEF Shape
<1>4. Header[part + 1] \in Nat /\ Offset[part + 2] = Offset[part + 1] + Header[part + 1]
      /\ Offset[part + 1] \in Nat
  <2>1. part + 1 + 1 = part + 2
    BY <1>3
  <2> QED BY <1>3, <2>1, HeaderParts
<1>5. Shape'
  <2>1. IsSeq(arrived)'
    BY <1>1, <1>2 DEF Shape, IsSeq
  <2> QED BY <1>1, <1>2, <1>3, <1>4, <2>1 DEF Shape
<1>6. Receiving'
  <2>1. Until(way, sent, Len(arrived), part) = Offset[part + 1]
    BY <1>3 DEF Until
  <2>2. (Until(way, sent, Len(arrived), part))' = Offset[part + 2]
    <3>1. part + 1 <= 6 /\ part + 1 + 1 = part + 2
      BY <1>3
    <3> QED BY <1>2, <3>1 DEF Until
  <2>3. Len(data) \in Nat /\ Len(data) <= Offset[part + 1]
        /\ (Len(data) = Offset[part + 1] \/ (wire = <<>> /\ ~alive))
    <3>1. Len(data) \in Nat /\ Len(data) + 0 = Len(data)
      BY <1>1 DEF Shape
    <3> QED BY <1>1, <1>2, <2>1, <3>1 DEF Receiving
  <2>4. /\ Len(data) + Header[part + 1] <= Offset[part + 2]
        /\ Len(data) + Header[part + 1] = Offset[part + 2] \/ (wire = <<>> /\ ~alive)
    BY <1>4, <2>3
  <2>5. (part # 7)' /\ (data # <<>> => Len(arrived) # Len(sent))'
    BY <1>1, <1>2, <1>3 DEF Receiving
  <2>6. /\ (Len(data) + left <= Until(way, sent, Len(arrived), part))'
        /\ (Len(data) + left = Until(way, sent, Len(arrived), part))' \/ (wire = <<>> /\ ~alive)'
    BY <1>2, <2>2, <2>4
  <2> QED BY <2>5, <2>6 DEF Receiving
<1>7. Ends'
  BY <1>1, <1>2 DEF Ends
<1>8. Arrived(way, sent, arrived, lost)'
  BY <1>1, <1>2
<1>9. Held(way, sent, Len(arrived), data, wire, lost)'
  BY <1>1, <1>2
<1> QED BY <1>5, <1>6, <1>7, <1>8, <1>9 DEF IInv

\* The size is there unless the peer has ended within the header.
LEMMA HeaderReadInv ==
    ASSUME IInv, HeaderRead
    PROVE  IInv'
<1> DEFINE n == Len(arrived)
<1>1. Shape /\ Receiving /\ Ends /\ Arrived(way, sent, arrived, lost)
      /\ Held(way, sent, n, data, wire, lost)
  BY DEF IInv
<1>2. /\ way \in {"request", "answer"} /\ sent \in Seq(MessagesOf(way)) /\ lost \in Nat
      /\ wire \in Seq(Byte) /\ data \in Seq(Byte) /\ n \in 0..Len(sent) /\ left \in Nat
      /\ Len(data) \in Nat
  BY <1>1 DEF Shape
<1>3. /\ way' = way /\ sent' = sent /\ wire' = wire /\ alive' = alive /\ lost' = lost
      /\ data' = data /\ arrived' = arrived
      /\ state = "open" /\ left = 0 /\ part = 6
      /\ data = <<>> => state' = "closed" /\ part' = part /\ left' = left
      /\ data # <<>> /\ ContentSize.ok = TRUE =>
           part' = 7 /\ left' = ContentSize.val /\ state' = state
      /\ data # <<>> /\ ContentSize.ok = FALSE =>
           state' = "terminated" /\ part' = part /\ left' = left
  <2>1. /\ way' = way /\ sent' = sent /\ wire' = wire /\ alive' = alive /\ lost' = lost
        /\ data' = data /\ arrived' = arrived
        /\ state = "open" /\ left = 0 /\ part = 6
    BY HeaderParts DEF HeaderRead
  <2>2. data = <<>> => state' = "closed" /\ part' = part /\ left' = left
    BY DEF HeaderRead
  <2>3. ASSUME data # <<>>, ContentSize.ok = TRUE
        PROVE  part' = 7 /\ left' = ContentSize.val /\ state' = state
    <3>1. part' = part + 1 /\ left' = ContentSize.val /\ state' = state
      BY <2>3 DEF HeaderRead
    <3> QED BY <2>1, <3>1
  <2>4. ASSUME data # <<>>, ContentSize.ok = FALSE
        PROVE  state' = "terminated" /\ part' = part /\ left' = left
    BY <2>4 DEF HeaderRead
  <2> QED BY <2>1, <2>2, <2>3, <2>4
<1>4. Until(way, sent, n, part) = HeaderSize
  BY <1>3, HeaderParts DEF Until
<1>5. /\ Len(data) <= HeaderSize
      /\ Len(data) = HeaderSize \/ (wire = <<>> /\ ~alive)
      /\ data # <<>> => n # Len(sent)
  <2>1. Len(data) + left = Len(data)
    BY <1>2, <1>3
  <2> QED BY <1>1, <1>4, <2>1 DEF Receiving
<1>6. IsSeq(arrived)'
  BY <1>1, <1>3 DEF Shape, IsSeq
<1>7. Arrived(way, sent, arrived, lost)'
  BY <1>1, <1>3
<1>8. Held(way, sent, n, data, wire, lost)'
  BY <1>1, <1>3
<1>9. CASE data = <<>>
  <2>1. state' = "closed" /\ part' = part /\ left' = left
    BY <1>3, <1>9
  <2>2. Len(data) # HeaderSize
    BY <1>9 DEF HeaderSize
  <2>3. Shape'
    BY <1>1, <1>3, <1>6, <2>1 DEF Shape
  <2>4. Receiving'
    BY <1>1, <1>3, <2>1 DEF Receiving
  <2>5. Ends'
    BY <1>1, <1>3, <1>5, <1>9, <2>1, <2>2 DEF Ends
  <2> QED BY <1>7, <1>8, <2>3, <2>4, <2>5 DEF IInv
<1>10. CASE data # <<>>
  <2> DEFINE c == Len(ContentOf(way, sent[n + 1]))
  <2>1. n # Len(sent) /\ n + 1 \in 1..Len(sent)
    BY <1>2, <1>5, <1>10
  <2>2. /\ ContentOf(way, sent[n + 1]) \in Seq(Byte)
        /\ Len(Encoded(way, sent, n + 1)) = HeaderSize + c
    <3> HIDE DEF n
    <3> QED BY <1>2, <2>1, EncodedFacts
  <2>3. c \in Nat
    BY <2>2
  <2>4. Agrees(data, 0, Encoded(way, sent, n + 1))
    <3> HIDE DEF n
    <3> QED BY <1>1, <1>2, <2>1, HeldAgrees
  <2>5. /\ Len(data) >= HeaderSize => ContentSize.ok = TRUE /\ ContentSize.val = c
        /\ Len(data) < HeaderSize => ContentSize.ok = FALSE
    <3> HIDE DEF n
    <3> QED BY <1>2, <2>1, <2>4, SizeOfContent
  <2> HIDE DEF c
  <2>6. CASE Len(data) = HeaderSize
    <3>1. part' = 7 /\ left' = c /\ state' = state
      <4>1. Len(data) >= HeaderSize
        BY <2>6 DEF HeaderSize
      <4>2. ContentSize.ok = TRUE /\ ContentSize.val = c
        BY <2>5, <4>1
      <4> QED BY <1>3, <1>10, <4>2
    <3>2. Shape'
      BY <1>1, <1>3, <1>6, <2>3, <3>1 DEF Shape
    <3>3. (Until(way, sent, n, part))' = HeaderSize + c
      BY <1>3, <2>2, <3>1 DEF Until
    <3>4. Len(data) + c = HeaderSize + c /\ HeaderSize + c <= HeaderSize + c
          /\ HeaderSize <= HeaderSize
      BY <2>3, <2>6 DEF HeaderSize
    <3>5. (Len(data) + left = Until(way, sent, n, part))'
          /\ (Len(data) + left <= Until(way, sent, n, part))'
          /\ (n # Len(sent) /\ HeaderSize <= Len(data))'
      BY <1>3, <2>1, <2>6, <3>1, <3>3, <3>4
    <3>6. Receiving'
      BY <3>5 DEF Receiving
    <3>7. Ends'
      BY <1>1, <1>3, <3>1 DEF Ends
    <3> QED BY <1>7, <1>8, <3>2, <3>6, <3>7 DEF IInv
  <2>7. CASE Len(data) # HeaderSize
    <3>1. Len(data) < HeaderSize /\ wire = <<>> /\ ~alive
      <4>1. HeaderSize \in Nat /\ Len(data) \in Nat /\ Len(data) <= HeaderSize
        BY <1>2, <1>5 DEF HeaderSize
      <4>2. Len(data) < HeaderSize
        BY <2>7, <4>1
      <4> QED BY <1>5, <2>7, <4>2
    <3>2. state' = "terminated" /\ part' = part /\ left' = left
      BY <1>3, <1>10, <2>5, <3>1
    <3>3. lost > 0
      <4>1. ASSUME lost = 0 PROVE FALSE
        <5>1. Held(way, sent, n, data, <<>>, 0)
          BY <1>1, <3>1, <4>1
        <5>2. Len(data) >= Len(Encoded(way, sent, n + 1))
          <6> HIDE DEF n
          <6> QED BY <1>2, <2>1, <5>1, HeldDrained
        <5> QED BY <1>2, <2>2, <2>3, <3>1, <5>2 DEF HeaderSize
      <4> QED BY <1>2, <4>1
    <3>4. Shape'
      BY <1>1, <1>3, <1>6, <3>2 DEF Shape
    <3>5. Receiving'
      BY <1>1, <1>3, <3>2 DEF Receiving
    <3>6. Ends'
      BY <1>1, <1>3, <3>2, <3>3 DEF Ends
    <3> QED BY <1>7, <1>8, <3>4, <3>5, <3>6 DEF IInv
  <2> QED BY <2>6, <2>7
<1> QED BY <1>9, <1>10

\* A sequence of whatever was read, and one value more.
LEMMA AppendAny ==
    ASSUME NEW s, IsSeq(s), NEW x
    PROVE  /\ IsSeq(Append(s, x)) /\ Len(Append(s, x)) = Len(s) + 1
           /\ \A k \in 1..Len(s) : Append(s, x)[k] = s[k]
           /\ Append(s, x)[Len(s) + 1] = x
<1> DEFINE V == {s[k] : k \in 1..Len(s)} \cup {x}
           n == Len(s)
<1>1. n \in Nat /\ s = [k \in 1..n |-> s[k]]
  BY DEF IsSeq
<1>2. s \in [1..n -> V]
  BY <1>1
<1>3. s \in Seq(V) /\ x \in V
  <2>1. x \in V
    OBVIOUS
  <2> HIDE DEF V, n
  <2> QED BY <1>1, <1>2, <2>1, SeqDef
<1> DEFINE t == Append(s, x)
<1>4. /\ t \in Seq(V) /\ Len(t) = Len(s) + 1
      /\ \A k \in 1..Len(s) : t[k] = s[k]
      /\ t[Len(s) + 1] = x
  <2> HIDE DEF V
  <2> QED BY <1>3, AppendProperties
<1> HIDE DEF t
<1>5. IsSeq(t)
  <2>1. Len(t) \in Nat /\ t \in [1..Len(t) -> V]
    <3> HIDE DEF V
    <3> QED BY <1>4
  <2>2. t = [k \in 1..Len(t) |-> t[k]]
    BY <2>1
  <2> QED BY <2>1, <2>2 DEF IsSeq
<1> QED BY <1>4, <1>5 DEF t

\* What is read are the values of the message, unless a string or bytes were lost.
LEMMA HandleInv ==
    ASSUME IInv, Handle
    PROVE  IInv'
<1> DEFINE n == Len(arrived)
           m == sent[n + 1]
           e == Len(Encoded(way, sent, n + 1))
           r == ReadContent(m)
<1>1. Shape /\ Receiving /\ Ends /\ Arrived(way, sent, arrived, lost)
      /\ Held(way, sent, n, data, wire, lost)
  BY DEF IInv
<1>2. /\ way \in {"request", "answer"} /\ sent \in Seq(MessagesOf(way)) /\ lost \in Nat
      /\ wire \in Seq(Byte) /\ data \in Seq(Byte) /\ n \in 0..Len(sent) /\ left \in Nat
      /\ Len(data) \in Nat /\ part \in 1..7 /\ IsSeq(arrived) /\ Len(sent) \in Nat
  BY <1>1 DEF Shape
<1>3. /\ way' = way /\ sent' = sent /\ wire' = wire /\ alive' = alive /\ lost' = lost
      /\ state = "open" /\ left = 0 /\ part = 7
  BY <1>2, HeaderParts DEF Handle
<1>4. /\ r.ok = TRUE => /\ arrived' = Append(arrived, r.val) /\ data' = <<>> /\ part' = 1
                        /\ left' = 1 /\ state' = state
      /\ r.ok # TRUE => /\ state' = "terminated"
                        /\ arrived' = arrived /\ data' = data /\ part' = part /\ left' = left
  <2>1. Header[1] = 1
    BY DEF Header
  <2>2. r = ReadContent(Current)
    BY DEF Current
  <2> HIDE DEF r
  <2>3. ASSUME r.ok = TRUE
        PROVE  /\ arrived' = Append(arrived, r.val) /\ data' = <<>> /\ part' = 1
               /\ left' = 1 /\ state' = state
    BY <2>1, <2>2, <2>3 DEF Handle
  <2>4. ASSUME r.ok # TRUE
        PROVE  /\ state' = "terminated"
               /\ arrived' = arrived /\ data' = data /\ part' = part /\ left' = left
    BY <2>2, <2>4 DEF Handle
  <2> QED BY <2>3, <2>4
<1>5. n # Len(sent) /\ HeaderSize <= Len(data)
  BY <1>1, <1>3 DEF Receiving
<1>6. n + 1 \in 1..Len(sent) /\ n + 1 \in 0..Len(sent)
  BY <1>2, <1>5
<1>7. Len(data) <= e /\ (Len(data) = e \/ (wire = <<>> /\ ~alive))
  <2>1. Until(way, sent, n, part) = e /\ Len(data) + left = Len(data)
    BY <1>2, <1>3 DEF Until
  <2> QED BY <1>1, <2>1 DEF Receiving
<1>8. Agrees(data, 0, Encoded(way, sent, n + 1))
  <2> HIDE DEF n
  <2> QED BY <1>1, <1>2, <1>5, HeldAgrees
<1>9. Held(way, sent, n + 1, <<>>, wire, lost)
  <2>1. Len(data) <= Len(Encoded(way, sent, n + 1))
        /\ (Len(data) = Len(Encoded(way, sent, n + 1)) \/ wire = <<>>)
    BY <1>7
  <2> HIDE DEF n
  <2> QED BY <1>1, <1>2, <1>5, <2>1, HeldHandle
<1>10. e \in Nat
  <2>1. Encoded(way, sent, n + 1) \in Seq(Byte)
    BY <1>2, <1>6, EncodedFacts
  <2> QED BY <2>1
<1>11. Len(data) < e => lost > 0
  <2>1. ASSUME lost = 0, Len(data) < e PROVE FALSE
    <3>1. wire = <<>>
      BY <1>2, <1>7, <1>10, <2>1
    <3>2. Held(way, sent, n, data, <<>>, 0)
      BY <1>1, <2>1, <3>1
    <3>3. Len(data) >= Len(Encoded(way, sent, n + 1))
      <4> HIDE DEF n
      <4> QED BY <1>2, <1>5, <3>2, HeldDrained
    <3> QED BY <1>2, <1>10, <2>1, <3>3
  <2> QED BY <1>2, <2>1
<1>12. \/ LostIn(way, m)
       \/ r.ok = TRUE /\ r.val = m.values
       \/ Len(data) < e /\ (r.ok = TRUE => way = "answer" /\ r.val = Undefined)
  <2>1. Len(data) <= Len(Encoded(way, sent, n + 1))
    BY <1>7
  <2> HIDE DEF n
  <2> QED BY <1>2, <1>5, <1>6, <1>8, <2>1, ContentFound
<1> HIDE DEF e, r, m
<1>13. CASE r.ok = TRUE
  <2> DEFINE t == Append(arrived, r.val)
  <2>1. /\ arrived' = t /\ data' = <<>> /\ part' = 1 /\ left' = 1 /\ state' = state
    BY <1>4, <1>13
  <2>2. IsSeq(t) /\ Len(t) = n + 1 /\ (\A k \in 1..n : t[k] = arrived[k]) /\ t[n + 1] = r.val
    BY <1>2, AppendAny
  <2> HIDE DEF t
  <2>3. Shape'
    <3>1. IsSeq(arrived)' /\ (Len(arrived) \in 0..Len(sent))'
      BY <1>3, <1>6, <2>1, <2>2 DEF IsSeq
    <3>2. <<>> \in Seq(Byte)
      OBVIOUS
    <3> QED BY <1>1, <1>3, <2>1, <3>1, <3>2 DEF Shape
  <2>4. Receiving'
    <3>1. (Until(way, sent, Len(arrived), part))' = 1
      <4>1. Offset[1 + 1] = 1
        BY DEF Offset
      <4> QED BY <2>1, <4>1 DEF Until
    <3>2. Len(<<>>) + 1 = 1
      OBVIOUS
    <3>3. (Len(data) + left = 1)' /\ (part # 7)' /\ (data = <<>>)'
      BY <2>1, <3>2
    <3> QED BY <3>1, <3>3 DEF Receiving
  <2>5. Ends'
    BY <1>1, <1>3, <2>1 DEF Ends
  <2>6. Arrived(way, sent, t, lost)
    <3>1. ASSUME NEW k \in 1..Len(t)
          PROVE  \/ t[k] = sent[k].values
                 \/ LostIn(way, sent[k])
                 \/ t[k] = Undefined /\ way = "answer" /\ lost > 0
      <4>1. CASE k = n + 1
        <5>1. t[k] = r.val /\ sent[k] = m
          BY <2>2, <4>1 DEF m
        <5> QED BY <1>11, <1>12, <1>13, <5>1
      <4>2. CASE k # n + 1
        <5>1. k \in 1..n
          BY <1>2, <2>2, <4>2
        <5> QED BY <1>1, <2>2, <5>1 DEF Arrived
      <4> QED BY <4>1, <4>2
    <3> QED BY <3>1 DEF Arrived
  <2>7. Arrived(way, sent, arrived, lost)'
    BY <1>3, <2>1, <2>6
  <2>8. Held(way, sent, Len(arrived), data, wire, lost)'
    BY <1>3, <1>9, <2>1, <2>2
  <2> QED BY <2>3, <2>4, <2>5, <2>7, <2>8 DEF IInv
<1>14. CASE r.ok # TRUE
  <2>1. /\ state' = "terminated"
        /\ arrived' = arrived /\ data' = data /\ part' = part /\ left' = left
    BY <1>4, <1>14
  <2>2. lost > 0 \/ LostIn(way, sent[n + 1])
    BY <1>11, <1>12, <1>14 DEF m
  <2>3. Shape'
    <3>1. IsSeq(arrived)'
      BY <1>2, <2>1 DEF IsSeq
    <3> QED BY <1>1, <1>3, <2>1, <3>1 DEF Shape
  <2>4. Receiving'
    BY <1>1, <1>3, <2>1 DEF Receiving
  <2>5. Ends'
    <3>1. lost > 0 \/ \E k \in 1..Len(sent) : LostIn(way, sent[k])
      BY <1>6, <2>2
    <3> QED BY <1>1, <1>3, <2>1, <3>1 DEF Ends
  <2>6. Arrived(way, sent, arrived, lost)' /\ Held(way, sent, Len(arrived), data, wire, lost)'
    BY <1>1, <1>3, <2>1
  <2> QED BY <2>3, <2>4, <2>5, <2>6 DEF IInv
<1> QED BY <1>13, <1>14

\* Every step keeps the invariant.
LEMMA NextInv ==
    IInv /\ [Next]_vars => IInv'
<1> SUFFICES ASSUME IInv, [Next]_vars PROVE IInv'
  OBVIOUS
<1>1. ASSUME NEW m \in Messages, Send(m) PROVE IInv'
  BY <1>1, SendInv
<1>2. ASSUME NEW n \in {0, Len(wire)}, End(n) PROVE IInv'
  <2>1. n \in 0..Len(wire)
    <3>1. Len(wire) \in Nat
      BY DEF IInv, Shape
    <3> QED BY <3>1
  <2> QED BY <1>2, <2>1, EndInv
<1>3. ASSUME NEW n \in {1, LowerOf(left, Len(wire))}, wire # <<>>, Recv(n) PROVE IInv'
  BY <1>3, RecvInv
<1>4. CASE RecvEnd
  BY <1>4, RecvEndInv
<1>5. CASE RecvFails
  BY <1>5, RecvFailsInv
<1>6. CASE NextPart
  BY <1>6, NextPartInv
<1>7. CASE HeaderRead
  BY <1>7, HeaderReadInv
<1>8. CASE Handle
  BY <1>8, HandleInv
<1>9. CASE UNCHANGED vars
  <2>1. /\ way' = way /\ sent' = sent /\ wire' = wire /\ alive' = alive /\ lost' = lost
        /\ data' = data /\ part' = part /\ left' = left /\ arrived' = arrived /\ state' = state
    BY <1>9 DEF vars
  <2>2. Shape' /\ Receiving' /\ Ends'
    BY <2>1 DEF IInv, Shape, Receiving, Ends, IsSeq
  <2>3. Arrived(way, sent, arrived, lost)' /\ Held(way, sent, Len(arrived), data, wire, lost)'
    BY <2>1 DEF IInv
  <2> QED BY <2>2, <2>3 DEF IInv
<1> QED BY <1>1, <1>2, <1>3, <1>4, <1>5, <1>6, <1>7, <1>8, <1>9 DEF Next, Receive

\* The stream holds the messages, at every step of the receiver and of its peer.
THEOREM Invariant == Spec => []IInv
BY InitInv, NextInv, PTL DEF Spec

\* TypeOK for all messages and any number of them: no part of the header is longer than the
\* header, and no message is read that was not sent.
THEOREM TypeCorrect == Spec => []TypeOK
<1>1. IInv => TypeOK
  <2> SUFFICES ASSUME IInv PROVE TypeOK
    OBVIOUS
  <2>1. Shape /\ Receiving
    BY DEF IInv
  <2>2. part \in 1..Len(Header) + 1
    <3>1. Len(Header) + 1 = 7
      BY HeaderParts
    <3> QED BY <2>1, <3>1 DEF Shape
  <2>3. ASSUME part <= Len(Header) PROVE Len(data) + left <= HeaderSize
    <3>1. part <= 6
      BY <2>3, HeaderParts
    <3>2. /\ Until(way, sent, Len(arrived), part) \in Nat
          /\ Until(way, sent, Len(arrived), part) <= HeaderSize
      BY <2>1, <3>1, UntilFacts DEF Shape
    <3>3. Len(data) + left \in Nat /\ HeaderSize \in Nat
      BY <2>1 DEF Shape, HeaderSize
    <3> QED BY <2>1, <3>2, <3>3 DEF Receiving
  <2>4. Len(arrived) <= Len(sent)
    BY <2>1 DEF Shape
  <2> QED BY <2>1, <2>2, <2>3, <2>4 DEF Shape, TypeOK
<1> QED BY <1>1, Invariant, PTL

\* ValuesArrive for all messages: however recv cuts the stream, every call and every answer is
\* read as what was sent, in the order of sending, but for strings that were not written and
\* an answer that ends behind its header.
THEOREM ArriveCorrect == Spec => []ValuesArrive
<1>1. IInv => ValuesArrive
  BY LostThere DEF IInv, Arrived, ValuesArrive
<1> QED BY <1>1, Invariant, PTL

\* EndsAtMessage for all messages: checkRead throws only when the peer has ended within a
\* message or a string was lost, and a receiver that closes has read all that has left the peer.
THEOREM EndsCorrect == Spec => []EndsAtMessage
<1>1. IInv => EndsAtMessage
  <2> SUFFICES ASSUME IInv PROVE EndsAtMessage
    OBVIOUS
  <2>1. Shape /\ Ends /\ Held(way, sent, Len(arrived), data, wire, lost)
    BY DEF IInv
  <2>2. state = "terminated" => lost > 0 \/ \E k \in 1..Len(sent) : HasLostString(sent[k])
    BY <2>1, LostThere DEF Ends
  <2>3. ASSUME state = "closed", lost = 0, Len(arrived) # Len(sent) PROVE FALSE
    <3> DEFINE n == Len(arrived)
    <3>1. data = <<>> /\ wire = <<>>
      BY <2>1, <2>3 DEF Ends
    <3>2. Held(way, sent, n, data, <<>>, 0)
      BY <2>1, <2>3, <3>1
    <3>3. /\ way \in {"request", "answer"} /\ sent \in Seq(MessagesOf(way))
          /\ n \in 0..Len(sent) /\ data \in Seq(Byte) /\ n # Len(sent)
      BY <2>1, <2>3 DEF Shape
    <3>4. Len(data) >= Len(Encoded(way, sent, n + 1))
      <4> HIDE DEF n
      <4> QED BY <3>2, <3>3, HeldDrained
    <3>5. Len(Encoded(way, sent, n + 1)) \in Nat /\ HeaderSize <= Len(Encoded(way, sent, n + 1))
      <4>1. 1 \in 1..7
        OBVIOUS
      <4> HIDE DEF n
      <4> QED BY <3>3, <4>1, UntilFacts
    <3>6. Len(data) = 0
      BY <3>1
    <3> QED BY <3>4, <3>5, <3>6 DEF HeaderSize
  <2> QED BY <2>2, <2>3 DEF EndsAtMessage
<1> QED BY <1>1, Invariant, PTL

\* DrainedIsRead for all messages: a receiver that waits while nothing is on its way has read
\* everything.
THEOREM DrainedCorrect == Spec => []DrainedIsRead
<1>1. IInv => DrainedIsRead
  <2> SUFFICES ASSUME IInv, wire = <<>>, alive, left > 0
               PROVE  data = <<>> /\ Len(arrived) = Len(sent)
    BY DEF DrainedIsRead
  <2> DEFINE n == Len(arrived)
  <2>1. Shape /\ Receiving /\ Ends /\ Held(way, sent, Len(arrived), data, wire, lost)
    BY DEF IInv
  <2>2. /\ way \in {"request", "answer"} /\ sent \in Seq(MessagesOf(way))
        /\ n \in 0..Len(sent) /\ data \in Seq(Byte) /\ part \in 1..7 /\ left \in Nat
        /\ Len(data) \in Nat
    BY <2>1 DEF Shape
  <2>3. Held(way, sent, n, data, <<>>, 0)
    BY <2>1 DEF Ends
  <2>4. Len(data) + left <= Until(way, sent, n, part) /\ (data # <<>> => n # Len(sent))
    BY <2>1 DEF Receiving
  <2> HIDE DEF n
  <2>5. ASSUME n # Len(sent) PROVE FALSE
    <3>1. Len(data) >= Len(Encoded(way, sent, n + 1))
      BY <2>2, <2>3, <2>5, HeldDrained
    <3>2. /\ Len(Encoded(way, sent, n + 1)) \in Nat
          /\ Until(way, sent, n, part) \in Nat
          /\ Until(way, sent, n, part) <= Len(Encoded(way, sent, n + 1))
      BY <2>2, <2>5, UntilFacts
    <3> QED BY <2>2, <2>4, <3>1, <3>2
  <2> QED BY <2>4, <2>5 DEF n
<1> QED BY <1>1, Invariant, PTL

=====================================================================================
