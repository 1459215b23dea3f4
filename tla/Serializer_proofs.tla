------------------------------ MODULE Serializer_proofs ------------------------------
(***************************************************************************)
(* What Serializer writes is what it reads: for every number of every      *)
(* width, every string and every container and tuple of them, as long as   *)
(* no string is written as a const one. What is read of a buffer that ends *)
(* before is nothing: checkRead throws, whatever comes in front.           *)
(*                                                                         *)
(* The recursive functions of Serializer are reasoned about as sets: the   *)
(* numbers up to which a function does what it should are a set that has   *)
(* 0 and the successors of its elements, and so all of Nat (Induction).    *)
(***************************************************************************)
EXTENDS Serializer, SequenceTheorems, WellFoundedInduction, NaturalsInduction, TLAPS

(* Induction, and the bytes of a number.                                   *)

\* A set of natural numbers has a least one.
LEMMA LeastNumber ==
    ASSUME NEW T \in SUBSET Nat, T # {}
    PROVE  \E n \in T : \A m \in T : n <= m
<1> DEFINE R == {ss \in Nat \X Nat : ss[1] < ss[2]}
<1>1. IsWellFoundedOn(R, Nat)
  BY NatLessThanWellFounded, Zenon DEF OpToRel
<1>2. PICK x \in T : \A y \in T : ~(<<y, x>> \in R)
  <2> HIDE DEF R
  <2> QED BY <1>1, WFMin
<1>3. \A y \in T : ~(y < x)
  BY <1>2
<1> QED BY <1>3

\* A set with 0 and the successors of its elements has all natural numbers. Sets stand for
\* predicates: the theorems of the library take an operator.
LEMMA Induction ==
    ASSUME NEW S \in SUBSET Nat, 0 \in S, \A n \in S : n + 1 \in S
    PROVE  S = Nat
<1>1. ASSUME S # Nat PROVE FALSE
  <2>1. PICK n \in Nat \ S : \A m \in Nat \ S : n <= m
    BY <1>1, LeastNumber
  <2>2. n # 0 /\ n - 1 \in Nat /\ n - 1 \in S
    BY <2>1
  <2> QED BY <2>1, <2>2
<1> QED BY <1>1

\* The scalar types and the sizes that matter.
LEMMA ScalarSizes ==
    /\ Scalar = {"bool", "int8", "uint8", "int16", "uint16", "int32", "uint32", "int64", "uint64"}
    /\ \A name \in Scalar : sizeof[name] \in {1, 2, 4, 8}
    /\ sizeof["uint64"] = 8 /\ sizeof["uint8"] = 1
  BY DEF Scalar, sizeof

\* The recursion that drops bytes has a function, over any number of steps.
LEMMA ShiftsExist ==
    ASSUME NEW v \in Int, NEW n \in Nat
    PROVE  \E f \in [0..n -> Int] : f = [k \in 0..n |-> IF k = 0 THEN v ELSE f[k - 1] \div 256]
<1> DEFINE S == {j \in Nat : \E f \in [0..j -> Int] :
                     f[0] = v /\ \A k \in 1..j : f[k] = f[k - 1] \div 256}
<1>1. 0 \in S
  <2> DEFINE f == [k \in 0..0 |-> v]
  <2>1. f \in [0..0 -> Int] /\ f[0] = v /\ \A k \in 1..0 : f[k] = f[k - 1] \div 256
    OBVIOUS
  <2> QED BY <2>1
<1>2. ASSUME NEW j \in S PROVE j + 1 \in S
  <2>1. PICK f \in [0..j -> Int] : f[0] = v /\ \A k \in 1..j : f[k] = f[k - 1] \div 256
    OBVIOUS
  <2> DEFINE g == [k \in 0..j + 1 |-> IF k = j + 1 THEN f[j] \div 256 ELSE f[k]]
  <2>2. g \in [0..j + 1 -> Int] /\ g[0] = v
    BY <2>1
  <2>3. ASSUME NEW k \in 1..j + 1
        PROVE  g[k] = g[k - 1] \div 256
    BY <2>1
  <2>4. j + 1 \in Nat
    OBVIOUS
  <2> HIDE DEF g
  <2>5. \E h \in [0..j + 1 -> Int] : h[0] = v /\ \A k \in 1..j + 1 : h[k] = h[k - 1] \div 256
    BY <2>2, <2>3
  <2> QED BY <2>4, <2>5, Zenon
<1>3. S = Nat
  <2>1. S \in SUBSET Nat
    OBVIOUS
  <2> HIDE DEF S
  <2> QED BY <1>1, <1>2, <2>1, Induction
<1>4. PICK f \in [0..n -> Int] : f[0] = v /\ \A k \in 1..n : f[k] = f[k - 1] \div 256
  BY <1>3
<1>5. f = [k \in 0..n |-> IF k = 0 THEN v ELSE f[k - 1] \div 256]
  BY <1>4
<1> QED BY <1>5

\* So has what is left of a number when its lowest bytes are dropped.
LEMMA ShiftsFacts ==
    ASSUME NEW v \in Int, NEW n \in Nat
    PROVE  /\ Shifts(v, n) \in [0..n -> Int]
           /\ Shifts(v, n)[0] = v
           /\ \A k \in 1..n : Shifts(v, n)[k] = Shifts(v, n)[k - 1] \div 256
<1> DEFINE rest[k \in 0..n] == IF k = 0 THEN v ELSE rest[k - 1] \div 256
<1>1. Shifts(v, n) = rest
  BY DEF Shifts
<1>2. PICK f \in [0..n -> Int] : f = [k \in 0..n |-> IF k = 0 THEN v ELSE f[k - 1] \div 256]
  BY ShiftsExist
<1>3. rest = [k \in 0..n |-> IF k = 0 THEN v ELSE rest[k - 1] \div 256]
  BY <1>2 DEF rest
<1> HIDE DEF rest
<1>4. rest[0] = v /\ \A k \in 1..n : rest[k] = rest[k - 1] \div 256
  BY <1>3
<1> DEFINE S == {k \in Nat : k <= n => rest[k] \in Int}
<1>5. S = Nat
  <2>1. S \in SUBSET Nat /\ 0 \in S
    BY <1>4
  <2>2. ASSUME NEW k \in S PROVE k + 1 \in S
    BY <1>4
  <2> HIDE DEF S
  <2> QED BY <2>1, <2>2, Induction
<1>6. \A k \in 0..n : rest[k] \in Int
  BY <1>5
<1>7. rest \in [0..n -> Int]
  BY <1>3, <1>6
<1> QED BY <1>1, <1>4, <1>7

\* Fewer steps are the same steps.
LEMMA ShiftsPrefix ==
    ASSUME NEW v \in Int, NEW n \in Nat, NEW m \in 0..n
    PROVE  Shifts(v, n)[m] = Shifts(v, m)[m]
<1> DEFINE S == {k \in Nat : k <= m => Shifts(v, n)[k] = Shifts(v, m)[k]}
<1>1. 0 \in S
  <2>1. m \in Nat
    OBVIOUS
  <2>2. Shifts(v, n)[0] = v /\ Shifts(v, m)[0] = v
    BY <2>1, ShiftsFacts
  <2> QED BY <2>2
<1>2. ASSUME NEW k \in S PROVE k + 1 \in S
  <2>1. ASSUME k + 1 <= m
        PROVE  Shifts(v, n)[k + 1] = Shifts(v, m)[k + 1]
    <3>1. k + 1 \in 1..m /\ k + 1 \in 1..n /\ m \in Nat /\ (k + 1) - 1 = k
      BY <2>1
    <3>2. Shifts(v, n)[k + 1] = Shifts(v, n)[k] \div 256
      BY <3>1, ShiftsFacts
    <3>3. Shifts(v, m)[k + 1] = Shifts(v, m)[k] \div 256
      BY <3>1, ShiftsFacts
    <3> QED BY <3>1, <3>2, <3>3
  <2> QED BY <2>1
<1> HIDE DEF S
<1>3. S = Nat
  <2>1. S \in SUBSET Nat
    BY DEF S
  <2> QED BY <1>1, <1>2, <2>1, Induction
<1> QED BY <1>3 DEF S

\* The bytes of a number are bytes, as many as its type has.
LEMMA BytesFacts ==
    ASSUME NEW v \in Int, NEW n \in Nat
    PROVE  /\ Bytes(v, n) \in Seq(Byte)
           /\ Len(Bytes(v, n)) = n
           /\ \A k \in 1..n : Bytes(v, n)[k] = Shifts(v, n)[n - k] % 256
<1>1. Bytes(v, n) = [k \in 1..n |-> Shifts(v, n)[n - k] % 256]
  BY DEF Bytes
<1>2. ASSUME NEW k \in 1..n PROVE Shifts(v, n)[n - k] % 256 \in Byte
  <2>1. n - k \in 0..n
    OBVIOUS
  <2>2. Shifts(v, n)[n - k] \in Int
    BY <2>1, ShiftsFacts
  <2> QED BY <2>2 DEF Byte
<1>3. Bytes(v, n) \in [1..n -> Byte]
  BY <1>1, <1>2
<1> QED BY <1>1, <1>3

\* What is dropped can be put back.
LEMMA ValueOfBytes ==
    ASSUME NEW v \in Int, NEW n \in Nat, n # 0, NEW signed \in BOOLEAN,
           Shifts(v, n)[n - 1] \in IF signed THEN -128..127 ELSE Byte
    PROVE  Value(Bytes(v, n), signed) = v
<1> DEFINE b == Bytes(v, n)
           r == Shifts(v, n)
           lead == IF signed /\ b[1] >= 128 THEN b[1] - 256 ELSE b[1]
           upTo[k \in 1..Len(b)] == IF k = 1 THEN lead ELSE upTo[k - 1] * 256 + b[k]
<1>1. Value(b, signed) = upTo[Len(b)]
  BY DEF Value
<1>2. Len(b) = n /\ \A k \in 1..n : b[k] = r[n - k] % 256
  BY BytesFacts
<1>3. r \in [0..n -> Int] /\ r[0] = v /\ \A k \in 1..n : r[k] = r[k - 1] \div 256
  <2>1. Shifts(v, n) \in [0..n -> Int]
    BY ShiftsFacts
  <2>2. Shifts(v, n)[0] = v /\ \A k \in 1..n : Shifts(v, n)[k] = Shifts(v, n)[k - 1] \div 256
    BY ShiftsFacts
  <2> QED BY <2>1, <2>2
<1>4. r[n - 1] \in IF signed THEN -128..127 ELSE Byte
  OBVIOUS
<1> HIDE DEF b, r
<1>5. lead = r[n - 1]
  <2>1. b[1] = r[n - 1] % 256
    BY <1>2
  <2> QED BY <1>4, <2>1 DEF Byte
<1> HIDE DEF lead
<1> DEFINE g == [k \in 1..n |-> r[n - k]]
<1>6. ASSUME NEW k \in 2..n PROVE g[k] = g[k - 1] * 256 + b[k]
  <2>1. g[k] = r[n - k] /\ g[k - 1] = r[n - k + 1] /\ b[k] = r[n - k] % 256
    BY <1>2
  <2>2. r[n - k + 1] = r[n - k] \div 256
    <3>1. n - k + 1 \in 1..n /\ (n - k + 1) - 1 = n - k
      OBVIOUS
    <3> QED BY <3>1, <1>3
  <2>3. r[n - k] \in Int
    BY <1>3
  <2> QED BY <2>1, <2>2, <2>3
<1>7. g[1] = lead
  BY <1>5
<1>8. g = [k \in 1..Len(b) |-> IF k = 1 THEN lead ELSE g[k - 1] * 256 + b[k]]
  <2>1. \A k \in 1..n : g[k] = IF k = 1 THEN lead ELSE g[k - 1] * 256 + b[k]
    <3> HIDE DEF g
    <3> QED BY <1>6, <1>7
  <2> QED BY <2>1, <1>2
<1> HIDE DEF g
<1>9. upTo = [k \in 1..Len(b) |-> IF k = 1 THEN lead ELSE upTo[k - 1] * 256 + b[k]]
  BY <1>8 DEF upTo
<1> HIDE DEF upTo
<1>10. upTo[1] = lead /\ \A k \in 2..n : upTo[k] = upTo[k - 1] * 256 + b[k]
  BY <1>2, <1>9
<1> DEFINE S == {k \in Nat : k + 1 <= n => upTo[k + 1] = g[k + 1]}
<1>11. 0 \in S
  BY <1>7, <1>10
<1>12. ASSUME NEW k \in S PROVE k + 1 \in S
  <2>1. ASSUME k + 2 <= n PROVE upTo[k + 2] = g[k + 2]
    <3>1. k + 2 \in 2..n /\ (k + 2) - 1 = k + 1 /\ upTo[k + 1] = g[k + 1]
      BY <2>1
    <3> QED BY <3>1, <1>6, <1>10
  <2>2. (k + 1) + 1 = k + 2 /\ k + 1 \in Nat
    OBVIOUS
  <2> QED BY <2>1, <2>2
<1>13. S = Nat
  <2>1. S \in SUBSET Nat
    OBVIOUS
  <2> HIDE DEF S
  <2> QED BY <1>11, <1>12, <2>1, Induction
<1>14. upTo[n] = g[n]
  <2>1. n - 1 \in Nat /\ (n - 1) + 1 = n /\ n <= n
    OBVIOUS
  <2>2. \A k \in Nat : k + 1 <= n => upTo[k + 1] = g[k + 1]
    BY <1>13
  <2> QED BY <2>1, <2>2
<1>15. g[n] = v
  BY <1>3 DEF g
<1>16. Value(b, signed) = v
  BY <1>1, <1>2, <1>14, <1>15
<1> QED BY <1>16 DEF b

\* A number is written with the bytes of its type, and they have its value.
LEMMA NumberWritten ==
    ASSUME NEW name \in Scalar, NEW v \in Int
    PROVE  /\ WriteNum(name, v) \in Seq(Byte)
           /\ Len(WriteNum(name, v)) = sizeof[name]
           /\ Fits(name, v) => Value(WriteNum(name, v), name \in Signed) = v
<1> DEFINE n == sizeof[name]
<1>1. n \in Nat /\ n # 0 /\ n - 1 \in 0..n
  BY ScalarSizes
<1>2. ASSUME Fits(name, v) PROVE Value(WriteNum(name, v), name \in Signed) = v
  <2>1. Shifts(v, n - 1)[n - 1] \in IF name \in Signed THEN -128..127 ELSE Byte
    BY <1>2 DEF Fits
  <2>2. (name \in Signed) \in BOOLEAN
    OBVIOUS
  <2>3. Shifts(v, n)[n - 1] \in IF name \in Signed THEN -128..127 ELSE Byte
    <3> HIDE DEF n
    <3> QED BY <1>1, <2>1, ShiftsPrefix
  <2> HIDE DEF n
  <2>4. Value(Bytes(v, n), name \in Signed) = v
    BY <1>1, <2>2, <2>3, ValueOfBytes
  <2> QED BY <2>4 DEF WriteNum, n
<1>3. WriteNum(name, v) = Bytes(v, n)
  BY DEF WriteNum
<1> HIDE DEF n
<1>4. Bytes(v, n) \in Seq(Byte) /\ Len(Bytes(v, n)) = n
  BY <1>1, BytesFacts
<1>5. WriteNum(name, v) \in Seq(Byte) /\ Len(WriteNum(name, v)) = n
  BY <1>3, <1>4
<1> QED BY <1>2, <1>5 DEF n

\* Sizes below the bound have no other bytes than the last three, and are read as they
\* were written.
LEMMA SizeWritten ==
    ASSUME NEW n \in Nat, n < SizeBound
    PROVE  /\ Value(Size(n), FALSE) = n
           /\ \A k \in 1..5 : Size(n)[k] = 0
<1>1. PICK w \in Nat : w = 8
  OBVIOUS
<1> DEFINE r == Shifts(n, w)
<1>2. Size(n) = Bytes(n, w)
  BY <1>1, ScalarSizes DEF Size, WriteNum
<1>3. n \in Int /\ w # 0 /\ FALSE \in BOOLEAN
  BY <1>1
<1>4. r \in [0..w -> Int] /\ r[0] = n /\ \A k \in 1..w : r[k] = r[k - 1] \div 256
  <2>0. n \in Int
    OBVIOUS
  <2>1. Shifts(n, w) \in [0..w -> Int]
    BY <2>0, ShiftsFacts
  <2>2. Shifts(n, w)[0] = n
    BY <2>0, ShiftsFacts
  <2>3. \A k \in 1..w : Shifts(n, w)[k] = Shifts(n, w)[k - 1] \div 256
    BY <2>0, ShiftsFacts
  <2> QED BY <2>1, <2>2, <2>3
<1>5. \A k \in 1..w : Size(n)[k] = r[w - k] % 256
  BY <1>2, <1>3, BytesFacts
<1>6. ASSUME r[w - 1] = 0 PROVE Value(Size(n), FALSE) = n
  <2>1. Shifts(n, w)[w - 1] \in IF FALSE THEN -128..127 ELSE Byte
    BY <1>6 DEF Byte
  <2> HIDE DEF Byte
  <2> QED BY <1>2, <1>3, <2>1, ValueOfBytes
<1> HIDE DEF r
<1>7. r[3] = 0
  <2>1. r[1] = n \div 256 /\ r[2] = r[1] \div 256 /\ r[3] = r[2] \div 256
    BY <1>1, <1>4
  <2>2. n < 256 * 256 * 256
    BY DEF SizeBound
  <2>3. \A x \in Nat : x < 256 * 256 * 256 => x \div 256 \in Nat /\ x \div 256 < 256 * 256
    OBVIOUS
  <2>4. \A x \in Nat : x < 256 * 256 => x \div 256 \in Nat /\ x \div 256 < 256
    OBVIOUS
  <2>5. \A x \in Nat : x < 256 => x \div 256 = 0
    OBVIOUS
  <2>6. r[1] \in Nat /\ r[1] < 256 * 256
    BY <2>1, <2>2, <2>3
  <2>7. r[2] \in Nat /\ r[2] < 256
    BY <2>1, <2>4, <2>6
  <2> QED BY <2>1, <2>5, <2>7
<1>8. r[4] = 0 /\ r[5] = 0 /\ r[6] = 0 /\ r[7] = 0
  <2>1. r[4] = r[3] \div 256 /\ r[5] = r[4] \div 256
    BY <1>1, <1>4
  <2>2. r[6] = r[5] \div 256 /\ r[7] = r[6] \div 256
    BY <1>1, <1>4
  <2> QED BY <1>7, <2>1, <2>2
<1>9. \A k \in 1..5 : Size(n)[k] = 0
  <2>1. ASSUME NEW k \in 1..5 PROVE r[w - k] = 0
    BY <1>1, <1>7, <1>8
  <2> QED BY <1>1, <1>5, <2>1
<1>10. w - 1 = 7
  BY <1>1
<1> QED BY <1>6, <1>8, <1>9, <1>10

-----------------------------------------------------------------------------
(* Numbers, sizes and strings in a buffer.                                 *)

\* A buffer holds s behind its first pos bytes, as far as the buffer goes.
Agrees(buf, pos, s) == \A j \in 1..Len(s) : pos + j <= Len(buf) => buf[pos + j] = s[j]

\* What is read of v, which was written in n bytes, behind the first pos bytes.
Found(buf, pos, n, v) == IF pos + n <= Len(buf) THEN Got(v, pos + n) ELSE Thrown

\* What holds two sequences behind each other holds each of them in its place.
LEMMA AgreesConcat ==
    ASSUME NEW buf \in Seq(Byte), NEW pos \in Nat, NEW s \in Seq(Byte), NEW t \in Seq(Byte),
           Agrees(buf, pos, s \o t)
    PROVE  Agrees(buf, pos, s) /\ Agrees(buf, pos + Len(s), t)
<1>1. Len(s \o t) = Len(s) + Len(t) /\ Len(s) \in Nat /\ Len(t) \in Nat /\ Len(buf) \in Nat
  OBVIOUS
<1>2. ASSUME NEW j \in 1..Len(s), pos + j <= Len(buf) PROVE buf[pos + j] = s[j]
  <2>1. j \in 1..Len(s \o t) /\ (s \o t)[j] = s[j]
    BY <1>1
  <2> QED BY <1>2, <2>1 DEF Agrees
<1>3. ASSUME NEW j \in 1..Len(t), pos + Len(s) + j <= Len(buf)
      PROVE  buf[pos + Len(s) + j] = t[j]
  <2>1. Len(s) + j \in 1..Len(s \o t) /\ (s \o t)[Len(s) + j] = t[j]
    BY <1>1
  <2>2. pos + (Len(s) + j) = pos + Len(s) + j
    BY <1>1
  <2> QED BY <1>3, <2>1, <2>2 DEF Agrees
<1> QED BY <1>2, <1>3 DEF Agrees

\* All of s is there when the buffer goes far enough.
LEMMA AgreesWhole ==
    ASSUME NEW buf \in Seq(Byte), NEW pos \in Nat, NEW s \in Seq(Byte),
           Agrees(buf, pos, s), pos + Len(s) <= Len(buf)
    PROVE  SubSeq(buf, pos + 1, pos + Len(s)) = s
<1> DEFINE t == SubSeq(buf, pos + 1, pos + Len(s))
<1>1. Len(s) \in Nat /\ Len(buf) \in Nat
  OBVIOUS
<1>2. \A i \in pos + 1..pos + Len(s) : buf[i] \in Byte
  BY <1>1, ElementOfSeq
<1>3. t \in Seq(Byte) /\ Len(t) = Len(s) /\ \A i \in 1..Len(s) : t[i] = buf[pos + i]
  <2>1. pos + 1 \in Int /\ pos + Len(s) \in Int
    BY <1>1
  <2>2. /\ SubSeq(buf, pos + 1, pos + Len(s)) \in Seq(Byte)
        /\ Len(SubSeq(buf, pos + 1, pos + Len(s)))
             = IF pos + 1 <= pos + Len(s) THEN pos + Len(s) - (pos + 1) + 1 ELSE 0
        /\ \A i \in 1..pos + Len(s) - (pos + 1) + 1 :
             SubSeq(buf, pos + 1, pos + Len(s))[i] = buf[pos + 1 + i - 1]
    BY <1>2, <2>1, SubSeqProperties
  <2>3. pos + Len(s) - (pos + 1) + 1 = Len(s) /\ \A i \in Int : pos + 1 + i - 1 = pos + i
    BY <1>1
  <2> QED BY <1>1, <2>2, <2>3
<1>4. ASSUME NEW i \in 1..Len(s) PROVE t[i] = s[i]
  <2>1. pos + i <= Len(buf)
    BY <1>1
  <2> QED BY <1>3, <2>1 DEF Agrees
<1> HIDE DEF t
<1>5. t = s
  BY <1>3, <1>4, SeqEqual
<1> QED BY <1>5 DEF t

\* A number is read as it was written: readInt8 to readUint64.
LEMMA NumberFound ==
    ASSUME NEW buf \in Seq(Byte), NEW pos \in Nat, NEW name \in Scalar, NEW v \in Int,
           Fits(name, v), Agrees(buf, pos, WriteNum(name, v))
    PROVE  ReadNum(name, buf, pos) = Found(buf, pos, sizeof[name], v)
<1> DEFINE s == WriteNum(name, v)
<1>1. s \in Seq(Byte) /\ Len(s) = sizeof[name] /\ Value(s, name \in Signed) = v
  <2>1. Value(WriteNum(name, v), name \in Signed) = v
    BY NumberWritten
  <2>2. WriteNum(name, v) \in Seq(Byte) /\ Len(WriteNum(name, v)) = sizeof[name]
    BY NumberWritten
  <2> QED BY <2>1, <2>2
<1>2. sizeof[name] \in Nat
  BY ScalarSizes
<1> HIDE DEF s
<1>3. ASSUME pos + sizeof[name] <= Len(buf)
      PROVE  SubSeq(buf, pos + 1, pos + sizeof[name]) = s
  BY <1>1, <1>3, AgreesWhole DEF s
<1>4. CASE pos + sizeof[name] <= Len(buf)
  <2>1. Value(SubSeq(buf, pos + 1, pos + sizeof[name]), name \in Signed) = v
    BY <1>1, <1>3, <1>4
  <2> QED BY <1>4, <2>1 DEF ReadNum, Has, Found
<1>5. CASE ~(pos + sizeof[name] <= Len(buf))
  BY <1>5 DEF ReadNum, Has, Found
<1> QED BY <1>4, <1>5

\* A size has eight bytes.
LEMMA SizeBytes ==
    ASSUME NEW n \in Int
    PROVE  Size(n) \in Seq(Byte) /\ Len(Size(n)) = 8
<1>1. "uint64" \in Scalar /\ sizeof["uint64"] = 8
  BY ScalarSizes
<1> QED BY <1>1, NumberWritten DEF Size

\* A size is read as a number of eight bytes: the size of the content is, in the header.
LEMMA SizeNumber ==
    ASSUME NEW buf \in Seq(Byte), NEW pos \in Nat, NEW n \in Nat, n < SizeBound,
           Agrees(buf, pos, Size(n))
    PROVE  ReadNum("uint64", buf, pos) = Found(buf, pos, 8, n)
<1>1. "uint64" \in Scalar /\ ("uint64" \in Signed) = FALSE /\ sizeof["uint64"] = 8
  BY ScalarSizes DEF Signed
<1>2. Size(n) \in Seq(Byte) /\ Len(Size(n)) = 8
  <2>1. n \in Int
    OBVIOUS
  <2> QED BY <2>1, SizeBytes
<1>3. Value(Size(n), FALSE) = n
  BY SizeWritten
<1>4. CASE pos + 8 <= Len(buf)
  <2>1. SubSeq(buf, pos + 1, pos + 8) = Size(n)
    BY <1>2, <1>4, AgreesWhole
  <2>2. ReadNum("uint64", buf, pos) = Got(Value(Size(n), "uint64" \in Signed), pos + 8)
    BY <1>1, <1>4, <2>1 DEF ReadNum, Has
  <2>3. Value(Size(n), "uint64" \in Signed) = n
    BY <1>1, <1>3
  <2> QED BY <1>4, <2>2, <2>3 DEF Found
<1>5. CASE ~(pos + 8 <= Len(buf))
  BY <1>1, <1>5 DEF ReadNum, Has, Found
<1> QED BY <1>4, <1>5

\* A size in front of a string or of a container is read as it was written.
LEMMA SizeFound ==
    ASSUME NEW buf \in Seq(Byte), NEW pos \in Nat, NEW n \in Nat, n < SizeBound,
           Agrees(buf, pos, Size(n))
    PROVE  ReadSize(buf, pos) = Found(buf, pos, 8, n)
<1>1. Len(Size(n)) = 8 /\ \A k \in 1..5 : Size(n)[k] = 0
  <2>1. n \in Int
    OBVIOUS
  <2> QED BY <2>1, SizeBytes, SizeWritten
<1>2. CASE pos + 8 <= Len(buf)
  <2>1. ASSUME NEW k \in 1..5 PROVE buf[pos + k] = 0
    <3>1. k \in 1..Len(Size(n)) /\ pos + k <= Len(buf)
      BY <1>1, <1>2
    <3> QED BY <1>1, <3>1 DEF Agrees
  <2>2. ReadSize(buf, pos) = ReadNum("uint64", buf, pos)
    BY <1>2, <2>1 DEF ReadSize, Has
  <2> QED BY <2>2, SizeNumber
<1>3. CASE ~(pos + 8 <= Len(buf))
  BY <1>3 DEF ReadSize, Has, Found
<1> QED BY <1>2, <1>3

\* A string that is written with its size is read as it was.
LEMMA StrFound ==
    ASSUME NEW buf \in Seq(Byte), NEW pos \in Nat, NEW chars \in Seq(Byte),
           Len(chars) < SizeBound, Agrees(buf, pos, WriteStr(chars))
    PROVE  ReadStr(buf, pos) = Found(buf, pos, 8 + Len(chars), chars)
<1>1. Len(chars) \in Nat
  OBVIOUS
<1>2. Size(Len(chars)) \in Seq(Byte) /\ Len(Size(Len(chars))) = 8
  BY <1>1, SizeBytes
<1>3. Agrees(buf, pos, Size(Len(chars))) /\ Agrees(buf, pos + 8, chars)
  BY <1>2, AgreesConcat DEF WriteStr
<1>4. ReadSize(buf, pos) = Found(buf, pos, 8, Len(chars))
  BY <1>1, <1>3, SizeFound
<1>5. pos + 8 \in Nat /\ Len(buf) \in Nat
  OBVIOUS
<1>6. CASE pos + 8 + Len(chars) <= Len(buf)
  <2>1. SubSeq(buf, pos + 8 + 1, pos + 8 + Len(chars)) = chars
    BY <1>3, <1>5, <1>6, AgreesWhole
  <2>2. ReadSize(buf, pos) = Got(Len(chars), pos + 8)
    BY <1>1, <1>4, <1>5, <1>6 DEF Found
  <2>3. /\ ReadSize(buf, pos).ok = TRUE
        /\ ReadSize(buf, pos).val = Len(chars)
        /\ ReadSize(buf, pos).pos = pos + 8
    BY <2>2 DEF Got
  <2>4. ReadStr(buf, pos) = Got(SubSeq(buf, pos + 8 + 1, pos + 8 + Len(chars)),
                                pos + 8 + Len(chars))
    BY <1>6, <2>3 DEF ReadStr, Has
  <2>5. ReadStr(buf, pos) = Got(chars, pos + 8 + Len(chars))
    BY <2>1, <2>4
  <2> QED BY <1>1, <1>6, <2>5 DEF Found
<1>7. CASE ~(pos + 8 + Len(chars) <= Len(buf))
  <2>1. ReadStr(buf, pos) = Thrown
    BY <1>4, <1>7 DEF ReadStr, Found, Got, Thrown, Has
  <2> QED BY <1>1, <1>7, <2>1 DEF Found
<1> QED BY <1>6, <1>7

-----------------------------------------------------------------------------
(* Values behind each other.                                               *)

\* The pieces of a sequence of sequences behind each other, up to each of them.
LEMMA PiecesJoin ==
    ASSUME NEW s \in Seq(Seq(Byte)), Len(s) # 0
    PROVE  \E f \in [1..Len(s) -> Seq(Byte)] :
             f = [i \in 1..Len(s) |-> IF i = 1 THEN s[i] ELSE f[i - 1] \o s[i]]
<1> DEFINE Joins(f, n) == f[1] = s[1] /\ \A i \in 2..n : f[i] = f[i - 1] \o s[i]
           S == {n \in Nat : n + 1 <= Len(s) => \E f \in [1..n + 1 -> Seq(Byte)] : Joins(f, n + 1)}
<1>0. Len(s) \in Nat /\ \A i \in 1..Len(s) : s[i] \in Seq(Byte)
  OBVIOUS
<1>1. 0 \in S
  <2>1. 1 \in 1..Len(s)
    BY <1>0
  <2>2. [i \in 1..1 |-> s[1]] \in [1..0 + 1 -> Seq(Byte)]
    BY <1>0, <2>1
  <2>3. Joins([i \in 1..1 |-> s[1]], 0 + 1)
    OBVIOUS
  <2>4. 0 \in Nat /\ \E f \in [1..0 + 1 -> Seq(Byte)] : Joins(f, 0 + 1)
    <3> HIDE DEF Joins
    <3> QED BY <2>2, <2>3
  <2> QED BY <2>4
<1>2. ASSUME NEW n \in S PROVE n + 1 \in S
  <2>1. n + 1 \in Nat
    OBVIOUS
  <2>2. ASSUME (n + 1) + 1 <= Len(s)
        PROVE  \E f \in [1..(n + 1) + 1 -> Seq(Byte)] : Joins(f, (n + 1) + 1)
    <3>0. n + 1 <= Len(s) /\ n \in Nat
      BY <1>0, <2>2
    <3>1. PICK f \in [1..n + 1 -> Seq(Byte)] : Joins(f, n + 1)
      <4> HIDE DEF Joins
      <4> QED BY <3>0
    <3> DEFINE g == [i \in 1..(n + 1) + 1 |-> IF i = n + 2 THEN f[n + 1] \o s[n + 2] ELSE f[i]]
    <3>2. s[n + 2] \in Seq(Byte) /\ f[n + 1] \in Seq(Byte)
      BY <1>0, <2>2
    <3>3. f[n + 1] \o s[n + 2] \in Seq(Byte)
      BY <3>2
    <3>4. g \in [1..(n + 1) + 1 -> Seq(Byte)]
      BY <3>3
    <3>5. g[1] = s[1]
      BY <3>1
    <3>6. ASSUME NEW i \in 2..(n + 1) + 1 PROVE g[i] = g[i - 1] \o s[i]
      <4>1. CASE i = n + 2
        <5>0. /\ i - 1 = n + 1 /\ n + 1 # n + 2
              /\ n + 1 \in 1..(n + 1) + 1 /\ n + 2 \in 1..(n + 1) + 1
          BY <3>0, <4>1
        <5>1. g[i] = f[n + 1] \o s[n + 2] /\ g[i - 1] = f[n + 1]
          BY <4>1, <5>0
        <5> QED BY <4>1, <5>1
      <4>2. CASE i # n + 2
        <5>1. i \in 2..n + 1
          BY <3>0, <4>2
        <5>2. g[i] = f[i] /\ g[i - 1] = f[i - 1]
          BY <3>0, <5>1
        <5> QED BY <3>1, <5>1, <5>2
      <4> QED BY <4>1, <4>2
    <3> HIDE DEF g
    <3> QED BY <3>4, <3>5, <3>6
  <2> QED BY <2>1, <2>2
<1>3. S = Nat
  <2>1. S \in SUBSET Nat
    OBVIOUS
  <2> HIDE DEF S
  <2> QED BY <1>1, <1>2, <2>1, Induction
<1>4. Len(s) - 1 \in Nat /\ (Len(s) - 1) + 1 = Len(s)
  BY <1>0
<1>5. \E f \in [1..Len(s) -> Seq(Byte)] : Joins(f, Len(s))
  <2>1. \A n \in Nat : n + 1 <= Len(s) => \E f \in [1..n + 1 -> Seq(Byte)] : Joins(f, n + 1)
    BY <1>3
  <2>2. (Len(s) - 1) + 1 <= Len(s)
    BY <1>0
  <2>3. \E f \in [1..(Len(s) - 1) + 1 -> Seq(Byte)] : Joins(f, (Len(s) - 1) + 1)
    <3> HIDE DEF Joins, S
    <3> QED BY <1>4, <2>1, <2>2
  <2> HIDE DEF Joins, S
  <2> QED BY <1>4, <2>3
<1>6. PICK f \in [1..Len(s) -> Seq(Byte)] : Joins(f, Len(s))
  BY <1>5
<1>7. f = [i \in 1..Len(s) |-> IF i = 1 THEN s[i] ELSE f[i - 1] \o s[i]]
  <2>1. f[1] = s[1] /\ \A i \in 2..Len(s) : f[i] = f[i - 1] \o s[i]
    BY <1>6
  <2>2. ASSUME NEW i \in 1..Len(s) PROVE f[i] = IF i = 1 THEN s[i] ELSE f[i - 1] \o s[i]
    <3>1. CASE i = 1
      BY <2>1, <3>1
    <3>2. CASE i # 1
      <4>1. i \in 2..Len(s)
        BY <3>2
      <4> QED BY <2>1, <3>2, <4>1
    <3> QED BY <3>1, <3>2
  <2> QED BY <2>2
<1> QED BY <1>7

\* Where the pieces end when they are behind each other.
IsPlaces(e, s) ==
    /\ e \in [0..Len(s) -> Nat]
    /\ e[0] = 0
    /\ \A k \in 1..Len(s) : e[k] = e[k - 1] + Len(s[k])

\* What is written of a sequence of pieces has each of them in its place.
LEMMA FlattenPlaces ==
    ASSUME NEW s \in Seq(Seq(Byte))
    PROVE  /\ FlattenSeq(s) \in Seq(Byte)
           /\ \E e : /\ IsPlaces(e, s)
                     /\ Len(FlattenSeq(s)) = e[Len(s)]
                     /\ \A k \in 1..Len(s) : \A j \in 1..Len(s[k]) :
                          /\ e[k - 1] + j \in 1..Len(FlattenSeq(s))
                          /\ FlattenSeq(s)[e[k - 1] + j] = s[k][j]
<1>0. Len(s) \in Nat /\ \A i \in 1..Len(s) : s[i] \in Seq(Byte) /\ Len(s[i]) \in Nat
  OBVIOUS
<1>1. CASE Len(s) = 0
  <2>1. s = <<>>
    BY <1>1
  <2>2. FlattenSeq(s) = s
    BY <1>1 DEF FlattenSeq
  <2>3. FlattenSeq(s) \in Seq(Byte) /\ Len(FlattenSeq(s)) = 0
    BY <2>1, <2>2, EmptySeq
  <2> DEFINE e == [k \in 0..Len(s) |-> 0]
  <2>4. IsPlaces(e, s) /\ e[Len(s)] = 0
    BY <1>1 DEF IsPlaces
  <2>5. 1..Len(s) = {}
    BY <1>1
  <2> HIDE DEF e
  <2> QED BY <2>3, <2>4, <2>5
<1>2. CASE Len(s) # 0
  <2> DEFINE n == Len(s)
             flatten[i \in 1..Len(s)] == IF i = 1 THEN s[i] ELSE flatten[i - 1] \o s[i]
  <2>1. FlattenSeq(s) = flatten[n]
    BY <1>2 DEF FlattenSeq
  <2>2. PICK h \in [1..Len(s) -> Seq(Byte)] :
               h = [i \in 1..Len(s) |-> IF i = 1 THEN s[i] ELSE h[i - 1] \o s[i]]
    BY <1>2, PiecesJoin
  <2>3. flatten = [i \in 1..Len(s) |-> IF i = 1 THEN s[i] ELSE flatten[i - 1] \o s[i]]
    BY <2>2 DEF flatten
  <2> HIDE DEF flatten
  <2>4. flatten[1] = s[1] /\ \A i \in 2..n : flatten[i] = flatten[i - 1] \o s[i]
    <3>1. \A i \in 1..n : flatten[i] = IF i = 1 THEN s[i] ELSE flatten[i - 1] \o s[i]
      BY <2>3
    <3>2. 1 \in 1..n
      BY <1>0, <1>2
    <3>3. ASSUME NEW i \in 2..n PROVE flatten[i] = flatten[i - 1] \o s[i]
      <4>1. i \in 1..n /\ i # 1
        OBVIOUS
      <4> QED BY <3>1, <4>1
    <3> QED BY <3>1, <3>2, <3>3
  <2> DEFINE e == [k \in 0..n |-> IF k = 0 THEN 0 ELSE Len(flatten[k])]
             Right(i) ==
               /\ flatten[i] \in Seq(Byte)
               /\ e[i] = e[i - 1] + Len(s[i])
               /\ \A k \in 1..i : \A j \in 1..Len(s[k]) :
                    e[k - 1] + j \in 1..e[i] /\ flatten[i][e[k - 1] + j] = s[k][j]
             S == {i \in Nat : i + 1 <= n => \A k \in 1..i + 1 : Right(k)}
  <2>5. Right(1)
    <3>1. 1 \in 1..n /\ e[0] = 0 /\ e[1] = Len(s[1])
      BY <1>0, <1>2, <2>4
    <3>2. flatten[1] \in Seq(Byte) /\ Len(s[1]) \in Nat
      BY <1>0, <2>4, <3>1
    <3> HIDE DEF e
    <3>3. ASSUME NEW k \in 1..1, NEW j \in 1..Len(s[k])
          PROVE  e[k - 1] + j \in 1..e[1] /\ flatten[1][e[k - 1] + j] = s[k][j]
      <4>1. k = 1 /\ k - 1 = 0 /\ e[k - 1] + j = j
        BY <3>1
      <4> QED BY <2>4, <3>1, <4>1
    <3>4. e[1] = e[1 - 1] + Len(s[1])
      BY <3>1, <3>2
    <3> QED BY <3>2, <3>3, <3>4
  <2>6. ASSUME NEW i \in 1..n, i + 1 <= n, Right(i), e[i] \in Nat,
               \A k \in 1..i : e[k - 1] \in Nat
        PROVE  Right(i + 1)
    <3>1. i + 1 \in 2..n /\ i + 1 \in 1..n /\ (i + 1) - 1 = i
      BY <1>0, <2>6
    <3>2. flatten[i + 1] = flatten[i] \o s[i + 1]
      BY <2>4, <3>1
    <3>3. s[i + 1] \in Seq(Byte) /\ Len(s[i + 1]) \in Nat
      BY <1>0, <3>1
    <3>4. flatten[i] \in Seq(Byte)
      BY <2>6
    <3>5. /\ flatten[i + 1] \in Seq(Byte)
          /\ Len(flatten[i + 1]) = Len(flatten[i]) + Len(s[i + 1])
          /\ \A j \in 1..Len(flatten[i]) : flatten[i + 1][j] = flatten[i][j]
          /\ \A j \in 1..Len(s[i + 1]) : flatten[i + 1][Len(flatten[i]) + j] = s[i + 1][j]
      <4> DEFINE a == flatten[i]
                 b == s[i + 1]
      <4>1. a \in Seq(Byte) /\ b \in Seq(Byte) /\ Len(a) \in Nat /\ Len(b) \in Nat
        BY <3>3, <3>4
      <4>2. flatten[i + 1] = a \o b
        BY <3>2
      <4> HIDE DEF a, b
      <4>3. /\ a \o b \in Seq(Byte)
            /\ Len(a \o b) = Len(a) + Len(b)
            /\ \A j \in 1..Len(a) + Len(b) :
                  (a \o b)[j] = IF j <= Len(a) THEN a[j] ELSE b[j - Len(a)]
        BY <4>1, ConcatProperties
      <4>4. \A j \in 1..Len(a) : (a \o b)[j] = a[j]
        BY <4>1, <4>3
      <4>5. \A j \in 1..Len(b) : (a \o b)[Len(a) + j] = b[j]
        <5>1. ASSUME NEW j \in 1..Len(b) PROVE (a \o b)[Len(a) + j] = b[j]
          <6>1. /\ Len(a) + j \in 1..Len(a) + Len(b) /\ ~(Len(a) + j <= Len(a))
                /\ (Len(a) + j) - Len(a) = j
            BY <4>1
          <6> QED BY <4>3, <6>1
        <5> QED BY <5>1
      <4> QED BY <4>2, <4>3, <4>4, <4>5 DEF a, b
    <3>6. e[i] = Len(flatten[i]) /\ e[i + 1] = Len(flatten[i + 1])
      BY <1>0, <3>1
    <3>7. \A k \in 1..i : \A j \in 1..Len(s[k]) :
             e[k - 1] + j \in 1..e[i] /\ flatten[i][e[k - 1] + j] = s[k][j]
      BY <2>6
    <3>8. e[i + 1] = e[i] + Len(s[i + 1])
      BY <3>5, <3>6
    <3> HIDE DEF e
    <3>10. e[i] \in Nat /\ \A k \in 1..i : e[k - 1] \in Nat
      <4> HIDE DEF Right
      <4> QED BY <2>6
    <3>9. ASSUME NEW k \in 1..i + 1, NEW j \in 1..Len(s[k])
          PROVE  e[k - 1] + j \in 1..e[i + 1] /\ flatten[i + 1][e[k - 1] + j] = s[k][j]
      <4>1. CASE k = i + 1
        <5>1. e[k - 1] = e[i] /\ s[k] = s[i + 1] /\ j \in 1..Len(s[i + 1])
          BY <3>1, <4>1
        <5>2. e[i] + j \in 1..e[i + 1]
          BY <3>3, <3>8, <3>10, <5>1
        <5>3. flatten[i + 1][e[i] + j] = s[i + 1][j]
          BY <3>5, <3>6, <5>1
        <5> QED BY <4>1, <5>1, <5>2, <5>3
      <4>2. CASE k # i + 1
        <5>1. k \in 1..i
          BY <4>2
        <5>2. e[k - 1] + j \in 1..e[i] /\ flatten[i][e[k - 1] + j] = s[k][j]
          BY <3>7, <5>1
        <5>3. flatten[i + 1][e[k - 1] + j] = flatten[i][e[k - 1] + j]
          BY <3>5, <3>6, <5>2
        <5>4. e[k - 1] + j \in 1..e[i + 1]
          <6>1. e[k - 1] \in Nat
            BY <3>10, <5>1
          <6>2. e[i] \in Nat /\ e[k - 1] + j \in 1..e[i] /\ Len(s[i + 1]) \in Nat
            BY <3>3, <3>10, <5>2
          <6> DEFINE x == e[k - 1] + j
          <6>3. x \in 1..e[i]
            BY <6>2
          <6> HIDE DEF x
          <6>4. x \in 1..e[i + 1]
            BY <3>8, <6>2, <6>3
          <6> QED BY <6>4 DEF x
        <5> QED BY <5>2, <5>3, <5>4
      <4> QED BY <4>1, <4>2
    <3> QED BY <3>1, <3>5, <3>8, <3>9
  <2>7. \A i \in 1..n : flatten[i] \in Seq(Byte) => e[i] \in Nat
    OBVIOUS
  <2>8. e[0] = 0
    BY <1>0
  <2> HIDE DEF e
  <2>9. 0 \in S
    <3>1. \A k \in 1..0 + 1 : k = 1
      OBVIOUS
    <3>2. \A k \in 1..0 + 1 : Right(k)
      <4> HIDE DEF Right
      <4> QED BY <2>5, <3>1
    <3> HIDE DEF Right
    <3> QED BY <3>2
  <2>10. ASSUME NEW i \in S PROVE i + 1 \in S
    <3>1. i \in Nat /\ i + 1 \in Nat /\ (i + 1) + 1 = i + 2
      OBVIOUS
    <3>2. ASSUME i + 2 <= n PROVE \A k \in 1..i + 2 : Right(k)
      <4>1. \A k \in 1..i + 1 : Right(k)
        <5> HIDE DEF Right
        <5> QED BY <1>0, <3>1, <3>2
      <4>2. \A k \in 1..i + 1 : flatten[k] \in Seq(Byte)
        BY <4>1
      <4>3. \A k \in 1..i + 1 : e[k] \in Nat
        <5>1. \A k \in 1..i + 1 : k \in 1..n
          BY <1>0, <3>1, <3>2
        <5> QED BY <2>7, <4>2, <5>1
      <4>4. \A k \in 1..i + 1 : e[k - 1] \in Nat
        <5>1. ASSUME NEW k \in 1..i + 1 PROVE e[k - 1] \in Nat
          <6>1. k - 1 = 0 \/ k - 1 \in 1..i + 1
            BY <3>1
          <6> QED BY <2>8, <4>3, <6>1
        <5> QED BY <5>1
      <4>5. i + 1 \in 1..n /\ (i + 1) + 1 <= n /\ i + 1 \in 1..i + 1
        BY <1>0, <3>1, <3>2
      <4>6. Right((i + 1) + 1)
        <5>1. Right(i + 1) /\ e[i + 1] \in Nat
          <6> HIDE DEF Right
          <6> QED BY <4>1, <4>3, <4>5
        <5> HIDE DEF Right
        <5> QED BY <2>6, <4>4, <4>5, <5>1
      <4>7. \A k \in 1..i + 2 : k \in 1..i + 1 \/ k = (i + 1) + 1
        BY <3>1
      <4> HIDE DEF Right
      <4> QED BY <4>1, <4>6, <4>7
    <3> HIDE DEF Right
    <3> QED BY <3>1, <3>2
  <2>11. S = Nat
    <3>1. S \in SUBSET Nat
      OBVIOUS
    <3> HIDE DEF S
    <3> QED BY <2>9, <2>10, <3>1, Induction
  <2>12. \A k \in 1..n : Right(k)
    <3>1. n - 1 \in Nat /\ (n - 1) + 1 = n /\ n <= n
      BY <1>0, <1>2
    <3>2. \A i \in Nat : i + 1 <= n => \A k \in 1..i + 1 : Right(k)
      <4> HIDE DEF Right
      <4> QED BY <2>11
    <3> HIDE DEF Right, S, n
    <3> QED BY <3>1, <3>2
  <2>13. e \in [0..n -> Nat]
    <3>1. \A k \in 1..n : flatten[k] \in Seq(Byte)
      BY <2>12
    <3>2. \A k \in 1..n : Len(flatten[k]) \in Nat
      BY <3>1
    <3> QED BY <3>2 DEF e
  <2>14. n \in 1..n
    BY <1>0, <1>2
  <2>15. e[n] = Len(flatten[n])
    BY <1>0, <1>2 DEF e
  <2>16. flatten[n] \in Seq(Byte)
    BY <2>12, <2>14
  <2>17. IsPlaces(e, s)
    <3>1. \A k \in 1..n : e[k] = e[k - 1] + Len(s[k])
      BY <2>12
    <3> QED BY <2>8, <2>13, <3>1 DEF IsPlaces
  <2>18. \A k \in 1..n : \A j \in 1..Len(s[k]) :
            e[k - 1] + j \in 1..e[n] /\ flatten[n][e[k - 1] + j] = s[k][j]
    BY <2>12, <2>14
  <2>19. Len(FlattenSeq(s)) = e[Len(s)] /\ FlattenSeq(s) \in Seq(Byte)
    BY <2>1, <2>15, <2>16
  <2>20. \A k \in 1..Len(s) : \A j \in 1..Len(s[k]) :
            /\ e[k - 1] + j \in 1..Len(FlattenSeq(s))
            /\ FlattenSeq(s)[e[k - 1] + j] = s[k][j]
    BY <2>1, <2>18, <2>19
  <2> HIDE DEF S, Right, n
  <2> QED BY <2>17, <2>19, <2>20
<1> QED BY <1>1, <1>2

\* Reading one value more.
LEMMA OneMore ==
    ASSUME NEW buf \in Seq(Byte), NEW p \in Nat, NEW V, NEW v \in Seq(V), NEW k \in 1..Len(v),
           NEW m \in Nat, NEW n \in Nat
    PROVE  Behind(Found(buf, p, m, SubSeq(v, 1, k - 1)), Found(buf, p + m, n, v[k]))
             = Found(buf, p, m + n, SubSeq(v, 1, k))
<1> DEFINE next == Found(buf, p + m, n, v[k])
<1>1. Len(buf) \in Nat /\ Len(v) \in Nat /\ v[k] \in V
  OBVIOUS
<1>2. CASE p + m <= Len(buf)
  <2>1. Found(buf, p, m, SubSeq(v, 1, k - 1)) = Got(SubSeq(v, 1, k - 1), p + m)
    BY <1>2 DEF Found
  <2>3. CASE p + m + n <= Len(buf)
    <3>1. next = Got(v[k], p + m + n)
      BY <2>3 DEF Found
    <3>2. Behind(Got(SubSeq(v, 1, k - 1), p + m), Got(v[k], p + m + n))
            = Got(Append(SubSeq(v, 1, k - 1), v[k]), p + m + n)
      BY DEF Behind, Got
    <3>3. Append(SubSeq(v, 1, k - 1), v[k]) = SubSeq(v, 1, k)
      <4>1. 1 \in 1..Len(v) /\ k \in 1..Len(v)
        BY <1>1
      <4>2. SubSeq(v, 1, k) = SubSeq(v, 1, k - 1) \o <<v[k]>>
        BY <4>1, SubSeqRecursiveSecond
      <4>3. SubSeq(v, 1, k - 1) \in Seq(V)
        <5>1. \A i \in 1..k - 1 : v[i] \in V
          BY <1>1, ElementOfSeq
        <5> QED BY <5>1, SubSeqProperties
      <4> QED BY <1>1, <4>2, <4>3, AppendIsConcat
    <3>4. p + (m + n) = p + m + n
      OBVIOUS
    <3> QED BY <2>1, <2>3, <3>1, <3>2, <3>3, <3>4 DEF Found
  <2>4. CASE ~(p + m + n <= Len(buf))
    <3>1. next = Thrown
      BY <2>4 DEF Found
    <3>2. Behind(Got(SubSeq(v, 1, k - 1), p + m), Thrown) = Thrown
      BY DEF Behind, Thrown
    <3>3. ~(p + (m + n) <= Len(buf))
      BY <1>1, <2>4
    <3> QED BY <2>1, <3>1, <3>2, <3>3 DEF Found
  <2> QED BY <2>3, <2>4
<1>3. CASE ~(p + m <= Len(buf))
  <2>1. Found(buf, p, m, SubSeq(v, 1, k - 1)) = Thrown
    BY <1>3 DEF Found
  <2>2. Behind(Thrown, next) = Thrown
    <3> HIDE DEF next
    <3> QED BY DEF Behind, Thrown
  <2>3. ~(p + (m + n) <= Len(buf))
    BY <1>1, <1>3
  <2> QED BY <2>1, <2>2, <2>3 DEF Found
<1> QED BY <1>2, <1>3

\* Nothing written is found everywhere: what is read of no bytes moves nothing.
LEMMA NothingFound ==
    ASSUME NEW buf \in Seq(Byte), NEW p \in Nat, p <= Len(buf), NEW V, NEW v \in Seq(V)
    PROVE  Found(buf, p, 0, SubSeq(v, 1, 0)) = Got(<<>>, p)
<1>1. SubSeq(v, 1, 0) = <<>>
  BY SubSeqEmpty
<1>2. p + 0 = p
  OBVIOUS
<1> QED BY <1>1, <1>2 DEF Found

\* In a buffer with the pieces behind each other, each piece is in its place.
LEMMA PieceAgrees ==
    ASSUME NEW buf \in Seq(Byte), NEW p \in Nat, NEW s \in Seq(Seq(Byte)),
           Agrees(buf, p, FlattenSeq(s))
    PROVE  \E e : /\ IsPlaces(e, s)
                  /\ Len(FlattenSeq(s)) = e[Len(s)]
                  /\ \A k \in 1..Len(s) : Agrees(buf, p + e[k - 1], s[k])
<1>1. PICK e : /\ IsPlaces(e, s)
               /\ Len(FlattenSeq(s)) = e[Len(s)]
               /\ \A k \in 1..Len(s) : \A j \in 1..Len(s[k]) :
                    /\ e[k - 1] + j \in 1..Len(FlattenSeq(s))
                    /\ FlattenSeq(s)[e[k - 1] + j] = s[k][j]
  BY FlattenPlaces
<1>2. ASSUME NEW k \in 1..Len(s) PROVE Agrees(buf, p + e[k - 1], s[k])
  <2>1. ASSUME NEW j \in 1..Len(s[k]), (p + e[k - 1]) + j <= Len(buf)
        PROVE  buf[(p + e[k - 1]) + j] = s[k][j]
    <3>1. e[k - 1] \in Nat
      <4>1. k - 1 \in 0..Len(s)
        OBVIOUS
      <4> QED BY <1>1, <4>1 DEF IsPlaces
    <3>2. p + (e[k - 1] + j) = (p + e[k - 1]) + j
      BY <3>1
    <3>3. e[k - 1] + j \in 1..Len(FlattenSeq(s)) /\ FlattenSeq(s)[e[k - 1] + j] = s[k][j]
      BY <1>1
    <3>4. p + (e[k - 1] + j) <= Len(buf)
      BY <2>1, <3>2
    <3> QED BY <3>2, <3>3, <3>4 DEF Agrees
  <2> QED BY <2>1 DEF Agrees
<1> QED BY <1>1, <1>2

\* Wherever it is, element k of the container v is read of what was written for it, s[k].
ElementsFound(type, v, s, buf) ==
    /\ Len(s) = Len(v)
    /\ \A k \in 1..Len(v) : \A p \in Nat :
         Agrees(buf, p, s[k]) =>
             Found(buf, p, Len(s[k]), v[k]) = IF type.kind = "map" THEN ReadPair(type, buf, p)
                                              ELSE ReadElement(type.of, buf, p)

\* If each of its elements is read as it was written, so is a container.
LEMMA ContainerFound ==
    ASSUME NEW type, NEW V, NEW v \in Seq(V), Len(v) < SizeBound,
           NEW s \in Seq(Seq(Byte)), NEW buf \in Seq(Byte), NEW pos \in Nat,
           Agrees(buf, pos, Size(Len(v)) \o FlattenSeq(s)),
           ElementsFound(type, v, s, buf)
    PROVE  ReadContainer(type, buf, pos) = Found(buf, pos, 8 + Len(FlattenSeq(s)), v)
<1>1. Len(v) \in Nat /\ Len(buf) \in Nat /\ \A k \in 1..Len(s) : Len(s[k]) \in Nat
  OBVIOUS
<1>0. Len(s) = Len(v)
  BY DEF ElementsFound
<1>2. Size(Len(v)) \in Seq(Byte) /\ Len(Size(Len(v))) = 8
  <2>1. Len(v) \in Int
    BY <1>1
  <2> QED BY <2>1, SizeBytes
<1>3. FlattenSeq(s) \in Seq(Byte)
  BY FlattenPlaces
<1>4. Agrees(buf, pos, Size(Len(v))) /\ Agrees(buf, pos + 8, FlattenSeq(s))
  BY <1>2, <1>3, AgreesConcat
<1>5. ReadSize(buf, pos) = Found(buf, pos, 8, Len(v))
  BY <1>1, <1>4, SizeFound
<1>6. pos + 8 \in Nat /\ Len(FlattenSeq(s)) \in Nat
  BY <1>3
<1> DEFINE size == ReadSize(buf, pos)
           One(p) == IF type.kind = "map" THEN ReadPair(type, buf, p)
                     ELSE ReadElement(type.of, buf, p)
           upTo[k \in 0..size.val] ==
               IF k = 0 THEN Got(<<>>, size.pos) ELSE Behind(upTo[k - 1], One(upTo[k - 1].pos))
<1>7. ReadContainer(type, buf, pos) = IF size.ok THEN upTo[size.val] ELSE Thrown
  BY DEF ReadContainer
<1>8. CASE pos + 8 <= Len(buf)
  <2>1. ReadSize(buf, pos) = Got(Len(v), pos + 8)
    BY <1>5, <1>8 DEF Found
  <2>2. size.ok = TRUE /\ size.val = Len(v) /\ size.pos = pos + 8
    BY <2>1 DEF Got
  <2> HIDE DEF size
  <2>3. PICK e : /\ IsPlaces(e, s)
                 /\ Len(FlattenSeq(s)) = e[Len(s)]
                 /\ \A k \in 1..Len(s) : Agrees(buf, (pos + 8) + e[k - 1], s[k])
    BY <1>4, <1>6, PieceAgrees
  <2>4. /\ e[0] = 0 /\ \A k \in 0..Len(v) : e[k] \in Nat
        /\ \A k \in 1..Len(v) : e[k] = e[k - 1] + Len(s[k])
    BY <1>0, <2>3 DEF IsPlaces
  <2> DEFINE g == [k \in 0..Len(v) |-> Found(buf, pos + 8, e[k], SubSeq(v, 1, k))]
  <2>5. g[0] = Got(<<>>, pos + 8)
    <3>1. Found(buf, pos + 8, 0, SubSeq(v, 1, 0)) = Got(<<>>, pos + 8)
      BY <1>6, <1>8, NothingFound
    <3> QED BY <1>1, <2>4, <3>1
  <2>6. ASSUME NEW k \in 1..Len(v) PROVE g[k] = Behind(g[k - 1], One(g[k - 1].pos))
    <3>1. k - 1 \in 0..Len(v) /\ k \in 0..Len(v) /\ k \in 1..Len(s)
      BY <1>0, <1>1
    <3>2. /\ e[k - 1] \in Nat /\ Len(s[k]) \in Nat /\ e[k] = e[k - 1] + Len(s[k])
          /\ (pos + 8) + e[k - 1] \in Nat
      BY <1>1, <2>4, <3>1
    <3>3. ASSUME (pos + 8) + e[k - 1] <= Len(buf)
          PROVE  One(g[k - 1].pos) = Found(buf, (pos + 8) + e[k - 1], Len(s[k]), v[k])
      <4>1. g[k - 1].pos = (pos + 8) + e[k - 1]
        BY <3>1, <3>3 DEF Found, Got
      <4>2. Agrees(buf, (pos + 8) + e[k - 1], s[k])
        BY <2>3, <3>1
      <4>3. Found(buf, (pos + 8) + e[k - 1], Len(s[k]), v[k]) = One((pos + 8) + e[k - 1])
        BY <3>2, <4>2 DEF ElementsFound
      <4> HIDE DEF g, One
      <4> QED BY <4>1, <4>3
    <3> DEFINE next == One(g[k - 1].pos)
    <3>4. g[k - 1] = Found(buf, pos + 8, e[k - 1], SubSeq(v, 1, k - 1))
      BY <3>1
    <3>5. g[k] = Found(buf, pos + 8, e[k - 1] + Len(s[k]), SubSeq(v, 1, k))
      BY <3>1, <3>2
    <3>6. (pos + 8) + e[k - 1] <= Len(buf)
            => next = Found(buf, (pos + 8) + e[k - 1], Len(s[k]), v[k])
      BY <3>3
    <3> HIDE DEF next, g, One
    <3>7. ASSUME NEW p \in Nat, p = pos + 8, NEW m \in Nat, m = e[k - 1],
                 NEW n \in Nat, n = Len(s[k])
          PROVE  g[k] = Behind(g[k - 1], next)
      <4>1. CASE p + m <= Len(buf)
        <5>1. next = Found(buf, p + m, n, v[k])
          BY <3>6, <3>7, <4>1
        <5>2. Behind(Found(buf, p, m, SubSeq(v, 1, k - 1)), Found(buf, p + m, n, v[k]))
                = Found(buf, p, m + n, SubSeq(v, 1, k))
          BY OneMore
        <5> QED BY <3>4, <3>5, <3>7, <5>1, <5>2
      <4>2. CASE ~(p + m <= Len(buf))
        <5>1. ~(p + (m + n) <= Len(buf))
          BY <1>1, <4>2
        <5>2. g[k - 1] = Thrown /\ g[k] = Thrown
          BY <3>4, <3>5, <3>7, <4>2, <5>1 DEF Found
        <5> QED BY <5>2 DEF Behind, Thrown
      <4> QED BY <4>1, <4>2
    <3>8. g[k] = Behind(g[k - 1], next)
      BY <1>6, <3>2, <3>7
    <3> QED BY <3>8 DEF next
  <2> HIDE DEF g, One
  <2>7. g = [k \in 0..Len(v) |-> IF k = 0 THEN Got(<<>>, size.pos)
                                 ELSE Behind(g[k - 1], One(g[k - 1].pos))]
    <3>1. \A k \in 0..Len(v) : g[k] = IF k = 0 THEN Got(<<>>, size.pos)
                                      ELSE Behind(g[k - 1], One(g[k - 1].pos))
      <4>1. \A k \in 0..Len(v) : k # 0 => k \in 1..Len(v)
        OBVIOUS
      <4> QED BY <2>2, <2>5, <2>6, <4>1
    <3> QED BY <3>1 DEF g
  <2>8. upTo = [k \in 0..Len(v) |-> IF k = 0 THEN Got(<<>>, size.pos)
                                    ELSE Behind(upTo[k - 1], One(upTo[k - 1].pos))]
    BY <2>2, <2>7 DEF upTo
  <2> HIDE DEF upTo
  <2> DEFINE S == {k \in Nat : k <= Len(v) => upTo[k] = g[k]}
  <2>9. 0 \in S
    <3>1. 0 \in 0..Len(v)
      BY <1>1
    <3> QED BY <2>2, <2>5, <2>8, <3>1
  <2>10. ASSUME NEW k \in S PROVE k + 1 \in S
    <3>1. k \in Nat /\ k + 1 \in Nat /\ (k + 1) - 1 = k /\ k + 1 # 0
      OBVIOUS
    <3>2. ASSUME k + 1 <= Len(v) PROVE upTo[k + 1] = g[k + 1]
      <4>1. k + 1 \in 0..Len(v) /\ k + 1 \in 1..Len(v) /\ k <= Len(v)
        BY <1>1, <3>1, <3>2
      <4>2. upTo[k + 1] = Behind(upTo[k], One(upTo[k].pos))
        BY <2>8, <3>1, <4>1
      <4>3. g[k + 1] = Behind(g[k], One(g[k].pos))
        BY <2>6, <3>1, <4>1
      <4>4. upTo[k] = g[k]
        BY <4>1
      <4> QED BY <4>2, <4>3, <4>4
    <3> QED BY <3>1, <3>2
  <2>11. S = Nat
    <3>1. S \in SUBSET Nat
      OBVIOUS
    <3> HIDE DEF S
    <3> QED BY <2>9, <2>10, <3>1, Induction
  <2>12. upTo[Len(v)] = g[Len(v)]
    <3>1. \A k \in Nat : k <= Len(v) => upTo[k] = g[k]
      BY <2>11
    <3>2. Len(v) <= Len(v)
      BY <1>1
    <3> HIDE DEF S
    <3> QED BY <1>1, <3>1, <3>2
  <2>13. g[Len(v)] = Found(buf, pos + 8, Len(FlattenSeq(s)), v)
    <3>1. SubSeq(v, 1, Len(v)) = v
      BY SubSeqFull
    <3>2. Len(v) \in 0..Len(v)
      BY <1>1
    <3>3. e[Len(v)] = Len(FlattenSeq(s))
      BY <1>0, <2>3
    <3> QED BY <3>1, <3>2, <3>3 DEF g
  <2>14. Found(buf, pos + 8, Len(FlattenSeq(s)), v) = Found(buf, pos, 8 + Len(FlattenSeq(s)), v)
    <3>1. pos + 8 + Len(FlattenSeq(s)) = pos + (8 + Len(FlattenSeq(s)))
      BY <1>6
    <3> QED BY <3>1 DEF Found
  <2>15. ReadContainer(type, buf, pos) = upTo[Len(v)]
    BY <1>7, <2>2
  <2> QED BY <2>12, <2>13, <2>14, <2>15
<1>9. CASE ~(pos + 8 <= Len(buf))
  <2>1. size.ok = FALSE
    BY <1>5, <1>9 DEF Found, Thrown
  <2>2. ReadContainer(type, buf, pos) = Thrown
    <3> HIDE DEF size, upTo
    <3> QED BY <1>7, <2>1
  <2>3. ~(pos + (8 + Len(FlattenSeq(s))) <= Len(buf))
    BY <1>1, <1>6, <1>9
  <2> QED BY <2>2, <2>3 DEF Found
<1> QED BY <1>8, <1>9

\* Wherever it is, value k of a tuple is read of what was written for it, s[k].
ValuesFound(types, v, s, buf) ==
    /\ Len(types) = Len(v) /\ Len(s) = Len(v)
    /\ \A k \in 1..Len(v) : \A p \in Nat :
         Agrees(buf, p, s[k]) => Found(buf, p, Len(s[k]), v[k]) = Read(types[k], buf, p)

\* If each of its values is read as it was written, so is a tuple.
LEMMA TupleFound ==
    ASSUME NEW types, NEW V, NEW v \in Seq(V), NEW s \in Seq(Seq(Byte)),
           NEW buf \in Seq(Byte), NEW pos \in Nat, pos <= Len(buf),
           Agrees(buf, pos, FlattenSeq(s)),
           ValuesFound(types, v, s, buf)
    PROVE  ReadTuple(types, buf, pos) = Found(buf, pos, Len(FlattenSeq(s)), v)
<1>1. Len(v) \in Nat /\ Len(buf) \in Nat /\ \A k \in 1..Len(s) : Len(s[k]) \in Nat
  OBVIOUS
<1>2. Len(types) = Len(v) /\ Len(s) = Len(v)
  BY DEF ValuesFound
<1> DEFINE upTo[k \in 0..Len(types)] ==
               IF k = 0 THEN Got(<<>>, pos)
               ELSE Behind(upTo[k - 1], Read(types[k], buf, upTo[k - 1].pos))
<1>3. ReadTuple(types, buf, pos) = upTo[Len(types)]
  BY DEF ReadTuple
<1>4. PICK e : /\ IsPlaces(e, s)
               /\ Len(FlattenSeq(s)) = e[Len(s)]
               /\ \A k \in 1..Len(s) : Agrees(buf, pos + e[k - 1], s[k])
  BY PieceAgrees
<1>5. /\ e[0] = 0 /\ \A k \in 0..Len(v) : e[k] \in Nat
      /\ \A k \in 1..Len(v) : e[k] = e[k - 1] + Len(s[k])
  BY <1>2, <1>4 DEF IsPlaces
<1> DEFINE g == [k \in 0..Len(v) |-> Found(buf, pos, e[k], SubSeq(v, 1, k))]
<1>6. g[0] = Got(<<>>, pos)
  <2>1. Found(buf, pos, 0, SubSeq(v, 1, 0)) = Got(<<>>, pos)
    BY NothingFound
  <2> QED BY <1>1, <1>5, <2>1
<1>7. ASSUME NEW k \in 1..Len(v)
      PROVE  g[k] = Behind(g[k - 1], Read(types[k], buf, g[k - 1].pos))
  <2> DEFINE next == Read(types[k], buf, g[k - 1].pos)
  <2>1. k - 1 \in 0..Len(v) /\ k \in 0..Len(v) /\ k \in 1..Len(s)
    BY <1>1, <1>2
  <2>2. /\ e[k - 1] \in Nat /\ Len(s[k]) \in Nat /\ e[k] = e[k - 1] + Len(s[k])
        /\ pos + e[k - 1] \in Nat
    BY <1>1, <1>5, <2>1
  <2>3. ASSUME pos + e[k - 1] <= Len(buf)
        PROVE  next = Found(buf, pos + e[k - 1], Len(s[k]), v[k])
    <3>1. g[k - 1].pos = pos + e[k - 1]
      BY <2>1, <2>3 DEF Found, Got
    <3>2. Agrees(buf, pos + e[k - 1], s[k])
      BY <1>4, <2>1
    <3>3. Found(buf, pos + e[k - 1], Len(s[k]), v[k]) = Read(types[k], buf, pos + e[k - 1])
      BY <2>2, <3>2 DEF ValuesFound
    <3> HIDE DEF g
    <3> QED BY <3>1, <3>3
  <2>4. g[k - 1] = Found(buf, pos, e[k - 1], SubSeq(v, 1, k - 1))
    BY <2>1
  <2>5. g[k] = Found(buf, pos, e[k - 1] + Len(s[k]), SubSeq(v, 1, k))
    BY <2>1, <2>2
  <2> HIDE DEF next, g
  <2>6. ASSUME NEW m \in Nat, m = e[k - 1], NEW n \in Nat, n = Len(s[k])
        PROVE  g[k] = Behind(g[k - 1], next)
    <3>1. CASE pos + m <= Len(buf)
      <4>1. next = Found(buf, pos + m, n, v[k])
        BY <2>3, <2>6, <3>1
      <4>2. Behind(Found(buf, pos, m, SubSeq(v, 1, k - 1)), Found(buf, pos + m, n, v[k]))
              = Found(buf, pos, m + n, SubSeq(v, 1, k))
        BY OneMore
      <4> QED BY <2>4, <2>5, <2>6, <4>1, <4>2
    <3>2. CASE ~(pos + m <= Len(buf))
      <4>1. ~(pos + (m + n) <= Len(buf))
        BY <1>1, <3>2
      <4>2. g[k - 1] = Thrown /\ g[k] = Thrown
        BY <2>4, <2>5, <2>6, <3>2, <4>1 DEF Found
      <4> QED BY <4>2 DEF Behind, Thrown
    <3> QED BY <3>1, <3>2
  <2>7. g[k] = Behind(g[k - 1], next)
    BY <2>2, <2>6
  <2> QED BY <2>7 DEF next
<1> HIDE DEF g
<1>8. \A k \in 0..Len(v) : g[k] = IF k = 0 THEN Got(<<>>, pos)
                                  ELSE Behind(g[k - 1], Read(types[k], buf, g[k - 1].pos))
  <2>1. \A k \in 0..Len(v) : k # 0 => k \in 1..Len(v)
    OBVIOUS
  <2> QED BY <1>6, <1>7, <2>1
<1>9. g = [k \in 0..Len(v) |-> IF k = 0 THEN Got(<<>>, pos)
                               ELSE Behind(g[k - 1], Read(types[k], buf, g[k - 1].pos))]
  BY <1>8 DEF g
<1>10. upTo = [k \in 0..Len(v) |-> IF k = 0 THEN Got(<<>>, pos)
                                   ELSE Behind(upTo[k - 1], Read(types[k], buf, upTo[k - 1].pos))]
  BY <1>2, <1>9 DEF upTo
<1> HIDE DEF upTo
<1> DEFINE S == {k \in Nat : k <= Len(v) => upTo[k] = g[k]}
<1>11. 0 \in S
  <2>1. 0 \in 0..Len(v)
    BY <1>1
  <2> QED BY <1>6, <1>10, <2>1
<1>12. ASSUME NEW k \in S PROVE k + 1 \in S
  <2>1. k \in Nat /\ k + 1 \in Nat /\ (k + 1) - 1 = k /\ k + 1 # 0
    OBVIOUS
  <2>2. ASSUME k + 1 <= Len(v) PROVE upTo[k + 1] = g[k + 1]
    <3>1. k + 1 \in 0..Len(v) /\ k + 1 \in 1..Len(v) /\ k <= Len(v)
      BY <1>1, <2>1, <2>2
    <3>2. upTo[k + 1] = Behind(upTo[k], Read(types[k + 1], buf, upTo[k].pos))
      BY <1>10, <2>1, <3>1
    <3>3. g[k + 1] = Behind(g[k], Read(types[k + 1], buf, g[k].pos))
      BY <1>7, <2>1, <3>1
    <3>4. upTo[k] = g[k]
      BY <3>1
    <3> QED BY <3>2, <3>3, <3>4
  <2> QED BY <2>1, <2>2
<1>13. S = Nat
  <2>1. S \in SUBSET Nat
    OBVIOUS
  <2> HIDE DEF S
  <2> QED BY <1>11, <1>12, <2>1, Induction
<1>14. upTo[Len(v)] = g[Len(v)]
  <2>1. \A k \in Nat : k <= Len(v) => upTo[k] = g[k]
    BY <1>13
  <2>2. Len(v) <= Len(v)
    BY <1>1
  <2> HIDE DEF S
  <2> QED BY <1>1, <2>1, <2>2
<1>15. g[Len(v)] = Found(buf, pos, Len(FlattenSeq(s)), v)
  <2>1. SubSeq(v, 1, Len(v)) = v
    BY SubSeqFull
  <2>2. Len(v) \in 0..Len(v)
    BY <1>1
  <2>3. e[Len(v)] = Len(FlattenSeq(s))
    BY <1>2, <1>4
  <2> QED BY <2>1, <2>2, <2>3 DEF g
<1> QED BY <1>2, <1>3, <1>14, <1>15

\* An element of a container is written as bytes.
LEMMA ElementWritten ==
    ASSUME NEW type \in ElementType, NEW v \in ElementValues(type)
    PROVE  WriteElement(type, v) \in Seq(Byte)
<1>1. CASE IsScalar(type)
  <2>1. type.kind \in Scalar /\ v \in Int
    BY <1>1 DEF ElementValues, IsScalar
  <2>2. WriteNum(type.kind, v) \in Seq(Byte)
    BY <2>1, NumberWritten
  <2> QED BY <1>1, <2>2 DEF WriteElement
<1>2. CASE ~IsScalar(type)
  BY <1>2, EmptySeq DEF WriteElement
<1> QED BY <1>1, <1>2

\* A scalar that is an element of a container is read as it was written.
LEMMA ElementFound ==
    ASSUME NEW type, IsScalar(type), NEW v \in ElementValues(type),
           NEW buf \in Seq(Byte), NEW p \in Nat, Agrees(buf, p, WriteElement(type, v))
    PROVE  /\ WriteElement(type, v) \in Seq(Byte)
           /\ ReadNum(type.kind, buf, p) = Found(buf, p, Len(WriteElement(type, v)), v)
<1>1. type.kind \in Scalar /\ v \in Int /\ Fits(type.kind, v)
  BY DEF ElementValues, IsScalar
<1>2. WriteElement(type, v) = WriteNum(type.kind, v)
  BY DEF WriteElement
<1>3. WriteNum(type.kind, v) \in Seq(Byte) /\ Len(WriteNum(type.kind, v)) = sizeof[type.kind]
  BY <1>1, NumberWritten
<1>4. Agrees(buf, p, WriteNum(type.kind, v))
  BY <1>2
<1>5. ReadNum(type.kind, buf, p) = Found(buf, p, sizeof[type.kind], v)
  BY <1>1, <1>4, NumberFound
<1> QED BY <1>2, <1>3, <1>5

\* A pair of scalars is read as it was written: the elements of a map.
LEMMA PairFound ==
    ASSUME NEW type, IsScalar(type.key), IsScalar(type.of),
           NEW v \in ElementValues(type.key) \X ElementValues(type.of),
           NEW buf \in Seq(Byte), NEW p \in Nat, Agrees(buf, p, WritePair(type, v))
    PROVE  ReadPair(type, buf, p) = Found(buf, p, Len(WritePair(type, v)), v)
<1> DEFINE w1 == WriteElement(type.key, v[1])
           w2 == WriteElement(type.of, v[2])
<1>1. v[1] \in ElementValues(type.key) /\ v[2] \in ElementValues(type.of) /\ v = <<v[1], v[2]>>
  OBVIOUS
<1>2. w1 \in Seq(Byte) /\ w2 \in Seq(Byte)
  <2>1. type.key.kind \in Scalar /\ v[1] \in Int /\ type.of.kind \in Scalar /\ v[2] \in Int
    BY <1>1 DEF ElementValues, IsScalar
  <2>2. WriteNum(type.key.kind, v[1]) \in Seq(Byte)
    BY <2>1, NumberWritten
  <2>3. WriteNum(type.of.kind, v[2]) \in Seq(Byte)
    BY <2>1, NumberWritten
  <2> QED BY <2>2, <2>3 DEF WriteElement
<1>3. WritePair(type, v) = w1 \o w2
  BY DEF WritePair
<1>4. Len(w1) \in Nat /\ Len(w2) \in Nat /\ Len(buf) \in Nat
  BY <1>2
<1>5. ReadMember(type.key, buf, p) = Found(buf, p, Len(w1), v[1])
  <2>1. Agrees(buf, p, WriteElement(type.key, v[1]))
    <3> HIDE DEF w2
    <3> QED BY <1>2, <1>3, AgreesConcat
  <2>2. ReadNum(type.key.kind, buf, p) = Found(buf, p, Len(w1), v[1])
    BY <1>1, <2>1, ElementFound
  <2> QED BY <2>2 DEF ReadMember
<1>6. p + Len(w1) \in Nat
  BY <1>4
<1>7. ReadMember(type.of, buf, p + Len(w1)) = Found(buf, p + Len(w1), Len(w2), v[2])
  <2>1. Agrees(buf, p + Len(w1), WriteElement(type.of, v[2]))
    <3> HIDE DEF w1
    <3> QED BY <1>2, <1>3, AgreesConcat
  <2> HIDE DEF w1
  <2>2. ReadNum(type.of.kind, buf, p + Len(w1)) = Found(buf, p + Len(w1), Len(w2), v[2])
    BY <1>1, <1>6, <2>1, ElementFound
  <2> QED BY <2>2 DEF ReadMember
<1> HIDE DEF w1, w2
<1>8. Len(WritePair(type, v)) = Len(w1) + Len(w2)
  BY <1>2, <1>3
<1>9. CASE p + Len(w1) <= Len(buf)
  <2>1. ReadMember(type.key, buf, p) = Got(v[1], p + Len(w1))
    BY <1>5, <1>9 DEF Found
  <2>2. CASE p + Len(w1) + Len(w2) <= Len(buf)
    <3>1. ReadMember(type.of, buf, p + Len(w1)) = Got(v[2], p + Len(w1) + Len(w2))
      BY <1>7, <2>2 DEF Found
    <3>2. ReadPair(type, buf, p) = Got(<<v[1], v[2]>>, p + Len(w1) + Len(w2))
      <4> DEFINE first == ReadMember(type.key, buf, p)
                 second == ReadMember(type.of, buf, first.pos)
      <4>1. first.ok = TRUE /\ first.val = v[1] /\ first.pos = p + Len(w1)
        BY <2>1 DEF Got
      <4>2. second = Got(v[2], p + Len(w1) + Len(w2))
        BY <3>1, <4>1
      <4>3. /\ second.ok = TRUE /\ second.val = v[2]
            /\ second.pos = p + Len(w1) + Len(w2)
        BY <4>2 DEF Got
      <4>4. ReadPair(type, buf, p)
              = IF first.ok /\ second.ok THEN Got(<<first.val, second.val>>, second.pos) ELSE Thrown
        BY DEF ReadPair
      <4> HIDE DEF first, second
      <4> QED BY <4>1, <4>3, <4>4
    <3>3. p + (Len(w1) + Len(w2)) = p + Len(w1) + Len(w2)
      BY <1>4
    <3> QED BY <1>1, <1>8, <2>2, <3>2, <3>3 DEF Found
  <2>3. CASE ~(p + Len(w1) + Len(w2) <= Len(buf))
    <3>1. ReadMember(type.of, buf, p + Len(w1)) = Thrown
      BY <1>7, <2>3 DEF Found
    <3>2. ReadPair(type, buf, p) = Thrown
      BY <2>1, <3>1 DEF ReadPair, Got, Thrown
    <3>3. ~(p + (Len(w1) + Len(w2)) <= Len(buf))
      BY <1>4, <2>3
    <3> QED BY <1>8, <3>2, <3>3 DEF Found
  <2> QED BY <2>2, <2>3
<1>10. CASE ~(p + Len(w1) <= Len(buf))
  <2>1. ReadMember(type.key, buf, p) = Thrown
    BY <1>5, <1>10 DEF Found
  <2>2. ReadPair(type, buf, p) = Thrown
    BY <2>1 DEF ReadPair, Thrown
  <2>3. ~(p + (Len(w1) + Len(w2)) <= Len(buf))
    BY <1>4, <1>10
  <2> QED BY <1>8, <2>2, <2>3 DEF Found
<1> QED BY <1>9, <1>10

-----------------------------------------------------------------------------
(* Every type.                                                             *)

\* A type is that of an element, of a vector or of a map.
LEMMA TypeCases ==
    ASSUME NEW type \in Type
    PROVE  \/ IsScalar(type) /\ type.kind \notin {"vector", "map", "string"}
           \/ type = Str /\ type.kind = "string" /\ ~IsScalar(type)
           \/ type.kind = "vector" /\ type.of \in ElementType
           \/ type.kind = "map" /\ type.key \in ElementType /\ type.of \in ElementType
<1>1. Scalar = {"bool", "int8", "uint8", "int16", "uint16", "int32", "uint32", "int64", "uint64"}
  BY ScalarSizes
<1>2. CASE type \in ElementType
  <2>1. CASE type = Str
    BY <1>1, <2>1 DEF Str, IsScalar
  <2>2. CASE type # Str
    <3>1. PICK name \in Scalar : type = Num(name)
      BY <1>2, <2>2 DEF ElementType
    <3>2. type.kind = name
      BY <3>1 DEF Num
    <3> QED BY <1>1, <3>2 DEF IsScalar
  <2> QED BY <2>1, <2>2
<1>3. CASE \E t \in ElementType : type = VectorOf(t)
  BY <1>3 DEF VectorOf
<1>4. CASE \E key, t \in ElementType : type = MapOf(key, t)
  BY <1>4 DEF MapOf
<1> QED BY <1>2, <1>3, <1>4 DEF Type

\* An element is a scalar, of which the values are numbers, or a string.
LEMMA ElementCases ==
    ASSUME NEW type \in ElementType
    PROVE  IsScalar(type) \/ type = Str
<1>1. ASSUME NEW name \in Scalar, type = Num(name) PROVE IsScalar(type)
  BY <1>1 DEF Num, IsScalar
<1> QED BY <1>1 DEF ElementType

\* A type in which no string is const when it is written.
Kept(type) ==
    CASE type.kind = "vector" -> type.of # Str
      [] type.kind = "map" -> Str \notin {type.key, type.of}
      [] OTHER -> type # Str

\* A piece is not longer than all of them.
LEMMA PieceLength ==
    ASSUME NEW s \in Seq(Seq(Byte)), NEW k \in 1..Len(s)
    PROVE  Len(s[k]) <= Len(FlattenSeq(s))
<1>1. FlattenSeq(s) \in Seq(Byte)
  BY FlattenPlaces
<1>2. Len(s[k]) \in Nat /\ Len(FlattenSeq(s)) \in Nat /\ Len(s) \in Nat
  BY <1>1
<1>3. PICK e : /\ IsPlaces(e, s)
               /\ \A i \in 1..Len(s) : \A j \in 1..Len(s[i]) :
                    e[i - 1] + j \in 1..Len(FlattenSeq(s))
  BY FlattenPlaces
<1>4. e[k - 1] \in Nat
  <2>1. k - 1 \in 0..Len(s)
    BY <1>2
  <2> QED BY <1>3, <2>1 DEF IsPlaces
<1>5. CASE Len(s[k]) = 0
  BY <1>2, <1>5
<1>6. CASE Len(s[k]) # 0
  <2>1. Len(s[k]) \in 1..Len(s[k])
    BY <1>2, <1>6
  <2>2. e[k - 1] + Len(s[k]) \in 1..Len(FlattenSeq(s))
    BY <1>3, <2>1
  <2> QED BY <1>2, <1>4, <2>2
<1> QED BY <1>5, <1>6

\* Pieces that are not empty are no more than their bytes.
LEMMA PieceCount ==
    ASSUME NEW s \in Seq(Seq(Byte)), \A k \in 1..Len(s) : Len(s[k]) > 0
    PROVE  Len(s) <= Len(FlattenSeq(s))
<1>1. Len(s) \in Nat /\ \A k \in 1..Len(s) : Len(s[k]) \in Nat
  OBVIOUS
<1>2. PICK e : IsPlaces(e, s) /\ Len(FlattenSeq(s)) = e[Len(s)]
  BY FlattenPlaces
<1>3. /\ e[0] = 0 /\ \A k \in 0..Len(s) : e[k] \in Nat
      /\ \A k \in 1..Len(s) : e[k] = e[k - 1] + Len(s[k])
  BY <1>2 DEF IsPlaces
<1> DEFINE S == {k \in Nat : k <= Len(s) => k <= e[k]}
<1>4. 0 \in S
  BY <1>3
<1>5. ASSUME NEW k \in S PROVE k + 1 \in S
  <2>1. k \in Nat /\ k + 1 \in Nat /\ (k + 1) - 1 = k
    OBVIOUS
  <2>2. ASSUME k + 1 <= Len(s) PROVE k + 1 <= e[k + 1]
    <3>1. k + 1 \in 1..Len(s) /\ k <= Len(s) /\ k \in 0..Len(s)
      BY <1>1, <2>1, <2>2
    <3>2. e[k + 1] = e[k] + Len(s[k + 1]) /\ e[k] \in Nat
      BY <1>3, <2>1, <3>1
    <3>3. Len(s[k + 1]) \in Nat /\ Len(s[k + 1]) > 0
      BY <1>1, <3>1
    <3>4. k <= e[k]
      BY <3>1
    <3> QED BY <2>1, <3>2, <3>3, <3>4
  <2> QED BY <2>1, <2>2
<1>6. S = Nat
  <2>1. S \in SUBSET Nat
    OBVIOUS
  <2> HIDE DEF S
  <2> QED BY <1>4, <1>5, <2>1, Induction
<1>7. Len(s) <= e[Len(s)]
  <2>1. \A k \in Nat : k <= Len(s) => k <= e[k]
    BY <1>6
  <2>2. Len(s) <= Len(s)
    BY <1>1
  <2> HIDE DEF S
  <2> QED BY <1>1, <2>1, <2>2
<1> QED BY <1>2, <1>7

\* What the elements of a container are written as.
Elements(type, v) ==
    IF type.kind = "map" THEN [k \in 1..Len(v) |-> WritePair(type, v[k])]
    ELSE [k \in 1..Len(v) |-> WriteElement(type.of, v[k])]

\* A container is written as its size and its elements.
LEMMA ContainerWritten ==
    ASSUME NEW type \in Type, type.kind \in {"vector", "map"}, NEW v \in ValuesOf(type)
    PROVE  /\ Len(v) \in Nat
           /\ Elements(type, v) \in Seq(Seq(Byte))
           /\ Len(Elements(type, v)) = Len(v)
           /\ WriteConst(type, v) = Size(Len(v)) \o FlattenSeq(Elements(type, v))
           /\ WriteConst(type, v) \in Seq(Byte)
           /\ Len(WriteConst(type, v)) = 8 + Len(FlattenSeq(Elements(type, v)))
<1> DEFINE s == Elements(type, v)
<1>1. Len(v) \in Nat /\ s \in Seq(Seq(Byte)) /\ Len(s) = Len(v)
      /\ WriteConst(type, v) = Size(Len(v)) \o FlattenSeq(s)
  <2>1. CASE type.kind = "vector"
    <3>1. type.of \in ElementType
      BY <2>1, TypeCases, ScalarSizes DEF IsScalar
    <3>2. v \in Seq(ElementValues(type.of))
      BY <2>1 DEF ValuesOf
    <3>3. Len(v) \in Nat /\ \A k \in 1..Len(v) : v[k] \in ElementValues(type.of)
      BY <3>2
    <3>4. \A k \in 1..Len(v) : WriteElement(type.of, v[k]) \in Seq(Byte)
      BY <3>1, <3>3, ElementWritten
    <3>5. s = [k \in 1..Len(v) |-> WriteElement(type.of, v[k])]
      BY <2>1 DEF Elements
    <3>6. s \in [1..Len(v) -> Seq(Byte)]
      BY <3>4, <3>5
    <3>7. WriteConst(type, v) = Size(Len(v)) \o FlattenSeq(s)
      BY <2>1, <3>5 DEF WriteConst
    <3> QED BY <3>3, <3>6, <3>7
  <2>2. CASE type.kind = "map"
    <3>1. type.key \in ElementType /\ type.of \in ElementType
      BY <2>2, TypeCases, ScalarSizes DEF IsScalar
    <3>2. v \in Seq(ElementValues(type.key) \X ElementValues(type.of))
      BY <2>2 DEF ValuesOf
    <3>3. Len(v) \in Nat
          /\ \A k \in 1..Len(v) : v[k] \in ElementValues(type.key) \X ElementValues(type.of)
      BY <3>2
    <3>4. ASSUME NEW k \in 1..Len(v) PROVE WritePair(type, v[k]) \in Seq(Byte)
      <4>1. v[k][1] \in ElementValues(type.key) /\ v[k][2] \in ElementValues(type.of)
        BY <3>3
      <4>2. WriteElement(type.key, v[k][1]) \in Seq(Byte)
        BY <3>1, <4>1, ElementWritten
      <4>3. WriteElement(type.of, v[k][2]) \in Seq(Byte)
        BY <3>1, <4>1, ElementWritten
      <4> QED BY <4>2, <4>3 DEF WritePair
    <3>5. s = [k \in 1..Len(v) |-> WritePair(type, v[k])]
      BY <2>2 DEF Elements
    <3>6. s \in [1..Len(v) -> Seq(Byte)]
      BY <3>4, <3>5
    <3>7. WriteConst(type, v) = Size(Len(v)) \o FlattenSeq(s)
      BY <2>2, <3>5 DEF WriteConst
    <3> QED BY <3>3, <3>6, <3>7
  <2> QED BY <2>1, <2>2
<1> HIDE DEF s
<1>2. FlattenSeq(s) \in Seq(Byte)
  BY <1>1, FlattenPlaces
<1>3. Size(Len(v)) \in Seq(Byte) /\ Len(Size(Len(v))) = 8
  <2>1. Len(v) \in Int
    BY <1>1
  <2> QED BY <2>1, SizeBytes
<1>4. WriteConst(type, v) \in Seq(Byte) /\ Len(WriteConst(type, v)) = 8 + Len(FlattenSeq(s))
  <2> DEFINE a == Size(Len(v))
             b == FlattenSeq(s)
  <2>1. a \in Seq(Byte) /\ b \in Seq(Byte) /\ Len(a) = 8
    BY <1>2, <1>3
  <2>2. WriteConst(type, v) = a \o b
    BY <1>1
  <2> HIDE DEF a, b
  <2>3. a \o b \in Seq(Byte) /\ Len(a \o b) = Len(a) + Len(b)
    BY <2>1, ConcatProperties
  <2>4. WriteConst(type, v) \in Seq(Byte) /\ Len(WriteConst(type, v)) = 8 + Len(b)
    BY <2>1, <2>2, <2>3
  <2> QED BY <2>4 DEF b
<1> QED BY <1>1, <1>4 DEF s

\* Every value is written as bytes.
LEMMA ConstWritten ==
    ASSUME NEW type \in Type, NEW v \in ValuesOf(type)
    PROVE  WriteConst(type, v) \in Seq(Byte)
<1>1. CASE type.kind \in {"vector", "map"}
  BY <1>1, ContainerWritten
<1>2. CASE type.kind \notin {"vector", "map"}
  <2>1. WriteConst(type, v) = WriteElement(type, v)
    BY <1>2 DEF WriteConst
  <2>2. v \in ElementValues(type)
    BY <1>2 DEF ValuesOf
  <2>3. CASE IsScalar(type)
    <3>1. type.kind \in Scalar /\ v \in Int
      BY <2>2, <2>3 DEF ElementValues, IsScalar
    <3>2. WriteNum(type.kind, v) \in Seq(Byte)
      BY <3>1, NumberWritten
    <3> QED BY <2>1, <2>3, <3>2 DEF WriteElement
  <2>4. CASE ~IsScalar(type)
    BY <2>1, <2>4, EmptySeq DEF WriteElement
  <2> QED BY <2>3, <2>4
<1> QED BY <1>1, <1>2

\* Where no string is an element of it, a container has elements that are read as they were
\* written, each of some bytes.
LEMMA KeptElements ==
    ASSUME NEW type \in Type, Kept(type)
    PROVE  /\ type.kind = "vector" => IsScalar(type.of)
           /\ type.kind = "map" => IsScalar(type.key) /\ IsScalar(type.of)
           /\ type.kind \notin {"vector", "map"} => IsScalar(type)
<1>1. CASE type.kind = "vector"
  <2>1. type.of \in ElementType /\ type.of # Str
    BY <1>1, TypeCases, ScalarSizes DEF IsScalar, Kept
  <2> QED BY <1>1, <2>1, ElementCases
<1>2. CASE type.kind = "map"
  <2>1. type.key \in ElementType /\ type.of \in ElementType /\ type.key # Str /\ type.of # Str
    BY <1>2, TypeCases, ScalarSizes DEF IsScalar, Kept
  <2> QED BY <1>2, <2>1, ElementCases
<1>3. CASE type.kind \notin {"vector", "map"}
  <2>1. type # Str
    BY <1>3 DEF Kept
  <2> QED BY <1>3, <2>1, TypeCases
<1> QED BY <1>1, <1>2, <1>3

\* A scalar in a tuple is written and read as a number.
LEMMA WrittenNumber ==
    ASSUME NEW type, IsScalar(type), NEW v \in ElementValues(type)
    PROVE  Len(WriteElement(type, v)) \in Nat \ {0}
<1>1. type.kind \in Scalar /\ v \in Int
  BY DEF ElementValues, IsScalar
<1>2. Len(WriteNum(type.kind, v)) = sizeof[type.kind]
  BY <1>1, NumberWritten
<1>3. sizeof[type.kind] \in {1, 2, 4, 8}
  BY <1>1, ScalarSizes
<1> QED BY <1>2, <1>3 DEF WriteElement

\* Nothing that is kept is written as nothing, and a container has no more elements than
\* bytes.
LEMMA KeptLength ==
    ASSUME NEW type \in Type, Kept(type), NEW v \in ValuesOf(type)
    PROVE  /\ Len(WriteConst(type, v)) \in Nat \ {0}
           /\ type.kind \in {"vector", "map"} => Len(v) < Len(WriteConst(type, v))
<1>1. CASE type.kind \in {"vector", "map"}
  <2> DEFINE s == Elements(type, v)
  <2>1. /\ Len(v) \in Nat /\ s \in Seq(Seq(Byte)) /\ Len(s) = Len(v)
        /\ Len(WriteConst(type, v)) = 8 + Len(FlattenSeq(s))
    BY <1>1, ContainerWritten
  <2>2. ASSUME NEW k \in 1..Len(v) PROVE Len(s[k]) > 0
    <3>1. CASE type.kind = "vector"
      <4>1. v \in Seq(ElementValues(type.of)) /\ IsScalar(type.of)
        BY <3>1, KeptElements DEF ValuesOf
      <4>2. v[k] \in ElementValues(type.of)
        BY <4>1
      <4>3. Len(WriteElement(type.of, v[k])) \in Nat \ {0}
        BY <4>1, <4>2, WrittenNumber
      <4>4. s[k] = WriteElement(type.of, v[k])
        BY <3>1 DEF Elements
      <4> HIDE DEF s
      <4> QED BY <4>3, <4>4
    <3>2. CASE type.kind = "map"
      <4>1. v \in Seq(ElementValues(type.key) \X ElementValues(type.of))
        BY <3>2 DEF ValuesOf
      <4>2. IsScalar(type.key) /\ IsScalar(type.of)
        BY <3>2, KeptElements
      <4>3. v[k][1] \in ElementValues(type.key) /\ v[k][2] \in ElementValues(type.of)
        BY <4>1
      <4> DEFINE a == WriteElement(type.key, v[k][1])
                 b == WriteElement(type.of, v[k][2])
      <4>4. Len(a) \in Nat \ {0}
        BY <4>2, <4>3, WrittenNumber
      <4>5. a \in Seq(Byte)
        <5>1. type.key.kind \in Scalar /\ v[k][1] \in Int
          BY <4>2, <4>3 DEF ElementValues, IsScalar
        <5>2. WriteNum(type.key.kind, v[k][1]) \in Seq(Byte)
          BY <5>1, NumberWritten
        <5> QED BY <4>2, <5>2 DEF WriteElement
      <4>6. b \in Seq(Byte)
        <5>1. type.of.kind \in Scalar /\ v[k][2] \in Int
          BY <4>2, <4>3 DEF ElementValues, IsScalar
        <5>2. WriteNum(type.of.kind, v[k][2]) \in Seq(Byte)
          BY <5>1, NumberWritten
        <5> QED BY <4>2, <5>2 DEF WriteElement
      <4>7. s[k] = a \o b
        BY <3>2 DEF Elements, WritePair
      <4> HIDE DEF a, b, s
      <4>8. Len(a \o b) = Len(a) + Len(b) /\ Len(b) \in Nat
        BY <4>5, <4>6, ConcatProperties
      <4> QED BY <4>4, <4>7, <4>8
    <3> QED BY <1>1, <3>1, <3>2
  <2> HIDE DEF s
  <2>3. Len(s) <= Len(FlattenSeq(s))
    BY <2>1, <2>2, PieceCount
  <2>4. Len(FlattenSeq(s)) \in Nat
    <3>1. FlattenSeq(s) \in Seq(Byte)
      BY <2>1, FlattenPlaces
    <3> QED BY <3>1
  <2> QED BY <2>1, <2>3, <2>4
<1>2. CASE type.kind \notin {"vector", "map"}
  <2>1. IsScalar(type) /\ v \in ElementValues(type)
    BY <1>2, KeptElements DEF ValuesOf
  <2>2. WriteConst(type, v) = WriteElement(type, v)
    BY <1>2 DEF WriteConst
  <2> QED BY <1>2, <2>1, <2>2, WrittenNumber
<1> QED BY <1>1, <1>2

\* What is kept is read as what was written.
THEOREM ConstFound ==
    ASSUME NEW type \in Type, Kept(type), NEW v \in ValuesOf(type),
           Len(WriteConst(type, v)) < SizeBound,
           NEW buf \in Seq(Byte), NEW p \in Nat, Agrees(buf, p, WriteConst(type, v))
    PROVE  Read(type, buf, p) = Found(buf, p, Len(WriteConst(type, v)), v)
<1>1. CASE type.kind \in {"vector", "map"}
  <2> DEFINE s == Elements(type, v)
  <2>1. /\ Len(v) \in Nat /\ s \in Seq(Seq(Byte)) /\ Len(s) = Len(v)
        /\ WriteConst(type, v) = Size(Len(v)) \o FlattenSeq(s)
        /\ Len(WriteConst(type, v)) = 8 + Len(FlattenSeq(s))
    BY <1>1, ContainerWritten
  <2>2. Len(v) < SizeBound
    BY <1>1, <2>1, KeptLength DEF SizeBound
  <2>3. ElementsFound(type, v, s, buf)
    <3>1. ASSUME NEW k \in 1..Len(v), NEW q \in Nat, Agrees(buf, q, s[k]), type.kind = "vector"
          PROVE  Found(buf, q, Len(s[k]), v[k]) = ReadElement(type.of, buf, q)
      <4>1. v \in Seq(ElementValues(type.of)) /\ IsScalar(type.of)
        BY <3>1, KeptElements DEF ValuesOf
      <4>2. v[k] \in ElementValues(type.of)
        BY <4>1
      <4>3. s[k] = WriteElement(type.of, v[k])
        BY <3>1 DEF Elements
      <4>4. Agrees(buf, q, WriteElement(type.of, v[k]))
        BY <3>1, <4>3
      <4>5. ReadNum(type.of.kind, buf, q) = Found(buf, q, Len(WriteElement(type.of, v[k])), v[k])
        BY <4>1, <4>2, <4>4, ElementFound
      <4> QED BY <4>1, <4>3, <4>5 DEF ReadElement
    <3>2. ASSUME NEW k \in 1..Len(v), NEW q \in Nat, Agrees(buf, q, s[k]), type.kind = "map"
          PROVE  Found(buf, q, Len(s[k]), v[k]) = ReadPair(type, buf, q)
      <4>1. v \in Seq(ElementValues(type.key) \X ElementValues(type.of))
        BY <3>2 DEF ValuesOf
      <4>2. IsScalar(type.key) /\ IsScalar(type.of)
        BY <3>2, KeptElements
      <4>3. v[k] \in ElementValues(type.key) \X ElementValues(type.of)
        BY <4>1
      <4>4. s[k] = WritePair(type, v[k])
        BY <3>2 DEF Elements
      <4>5. Agrees(buf, q, WritePair(type, v[k]))
        BY <3>2, <4>4
      <4>6. ReadPair(type, buf, q) = Found(buf, q, Len(WritePair(type, v[k])), v[k])
        BY <4>2, <4>3, <4>5, PairFound
      <4> QED BY <4>4, <4>6
    <3> HIDE DEF s
    <3> QED BY <1>1, <2>1, <3>1, <3>2 DEF ElementsFound
  <2> HIDE DEF s
  <2>4. Agrees(buf, p, Size(Len(v)) \o FlattenSeq(s))
    BY <2>1
  <2>5. \E V : v \in Seq(V)
    BY <1>1 DEF ValuesOf
  <2>6. ReadContainer(type, buf, p) = Found(buf, p, 8 + Len(FlattenSeq(s)), v)
    BY <2>1, <2>2, <2>3, <2>4, <2>5, ContainerFound
  <2> QED BY <1>1, <2>1, <2>6 DEF Read
<1>2. CASE type.kind \notin {"vector", "map"}
  <2>1. IsScalar(type) /\ v \in ElementValues(type)
    BY <1>2, KeptElements DEF ValuesOf
  <2>2. WriteConst(type, v) = WriteElement(type, v)
    BY <1>2 DEF WriteConst
  <2>3. Agrees(buf, p, WriteElement(type, v))
    BY <2>2
  <2>4. ReadNum(type.kind, buf, p) = Found(buf, p, Len(WriteElement(type, v)), v)
    BY <2>1, <2>3, ElementFound
  <2> QED BY <1>2, <2>1, <2>2, <2>4 DEF Read, ReadMember
<1> QED BY <1>1, <1>2

======================================================================================
