---------------------------- MODULE PublicEntryProofs ----------------------------
(***************************************************************************)
(* What passes at the public side of a tunnel, for every value of the      *)
(* constants.  Frames and headers: for every frame the frame that was      *)
(* sent, and for every header what filters and middleware let through.     *)
(* Requests: how many of a client the limiter lets through, and for whose  *)
(* requests it refuses one.                                                *)
(***************************************************************************)
EXTENDS PublicEntry, BinaryFrames, FiniteSetTheorems, TLAPS

\* What binary.BigEndian writes as two or four bytes it reads back.
LEMMA BigEndian16 ==
    ASSUME NEW n \in Nat, n < 65536
    PROVE  /\ Uint16Byte(n, 1) \in Byte /\ Uint16Byte(n, 2) \in Byte
           /\ GetUint16(Uint16Byte(n, 1), Uint16Byte(n, 2)) = n
BY SMTT(60), Z3T(60) DEF GetUint16, Uint16Byte, Byte

LEMMA BigEndian32 ==
    ASSUME NEW n \in Uint32
    PROVE  /\ Uint32Byte(n, 1) \in Byte /\ Uint32Byte(n, 2) \in Byte
           /\ Uint32Byte(n, 3) \in Byte /\ Uint32Byte(n, 4) \in Byte
           /\ GetUint32(Uint32Byte(n, 1), Uint32Byte(n, 2), Uint32Byte(n, 3), Uint32Byte(n, 4)) = n
<1>1. n \in Nat /\ n \div 16777216 \in Byte
  BY SMTT(60), Z3T(60) DEF Byte, Uint32
<1>2. /\ n = 256 * (n \div 256) + (n % 256)
      /\ n \div 256 = 256 * (n \div 65536) + ((n \div 256) % 256)
  BY SMTT(60), Z3T(60), <1>1
<1>3. n \div 65536 = 256 * (n \div 16777216) + ((n \div 65536) % 256)
  BY SMTT(60), Z3T(60), <1>1
<1>4. (n \div 65536) % 256 \in Byte /\ (n \div 256) % 256 \in Byte /\ n % 256 \in Byte
  BY SMTT(60), Z3T(60), <1>1 DEF Byte
<1>5. GetUint32(n \div 16777216, (n \div 65536) % 256, (n \div 256) % 256, n % 256) = n
  BY SMTT(60), Z3T(60), <1>1, <1>2, <1>3, <1>4 DEF GetUint32, Byte
<1> QED
  BY SMTT(60), Z3T(60), <1>1, <1>4, <1>5 DEF Uint32Byte

\* The parts of the concatenation of three sequences.
LEMMA Parts ==
    ASSUME NEW h \in Seq(Byte), NEW a \in Seq(Byte), NEW b \in Seq(Byte), NEW d, d = h \o a \o b
    PROVE  /\ d \in Seq(Byte) /\ Len(d) = Len(h) + Len(a) + Len(b)
           /\ \A i \in 1..Len(h) : d[i] = h[i]
           /\ SubSeq(d, Len(h) + 1, Len(h) + Len(a)) = a
           /\ SubSeq(d, Len(h) + Len(a) + 1, Len(d)) = b
<1>1. d \in Seq(Byte) /\ Len(d) = Len(h) + Len(a) + Len(b)
  BY SMTT(60), Z3T(60)
<1>2. \A i \in 1..Len(h) : d[i] = h[i]
  BY SMTT(60), Z3T(60)
<1>3. SubSeq(d, Len(h) + 1, Len(h) + Len(a)) = a
  BY SMTT(60), Z3T(60)
<1>4. SubSeq(d, Len(h) + Len(a) + 1, Len(d)) = b
  BY SMTT(60), Z3T(60)
<1> QED
  BY SMTT(60), Z3T(60), <1>1, <1>2, <1>3, <1>4

\* A header is twelve bytes.
LEMMA HeaderIsBytes ==
    ASSUME NEW f \in BinaryFrame, Encodable(f)
    PROVE  Header(f) \in Seq(Byte) /\ Len(Header(f)) = 12
<1>1. /\ Len(f.requestID) \in Nat /\ Len(f.requestID) < 65536
      /\ f.sequence \in Uint32 /\ Len(f.payload) \in Uint32
  BY SMTT(60), Z3T(60) DEF BinaryFrame, Encodable, Uint32, MaxBinaryFramePayload
<1>2. 1 \in Byte /\ f.type \in Byte
  BY SMTT(60), Z3T(60) DEF BinaryFrame, Byte
<1> QED
  BY SMTT(60), Z3T(60), <1>1, <1>2, BigEndian16, BigEndian32 DEF Header

\* Every frame that one side encodes the other decodes to the same frame: the request
\* ID, the sequence number and the bytes of the chunk (MarshalBinary and
\* ParseBinaryFrame of both sides).
THEOREM RoundTrip ==
    ASSUME NEW f \in BinaryFrame, Encodable(f)
    PROVE  ParseBinaryFrame(MarshalBinary(f)) = f
<1> DEFINE d == MarshalBinary(f)
           h == Header(f)
<1>1. h \in Seq(Byte) /\ Len(h) = 12
  BY SMTT(60), Z3T(60), HeaderIsBytes
<1>2. Len(f.requestID) \in Nat /\ 0 < Len(f.requestID) /\ Len(f.payload) \in Nat
  BY SMTT(60), Z3T(60) DEF BinaryFrame, Encodable
<1>2a. Len(f.requestID) < 65536 /\ f.sequence \in Uint32 /\ Len(f.payload) \in Uint32
  BY SMTT(60), Z3T(60), <1>2 DEF BinaryFrame, Encodable, Uint32, MaxBinaryFramePayload
<1>3. /\ Len(d) = 12 + Len(f.requestID) + Len(f.payload)
      /\ d[1] = h[1] /\ d[2] = h[2] /\ d[3] = h[3] /\ d[4] = h[4] /\ d[5] = h[5] /\ d[6] = h[6]
      /\ d[7] = h[7] /\ d[8] = h[8] /\ d[9] = h[9] /\ d[10] = h[10] /\ d[11] = h[11] /\ d[12] = h[12]
      /\ SubSeq(d, 13, 12 + Len(f.requestID)) = f.requestID
      /\ SubSeq(d, 13 + Len(f.requestID), Len(d)) = f.payload
  <2>1. f.requestID \in Seq(Byte) /\ f.payload \in Seq(Byte)
    BY SMTT(60), Z3T(60) DEF BinaryFrame
  <2>2. d = h \o f.requestID \o f.payload
    BY SMTT(60), Z3T(60) DEF MarshalBinary
  <2> HIDE DEF h, d
  <2>3. /\ Len(d) = Len(h) + Len(f.requestID) + Len(f.payload)
        /\ \A i \in 1..Len(h) : d[i] = h[i]
        /\ SubSeq(d, Len(h) + 1, Len(h) + Len(f.requestID)) = f.requestID
        /\ SubSeq(d, Len(h) + Len(f.requestID) + 1, Len(d)) = f.payload
    <3> DEFINE a == f.requestID
               b == f.payload
    <3>1. h \in Seq(Byte) /\ a \in Seq(Byte) /\ b \in Seq(Byte) /\ d = h \o a \o b
      BY <1>1, <2>1, <2>2, Zenon
    <3> HIDE DEF a, b
    <3>2. /\ Len(d) = Len(h) + Len(a) + Len(b)
          /\ \A i \in 1..Len(h) : d[i] = h[i]
          /\ SubSeq(d, Len(h) + 1, Len(h) + Len(a)) = a
          /\ SubSeq(d, Len(h) + Len(a) + 1, Len(d)) = b
      BY SMTT(60), Z3T(60), <3>1, Parts
    <3> QED
      BY <3>2, Zenon DEF a, b
  <2>4. /\ Len(h) + Len(f.requestID) + 1 = 13 + Len(f.requestID)
        /\ Len(h) + 1 = 13 /\ 1..Len(h) = 1..12
    BY SMTT(60), Z3T(60), <1>1, <1>2
  <2>5. \A i \in 1..12 : d[i] = h[i]
    BY <2>3, <2>4, Zenon
  <2>6. /\ d[1] = h[1] /\ d[2] = h[2] /\ d[3] = h[3] /\ d[4] = h[4] /\ d[5] = h[5] /\ d[6] = h[6]
        /\ d[7] = h[7] /\ d[8] = h[8] /\ d[9] = h[9] /\ d[10] = h[10] /\ d[11] = h[11] /\ d[12] = h[12]
    BY SMTT(60), Z3T(60), <2>5
  <2> QED
    BY <1>1, <2>3, <2>4, <2>6, Zenon
<1>4. /\ h[1] = 1 /\ h[2] = f.type
      /\ h[3] = Uint16Byte(Len(f.requestID), 1) /\ h[4] = Uint16Byte(Len(f.requestID), 2)
  BY SMTT(60), Z3T(60) DEF Header
<1>5. /\ h[5] = Uint32Byte(f.sequence, 1) /\ h[6] = Uint32Byte(f.sequence, 2)
      /\ h[7] = Uint32Byte(f.sequence, 3) /\ h[8] = Uint32Byte(f.sequence, 4)
  BY SMTT(60), Z3T(60) DEF Header
<1>6. /\ h[9] = Uint32Byte(Len(f.payload), 1) /\ h[10] = Uint32Byte(Len(f.payload), 2)
      /\ h[11] = Uint32Byte(Len(f.payload), 3) /\ h[12] = Uint32Byte(Len(f.payload), 4)
  BY SMTT(60), Z3T(60) DEF Header
<1> HIDE DEF h, d
<1>7. GetUint16(d[3], d[4]) = Len(f.requestID)
  BY SMTT(60), Z3T(60), <1>2a, <1>2, <1>3, <1>4, BigEndian16
<1>8. GetUint32(d[5], d[6], d[7], d[8]) = f.sequence
  BY SMTT(60), Z3T(60), <1>2a, <1>3, <1>5, BigEndian32
<1>9. GetUint32(d[9], d[10], d[11], d[12]) = Len(f.payload)
  BY SMTT(60), Z3T(60), <1>2a, <1>3, <1>6, BigEndian32
<1>10. WellFormed(d)
  <2>1. Len(d) >= 12 /\ Len(f.requestID) # 0
    <3>1. Len(d) = 12 + Len(f.requestID) + Len(f.payload)
      BY <1>3, Zenon
    <3>2. \A n, m \in Nat : 0 < n => 12 + n + m >= 12 /\ n # 0
      BY SMTT(60), Z3T(60)
    <3> QED
      BY <1>2, <3>1, <3>2, Zenon
  <2>2. f.type \in {1, 2} /\ Len(f.payload) <= MaxBinaryFramePayload
    BY SMTT(60), Z3T(60) DEF Encodable
  <2> QED
    BY <1>3, <1>4, <1>7, <1>9, <2>1, <2>2, Zenon DEF WellFormed
<1>11. ParseBinaryFrame(d) = [type |-> f.type, requestID |-> f.requestID,
                              sequence |-> f.sequence, payload |-> f.payload]
  BY <1>3, <1>4, <1>7, <1>8, <1>10, Zenon DEF ParseBinaryFrame
<1> QED
  BY SMTT(60), Z3T(60), <1>11 DEF BinaryFrame, d

\* Of the number that it reads from two bytes, binary.BigEndian writes the same bytes.
LEMMA Bytes16 ==
    ASSUME NEW a \in Byte, NEW b \in Byte
    PROVE  /\ GetUint16(a, b) \in Nat /\ GetUint16(a, b) < 65536
           /\ Uint16Byte(GetUint16(a, b), 1) = a /\ Uint16Byte(GetUint16(a, b), 2) = b
<1> DEFINE n == GetUint16(a, b)
<1>1. /\ n \in Nat /\ n < 65536 /\ n \div 256 = a /\ n % 256 = b
  BY SMTT(60), Z3T(60) DEF GetUint16, Byte
<1> QED
  BY SMTT(60), Z3T(60), <1>1 DEF Uint16Byte

\* Two or three divisions by 256 are one.
LEMMA DivTwice ==
    ASSUME NEW n \in Nat
    PROVE  /\ n \div 65536 = (n \div 256) \div 256
           /\ n \div 16777216 = ((n \div 256) \div 256) \div 256
BY SMTT(60), Z3T(60)

\* The same of four bytes.
LEMMA Bytes32 ==
    ASSUME NEW a \in Byte, NEW b \in Byte, NEW c \in Byte, NEW d \in Byte
    PROVE  /\ GetUint32(a, b, c, d) \in Uint32
           /\ Uint32Byte(GetUint32(a, b, c, d), 1) = a /\ Uint32Byte(GetUint32(a, b, c, d), 2) = b
           /\ Uint32Byte(GetUint32(a, b, c, d), 3) = c /\ Uint32Byte(GetUint32(a, b, c, d), 4) = d
<1> DEFINE x == 256 * a + b
           y == 256 * x + c
           n == 256 * y + d
<1>1. a \in Nat /\ x \in Nat /\ x \div 256 = a /\ x % 256 = b
  BY SMTT(60), Z3T(60) DEF Byte
<1>2. n = GetUint32(a, b, c, d) /\ n < 4294967296
  BY SMTT(60), Z3T(60) DEF GetUint32, Byte
<1> HIDE DEF x
<1>3. y \in Nat /\ y \div 256 = x /\ y % 256 = c
  BY SMTT(60), Z3T(60), <1>1 DEF Byte
<1> HIDE DEF y
<1>4. n \in Nat /\ n \div 256 = y /\ n % 256 = d
  BY SMTT(60), Z3T(60), <1>3 DEF Byte
<1> HIDE DEF n
<1>5. n \div 65536 = x /\ n \div 16777216 = a
  BY SMTT(60), Z3T(60), <1>1, <1>3, <1>4, DivTwice
<1>6. n \in Uint32
  BY SMTT(60), Z3T(60), <1>2, <1>4 DEF Uint32
<1>7. Uint32Byte(n, 1) = a /\ Uint32Byte(n, 2) = b /\ Uint32Byte(n, 3) = c /\ Uint32Byte(n, 4) = d
  BY SMTT(60), Z3T(60), <1>1, <1>3, <1>4, <1>5 DEF Uint32Byte
<1> QED
  BY SMTT(60), Z3T(60), <1>2, <1>6, <1>7

\* The sequence e is p and then q, byte for byte.
Cat(e, p, q) ==
    /\ e \in Seq(Byte) /\ Len(e) = Len(p) + Len(q)
    /\ \A i \in 1..Len(p) : e[i] = p[i]
    /\ \A i \in (Len(p) + 1)..(Len(p) + Len(q)) : e[i] = q[i - Len(p)]

\* The parts of the concatenation of two sequences.
LEMMA Concat ==
    ASSUME NEW p \in Seq(Byte), NEW q \in Seq(Byte)
    PROVE  Cat(p \o q, p, q)
<1> DEFINE e == p \o q
<1>1. e \in Seq(Byte) /\ Len(e) = Len(p) + Len(q)
  BY SMTT(60), Z3T(60)
<1>2. \A i \in 1..Len(p) : e[i] = p[i]
  BY SMTT(60), Z3T(60)
<1>3. \A i \in (Len(p) + 1)..(Len(p) + Len(q)) : e[i] = q[i - Len(p)]
  BY SMTT(60), Z3T(60)
<1> HIDE DEF e
<1>4. Cat(e, p, q)
  BY Zenon, <1>1, <1>2, <1>3 DEF Cat
<1> QED
  BY Zenon, <1>4 DEF e

\* The sequence e is twelve bytes h, then n bytes a and m bytes b.
InThree(e, h, a, n, b, m) ==
    /\ e \in Seq(Byte) /\ Len(e) = 12 + n + m
    /\ \A i \in 1..12 : e[i] = h[i]
    /\ \A i \in 13..(12 + n) : e[i] = a[i - 12]
    /\ \A i \in (13 + n)..(12 + n + m) : e[i] = b[i - 12 - n]

\* The parts of a header of twelve bytes with two sequences after it.
LEMMA Joined ==
    ASSUME NEW h \in Seq(Byte), NEW a \in Seq(Byte), NEW n \in Nat, NEW b \in Seq(Byte), NEW m \in Nat,
           Len(h) = 12, Len(a) = n, Len(b) = m
    PROVE  InThree(h \o a \o b, h, a, n, b, m)
<1> DEFINE g == h \o a
           e == g \o b
<1>1. Cat(g, h, a)
  BY Zenon, Concat
<1> HIDE DEF g
<1>2. g \in Seq(Byte)
  BY Zenon, <1>1 DEF Cat
<1>3. Cat(e, g, b)
  BY Zenon, <1>2, Concat
<1> HIDE DEF e
<1>4. Len(g) = 12 + n
  BY Zenon, <1>1 DEF Cat
<1>5. /\ 1..Len(g) = 1..(12 + n) /\ 13..(12 + n) = (12 + 1)..(12 + n)
      /\ (Len(g) + 1)..(Len(g) + m) = (13 + n)..(12 + n + m)
  <2>1. 12 + 1 = 13 /\ (12 + n) + 1 = 13 + n
    BY SMTT(60), Z3T(60)
  <2> QED
    BY Zenon, <1>4, <2>1
<1>6. /\ e \in Seq(Byte) /\ Len(e) = 12 + n + m
      /\ \A i \in 1..(12 + n) : e[i] = g[i]
      /\ \A i \in (13 + n)..(12 + n + m) : e[i] = b[i - (12 + n)]
  BY Zenon, <1>3, <1>4, <1>5 DEF Cat
<1>7. /\ \A i \in 1..12 : g[i] = h[i]
      /\ \A i \in 13..(12 + n) : g[i] = a[i - 12]
  BY Zenon, <1>1, <1>5 DEF Cat
<1>8. /\ \A i \in 1..12 : e[i] = h[i]
      /\ \A i \in 13..(12 + n) : e[i] = a[i - 12]
  <2>1. \A i \in 1..12 : i \in 1..(12 + n)
    BY SMTT(60), Z3T(60)
  <2>2. \A i \in 13..(12 + n) : i \in 1..(12 + n)
    BY SMTT(60), Z3T(60)
  <2> QED
    BY Zenon, <1>6, <1>7, <2>1, <2>2
<1>9. \A i \in (13 + n)..(12 + n + m) : e[i] = b[i - 12 - n]
  <2>1. \A i \in (13 + n)..(12 + n + m) : i - (12 + n) = i - 12 - n
    BY SMTT(60), Z3T(60)
  <2> QED
    BY Zenon, <1>6, <2>1
<1>10. InThree(e, h, a, n, b, m)
  BY Zenon, <1>6, <1>8, <1>9 DEF InThree
<1> QED
  BY Zenon, <1>10 DEF e, g

\* The header of a message.
FirstTwelve(d) == <<d[1], d[2], d[3], d[4], d[5], d[6], d[7], d[8], d[9], d[10], d[11], d[12]>>

\* The bytes of a header.
LEMMA HeaderBytes ==
    ASSUME NEW d \in Seq(Byte), Len(d) >= 12
    PROVE  /\ FirstTwelve(d) \in Seq(Byte) /\ Len(FirstTwelve(d)) = 12
           /\ \A i \in 1..12 : FirstTwelve(d)[i] = d[i]
<1> DEFINE h == FirstTwelve(d)
<1>1. /\ d[1] \in Byte /\ d[2] \in Byte /\ d[3] \in Byte /\ d[4] \in Byte /\ d[5] \in Byte /\ d[6] \in Byte
      /\ d[7] \in Byte /\ d[8] \in Byte /\ d[9] \in Byte /\ d[10] \in Byte /\ d[11] \in Byte /\ d[12] \in Byte
  BY SMTT(60), Z3T(60)
<1>2. h \in Seq(Byte) /\ Len(h) = 12
  BY SMTT(60), Z3T(60), <1>1 DEF FirstTwelve
<1>3. /\ h[1] = d[1] /\ h[2] = d[2] /\ h[3] = d[3] /\ h[4] = d[4] /\ h[5] = d[5] /\ h[6] = d[6]
      /\ h[7] = d[7] /\ h[8] = d[8] /\ h[9] = d[9] /\ h[10] = d[10] /\ h[11] = d[11] /\ h[12] = d[12]
  BY SMTT(60), Z3T(60) DEF FirstTwelve
<1>4. \A i \in 1..12 : \/ i = 1 \/ i = 2 \/ i = 3 \/ i = 4 \/ i = 5 \/ i = 6
                       \/ i = 7 \/ i = 8 \/ i = 9 \/ i = 10 \/ i = 11 \/ i = 12
  BY SMTT(60), Z3T(60)
<1> HIDE DEF h
<1>5. \A i \in 1..12 : h[i] = d[i]
  BY SMTT(60), Z3T(60), <1>3, <1>4
<1> QED
  BY Zenon, <1>2, <1>5 DEF h

\* The message d is its header, n bytes and m bytes.
CutAt(d, n, m) ==
    /\ SubSeq(d, 13, 12 + n) \in Seq(Byte) /\ Len(SubSeq(d, 13, 12 + n)) = n
    /\ SubSeq(d, 13 + n, Len(d)) \in Seq(Byte) /\ Len(SubSeq(d, 13 + n, Len(d))) = m
    /\ FirstTwelve(d) \o SubSeq(d, 13, 12 + n) \o SubSeq(d, 13 + n, Len(d)) = d

\* A message is its header and what follows, cut at any place.
LEMMA Cut ==
    ASSUME NEW d \in Seq(Byte), NEW n \in Nat, NEW m \in Nat, Len(d) = 12 + n + m
    PROVE  CutAt(d, n, m)
<1> DEFINE h == FirstTwelve(d)
           a == SubSeq(d, 13, 12 + n)
           b == SubSeq(d, 13 + n, Len(d))
           e == h \o a \o b
<1>1. /\ a \in Seq(Byte) /\ Len(a) = n /\ \A i \in 1..n : a[i] = d[i + 12]
  BY SMTT(60), Z3T(60)
<1>2. /\ b \in Seq(Byte) /\ Len(b) = m /\ \A i \in 1..m : b[i] = d[i + 12 + n]
  BY SMTT(60), Z3T(60)
<1>3. h \in Seq(Byte) /\ Len(h) = 12 /\ \A i \in 1..12 : h[i] = d[i]
  <2>1. Len(d) >= 12
    BY SMTT(60), Z3T(60)
  <2> QED
    BY Zenon, <2>1, HeaderBytes
<1> HIDE DEF h, a, b
<1>4. InThree(e, h, a, n, b, m)
  BY Zenon, <1>1, <1>2, <1>3, Joined
<1> HIDE DEF e
<1>5. /\ e \in Seq(Byte) /\ Len(e) = 12 + n + m
      /\ \A i \in 1..12 : e[i] = h[i]
      /\ \A i \in 13..(12 + n) : e[i] = a[i - 12]
      /\ \A i \in (13 + n)..(12 + n + m) : e[i] = b[i - 12 - n]
  BY Zenon, <1>4 DEF InThree
<1>6. ASSUME NEW i \in 1..Len(d)
      PROVE  e[i] = d[i]
  <2>1. CASE i \in 1..12
    BY Zenon, <1>3, <1>5, <2>1
  <2>2. CASE i \in 13..(12 + n)
    <3>1. i - 12 \in 1..n /\ (i - 12) + 12 = i
      BY SMTT(60), Z3T(60), <2>2
    <3>2. a[i - 12] = d[(i - 12) + 12]
      BY Zenon, <1>1, <3>1
    <3> QED
      BY Zenon, <1>5, <2>2, <3>1, <3>2
  <2>3. CASE i \in (13 + n)..(12 + n + m)
    <3>1. i - 12 - n \in 1..m /\ (i - 12 - n) + 12 + n = i
      BY SMTT(60), Z3T(60), <2>3
    <3>2. b[i - 12 - n] = d[(i - 12 - n) + 12 + n]
      BY Zenon, <1>2, <3>1
    <3> QED
      BY Zenon, <1>5, <2>3, <3>1, <3>2
  <2> QED
    BY SMTT(60), Z3T(60), <2>1, <2>2, <2>3
<1>7. e = d
  <2>1. e \in Seq(Byte) /\ Len(e) = Len(d)
    BY Zenon, <1>5
  <2> QED
    BY SMTT(60), Z3T(60), <1>6, <2>1
<1>8. h \o a \o b = d
  BY Zenon, <1>7 DEF e
<1> QED
  BY Zenon, <1>1, <1>2, <1>8 DEF CutAt, h, a, b

\* And only those: every message that one side accepts is what the other encodes for the
\* frame it is decoded to.  So the lengths on the wire agree with the message, at 0 and at
\* their limits, and no two messages stand for one frame (ParseBinaryFrame and
\* MarshalBinary of both sides).
THEOREM AcceptedIsEncoded ==
    ASSUME NEW d \in Seq(Byte), WellFormed(d)
    PROVE  /\ ParseBinaryFrame(d) \in BinaryFrame /\ Encodable(ParseBinaryFrame(d))
           /\ MarshalBinary(ParseBinaryFrame(d)) = d
<1> DEFINE f == ParseBinaryFrame(d)
           n == GetUint16(d[3], d[4])
           m == GetUint32(d[9], d[10], d[11], d[12])
<1>1. /\ Len(d) >= 12 /\ d[1] = 1 /\ d[2] \in {1, 2} /\ m <= MaxBinaryFramePayload
      /\ n # 0 /\ Len(d) = 12 + n + m
  BY Zenon DEF WellFormed
<1>2. \A i \in 1..12 : d[i] \in Byte
  BY SMTT(60), Z3T(60), <1>1
<1>3. /\ d[2] \in Byte /\ d[3] \in Byte /\ d[4] \in Byte /\ d[5] \in Byte /\ d[6] \in Byte
      /\ d[7] \in Byte /\ d[8] \in Byte /\ d[9] \in Byte /\ d[10] \in Byte /\ d[11] \in Byte /\ d[12] \in Byte
  BY SMTT(60), Z3T(60), <1>2
<1>4. /\ n \in Nat /\ n < 65536 /\ Uint16Byte(n, 1) = d[3] /\ Uint16Byte(n, 2) = d[4]
  <2> DEFINE x == d[3]
             y == d[4]
  <2>1. x \in Byte /\ y \in Byte
    BY Zenon, <1>3
  <2> HIDE DEF x, y
  <2>2. /\ GetUint16(x, y) \in Nat /\ GetUint16(x, y) < 65536
        /\ Uint16Byte(GetUint16(x, y), 1) = x /\ Uint16Byte(GetUint16(x, y), 2) = y
    BY SMTT(60), Z3T(60), <2>1, Bytes16
  <2> QED
    BY SMTT(60), Z3T(60), <2>2 DEF x, y
<1> DEFINE k == GetUint32(d[5], d[6], d[7], d[8])
<1>5. /\ k \in Uint32 /\ Uint32Byte(k, 1) = d[5] /\ Uint32Byte(k, 2) = d[6]
      /\ Uint32Byte(k, 3) = d[7] /\ Uint32Byte(k, 4) = d[8]
  <2> DEFINE w == d[5]
             x == d[6]
             y == d[7]
             z == d[8]
  <2>1. w \in Byte /\ x \in Byte /\ y \in Byte /\ z \in Byte
    BY Zenon, <1>3
  <2> HIDE DEF w, x, y, z
  <2>2. /\ GetUint32(w, x, y, z) \in Uint32
        /\ Uint32Byte(GetUint32(w, x, y, z), 1) = w /\ Uint32Byte(GetUint32(w, x, y, z), 2) = x
        /\ Uint32Byte(GetUint32(w, x, y, z), 3) = y /\ Uint32Byte(GetUint32(w, x, y, z), 4) = z
    BY SMTT(60), Z3T(60), <2>1, Bytes32
  <2> QED
    BY Zenon, <2>2 DEF w, x, y, z
<1>6. /\ m \in Uint32 /\ Uint32Byte(m, 1) = d[9] /\ Uint32Byte(m, 2) = d[10]
      /\ Uint32Byte(m, 3) = d[11] /\ Uint32Byte(m, 4) = d[12]
  <2> DEFINE w == d[9]
             x == d[10]
             y == d[11]
             z == d[12]
  <2>1. w \in Byte /\ x \in Byte /\ y \in Byte /\ z \in Byte
    BY Zenon, <1>3
  <2> HIDE DEF w, x, y, z
  <2>2. /\ GetUint32(w, x, y, z) \in Uint32
        /\ Uint32Byte(GetUint32(w, x, y, z), 1) = w /\ Uint32Byte(GetUint32(w, x, y, z), 2) = x
        /\ Uint32Byte(GetUint32(w, x, y, z), 3) = y /\ Uint32Byte(GetUint32(w, x, y, z), 4) = z
    BY SMTT(60), Z3T(60), <2>1, Bytes32
  <2> QED
    BY Zenon, <2>2 DEF w, x, y, z
<1> DEFINE a == SubSeq(d, 13, 12 + n)
           b == SubSeq(d, 13 + n, Len(d))
           h == FirstTwelve(d)
<1>7. f = [type |-> d[2], requestID |-> a, sequence |-> k, payload |-> b]
  BY Zenon DEF ParseBinaryFrame
<1> HIDE DEF f, n, m, k
<1>8. m \in Nat
  BY SMTT(60), Z3T(60), <1>6 DEF Uint32
<1>9. a \in Seq(Byte) /\ Len(a) = n /\ b \in Seq(Byte) /\ Len(b) = m /\ h \o a \o b = d
  <2>1. n \in Nat /\ m \in Nat /\ Len(d) = 12 + n + m
    BY SMTT(60), Z3T(60), <1>1, <1>4, <1>8
  <2>2. CutAt(d, n, m)
    BY Zenon, <2>1, Cut
  <2> QED
    BY Zenon, <2>2 DEF CutAt
<1> HIDE DEF a, b, h
<1>10. /\ f.type = d[2] /\ f.requestID = a /\ f.sequence = k /\ f.payload = b
       /\ f \in BinaryFrame
  BY Zenon, <1>3, <1>5, <1>7, <1>9 DEF BinaryFrame
<1>11. Encodable(f)
  <2>1. 0 < n
    BY SMTT(60), Z3T(60), <1>1, <1>4
  <2> QED
    BY SMTT(60), Z3T(60), <1>1, <1>4, <1>9, <1>10, <2>1 DEF Encodable
<1>12. Header(f) = h
  <2>1. Header(f) = <<1, d[2], Uint16Byte(n, 1), Uint16Byte(n, 2),
                      Uint32Byte(k, 1), Uint32Byte(k, 2), Uint32Byte(k, 3), Uint32Byte(k, 4),
                      Uint32Byte(m, 1), Uint32Byte(m, 2), Uint32Byte(m, 3), Uint32Byte(m, 4)>>
    BY Zenon, <1>9, <1>10 DEF Header
  <2> QED
    BY SMTT(60), Z3T(60), <1>1, <1>4, <1>5, <1>6, <2>1 DEF h, FirstTwelve
<1>13. MarshalBinary(f) = d
  BY Zenon, <1>9, <1>10, <1>12 DEF MarshalBinary
<1> QED
  BY Zenon, <1>10, <1>11, <1>13 DEF f

--------------------------------------------------------------------------------

\* The names that the gateway sets are not hop-by-hop.
LEMMA SuppliedNames ==
    ASSUME NEW c, NEW h, NEW b, NEW i
    PROVE  /\ DOMAIN Supplied(c, h, b, i) = {"X-Forwarded-For", "X-Forwarded-Host",
                                             "X-Forwarded-Proto", "X-Tunnel-Request-Id"}
           /\ DOMAIN Supplied(c, h, b, i) \cap HopByHop = {}
  BY DEF Supplied, HopByHop

\* A header without hop-by-hop fields passes the filter as it is.
LEMMA NothingToFilter ==
    ASSUME NEW g, g.named = {}, DOMAIN g.fields \cap HopByHop = {}
    PROVE  LET f == withoutHopByHopHeaders(g).fields
           IN  /\ DOMAIN f = DOMAIN g.fields
               /\ \A n \in DOMAIN g.fields : f[n] = g.fields[n]
  BY DEF withoutHopByHopHeaders, Without

\* README.md:157-160: the local service receives the fields generated by the gateway,
\* whatever the Connection field of the request lists, and of the client's fields
\* exactly those that are end-to-end and do not claim where the request comes from,
\* with the values they had.
THEOREM FieldsAtLocalService ==
    ASSUME NEW h \in Headers, NEW clientIP, NEW host, NEW tls \in BOOLEAN, NEW requestID,
           NEW supplied, supplied = Supplied(clientIP, host, tls, requestID)
    PROVE  LET local == AtLocalService(h, supplied).fields
               sent  == DOMAIN h.fields \ (h.named \cup HopByHop \cup XForwarded \cup {"Forwarded"})
           IN  /\ DOMAIN local = sent \cup DOMAIN supplied
               /\ \A n \in DOMAIN supplied : local[n] = supplied[n]
               /\ \A n \in sent \ DOMAIN supplied : local[n] = h.fields[n]
<1> DEFINE kept == Without(withoutHopByHopHeaders(h).fields, XForwarded \cup {"Forwarded"})
           g    == publicRequestHeaders(h, supplied)
           local == AtLocalService(h, supplied).fields
           sent  == DOMAIN h.fields \ (h.named \cup HopByHop \cup XForwarded \cup {"Forwarded"})
<1>1. /\ DOMAIN kept = sent
      /\ \A n \in sent : kept[n] = h.fields[n]
  BY DEF Without, withoutHopByHopHeaders
<1>2. /\ DOMAIN g.fields = sent \cup DOMAIN supplied
      /\ \A n \in DOMAIN supplied : g.fields[n] = supplied[n]
      /\ \A n \in sent \ DOMAIN supplied : g.fields[n] = h.fields[n]
      /\ g.named = {}
  BY ZenonT(60), <1>1 DEF publicRequestHeaders
<1>3. DOMAIN g.fields \cap HopByHop = {}
  BY <1>2, SuppliedNames
<1>4. /\ DOMAIN local = DOMAIN g.fields
      /\ \A n \in DOMAIN local : local[n] = g.fields[n]
  BY SMTT(60), Z3T(60), <1>2, <1>3, NothingToFilter DEF AtLocalService
<1> HIDE DEF kept, g, local, sent
<1>5. /\ DOMAIN local = sent \cup DOMAIN supplied
      /\ \A n \in DOMAIN supplied : local[n] = supplied[n]
      /\ \A n \in sent \ DOMAIN supplied : local[n] = h.fields[n]
  BY <1>2, <1>4
<1> QED BY <1>5 DEF local, sent

\* protocol/messages.md:54-56: the answer is filtered twice.  The second filter takes
\* nothing away: the client receives each end-to-end field of the local service.
THEOREM FieldsAtPublicClient ==
    ASSUME NEW h \in Headers
    PROVE  AtPublicClient(h) = withoutHopByHopHeaders(h)
<1> DEFINE g == withoutHopByHopHeaders(h)
<1>1. g.named = {} /\ DOMAIN g.fields \cap HopByHop = {}
  BY DEF withoutHopByHopHeaders, Without
<1>2. g = [fields |-> g.fields, named |-> {}] /\ g.fields = [n \in DOMAIN g.fields |-> g.fields[n]]
  BY DEF withoutHopByHopHeaders, Without
<1> HIDE DEF g
<1>3. DOMAIN g.fields \ (g.named \cup HopByHop) = DOMAIN g.fields
  BY <1>1
<1>4. withoutHopByHopHeaders(g) = g
  BY <1>2, <1>3 DEF withoutHopByHopHeaders, Without
<1> QED BY <1>4 DEF g, AtPublicClient

\* README.md:208-210: public tunnel responses belong to the local application.  For a
\* path that is neither under /api/ nor a health endpoint the client receives each
\* end-to-end field of the answer as it is, and besides only X-Request-ID, for which
\* the value of the server comes first.  (TunnelResponsesUntouched, for all paths, does
\* not hold.)
THEOREM TunnelResponse ==
    ASSUME NEW r \in Requests, r.path \notin API \cup Health,
           NEW h \in Headers, NEW requestID,
           NEW sent, sent = withoutHopByHopHeaders(h).fields
    PROVE  LET got == PublicResponse(r, requestID, h)
           IN  /\ DOMAIN got = DOMAIN sent \cup {"X-Request-Id"}
               /\ \A n \in DOMAIN sent \ {"X-Request-Id"} : got[n] = sent[n]
               /\ got["X-Request-Id"] = IF "X-Request-Id" \in DOMAIN sent
                                        THEN <<requestID>> \o sent["X-Request-Id"]
                                        ELSE <<requestID>>
<1> DEFINE own == Middleware(r, requestID)
<1>1. DOMAIN own = {"X-Request-Id"} /\ own["X-Request-Id"] = <<requestID>>
  BY DEF Middleware, securityHeaders, corsHeaders
<1>2. AtPublicClient(h).fields = sent
  BY FieldsAtPublicClient
<1> HIDE DEF own
<1>3. PublicResponse(r, requestID, h) =
        [n \in DOMAIN own \cup DOMAIN sent |->
            CASE n \notin DOMAIN sent -> own[n]
              [] n \notin DOMAIN own -> sent[n]
              [] OTHER -> own[n] \o sent[n]]
  BY <1>2 DEF PublicResponse, own
<1> QED BY ZenonT(60), <1>1, <1>3

--------------------------------------------------------------------------------
(* The limiter *)

\* The calls of key k that were allowed.
Allowed(k) == {c \in Calls : result[c] = "allowed" /\ key[c] = k}

\* The calls A that were allowed of a key with this entry: cur are those counted in its
\* window, old those of the window before.  A call outside cur came before now, and,
\* but for the wait for the mutex, before the window; one outside both came a window
\* before those in cur, but for two waits.
Windows(entry, A, cur, old) ==
    /\ cur \subseteq A /\ old \subseteq A
    /\ Cardinality(cur) = entry.count /\ Cardinality(old) <= Limit
    /\ \A c \in cur : entry.started - MaxDelay <= now[c] /\ now[c] < entry.started + Window
    /\ \A o \in A \ cur : /\ now[o] < clock
                          /\ entry.count > 0 => now[o] - MaxDelay < entry.started
    /\ \A o \in A \ (cur \cup old) :
          /\ now[o] + Window - MaxDelay < clock
          /\ \A c \in cur : now[o] + Window - 2 * MaxDelay < now[c]

\* No stretch shorter than a window by two waits sees more than twice the limit of A.
AtMostTwice(A) ==
    \A s \in Int : Cardinality({c \in A : now[c] \in s..(s + Window - 2 * MaxDelay)}) <= 2 * Limit

\* The times that the limiter has seen are not in the future, and a call that waits
\* for the mutex has not waited too long.
Times ==
    /\ \A c \in Calls : result[c] # "none" => now[c] <= clock
    /\ \A c \in Calls : result[c] = "waiting" => clock - now[c] <= MaxDelay
    /\ \A k \in Keys : entries[k].started <= clock

\* Each call has the key of its origin.
Keyed ==
    \A c \in Calls : result[c] # "none" =>
        /\ origin[c] \in Tunnels \X Clients
        /\ key[c] = LimiterKey(origin[c][1], requestClientIP(origin[c][2]))

\* The calls of its own key that a refused call can blame.
Blamed(c) == {d \in Calls : /\ result[d] = "allowed" /\ key[d] = key[c]
                            /\ now[d] > now[c] - Window - MaxDelay}

LimiterInvariant ==
    /\ \A k \in Keys : /\ \E cur, old \in SUBSET Calls : Windows(entries[k], Allowed(k), cur, old)
                       /\ AtMostTwice(Allowed(k))
    /\ \A c \in Calls : result[c] = "refused" => Cardinality(Blamed(c)) >= Limit

Entry == [started : 0..MaxTime, count : 0..Limit]

--------------------------------------------------------------------------------

\* Some calls are finitely many.
LEMMA CallsFinite ==
    ASSUME NEW S \in SUBSET Calls
    PROVE  IsFiniteSet(S) /\ Cardinality(S) \in Nat
BY CallsAssumption, FS_Subset, FS_CardinalityType

\* When the window of a key ends, at the time t of some caller, its calls become those
\* of the window before; if it had no calls nothing changes.
LEMMA PurgeShifts ==
    ASSUME TypeOK, NEW entry \in Entry, NEW A \in SUBSET Calls, NEW t \in 0..MaxTime, t <= clock,
           NEW cur \in SUBSET Calls, NEW old \in SUBSET Calls, Windows(entry, A, cur, old)
    PROVE  \E cur2, old2 \in SUBSET Calls :
               Windows(IF Expired(entry, t) THEN Absent ELSE entry, A, cur2, old2)
<1> USE LimitAssumption, TimeAssumption DEF Entry
<1>0. clock \in Nat /\ t \in Nat /\ \A c \in Calls : now[c] \in Nat
  BY SMTT(60), Z3T(60) DEF TypeOK
<1>1. CASE ~Expired(entry, t)
  BY <1>1
<1>2. CASE Expired(entry, t) /\ entry.count = 0
  <2>1. Windows(Absent, A, cur, old)
    <3>1. Cardinality(cur) = 0
      BY <1>2 DEF Windows
    <3>2. cur = {}
      BY <3>1, CallsFinite, FS_EmptySet
    <3> QED
      BY SMTT(60), Z3T(60), <1>2, <3>1, <3>2 DEF Windows, Absent
  <2> QED
    BY <1>2, <2>1
<1>3. CASE Expired(entry, t) /\ entry.count > 0
  <2>1. Cardinality({}) = 0 /\ Cardinality(cur) <= Limit
    BY SMTT(60), Z3T(60), FS_EmptySet DEF Windows
  <2>2. t >= entry.started + Window
    BY SMTT(60), Z3T(60), <1>3 DEF Expired
  <2>3. \A o \in A : now[o] < clock
    BY SMTT(60), Z3T(60), <1>0, <2>2 DEF Windows
  <2>4. \A o \in A \ cur : now[o] + Window - MaxDelay < clock
    BY SMTT(60), Z3T(60), <1>0, <1>3, <2>2 DEF Windows
  <2>5. Windows(Absent, A, {}, cur)
    BY SMTT(60), Z3T(60), <2>1, <2>3, <2>4 DEF Windows, Absent
  <2> QED
    BY <1>3, <2>5
<1> QED
  BY SMTT(60), Z3T(60), <1>1, <1>2, <1>3

\* The call c is counted in the window of its key, or begins one.
LEMMA CallIsCounted ==
    ASSUME TypeOK, Times, NEW entry \in Entry, entry.started <= clock,
           NEW c \in Calls, result[c] = "waiting",
           NEW A \in SUBSET Calls, c \notin A,
           NEW cur \in SUBSET Calls, NEW old \in SUBSET Calls, Windows(entry, A, cur, old),
           NEW next \in Entry,
           \/ entry.count = 0 /\ next = [started |-> now[c], count |-> 1]
           \/ /\ entry.count > 0 /\ now[c] < entry.started + Window
              /\ next = [entry EXCEPT !.count = @ + 1]
    PROVE  Windows(next, A \cup {c}, cur \cup {c}, old)
<1> USE LimitAssumption, TimeAssumption DEF Entry
<1>0. /\ clock \in Nat /\ \A d \in Calls : now[d] \in Nat
      /\ entry.started \in Nat /\ entry.count \in Nat /\ clock - now[c] <= MaxDelay
  BY SMTT(60), Z3T(60) DEF TypeOK, Times
<1>1. cur \subseteq A /\ old \subseteq A /\ c \notin cur /\ c \notin old
  BY DEF Windows
<1>2. Cardinality(cur \cup {c}) = Cardinality(cur) + 1
  BY <1>1, CallsFinite, FS_AddElement
<1>3. next.count = entry.count + 1 /\ next.started = IF entry.count = 0 THEN now[c] ELSE entry.started
  BY SMTT(60), Z3T(60), <1>0
<1>4. entry.count = 0 => cur = {}
  BY CallsFinite, FS_EmptySet DEF Windows
<1>5. \A d \in cur \cup {c} : next.started - MaxDelay <= now[d] /\ now[d] < next.started + Window
  BY SMTT(60), Z3T(60), <1>0, <1>3, <1>4 DEF Windows
<1>6. \A o \in A \ cur : now[o] < clock /\ now[o] - MaxDelay < next.started
  BY SMTT(60), Z3T(60), <1>0, <1>3 DEF Windows
<1>7. \A o \in A \ (cur \cup old) :
          /\ now[o] + Window - MaxDelay < clock
          /\ \A d \in cur \cup {c} : now[o] + Window - 2 * MaxDelay < now[d]
  BY SMTT(60), Z3T(60), <1>0 DEF Windows
<1> QED
  BY <1>0, <1>1, <1>2, <1>3, <1>5, <1>6, <1>7 DEF Windows

\* A stretch that sees a call of the current window sees only that window and the one
\* before it.
LEMMA StretchSeesTwo ==
    ASSUME TypeOK, NEW entry \in Entry, NEW c \in Calls, NEW A \in SUBSET Calls, AtMostTwice(A),
           NEW cur \in SUBSET Calls, c \in cur, NEW old \in SUBSET Calls,
           Windows(entry, A \cup {c}, cur, old)
    PROVE  AtMostTwice(A \cup {c})
<1> USE LimitAssumption, TimeAssumption DEF Entry
<1> SUFFICES ASSUME NEW s \in Int
             PROVE  Cardinality({d \in A \cup {c} : now[d] \in s..(s + Window - 2 * MaxDelay)}) <= 2 * Limit
  BY DEF AtMostTwice
<1> DEFINE X == {d \in A \cup {c} : now[d] \in s..(s + Window - 2 * MaxDelay)}
<1>0. \A d \in Calls : now[d] \in Nat
  BY SMTT(60), Z3T(60) DEF TypeOK
<1>1. CASE c \notin X
  <2>1. X = {d \in A : now[d] \in s..(s + Window - 2 * MaxDelay)}
    BY <1>1
  <2> QED
    BY <2>1 DEF AtMostTwice
<1>2. CASE c \in X
  <2>1. ASSUME NEW d \in X, d \notin cur, d \notin old
        PROVE  FALSE
    <3>1. now[d] + Window - 2 * MaxDelay < now[c]
      BY <2>1 DEF Windows
    <3> QED
      BY SMTT(60), Z3T(60), <1>0, <1>2, <2>1, <3>1
  <2>2. X \subseteq cur \cup old
    BY <2>1
  <2>3. Cardinality(cur) <= Limit /\ Cardinality(old) <= Limit
    BY SMTT(60), Z3T(60) DEF Windows
  <2>4. Cardinality(cur \cup old) <= Cardinality(cur) + Cardinality(old)
    <3>1. /\ IsFiniteSet(cur) /\ IsFiniteSet(old)
          /\ Cardinality(cur) \in Nat /\ Cardinality(old) \in Nat /\ Cardinality(cur \cap old) \in Nat
      BY CallsFinite
    <3>2. Cardinality(cur \cup old) = Cardinality(cur) + Cardinality(old) - Cardinality(cur \cap old)
      BY <3>1, FS_Union
    <3> QED
      BY SMTT(60), Z3T(60), <3>1, <3>2
  <2>5. /\ Cardinality(X) <= Cardinality(cur \cup old)
        /\ Cardinality(X) \in Nat /\ Cardinality(cur \cup old) \in Nat
        /\ Cardinality(cur) \in Nat /\ Cardinality(old) \in Nat
    BY <2>2, CallsFinite, FS_Subset
  <2>6. Cardinality(X) <= 2 * Limit
    <3> HIDE DEF X
    <3> QED
      BY SMTT(60), Z3T(60), <2>3, <2>4, <2>5
  <2> QED
    BY <2>6
<1> QED
  BY <1>1, <1>2

\* A call that has come has a key of the limiter.
LEMMA KeyOfCall ==
    ASSUME Keyed, NEW c \in Calls, result[c] # "none"
    PROVE  key[c] \in Keys
BY SMTT(60), Z3T(60), KeysAssumption DEF Keyed, LimiterKey, requestClientIP

\* Purge leaves an entry as it is or makes it absent.
LEMMA PurgeEntries ==
    ASSUME TypeOK, NEW t \in 0..MaxTime
    PROVE  /\ Purge(t) \in [Keys -> Entry]
           /\ \A k \in Keys : Purge(t)[k] = IF Expired(entries[k], t) THEN Absent ELSE entries[k]
<1>1. Absent \in Entry
  BY SMTT(60), Z3T(60), LimitAssumption, TimeAssumption DEF Absent, Entry
<1> QED
  BY Zenon, <1>1 DEF Purge, TypeOK, Entry

\* What allow does: with e the entry of its key after the purge, it refuses the call, or
\* counts it in e, or begins a window with it.
LEMMA AllowCases ==
    ASSUME TypeOK, Keyed, NEW c \in Calls, Allow(c)
    PROVE  LET left == Purge(now[c])
               e    == left[key[c]]
           IN  /\ result[c] = "waiting" /\ key[c] \in Keys /\ e \in Entry
               /\ UNCHANGED <<clock, key, now>>
               /\ \/ /\ e.count = Limit /\ entries' = left
                     /\ result' = [result EXCEPT ![c] = "refused"]
                  \/ \E next \in Entry :
                        /\ \/ e.count = 0 /\ next = [started |-> now[c], count |-> 1]
                           \/ e.count > 0 /\ next = [e EXCEPT !.count = @ + 1]
                        /\ entries' = [left EXCEPT ![key[c]] = next]
                        /\ result' = [result EXCEPT ![c] = "allowed"]
<1> DEFINE left == Purge(now[c])
           e    == left[key[c]]
<1>1. result[c] = "waiting" /\ UNCHANGED <<clock, key, now>>
  BY DEF Allow
<1>2. key[c] \in Keys
  BY <1>1, KeyOfCall
<1>3. now[c] \in 0..MaxTime
  BY DEF TypeOK
<1>4. left \in [Keys -> Entry] /\ e \in Entry
  BY <1>2, <1>3, PurgeEntries
<1> USE LimitAssumption
<1>5. e.started \in 0..MaxTime /\ e.count \in 0..Limit
  BY <1>4 DEF Entry
<1>6. CASE e.count = 0
  <2>1. [started |-> now[c], count |-> 1] \in Entry
    BY SMTT(60), Z3T(60), <1>3 DEF Entry
  <2>2. /\ entries' = [left EXCEPT ![key[c]] = [started |-> now[c], count |-> 1]]
        /\ result' = [result EXCEPT ![c] = "allowed"]
    BY SMTT(60), Z3T(60), <1>6 DEF Allow, e, left
  <2> QED
    BY ZenonT(60), <1>1, <1>2, <1>4, <1>6, <2>1, <2>2
<1>7. CASE e.count > 0 /\ ~Full(e)
  <2>1. [e EXCEPT !.count = @ + 1] \in Entry
    BY SMTT(60), Z3T(60), <1>4, <1>5, <1>7 DEF Entry, Full
  <2>2. entries' = [left EXCEPT ![key[c]] = [e EXCEPT !.count = @ + 1]]
    BY SMTT(60), Z3T(60), <1>5, <1>7 DEF Allow
  <2>3. result' = [result EXCEPT ![c] = "allowed"]
    BY <1>5, <1>7 DEF Allow
  <2> QED
    BY ZenonT(60), <1>1, <1>2, <1>4, <1>7, <2>1, <2>2, <2>3
<1>8. CASE e.count > 0 /\ Full(e)
  <2>1. e.count = Limit
    BY SMTT(60), Z3T(60), <1>5, <1>8 DEF Full
  <2>2. entries' = left /\ result' = [result EXCEPT ![c] = "refused"]
    BY SMTT(60), Z3T(60), <1>5, <1>8 DEF Allow
  <2> QED
    BY <1>1, <1>2, <1>4, <2>1, <2>2
<1> QED
  BY SMTT(60), Z3T(60), <1>5, <1>6, <1>7, <1>8

\* Every step keeps the types and the keys of the calls.
LEMMA EntryStepType == EntryTypeOK /\ Keyed /\ [EntryNext]_entryVars => (EntryTypeOK /\ Keyed)'
<1> SUFFICES ASSUME EntryTypeOK, Keyed, [EntryNext]_entryVars PROVE EntryTypeOK' /\ Keyed'
  OBVIOUS
<1> USE LimitAssumption, TimeAssumption
<1>1. ASSUME NEW c \in Calls, NEW t \in Subdomains, NEW x \in Clients, ServeHTTP(c, t, x)
      PROVE  EntryTypeOK' /\ Keyed'
  <2>1. t \in Tunnels /\ LimiterKey(t, requestClientIP(x)) \in Keys
    BY <1>1, KeysAssumption DEF ServeHTTP, EntryTypeOK, LimiterKey, requestClientIP
  <2>2. TypeOK'
    BY <1>1, <2>1 DEF ServeHTTP, Arrive, EntryTypeOK, TypeOK
  <2>3. routed' \subseteq Tunnels /\ origin' \in [Calls -> (Tunnels \X Clients) \cup {None}]
    BY <1>1, <2>1 DEF ServeHTTP, EntryTypeOK
  <2>4. /\ origin'[c] = <<t, x>> /\ key'[c] = LimiterKey(t, requestClientIP(x))
        /\ \A d \in Calls : d # c => /\ origin'[d] = origin[d] /\ key'[d] = key[d]
                                     /\ result'[d] = result[d]
    BY <1>1 DEF ServeHTTP, Arrive, EntryTypeOK, TypeOK
  <2>5. Keyed'
    BY SMTT(60), Z3T(60), <2>1, <2>4 DEF Keyed, LimiterKey, requestClientIP
  <2> QED
    BY <2>2, <2>3, <2>5 DEF EntryTypeOK
<1>2. ASSUME NEW t \in Tunnels, Open(t) \/ CloseSession(t)
      PROVE  EntryTypeOK' /\ Keyed'
  BY ZenonT(60), <1>2 DEF Open, CloseSession, vars, EntryTypeOK, TypeOK, Keyed, LimiterKey, requestClientIP
<1>3. CASE Tick /\ UNCHANGED <<routed, origin>>
  BY SMTT(60), Z3T(60), <1>3 DEF Tick, EntryTypeOK, TypeOK, Keyed, LimiterKey, requestClientIP
<1>4. ASSUME NEW c \in Calls, Allow(c), UNCHANGED <<routed, origin>>
      PROVE  EntryTypeOK' /\ Keyed'
  <2> DEFINE left == Purge(now[c])
  <2>0. TypeOK /\ now[c] \in 0..MaxTime
    BY DEF EntryTypeOK, TypeOK
  <2>1. left \in [Keys -> Entry]
    BY <2>0, PurgeEntries
  <2>2. /\ result[c] = "waiting" /\ UNCHANGED <<clock, key, now>>
        /\ \/ entries' = left
           \/ \E next \in Entry : entries' = [left EXCEPT ![key[c]] = next]
        /\ \E v \in {"allowed", "refused"} : result' = [result EXCEPT ![c] = v]
    BY <1>4, <2>0, AllowCases
  <2> HIDE DEF left
  <2>3. entries' \in [Keys -> Entry]
    BY ZenonT(60), <2>1, <2>2
  <2>4. result' \in [Calls -> {"none", "waiting", "allowed", "refused"}]
    BY ZenonT(60), <2>0, <2>2 DEF TypeOK
  <2>5. TypeOK'
    BY ZenonT(60), <2>0, <2>2, <2>3, <2>4 DEF TypeOK, Entry
  <2>6. \A d \in Calls : result'[d] # "none" => result[d] # "none"
    BY ZenonT(60), <2>0, <2>2 DEF TypeOK
  <2> QED
    BY Zenon, <1>4, <2>2, <2>5, <2>6 DEF EntryTypeOK, Keyed, LimiterKey, requestClientIP
<1>5. CASE UNCHANGED entryVars
  BY ZenonT(60), <1>5 DEF entryVars, vars, EntryTypeOK, TypeOK, Keyed, LimiterKey, requestClientIP
<1> QED
  BY <1>1, <1>2, <1>3, <1>4, <1>5 DEF EntryNext, NotFound

\* Every step keeps the times in order.
LEMMA EntryStepTimes ==
    EntryTypeOK /\ Keyed /\ Times /\ [EntryNext]_entryVars => Times'
<1> SUFFICES ASSUME EntryTypeOK, Keyed, Times, [EntryNext]_entryVars PROVE Times'
  BY ZenonT(60)
<1> USE LimitAssumption, TimeAssumption
<1>0. /\ TypeOK /\ clock \in Nat /\ \A c \in Calls : now[c] \in Nat
      /\ \A k \in Keys : entries[k].started \in Nat
  BY SMTT(60), Z3T(60) DEF EntryTypeOK, TypeOK
<1>1. ASSUME NEW c \in Calls, NEW t \in Subdomains, NEW x \in Clients, ServeHTTP(c, t, x)
      PROVE  Times'
  BY SMTT(60), Z3T(60), <1>0, <1>1 DEF ServeHTTP, Arrive, Times, TypeOK
<1>2. CASE Tick
  BY SMTT(60), Z3T(60), <1>0, <1>2 DEF Tick, Times
<1>3. ASSUME NEW c \in Calls, Allow(c)
      PROVE  Times'
  <2> DEFINE left == Purge(now[c])
  <2>1. /\ result[c] = "waiting" /\ UNCHANGED <<clock, key, now>>
        /\ \E v \in {"allowed", "refused"} : result' = [result EXCEPT ![c] = v]
    BY ZenonT(60), <1>0, <1>3, AllowCases
  <2>2. now[c] \in 0..MaxTime /\ now[c] <= clock
    BY ZenonT(60), <1>0, <2>1 DEF TypeOK, Times
  <2>3. \A k \in Keys : left[k].started <= clock
    BY SMTT(60), Z3T(60), <1>0, <2>2, PurgeEntries DEF Absent, Times
  <2>4. left \in [Keys -> Entry]
    BY Zenon, <1>0, <2>2, PurgeEntries
  <2>5. \/ entries' = left
        \/ \E next \in Entry : /\ entries' = [left EXCEPT ![key[c]] = next]
                               /\ next.started \in {now[c], left[key[c]].started}
                               /\ key[c] \in Keys
    <3>1. CASE entries' = left
      BY Zenon, <3>1
    <3>2. ASSUME entries' # left
          PROVE  \E next \in Entry : /\ entries' = [left EXCEPT ![key[c]] = next]
                                     /\ next.started \in {now[c], left[key[c]].started}
                                     /\ key[c] \in Keys
      <4>1. PICK next \in Entry :
                /\ \/ next = [started |-> now[c], count |-> 1]
                   \/ next = [left[key[c]] EXCEPT !.count = @ + 1]
                /\ entries' = [left EXCEPT ![key[c]] = next]
        BY Zenon, <1>0, <1>3, <3>2, AllowCases
      <4>2. key[c] \in Keys /\ left[key[c]] \in Entry
        BY <1>0, <1>3, AllowCases
      <4>3. next.started \in {now[c], left[key[c]].started}
        BY SMTT(60), Z3T(60), <4>1, <4>2 DEF Entry
      <4> QED
        BY ZenonT(60), <4>1, <4>2, <4>3
    <3> QED
      BY <3>1, <3>2
  <2> HIDE DEF left
  <2>6. \A k \in Keys : entries'[k].started <= clock
    BY Zenon, <2>2, <2>3, <2>4, <2>5
  <2>7. \A d \in Calls : /\ result'[d] # "none" => result[d] # "none"
                         /\ result'[d] = "waiting" => result[d] = "waiting"
    BY <1>0, <2>1 DEF TypeOK
  <2> QED
    BY ZenonT(60), <2>1, <2>6, <2>7 DEF Times
<1>4. CASE UNCHANGED vars
  BY <1>4 DEF vars, Times
<1> QED
  BY ZenonT(60), <1>1, <1>2, <1>3, <1>4 DEF EntryNext, NotFound, Open, CloseSession, entryVars

\* The calls that a refused call can blame do not become fewer.
LEMMA BlamedStay ==
    ASSUME NEW c \in Calls, Cardinality(Blamed(c)) >= Limit,
           key'[c] = key[c] /\ now'[c] = now[c],
           \A d \in Blamed(c) : result'[d] = "allowed" /\ key'[d] = key[d] /\ now'[d] = now[d]
    PROVE  Cardinality(Blamed(c)') >= Limit
<1>1. Blamed(c) \subseteq Blamed(c)'
  BY DEF Blamed
<1>2. Blamed(c) \in SUBSET Calls /\ Blamed(c)' \in SUBSET Calls
  BY DEF Blamed
<1>3. IsFiniteSet(Blamed(c)') /\ Cardinality(Blamed(c)) \in Nat /\ Cardinality(Blamed(c)') \in Nat
  BY Zenon, <1>2, CallsFinite
<1>4. Cardinality(Blamed(c)) <= Cardinality(Blamed(c)')
  BY <1>1, <1>3, FS_Subset
<1> QED
  BY SMTT(60), Z3T(60), <1>3, <1>4, LimitAssumption

\* allow keeps the accounting of every key.
LEMMA AllowLimiter ==
    ASSUME TypeOK, Keyed, Times, LimiterInvariant, NEW c \in Calls, Allow(c)
    PROVE  LimiterInvariant'
<1> USE LimitAssumption, TimeAssumption
<1> DEFINE left == Purge(now[c])
           e    == left[key[c]]
<1>0. now[c] \in 0..MaxTime /\ \A d \in Calls : now[d] \in Nat
  BY SMTT(60), Z3T(60) DEF TypeOK
<1>1. /\ result[c] = "waiting" /\ key[c] \in Keys /\ e \in Entry
      /\ UNCHANGED <<clock, key, now>>
  BY AllowCases
<1>2. now[c] <= clock /\ clock \in Nat
  BY SMTT(60), Z3T(60), <1>1 DEF Times, TypeOK
<1>3. /\ left \in [Keys -> Entry]
      /\ \A k \in Keys : left[k] = IF Expired(entries[k], now[c]) THEN Absent ELSE entries[k]
  BY <1>0, PurgeEntries
<1>4. \A k \in Keys : \E cur, old \in SUBSET Calls : Windows(left[k], Allowed(k), cur, old)
  <2> SUFFICES ASSUME NEW k \in Keys
               PROVE  \E cur, old \in SUBSET Calls : Windows(left[k], Allowed(k), cur, old)
    OBVIOUS
  <2>1. PICK cur \in SUBSET Calls, old \in SUBSET Calls : Windows(entries[k], Allowed(k), cur, old)
    BY DEF LimiterInvariant
  <2>2. entries[k] \in Entry /\ Allowed(k) \in SUBSET Calls
    BY DEF TypeOK, Entry, Allowed
  <2>3. \E cur2, old2 \in SUBSET Calls :
            Windows(IF Expired(entries[k], now[c]) THEN Absent ELSE entries[k], Allowed(k), cur2, old2)
    BY ZenonT(60), <1>0, <1>2, <2>1, <2>2, PurgeShifts
  <2> QED
    BY ZenonT(60), <1>3, <2>3
<1>5. e.count > 0 => now[c] < e.started + Window
  <2>1. CASE Expired(entries[key[c]], now[c])
    BY SMTT(60), Z3T(60), <1>1, <1>3, <2>1 DEF Absent
  <2>2. CASE ~Expired(entries[key[c]], now[c])
    <3>1. e = entries[key[c]] /\ e.started \in Nat
      BY SMTT(60), Z3T(60), <1>1, <1>3, <2>2 DEF Entry
    <3>2. ~(now[c] - e.started >= Window)
      BY Zenon, <2>2, <3>1 DEF Expired
    <3> HIDE DEF e
    <3> QED
      BY SMTT(60), Z3T(60), <1>0, <3>1, <3>2
  <2> QED
    BY ZenonT(60), <2>1, <2>2
<1>6. e.started <= clock
  BY SMTT(60), Z3T(60), <1>1, <1>2, <1>3 DEF Absent, Times
<1>7. PICK v \in {"allowed", "refused"} :
          /\ result' = [result EXCEPT ![c] = v]
          /\ v = "refused" => e.count = Limit /\ entries' = left
          /\ v = "allowed" => \E next \in Entry :
                /\ \/ e.count = 0 /\ next = [started |-> now[c], count |-> 1]
                   \/ e.count > 0 /\ next = [e EXCEPT !.count = @ + 1]
                /\ entries' = [left EXCEPT ![key[c]] = next]
  BY ZenonT(60), AllowCases
<1>8. \A d \in Calls : result'[d] = IF d = c THEN v ELSE result[d]
  BY <1>7 DEF TypeOK
<1>9. \A d \in Calls : result[d] = "allowed" => result'[d] = "allowed"
  BY Zenon, <1>1, <1>8
<1> HIDE DEF e, left
<1>10. PICK cur \in SUBSET Calls, old \in SUBSET Calls : Windows(left[key[c]], Allowed(key[c]), cur, old)
  BY <1>1, <1>4
<1>11. ASSUME NEW k \in Keys, k # key[c] \/ v = "refused"
       PROVE  /\ \E cur2, old2 \in SUBSET Calls : Windows(entries[k], Allowed(k), cur2, old2)'
              /\ AtMostTwice(Allowed(k))'
  <2>1. Allowed(k)' = Allowed(k)
    BY Zenon, <1>1, <1>8, <1>11 DEF Allowed
  <2>2. entries'[k] = left[k]
    BY <1>1, <1>3, <1>7, <1>11
  <2>3. AtMostTwice(Allowed(k))'
    BY <1>1, <2>1 DEF LimiterInvariant, AtMostTwice
  <2>4. PICK cur2 \in SUBSET Calls, old2 \in SUBSET Calls : Windows(left[k], Allowed(k), cur2, old2)
    BY Zenon, <1>4
  <2>5. Windows(entries[k], Allowed(k), cur2, old2)'
    BY Zenon, <1>1, <2>1, <2>2, <2>4 DEF Windows
  <2> QED
    BY <2>3, <2>5
<1>12. ASSUME v = "allowed"
       PROVE  /\ \E cur2, old2 \in SUBSET Calls : Windows(entries[key[c]], Allowed(key[c]), cur2, old2)'
              /\ AtMostTwice(Allowed(key[c]))'
  <2> DEFINE A == Allowed(key[c])
  <2>1. PICK next \in Entry :
            /\ \/ e.count = 0 /\ next = [started |-> now[c], count |-> 1]
               \/ e.count > 0 /\ next = [e EXCEPT !.count = @ + 1]
            /\ entries' = [left EXCEPT ![key[c]] = next]
    BY Zenon, <1>7, <1>12
  <2>2. A \in SUBSET Calls /\ c \notin A /\ Allowed(key[c])' = A \cup {c}
    BY <1>1, <1>8, <1>12 DEF Allowed
  <2>3. entries'[key[c]] = next
    BY ZenonT(60), <1>1, <1>3, <2>1
  <2>4. Windows(e, A, cur, old)
    BY ZenonT(60), <1>10 DEF e
  <2> HIDE DEF A
  <2>5. Windows(next, A \cup {c}, cur \cup {c}, old)
    BY ZenonT(60), <1>1, <1>5, <1>6, <2>1, <2>2, <2>4, CallIsCounted
  <2>6. AtMostTwice(A)
    BY ZenonT(60), <1>1 DEF LimiterInvariant, A
  <2>7. AtMostTwice(A \cup {c})
    BY ZenonT(60), <2>2, <2>5, <2>6, StretchSeesTwo
  <2>8. Windows(entries[key[c]], Allowed(key[c]), cur \cup {c}, old)'
    BY ZenonT(60), <1>1, <2>2, <2>3, <2>5 DEF Windows
  <2>9. AtMostTwice(Allowed(key[c]))'
    BY ZenonT(60), <1>1, <2>2, <2>7 DEF AtMostTwice
  <2> QED
    BY Zenon, <2>8, <2>9
<1>13. ASSUME NEW d \in Calls, result[d] = "refused"
       PROVE  Cardinality(Blamed(d)') >= Limit
  BY ZenonT(60), <1>1, <1>9, <1>13, BlamedStay DEF LimiterInvariant, Blamed
<1>14. ASSUME v = "refused"
       PROVE  Cardinality(Blamed(c)') >= Limit
  <2>1. Cardinality(cur) = Limit /\ cur \subseteq Allowed(key[c])
    BY ZenonT(60), <1>7, <1>10, <1>14 DEF Windows, e
  <2>2. ASSUME NEW d \in cur
        PROVE  now[d] > now[c] - Window - MaxDelay
    <3>1. e.started - MaxDelay <= now[d] /\ now[d] \in Nat
      BY ZenonT(60), <1>0, <1>10 DEF Windows, e
    <3>2. now[c] < e.started + Window /\ e.started \in Nat
      BY SMTT(60), Z3T(60), <1>1, <1>5, <1>7, <1>14 DEF Entry
    <3> QED
      BY SMTT(60), Z3T(60), <1>0, <3>1, <3>2
  <2>3. cur \subseteq Blamed(c)'
    BY Zenon, <1>1, <1>9, <2>1, <2>2 DEF Blamed, Allowed
  <2>4. Blamed(c)' \in SUBSET Calls
    BY DEF Blamed
  <2>5. IsFiniteSet(Blamed(c)') /\ Cardinality(Blamed(c)') \in Nat
    BY <2>4, CallsFinite
  <2>6. Cardinality(cur) <= Cardinality(Blamed(c)')
    BY Zenon, <2>3, <2>5, FS_Subset
  <2> QED
    BY ZenonT(60), <2>1, <2>5, <2>6
<1>15. \A k \in Keys : /\ \E cur2, old2 \in SUBSET Calls : Windows(entries[k], Allowed(k), cur2, old2)'
                       /\ AtMostTwice(Allowed(k))'
  BY <1>1, <1>11, <1>12
<1>16. \A d \in Calls : result'[d] = "refused" => Cardinality(Blamed(d)') >= Limit
  BY Zenon, <1>8, <1>13, <1>14
<1> QED
  BY Zenon, <1>15, <1>16 DEF LimiterInvariant

\* Every step keeps the accounting of every key.
LEMMA EntryStepLimiter ==
    EntryTypeOK /\ Keyed /\ Times /\ LimiterInvariant /\ [EntryNext]_entryVars => LimiterInvariant'
<1> SUFFICES ASSUME EntryTypeOK, Keyed, Times, LimiterInvariant, [EntryNext]_entryVars
             PROVE  LimiterInvariant'
  OBVIOUS
<1>0. TypeOK /\ clock \in Nat /\ \A c \in Calls : now[c] \in Nat
  BY SMTT(60), Z3T(60), TimeAssumption DEF EntryTypeOK, TypeOK
<1>1. ASSUME UNCHANGED entries, clock' \in Nat, clock <= clock',
             \A c \in Calls : result'[c] \in {"allowed", "refused"} <=> result[c] \in {"allowed", "refused"},
             \A c \in Calls : result[c] \in {"allowed", "refused"} =>
                 result'[c] = result[c] /\ key'[c] = key[c] /\ now'[c] = now[c]
      PROVE  LimiterInvariant'
  <2>1. ASSUME NEW k \in Keys
        PROVE  /\ \E cur, old \in SUBSET Calls : Windows(entries[k], Allowed(k), cur, old)'
               /\ AtMostTwice(Allowed(k))'
    <3>1. /\ Allowed(k)' = Allowed(k) /\ Allowed(k) \in SUBSET Calls
          /\ \A c \in Allowed(k) : now'[c] = now[c]
      BY Zenon, <1>1 DEF Allowed
    <3>2. PICK cur \in SUBSET Calls, old \in SUBSET Calls : Windows(entries[k], Allowed(k), cur, old)
      BY Zenon DEF LimiterInvariant
    <3>3. cur \subseteq Allowed(k)
      BY <3>2 DEF Windows
    <3> DEFINE A == Allowed(k)
    <3> HIDE DEF A
    <3>4. Windows(entries[k], A, cur, old)
      BY Zenon, <3>2 DEF A
    <3>5. /\ A \in SUBSET Calls /\ cur \subseteq A /\ \A c \in A : now'[c] = now[c] /\ now[c] \in Nat
      BY Zenon, <1>0, <3>1, <3>3 DEF A
    <3>6. /\ cur \subseteq A /\ old \subseteq A
          /\ Cardinality(cur) = entries'[k].count /\ Cardinality(old) <= Limit
          /\ \A c \in cur : entries'[k].started - MaxDelay <= now'[c] /\ now'[c] < entries'[k].started + Window
          /\ \A o \in A \ cur : /\ now'[o] < clock'
                                /\ entries'[k].count > 0 => now'[o] - MaxDelay < entries'[k].started
          /\ \A o \in A \ (cur \cup old) :
                /\ now'[o] + Window - MaxDelay < clock'
                /\ \A c \in cur : now'[o] + Window - 2 * MaxDelay < now'[c]
      BY SMTT(60), Z3T(60), <1>0, <1>1, <3>4, <3>5, LimitAssumption, TimeAssumption DEF Windows
    <3>7. Windows(entries[k], Allowed(k), cur, old)'
      BY <3>1, <3>6 DEF Windows, A
    <3>8. \A s \in Int : {c \in Allowed(k)' : now'[c] \in s..(s + Window - 2 * MaxDelay)}
                           = {c \in Allowed(k) : now[c] \in s..(s + Window - 2 * MaxDelay)}
      BY Zenon, <3>1
    <3>9. AtMostTwice(Allowed(k))'
      BY Zenon, <3>8 DEF LimiterInvariant, AtMostTwice
    <3> QED
      BY <3>7, <3>9
  <2>2. ASSUME NEW c \in Calls, result'[c] = "refused"
        PROVE  Cardinality(Blamed(c)') >= Limit
    BY Zenon, <1>1, <2>2, BlamedStay DEF LimiterInvariant, Blamed
  <2> QED
    BY Zenon, <2>1, <2>2 DEF LimiterInvariant
<1>2. ASSUME NEW c \in Calls, NEW t \in Subdomains, NEW x \in Clients, ServeHTTP(c, t, x)
      PROVE  LimiterInvariant'
  BY SMTT(60), Z3T(60), <1>0, <1>1, <1>2 DEF ServeHTTP, Arrive, TypeOK
<1>3. CASE Tick
  BY SMTT(60), Z3T(60), <1>0, <1>1, <1>3 DEF Tick
<1>4. ASSUME NEW c \in Calls, Allow(c)
      PROVE  LimiterInvariant'
  BY <1>0, <1>4, AllowLimiter
<1>5. CASE UNCHANGED vars
  BY SMTT(60), Z3T(60), <1>0, <1>1, <1>5 DEF vars
<1> QED
  BY <1>2, <1>3, <1>4, <1>5 DEF EntryNext, NotFound, Open, CloseSession, entryVars

\* Every reachable state of the entry has the declared types, and the limiter accounts
\* for every call, for any number of calls, tunnels and clients, any limit, window and
\* wait for the mutex.
THEOREM LimiterAccounts == EntrySpec => [](EntryTypeOK /\ Keyed /\ Times /\ LimiterInvariant)
<1>1. InitEntry => EntryTypeOK /\ Keyed /\ Times /\ LimiterInvariant
  <2> SUFFICES ASSUME InitEntry PROVE EntryTypeOK /\ Keyed /\ Times /\ LimiterInvariant
    BY Zenon
  <2> USE LimitAssumption, TimeAssumption
  <2>1. EntryTypeOK /\ Keyed /\ Times
    BY SMTT(60), Z3T(60) DEF InitEntry, Init, EntryTypeOK, TypeOK, Keyed, Times, Absent
  <2>2. \A k \in Keys : Allowed(k) = {} /\ entries[k] = Absent
    BY DEF InitEntry, Init, Allowed
  <2>3. Cardinality({}) = 0
    BY FS_EmptySet
  <2>4. \A k \in Keys : Windows(entries[k], Allowed(k), {}, {})
    BY SMTT(60), Z3T(60), <2>2, <2>3 DEF Windows, Absent
  <2>5. \A k \in Keys : AtMostTwice(Allowed(k))
    <3> SUFFICES ASSUME NEW k \in Keys, NEW s \in Int
                 PROVE  Cardinality({c \in Allowed(k) : now[c] \in s..(s + Window - 2 * MaxDelay)})
                           <= 2 * Limit
      BY DEF AtMostTwice
    <3>1. {c \in Allowed(k) : now[c] \in s..(s + Window - 2 * MaxDelay)} = {}
      BY <2>2
    <3>2. 0 <= 2 * Limit
      BY SMTT(60), Z3T(60)
    <3> QED
      BY Zenon, <2>3, <3>1, <3>2
  <2>6. \A c \in Calls : result[c] # "refused"
    BY DEF InitEntry, Init
  <2> QED
    BY Zenon, <2>1, <2>4, <2>5, <2>6 DEF LimiterInvariant
<1> QED
  BY <1>1, EntryStepType, EntryStepTimes, EntryStepLimiter, PTL DEF EntrySpec

\* The calls of a client to a tunnel are allowed at most twice the limit in any stretch
\* that is shorter than a window by two waits, with or without a proxy, however many
\* other tunnels and clients there are.
THEOREM ClientIsLimited == EntrySpec => []ClientAtMostTwice
<1>1. EntryTypeOK /\ Keyed /\ LimiterInvariant => ClientAtMostTwice
  <2> SUFFICES ASSUME EntryTypeOK, Keyed, LimiterInvariant,
                      NEW t \in Tunnels, NEW x \in Clients, NEW s \in 0..MaxTime
               PROVE  Cardinality({c \in Calls : /\ result[c] = "allowed" /\ origin[c] = <<t, x>>
                                      /\ now[c] \in s..(s + Window - 2 * MaxDelay)}) <= 2 * Limit
    BY ZenonT(60) DEF ClientAtMostTwice
  <2> DEFINE k == LimiterKey(t, requestClientIP(x))
             X == {c \in Calls : /\ result[c] = "allowed" /\ origin[c] = <<t, x>>
                                 /\ now[c] \in s..(s + Window - 2 * MaxDelay)}
             Y == {c \in Allowed(k) : now[c] \in s..(s + Window - 2 * MaxDelay)}
  <2>1. k \in Keys
    BY ZenonT(60), KeysAssumption DEF LimiterKey, requestClientIP
  <2>2. X \subseteq Y
    BY SMTT(60), Z3T(60) DEF Allowed, Keyed
  <2>3. Cardinality(Y) <= 2 * Limit
    BY SMTT(60), Z3T(60), <2>1, TimeAssumption DEF LimiterInvariant, AtMostTwice
  <2>4. X \in SUBSET Calls /\ Y \in SUBSET Calls
    BY DEF Allowed
  <2> HIDE DEF X, Y
  <2>5. Cardinality(X) <= Cardinality(Y) /\ Cardinality(X) \in Nat /\ Cardinality(Y) \in Nat
    BY ZenonT(60), <2>2, <2>4, CallsFinite, FS_Subset
  <2>6. Cardinality(X) <= 2 * Limit
    BY SMTT(60), Z3T(60), <2>3, <2>5, LimitAssumption
  <2> QED
    BY ZenonT(60), <2>6 DEF X
<1> QED
  BY <1>1, LimiterAccounts, PTL

\* Without a proxy in front of the gateway a request is refused only for the requests of
\* its own client to its own tunnel.
THEOREM OthersAreUnaffected ==
    ASSUME Proxy = None
    PROVE  EntrySpec => []OthersUnaffected
<1>1. EntryTypeOK /\ Keyed /\ LimiterInvariant => OthersUnaffected
  <2> SUFFICES ASSUME EntryTypeOK, Keyed, LimiterInvariant, NEW c \in Calls, result[c] = "refused"
               PROVE  Cardinality({d \in Calls : /\ result[d] = "allowed" /\ origin[d] = origin[c]
                                      /\ now[d] > now[c] - Window - MaxDelay}) >= Limit
    BY DEF OthersUnaffected
  <2>1. \A d \in Calls : result[d] # "none" => key[d] = origin[d]
    BY SMTT(60), Z3T(60) DEF Keyed, LimiterKey, requestClientIP
  <2>2. Blamed(c) = {d \in Calls : /\ result[d] = "allowed" /\ origin[d] = origin[c]
                                   /\ now[d] > now[c] - Window - MaxDelay}
    BY <2>1 DEF Blamed
  <2> QED
    BY ZenonT(60), <2>2 DEF LimiterInvariant
<1> QED
  BY <1>1, LimiterAccounts, PTL
================================================================================
