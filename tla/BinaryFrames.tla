------------------------------ MODULE BinaryFrames ------------------------------
(***************************************************************************)
(* The binary frames that carry the chunks of request and response bodies. *)
(* The gateway and the agent each have a copy of the two conversions; the  *)
(* copies make the same checks, in another order.                          *)
(***************************************************************************)
EXTENDS Integers, Sequences

Byte == 0..255
Uint32 == {n \in Nat : n < 4294967296}
MaxBinaryFramePayload == 32768

\* requestID and payload are the bytes of the fields RequestID and Payload.
BinaryFrame == [type : Byte, requestID : Seq(Byte), sequence : Uint32, payload : Seq(Byte)]

\* What ParseBinaryFrame returns with an error.
Invalid == [type |-> 0, requestID |-> <<>>, sequence |-> 0, payload |-> <<>>]

\* binary.BigEndian
Uint16Byte(n, i) == IF i = 1 THEN n \div 256 ELSE n % 256
Uint32Byte(n, i) ==
    CASE i = 1 -> n \div 16777216
      [] i = 2 -> (n \div 65536) % 256
      [] i = 3 -> (n \div 256) % 256
      [] i = 4 -> n % 256
GetUint16(a, b) == 256 * a + b
GetUint32(a, b, c, d) == 16777216 * a + 65536 * b + 256 * c + d

\* The frames that MarshalBinary encodes; it returns an error for the others.
Encodable(f) ==
    /\ f.type \in {1, 2}
    /\ 0 < Len(f.requestID) /\ Len(f.requestID) < 65536
    /\ Len(f.payload) <= MaxBinaryFramePayload

Header(f) ==
    LET n == Len(f.requestID)
        m == Len(f.payload)
    IN  <<1, f.type, Uint16Byte(n, 1), Uint16Byte(n, 2),
          Uint32Byte(f.sequence, 1), Uint32Byte(f.sequence, 2),
          Uint32Byte(f.sequence, 3), Uint32Byte(f.sequence, 4),
          Uint32Byte(m, 1), Uint32Byte(m, 2), Uint32Byte(m, 3), Uint32Byte(m, 4)>>

MarshalBinary(f) == Header(f) \o f.requestID \o f.payload

\* The messages that ParseBinaryFrame accepts.
WellFormed(data) ==
    /\ Len(data) >= 12
    /\ data[1] = 1 /\ data[2] \in {1, 2}
    /\ LET idLength == GetUint16(data[3], data[4])
           payloadLength == GetUint32(data[9], data[10], data[11], data[12])
       IN  /\ payloadLength <= MaxBinaryFramePayload
           /\ idLength # 0
           /\ Len(data) = 12 + idLength + payloadLength

ParseBinaryFrame(data) ==
    IF WellFormed(data)
    THEN LET idLength == GetUint16(data[3], data[4])
         IN  [type      |-> data[2],
              requestID |-> SubSeq(data, 13, 12 + idLength),
              sequence  |-> GetUint32(data[5], data[6], data[7], data[8]),
              payload   |-> SubSeq(data, 13 + idLength, Len(data))]
    ELSE Invalid
================================================================================
