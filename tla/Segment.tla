------------------------------ MODULE Segment ------------------------------
(***************************************************************************)
(* The wire format of a Resf segment (segment.c): thirteen bytes of header *)
(* in network order, then the data.  A byte is a number; seg.dataLen is    *)
(* the length of the sequence seg.data.                                    *)
(***************************************************************************)
EXTENDS Integers, Sequences

\* What a shift by 8, 16 or 24 bits divides by.
Shift8  == 256
Shift16 == 256 * 256
Shift24 == 256 * (256 * 256)

Byte == 0 .. 255
Uint16 == 0 .. 256 * Shift8 - 1
Uint32 == 0 .. 256 * Shift24 - 1

HeaderLen == 13

\* The fields of a segment.
Segments ==
  [seqNum : Uint32, ackNum : Uint32, rwnd : Uint16, flags : Byte, data : Seq(Byte)]

\* A store into an unsigned char keeps the low eight bits.
PackUint32(data) ==
  << (data \div Shift24) % 256, (data \div Shift16) % 256,
     (data \div Shift8) % 256, data % 256 >>

PackUint16(data) == << (data \div Shift8) % 256, data % 256 >>

\* The number whose bytes follow position pos.
UnpackUint32(bytes, pos) ==
  Shift24 * bytes[pos + 1] + Shift16 * bytes[pos + 2] + Shift8 * bytes[pos + 3]
    + bytes[pos + 4]

UnpackUint16(bytes, pos) == Shift8 * bytes[pos + 1] + bytes[pos + 2]

\* strncpy: from the first zero byte on, the length is filled with zeros.
Copied(data) ==
  LET zeros == {i \in DOMAIN data : data[i] = 0} IN
  [i \in DOMAIN data |-> IF \A j \in zeros : i < j THEN data[i] ELSE 0]

Header(seg) ==
  LET s == PackUint32(seg.seqNum)
      a == PackUint32(seg.ackNum)
      l == PackUint16(Len(seg.data))
      w == PackUint16(seg.rwnd)
  IN  << s[1], s[2], s[3], s[4], a[1], a[2], a[3], a[4],
         l[1], l[2], w[1], w[2], seg.flags >>

PackSegment(seg) ==
  [i \in 1 .. HeaderLen + Len(seg.data) |->
     IF i <= HeaderLen THEN Header(seg)[i] ELSE Copied(seg.data)[i - HeaderLen]]

\* The dataLen of the header is overruled by the length of the datagram.
UnpackSegment(bytes) ==
  [seqNum |-> UnpackUint32(bytes, 0),
   ackNum |-> UnpackUint32(bytes, 4),
   rwnd   |-> UnpackUint16(bytes, 10),
   flags  |-> bytes[HeaderLen],
   data   |-> [i \in 1 .. Len(bytes) - HeaderLen |-> bytes[i + HeaderLen]]]
=============================================================================
