--------------------------- MODULE SegmentProofs ---------------------------
(***************************************************************************)
(* Proofs about the wire format (Segment): what packSegment writes,        *)
(* unpackSegment reads back, for every value of every field and data of    *)
(* every length.                                                           *)
(***************************************************************************)
EXTENDS Segment, TLAPS

LEMMA Shifts ==
  /\ Shift8 \in Nat /\ Shift16 \in Nat /\ Shift24 \in Nat
  /\ Shift16 = 256 * Shift8 /\ Shift24 = 256 * Shift16
  BY DEF Shift8, Shift16, Shift24

LEMMA Below ==
  ASSUME NEW k \in Nat, NEW x \in 0 .. 256 * k - 1
  PROVE  x \in Nat /\ x < 256 * k
  OBVIOUS

\* A number cut at its low eight bits.
LEMMA Cut ==
  ASSUME NEW x \in Nat, NEW k \in Nat, x < 256 * k
  PROVE  \E q \in Nat, r \in Byte : x = 256 * q + r /\ q < k
<1>1. x \div 256 \in Nat /\ x \div 256 < k /\ x % 256 \in 0 .. 255
  OBVIOUS
<1>2. x = 256 * (x \div 256) + (x % 256)
  OBVIOUS
<1> QED
  BY <1>1, <1>2 DEF Byte

\* Every uint32_t is made of four bytes.
LEMMA FourBytes ==
  ASSUME NEW x \in Uint32
  PROVE  \E a, b, c, d \in Byte : x = 256 * (256 * (256 * a + b) + c) + d
<1>1. x \in Nat /\ x < 256 * Shift24
  BY Shifts, Below DEF Uint32
<1>2. PICK x1 \in Nat, d \in Byte : x = 256 * x1 + d /\ x1 < Shift24
  <2>1. Shift24 \in Nat
    BY Shifts
  <2> QED
    BY <1>1, <2>1, Cut
<1>3. PICK x2 \in Nat, c \in Byte : x1 = 256 * x2 + c /\ x2 < Shift16
  <2>1. Shift16 \in Nat /\ x1 < 256 * Shift16
    BY <1>2, Shifts
  <2> QED
    BY <2>1, Cut
<1>4. PICK a \in Nat, b \in Byte : x2 = 256 * a + b /\ a < Shift8
  <2>1. Shift8 \in Nat /\ x2 < 256 * Shift8
    BY <1>3, Shifts
  <2> QED
    BY <2>1, Cut
<1>5. a \in Byte
  BY <1>4 DEF Shift8, Byte
<1>6. x = 256 * (256 * (256 * a + b) + c) + d
  BY <1>2, <1>3, <1>4
<1> QED
  BY <1>5, <1>6

(***************************************************************************)
(* The two bytes packUint16 writes are the ones unpackUint16 puts together *)
(* again, for every uint16_t; whatever it is given, it writes bytes.       *)
(***************************************************************************)
LEMMA PackUint16Type == ASSUME NEW x \in Nat PROVE PackUint16(x) \in Byte \X Byte
<1>1. x % 256 \in Byte /\ (x \div Shift8) % 256 \in Byte
  BY DEF Byte, Shift8
<1> QED
  BY <1>1 DEF PackUint16

THEOREM Uint16RoundTrip ==
  ASSUME NEW data \in Uint16
  PROVE  UnpackUint16(PackUint16(data), 0) = data
<1>1. data \in Nat /\ data < 256 * Shift8
  BY Shifts, Below DEF Uint16
<1>2. PICK c \in Nat, d \in Byte : data = 256 * c + d /\ c < Shift8
  BY <1>1, Shifts, Cut
<1>3. (data \div Shift8) % 256 = c /\ data % 256 = d
  BY <1>2 DEF Byte, Shift8
<1> QED
  BY <1>2, <1>3 DEF PackUint16, UnpackUint16, Shift8, Byte

(***************************************************************************)
(* The four bytes packUint32 writes are the ones unpackUint32 puts         *)
(* together again: no sequence number is changed on the wire.              *)
(***************************************************************************)
THEOREM Uint32RoundTrip ==
  ASSUME NEW data \in Uint32
  PROVE  /\ PackUint32(data) \in Byte \X Byte \X Byte \X Byte
         /\ UnpackUint32(PackUint32(data), 0) = data
<1>1. PICK a, b, c, d \in Byte : data = 256 * (256 * (256 * a + b) + c) + d
  BY FourBytes
<1>2. data % 256 = d
  BY <1>1 DEF Byte
<1>3. (data \div Shift8) % 256 = c
  <2>1. data \div 256 = 256 * (256 * a + b) + c
    BY <1>1 DEF Byte
  <2>2. (256 * (256 * a + b) + c) % 256 = c
    BY DEF Byte
  <2> QED
    BY <2>1, <2>2 DEF Shift8
<1>4. (data \div Shift16) % 256 = b
  <2>1. data \div (256 * 256) = 256 * a + b
    BY <1>1 DEF Byte
  <2>2. (256 * a + b) % 256 = b
    BY DEF Byte
  <2> QED
    BY <2>1, <2>2 DEF Shift16
<1>5. (data \div Shift24) % 256 = a
  <2>1. data \div (256 * (256 * 256)) = a
    BY <1>1 DEF Byte
  <2>2. a % 256 = a
    BY DEF Byte
  <2> QED
    BY <2>1, <2>2 DEF Shift24
<1>6. PackUint32(data) = << a, b, c, d >>
  BY <1>2, <1>3, <1>4, <1>5 DEF PackUint32
<1>7. UnpackUint32(<< a, b, c, d >>, 0) = data
  BY <1>1 DEF UnpackUint32, Shift24, Shift16, Shift8, Byte
<1> QED
  BY <1>6, <1>7

\* strncpy writes as many bytes as it is told to.
LEMMA CopiedType ==
  ASSUME NEW data \in Seq(Byte)
  PROVE  Copied(data) \in Seq(Byte) /\ Len(Copied(data)) = Len(data)
<1> DEFINE zeros == {i \in DOMAIN data : data[i] = 0}
           copy(i) == IF \A j \in zeros : i < j THEN data[i] ELSE 0
<1>1. DOMAIN data = 1 .. Len(data) /\ Len(data) \in Nat
  OBVIOUS
<1>2. \A i \in 1 .. Len(data) : copy(i) \in Byte
  <2>1. 0 \in Byte
    BY DEF Byte
  <2>2. \A i \in 1 .. Len(data) : data[i] \in Byte
    OBVIOUS
  <2> QED
    BY <2>1, <2>2
<1>3. Copied(data) = [i \in 1 .. Len(data) |-> copy(i)]
  BY <1>1 DEF Copied
<1> HIDE DEF copy
<1>4. [i \in 1 .. Len(data) |-> copy(i)] \in [1 .. Len(data) -> Byte]
  BY <1>2
<1> QED
  BY <1>1, <1>3, <1>4

(***************************************************************************)
(* Text, which has no zero byte, is copied as it is; strncpy in place of   *)
(* memcpy only changes data that is not text.                              *)
(***************************************************************************)
THEOREM TextIsCopied ==
  ASSUME NEW data \in Seq(Byte), \A i \in 1 .. Len(data) : data[i] # 0
  PROVE  Copied(data) = data
<1>1. DOMAIN data = 1 .. Len(data)
  OBVIOUS
<1>2. {i \in DOMAIN data : data[i] = 0} = {}
  BY <1>1
<1>3. Copied(data) = [i \in DOMAIN data |-> data[i]]
  BY <1>2 DEF Copied
<1> QED
  BY <1>3

(***************************************************************************)
(* Whatever packSegment writes, unpackSegment reads back: the sequence     *)
(* numbers, the window, the flags, and the data as strncpy copied it.      *)
(***************************************************************************)
THEOREM SegmentRoundTrip ==
  ASSUME NEW seg \in Segments
  PROVE  UnpackSegment(PackSegment(seg)) = [seg EXCEPT !.data = Copied(@)]
<1> DEFINE s == PackUint32(seg.seqNum)
           a == PackUint32(seg.ackNum)
           w == PackUint16(seg.rwnd)
           d == Copied(seg.data)
           bytes == PackSegment(seg)
<1>1. /\ seg.seqNum \in Uint32 /\ seg.ackNum \in Uint32 /\ seg.rwnd \in Uint16
      /\ seg.flags \in Byte /\ seg.data \in Seq(Byte) /\ Len(seg.data) \in Nat
  BY DEF Segments
<1>2. d \in Seq(Byte) /\ Len(d) = Len(seg.data)
  BY <1>1, CopiedType
<1>3. /\ UnpackUint32(s, 0) = seg.seqNum /\ UnpackUint32(a, 0) = seg.ackNum
      /\ UnpackUint16(w, 0) = seg.rwnd
  BY <1>1, Uint32RoundTrip, Uint16RoundTrip
<1>4. \A i \in 1 .. HeaderLen : bytes[i] = Header(seg)[i]
  BY <1>1 DEF PackSegment, HeaderLen
<1>5. /\ bytes[1] = s[1] /\ bytes[2] = s[2] /\ bytes[3] = s[3] /\ bytes[4] = s[4]
      /\ bytes[5] = a[1] /\ bytes[6] = a[2] /\ bytes[7] = a[3] /\ bytes[8] = a[4]
      /\ bytes[11] = w[1] /\ bytes[12] = w[2] /\ bytes[13] = seg.flags
  <2> HIDE DEF bytes
  <2> QED
    BY <1>4 DEF Header, HeaderLen
<1>6. \A i \in 1 .. Len(seg.data) : bytes[i + HeaderLen] = d[i]
  BY <1>1 DEF PackSegment, HeaderLen
<1>7. Len(bytes) = HeaderLen + Len(seg.data)
  BY <1>1 DEF PackSegment, HeaderLen
<1> HIDE DEF s, a, w, d, bytes
<1>8. /\ UnpackUint32(bytes, 0) = seg.seqNum /\ UnpackUint32(bytes, 4) = seg.ackNum
      /\ UnpackUint16(bytes, 10) = seg.rwnd
  BY <1>3, <1>5 DEF UnpackUint32, UnpackUint16
<1>9. [i \in 1 .. Len(bytes) - HeaderLen |-> bytes[i + HeaderLen]] = d
  <2>1. Len(bytes) - HeaderLen = Len(d)
    BY <1>1, <1>2, <1>7 DEF HeaderLen
  <2>2. [i \in 1 .. Len(d) |-> bytes[i + HeaderLen]] = [i \in 1 .. Len(d) |-> d[i]]
    BY <1>2, <1>6
  <2>3. [i \in 1 .. Len(d) |-> d[i]] = d
    BY <1>2
  <2> QED
    BY <2>1, <2>2, <2>3
<1>10. UnpackSegment(bytes) =
         [seqNum |-> seg.seqNum, ackNum |-> seg.ackNum, rwnd |-> seg.rwnd,
          flags |-> seg.flags, data |-> d]
  BY <1>5, <1>8, <1>9 DEF UnpackSegment, HeaderLen
<1>11. [seg EXCEPT !.data = Copied(@)] =
         [seqNum |-> seg.seqNum, ackNum |-> seg.ackNum, rwnd |-> seg.rwnd,
          flags |-> seg.flags, data |-> d]
  BY DEF Segments, d
<1> QED
  BY <1>10, <1>11 DEF bytes
=============================================================================
