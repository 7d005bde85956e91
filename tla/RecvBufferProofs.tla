-------------------------- MODULE RecvBufferProofs --------------------------
(***************************************************************************)
(* Safety of the receive half, for every buffer size N, segment size MSS,  *)
(* set of read lengths and separators, and poll limit.                     *)
(*                                                                         *)
(* UnreadIntact is not inductive: it takes ReadHeld (what a read has       *)
(* copied is still in the buffer), RoomSeen (what R has computed is not    *)
(* more than the free space) and SegmentNext (the segment in hand          *)
(* continues the stream, and is stored before lastRecved moves).           *)
(***************************************************************************)
EXTENDS RecvBuffer, RingLemmas, SequenceTheorems

\* A read in progress has copied no more than there is.
ReadHeld ==
  /\ bpc = "idle" => buf = << >>
  /\ Len(buf) <= Dist(lastRead, lastRecved)

\* A test that R has found true stays true: reads end where lastRecved is.
RoomSeen ==
  /\ rpc = "space" /\ rge => lastRead <= lastRecved
  /\ rpc \in {"copy", "publish"} =>
       Len(rdata) <= canRecvLen /\ canRecvLen <= Room(lastRead, lastRecved)

\* The segment that R stores holds the next bytes of the stream.
SegmentNext ==
  /\ rpc \in {"space", "wait", "copy", "publish"} =>
       \A i \in 1 .. Len(rdata) : rdata[i] = accepted + i - 1
  /\ rpc = "publish" =>
       \A k \in Pos : k < StoreLen => recvBuff[Add(lastRecved, k)] = accepted + k

RInv == TypeOK /\ ReadHeld /\ RoomSeen

IInv == RInv /\ SegmentNext /\ UnreadIntact

\* A run of the stream is a sequence of integers.
LEMMA RunType ==
  ASSUME NEW n \in Nat, NEW a \in Nat
  PROVE  /\ [i \in 1 .. n |-> a + i - 1] \in Seq(Int)
         /\ Len([i \in 1 .. n |-> a + i - 1]) = n
<1>1. \A i \in 1 .. n : a + i - 1 \in Int
  OBVIOUS
<1> QED
  BY <1>1

\* How much of the segment is stored.
LEMMA StoreLenType ==
  ASSUME TypeOK
  PROVE  /\ StoreLen \in Int /\ StoreLen <= Len(rdata) /\ StoreLen <= canRecvLen
         /\ Len(rdata) \in Nat
         /\ Len(rdata) <= canRecvLen => StoreLen = Len(rdata)
  BY DEF TypeOK, StoreLen, SmallerOf

LEMMA InitIInv == Init => IInv
<1> SUFFICES ASSUME Init PROVE IInv
  OBVIOUS
<1>1. Dist(0, 0) = 0 /\ 0 \in Pos
  BY RingSize DEF Dist, DistBy, Pos
<1>2. recvBuff \in [Pos -> Int]
  BY DEF Init, Junk
<1>3. rge \in BOOLEAN /\ sge \in BOOLEAN
  BY Zenon DEF Init
<1>4. << >> \in Seq(Int) /\ Len(<< >>) = 0
  OBVIOUS
<1>5. TypeOK
  BY <1>1, <1>2, <1>3, <1>4 DEF Init, TypeOK, AllModes
<1> QED
  BY <1>1, <1>4, <1>5 DEF Init, IInv, RInv, ReadHeld, RoomSeen, SegmentNext, UnreadIntact, Pos

\* What Return does, whatever number of bytes lastRead moves over.
LEMMA ReturnType ==
  ASSUME TypeOK, NEW n \in Nat, Return(n) PROVE TypeOK'
<1>1. got \o buf \in Seq(Int) /\ << >> \in Seq(Int)
  BY DEF TypeOK
<1>2. lastRead' \in Pos
  BY AddInRing DEF Return, TypeOK
<1> QED
  BY <1>1, <1>2 DEF Return, TypeOK, rVars, sVars

\* The outcome of the test of the two indices.
LEMMA TestType == ASSUME TypeOK PROVE AtOrAbove \in BOOLEAN
  BY DEF TypeOK, AtOrAbove

(***************************************************************************)
(* A segment of any sender, whatever bytes it carries: the lemmas about    *)
(* the structure of the receive half hold for it, so that they can be used *)
(* where the two halves are composed.                                      *)
(***************************************************************************)
AnySegment == \E seqNum \in Pos, bytes \in Seq(Int) : RArrive(seqNum, bytes)

AnyNext == AnySegment \/ RWork \/ BNext \/ SNext

\* The peer of module RecvBuffer is one of them.
LEMMA PeerIsAny == ASSUME TypeOK PROVE [Next]_vars => [AnyNext]_vars
<1>1. ASSUME PeerSends PROVE AnySegment
  <2>1. PICK seqNum \in Pos, n \in 1 .. MSS :
               RArrive(seqNum, [i \in 1 .. n |-> accepted + i - 1])
    BY <1>1 DEF PeerSends
  <2>2. [i \in 1 .. n |-> accepted + i - 1] \in Seq(Int)
    BY RunType DEF TypeOK
  <2> QED
    BY <2>1, <2>2 DEF AnySegment
<1> QED
  BY <1>1 DEF Next, AnyNext

(***************************************************************************)
(* A segment of a sender that is true to the stream: under the number      *)
(* lastRecved it carries the bytes that come next.  What the reads return  *)
(* depends on no more than that.                                           *)
(***************************************************************************)
TrueSegment ==
  \E seqNum \in Pos, bytes \in Seq(Int) :
    /\ RArrive(seqNum, bytes)
    /\ seqNum = lastRecved => \A i \in 1 .. Len(bytes) : bytes[i] = accepted + i - 1

TrueNext == TrueSegment \/ RWork \/ BNext \/ SNext

LEMMA TrueIsAny == [TrueNext]_vars => [AnyNext]_vars
BY DEF TrueNext, AnyNext, TrueSegment, AnySegment

LEMMA PeerIsTrue == ASSUME TypeOK PROVE [Next]_vars => [TrueNext]_vars
<1>1. ASSUME PeerSends PROVE TrueSegment
  <2>1. PICK seqNum \in Pos, n \in 1 .. MSS :
               RArrive(seqNum, [i \in 1 .. n |-> accepted + i - 1])
    BY <1>1 DEF PeerSends
  <2> DEFINE bytes == [i \in 1 .. n |-> accepted + i - 1]
  <2>2. bytes \in Seq(Int) /\ Len(bytes) = n
    BY RunType DEF TypeOK
  <2>3. \A i \in 1 .. n : bytes[i] = accepted + i - 1
    OBVIOUS
  <2>4. RArrive(seqNum, bytes)
    BY <2>1
  <2> HIDE DEF bytes
  <2> QED
    BY <2>2, <2>3, <2>4 DEF TrueSegment
<1> QED
  BY <1>1 DEF Next, TrueNext

\* Either formula, whatever test chose it, gives modulo 2^16 the space between
\* the two indices it is given.
LEMMA WindowIsRoom ==
  ASSUME NEW ge \in BOOLEAN, NEW read \in Pos, NEW recved \in Pos
  PROVE  Window(ge, read, recved) = Room(read, recved) /\ Room(read, recved) \in Pos
<1> DEFINE by == N - 1 - DistBy(ge, read, recved)
<1>1. /\ Room(read, recved) \in Pos
      /\ by \in {Room(read, recved), Room(read, recved) - N, Room(read, recved) + N}
  BY RingSize DEF Room, Dist, DistBy, Pos
<1>2. Window(ge, read, recved) = by % N
  BY DEF Window
<1> HIDE DEF by
<1> QED
  BY <1>1, <1>2, RingSize DEF Pos

LEMMA AdvertisedIsRoom ==
  ASSUME TypeOK, NEW ge \in BOOLEAN PROVE Advertised(ge) = Room(lastRead, lastRecved)
BY WindowIsRoom DEF Advertised, TypeOK

LEMMA ZeroPos == 0 \in Pos
BY RingSize DEF Pos

LEMMA TypeNext == RInv /\ [AnyNext]_vars => TypeOK'
<1> SUFFICES ASSUME TypeOK, RoomSeen, [AnyNext]_vars PROVE TypeOK'
  BY DEF RInv
<1>0. AtOrAbove \in BOOLEAN
  BY TestType
<1> USE RingSize, RecvParams DEF TypeOK, indexVars, rVars, bVars, sVars
<1>1. CASE AnySegment
  <2>1. PICK seqNum \in Pos, bytes \in Seq(Int) : RArrive(seqNum, bytes)
    BY <1>1 DEF AnySegment
  <2>3. rge' \in BOOLEAN
    <3>1. rge' = AtOrAbove \/ rge' = rge
      BY <2>1, Zenon DEF RArrive
    <3> QED
      BY <1>0, <3>1
  <2> QED
    BY <2>1, <2>3 DEF RArrive
<1>2. CASE RSpace
  <2>1. canRecvLen' \in Int
    BY <1>2 DEF RSpace, RoomBy, DistBy, Pos
  <2> QED
    BY <1>2, <2>1 DEF RSpace
<1>3. CASE RWake
  <2>1. rge' \in BOOLEAN
    BY <1>0, <1>3, Zenon DEF RWake
  <2> QED
    BY <1>3, <2>1 DEF RWake
<1>4. CASE RCopy
  <2>1. ASSUME NEW p \in Pos
        PROVE  (IF Dist(lastRecved, p) < StoreLen THEN rdata[Dist(lastRecved, p) + 1]
                                                  ELSE recvBuff[p]) \in Int
    <3>1. Dist(lastRecved, p) \in Nat
      <4>1. Dist(lastRecved, p) \in Pos
        BY DistPos
      <4> QED
        BY <4>1 DEF Pos
    <3>2. Dist(lastRecved, p) < StoreLen => Dist(lastRecved, p) + 1 \in 1 .. Len(rdata)
      BY <3>1, StoreLenType, SMTT(30)
    <3> QED
      BY <3>2
  <2>2. recvBuff' \in [Pos -> Int]
    BY <1>4, <2>1 DEF RCopy
  <2> QED
    BY <1>4, <2>2 DEF RCopy
<1>5. CASE RAckTest
  <2>1. rge' \in BOOLEAN
    BY <1>0, <1>5, Zenon DEF RAckTest
  <2> QED
    BY <1>5, <2>1 DEF RAckTest
<1>6. CASE RAckSend
  BY <1>6 DEF RAckSend
<1>7. ASSUME NEW k \in ReadSizes, NEW m \in Modes, BCall(k, m) PROVE TypeOK'
  BY <1>7 DEF BCall
<1>8. CASE BByte
  <2>1. recvBuff[Temp] \in Int
    BY AddInRing DEF Temp
  <2>2. buf' \in Seq(Int)
    BY <1>8, <2>1 DEF BByte
  <2> QED
    BY <1>8, <2>2 DEF BByte
<1>9. CASE BPoll
  BY <1>9 DEF BPoll
<1>10. CASE BGiveUp
  <2>1. Return(Len(buf)) \/ Return(0)
    BY <1>10 DEF BGiveUp
  <2> QED
    BY <2>1, ReturnType
<1>11. CASE BReturn
  <2>1. Return(Len(buf)) /\ Len(buf) \in Nat
    BY <1>11 DEF BReturn
  <2> QED
    BY <2>1, ReturnType
<1>12. CASE STest
  <2>1. sge' \in BOOLEAN
    BY <1>0, <1>12, Zenon DEF STest
  <2> QED
    BY <1>12, <2>1 DEF STest
<1>13. CASE SFirst
  BY <1>13 DEF SFirst
<1>14. CASE SSecond
  <2>1. swin' = Window(TRUE, lastRead, sidx) \/ swin' = Window(FALSE, sidx, lastRecved)
    BY <1>14 DEF SSecond
  <2>2. ASSUME NEW read \in Pos, NEW recved \in Pos
        PROVE  Window(TRUE, read, recved) \in Pos /\ Window(FALSE, read, recved) \in Pos
    <3>1. Room(read, recved) \in Pos
      BY WindowIsRoom
    <3>2. Window(TRUE, read, recved) = Room(read, recved)
      BY WindowIsRoom
    <3>3. Window(FALSE, read, recved) = Room(read, recved)
      BY WindowIsRoom
    <3> QED
      BY <3>1, <3>2, <3>3
  <2>3. swin' \in Pos
    BY <2>1, <2>2
  <2>4. swin' \in Int
    BY <2>3 DEF Pos
  <2> QED
    BY <1>14, <2>4 DEF SSecond
<1>15. CASE SAdvertise
  <2>1. stored' \in BOOLEAN
    BY <1>15, Zenon DEF SAdvertise
  <2> QED
    BY <1>15, <2>1, ZeroPos DEF SAdvertise
<1>16. CASE UNCHANGED vars
  BY <1>16 DEF vars
<1>17. CASE RPublish
  <2>1. StoreLen \in Nat
    BY <1>17, StoreLenType DEF RPublish, RoomSeen
  <2>2. stored' \in BOOLEAN
    <3>1. stored' = (spc \in {"second", "send"})
      BY <1>17, Zenon DEF RPublish
    <3>2. (spc \in {"second", "send"}) \in BOOLEAN
      OBVIOUS
    <3> QED
      BY <3>1, <3>2, Zenon
  <2> QED
    BY <1>17, <2>1, <2>2, AddInRing DEF RPublish
<1>18. CASE BLastPoll
  BY <1>18 DEF BLastPoll
<1> QED
  BY <1>1, <1>2, <1>3, <1>4, <1>5, <1>6, <1>7, <1>8, <1>9, <1>10, <1>11, <1>12, <1>13,
     <1>14, <1>15, <1>16, <1>17, <1>18 DEF AnyNext, RWork, BNext, BWork, SNext

\* What the two indices and the lengths are.
LEMMA Lengths ==
  ASSUME RInv
  PROVE  /\ lastRead \in Pos /\ lastRecved \in Pos
         /\ Dist(lastRead, lastRecved) \in Nat /\ Dist(lastRead, lastRecved) < N
         /\ Room(lastRead, lastRecved) = N - 1 - Dist(lastRead, lastRecved)
         /\ Len(buf) \in Nat /\ Len(rdata) \in Nat /\ canRecvLen \in Int
         /\ Len(buf) <= Dist(lastRead, lastRecved)
<1>1. lastRead \in Pos /\ lastRecved \in Pos
  BY DEF RInv, TypeOK
<1>2. Dist(lastRead, lastRecved) \in Pos
  BY <1>1, DistPos
<1>3. Dist(lastRead, lastRecved) \in Nat /\ Dist(lastRead, lastRecved) < N
  BY <1>2, RingSize DEF Pos
<1>4. Len(buf) \in Nat /\ Len(rdata) \in Nat /\ canRecvLen \in Int
  BY DEF RInv, TypeOK
<1>5. Len(buf) <= Dist(lastRead, lastRecved)
  BY DEF RInv, ReadHeld
<1> QED
  BY <1>1, <1>3, <1>4, <1>5 DEF Room

\* What a read returns over is no more than there is.
LEMMA ReturnStep ==
  ASSUME RInv, NEW n \in 0 .. Len(buf), lastRead' = Add(lastRead, n), lastRecved' = lastRecved
  PROVE  /\ Dist(lastRead', lastRecved) = Dist(lastRead, lastRecved) - n
         /\ lastRead <= lastRecved => lastRead' <= lastRecved
         /\ n <= Dist(lastRead, lastRecved)
<1>1. /\ lastRead \in Pos /\ lastRecved \in Pos /\ n \in Nat
      /\ n <= Dist(lastRead, lastRecved)
  BY Lengths
<1>2. Dist(lastRead', lastRecved) = Dist(lastRead, lastRecved) - n
  BY <1>1, Advance
<1>3. ASSUME lastRead <= lastRecved PROVE lastRead' <= lastRecved
  <2>1. n <= lastRecved - lastRead
    BY <1>1, <1>3, RingSize DEF Dist, DistBy, Pos
  <2>2. n \in 0 .. N
    BY <1>1, <1>3, <2>1, RingSize DEF Pos
  <2> QED
    BY <1>1, <2>1, <2>2, AddCases, RingSize DEF Pos
<1> QED
  BY <1>1, <1>2, <1>3

\* A formula whose test came before a read returned gives too little, never
\* too much.
LEMMA RoomByBound ==
  ASSUME RInv, rpc = "space"
  PROVE  RoomBy(rge) <= Room(lastRead, lastRecved)
  BY RingSize DEF RInv, TypeOK, RoomSeen, RoomBy, Room, Dist, DistBy, Pos

\* The return of a read keeps what R and the read know.
LEMMA ReturnRInv ==
  ASSUME RInv, TypeOK', NEW n \in 0 .. Len(buf), Return(n)
  PROVE  RInv'
<1>1. /\ Dist(lastRead', lastRecved) = Dist(lastRead, lastRecved) - n
      /\ lastRead <= lastRecved => lastRead' <= lastRecved
      /\ n <= Dist(lastRead, lastRecved)
  BY ReturnStep DEF Return
<1>2. Dist(lastRead, lastRecved) \in Int /\ canRecvLen \in Int /\ n \in Nat
  BY RingSize DEF RInv, TypeOK, Dist, DistBy, Pos
<1>3. ReadHeld'
  BY <1>1, <1>2 DEF Return, ReadHeld
<1>4. RoomSeen'
  BY <1>1, <1>2, RingSize DEF Return, RInv, RoomSeen, Room, rVars
<1> QED
  BY <1>3, <1>4 DEF RInv

\* What a read has copied is there, and what R has computed fits, whatever
\* segments arrive.
LEMMA RInvAny == RInv /\ [AnyNext]_vars => RInv'
<1> SUFFICES ASSUME RInv, [AnyNext]_vars PROVE RInv'
  OBVIOUS
<1>0. TypeOK'
  BY TypeNext
<1> USE <1>0 DEF RInv
<1> USE DEF ReadHeld, RoomSeen, indexVars, rVars, bVars, sVars
<1>1. CASE AnySegment
  <2>1. PICK seqNum \in Pos, bytes \in Seq(Int) : RArrive(seqNum, bytes)
    BY <1>1 DEF AnySegment
  <2> QED
    BY <2>1 DEF RArrive, AtOrAbove, TypeOK, Pos
<1>2. CASE RSpace
  <2>1. RoomBy(rge) <= Room(lastRead, lastRecved)
    BY <1>2, RoomByBound DEF RSpace
  <2>2. RoomBy(rge) \in Int /\ Len(rdata) \in Nat
    BY RingSize DEF TypeOK, RoomBy, DistBy, Pos
  <2> QED
    BY <1>2, <2>1, <2>2 DEF RSpace
<1>3. CASE RWake
  BY <1>3 DEF RWake, AtOrAbove, TypeOK, Pos
<1>4. CASE RCopy
  BY <1>4 DEF RCopy
<1>5. CASE RAckTest
  BY <1>5 DEF RAckTest
<1>6. CASE RAckSend
  BY <1>6 DEF RAckSend
<1>7. ASSUME NEW k \in ReadSizes, NEW m \in Modes, BCall(k, m) PROVE RInv'
  <2>1. Len(<< >>) = 0 /\ Dist(lastRead, lastRecved) >= 0
    BY RingSize DEF TypeOK, Dist, DistBy, Pos
  <2> QED
    BY <1>7, <2>1 DEF BCall
<1>8. CASE BByte
  <2>1. /\ lastRead \in Pos /\ lastRecved \in Pos /\ Len(buf) \in Nat
        /\ Dist(lastRead, lastRecved) \in Nat
        /\ Len(buf) <= Dist(lastRead, lastRecved)
    BY Lengths
  <2>2. Len(buf) # Dist(lastRead, lastRecved)
    BY <1>8, <2>1, DistPos DEF BByte, Temp
  <2>3. Len(buf') = Len(buf) + 1 /\ bpc' # "idle"
    BY <1>8 DEF BByte, TypeOK
  <2> QED
    BY <1>8, <2>1, <2>2, <2>3 DEF BByte
<1>9. CASE BPoll
  BY <1>9 DEF BPoll
<1>10. CASE BGiveUp
  <2>1. Len(buf) \in Nat
    BY DEF TypeOK
  <2>2. Return(Len(buf)) \/ Return(0)
    BY <1>10 DEF BGiveUp
  <2> QED
    BY <2>1, <2>2, ReturnRInv
<1>11. CASE BReturn
  <2>1. Return(Len(buf)) /\ Len(buf) \in 0 .. Len(buf)
    BY <1>11 DEF BReturn, TypeOK
  <2> QED
    BY <2>1, ReturnRInv
<1>12. CASE SNext
  <2>1. UNCHANGED <<indexVars, rVars, bVars>>
    BY <1>12 DEF SNext, STest, SFirst, SSecond, SAdvertise
  <2> QED
    BY <2>1
<1>13. CASE BLastPoll
  BY <1>13 DEF BLastPoll
<1>14. CASE UNCHANGED vars
  BY <1>14 DEF vars
<1>15. CASE RPublish
  <2>1. StoreLen \in Nat /\ StoreLen <= Room(lastRead, lastRecved)
    <3>1. Len(rdata) <= canRecvLen /\ canRecvLen <= Room(lastRead, lastRecved)
      BY <1>15 DEF RPublish
    <3>2. StoreLen = Len(rdata) /\ Len(rdata) \in Nat /\ canRecvLen \in Int
      BY <3>1, StoreLenType, Lengths
    <3>3. Room(lastRead, lastRecved) \in Int
      BY Lengths, RingSize
    <3> QED
      BY <3>1, <3>2, <3>3
  <2>2. Dist(lastRead, lastRecved') = Dist(lastRead, lastRecved) + StoreLen
    BY <1>15, <2>1, Extend DEF RPublish, TypeOK
  <2>3. Len(buf) <= Dist(lastRead, lastRecved')
    BY <2>1, <2>2, Lengths
  <2> QED
    BY <1>15, <2>3 DEF RPublish
<1> QED
  BY <1>1, <1>2, <1>3, <1>4, <1>5, <1>6, <1>7, <1>8, <1>9, <1>10, <1>11, <1>12, <1>13,
     <1>14, <1>15 DEF AnyNext, RWork, BNext, BWork

LEMMA RInvNext == RInv /\ [Next]_vars => RInv'
BY PeerIsAny, RInvAny DEF RInv

\* A slot that is in use is far ahead of lastRecved: almost a lap.
LEMMA InUse ==
  ASSUME NEW a \in Pos, NEW b \in Pos, NEW k \in Pos, k < Dist(a, b)
  PROVE  Dist(b, Add(a, k)) = N - Dist(a, b) + k
<1>1. Add(a, k) = IF a + k < N THEN a + k ELSE a + k - N
  BY RingSize, AddCases DEF Pos
<1> QED
  BY <1>1, RingSize DEF Pos, Dist, DistBy

\* What is stored when R is about to copy.
LEMMA Stored ==
  ASSUME RInv, rpc \in {"copy", "publish"}
  PROVE  /\ StoreLen = Len(rdata) /\ StoreLen \in Nat
         /\ StoreLen <= Room(lastRead, lastRecved)
         /\ StoreLen + Dist(lastRead, lastRecved) < N
<1>1. Len(rdata) <= canRecvLen /\ canRecvLen <= Room(lastRead, lastRecved)
  BY DEF RInv, RoomSeen
<1>2. StoreLen = Len(rdata) /\ Len(rdata) \in Nat /\ canRecvLen \in Int
  BY <1>1, StoreLenType, Lengths DEF RInv
<1> QED
  BY <1>1, <1>2, Lengths, RingSize

\* RCopy writes the segment behind what is in use.
LEMMA CopyIInv == ASSUME IInv, RInv', RCopy PROVE IInv'
<1>1. /\ StoreLen = Len(rdata) /\ StoreLen \in Nat
      /\ StoreLen + Dist(lastRead, lastRecved) < N
  BY Stored DEF IInv, RCopy
<1>2. /\ lastRead \in Pos /\ lastRecved \in Pos /\ lastRead' = lastRead
      /\ lastRecved' = lastRecved /\ accepted' = accepted /\ rdata' = rdata
      /\ canRecvLen' = canRecvLen /\ rpc' = "publish" /\ rpc = "copy"
  BY Lengths DEF IInv, RCopy
<1>3. ASSUME NEW p \in Pos
      PROVE  recvBuff'[p] = IF Dist(lastRecved, p) < StoreLen
                              THEN rdata[Dist(lastRecved, p) + 1] ELSE recvBuff[p]
  BY DEF RCopy
<1>4. UnreadIntact'
  <2> SUFFICES ASSUME NEW k \in Pos, k < Dist(lastRead, lastRecved)
               PROVE  recvBuff'[Add(lastRead, k)]
                        = accepted - Dist(lastRead, lastRecved) + k
    BY <1>2 DEF UnreadIntact
  <2>1. Add(lastRead, k) \in Pos
    BY <1>2, AddPos
  <2>2. Dist(lastRecved, Add(lastRead, k)) = N - Dist(lastRead, lastRecved) + k
    BY <1>2, InUse
  <2>3. ~(Dist(lastRecved, Add(lastRead, k)) < StoreLen)
    BY <1>1, <2>2, Lengths, RingSize DEF IInv, Pos
  <2>4. recvBuff'[Add(lastRead, k)] = recvBuff[Add(lastRead, k)]
    BY <1>3, <2>1, <2>3
  <2> QED
    BY <2>4 DEF IInv, UnreadIntact
<1>5. SegmentNext'
  <2>1. \A i \in 1 .. Len(rdata) : rdata[i] = accepted + i - 1
    BY <1>2 DEF IInv, SegmentNext
  <2>2. ASSUME NEW k \in Pos, k < StoreLen
        PROVE  recvBuff'[Add(lastRecved, k)] = accepted + k
    <3>1. Add(lastRecved, k) \in Pos /\ Dist(lastRecved, Add(lastRecved, k)) = k
      BY <1>2, AddPos
    <3>2. recvBuff'[Add(lastRecved, k)] = rdata[k + 1]
      BY <1>3, <2>2, <3>1
    <3>3. k + 1 \in 1 .. Len(rdata) /\ accepted \in Nat /\ k \in Nat
      BY <1>1, <2>2 DEF Pos, IInv, RInv, TypeOK
    <3> QED
      BY <2>1, <3>2, <3>3
  <2>3. StoreLen' = StoreLen
    BY <1>2 DEF StoreLen
  <2> QED
    BY <1>2, <2>1, <2>2, <2>3 DEF SegmentNext
<1> QED
  BY <1>4, <1>5 DEF IInv

\* RPublish adds the stored segment to what is in use.
LEMMA PublishIInv == ASSUME IInv, RInv', RPublish PROVE IInv'
<1> DEFINE D == Dist(lastRead, lastRecved)
<1>1. /\ StoreLen \in Nat /\ StoreLen <= Room(lastRead, lastRecved)
      /\ StoreLen + D < N /\ D \in Nat
  BY Stored, Lengths DEF IInv, RPublish
<1>2. /\ lastRead \in Pos /\ lastRecved \in Pos /\ lastRead' = lastRead
      /\ accepted \in Nat /\ accepted' = accepted + StoreLen
      /\ recvBuff' = recvBuff /\ rpc' = "ack" /\ rpc = "publish"
  BY Lengths DEF IInv, RInv, TypeOK, RPublish
<1>3. Dist(lastRead', lastRecved') = D + StoreLen
  BY <1>1, <1>2, Extend DEF RPublish
<1> HIDE DEF D
<1>4. ASSUME NEW k \in Pos, k < D + StoreLen
      PROVE  recvBuff[Add(lastRead, k)] = accepted - D + k
  <2>1. CASE k < D
    BY <2>1 DEF IInv, UnreadIntact, D
  <2>2. CASE k >= D
    <3>1. k - D \in Pos /\ k - D < StoreLen /\ D \in Pos /\ D + (k - D) < N /\ D + (k - D) = k
      BY <1>1, <1>4, <2>2, RingSize DEF Pos
    <3>2. Add(lastRead, D) = lastRecved
      BY <1>2, DistPos DEF D
    <3>3. Add(lastRead, k) = Add(lastRecved, k - D)
      BY <1>2, <3>1, <3>2, AddAdd
    <3>4. recvBuff[Add(lastRecved, k - D)] = accepted + (k - D)
      BY <1>2, <3>1 DEF IInv, SegmentNext
    <3> QED
      BY <1>1, <1>2, <3>3, <3>4 DEF Pos
  <2> QED
    BY <1>1, <2>1, <2>2 DEF Pos
<1>5. UnreadIntact'
  BY <1>1, <1>2, <1>3, <1>4 DEF UnreadIntact, Pos
<1>6. SegmentNext'
  BY <1>2 DEF SegmentNext
<1> QED
  BY <1>5, <1>6 DEF IInv

\* Return takes the first bytes of what is in use away.
LEMMA ReturnIInv ==
  ASSUME IInv, RInv', NEW n \in 0 .. Len(buf), Return(n) PROVE IInv'
<1> DEFINE D == Dist(lastRead, lastRecved)
<1>1. n \in Nat /\ n <= D /\ D \in Nat /\ D < N
  BY ReturnStep, Lengths DEF Return, IInv
<1>2. /\ lastRead \in Pos /\ lastRecved \in Pos /\ lastRecved' = lastRecved
      /\ lastRead' = Add(lastRead, n) /\ accepted' = accepted /\ recvBuff' = recvBuff
      /\ accepted \in Nat
  BY Lengths DEF IInv, RInv, TypeOK, Return
<1>3. Dist(lastRead', lastRecved') = D - n
  BY <1>2, ReturnStep DEF Return, IInv
<1> HIDE DEF D
<1>4. ASSUME NEW k \in Pos, k < D - n
      PROVE  recvBuff[Add(Add(lastRead, n), k)] = accepted - (D - n) + k
  <2>1. n \in Pos /\ n + k \in Pos /\ n + k < N /\ n + k < D
    BY <1>1, <1>4, RingSize DEF Pos
  <2>2. Add(Add(lastRead, n), k) = Add(lastRead, n + k)
    BY <1>2, <2>1, AddAdd
  <2>3. recvBuff[Add(lastRead, n + k)] = accepted - D + (n + k)
    BY <2>1 DEF IInv, UnreadIntact, D
  <2> QED
    BY <1>1, <1>2, <2>2, <2>3 DEF Pos
<1>5. UnreadIntact'
  BY <1>2, <1>3, <1>4 DEF UnreadIntact
<1>6. SegmentNext'
  BY <1>2 DEF IInv, SegmentNext, Return, rVars, StoreLen
<1> QED
  BY <1>5, <1>6 DEF IInv

LEMMA IInvTrue == IInv /\ [TrueNext]_vars => IInv'
<1> SUFFICES ASSUME IInv, [TrueNext]_vars PROVE IInv'
  OBVIOUS
<1>0. RInv'
  BY TrueIsAny, RInvAny DEF IInv
<1> USE <1>0
<1> USE DEF UnreadIntact, SegmentNext, indexVars, rVars, bVars, sVars
<1>1. CASE TrueSegment
  <2>1. PICK seqNum \in Pos, bytes \in Seq(Int) :
          /\ RArrive(seqNum, bytes)
          /\ seqNum = lastRecved => \A i \in 1 .. Len(bytes) : bytes[i] = accepted + i - 1
    BY <1>1 DEF TrueSegment
  <2>2. UNCHANGED <<indexVars, accepted>>
    BY <2>1 DEF RArrive
  <2>3. rpc' = "space" => \A i \in 1 .. Len(rdata') : rdata'[i] = accepted + i - 1
    BY <2>1 DEF RArrive
  <2>4. rpc' \in {"space", "recv"}
    BY <2>1 DEF RArrive
  <2> QED
    BY <2>2, <2>3, <2>4 DEF IInv
<1>2. CASE RSpace
  BY <1>2 DEF RSpace, IInv
<1>3. CASE RWake
  BY <1>3 DEF RWake, IInv
<1>4. CASE RCopy
  BY <1>4, CopyIInv
<1>5. CASE RAckTest
  BY <1>5 DEF RAckTest, IInv
<1>6. CASE RAckSend
  BY <1>6 DEF RAckSend, IInv
<1>7. ASSUME NEW k \in ReadSizes, NEW m \in Modes, BCall(k, m) PROVE IInv'
  BY <1>7 DEF BCall, IInv, StoreLen
<1>8. CASE BByte
  BY <1>8 DEF BByte, IInv, StoreLen
<1>9. CASE BPoll
  BY <1>9 DEF BPoll, IInv, StoreLen
<1>10. CASE BGiveUp
  <2>1. Len(buf) \in Nat
    BY DEF IInv, RInv, TypeOK
  <2>2. Return(Len(buf)) \/ Return(0)
    BY <1>10 DEF BGiveUp
  <2> QED
    BY <2>1, <2>2, ReturnIInv
<1>11. CASE BReturn
  <2>1. Return(Len(buf)) /\ Len(buf) \in 0 .. Len(buf)
    BY <1>11 DEF BReturn, IInv, RInv, TypeOK
  <2> QED
    BY <2>1, ReturnIInv
<1>12. CASE SNext
  BY <1>12 DEF SNext, STest, SFirst, SSecond, SAdvertise, IInv, StoreLen
<1>13. CASE BLastPoll
  BY <1>13 DEF BLastPoll, IInv, StoreLen
<1>14. CASE UNCHANGED vars
  BY <1>14 DEF vars, IInv, StoreLen
<1>15. CASE RPublish
  BY <1>15, PublishIInv
<1> QED
  BY <1>1, <1>2, <1>3, <1>4, <1>5, <1>6, <1>7, <1>8, <1>9, <1>10, <1>11, <1>12, <1>13,
     <1>14, <1>15 DEF TrueNext, RWork, BNext, BWork

LEMMA IInvNext == IInv /\ [Next]_vars => IInv'
BY IInvTrue, PeerIsTrue DEF IInv, RInv

\* The invariant, from which the theorems follow.
LEMMA Invariance == Spec => []IInv
  BY InitIInv, IInvNext, PTL DEF Spec

(***************************************************************************)
(* The two indices stay inside the buffer, and the lengths computed from   *)
(* them are what their types say.                                          *)
(***************************************************************************)
THEOREM TypeCorrect == Spec => []TypeOK
<1>1. IInv => TypeOK
  BY DEF IInv, RInv
<1> QED
  BY <1>1, Invariance, PTL

(***************************************************************************)
(* R never overwrites a byte that has not been released by the read it     *)
(* belongs to, although it copies outside of any lock.                     *)
(***************************************************************************)
THEOREM UnreadIntactCorrect == Spec => []UnreadIntact
<1>1. IInv => UnreadIntact
  BY DEF IInv
<1> QED
  BY <1>1, Invariance, PTL

-----------------------------------------------------------------------------
(* The window S puts into a header                                         *)

\* What S has loaded, as long as R has stored nothing since: the reader may
\* have moved lastRead on, which only makes the window too small.
WindowSeen ==
  /\ spc = "second" /\ ~stored /\ sge => sidx = lastRecved
  /\ spc = "second" /\ ~stored /\ ~sge =>
       Dist(lastRead, lastRecved) <= Dist(sidx, lastRecved)
  /\ spc = "send" /\ ~stored => swin <= Room(lastRead, lastRecved)

LEMMA WindowSeenNext == RInv /\ WindowSeen /\ [AnyNext]_vars => WindowSeen'
<1> SUFFICES ASSUME RInv, WindowSeen, [AnyNext]_vars PROVE WindowSeen'
  OBVIOUS
<1>0. /\ lastRead \in Pos /\ lastRecved \in Pos /\ sidx \in Pos /\ sge \in BOOLEAN
      /\ swin \in Int /\ N \in Nat
  BY RingSize DEF RInv, TypeOK
<1>1. ASSUME UNCHANGED <<lastRead, lastRecved, sVars>> PROVE WindowSeen'
  BY <1>1 DEF WindowSeen, sVars
<1>2. ASSUME NEW n \in 0 .. Len(buf), Return(n) PROVE WindowSeen'
  <2>1. UNCHANGED <<lastRecved, sVars>> /\ lastRead' \in Pos
    BY <1>0, <1>2, AddInRing DEF Return, RInv, TypeOK
  <2>2. Dist(lastRead', lastRecved) <= Dist(lastRead, lastRecved)
    BY <1>2, ReturnStep, Lengths DEF Return
  <2>3. Room(lastRead, lastRecved) <= Room(lastRead', lastRecved)
    BY <1>0, <2>1, <2>2, DistPos DEF Room, Pos
  <2>4. /\ Dist(lastRead', lastRecved) \in Int /\ Dist(lastRead, lastRecved) \in Int
        /\ Dist(sidx, lastRecved) \in Int
    <3>1. /\ Dist(lastRead', lastRecved) \in Pos /\ Dist(lastRead, lastRecved) \in Pos
          /\ Dist(sidx, lastRecved) \in Pos
      BY <1>0, <2>1, DistPos
    <3> QED
      BY <1>0, <3>1 DEF Pos
  <2>5. Room(lastRead, lastRecved) \in Int /\ Room(lastRead', lastRecved) \in Int
    BY <1>0, <2>4 DEF Room
  <2> QED
    BY <1>0, <2>1, <2>2, <2>3, <2>4, <2>5 DEF WindowSeen, sVars
<1>3. CASE AnySegment
  BY <1>1, <1>3 DEF AnySegment, RArrive, indexVars
<1>4. CASE RSpace \/ RWake \/ RCopy \/ RAckTest \/ RAckSend
  BY <1>1, <1>4 DEF RSpace, RWake, RCopy, RAckTest, RAckSend, indexVars
<1>5. CASE RPublish
  <2>1. spc' \in {"second", "send"} => stored'
    <3>1. stored' = (spc \in {"second", "send"}) /\ spc' = spc
      BY <1>5, Zenon DEF RPublish
    <3> QED
      BY <3>1, Zenon
  <2> QED
    BY <2>1, Zenon DEF WindowSeen
<1>6. CASE \E k \in ReadSizes, m \in Modes : BCall(k, m)
  BY <1>1, <1>6 DEF BCall, indexVars
<1>7. CASE BByte \/ BPoll \/ BLastPoll
  BY <1>1, <1>7 DEF BByte, BPoll, BLastPoll, indexVars
<1>8. CASE BGiveUp \/ BReturn
  <2>1. Len(buf) \in Nat
    BY DEF RInv, TypeOK
  <2>2. Return(Len(buf)) \/ Return(0)
    BY <1>8 DEF BGiveUp, BReturn
  <2> QED
    BY <1>2, <2>1, <2>2
<1>9. CASE STest
  BY <1>9 DEF STest, WindowSeen
<1>10. CASE SFirst
  <2>1. Dist(lastRead, lastRecved) \in Int
    BY <1>0, DistPos DEF Pos
  <2> QED
    BY <1>10, <2>1 DEF SFirst, indexVars, WindowSeen
<1>11. CASE SSecond
  <2>1. UNCHANGED <<lastRead, lastRecved, stored>> /\ spc' = "send" /\ spc = "second"
    BY <1>11 DEF SSecond, indexVars
  <2>2. Dist(lastRead, lastRecved) \in Int /\ Dist(sidx, lastRecved) \in Int
    <3>1. Dist(lastRead, lastRecved) \in Pos /\ Dist(sidx, lastRecved) \in Pos
      BY <1>0, DistPos
    <3> QED
      BY <1>0, <3>1 DEF Pos
  <2>3. ASSUME ~stored PROVE swin' <= Room(lastRead, lastRecved)
    <3>1. CASE sge
      <4>1. swin' = Window(TRUE, lastRead, sidx) /\ sidx = lastRecved
        BY <1>11, <2>1, <2>3, <3>1 DEF SSecond, WindowSeen
      <4>2. swin' = Room(lastRead, lastRecved)
        BY <1>0, <4>1, WindowIsRoom
      <4>3. Room(lastRead, lastRecved) \in Int
        BY <1>0, <2>2 DEF Room
      <4> QED
        BY <4>2, <4>3
    <3>2. CASE ~sge
      <4>1. /\ swin' = Window(FALSE, sidx, lastRecved)
            /\ Dist(lastRead, lastRecved) <= Dist(sidx, lastRecved)
        BY <1>11, <2>1, <2>3, <3>2 DEF SSecond, WindowSeen
      <4>2. swin' = N - 1 - Dist(sidx, lastRecved)
        BY <1>0, <4>1, WindowIsRoom DEF Room
      <4>3. Dist(lastRead, lastRecved) <= Dist(sidx, lastRecved)
        BY <4>1
      <4> QED
        BY <1>0, <2>2, <4>2, <4>3 DEF Room
    <3> QED
      BY <3>1, <3>2
  <2> QED
    BY <2>1, <2>3 DEF WindowSeen
<1>12. CASE SAdvertise
  BY <1>12 DEF SAdvertise, WindowSeen
<1>13. CASE UNCHANGED vars
  BY <1>1, <1>13 DEF vars, indexVars
<1> QED
  BY <1>3, <1>4, <1>5, <1>6, <1>7, <1>8, <1>9, <1>10, <1>11, <1>12, <1>13
  DEF AnyNext, RWork, BNext, BWork, SNext

(***************************************************************************)
(* No segment and no acknowledgment promises more than the free space,     *)
(* unless R has stored bytes since S loaded the first of the two indices:  *)
(* for every interleaving of S's test and its two loads with the reader,   *)
(* and of R's own test and formula.                                        *)
(***************************************************************************)
THEOREM WindowHonestCorrect == Spec => []WindowHonest
<1>1. Init => WindowSeen
  BY DEF Init, WindowSeen
<1>2. IInv /\ WindowSeen /\ [Next]_vars => WindowSeen'
  BY WindowSeenNext, PeerIsAny DEF IInv, RInv
<1>3. IInv /\ WindowSeen => WindowHonest
  BY AdvertisedIsRoom DEF IInv, RInv, TypeOK, WindowHonest, WindowSeen
<1> QED
  BY <1>1, <1>2, <1>3, Invariance, PTL DEF Spec

-----------------------------------------------------------------------------
(* The reads implement the stream                                          *)

\* What a read has copied, and what the reads have returned.
ReadsRun ==
  /\ mode \in {"all", "sep"}
  /\ Len(got) = accepted - Dist(lastRead, lastRecved)
  /\ \A i \in 1 .. Len(buf) : buf[i] = Len(got) + i - 1
  /\ bpc = "stop" => mode = "all"

SInv == IInv /\ ReadsRun

\* The bytes of a read in progress are a run of the stream.
LEMMA BufIsRun ==
  ASSUME SInv PROVE buf = Stream!Run(Len(got), Len(buf))
<1>1. buf \in Seq(Int) /\ got \in Seq(Int) /\ Len(buf) \in Nat /\ Len(got) \in Nat
  BY DEF SInv, IInv, RInv, TypeOK
<1>2. buf = [i \in 1 .. Len(buf) |-> buf[i]]
  BY <1>1
<1>3. [i \in 1 .. Len(buf) |-> buf[i]] = [i \in 1 .. Len(buf) |-> Len(got) + i - 1]
  BY DEF SInv, ReadsRun
<1> QED
  BY <1>2, <1>3 DEF Stream!Run

\* A return that moves lastRead over what it returns is a Read of the stream,
\* or returns nothing.
LEMMA ReturnReads ==
  ASSUME SInv, IInv', Return(Len(buf))
  PROVE  ReadsRun' /\ [Stream!Next]_<<accepted, got>>
<1> DEFINE D == Dist(lastRead, lastRecved)
<1>1. /\ buf \in Seq(Int) /\ got \in Seq(Int) /\ Len(buf) \in Nat /\ Len(got) \in Nat
      /\ accepted \in Nat /\ D \in Nat /\ Len(buf) <= D
  BY Lengths, SMTT(30) DEF SInv, IInv, RInv, TypeOK
<1>2. /\ got' = got \o buf /\ buf' = << >> /\ mode' = mode /\ accepted' = accepted
      /\ bpc' = "idle" /\ lastRecved' = lastRecved
  BY DEF Return
<1>3. Dist(lastRead', lastRecved) = D - Len(buf)
  <2>1. Len(buf) \in 0 .. Len(buf)
    BY <1>1
  <2> QED
    BY <2>1, ReturnStep DEF Return, SInv, IInv
<1>4. Len(got) = accepted - D /\ mode \in {"all", "sep"}
  BY DEF SInv, ReadsRun
<1> HIDE DEF D
<1>5. Len(got') = Len(got) + Len(buf) /\ Len(buf') = 0
  BY <1>1, <1>2
<1>6. ReadsRun'
  BY <1>1, <1>2, <1>3, <1>4, <1>5 DEF ReadsRun
<1>7. CASE Len(buf) = 0
  <2>1. got' = got
    BY <1>1, <1>2, <1>7, EmptySeq, ConcatEmptySeq
  <2> QED
    BY <1>2, <1>6, <2>1
<1>8. CASE Len(buf) > 0
  <2>1. Len(buf) \in 1 .. accepted - Len(got)
    BY <1>1, <1>4, <1>8
  <2>2. got' = got \o Stream!Run(Len(got), Len(buf))
    BY <1>2, BufIsRun
  <2>3. Stream!Read
    BY <1>2, <2>1, <2>2 DEF Stream!Read
  <2> QED
    BY <1>6, <2>3 DEF Stream!Next
<1> QED
  BY <1>1, <1>7, <1>8

LEMMA ReadsInit == Init => SInv
<1> SUFFICES ASSUME Init PROVE SInv
  OBVIOUS
<1>1. IInv
  BY InitIInv
<1>2. Dist(0, 0) = 0 /\ Len(<< >>) = 0
  BY RingSize DEF Dist, DistBy
<1>3. ReadsRun
  BY <1>2 DEF Init, ReadsRun
<1> QED
  BY <1>1, <1>3 DEF SInv

\* One more byte is copied: the next one of the run.
LEMMA ByteReads == ASSUME SInv, BByte PROVE ReadsRun'
<1> DEFINE D == Dist(lastRead, lastRecved)
           b == recvBuff[Temp]
<1>1. /\ buf \in Seq(Int) /\ got \in Seq(Int) /\ Len(buf) \in Nat /\ Len(got) \in Nat
      /\ accepted \in Nat /\ D \in Nat /\ Len(buf) <= D /\ D < N
      /\ lastRead \in Pos /\ lastRecved \in Pos /\ recvBuff \in [Pos -> Int]
  BY Lengths DEF SInv, IInv, RInv, TypeOK
<1>2. Len(buf) # D /\ Temp \in Pos
  BY <1>1, DistPos, AddInRing DEF BByte, Temp
<1>3. Len(buf) \in Pos
  BY <1>1, RingSize DEF Pos
<1>4. b = accepted - D + Len(buf)
  BY <1>1, <1>2, <1>3 DEF SInv, IInv, UnreadIntact, Temp
<1>5. /\ buf' = Append(buf, b) /\ UNCHANGED <<indexVars, mode, accepted, got>>
      /\ bpc' # "stop"
  BY DEF BByte
<1>6. Len(got) = accepted - D /\ mode \in {"all", "sep"} /\ b \in Int
  BY <1>1, <1>2 DEF SInv, ReadsRun
<1>7. \A i \in 1 .. Len(buf) : buf[i] = Len(got) + i - 1
  BY DEF SInv, ReadsRun
<1> HIDE DEF D, b
<1>8. /\ Len(buf') = Len(buf) + 1
      /\ \A i \in 1 .. Len(buf) : buf'[i] = buf[i]
      /\ buf'[Len(buf) + 1] = b
  BY <1>1, <1>5, <1>6
<1>9. \A i \in 1 .. Len(buf') : buf'[i] = Len(got) + i - 1
  <2> SUFFICES ASSUME NEW i \in 1 .. Len(buf) + 1 PROVE buf'[i] = Len(got) + i - 1
    BY <1>8
  <2>1. CASE i \in 1 .. Len(buf)
    BY <1>7, <1>8, <2>1
  <2>2. CASE i = Len(buf) + 1
    BY <1>1, <1>4, <1>6, <1>8, <2>2
  <2> QED
    BY <1>1, <2>1, <2>2, SMTT(30)
<1> QED
  BY <1>5, <1>6, <1>9 DEF ReadsRun, D, indexVars

LEMMA StreamTrue ==
  ASSUME Modes \subseteq {"all", "sep"}
  PROVE  SInv /\ [TrueNext]_vars => SInv' /\ [Stream!Next]_<<accepted, got>>
<1> SUFFICES ASSUME SInv, [TrueNext]_vars
             PROVE  ReadsRun' /\ [Stream!Next]_<<accepted, got>>
  BY IInvTrue DEF SInv
<1>0. IInv' /\ IInv
  BY IInvTrue DEF SInv
<1>1. ASSUME UNCHANGED <<lastRead, lastRecved, bpc, mode, buf, accepted, got>>
      PROVE  ReadsRun' /\ [Stream!Next]_<<accepted, got>>
  BY <1>1 DEF SInv, ReadsRun
<1>2. CASE TrueSegment
  BY <1>1, <1>2 DEF TrueSegment, RArrive, indexVars, bVars
<1>3. CASE RSpace
  BY <1>1, <1>3 DEF RSpace, indexVars, bVars
<1>4. CASE RWake
  BY <1>1, <1>4 DEF RWake, indexVars, bVars
<1>5. CASE RCopy
  BY <1>1, <1>5 DEF RCopy, bVars
<1>6. CASE RPublish
  <2>1. /\ StoreLen \in Nat /\ StoreLen <= Room(lastRead, lastRecved)
        /\ accepted \in Nat /\ Len(got) \in Int
    BY <1>0, <1>6, Stored DEF RPublish, IInv, RInv, TypeOK
  <2>2. Dist(lastRead, lastRecved') = Dist(lastRead, lastRecved) + StoreLen
    BY <1>0, <1>6, <2>1, Extend DEF RPublish, IInv, RInv, TypeOK
  <2>3. /\ accepted' = accepted + StoreLen /\ UNCHANGED <<lastRead, bpc, mode, buf, got>>
    BY <1>6 DEF RPublish, bVars
  <2>4. Dist(lastRead, lastRecved) \in Nat
    BY <1>0, Lengths DEF IInv
  <2>5. ReadsRun'
    <3>1. Len(got) = accepted - Dist(lastRead, lastRecved)
      BY DEF SInv, ReadsRun
    <3>2. Len(got') = accepted' - Dist(lastRead', lastRecved')
      BY <2>1, <2>2, <2>3, <2>4, <3>1
    <3> QED
      BY <2>3, <3>2 DEF SInv, ReadsRun
  <2>6. accepted' = accepted \/ Stream!Write
    BY <2>1, <2>3 DEF Stream!Write
  <2> QED
    BY <2>3, <2>5, <2>6 DEF Stream!Next
<1>7. CASE RAckTest
  BY <1>1, <1>7 DEF RAckTest, indexVars, bVars
<1>8. CASE RAckSend
  BY <1>1, <1>8 DEF RAckSend, indexVars, bVars
<1>9. ASSUME NEW k \in ReadSizes, NEW m \in Modes, BCall(k, m)
      PROVE  ReadsRun' /\ [Stream!Next]_<<accepted, got>>
  BY <1>9 DEF BCall, SInv, ReadsRun, indexVars
<1>10. CASE BByte
  BY <1>10, ByteReads DEF BByte
<1>11. CASE BPoll
  BY <1>1, <1>11 DEF BPoll, indexVars
<1>12. CASE BGiveUp
  <2>1. mode = "all"
    BY <1>12 DEF BGiveUp, SInv, ReadsRun
  <2> QED
    BY <1>0, <1>12, <2>1, ReturnReads DEF BGiveUp
<1>13. CASE BReturn
  BY <1>0, <1>13, ReturnReads DEF BReturn
<1>14. CASE SNext
  BY <1>1, <1>14 DEF SNext, STest, SFirst, SSecond, SAdvertise, indexVars, bVars
<1>15. CASE BLastPoll
  BY <1>15 DEF BLastPoll, SInv, ReadsRun, indexVars
<1>16. CASE UNCHANGED vars
  BY <1>1, <1>16 DEF vars, indexVars, bVars
<1> QED
  BY <1>2, <1>3, <1>4, <1>5, <1>6, <1>7, <1>8, <1>9, <1>10, <1>11, <1>12, <1>13, <1>14,
     <1>15, <1>16 DEF TrueNext, RWork, BNext, BWork

LEMMA ReadsNext ==
  ASSUME Modes \subseteq {"all", "sep"}, SInv, [TrueNext]_vars PROVE SInv'
BY StreamTrue

\* What a step does to the bytes returned: it adds the next ones that have
\* been accepted, or leaves them alone.
LEMMA GotGrows ==
  ASSUME Modes \subseteq {"all", "sep"}, SInv, [TrueNext]_vars
  PROVE  \/ got' = got
         \/ \E n \in 1 .. accepted - Len(got) :
              got' = got \o [i \in 1 .. n |-> Len(got) + i - 1]
<1>1. [Stream!Next]_<<accepted, got>>
  BY StreamTrue
<1>2. CASE Stream!Read
  BY <1>2 DEF Stream!Read, Stream!Run
<1> QED
  BY <1>1, <1>2 DEF Stream!Next, Stream!Write

LEMMA StreamNext ==
  ASSUME Modes \subseteq {"all", "sep"}
  PROVE  SInv /\ [Next]_vars => SInv' /\ [Stream!Next]_<<accepted, got>>
BY StreamTrue, PeerIsTrue DEF SInv, IInv, RInv

(***************************************************************************)
(* An application that only uses recvFromResf, and recvFromResfBySep with  *)
(* isTimeout set, reads a byte stream: in order, each byte once, whatever  *)
(* the lengths it asks for and however often it gives up.                  *)
(***************************************************************************)
THEOREM ReadsStreamCorrect ==
  ASSUME Modes \subseteq {"all", "sep"} PROVE Spec => ReadsStream
<1>1. Init => SInv /\ Stream!Init
  BY ReadsInit DEF Init, Stream!Init
<1>2. SInv /\ [Next]_vars => SInv' /\ [Stream!Next]_(Stream!vars)
  BY StreamNext DEF Stream!vars
<1> QED
  BY <1>1, <1>2, PTL DEF Spec, ReadsStream, Stream!Spec
=============================================================================
