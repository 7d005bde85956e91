----------------------------- MODULE RecvBuffer -----------------------------
(***************************************************************************)
(* The receive half of one Resf endpoint (resf.c) and the threads that     *)
(* share it:                                                               *)
(*                                                                         *)
(*   R  the receive thread (startRecv), which stores in-order data, waits  *)
(*      for space when there is none, and acknowledges,                    *)
(*   B  the application inside recvFromResf or recvFromResfBySep,          *)
(*   S  the send thread, which only reads the two indices here, for the    *)
(*      window it advertises with each segment it sends or sends again.    *)
(*                                                                         *)
(* No lock protects lastRecved and lastRead; newRecvSpaceMutex covers only *)
(* the signal.  R waits with a time limit and looks again, so it may wake  *)
(* at any time and the signal itself is not modelled.  As in SendBuffer,   *)
(* the test "lastRecved >= lastRead" and the formula that follows it load  *)
(* the fields separately, and S, which owns neither index, loads the two   *)
(* of the formula one after the other, from left to right.  (R owns        *)
(* lastRecved and loads lastRead once: its formula is one step.)           *)
(***************************************************************************)
EXTENDS Ring, Sequences

CONSTANTS MSS,          \* MAX_SEG_SIZE, 1440
          ReadSizes,    \* recvLen arguments the application uses
          Modes,        \* which of the calls below it uses
          Seps,         \* stream positions that hold the separator
          MaxBytes,     \* model bound: bytes accepted in all
          MaxTimeNums   \* polls before a read gives up, 20

\* recvFromResf; recvFromResfBySep with isTimeout set, where it never gives
\* up; and recvFromResfBySep with isTimeout 0, where it does.
AllModes == {"all", "sep", "sepTimeout"}

ASSUME RecvParams ==
  /\ MSS \in 1 .. N - 1
  /\ ReadSizes \subseteq Nat \ {0}
  /\ Modes \subseteq AllModes
  /\ Seps \subseteq Nat
  /\ MaxBytes \in Nat
  /\ MaxTimeNums \in Nat

VARIABLES
  lastRead, lastRecved,               \* the Resf fields of these names
  recvBuff,                           \* Resf.recvBuff
  rpc, rge, rdata, canRecvLen,        \* R: test outcome, seg.data, room found
  bpc, mode, recvLen, buf, timeNum,   \* B: the call and what it has copied
  spc, sge, sidx, swin,               \* S: test outcome, first index, seg.rwnd
  stored,                             \* history: R has stored bytes since S
                                      \* loaded that index
  accepted,                           \* history: bytes taken into recvBuff
  got                                 \* history: bytes returned by B's calls

indexVars == <<lastRead, lastRecved, recvBuff>>
rVars == <<rpc, rge, rdata, canRecvLen>>
bVars == <<bpc, mode, recvLen, buf, timeNum>>
sVars == <<spc, sge, sidx, swin, stored>>
vars  == <<indexVars, rVars, bVars, sVars, accepted, got>>

Junk == -1   \* what an unwritten slot of the uninitialised buffer holds

Init ==
  /\ lastRead = 0 /\ lastRecved = 0
  /\ recvBuff = [p \in Pos |-> Junk]
  /\ rpc = "recv" /\ rge = TRUE /\ rdata = << >> /\ canRecvLen = 0
  /\ bpc = "idle" /\ mode = "all" /\ recvLen = 0 /\ buf = << >> /\ timeNum = 0
  /\ spc = "rest" /\ sge = TRUE /\ sidx = 0 /\ swin = 0 /\ stored = FALSE
  /\ accepted = 0 /\ got = << >>

AtOrAbove == lastRecved >= lastRead

\* Mutated form of RoomBy: the slot that tells full from empty is given away.
RoomByFull(ge) == N - DistBy(ge, lastRead, lastRecved)

\* Mutated form of RoomBy: two slots are kept empty.
RoomByTwo(ge) == N - 2 - DistBy(ge, lastRead, lastRecved)

\* The free space, by the formula of the branch taken, indices loaded again.
RoomBy(ge) == N - 1 - DistBy(ge, lastRead, lastRecved)

\* Mutated form of Window: a header field wide enough for any int.
WindowWide(ge, read, recved) == N - 1 - DistBy(ge, read, recved)

\* The window put into a segment.  Its field has 16 bits and the buffer 2^16
\* slots, so that what does not fit is reduced modulo N.
Window(ge, read, recved) == (N - 1 - DistBy(ge, read, recved)) % N

Advertised(ge) == Window(ge, lastRead, lastRecved)

-----------------------------------------------------------------------------
(* R: startRecv                                                            *)

\* A segment with data arrives: only the one that continues the stream counts.
RArrive(seqNum, data) ==
  /\ rpc = "recv"
  /\ IF seqNum = lastRecved
       THEN rpc' = "space" /\ rge' = AtOrAbove /\ rdata' = data
       ELSE UNCHANGED <<rpc, rge, rdata>>
  /\ UNCHANGED <<indexVars, canRecvLen, bVars, sVars, accepted, got>>

\* Mutated form of RSpace: the segment is copied without a look at the space.
RSpaceUnchecked ==
  /\ rpc = "space"
  /\ canRecvLen' = Len(rdata)
  /\ rpc' = "copy"
  /\ UNCHANGED <<indexVars, rge, rdata, bVars, sVars, accepted, got>>

\* Wait for space, or go on when there is enough.
RSpace ==
  /\ rpc = "space"
  /\ canRecvLen' = RoomBy(rge)
  /\ rpc' = IF canRecvLen' < Len(rdata) THEN "wait" ELSE "copy"
  /\ UNCHANGED <<indexVars, rge, rdata, bVars, sVars, accepted, got>>

\* pthread_cond_timedwait returns: look again.
RWake ==
  /\ rpc = "wait"
  /\ rpc' = "space"
  /\ rge' = AtOrAbove
  /\ UNCHANGED <<indexVars, rdata, canRecvLen, bVars, sVars, accepted, got>>

StoreLen == SmallerOf(Len(rdata), canRecvLen)

RCopy ==
  /\ rpc = "copy"
  /\ recvBuff' = [p \in Pos |-> LET i == Dist(lastRecved, p) IN
                    IF i < StoreLen THEN rdata[i + 1] ELSE recvBuff[p]]
  /\ rpc' = "publish"
  /\ UNCHANGED <<lastRead, lastRecved, rge, rdata, canRecvLen, bVars, sVars,
                 accepted, got>>

RPublish ==
  /\ rpc = "publish"
  /\ lastRecved' = Add(lastRecved, StoreLen)
  /\ accepted' = accepted + StoreLen
  /\ rpc' = "ack"
  /\ stored' = (spc \in {"second", "send"})
  /\ UNCHANGED <<lastRead, recvBuff, rge, rdata, canRecvLen, bVars,
                 spc, sge, sidx, swin, got>>

RAckTest ==
  /\ rpc = "ack"
  /\ rge' = AtOrAbove
  /\ rpc' = "send"
  /\ UNCHANGED <<indexVars, rdata, canRecvLen, bVars, sVars, accepted, got>>

\* Mutated form of AckSegment: the byte after lastRecved is acknowledged too.
AckSegmentAhead == [ackNum |-> Add(lastRecved, 1), rwnd |-> Advertised(rge)]

\* What sendDataWithAck or the bare acknowledgment tells the peer.
AckSegment == [ackNum |-> lastRecved, rwnd |-> Advertised(rge)]

RAckSend ==
  /\ rpc = "send"
  /\ rpc' = "recv" /\ rdata' = << >> /\ canRecvLen' = 0
  /\ UNCHANGED <<indexVars, rge, bVars, sVars, accepted, got>>

RWork == RSpace \/ RWake \/ RCopy \/ RPublish \/ RAckTest \/ RAckSend

-----------------------------------------------------------------------------
(* B: recvFromResf and recvFromResfBySep                                   *)

\* The guard on Len(got) is a model bound: it only ever stops calls that are
\* returned the same bytes again and again.
BCall(k, m) ==
  /\ bpc = "idle" /\ Len(got) <= MaxBytes
  /\ bpc' = "read" /\ mode' = m /\ recvLen' = k
  /\ buf' = << >> /\ timeNum' = 0
  /\ UNCHANGED <<indexVars, rVars, sVars, accepted, got>>

\* The local "temp": the next slot to copy from.
Temp == Add(lastRead, Len(buf))

\* The call returns the bytes copied; lastRead moves on over n of them.
Return(n) ==
  /\ bpc' = "idle"
  /\ lastRead' = Add(lastRead, n)
  /\ got' = got \o buf
  /\ buf' = << >> /\ timeNum' = 0 /\ recvLen' = 0
  /\ UNCHANGED <<lastRecved, recvBuff, rVars, mode, sVars, accepted>>

BByte ==
  /\ bpc = "read" /\ Len(buf) < recvLen /\ Temp # lastRecved
  /\ buf' = Append(buf, recvBuff[Temp])
  /\ timeNum' = 0
  /\ bpc' = IF mode # "all" /\ recvBuff[Temp] \in Seps THEN "release" ELSE "read"
  /\ UNCHANGED <<indexVars, rVars, mode, recvLen, sVars, accepted, got>>

\* Nothing to copy: sleep and count.
BPoll ==
  /\ bpc = "read" /\ Len(buf) < recvLen /\ Temp = lastRecved
  /\ timeNum < MaxTimeNums
  /\ timeNum' = timeNum + 1
  /\ UNCHANGED <<indexVars, rVars, bpc, mode, recvLen, buf, sVars, accepted, got>>

\* The count is reached.  With isTimeout set it would go on polling.
BLastPoll ==
  /\ bpc = "read" /\ Len(buf) < recvLen /\ Temp = lastRecved
  /\ timeNum >= MaxTimeNums
  /\ mode # "sep"
  /\ bpc' = "stop"
  /\ UNCHANGED <<indexVars, rVars, mode, recvLen, buf, timeNum, sVars, accepted, got>>

\* After one more sleep, whatever has come meanwhile, recvFromResf moves
\* lastRead over what it returns; recvFromResfBySep does not.
BGiveUp ==
  /\ bpc = "stop"
  /\ Return(IF mode = "all" THEN Len(buf) ELSE 0)

BReturn ==
  /\ bpc = "release" \/ (bpc = "read" /\ Len(buf) = recvLen)
  /\ Return(Len(buf))

BWork == BByte \/ BPoll \/ BLastPoll \/ BGiveUp \/ BReturn

BNext == (\E k \in ReadSizes, m \in Modes : BCall(k, m)) \/ BWork

-----------------------------------------------------------------------------
(* S: the window in the header of prepareAndSend and of retransmit         *)

STest ==
  /\ spc = "rest"
  /\ spc' = "first" /\ sge' = AtOrAbove
  /\ UNCHANGED <<indexVars, rVars, bVars, sidx, swin, stored, accepted, got>>

\* The formula of the one branch begins with lastRecved, that of the other
\* with lastRead.
SFirst ==
  /\ spc = "first"
  /\ sidx' = IF sge THEN lastRecved ELSE lastRead
  /\ stored' = FALSE
  /\ spc' = "second"
  /\ UNCHANGED <<indexVars, rVars, bVars, sge, swin, accepted, got>>

SSecond ==
  /\ spc = "second"
  /\ swin' = IF sge THEN Window(TRUE, lastRead, sidx) ELSE Window(FALSE, sidx, lastRecved)
  /\ spc' = "send"
  /\ UNCHANGED <<indexVars, rVars, bVars, sge, sidx, stored, accepted, got>>

\* sendto
SAdvertise ==
  /\ spc = "send"
  /\ spc' = "rest" /\ sidx' = 0 /\ swin' = 0 /\ stored' = FALSE
  /\ UNCHANGED <<indexVars, rVars, bVars, sge, accepted, got>>

SNext == STest \/ SFirst \/ SSecond \/ SAdvertise

-----------------------------------------------------------------------------
(* The next bytes of the stream, or a segment from elsewhere in it.        *)
PeerSends ==
  \E seqNum \in Pos, n \in 1 .. MSS :
    /\ accepted + n <= MaxBytes
    /\ RArrive(seqNum, [i \in 1 .. n |-> accepted + i - 1])

Next == PeerSends \/ RWork \/ BNext \/ SNext

Spec == Init /\ [][Next]_vars

(***************************************************************************)
(* Threads are scheduled.  An application that has called a read goes on   *)
(* with it, and calls again: the program has no say in that, so it is an   *)
(* assumption about the application.                                       *)
(***************************************************************************)
Fairness == WF_vars(RWork) /\ WF_vars(BNext)

FairSpec == Spec /\ Fairness

-----------------------------------------------------------------------------
(* Properties                                                              *)

\* The fields and locals keep their types; the two indices stay indices.
TypeOK ==
  /\ lastRead \in Pos /\ lastRecved \in Pos
  /\ recvBuff \in [Pos -> Int]
  /\ rpc \in {"recv", "space", "wait", "copy", "publish", "ack", "send"}
  /\ rge \in BOOLEAN /\ rdata \in Seq(Int) /\ canRecvLen \in Int
  /\ bpc \in {"idle", "read", "stop", "release"} /\ mode \in AllModes
  /\ recvLen \in Nat /\ buf \in Seq(Int) /\ timeNum \in Nat
  /\ spc \in {"rest", "first", "second", "send"}
  /\ sge \in BOOLEAN /\ sidx \in Pos /\ swin \in Int /\ stored \in BOOLEAN
  /\ accepted \in Nat /\ got \in Seq(Int)

(***************************************************************************)
(* Every byte received and not yet released is still in recvBuff: R, which *)
(* trusts a free space computed from loads of lastRead at two moments,     *)
(* never copies over a slot that a read has still to deliver or may be     *)
(* copying from at this very moment.                                       *)
(***************************************************************************)
UnreadIntact ==
  \A k \in Pos : k < Dist(lastRead, lastRecved) =>
    recvBuff[Add(lastRead, k)] = accepted - Dist(lastRead, lastRecved) + k

(***************************************************************************)
(* A segment or an acknowledgment promises more than the free space only   *)
(* if the receive thread has stored bytes after the sender of the segment  *)
(* had loaded the first index of the formula (resf.c:336-340, 819-823).    *)
(* Neither the test of before, which may have chosen the branch by indices *)
(* that have wrapped since, nor a reader that releases bytes between the   *)
(* two loads or before sendto makes the promise too large: the branches    *)
(* agree modulo 2^16, the width of the field.  With bytes stored between   *)
(* the loads it can be any window, a full buffer passing for an empty one. *)
(***************************************************************************)
WindowHonest ==
  /\ rpc = "send" => Advertised(rge) = Room(lastRead, lastRecved)
  /\ spc = "send" /\ ~stored => swin <= Room(lastRead, lastRecved)

(***************************************************************************)
(* The reads return the accepted bytes as a stream: in order, each once    *)
(* (recvFromResf, recvFromResfBySep and the stores of startRecv together). *)
(***************************************************************************)
Stream == INSTANCE ByteStream WITH written <- accepted, received <- got
ReadsStream == Stream!Spec

(***************************************************************************)
(* A segment that found no space is stored in the end, when the            *)
(* application keeps reading: a read in progress never sits on so much of  *)
(* the buffer that R and it wait for each other.                           *)
(***************************************************************************)
WaitEnds == rpc = "wait" ~> rpc = "copy"
=============================================================================
