--------------------------- MODULE TransferProofs ---------------------------
(***************************************************************************)
(* Safety of the one-way transfer, for every buffer size N, segment size   *)
(* MSS below it, length of the queues and number of losses.                *)
(*                                                                         *)
(* Each step of the transfer is a step of one half or leaves it alone      *)
(* (SenderStep, ReceiverStep), so that all that SendBufferProofs and       *)
(* RecvBufferProofs show of the halves holds here: HalvesInv.  Indices on  *)
(* their way wrap around like those of the halves; StreamInv says where in *)
(* the stream each of them belongs:                                        *)
(*   - Located: the receiver is between lastAcked and lastSent;            *)
(*   - AcksInOrder: the acknowledgments under way, first to last, are of   *)
(*     positions that never go back, from lastAcked to lastRecved;         *)
(*   - OnTheWay: no datagram under way is so old that its number has come  *)
(*     round to lastRecved again, and each would fit the receiver's buffer.*)
(* The last two are about queues that keep their order, and false of       *)
(* others.  A retransmission may hold any bytes (see run TransferPhantom), *)
(* so that AckedNotAhead is about positions only.  Without it the          *)
(* datagrams hold the bytes of their positions (Genuine), and the transfer *)
(* is a ByteStream.                                                        *)
(***************************************************************************)
EXTENDS Transfer, RingLemmas, SequenceTheorems

SP == INSTANCE SendBufferProofs WITH SendFails <- FALSE, WaitLimits <- FALSE

RP == INSTANCE RecvBufferProofs WITH Modes <- {"all"}, Seps <- {},
                                     MaxTimeNums <- MaxReadPolls,
                                     rpc <- brpc, rge <- brge, rdata <- bdata,
                                     spc <- "rest", sge <- TRUE, sidx <- 0,
                                     swin <- 0, stored <- FALSE

\* The assumptions of the two halves.
LEMMA HalfParams == /\ N \in Nat /\ N > 1
                    /\ MSS \in 1 .. N - 1
                    /\ CallSizes \subseteq Nat \ {0}
                    /\ ReadSizes \subseteq Nat \ {0}
                    /\ MaxBytes \in Nat
                    /\ MaxTimeNums \in Nat /\ MaxTimeNums > 1 /\ MaxReadPolls \in Nat
                    /\ {"all"} \subseteq RP!AllModes /\ {} \subseteq Nat
                    /\ FALSE \in BOOLEAN
BY RingSize, TransferParams DEF RP!AllModes

LEMMA SndTypeNext == SP!TypeOK /\ [SP!Next]_(SP!vars) => SP!TypeOK'
BY SP!TypeNext, HalfParams

LEMMA SndOrderNext ==
  SP!TypeOK /\ SP!TypeOK' /\ SP!OrderInv /\ [SP!Next]_(SP!vars) => SP!OrderInv'
BY SP!OrderNext, HalfParams

LEMMA SndIntactNext ==
  SP!TypeOK /\ SP!TypeOK' /\ SP!OrderInv /\ SP!UnackedIntact /\ [SP!Next]_(SP!vars)
    => SP!UnackedIntact'
BY SP!IntactNext, HalfParams

LEMMA RcvNext == RP!RInv /\ [RP!AnyNext]_(RP!vars) => RP!RInv'
BY RP!RInvAny, HalfParams


-----------------------------------------------------------------------------
(* The steps of Transfer are steps of its two halves                       *)

\* The datagrams of the two directions.
Datagram == [seq : Pos, data : Seq(Int)]
Answer   == [ackNum : Pos, rwnd : Pos]

\* UDP carries segments; the sender knows a window of the receiver.
NetOK == rwnd \in Pos /\ data \in Seq(Datagram) /\ acks \in Seq(Answer)

\* sendToResf.
LEMMA AppSteps == App => SP!ANext
BY DEF App, Snd!ANext, SP!ANext, Snd!ACall, SP!ACall, Snd!ATestAbove, SP!ATestAbove,
       Snd!ATestBelow, SP!ATestBelow, Snd!ACalcRoom, SP!ACalcRoom, Snd!AByte,
       SP!AByte, Snd!APoll, SP!APoll, Snd!AStore, SP!AStore, Snd!Decide, SP!Decide,
       Snd!RoomBy, SP!RoomBy, Snd!AllClear, SP!AllClear, Snd!Add, SP!Add,
       Snd!ringVars, SP!ringVars, Snd!aVars, SP!aVars, Snd!sVars, SP!sVars,
       Snd!rVars, SP!rVars

\* startSend, apart from its sendto.
LEMMA ThreadSteps == ASSUME rwnd \in Pos, SendThread PROVE SP!SNext
<1> USE DEF Snd!ringVars, SP!ringVars, Snd!aVars, SP!aVars, Snd!sVars, SP!sVars,
            Snd!rVars, SP!rVars, Snd!Add, SP!Add, Snd!DistBy, SP!DistBy,
            Snd!SmallerOf, SP!SmallerOf
<1>1. Snd!SWake => SP!SWake
  BY DEF Snd!SWake, SP!SWake, Snd!AllClear, SP!AllClear
<1>2. Snd!SLock(rwnd) => SP!SLock(rwnd)
  BY DEF Snd!SLock, SP!SLock
<1>3. Snd!SWindow => SP!SWindow
  BY DEF Snd!SWindow, SP!SWindow
<1>4. Snd!SUnsent => SP!SUnsent
  BY DEF Snd!SUnsent, SP!SUnsent
<1>5. Snd!SBudget => SP!SBudget
  BY DEF Snd!SBudget, SP!SBudget, Snd!Budget, SP!Budget
<1>6. Snd!SAdvance => SP!SAdvance
  BY DEF Snd!SAdvance, SP!SAdvance
<1>7. Snd!SUnacked => SP!SUnacked
  BY DEF Snd!SUnacked, SP!SUnacked
<1>8. Snd!SSeqNum => SP!SSeqNum
  BY DEF Snd!SSeqNum, SP!SSeqNum
<1>9. Snd!STimers => SP!STimers
  BY DEF Snd!STimers, SP!STimers
<1>10. rwnd \in SP!Pos
  BY DEF Pos, SP!Pos
<1> QED
  BY <1>1, <1>2, <1>3, <1>4, <1>5, <1>6, <1>7, <1>8, <1>9, <1>10
  DEF SendThread, SP!SNext

\* Its sendto.
LEMMA SendSteps == SendData => SP!SNext
BY DEF SendData, SP!SNext, Snd!SSend, SP!SSend, Snd!SResend, SP!SResend, Snd!ringVars,
       SP!ringVars, Snd!aVars, SP!aVars, Snd!sVars, SP!sVars, Snd!rVars, SP!rVars

\* startRecv with an acknowledgment.
LEMMA AckSteps == ASSUME NetOK, TakeAck \/ CheckAck PROVE SP!RNext
<1> USE DEF Snd!ringVars, SP!ringVars, Snd!aVars, SP!aVars, Snd!sVars, SP!sVars,
            Snd!rVars, SP!rVars
<1>1. CASE TakeAck
  <2>1. Head(acks) \in Answer
    BY <1>1 DEF TakeAck, NetOK
  <2>2. Head(acks).ackNum \in SP!Pos
    BY <2>1 DEF Answer, Pos, SP!Pos
  <2>3. SP!RRecv(TRUE, Head(acks).ackNum, FALSE)
    BY <1>1 DEF TakeAck, Snd!RRecv, SP!RRecv
  <2> QED
    BY <2>2, <2>3 DEF SP!RNext
<1>2. CASE CheckAck
  BY <1>2 DEF CheckAck, Snd!RCheck, SP!RCheck, Snd!Acceptable, SP!Acceptable, SP!RNext
<1> QED
  BY <1>1, <1>2

\* Every step of the system is one of the send half or leaves it alone.
LEMMA SenderStep == ASSUME NetOK, [Next]_vars PROVE [SP!Next]_(SP!vars)
<1>1. CASE App
  BY <1>1, AppSteps DEF SP!Next
<1>2. CASE SendThread
  BY <1>2, ThreadSteps DEF SP!Next, NetOK
<1>3. CASE SendData
  BY <1>3, SendSteps DEF SP!Next
<1>4. CASE TakeAck \/ CheckAck
  BY <1>4, AckSteps DEF SP!Next
<1>5. CASE UNCHANGED sndVars
  BY <1>5 DEF sndVars, SP!vars, SP!ringVars, SP!aVars, SP!sVars, SP!rVars
<1>6. UNCHANGED vars => UNCHANGED sndVars
  BY DEF vars
<1> QED
  BY <1>1, <1>2, <1>3, <1>4, <1>5, <1>6
  DEF Next, TakeData, StoreData, SendAck, Reader, Lose

\* startRecv with data, and the answer.
LEMMA StoreSteps == ASSUME StoreData \/ SendAck PROVE RP!RWork
<1> USE DEF Rcv!indexVars, RP!indexVars, Rcv!bVars, RP!bVars, Rcv!sVars, RP!sVars,
            Rcv!StoreLen, RP!StoreLen, Rcv!SmallerOf, RP!SmallerOf,
            Rcv!AtOrAbove, RP!AtOrAbove
<1>1. Rcv!RSpace => RP!RSpace
  BY DEF Rcv!RSpace, RP!RSpace, Rcv!RoomBy, RP!RoomBy, Rcv!DistBy, RP!DistBy
<1>2. Rcv!RWake => RP!RWake
  BY DEF Rcv!RWake, RP!RWake
<1>3. Rcv!RCopy => RP!RCopy
  BY DEF Rcv!RCopy, RP!RCopy, Rcv!Pos, RP!Pos, Rcv!Dist, RP!Dist, Rcv!DistBy, RP!DistBy
<1>4. Rcv!RPublish => RP!RPublish
  BY DEF Rcv!RPublish, RP!RPublish, Rcv!Add, RP!Add
<1>5. Rcv!RAckTest => RP!RAckTest
  BY DEF Rcv!RAckTest, RP!RAckTest
<1>6. Rcv!RAckSend => RP!RAckSend
  BY DEF Rcv!RAckSend, RP!RAckSend
<1> QED
  BY <1>1, <1>2, <1>3, <1>4, <1>5, <1>6 DEF StoreData, SendAck, RP!RWork

\* recvFromResf.
LEMMA ReaderSteps == Reader => RP!BNext
<1> USE DEF Rcv!indexVars, RP!indexVars, Rcv!rVars, RP!rVars, Rcv!sVars, RP!sVars,
            Rcv!Temp, RP!Temp, Rcv!Add, RP!Add, Rcv!Return, RP!Return
<1>1. ASSUME NEW k \in ReadSizes, NEW m \in {"all"}, Rcv!BCall(k, m)
      PROVE  RP!BCall(k, m)
  BY <1>1 DEF Rcv!BCall, RP!BCall
<1>2. Rcv!BByte => RP!BByte
  BY DEF Rcv!BByte, RP!BByte
<1>3. Rcv!BPoll => RP!BPoll
  BY DEF Rcv!BPoll, RP!BPoll
<1>4. Rcv!BLastPoll => RP!BLastPoll
  BY DEF Rcv!BLastPoll, RP!BLastPoll
<1>5. Rcv!BGiveUp => RP!BGiveUp
  BY DEF Rcv!BGiveUp, RP!BGiveUp
<1>6. Rcv!BReturn => RP!BReturn
  BY DEF Rcv!BReturn, RP!BReturn
<1> QED
  BY <1>1, <1>2, <1>3, <1>4, <1>5, <1>6 DEF Reader, Rcv!BNext, Rcv!BWork, RP!BNext, RP!BWork

\* startRecv takes a datagram.
LEMMA TakeSteps == ASSUME NetOK, TakeData PROVE RP!AnySegment
<1>1. Head(data) \in Datagram
  BY DEF TakeData, NetOK
<1>2. Head(data).seq \in RP!Pos /\ Head(data).data \in Seq(Int)
  BY <1>1 DEF Datagram, Pos, RP!Pos
<1>3. RP!RArrive(Head(data).seq, Head(data).data)
  BY DEF TakeData, Rcv!RArrive, RP!RArrive, Rcv!AtOrAbove, RP!AtOrAbove, Rcv!indexVars,
         RP!indexVars, Rcv!bVars, RP!bVars, Rcv!sVars, RP!sVars
<1> QED
  BY <1>2, <1>3 DEF RP!AnySegment

\* Every step of the system is one of the receive half or leaves it alone.
LEMMA ReceiverStep == ASSUME NetOK, [Next]_vars PROVE [RP!AnyNext]_(RP!vars)
<1>1. CASE StoreData \/ SendAck
  BY <1>1, StoreSteps DEF RP!AnyNext
<1>2. CASE Reader
  BY <1>2, ReaderSteps DEF RP!AnyNext
<1>3. CASE TakeData
  BY <1>3, TakeSteps DEF RP!AnyNext
<1>4. CASE UNCHANGED rcvVars
  BY <1>4 DEF rcvVars, RP!vars, RP!indexVars, RP!rVars, RP!bVars, RP!sVars
<1>5. UNCHANGED vars => UNCHANGED rcvVars
  BY DEF vars
<1> QED
  BY <1>1, <1>2, <1>3, <1>4, <1>5
  DEF Next, App, SendThread, SendData, TakeAck, CheckAck, Lose

-----------------------------------------------------------------------------
(* What the halves are known to keep, in the terms of module Ring          *)

HalvesInv == SP!TypeOK /\ SP!OrderInv /\ SP!UnackedIntact /\ RP!RInv /\ NetOK

\* The sending endpoint: its indices are in order, prepareAndSend sends no
\* more than there is, and an acknowledgment under test has a sound branch.
LEMMA SenderFacts ==
  ASSUME HalvesInv
  PROVE  /\ lastAcked \in Pos /\ lastSent \in Pos /\ lastWrite \in Pos
         /\ written \in Nat /\ sleft \in Int /\ sseq \in Pos /\ rack \in Pos
         /\ sendBuff \in [Pos -> Int]
         /\ Dist(lastAcked, lastSent) + Dist(lastSent, lastWrite) <= N - 1
         /\ spc \in {"send", "advance"} => 0 < sleft /\ sleft <= Dist(lastSent, lastWrite)
         /\ rpc = "check" => rack # lastAcked /\ (~rge => lastSent < lastAcked)
         /\ apc = "store" => 1 <= Room(lastAcked, lastWrite)
<1>1. /\ lastAcked \in Pos /\ lastSent \in Pos /\ lastWrite \in Pos
      /\ written \in Nat /\ sleft \in Int /\ sseq \in Pos /\ rack \in Pos
      /\ sendBuff \in [Pos -> Int]
  BY DEF HalvesInv, SP!TypeOK, SP!Pos, Pos
<1>2. Dist(lastAcked, lastSent) + Dist(lastSent, lastWrite) <= N - 1
  BY DEF HalvesInv, SP!OrderInv, SP!RingOrder, SP!Dist, SP!DistBy, Dist, DistBy
<1>3. spc \in {"send", "advance"} => 0 < sleft /\ sleft <= Dist(lastSent, lastWrite)
  BY DEF HalvesInv, SP!OrderInv, SP!SendBudget, SP!Dist, SP!DistBy, Dist, DistBy
<1>4. rpc = "check" => rack # lastAcked /\ (~rge => lastSent < lastAcked)
  BY DEF HalvesInv, SP!OrderInv, SP!AckBranch
<1>5. ASSUME apc = "store" PROVE 1 <= Room(lastAcked, lastWrite)
  <2>1. sendLen - len <= Room(lastAcked, lastWrite) /\ len < sendLen
    BY <1>5 DEF HalvesInv, SP!OrderInv, SP!AppRoom, SP!Room, SP!Dist, SP!DistBy,
                Room, Dist, DistBy
  <2>2. sendLen \in Nat /\ len \in Nat
    BY DEF HalvesInv, SP!TypeOK
  <2>3. Room(lastAcked, lastWrite) \in Int
    BY <1>1, RingSize DEF Room, Dist, DistBy, Pos
  <2> QED
    BY <2>1, <2>2, <2>3
<1> QED
  BY <1>1, <1>2, <1>3, <1>4, <1>5

\* The receiving endpoint: what is stored fits, so that it is the whole of
\* the segment in hand.
LEMMA ReceiverFacts ==
  ASSUME HalvesInv
  PROVE  /\ lastRecved \in Pos /\ accepted \in Nat
         /\ bdata \in Seq(Int) /\ Len(bdata) \in Nat
         /\ brpc = "publish" => Rcv!StoreLen = Len(bdata)
<1>1. lastRecved \in Pos /\ accepted \in Nat /\ bdata \in Seq(Int) /\ canRecvLen \in Int
  BY DEF HalvesInv, RP!RInv, RP!TypeOK, RP!Pos, Pos
<1>2. Len(bdata) \in Nat
  BY <1>1
<1>3. brpc = "publish" => Len(bdata) <= canRecvLen
  BY DEF HalvesInv, RP!RInv, RP!RoomSeen
<1> QED
  BY <1>1, <1>2, <1>3 DEF Rcv!StoreLen, Rcv!SmallerOf

\* What sendto is given: the numbers of bytes are those of the code.
LEMMA NewSegmentType ==
  ASSUME HalvesInv, spc = "send"
  PROVE  /\ Snd!NewSegment(sleft) \in Datagram
         /\ Snd!NewSegment(sleft).seq = lastSent
         /\ Len(Snd!NewSegment(sleft).data) \in Nat
         /\ Len(Snd!NewSegment(sleft).data) <= Dist(lastSent, lastWrite)
         /\ \A j \in 1 .. Len(Snd!NewSegment(sleft).data) :
              Snd!NewSegment(sleft).data[j] = written - Dist(lastSent, lastWrite) + j - 1
<1>0. SP!IsStream(SP!NewSegment(sleft))
  BY SP!NewDataSafe, HalfParams DEF HalvesInv, SP!NewDataIntact
<1> DEFINE n == Snd!SmallerOf(sleft, MSS)
<1>1. n \in Nat /\ n <= sleft /\ sleft \in Int /\ sleft <= Dist(lastSent, lastWrite)
  BY SenderFacts, HalfParams DEF Snd!SmallerOf
<1>2. Dist(lastSent, lastWrite) \in Int
  BY SenderFacts, RingSize DEF Dist, DistBy, Pos
<1> HIDE DEF n
<1>3. ASSUME NEW i \in 1 .. n PROVE sendBuff[Snd!Add(lastSent, i - 1)] \in Int
  <2>1. Snd!Add(lastSent, i - 1) = Add(lastSent, i - 1)
    BY DEF Snd!Add, Add
  <2>2. Snd!Add(lastSent, i - 1) \in Pos
    BY <1>1, <2>1, SenderFacts, AddInRing
  <2> QED
    BY <2>2, SenderFacts
<1> DEFINE d == [i \in 1 .. n |-> sendBuff[Snd!Add(lastSent, i - 1)]]
<1>4. d \in Seq(Int) /\ Len(d) = n
  BY <1>1, <1>3
<1>5. Snd!NewSegment(sleft) = [seq |-> lastSent, data |-> d]
  BY DEF Snd!NewSegment, n
<1>6. \A j \in 1 .. n : d[j] = written - Dist(lastSent, lastWrite) + j - 1
  <2>1. SP!NewSegment(sleft) = [seq |-> lastSent, data |-> d]
    BY <1>5 DEF Snd!NewSegment, SP!NewSegment, Snd!SmallerOf, SP!SmallerOf, Snd!Add, SP!Add
  <2>2. SP!StreamPos(lastSent) = written - Dist(lastSent, lastWrite)
    BY DEF SP!StreamPos, SP!Dist, SP!DistBy, Dist, DistBy
  <2>3. DOMAIN d = 1 .. n
    OBVIOUS
  <2> HIDE DEF d
  <2>4. DOMAIN SP!NewSegment(sleft).data = 1 .. n /\ SP!NewSegment(sleft).data = d
    BY <2>1, <2>3
  <2> QED
    BY <1>0, <2>2, <2>4 DEF SP!IsStream
<1> HIDE DEF d
<1> QED
  BY <1>1, <1>2, <1>4, <1>5, <1>6, SenderFacts DEF Datagram

LEMMA RtxSegmentType ==
  ASSUME HalvesInv, sleft \in 1 .. MSS
  PROVE  /\ Snd!RtxSegment \in Datagram
         /\ Snd!RtxSegment.seq = sseq
         /\ Len(Snd!RtxSegment.data) = sleft
<1>1. sleft \in Nat
  BY HalfParams
<1>2. ASSUME NEW i \in 1 .. sleft PROVE sendBuff[Snd!Add(lastSent, i - 1)] \in Int
  <2>1. Snd!Add(lastSent, i - 1) = Add(lastSent, i - 1)
    BY DEF Snd!Add, Add
  <2>2. Snd!Add(lastSent, i - 1) \in Pos
    BY <1>1, <2>1, SenderFacts, AddInRing
  <2> QED
    BY <2>2, SenderFacts
<1> DEFINE d == [i \in 1 .. sleft |-> sendBuff[Snd!Add(lastSent, i - 1)]]
<1>3. d \in Seq(Int) /\ Len(d) = sleft
  BY <1>1, <1>2
<1>4. Snd!RtxSegment = [seq |-> sseq, data |-> d]
  BY DEF Snd!RtxSegment
<1> HIDE DEF d
<1> QED
  BY <1>3, <1>4, SenderFacts DEF Datagram

\* A retransmission under construction has at most MSS bytes (SUnacked).
RtxMade ==
  /\ spc \in {"seqnum", "resend"} => sleft \in 1 .. MSS
  /\ ~ Retransmits => spc \notin {"unacked", "seqnum", "resend"}

LEMMA AnswerType == ASSUME HalvesInv PROVE Rcv!AckSegment \in Answer
<1>1. lastRead \in Int /\ lastRecved \in Pos /\ brge \in BOOLEAN /\ N \in Nat /\ N > 0
  BY RingSize DEF HalvesInv, RP!RInv, RP!TypeOK, RP!Pos, Pos
<1>2. N - 1 - Rcv!DistBy(brge, lastRead, lastRecved) \in Int
  BY <1>1 DEF Rcv!DistBy, Pos
<1>3. Rcv!Advertised(brge) \in Pos
  BY <1>1, <1>2 DEF Rcv!Advertised, Rcv!Window, Pos
<1> QED
  BY <1>1, <1>3 DEF Rcv!AckSegment, Answer

\* Both halves keep their invariants, and UDP carries segments.
LEMMA HalvesNext == ASSUME HalvesInv, RtxMade, [Next]_vars PROVE HalvesInv'
<1>1. SP!TypeOK' /\ SP!OrderInv' /\ SP!UnackedIntact'
  BY SenderStep, SndTypeNext, SndOrderNext, SndIntactNext DEF HalvesInv
<1>2. RP!RInv'
  BY ReceiverStep, RcvNext DEF HalvesInv
<1>3. NetOK'
  <2> USE DEF HalvesInv, NetOK
  <2>1. CASE UNCHANGED <<rwnd, data, acks>>
    BY <2>1
  <2>2. CASE SendData
    <3>1. CASE Snd!SSend /\ data' = Append(data, Snd!NewSegment(sleft))
      BY <2>2, <3>1, NewSegmentType DEF SendData, Snd!SSend
    <3>2. CASE Snd!SResend /\ data' = Append(data, Snd!RtxSegment)
      BY <2>2, <3>2, RtxSegmentType DEF SendData, Snd!SResend, RtxMade
    <3> QED
      BY <2>2, <3>1, <3>2 DEF SendData
  <2>3. CASE TakeAck
    <3>1. Head(acks) \in Answer /\ Tail(acks) \in Seq(Answer)
      BY <2>3 DEF TakeAck
    <3> QED
      BY <2>3, <3>1 DEF TakeAck, Answer
  <2>4. CASE TakeData
    BY <2>4 DEF TakeData, sndVars
  <2>5. CASE SendAck
    BY <2>5, AnswerType DEF SendAck
  <2>6. CASE Lose
    <3>1. data # << >> => Tail(data) \in Seq(Datagram)
      OBVIOUS
    <3>2. acks # << >> => Tail(acks) \in Seq(Answer)
      OBVIOUS
    <3>3. rwnd' = rwnd /\ data' \in Seq(Datagram) /\ acks' \in Seq(Answer)
      BY <2>6, <3>1, <3>2 DEF Lose
    <3> QED
      BY <3>3
  <2> QED
    BY <2>1, <2>2, <2>3, <2>4, <2>5, <2>6
    DEF Next, App, SendThread, CheckAck, StoreData, Reader, netVars, vars
<1> QED
  BY <1>1, <1>2, <1>3 DEF HalvesInv

-----------------------------------------------------------------------------
(* Acknowledgments on their way, and what the steps do to them             *)

\* The numbers in the answers ans, counted from index from on, do not go back
\* and do not pass index upto.
Ordered(from, ans, upto) ==
  /\ \A i \in 1 .. Len(ans) : Dist(from, ans[i].ackNum) <= Dist(from, upto)
  /\ \A i, j \in 1 .. Len(ans) :
       i <= j => Dist(from, ans[i].ackNum) <= Dist(from, ans[j].ackNum)

\* The number num comes before all of them.
Before(from, num, ans, upto) ==
  /\ Dist(from, num) <= Dist(from, upto)
  /\ \A i \in 1 .. Len(ans) : Dist(from, num) <= Dist(from, ans[i].ackNum)

\* Behind an index that is closer, the distances are that much shorter.
LEMMA DistAfter ==
  ASSUME NEW a \in Pos, NEW b \in Pos, NEW c \in Pos, Dist(a, b) <= Dist(a, c)
  PROVE  Dist(b, c) = Dist(a, c) - Dist(a, b)
BY RingSize DEF Dist, DistBy, Pos

LEMMA AnswerNum ==
  ASSUME NEW ans \in Seq(Answer), NEW i \in 1 .. Len(ans)
  PROVE  ans[i].ackNum \in Pos
<1>1. ans[i] \in Answer
  OBVIOUS
<1> QED
  BY <1>1 DEF Answer

\* Distances are compared and subtracted as numbers.
LEMMA Shift ==
  ASSUME NEW x \in Int, NEW y \in Int, NEW z \in Int, x <= y
  PROVE  x - z <= y - z
OBVIOUS

LEMMA DistInt == \A x, y \in Pos : Dist(x, y) \in Int
BY RingSize DEF Dist, DistBy, Pos

\* Queues: what is left, and what is added.
LEMMA TailFacts ==
  ASSUME NEW S, NEW s \in Seq(S), s # << >>
  PROVE  /\ Tail(s) \in Seq(S) /\ Len(s) \in Nat /\ Len(Tail(s)) = Len(s) - 1
         /\ Head(s) = s[1] /\ 1 \in 1 .. Len(s)
         /\ \A i \in 1 .. Len(Tail(s)) :
              Tail(s)[i] = s[i + 1] /\ i + 1 \in 1 .. Len(s) /\ 1 <= i + 1 /\ 1 < i + 1
<1>1. Tail(s) \in Seq(S) /\ Len(Tail(s)) = Len(s) - 1 /\ Head(s) = s[1]
  BY HeadTailProperties
<1>2. Len(s) \in Nat /\ Len(s) # 0
  BY EmptySeq
<1>3. \A i \in 1 .. Len(Tail(s)) : Tail(s)[i] = s[i + 1]
  BY HeadTailProperties
<1>4. \A i \in 1 .. Len(Tail(s)) : i + 1 \in 1 .. Len(s) /\ 1 <= i + 1 /\ 1 < i + 1
  BY <1>1, <1>2
<1> QED
  BY <1>1, <1>2, <1>3, <1>4

\* startRecv takes the first one, or UDP loses it.
LEMMA OrderedTail ==
  ASSUME NEW from \in Pos, NEW upto \in Pos, NEW ans \in Seq(Answer), ans # << >>,
         Ordered(from, ans, upto)
  PROVE  /\ Ordered(from, Tail(ans), upto)
         /\ Before(from, Head(ans).ackNum, Tail(ans), upto)
         /\ \A num : Before(from, num, ans, upto) => Before(from, num, Tail(ans), upto)
<1> DEFINE bs == Tail(ans)
<1>1. /\ bs \in Seq(Answer) /\ Len(bs) = Len(ans) - 1 /\ Len(ans) \in Nat
      /\ Head(ans) = ans[1] /\ 1 \in 1 .. Len(ans)
      /\ \A i \in 1 .. Len(bs) : bs[i] = ans[i + 1] /\ i + 1 \in 1 .. Len(ans) /\ 1 <= i + 1
  BY TailFacts
<1> HIDE DEF bs
<1>2. ASSUME NEW i \in 1 .. Len(bs)
      PROVE  /\ Dist(from, bs[i].ackNum) <= Dist(from, upto)
             /\ Dist(from, Head(ans).ackNum) <= Dist(from, bs[i].ackNum)
  <2>1. bs[i] = ans[i + 1] /\ i + 1 \in 1 .. Len(ans) /\ 1 <= i + 1
    BY <1>1
  <2> QED
    BY <1>1, <2>1 DEF Ordered
<1>3. ASSUME NEW i \in 1 .. Len(bs), NEW j \in 1 .. Len(bs), i <= j
      PROVE  Dist(from, bs[i].ackNum) <= Dist(from, bs[j].ackNum)
  <2>1. /\ bs[i] = ans[i + 1] /\ i + 1 \in 1 .. Len(ans)
        /\ bs[j] = ans[j + 1] /\ j + 1 \in 1 .. Len(ans)
    BY <1>1
  <2>2. i + 1 <= j + 1
    BY <1>1, <1>3
  <2> QED
    BY <2>1, <2>2 DEF Ordered
<1>4. Dist(from, Head(ans).ackNum) <= Dist(from, upto)
  BY <1>1 DEF Ordered
<1>5. ASSUME NEW num, Before(from, num, ans, upto) PROVE Before(from, num, bs, upto)
  <2>1. ASSUME NEW i \in 1 .. Len(bs) PROVE Dist(from, num) <= Dist(from, bs[i].ackNum)
    <3>1. bs[i] = ans[i + 1] /\ i + 1 \in 1 .. Len(ans)
      BY <1>1
    <3> QED
      BY <1>5, <3>1 DEF Before
  <2> QED
    BY <1>5, <2>1 DEF Before
<1>6. Ordered(from, bs, upto) /\ Before(from, Head(ans).ackNum, bs, upto)
  BY <1>2, <1>3, <1>4 DEF Ordered, Before
<1> QED
  BY <1>5, <1>6 DEF bs

\* The receiver sends one with the number lastRecved.
LEMMA OrderedAppend ==
  ASSUME NEW from \in Pos, NEW upto \in Pos, NEW ans \in Seq(Answer), NEW m \in Answer,
         m.ackNum = upto, Ordered(from, ans, upto)
  PROVE  /\ Ordered(from, Append(ans, m), upto)
         /\ \A num : Before(from, num, ans, upto) => Before(from, num, Append(ans, m), upto)
<1> DEFINE bs == Append(ans, m)
           n == Len(ans)
<1>1. n \in Nat /\ Len(bs) = n + 1 /\ bs[n + 1] = m /\ \A i \in 1 .. n : bs[i] = ans[i]
  <2>1. n \in Nat
    OBVIOUS
  <2>2. Len(bs) = n + 1 /\ bs[n + 1] = m
    BY AppendProperties
  <2>3. \A i \in 1 .. n : bs[i] = ans[i]
    BY AppendProperties
  <2> QED
    BY <2>1, <2>2, <2>3
<1> HIDE DEF bs
<1>2. Dist(from, upto) \in Int /\ Dist(from, upto) <= Dist(from, upto)
  BY DistInt
<1>3. \A i \in 1 .. n : Dist(from, ans[i].ackNum) <= Dist(from, upto)
  BY DEF Ordered
<1>4. \A i, j \in 1 .. n : i <= j => Dist(from, ans[i].ackNum) <= Dist(from, ans[j].ackNum)
  BY DEF Ordered
<1>5. \A num : Before(from, num, ans, upto) =>
        /\ Dist(from, num) <= Dist(from, upto)
        /\ \A i \in 1 .. n : Dist(from, num) <= Dist(from, ans[i].ackNum)
  BY DEF Before
<1> HIDE DEF n
<1>6. \A i \in 1 .. n + 1 : i \in 1 .. n \/ i = n + 1
  BY <1>1
<1>7. \A i, j \in 1 .. n + 1 : i <= j => i \in 1 .. n \/ (i = n + 1 /\ j = n + 1)
  BY <1>1
<1>8. \A i \in 1 .. n + 1 : Dist(from, bs[i].ackNum) <= Dist(from, upto)
  BY <1>1, <1>2, <1>3, <1>6
<1>9. \A i, j \in 1 .. n + 1 : i <= j => Dist(from, bs[i].ackNum) <= Dist(from, bs[j].ackNum)
  <2>1. ASSUME NEW i \in 1 .. n, NEW j \in 1 .. n, i <= j
        PROVE  Dist(from, bs[i].ackNum) <= Dist(from, bs[j].ackNum)
    BY <1>1, <1>4, <2>1
  <2>2. ASSUME NEW i \in 1 .. n + 1
        PROVE  Dist(from, bs[i].ackNum) <= Dist(from, bs[n + 1].ackNum)
    <3>1. bs[n + 1].ackNum = upto
      BY <1>1
    <3> QED
      BY <1>8, <3>1
  <2> QED
    BY <1>6, <1>7, <2>1, <2>2
<1>10. \A num : Before(from, num, ans, upto) => Before(from, num, bs, upto)
  <2>1. ASSUME NEW num, Before(from, num, ans, upto), NEW i \in 1 .. n + 1
        PROVE  Dist(from, num) <= Dist(from, bs[i].ackNum)
    BY <1>1, <1>5, <1>6, <2>1
  <2> QED
    BY <1>1, <1>5, <2>1 DEF Before
<1> QED
  BY <1>1, <1>8, <1>9, <1>10 DEF Ordered, bs

\* The receiver stores k bytes.
LEMMA OrderedExtend ==
  ASSUME NEW from \in Pos, NEW upto \in Pos, NEW ans \in Seq(Answer), NEW k \in Nat,
         k <= Room(from, upto), Ordered(from, ans, upto)
  PROVE  /\ Ordered(from, ans, Add(upto, k))
         /\ \A num \in Pos : Before(from, num, ans, upto) => Before(from, num, ans, Add(upto, k))
<1>1. Dist(from, Add(upto, k)) = Dist(from, upto) + k
  BY Extend
<1>2. ASSUME NEW x \in Pos, Dist(from, x) <= Dist(from, upto)
      PROVE  Dist(from, x) <= Dist(from, Add(upto, k))
  <2>1. Dist(from, x) \in Int /\ Dist(from, upto) \in Int
    BY DistInt
  <2> QED
    BY <1>1, <1>2, <2>1
<1>3. \A i \in 1 .. Len(ans) : ans[i].ackNum \in Pos
  BY AnswerNum
<1> QED
  BY <1>2, <1>3 DEF Ordered, Before

\* The sender takes over a number that comes before the others.
LEMMA OrderedFrom ==
  ASSUME NEW from \in Pos, NEW upto \in Pos, NEW ans \in Seq(Answer), NEW num \in Pos,
         Ordered(from, ans, upto), Before(from, num, ans, upto)
  PROVE  Ordered(num, ans, upto)
<1>1. \A x \in Pos : Dist(from, x) \in Int
  BY DistInt
<1>2. \A i \in 1 .. Len(ans) : ans[i].ackNum \in Pos
  BY AnswerNum
<1>3. ASSUME NEW i \in 1 .. Len(ans)
      PROVE  Dist(num, ans[i].ackNum) = Dist(from, ans[i].ackNum) - Dist(from, num)
  <2>1. ans[i].ackNum \in Pos /\ Dist(from, num) <= Dist(from, ans[i].ackNum)
    BY <1>2 DEF Before
  <2> QED
    BY <2>1, DistAfter
<1>4. Dist(num, upto) = Dist(from, upto) - Dist(from, num)
  BY DistAfter DEF Before
<1>5. ASSUME NEW i \in 1 .. Len(ans) PROVE Dist(num, ans[i].ackNum) <= Dist(num, upto)
  <2>1. Dist(from, ans[i].ackNum) <= Dist(from, upto)
    BY DEF Ordered
  <2>2. /\ Dist(from, ans[i].ackNum) \in Int /\ Dist(from, upto) \in Int
        /\ Dist(from, num) \in Int
    BY <1>1, <1>2
  <2> QED
    BY <1>3, <1>4, <2>1, <2>2, Shift
<1>6. ASSUME NEW i \in 1 .. Len(ans), NEW j \in 1 .. Len(ans), i <= j
      PROVE  Dist(num, ans[i].ackNum) <= Dist(num, ans[j].ackNum)
  <2>1. Dist(from, ans[i].ackNum) <= Dist(from, ans[j].ackNum)
    BY <1>6 DEF Ordered
  <2>2. /\ Dist(from, ans[i].ackNum) \in Int /\ Dist(from, ans[j].ackNum) \in Int
        /\ Dist(from, num) \in Int
    BY <1>1, <1>2
  <2>3. /\ Dist(num, ans[i].ackNum) = Dist(from, ans[i].ackNum) - Dist(from, num)
        /\ Dist(num, ans[j].ackNum) = Dist(from, ans[j].ackNum) - Dist(from, num)
    BY <1>3
  <2>4. Dist(from, ans[i].ackNum) - Dist(from, num)
          <= Dist(from, ans[j].ackNum) - Dist(from, num)
    BY <2>1, <2>2, Shift
  <2> QED
    BY <2>3, <2>4
<1> QED
  BY <1>5, <1>6 DEF Ordered

-----------------------------------------------------------------------------
(* Datagrams on their way, and what the steps do to them                   *)

\* len bytes from position p on, sent under index n: they would fit the
\* receiver's buffer, a lap from acked on, and what it has or takes next,
\* up to position next, does not come round to n again.
Fits(p, n, k, acked, next) == At(p, n) /\ p + k <= acked + N - 1 /\ next <= p + N - 1

\* P are the positions of the datagrams d: none of them, taken in, makes a
\* later one look new.
Flight(d, P, acked, next) ==
  /\ Len(P) = Len(d)
  /\ \A i \in 1 .. Len(d) : Fits(P[i], d[i].seq, Len(d[i].data), acked, next)
  /\ \A i, j \in 1 .. Len(d) : i < j => P[i] + Len(d[i].data) <= P[j] + N - 1

\* Nor a datagram with position q, sent after them.
Follows(d, P, q) == \A i \in 1 .. Len(d) : P[i] + Len(d[i].data) <= q + N - 1

\* The bytes at these positions are those of the stream, written by now.
Genuine(d, P, w) ==
  \A i \in 1 .. Len(d) :
    /\ P[i] + Len(d[i].data) <= w
    /\ \A j \in 1 .. Len(d[i].data) : d[i].data[j] = P[i] + j - 1

LEMMA DatagramType ==
  ASSUME NEW d \in Seq(Datagram), NEW i \in 1 .. Len(d)
  PROVE  d[i].seq \in Pos /\ Len(d[i].data) \in Nat
<1>1. d[i] \in Datagram
  OBVIOUS
<1> QED
  BY <1>1 DEF Datagram

\* An acknowledgment only makes room.
LEMMA FlightWeaken ==
  ASSUME NEW d \in Seq(Datagram), NEW P \in Seq(Int), NEW a \in Int, NEW b \in Int,
         NEW e, a <= b, Flight(d, P, a, e)
  PROVE  Flight(d, P, b, e)
<1>1. \A i \in 1 .. Len(d) : P[i] \in Int /\ Len(d[i].data) \in Nat
  BY DatagramType DEF Flight
<1>2. N \in Int
  BY RingSize
<1> QED
  BY <1>1, <1>2 DEF Flight, Fits

\* The first datagram arrives or is lost.
LEMMA FlightTail ==
  ASSUME NEW d \in Seq(Datagram), NEW P \in Seq(Int), NEW a \in Int, NEW e \in Int,
         d # << >>, Flight(d, P, a, e)
  PROVE  /\ Tail(P) \in Seq(Int)
         /\ P[1] \in Int /\ Fits(P[1], Head(d).seq, Len(Head(d).data), a, e)
         /\ Flight(Tail(d), Tail(P), a, e)
         /\ Flight(Tail(d), Tail(P), a, P[1] + Len(Head(d).data))
         /\ \A q : Follows(d, P, q) => /\ Follows(Tail(d), Tail(P), q)
                                       /\ P[1] + Len(Head(d).data) <= q + N - 1
<1>1. /\ Tail(d) \in Seq(Datagram) /\ Len(d) \in Nat /\ Len(Tail(d)) = Len(d) - 1
      /\ \A i \in 1 .. Len(Tail(d)) : Tail(d)[i] = d[i + 1]
      /\ Head(d) = d[1] /\ Len(d) >= 1
  BY HeadTailProperties
<1>2. Len(P) = Len(d) /\ P # << >>
  BY <1>1 DEF Flight
<1>3. /\ Tail(P) \in Seq(Int) /\ Len(Tail(P)) = Len(d) - 1
      /\ \A i \in 1 .. Len(Tail(d)) : Tail(P)[i] = P[i + 1]
  BY <1>1, <1>2, HeadTailProperties
<1>4. \A i \in 1 .. Len(Tail(d)) : i + 1 \in 1 .. Len(d) /\ 1 < i + 1
  BY <1>1
<1>5. 1 \in 1 .. Len(d) /\ P[1] \in Int
  BY <1>1, <1>2
<1>6. \A i, j \in 1 .. Len(Tail(d)) : i < j => i + 1 < j + 1
  BY <1>1
<1>7. Fits(P[1], Head(d).seq, Len(Head(d).data), a, e)
  BY <1>1, <1>5 DEF Flight
<1>8. \A i, j \in 1 .. Len(Tail(d)) :
        i < j => Tail(P)[i] + Len(Tail(d)[i].data) <= Tail(P)[j] + N - 1
  BY <1>1, <1>3, <1>4, <1>6 DEF Flight
<1>9. \A i \in 1 .. Len(Tail(d)) :
        Fits(Tail(P)[i], Tail(d)[i].seq, Len(Tail(d)[i].data), a, e)
  BY <1>1, <1>3, <1>4 DEF Flight
<1>10. \A i \in 1 .. Len(Tail(d)) : P[1] + Len(Head(d).data) <= Tail(P)[i] + N - 1
  BY <1>1, <1>3, <1>4, <1>5 DEF Flight
<1>11. Flight(Tail(d), Tail(P), a, e)
  BY <1>1, <1>3, <1>8, <1>9 DEF Flight
<1>12. Flight(Tail(d), Tail(P), a, P[1] + Len(Head(d).data))
  <2>1. \A i \in 1 .. Len(Tail(d)) :
          Fits(Tail(P)[i], Tail(d)[i].seq, Len(Tail(d)[i].data), a,
               P[1] + Len(Head(d).data))
    BY <1>9, <1>10 DEF Fits
  <2> QED
    BY <1>1, <1>3, <1>8, <2>1 DEF Flight
<1>13. ASSUME NEW q, Follows(d, P, q)
       PROVE  /\ Follows(Tail(d), Tail(P), q)
              /\ P[1] + Len(Head(d).data) <= q + N - 1
  BY <1>1, <1>3, <1>4, <1>5, <1>13 DEF Follows
<1> QED
  BY <1>3, <1>5, <1>7, <1>11, <1>12, <1>13

\* sendto adds a datagram.
LEMMA FlightAppend ==
  ASSUME NEW d \in Seq(Datagram), NEW P \in Seq(Int), NEW a, NEW e, NEW m \in Datagram,
         NEW q \in Int, Flight(d, P, a, e), Follows(d, P, q),
         Fits(q, m.seq, Len(m.data), a, e)
  PROVE  Append(P, q) \in Seq(Int) /\ Flight(Append(d, m), Append(P, q), a, e)
<1> DEFINE f == Append(d, m)
           R == Append(P, q)
           n == Len(d)
<1>1. n \in Nat /\ Len(f) = n + 1 /\ f[n + 1] = m /\ \A i \in 1 .. n : f[i] = d[i]
  BY AppendProperties
<1>2. R \in Seq(Int) /\ Len(R) = n + 1 /\ R[n + 1] = q /\ \A i \in 1 .. n : R[i] = P[i]
  BY AppendProperties DEF Flight
<1> HIDE DEF f, R
<1>3. Len(P) = n /\ \A i \in 1 .. n : Fits(P[i], d[i].seq, Len(d[i].data), a, e)
  BY DEF Flight
<1>4. \A i, j \in 1 .. n : i < j => P[i] + Len(d[i].data) <= P[j] + N - 1
  BY DEF Flight
<1>5. \A i \in 1 .. n : P[i] + Len(d[i].data) <= q + N - 1
  BY DEF Follows
<1> HIDE DEF n
<1>6. \A i \in 1 .. n + 1 : i \in 1 .. n \/ i = n + 1
  BY <1>1
<1>7. \A i, j \in 1 .. n + 1 : i < j => i \in 1 .. n
  BY <1>1
<1>8. \A i \in 1 .. n + 1 : Fits(R[i], f[i].seq, Len(f[i].data), a, e)
  BY <1>1, <1>2, <1>3, <1>6
<1>9. \A i, j \in 1 .. n + 1 : i < j => R[i] + Len(f[i].data) <= R[j] + N - 1
  BY <1>1, <1>2, <1>4, <1>5, <1>6, <1>7
<1> QED
  BY <1>1, <1>2, <1>8, <1>9 DEF Flight, f, R

\* What lies after the last acknowledged byte may follow anything.
LEMMA FollowsNew ==
  ASSUME NEW d \in Seq(Datagram), NEW P \in Seq(Int), NEW a \in Int, NEW e,
         NEW q \in Int, Flight(d, P, a, e), a <= q
  PROVE  Follows(d, P, q)
<1>1. \A i \in 1 .. Len(d) : P[i] \in Int /\ Len(d[i].data) \in Nat
  BY DatagramType DEF Flight
<1>2. N \in Int
  BY RingSize
<1> QED
  BY <1>1, <1>2 DEF Flight, Fits, Follows


LEMMA GenuineMore ==
  ASSUME NEW d \in Seq(Datagram), NEW P \in Seq(Int), Len(P) = Len(d),
         NEW v \in Int, NEW w \in Int, v <= w, Genuine(d, P, v)
  PROVE  Genuine(d, P, w)
<1>1. \A i \in 1 .. Len(d) : P[i] \in Int /\ Len(d[i].data) \in Nat
  BY DatagramType
<1> QED
  BY <1>1 DEF Genuine

LEMMA GenuineTail ==
  ASSUME NEW d \in Seq(Datagram), NEW P \in Seq(Int), Len(P) = Len(d), d # << >>,
         NEW w, Genuine(d, P, w)
  PROVE  /\ Genuine(Tail(d), Tail(P), w)
         /\ P[1] + Len(Head(d).data) <= w
         /\ \A j \in 1 .. Len(Head(d).data) : Head(d).data[j] = P[1] + j - 1
<1> DEFINE f == Tail(d)
           R == Tail(P)
<1>1. /\ Len(f) = Len(d) - 1 /\ Head(d) = d[1] /\ 1 \in 1 .. Len(d) /\ Len(d) \in Nat
      /\ \A i \in 1 .. Len(f) : f[i] = d[i + 1] /\ i + 1 \in 1 .. Len(d)
  BY TailFacts
<1>2. P # << >>
  BY <1>1
<1>3. Len(R) = Len(d) - 1 /\ \A i \in 1 .. Len(R) : R[i] = P[i + 1]
  BY <1>2, HeadTailProperties
<1> HIDE DEF f, R
<1>4. ASSUME NEW i \in 1 .. Len(f)
      PROVE  /\ R[i] + Len(f[i].data) <= w
             /\ \A j \in 1 .. Len(f[i].data) : f[i].data[j] = R[i] + j - 1
  <2>1. f[i] = d[i + 1] /\ i + 1 \in 1 .. Len(d) /\ R[i] = P[i + 1]
    BY <1>1, <1>3
  <2> QED
    BY <2>1 DEF Genuine
<1>5. Genuine(f, R, w)
  BY <1>4 DEF Genuine
<1> QED
  BY <1>1, <1>5 DEF Genuine, f, R

LEMMA GenuineAppend ==
  ASSUME NEW d \in Seq(Datagram), NEW P \in Seq(Int), Len(P) = Len(d), NEW w,
         Genuine(d, P, w), NEW m \in Datagram, NEW q \in Int, q + Len(m.data) <= w,
         \A j \in 1 .. Len(m.data) : m.data[j] = q + j - 1
  PROVE  Genuine(Append(d, m), Append(P, q), w)
<1> DEFINE f == Append(d, m)
           R == Append(P, q)
           n == Len(d)
<1>1. n \in Nat /\ Len(f) = n + 1 /\ f[n + 1] = m /\ \A i \in 1 .. n : f[i] = d[i]
  BY AppendProperties
<1>2. R[n + 1] = q /\ \A i \in 1 .. n : R[i] = P[i]
  BY AppendProperties
<1>3. \A i \in 1 .. n : /\ P[i] + Len(d[i].data) <= w
                        /\ \A j \in 1 .. Len(d[i].data) : d[i].data[j] = P[i] + j - 1
  BY DEF Genuine
<1> HIDE DEF f, R, n
<1>4. \A i \in 1 .. n + 1 : i \in 1 .. n \/ i = n + 1
  BY <1>1
<1>5. ASSUME NEW i \in 1 .. n + 1
      PROVE  /\ R[i] + Len(f[i].data) <= w
             /\ \A j \in 1 .. Len(f[i].data) : f[i].data[j] = R[i] + j - 1
  <2>1. CASE i \in 1 .. n
    <3>1. f[i] = d[i] /\ R[i] = P[i]
      BY <1>1, <1>2, <2>1
    <3> QED
      BY <1>3, <2>1, <3>1
  <2>2. CASE i = n + 1
    <3>1. f[i] = m /\ R[i] = q
      BY <1>1, <1>2, <2>2
    <3> QED
      BY <3>1
  <2> QED
    BY <1>4, <2>1, <2>2
<1>6. Genuine(f, R, w)
  BY <1>1, <1>5 DEF Genuine
<1> QED
  BY <1>6 DEF f, R

-----------------------------------------------------------------------------
(* Positions in the stream                                                 *)

\* The bytes up to lastAcked; those received but not yet stored; the position
\* of the next byte that startRecv has not taken.
Acked    == written - Dist(lastAcked, lastWrite)
InHand   == IF brpc \in {"space", "wait", "copy", "publish"} THEN Len(bdata) ELSE 0
Expected == accepted + InHand

\* The indices are the positions, modulo the size of the buffers.
Located == At(written, lastWrite) /\ At(accepted, lastRecved)

\* The receiver is at most one lap ahead of what the sender knows it has.
Stored == Acked <= accepted /\ accepted <= Acked + N - 1 /\ Expected <= Acked + N - 1

\* Acknowledgments arrive in the order of their numbers, the one under test first.
AcksInOrder ==
  /\ Ordered(lastAcked, acks, lastRecved)
  /\ rpc = "check" => Before(lastAcked, rack, acks, lastRecved)

\* Datagrams are within a lap of the receiver, the retransmission under
\* construction included; without retransmissions they carry the stream.
OnTheWay ==
  \E P \in Seq(Int), q \in Int :
    /\ Flight(data, P, Acked, Expected)
    /\ spc = "resend" => Fits(q, sseq, sleft, Acked, Expected) /\ Follows(data, P, q)
    /\ ~ Retransmits => Genuine(data, P, written)

StreamInv == Located /\ Stored /\ AcksInOrder /\ OnTheWay

LEMMA Positions ==
  ASSUME HalvesInv, Located, Stored
  PROVE  /\ written \in Int /\ Acked \in Int /\ InHand \in Nat /\ Expected \in Int /\ accepted \in Int
         /\ At(Acked, lastAcked) /\ Acked <= written /\ written <= Acked + N - 1
         /\ Dist(lastAcked, lastRecved) = accepted - Acked
<1>1. /\ lastAcked \in Pos /\ lastWrite \in Pos /\ lastRecved \in Pos
      /\ written \in Int /\ accepted \in Int /\ Len(bdata) \in Nat
  BY SenderFacts, ReceiverFacts
<1>2. Dist(lastAcked, lastWrite) \in 0 .. N - 1
  BY <1>1, DistPos DEF Pos
<1>3. Acked \in Int /\ Acked <= written /\ written <= Acked + N - 1
  BY <1>1, <1>2, RingSize DEF Acked
<1>4. InHand \in Nat /\ Expected \in Int
  BY <1>1 DEF InHand, Expected
<1>5. At(Acked, lastAcked)
  BY <1>1, AtBack DEF Acked, Located
<1>6. Dist(lastAcked, lastRecved) = accepted - Acked
  BY <1>1, <1>3, <1>5, AtDist DEF Located, Stored
<1> QED
  BY <1>1, <1>3, <1>4, <1>5, <1>6

-----------------------------------------------------------------------------
(* Steps that leave the positions alone                                    *)

LEMMA FitsWeaken ==
  ASSUME NEW p \in Int, NEW n, NEW k \in Int, NEW a \in Int, NEW b \in Int, NEW e,
         a <= b, Fits(p, n, k, a, e)
  PROVE  Fits(p, n, k, b, e)
BY RingSize DEF Fits

\* An acknowledgment may make room; no datagram is added or taken.
LEMMA OnTheWayFrame ==
  ASSUME OnTheWay, Acked \in Int, Acked' \in Int, Acked <= Acked', Expected' = Expected,
         data \in Seq(Datagram), data' = data, sleft \in Int,
         written \in Int, written' \in Int, written <= written',
         spc' = "resend" => spc = "resend" /\ sseq' = sseq /\ sleft' = sleft
  PROVE  OnTheWay'
<1>1. PICK P \in Seq(Int), q \in Int :
        /\ Flight(data, P, Acked, Expected)
        /\ spc = "resend" => Fits(q, sseq, sleft, Acked, Expected) /\ Follows(data, P, q)
        /\ ~ Retransmits => Genuine(data, P, written)
  BY DEF OnTheWay
<1> DEFINE a == Acked
           b == Acked'
           e == Expected
<1>2. Flight(data, P, b, e)
  <2> HIDE DEF a, b, e
  <2>1. a \in Int /\ b \in Int /\ a <= b /\ Flight(data, P, a, e)
    BY <1>1 DEF a, b, e
  <2> QED
    BY <2>1, FlightWeaken
<1>3. spc = "resend" => Fits(q, sseq, sleft, b, e)
  <2>1. a \in Int /\ b \in Int /\ a <= b /\ (spc = "resend" => Fits(q, sseq, sleft, a, e))
    BY <1>1 DEF a, b, e
  <2> HIDE DEF a, b, e
  <2> QED
    BY <2>1, FitsWeaken
<1>4. Flight(data', P, Acked', Expected')
  BY <1>2
<1>7. ~ Retransmits => Genuine(data', P, written')
  BY <1>1, GenuineMore DEF Flight
<1>5. spc' = "resend" => Fits(q, sseq', sleft', Acked', Expected') /\ Follows(data', P, q)
  BY <1>1, <1>3
<1> HIDE DEF a, b, e
<1>6. \E R \in Seq(Int), r \in Int :
        /\ Flight(data', R, Acked', Expected')
        /\ spc' = "resend" => Fits(r, sseq', sleft', Acked', Expected') /\ Follows(data', R, r)
        /\ ~ Retransmits => Genuine(data', R, written')
  BY <1>4, <1>5, <1>7
<1> QED
  BY <1>6 DEF OnTheWay

LEMMA AcksFrame ==
  ASSUME AcksInOrder, lastAcked' = lastAcked, lastRecved' = lastRecved, acks' = acks,
         rpc' = "check" => rpc = "check" /\ rack' = rack
  PROVE  AcksInOrder'
BY DEF AcksInOrder

\* A step of the sender that neither stores a byte, nor accepts an
\* acknowledgment, nor starts or sends a retransmission.
LEMMA SenderQuiet ==
  ASSUME HalvesInv, StreamInv, UNCHANGED <<written, lastAcked, lastWrite>>,
         UNCHANGED rcvVars, UNCHANGED <<data, acks>>,
         rpc' = "check" => rpc = "check" /\ rack' = rack,
         spc' = "resend" => spc = "resend" /\ sseq' = sseq /\ sleft' = sleft
  PROVE  StreamInv'
<1>1. /\ lastRecved' = lastRecved /\ accepted' = accepted /\ brpc' = brpc
      /\ bdata' = bdata /\ Acked' = Acked /\ written' = written /\ lastWrite' = lastWrite
  BY DEF rcvVars, Acked
<1>2. Expected' = Expected
  BY <1>1 DEF Expected, InHand
<1>3. Located' /\ Stored'
  BY <1>1, <1>2 DEF StreamInv, Located, Stored
<1>4. AcksInOrder'
  BY <1>1, AcksFrame DEF StreamInv
<1>5. OnTheWay'
  <2>1. /\ Acked \in Int /\ sleft \in Int /\ data \in Seq(Datagram) /\ Acked <= Acked
        /\ written \in Int /\ written <= written
    BY Positions, SenderFacts DEF StreamInv, HalvesInv, NetOK
  <2> QED
    BY <1>1, <1>2, <2>1, OnTheWayFrame DEF StreamInv
<1> QED
  BY <1>3, <1>4, <1>5 DEF StreamInv

\* A step of the receiver that neither takes a segment in nor publishes one.
LEMMA ReceiverQuiet ==
  ASSUME HalvesInv, StreamInv, UNCHANGED <<accepted, lastRecved>>, InHand' = InHand,
         UNCHANGED sndVars, UNCHANGED data
  PROVE  Located' /\ Stored' /\ OnTheWay'
<1>1. /\ lastAcked' = lastAcked /\ written' = written /\ lastWrite' = lastWrite
      /\ spc' = spc /\ sseq' = sseq /\ sleft' = sleft
  BY DEF sndVars
<1>2. Acked' = Acked /\ Expected' = Expected
  BY <1>1 DEF Acked, Expected
<1>3. Located' /\ Stored'
  BY <1>1, <1>2 DEF StreamInv, Located, Stored
<1>4. OnTheWay'
  <2>1. /\ Acked \in Int /\ sleft \in Int /\ data \in Seq(Datagram) /\ Acked <= Acked
        /\ written \in Int /\ written <= written
    BY Positions, SenderFacts DEF StreamInv, HalvesInv, NetOK
  <2> QED
    BY <1>1, <1>2, <2>1, OnTheWayFrame DEF StreamInv
<1> QED
  BY <1>3, <1>4

-----------------------------------------------------------------------------
(* The steps of the sender                                                 *)

\* sendToResf stores a byte behind lastWrite.
LEMMA StoreByteKeeps == ASSUME HalvesInv, StreamInv, App PROVE StreamInv'
<1>1. CASE Snd!AStore
  <2>1. /\ lastWrite' = Add(lastWrite, 1) /\ written' = written + 1
        /\ UNCHANGED <<lastAcked, rcvVars, data, acks, rpc, rack, spc, sseq, sleft>>
        /\ apc = "store"
    BY <1>1 DEF Snd!AStore, Snd!Add, Add, Snd!sVars, Snd!rVars, App, netVars
  <2>2. /\ lastRecved' = lastRecved /\ accepted' = accepted /\ brpc' = brpc
        /\ bdata' = bdata
    BY <2>1 DEF rcvVars
  <2>3. 1 <= Room(lastAcked, lastWrite) /\ 1 \in Nat /\ 1 \in 0 .. N
        /\ lastAcked \in Pos /\ lastWrite \in Pos /\ written \in Int
    BY <2>1, SenderFacts, RingSize
  <2>4. Dist(lastAcked, lastWrite') = Dist(lastAcked, lastWrite) + 1
    BY <2>1, <2>3, Extend
  <2>5. Acked' = Acked
    BY <2>1, <2>3, <2>4, DistInt DEF Acked
  <2>6. Expected' = Expected
    BY <2>2 DEF Expected, InHand
  <2>7. At(written', lastWrite')
    BY <2>1, <2>3, AtAdd DEF StreamInv, Located
  <2>8. Located' /\ Stored'
    BY <2>2, <2>5, <2>6, <2>7 DEF StreamInv, Located, Stored
  <2>9. AcksInOrder'
    BY <2>1, <2>2, AcksFrame DEF StreamInv
  <2>10. /\ Acked \in Int /\ sleft \in Int /\ data \in Seq(Datagram) /\ Acked <= Acked
         /\ written \in Int /\ written + 1 \in Int /\ written <= written + 1
    BY Positions, SenderFacts DEF StreamInv, HalvesInv, NetOK
  <2>11. OnTheWay'
    BY <2>1, <2>5, <2>6, <2>10, OnTheWayFrame DEF StreamInv
  <2> QED
    BY <2>8, <2>9, <2>11 DEF StreamInv
<1>2. CASE ~ Snd!AStore
  <2>1. /\ UNCHANGED <<written, lastAcked, lastWrite>>
        /\ UNCHANGED <<rcvVars, data, acks, rpc, rack, spc, sseq, sleft>>
    BY <1>2 DEF App, Snd!ANext, Snd!ACall, Snd!ATestAbove, Snd!ATestBelow,
                Snd!ACalcRoom, Snd!AByte, Snd!APoll, Snd!ringVars, Snd!sVars,
                Snd!rVars, netVars
  <2> QED
    BY <2>1, SenderQuiet
<1> QED
  BY <1>1, <1>2

\* startSend: SUnacked limits the length of a retransmission.
LEMMA RtxMadeNext == ASSUME HalvesInv, RtxMade, [Next]_vars PROVE RtxMade'
<1>1. CASE SendThread
  <2>1. CASE Snd!SUnacked
    <3> DEFINE u == Snd!DistBy(sge, lastAcked, lastSent)
    <3>1. u \in Int /\ MSS \in Nat /\ MSS >= 1
      BY SenderFacts, HalfParams, SMTT(30) DEF Snd!DistBy, Pos
    <3>2. spc' \in {"seqnum", "resend"} => u > 0 /\ sleft' = Snd!SmallerOf(u, MSS)
      BY <2>1 DEF Snd!SUnacked
    <3> HIDE DEF u
    <3>3. spc' \in {"seqnum", "resend"} => sleft' \in 1 .. MSS
      BY <3>1, <3>2 DEF Snd!SmallerOf
    <3>4. Retransmits
      BY <2>1 DEF Snd!SUnacked, RtxMade
    <3> QED
      BY <3>3, <3>4 DEF RtxMade
  <2>2. CASE ~ Snd!SUnacked
    BY <1>1, <2>2 DEF RtxMade, SendThread, Snd!SWake, Snd!SLock, Snd!SWindow, Snd!SUnsent,
       Snd!SBudget, Snd!SAdvance, Snd!SSeqNum, Snd!STimers
  <2> QED
    BY <2>1, <2>2
<1>2. CASE ~ SendThread
  <2>1. (spc' = spc /\ sleft' = sleft) \/ spc' \notin {"unacked", "seqnum", "resend"}
    BY <1>2 DEF Next, vars, App, Snd!ANext, Snd!ACall, Snd!ATestAbove, Snd!ATestBelow,
       Snd!ACalcRoom, Snd!AByte, Snd!APoll, Snd!AStore, Snd!sVars, SendData, Snd!SSend,
       Snd!SResend, TakeAck, Snd!RRecv, CheckAck, Snd!RCheck, TakeData, StoreData,
       SendAck, Reader, Lose, sndVars
  <2> QED
    BY <2>1 DEF RtxMade
<1> QED
  BY <1>1, <1>2

\* startSend without its sendto.  A retransmission gets the number lastAcked.
LEMMA ThreadKeeps ==
  ASSUME HalvesInv, RtxMade, StreamInv, SendThread
  PROVE  StreamInv'
<1>1. CASE Snd!SSeqNum
  <2>1. /\ UNCHANGED <<written, lastAcked, lastWrite, rcvVars, data, acks, rpc, rack, sleft>>
        /\ spc = "seqnum" /\ sseq' = lastAcked
    BY <1>1 DEF SendThread, Snd!SSeqNum, Snd!ringVars, Snd!rVars, netVars
  <2>2. /\ lastRecved' = lastRecved /\ accepted' = accepted /\ brpc' = brpc
        /\ bdata' = bdata /\ Acked' = Acked
    BY <2>1 DEF rcvVars, Acked
  <2>3. Expected' = Expected
    BY <2>2 DEF Expected, InHand
  <2>4. Located' /\ Stored'
    BY <2>1, <2>2, <2>3 DEF StreamInv, Located, Stored
  <2>5. AcksInOrder'
    BY <2>1, <2>2, AcksFrame DEF StreamInv
  <2>6. PICK P \in Seq(Int) : /\ Flight(data, P, Acked, Expected)
                              /\ ~ Retransmits => Genuine(data, P, written)
    BY DEF StreamInv, OnTheWay
  <2>7. /\ Acked \in Int /\ data \in Seq(Datagram) /\ Acked <= Acked
        /\ At(Acked, lastAcked) /\ sleft \in 1 .. MSS /\ Expected <= Acked + N - 1
    BY <2>1, Positions DEF StreamInv, HalvesInv, NetOK, RtxMade, Stored
  <2>8. Follows(data, P, Acked)
    <3> DEFINE a == Acked
               e == Expected
    <3>1. a \in Int /\ a <= a /\ Flight(data, P, a, e)
      BY <2>6, <2>7
    <3> HIDE DEF a, e
    <3>2. Follows(data, P, a)
      BY <2>7, <3>1, FollowsNew
    <3> QED
      BY <3>2 DEF a
  <2>9. Fits(Acked, lastAcked, sleft, Acked, Expected)
    <3>1. Acked + sleft <= Acked + N - 1
      BY <2>7, HalfParams
    <3> QED
      BY <2>7, <3>1 DEF Fits
  <2>10. \E R \in Seq(Int), r \in Int :
           /\ Flight(data', R, Acked', Expected')
           /\ spc' = "resend" => Fits(r, sseq', sleft', Acked', Expected') /\ Follows(data', R, r)
           /\ ~ Retransmits => Genuine(data', R, written')
    BY <2>1, <2>2, <2>3, <2>6, <2>7, <2>8, <2>9
  <2>11. OnTheWay'
    BY <2>10 DEF OnTheWay
  <2> QED
    BY <2>4, <2>5, <2>11 DEF StreamInv
<1>2. CASE ~ Snd!SSeqNum
  <2>1. /\ UNCHANGED <<written, lastAcked, lastWrite, rcvVars, data, acks, rpc, rack>>
        /\ spc' # "resend"
    BY <1>2 DEF SendThread, Snd!SWake, Snd!SLock, Snd!SWindow, Snd!SUnsent,
       Snd!SBudget, Snd!SAdvance, Snd!SUnacked, Snd!STimers, Snd!ringVars, Snd!rVars,
       netVars
  <2> QED
    BY <2>1, SenderQuiet
<1> QED
  BY <1>1, <1>2

\* A datagram with a position that follows those under way is sent.
LEMMA SendKeeps ==
  ASSUME HalvesInv, StreamInv, UNCHANGED <<written, lastAcked, lastWrite>>,
         UNCHANGED <<rcvVars, acks, rpc, rack>>, spc' # "resend",
         NEW m \in Datagram, data' = Append(data, m),
         NEW P \in Seq(Int), Flight(data, P, Acked, Expected),
         NEW q \in Int, Fits(q, m.seq, Len(m.data), Acked, Expected), Follows(data, P, q),
         ~ Retransmits => /\ Genuine(data, P, written)
                          /\ q + Len(m.data) <= written
                          /\ \A j \in 1 .. Len(m.data) : m.data[j] = q + j - 1
  PROVE  StreamInv'
<1>1. /\ lastRecved' = lastRecved /\ accepted' = accepted /\ brpc' = brpc
      /\ bdata' = bdata /\ Acked' = Acked
  BY DEF rcvVars, Acked
<1>2. Expected' = Expected
  BY <1>1 DEF Expected, InHand
<1>3. Located' /\ Stored'
  BY <1>1, <1>2 DEF StreamInv, Located, Stored
<1>4. AcksInOrder'
  BY <1>1, AcksFrame DEF StreamInv
<1>5. Append(P, q) \in Seq(Int) /\ Flight(Append(data, m), Append(P, q), Acked, Expected)
  <2> DEFINE a == Acked
             e == Expected
  <2>1. /\ data \in Seq(Datagram) /\ Flight(data, P, a, e)
        /\ Fits(q, m.seq, Len(m.data), a, e)
    BY DEF HalvesInv, NetOK
  <2> HIDE DEF a, e
  <2>2. Append(P, q) \in Seq(Int) /\ Flight(Append(data, m), Append(P, q), a, e)
    BY <2>1, FlightAppend
  <2> QED
    BY <2>2 DEF a, e
<1>6. \E R \in Seq(Int), r \in Int :
        /\ Flight(data', R, Acked', Expected')
        /\ spc' = "resend" => Fits(r, sseq', sleft', Acked', Expected') /\ Follows(data', R, r)
        /\ ~ Retransmits => Genuine(data', R, written')
  <2>1. ~ Retransmits => Genuine(Append(data, m), Append(P, q), written)
    <3>1. data \in Seq(Datagram) /\ Len(P) = Len(data)
      BY DEF HalvesInv, NetOK, Flight
    <3> QED
      BY <3>1, GenuineAppend
  <2> QED
    BY <1>1, <1>2, <1>5, <2>1
<1>7. OnTheWay'
  BY <1>6 DEF OnTheWay
<1> QED
  BY <1>3, <1>4, <1>7 DEF StreamInv

\* sendto in prepareAndSend sends what lies between lastSent and lastWrite, the
\* one in retransmit what SUnacked and SSeqNum prepared.
LEMMA SendDataKeeps ==
  ASSUME HalvesInv, RtxMade, StreamInv, SendData
  PROVE  StreamInv'
<1>1. PICK P \in Seq(Int), q \in Int :
        /\ Flight(data, P, Acked, Expected)
        /\ spc = "resend" => Fits(q, sseq, sleft, Acked, Expected) /\ Follows(data, P, q)
        /\ ~ Retransmits => Genuine(data, P, written)
  BY DEF StreamInv, OnTheWay
<1>2. /\ UNCHANGED <<written, lastAcked, lastWrite>>
      /\ UNCHANGED <<rcvVars, acks, rpc, rack>> /\ spc' # "resend"
  BY DEF SendData, Snd!SSend, Snd!SResend, Snd!ringVars, Snd!rVars
<1>3. CASE Snd!SSend /\ data' = Append(data, Snd!NewSegment(sleft))
  <2> DEFINE m == Snd!NewSegment(sleft)
             d == Dist(lastAcked, lastSent)
             r == Acked + d
             a == Acked
             e == Expected
  <2>1. m \in Datagram /\ m.seq = lastSent /\ Len(m.data) \in Nat
        /\ Len(m.data) <= Dist(lastSent, lastWrite)
        /\ \A j \in 1 .. Len(m.data) :
             m.data[j] = written - Dist(lastSent, lastWrite) + j - 1
    BY <1>3, NewSegmentType DEF Snd!SSend
  <2>2. /\ a \in Int /\ At(a, lastAcked) /\ lastAcked \in Pos /\ lastSent \in Pos
        /\ lastWrite \in Pos
        /\ d + Dist(lastSent, lastWrite) <= N - 1
        /\ e <= a + N - 1 /\ e \in Int /\ data \in Seq(Datagram) /\ Flight(data, P, a, e)
    BY <1>1, Positions, SenderFacts DEF StreamInv, Stored, HalvesInv, NetOK
  <2>3. d \in Int /\ d \in 0 .. N /\ d >= 0 /\ Add(lastAcked, d) = lastSent
        /\ Dist(lastSent, lastWrite) \in Int
    <3>1. d \in Pos /\ Add(lastAcked, d) = lastSent /\ Dist(lastSent, lastWrite) \in Int
      BY <2>2, DistPos, DistInt
    <3> HIDE DEF d
    <3> QED
      BY <3>1, RingSize DEF Pos
  <2> HIDE DEF d, m, a, e
  <2>4. a + d \in Int /\ a <= a + d /\ At(a + d, lastSent)
    BY <2>2, <2>3, AtAdd
  <2>5. Follows(data, P, a + d)
    BY <2>2, <2>4, FollowsNew
  <2>6. a + d + Len(m.data) <= a + N - 1 /\ e <= a + d + N - 1
    <3>1. d + Len(m.data) <= N - 1
      BY <2>1, <2>2, <2>3, RingSize
    <3>2. a \in Int /\ d \in Int /\ d >= 0 /\ Len(m.data) \in Int /\ e \in Int
          /\ N \in Int /\ e <= a + N - 1
      BY <2>1, <2>2, <2>3, RingSize
    <3>3. a + d + Len(m.data) <= a + N - 1
      <4> DEFINE l == Len(m.data)
      <4>1. l \in Int /\ d + l <= N - 1
        BY <3>1, <3>2
      <4> HIDE DEF l
      <4>2. a + d + l <= a + N - 1
        BY <3>2, <4>1
      <4> QED
        BY <4>2 DEF l
    <3>4. e <= a + d + N - 1
      BY <3>2
    <3> QED
      BY <3>3, <3>4
  <2>7. Fits(a + d, m.seq, Len(m.data), a, e)
    BY <2>1, <2>4, <2>6 DEF Fits
  <2>8. data' = Append(data, m)
    BY <1>3 DEF m
  <2>9. Fits(a + d, m.seq, Len(m.data), Acked, Expected)
    BY <2>7 DEF a, e
  <2>10. a + d = written - Dist(lastSent, lastWrite) /\ written \in Int
    <3>1. /\ Dist(lastAcked, lastWrite) = d + Dist(lastSent, lastWrite)
          /\ Dist(lastAcked, lastWrite) \in Int
      BY <2>2, <2>3, DistChain, DistInt, RingSize DEF d
    <3>2. a = written - Dist(lastAcked, lastWrite) /\ written \in Int
      BY SenderFacts DEF a, Acked
    <3> QED
      BY <2>2, <2>3, <3>1, <3>2
  <2>11. a + d + Len(m.data) <= written
    BY <2>1, <2>3, <2>10
  <2>12. \A j \in 1 .. Len(m.data) : m.data[j] = a + d + j - 1
    BY <2>1, <2>10
  <2> QED
    BY <1>1, <1>2, <2>1, <2>4, <2>5, <2>8, <2>9, <2>11, <2>12, SendKeeps
<1>4. CASE Snd!SResend /\ data' = Append(data, Snd!RtxSegment)
  <2> DEFINE m == Snd!RtxSegment
  <2>1. spc = "resend" /\ sleft \in 1 .. MSS /\ Retransmits
    BY <1>4 DEF Snd!SResend, RtxMade
  <2>2. m \in Datagram /\ m.seq = sseq /\ Len(m.data) = sleft
    BY <2>1, RtxSegmentType
  <2>3. data' = Append(data, m)
    BY <1>4
  <2> HIDE DEF m
  <2>4. Fits(q, m.seq, Len(m.data), Acked, Expected) /\ Follows(data, P, q)
    BY <1>1, <2>1, <2>2
  <2>5. ~ Retransmits => /\ Genuine(data, P, written)
                         /\ q + Len(m.data) <= written
                         /\ \A j \in 1 .. Len(m.data) : m.data[j] = q + j - 1
    BY <2>1, Zenon
  <2> QED
    BY <1>1, <1>2, <2>2, <2>3, <2>4, <2>5, SendKeeps
<1> QED
  BY <1>3, <1>4 DEF SendData

\* startRecv takes an acknowledgment, and tests it if the number is new.
LEMMA TakeAckKeeps == ASSUME HalvesInv, StreamInv, TakeAck PROVE StreamInv'
<1>1. /\ UNCHANGED <<written, lastAcked, lastWrite, lastSent, rcvVars, data>>
      /\ UNCHANGED <<spc, sseq, sleft>> /\ acks # << >> /\ acks' = Tail(acks)
      /\ rpc = "recv" /\ (rpc' = "check" => rack' = Head(acks).ackNum)
  BY DEF TakeAck, Snd!RRecv, Snd!ringVars, Snd!sVars
<1>2. /\ lastRecved' = lastRecved /\ accepted' = accepted /\ brpc' = brpc
      /\ bdata' = bdata /\ Acked' = Acked
  BY <1>1 DEF rcvVars, Acked
<1>3. Expected' = Expected
  BY <1>2 DEF Expected, InHand
<1>4. Located' /\ Stored'
  BY <1>1, <1>2, <1>3 DEF StreamInv, Located, Stored
<1>5. Acked \in Int /\ sleft \in Int /\ data \in Seq(Datagram) /\ Acked <= Acked
      /\ acks \in Seq(Answer) /\ lastAcked \in Pos /\ lastRecved \in Pos
      /\ written \in Int /\ written <= written
  BY Positions, SenderFacts, ReceiverFacts DEF StreamInv, HalvesInv, NetOK
<1>6. OnTheWay'
  BY <1>1, <1>2, <1>3, <1>5, OnTheWayFrame DEF StreamInv
<1>7. /\ Ordered(lastAcked, Tail(acks), lastRecved)
      /\ Before(lastAcked, Head(acks).ackNum, Tail(acks), lastRecved)
  BY <1>1, <1>5, OrderedTail DEF StreamInv, AcksInOrder
<1>8. AcksInOrder'
  BY <1>1, <1>2, <1>7 DEF AcksInOrder
<1> QED
  BY <1>4, <1>6, <1>8 DEF StreamInv

\* A number that passes the test lies between lastAcked and lastSent.
LEMMA AcceptedNumber ==
  ASSUME HalvesInv, rpc = "check", Snd!Acceptable
  PROVE  Dist(lastAcked, rack) <= Dist(lastAcked, lastSent)
<1>1. /\ lastAcked \in Pos /\ lastSent \in Pos /\ rack \in Pos
      /\ rge \in BOOLEAN /\ (~rge => lastSent < lastAcked)
  BY SenderFacts DEF HalvesInv, SP!TypeOK
<1>2. CASE rge
  BY <1>1, <1>2, RingSize DEF Snd!Acceptable, Pos, Dist, DistBy
<1>3. CASE ~rge
  BY <1>1, <1>3, RingSize DEF Snd!Acceptable, Pos, Dist, DistBy
<1> QED
  BY <1>1, <1>2, <1>3

\* startRecv takes the number over.
LEMMA CheckAckKeeps == ASSUME HalvesInv, StreamInv, CheckAck PROVE StreamInv'
<1>1. /\ UNCHANGED <<written, lastWrite, lastSent, rcvVars, data, acks>>
      /\ UNCHANGED <<spc, sseq, sleft>> /\ rpc = "check" /\ rpc' # "check"
      /\ lastAcked' = IF Snd!Acceptable THEN rack ELSE lastAcked
  BY DEF CheckAck, Snd!RCheck, Snd!sVars, netVars
<1>2. /\ lastRecved' = lastRecved /\ accepted' = accepted /\ brpc' = brpc
      /\ bdata' = bdata
  BY <1>1 DEF rcvVars
<1>3. CASE Snd!Acceptable
  <2> DEFINE k == Dist(lastAcked, rack)
  <2>1. /\ lastAcked \in Pos /\ lastSent \in Pos /\ lastWrite \in Pos /\ rack \in Pos
        /\ lastRecved \in Pos /\ acks \in Seq(Answer)
        /\ Dist(lastAcked, lastSent) + Dist(lastSent, lastWrite) <= N - 1
    BY SenderFacts, ReceiverFacts DEF HalvesInv, NetOK
  <2>2. k <= Dist(lastAcked, lastSent)
    BY <1>1, <1>3, AcceptedNumber
  <2>3. k \in Pos /\ Dist(lastAcked, lastSent) \in Pos /\ Dist(lastSent, lastWrite) \in Pos
    BY <2>1, DistPos
  <2>4. Dist(lastAcked, lastWrite) = Dist(lastAcked, lastSent) + Dist(lastSent, lastWrite)
    BY <2>1, <2>3, RingSize, DistChain DEF Pos
  <2>5. k <= Dist(lastAcked, lastWrite)
    BY <2>2, <2>3, <2>4 DEF Pos
  <2>6. Dist(rack, lastWrite) = Dist(lastAcked, lastWrite) - k
    BY <2>1, <2>5, DistAfter
  <2>7. Before(lastAcked, rack, acks, lastRecved) /\ Ordered(lastAcked, acks, lastRecved)
    BY <1>1 DEF StreamInv, AcksInOrder
  <2>8. k <= Dist(lastAcked, lastRecved)
    BY <2>7 DEF Before
  <2>9. /\ Acked \in Int /\ Dist(lastAcked, lastRecved) = accepted - Acked
        /\ accepted \in Int /\ Expected \in Int
        /\ accepted <= Acked + N - 1 /\ Expected <= Acked + N - 1
        /\ sleft \in Int /\ data \in Seq(Datagram) /\ written \in Int /\ written <= written
    BY Positions, SenderFacts DEF StreamInv, Stored, HalvesInv, NetOK
  <2>10. lastAcked' = rack
    BY <1>1, <1>3
  <2>11. Acked' = written - Dist(rack, lastWrite)
    BY <1>1, <2>10 DEF Acked
  <2>12. Acked = written - Dist(lastAcked, lastWrite) /\ Dist(lastAcked, lastWrite) \in Int
    BY <2>1, DistInt DEF Acked
  <2>13. k \in Int /\ 0 <= k
    BY <2>3 DEF Pos
  <2> HIDE DEF k
  <2>14. Acked' = Acked + k
    BY <2>6, <2>9, <2>11, <2>12, <2>13
  <2>15. Expected' = Expected
    BY <1>2 DEF Expected, InHand
  <2>16. Acked + k \in Int /\ Acked <= Acked + k /\ Acked + k <= accepted
    BY <2>8, <2>9, <2>13
  <2>17. accepted <= Acked + k + N - 1 /\ Expected <= Acked + k + N - 1
    BY <2>9, <2>13, RingSize
  <2>18. Located' /\ Stored'
    BY <1>1, <1>2, <2>14, <2>15, <2>16, <2>17 DEF StreamInv, Located, Stored
  <2>19. OnTheWay'
    BY <1>1, <2>9, <2>14, <2>15, <2>16, OnTheWayFrame DEF StreamInv
  <2>20. Ordered(rack, acks, lastRecved)
    BY <2>1, <2>7, OrderedFrom
  <2>21. AcksInOrder'
    BY <1>1, <1>2, <2>10, <2>20 DEF AcksInOrder
  <2> QED
    BY <2>18, <2>19, <2>21 DEF StreamInv
<1>4. CASE ~ Snd!Acceptable
  BY <1>1, <1>4, SenderQuiet
<1> QED
  BY <1>3, <1>4

-----------------------------------------------------------------------------
(* The steps of the receiver, and losses                                   *)

\* The first datagram under way may go, taken in or lost.
LEMMA FirstDatagram ==
  ASSUME HalvesInv, StreamInv, data # << >>
  PROVE  \E p \in Int, P \in Seq(Int), q \in Int :
           /\ Fits(p, Head(data).seq, Len(Head(data).data), Acked, Expected)
           /\ Flight(Tail(data), P, Acked, Expected)
           /\ Flight(Tail(data), P, Acked, p + Len(Head(data).data))
           /\ spc = "resend" =>
                /\ Fits(q, sseq, sleft, Acked, Expected)
                /\ Fits(q, sseq, sleft, Acked, p + Len(Head(data).data))
                /\ Follows(Tail(data), P, q)
           /\ ~ Retransmits =>
                /\ Genuine(Tail(data), P, written)
                /\ p + Len(Head(data).data) <= written
                /\ \A j \in 1 .. Len(Head(data).data) : Head(data).data[j] = p + j - 1
<1>1. PICK P \in Seq(Int), q \in Int :
        /\ Flight(data, P, Acked, Expected)
        /\ spc = "resend" => Fits(q, sseq, sleft, Acked, Expected) /\ Follows(data, P, q)
        /\ ~ Retransmits => Genuine(data, P, written)
  BY DEF StreamInv, OnTheWay
<1> DEFINE a == Acked
           e == Expected
<1>2. a \in Int /\ e \in Int /\ data \in Seq(Datagram) /\ Flight(data, P, a, e)
  BY <1>1, Positions DEF StreamInv, HalvesInv, NetOK
<1>3. spc = "resend" => Fits(q, sseq, sleft, a, e) /\ Follows(data, P, q)
  BY <1>1
<1> HIDE DEF a, e
<1>4. /\ Tail(P) \in Seq(Int)
      /\ P[1] \in Int /\ Fits(P[1], Head(data).seq, Len(Head(data).data), a, e)
      /\ Flight(Tail(data), Tail(P), a, e)
      /\ Flight(Tail(data), Tail(P), a, P[1] + Len(Head(data).data))
      /\ \A r : Follows(data, P, r) => /\ Follows(Tail(data), Tail(P), r)
                                       /\ P[1] + Len(Head(data).data) <= r + N - 1
  BY <1>2, FlightTail
<1>5. spc = "resend" => /\ Fits(q, sseq, sleft, a, P[1] + Len(Head(data).data))
                        /\ Follows(Tail(data), Tail(P), q)
  BY <1>3, <1>4 DEF Fits
<1>7. ~ Retransmits =>
        /\ Genuine(Tail(data), Tail(P), written)
        /\ P[1] + Len(Head(data).data) <= written
        /\ \A j \in 1 .. Len(Head(data).data) : Head(data).data[j] = P[1] + j - 1
  BY <1>1, <1>2, GenuineTail DEF Flight
<1>6. \E p \in Int, R \in Seq(Int), r \in Int :
        /\ Fits(p, Head(data).seq, Len(Head(data).data), a, e)
        /\ Flight(Tail(data), R, a, e)
        /\ Flight(Tail(data), R, a, p + Len(Head(data).data))
        /\ spc = "resend" =>
             /\ Fits(r, sseq, sleft, a, e)
             /\ Fits(r, sseq, sleft, a, p + Len(Head(data).data))
             /\ Follows(Tail(data), R, r)
        /\ ~ Retransmits =>
             /\ Genuine(Tail(data), R, written)
             /\ p + Len(Head(data).data) <= written
             /\ \A j \in 1 .. Len(Head(data).data) : Head(data).data[j] = p + j - 1
  BY <1>3, <1>4, <1>5, <1>7
<1> QED
  BY <1>6 DEF a, e

LEMMA HeadPosition ==
  ASSUME HalvesInv, StreamInv, data # << >>, brpc = "recv", Head(data).seq = lastRecved,
         NEW p \in Int, Fits(p, Head(data).seq, Len(Head(data).data), Acked, Expected)
  PROVE  p = accepted
<1> DEFINE k == Len(Head(data).data)
<1>1. k \in Nat
  <2>1. Head(data) \in Datagram
    BY DEF HalvesInv, NetOK
  <2> QED
    BY <2>1 DEF Datagram
<1>2. Acked \in Int /\ accepted \in Int /\ Acked <= accepted /\ accepted <= Acked + N - 1
  BY Positions DEF StreamInv, Stored
<1>3. Expected = accepted
  BY <1>2 DEF Expected, InHand
<1>4. At(p, lastRecved) /\ p + k <= Acked + N - 1 /\ accepted <= p + N - 1
  BY <1>3 DEF Fits
<1> HIDE DEF k
<1>5. p <= accepted + N - 1
  BY <1>1, <1>2, <1>4, RingSize
<1> QED
  BY <1>2, <1>4, <1>5, AtUnique DEF StreamInv, Located

\* startRecv takes the segment with the number lastRecved; that is the one
\* whose position is accepted, and not a lap before or after it.
LEMMA TakeDataKeeps == ASSUME HalvesInv, StreamInv, TakeData PROVE StreamInv'
<1> DEFINE k == Len(Head(data).data)
<1>1. /\ UNCHANGED <<sndVars, accepted, lastRecved, acks>> /\ data # << >>
      /\ data' = Tail(data) /\ brpc = "recv"
      /\ IF Head(data).seq = lastRecved THEN brpc' = "space" /\ bdata' = Head(data).data
                                        ELSE brpc' = "recv"
  BY DEF TakeData, Rcv!RArrive, Rcv!indexVars
<1>2. PICK p \in Int, P \in Seq(Int), q \in Int :
        /\ Fits(p, Head(data).seq, k, Acked, Expected)
        /\ Flight(Tail(data), P, Acked, Expected)
        /\ Flight(Tail(data), P, Acked, p + k)
        /\ spc = "resend" =>
             /\ Fits(q, sseq, sleft, Acked, Expected)
             /\ Fits(q, sseq, sleft, Acked, p + k)
             /\ Follows(Tail(data), P, q)
        /\ ~ Retransmits => Genuine(Tail(data), P, written)
  BY <1>1, FirstDatagram
<1>3. k \in Nat
  <2>1. Head(data) \in Datagram
    BY <1>1 DEF HalvesInv, NetOK
  <2> QED
    BY <2>1 DEF Datagram
<1> HIDE DEF k
<1>4. /\ lastAcked' = lastAcked /\ written' = written /\ lastWrite' = lastWrite
      /\ spc' = spc /\ sseq' = sseq /\ sleft' = sleft /\ rpc' = rpc /\ rack' = rack
      /\ Acked' = Acked
  BY <1>1 DEF sndVars, Acked
<1>5. Acked \in Int /\ accepted \in Int /\ Acked <= accepted /\ accepted <= Acked + N - 1
  BY Positions DEF StreamInv, Stored
<1>6. Expected = accepted
  BY <1>1, <1>5 DEF Expected, InHand
<1>7. AcksInOrder'
  BY <1>1, <1>4, AcksFrame DEF StreamInv
<1>8. CASE Head(data).seq = lastRecved
  <2>1. p + k <= Acked + N - 1
    BY <1>2 DEF Fits
  <2>3. p = accepted
    BY <1>1, <1>2, <1>8, HeadPosition DEF k
  <2>4. Expected' = p + k
    BY <1>1, <1>8, <2>3 DEF Expected, InHand, k
  <2>5. Located' /\ Stored'
    BY <1>1, <1>4, <2>1, <2>4 DEF StreamInv, Located, Stored
  <2>6. \E R \in Seq(Int), r \in Int :
          /\ Flight(data', R, Acked', Expected')
          /\ spc' = "resend" => Fits(r, sseq', sleft', Acked', Expected') /\ Follows(data', R, r)
          /\ ~ Retransmits => Genuine(data', R, written')
    BY <1>1, <1>2, <1>4, <2>4
  <2> QED
    BY <1>7, <2>5, <2>6 DEF StreamInv, OnTheWay
<1>9. CASE Head(data).seq # lastRecved
  <2>1. Expected' = Expected
    BY <1>1, <1>9 DEF Expected, InHand
  <2>2. Located' /\ Stored'
    BY <1>1, <1>4, <2>1 DEF StreamInv, Located, Stored
  <2>3. \E R \in Seq(Int), r \in Int :
          /\ Flight(data', R, Acked', Expected')
          /\ spc' = "resend" => Fits(r, sseq', sleft', Acked', Expected') /\ Follows(data', R, r)
          /\ ~ Retransmits => Genuine(data', R, written')
    BY <1>1, <1>2, <1>4, <2>1
  <2> QED
    BY <1>7, <2>2, <2>3 DEF StreamInv, OnTheWay
<1> QED
  BY <1>8, <1>9

\* startRecv publishes the segment in hand through lastRecved.
LEMMA StoreDataKeeps == ASSUME HalvesInv, StreamInv, StoreData PROVE StreamInv'
<1>1. UNCHANGED sndVars /\ UNCHANGED <<data, acks, rpc, rack>> /\ lastAcked' = lastAcked
  BY DEF StoreData, sndVars, netVars
<1>2. CASE Rcv!RPublish
  <2> DEFINE k == Len(bdata)
  <2>1. /\ lastRecved' = Add(lastRecved, k) /\ accepted' = accepted + k
        /\ brpc = "publish" /\ brpc' = "ack" /\ k \in Nat
    BY <1>2, ReceiverFacts DEF Rcv!RPublish, Rcv!Add, Add
  <2>2. InHand = k /\ Expected = accepted + k
    BY <2>1 DEF InHand, Expected
  <2> HIDE DEF k
  <2>3. /\ Acked \in Int /\ accepted \in Int /\ Dist(lastAcked, lastRecved) = accepted - Acked
        /\ Acked <= accepted /\ accepted + k <= Acked + N - 1
        /\ lastAcked \in Pos /\ lastRecved \in Pos /\ acks \in Seq(Answer)
        /\ sleft \in Int /\ data \in Seq(Datagram) /\ Acked <= Acked
        /\ written \in Int /\ written <= written
    BY <2>2, Positions, SenderFacts, ReceiverFacts, SMTT(30) DEF StreamInv, Stored, HalvesInv, NetOK
  <2>4. k <= Room(lastAcked, lastRecved) /\ k \in 0 .. N
    BY <2>1, <2>3, RingSize DEF Room
  <2>5. Acked' = Acked /\ written' = written /\ lastWrite' = lastWrite
        /\ spc' = spc /\ sseq' = sseq /\ sleft' = sleft
    BY <1>1 DEF Acked, sndVars
  <2>6. Expected' = Expected
    BY <2>1, <2>2, <2>3 DEF Expected, InHand
  <2>7. At(accepted', lastRecved')
    BY <2>1, <2>3, <2>4, AtAdd DEF StreamInv, Located
  <2>8. Acked' <= accepted' /\ accepted' <= Acked' + N - 1
    BY <2>1, <2>3, <2>5
  <2>9. Located' /\ Stored'
    BY <2>5, <2>6, <2>7, <2>8 DEF StreamInv, Located, Stored
  <2>10. Ordered(lastAcked, acks, Add(lastRecved, k))
    BY <2>1, <2>3, <2>4, OrderedExtend DEF StreamInv, AcksInOrder
  <2>11. rpc = "check" => Before(lastAcked, rack, acks, Add(lastRecved, k))
    <3>1. rack \in Pos
      BY SenderFacts
    <3> QED
      BY <2>1, <2>3, <2>4, <3>1, OrderedExtend DEF StreamInv, AcksInOrder
  <2>12. AcksInOrder'
    BY <1>1, <2>1, <2>10, <2>11 DEF AcksInOrder
  <2>13. OnTheWay'
    BY <1>1, <2>3, <2>5, <2>6, OnTheWayFrame DEF StreamInv
  <2> QED
    BY <2>9, <2>12, <2>13 DEF StreamInv
<1>3. CASE ~ Rcv!RPublish
  <2>1. /\ UNCHANGED <<accepted, lastRecved>> /\ bdata' = bdata
        /\ \/ brpc \in {"space", "wait", "copy"} /\ brpc' \in {"space", "wait", "copy", "publish"}
           \/ brpc = "ack" /\ brpc' = "send"
    BY <1>3 DEF StoreData, Rcv!RSpace, Rcv!RWake, Rcv!RCopy, Rcv!RAckTest, Rcv!indexVars
  <2>2. InHand' = InHand
    BY <2>1 DEF InHand
  <2>3. AcksInOrder'
    BY <1>1, <2>1, AcksFrame DEF StreamInv
  <2> QED
    BY <1>1, <2>1, <2>2, <2>3, ReceiverQuiet DEF StreamInv
<1> QED
  BY <1>2, <1>3

\* The answer bears the number lastRecved.
LEMMA SendAckKeeps == ASSUME HalvesInv, StreamInv, SendAck PROVE StreamInv'
<1>1. /\ UNCHANGED sndVars /\ UNCHANGED <<data, rpc, rack, lastAcked>>
      /\ UNCHANGED <<accepted, lastRecved>> /\ acks' = Append(acks, Rcv!AckSegment)
      /\ brpc = "send" /\ brpc' = "recv"
  BY DEF SendAck, Rcv!RAckSend, Rcv!indexVars, sndVars
<1>2. InHand' = InHand
  BY <1>1 DEF InHand
<1>3. Located' /\ Stored' /\ OnTheWay'
  BY <1>1, <1>2, ReceiverQuiet
<1> DEFINE m == Rcv!AckSegment
<1>4. m \in Answer /\ m.ackNum = lastRecved
  BY AnswerType DEF Rcv!AckSegment
<1>5. acks' = Append(acks, m)
  BY <1>1
<1> HIDE DEF m
<1>6. /\ lastAcked \in Pos /\ lastRecved \in Pos /\ acks \in Seq(Answer)
      /\ Ordered(lastAcked, acks, lastRecved)
      /\ (rpc = "check" => Before(lastAcked, rack, acks, lastRecved))
  BY SenderFacts, ReceiverFacts DEF StreamInv, AcksInOrder, HalvesInv, NetOK
<1>7. /\ Ordered(lastAcked, Append(acks, m), lastRecved)
      /\ (rpc = "check" => Before(lastAcked, rack, Append(acks, m), lastRecved))
  BY <1>4, <1>6, OrderedAppend
<1>8. AcksInOrder'
  BY <1>1, <1>5, <1>7 DEF AcksInOrder
<1> QED
  BY <1>3, <1>8 DEF StreamInv

\* recvFromResf moves lastRead only.
LEMMA ReaderKeeps == ASSUME HalvesInv, StreamInv, Reader PROVE StreamInv'
<1>1. /\ UNCHANGED sndVars /\ UNCHANGED <<data, acks, rpc, rack, lastAcked>>
      /\ UNCHANGED <<accepted, lastRecved, brpc, bdata>>
  BY DEF Reader, Rcv!BNext, Rcv!BCall, Rcv!BWork, Rcv!BByte, Rcv!BPoll, Rcv!BLastPoll, Rcv!BGiveUp,
         Rcv!BReturn, Rcv!Return, Rcv!indexVars, Rcv!rVars, sndVars, netVars
<1>2. InHand' = InHand
  BY <1>1 DEF InHand
<1>3. AcksInOrder'
  BY <1>1, AcksFrame DEF StreamInv
<1> QED
  BY <1>1, <1>2, <1>3, ReceiverQuiet DEF StreamInv

\* UDP loses a datagram or an acknowledgment.
LEMMA LoseKeeps == ASSUME HalvesInv, StreamInv, Lose PROVE StreamInv'
<1>1. /\ UNCHANGED <<rpc, rack, lastAcked, written, lastWrite, spc, sseq, sleft>>
      /\ UNCHANGED <<accepted, lastRecved, brpc, bdata, sndVars>>
  BY DEF Lose, sndVars, rcvVars
<1>2. InHand' = InHand /\ Acked' = Acked
  BY <1>1 DEF InHand, Acked
<1>3. Expected' = Expected
  BY <1>1, <1>2 DEF Expected
<1>4. CASE data # << >> /\ data' = Tail(data) /\ UNCHANGED acks
  <2>1. Located' /\ Stored'
    BY <1>1, <1>2, <1>3 DEF StreamInv, Located, Stored
  <2>2. AcksInOrder'
    BY <1>1, <1>4, AcksFrame DEF StreamInv
  <2>3. \E R \in Seq(Int), r \in Int :
          /\ Flight(data', R, Acked', Expected')
          /\ spc' = "resend" => Fits(r, sseq', sleft', Acked', Expected') /\ Follows(data', R, r)
          /\ ~ Retransmits => Genuine(data', R, written')
    BY <1>1, <1>2, <1>3, <1>4, FirstDatagram
  <2> QED
    BY <2>1, <2>2, <2>3 DEF StreamInv, OnTheWay
<1>5. CASE acks # << >> /\ acks' = Tail(acks) /\ UNCHANGED data
  <2>1. Located' /\ Stored' /\ OnTheWay'
    BY <1>1, <1>2, <1>5, ReceiverQuiet
  <2>2. /\ lastAcked \in Pos /\ lastRecved \in Pos /\ acks \in Seq(Answer)
        /\ Ordered(lastAcked, acks, lastRecved)
        /\ (rpc = "check" => Before(lastAcked, rack, acks, lastRecved))
    BY SenderFacts, ReceiverFacts DEF StreamInv, AcksInOrder, HalvesInv, NetOK
  <2>3. /\ Ordered(lastAcked, Tail(acks), lastRecved)
        /\ (rpc = "check" => Before(lastAcked, rack, Tail(acks), lastRecved))
    BY <1>5, <2>2, OrderedTail
  <2>4. AcksInOrder'
    BY <1>1, <1>5, <2>3 DEF AcksInOrder
  <2> QED
    BY <2>1, <2>4 DEF StreamInv
<1> QED
  BY <1>4, <1>5 DEF Lose

-----------------------------------------------------------------------------
(* The theorems                                                            *)

\* The inductive invariant: each half keeps its own, and positions agree.
TransferInv == HalvesInv /\ RtxMade /\ StreamInv

LEMMA TransferInit == Init => TransferInv
<1> SUFFICES ASSUME Init PROVE TransferInv
  OBVIOUS
<1>1. SP!TypeOK /\ SP!OrderInv /\ SP!UnackedIntact
  <2>1. SP!Init
    BY DEF Init, Snd!Init, SP!Init, Snd!Pos, SP!Pos, Snd!Junk, SP!Junk
  <2>2. SP!TypeOK
    BY <2>1, SP!TypeInit, HalfParams
  <2> QED
    BY <2>1, <2>2, SP!OrderInit, SP!IntactInit, HalfParams
<1>2. RP!RInv
  <2>1. RP!Init
    BY DEF Init, Rcv!Init, RP!Init, Rcv!Pos, RP!Pos, Rcv!Junk, RP!Junk
  <2> QED
    BY <2>1, RP!InitIInv, HalfParams DEF RP!IInv
<1>3. NetOK
  BY TransferParams DEF Init, NetOK, Pos
<1>4. HalvesInv
  BY <1>1, <1>2, <1>3 DEF HalvesInv
<1>5. /\ lastAcked = 0 /\ lastWrite = 0 /\ lastRecved = 0 /\ written = 0 /\ accepted = 0
      /\ spc = "top" /\ rpc = "recv" /\ brpc = "recv" /\ data = << >> /\ acks = << >>
  BY DEF Init, Snd!Init, Rcv!Init
<1>6. RtxMade
  BY <1>5 DEF RtxMade
<1>7. 0 \in Pos /\ 0 % N = 0 /\ Dist(0, 0) = 0
  BY RingSize DEF Pos, Dist, DistBy
<1>8. Acked = 0 /\ Expected = 0
  BY <1>5, <1>7 DEF Acked, Expected, InHand
<1>9. Located /\ Stored
  BY <1>5, <1>7, <1>8, RingSize DEF Located, Stored, At
<1>10. AcksInOrder
  BY <1>5 DEF AcksInOrder, Ordered
<1>11. OnTheWay
  <2>1. << >> \in Seq(Int) /\ Flight(<< >>, << >>, Acked, Expected) /\ 0 \in Int
        /\ Genuine(<< >>, << >>, written)
    BY DEF Flight, Genuine
  <2>2. \E P \in Seq(Int), q \in Int :
          Flight(<< >>, P, Acked, Expected) /\ Genuine(<< >>, P, written)
    BY <2>1
  <2> QED
    BY <1>5, <2>2 DEF OnTheWay
<1> QED
  BY <1>4, <1>6, <1>9, <1>10, <1>11 DEF TransferInv, StreamInv

LEMMA TransferNext == TransferInv /\ [Next]_vars => TransferInv'
<1> SUFFICES ASSUME TransferInv, [Next]_vars PROVE TransferInv'
  OBVIOUS
<1>1. HalvesInv /\ RtxMade /\ StreamInv
  BY DEF TransferInv
<1>2. HalvesInv' /\ RtxMade'
  BY <1>1, HalvesNext, RtxMadeNext
<1>3. CASE UNCHANGED vars
  <2>1. /\ UNCHANGED <<written, lastAcked, lastWrite, rcvVars, data, acks>>
        /\ UNCHANGED <<rpc, rack, spc, sseq, sleft>>
    BY <1>3 DEF vars, sndVars, netVars
  <2> QED
    BY <1>1, <1>2, <2>1, SenderQuiet DEF TransferInv
<1> QED
  BY <1>1, <1>2, <1>3, StoreByteKeeps, ThreadKeeps, SendDataKeeps, TakeAckKeeps,
     CheckAckKeeps, TakeDataKeeps, StoreDataKeeps, SendAckKeeps, ReaderKeeps, LoseKeeps
  DEF TransferInv, Next

LEMMA TransferInductive == Spec => []TransferInv
<1>1. Init => TransferInv
  BY TransferInit
<1>2. TransferInv /\ [Next]_vars => TransferInv'
  BY TransferNext
<1> QED
  BY <1>1, <1>2, PTL DEF Spec

(***************************************************************************)
(* lastAcked never passes the position the receiver has reached, whatever  *)
(* is lost, sent again or overtaken and however often the two indices      *)
(* wrap: no acknowledgment is taken for one of another lap.  Positions     *)
(* only: with a retransmission the bytes stored there may be other ones.   *)
(***************************************************************************)
THEOREM AckedNotAheadCorrect == Spec => []AckedNotAhead
<1>1. TransferInv => AckedNotAhead
  <2> SUFFICES ASSUME TransferInv PROVE AckedNotAhead
    OBVIOUS
  <2>1. Acked <= accepted
    BY DEF TransferInv, StreamInv, Stored
  <2>2. Snd!StreamPos(lastAcked) = Acked
    BY DEF Snd!StreamPos, Snd!Dist, Snd!DistBy, Acked, Dist, DistBy
  <2> QED
    BY <2>1, <2>2 DEF AckedNotAhead
<1> QED
  BY <1>1, TransferInductive, PTL

-----------------------------------------------------------------------------
(* Without retransmissions, the transfer is a byte stream                  *)

\* What the receiver has is a part of what was written, and its reads return
\* it in order (RP!SInv).
ReadInv == RP!SInv /\ Expected <= written

LEMMA TakenIsTrue ==
  ASSUME ~ Retransmits, HalvesInv, StreamInv, TakeData, Head(data).seq = lastRecved
  PROVE  /\ accepted + Len(Head(data).data) <= written
         /\ \A j \in 1 .. Len(Head(data).data) : Head(data).data[j] = accepted + j - 1
<1> DEFINE k == Len(Head(data).data)
<1>1. data # << >> /\ brpc = "recv"
  BY DEF TakeData, Rcv!RArrive
<1>2. PICK p \in Int :
        /\ Fits(p, Head(data).seq, k, Acked, Expected)
        /\ p + k <= written
        /\ \A j \in 1 .. k : Head(data).data[j] = p + j - 1
  BY <1>1, FirstDatagram
<1>3. p = accepted
  BY <1>1, <1>2, HeadPosition
<1> QED
  BY <1>2, <1>3

LEMMA ReceiverTrue ==
  ASSUME ~ Retransmits, HalvesInv, StreamInv, [Next]_vars
  PROVE  [RP!TrueNext]_(RP!vars)
<1>1. CASE TakeData
  <2>1. Head(data) \in Datagram
    BY <1>1 DEF TakeData, HalvesInv, NetOK
  <2>2. Head(data).seq \in RP!Pos /\ Head(data).data \in Seq(Int)
    BY <2>1 DEF Datagram, Pos, RP!Pos
  <2>3. RP!RArrive(Head(data).seq, Head(data).data)
    BY <1>1 DEF TakeData, Rcv!RArrive, RP!RArrive, Rcv!AtOrAbove, RP!AtOrAbove,
           Rcv!indexVars, RP!indexVars, Rcv!bVars, RP!bVars, Rcv!sVars, RP!sVars
  <2>4. Head(data).seq = lastRecved =>
          \A j \in 1 .. Len(Head(data).data) : Head(data).data[j] = accepted + j - 1
    BY <1>1, TakenIsTrue
  <2> QED
    BY <2>2, <2>3, <2>4 DEF RP!TrueNext, RP!TrueSegment
<1>2. CASE ~ TakeData
  <2>1. CASE StoreData \/ SendAck
    BY <2>1, StoreSteps DEF RP!TrueNext
  <2>2. CASE Reader
    BY <2>2, ReaderSteps DEF RP!TrueNext
  <2>3. CASE UNCHANGED rcvVars
    BY <2>3 DEF rcvVars, RP!vars, RP!indexVars, RP!rVars, RP!bVars, RP!sVars
  <2>4. UNCHANGED vars => UNCHANGED rcvVars
    BY DEF vars
  <2> QED
    BY <1>2, <2>1, <2>2, <2>3, <2>4
    DEF Next, App, SendThread, SendData, TakeAck, CheckAck, Lose
<1> QED
  BY <1>1, <1>2

\* The steps that are not sendToResf write nothing.
LEMMA OnlyAppWrites ==
  ASSUME [Next]_vars
  PROVE  /\ written' = written \/ (written' = written + 1 /\ UNCHANGED rcvVars)
         /\ got' = got \/ Reader
         /\ Reader => written' = written
<1>1. CASE App
  <2>1. written' = written \/ written' = written + 1
    BY <1>1 DEF App, Snd!ANext, Snd!ACall, Snd!ATestAbove, Snd!ATestBelow,
                Snd!ACalcRoom, Snd!AByte, Snd!APoll, Snd!AStore
  <2>2. UNCHANGED rcvVars /\ got' = got
    BY <1>1 DEF App, rcvVars
  <2>3. Reader => written' = written
    BY DEF Reader, sndVars
  <2> QED
    BY <2>1, <2>2, <2>3
<1>2. CASE Reader
  BY <1>2 DEF Reader, sndVars
<1>3. CASE SendThread \/ SendData \/ TakeAck \/ CheckAck \/ Lose
  <2>1. written' = written
    BY <1>3 DEF SendThread, Snd!SWake, Snd!SLock, Snd!SWindow, Snd!SUnsent, Snd!SBudget,
       Snd!SAdvance, Snd!SUnacked, Snd!SSeqNum, Snd!STimers, SendData, Snd!SSend,
       Snd!SResend, TakeAck, Snd!RRecv, CheckAck, Snd!RCheck, Lose, sndVars
  <2>2. got' = got
    BY <1>3 DEF SendThread, SendData, TakeAck, CheckAck, Lose, rcvVars
  <2> QED
    BY <2>1, <2>2
<1>4. CASE TakeData \/ StoreData \/ SendAck
  <2>1. written' = written
    BY <1>4 DEF TakeData, StoreData, SendAck, sndVars
  <2>2. got' = got
    BY <1>4 DEF TakeData, Rcv!RArrive, StoreData, Rcv!RSpace, Rcv!RWake, Rcv!RCopy,
                Rcv!RPublish, Rcv!RAckTest, SendAck, Rcv!RAckSend
  <2> QED
    BY <2>1, <2>2
<1>5. CASE UNCHANGED vars
  BY <1>5 DEF vars, sndVars, rcvVars
<1> QED
  BY <1>1, <1>2, <1>3, <1>4, <1>5 DEF Next

LEMMA ReadInvNext ==
  ASSUME ~ Retransmits, TransferInv, ReadInv, [Next]_vars PROVE ReadInv'
<1>0. HalvesInv /\ StreamInv
  BY DEF TransferInv
<1>1. RP!SInv'
  BY <1>0, ReceiverTrue, RP!ReadsNext, HalfParams DEF ReadInv
<1>2. Expected \in Int /\ written \in Int /\ Expected <= written /\ accepted \in Nat
      /\ Len(bdata) \in Nat
  BY <1>0, Positions, ReceiverFacts DEF StreamInv, ReadInv
<1>3. written' \in Int /\ written <= written'
  BY <1>2, OnlyAppWrites
<1>4. CASE TakeData
  <2>1. CASE Head(data).seq = lastRecved
    <3>1. Expected' = accepted + Len(Head(data).data)
      BY <1>4, <2>1 DEF TakeData, Rcv!RArrive, Expected, InHand
    <3>2. accepted + Len(Head(data).data) <= written /\ written' = written
      BY <1>0, <1>4, <2>1, TakenIsTrue DEF TakeData, sndVars
    <3> QED
      BY <1>1, <3>1, <3>2 DEF ReadInv
  <2>2. CASE Head(data).seq # lastRecved
    <3>1. Expected' = Expected /\ written' = written
      BY <1>4, <2>2 DEF TakeData, Rcv!RArrive, Expected, InHand, sndVars
    <3> QED
      BY <1>1, <1>2, <3>1 DEF ReadInv
  <2> QED
    BY <2>1, <2>2
<1>5. CASE ~ TakeData
  <2>1. Expected' = Expected
    <3>1. CASE StoreData
      <4>1. CASE Rcv!RPublish
        <5>1. accepted' = accepted + Len(bdata) /\ brpc = "publish" /\ brpc' = "ack"
          BY <1>0, <4>1, ReceiverFacts DEF Rcv!RPublish
        <5> QED
          BY <1>2, <5>1 DEF Expected, InHand
      <4>2. CASE ~ Rcv!RPublish
        <5>1. /\ accepted' = accepted /\ bdata' = bdata
              /\ \/ /\ brpc \in {"space", "wait", "copy"}
                    /\ brpc' \in {"space", "wait", "copy", "publish"}
                 \/ brpc = "ack" /\ brpc' = "send"
          BY <3>1, <4>2 DEF StoreData, Rcv!RSpace, Rcv!RWake, Rcv!RCopy, Rcv!RAckTest
        <5> QED
          BY <5>1 DEF Expected, InHand
      <4> QED
        BY <4>1, <4>2
    <3>2. CASE SendAck
      BY <3>2 DEF SendAck, Rcv!RAckSend, Expected, InHand
    <3>3. CASE Reader
      <4>1. UNCHANGED <<accepted, brpc, bdata>>
        BY <3>3 DEF Reader, Rcv!BNext, Rcv!BCall, Rcv!BWork, Rcv!BByte, Rcv!BPoll,
           Rcv!BLastPoll, Rcv!BGiveUp, Rcv!BReturn, Rcv!Return, Rcv!rVars
      <4> QED
        BY <4>1 DEF Expected, InHand
    <3>4. CASE UNCHANGED rcvVars
      BY <3>4 DEF rcvVars, Expected, InHand
    <3>5. UNCHANGED vars => UNCHANGED rcvVars
      BY DEF vars
    <3> QED
      BY <1>5, <3>1, <3>2, <3>3, <3>4, <3>5
      DEF Next, App, SendThread, SendData, TakeAck, CheckAck, Lose
  <2> QED
    BY <1>1, <1>2, <1>3, <2>1 DEF ReadInv
<1> QED
  BY <1>4, <1>5

\* Every step is one of the byte stream, or is not seen there.
LEMMA StreamStep ==
  ASSUME ~ Retransmits, TransferInv, ReadInv, [Next]_vars
  PROVE  [Stream!Next]_(Stream!vars)
<1>0. HalvesInv /\ StreamInv
  BY DEF TransferInv
<1>1. /\ accepted \in Nat /\ accepted <= written /\ written \in Nat
      /\ Len(got) \in Nat
  <2>1. accepted \in Nat /\ InHand \in Nat /\ Expected <= written /\ written \in Nat
    BY <1>0, Positions, SenderFacts, ReceiverFacts DEF StreamInv, ReadInv
  <2>2. got \in Seq(Int)
    BY <1>0 DEF HalvesInv, RP!RInv, RP!TypeOK
  <2> QED
    BY <2>1, <2>2 DEF Expected
<1>2. CASE got' = got
  <2>1. written' = written \/ written' = written + 1
    BY OnlyAppWrites
  <2> QED
    BY <1>1, <1>2, <2>1 DEF Stream!Next, Stream!Write, Stream!vars
<1>3. CASE got' # got
  <2>1. written' = written
    BY <1>3, OnlyAppWrites
  <2>2. PICK n \in 1 .. accepted - Len(got) :
           got' = got \o [i \in 1 .. n |-> Len(got) + i - 1]
    BY <1>0, <1>3, ReceiverTrue, RP!GotGrows, HalfParams DEF ReadInv
  <2>3. n \in 1 .. written - Len(got)
    BY <1>1
  <2> QED
    BY <2>1, <2>2, <2>3 DEF Stream!Next, Stream!Read, Stream!Run
<1> QED
  BY <1>2, <1>3

(***************************************************************************)
(* As long as nothing is retransmitted, whatever UDP loses, recvFromResf   *)
(* returns what sendToResf was given as a stream: no lost datagram is      *)
(* papered over by one a lap later, no byte comes twice or early.          *)
(***************************************************************************)
THEOREM EndToEndCorrect == ASSUME ~ Retransmits PROVE Spec => EndToEnd
<1>1. Init => ReadInv /\ Stream!Init
  <2> SUFFICES ASSUME Init PROVE ReadInv /\ Stream!Init
    OBVIOUS
  <2>1. RP!Init
    BY DEF Init, Rcv!Init, RP!Init, Rcv!Pos, RP!Pos, Rcv!Junk, RP!Junk
  <2>2. RP!SInv
    BY <2>1, RP!ReadsInit, HalfParams
  <2>3. written = 0 /\ accepted = 0 /\ brpc = "recv" /\ got = << >>
    BY DEF Init, Snd!Init, Rcv!Init
  <2> QED
    BY <2>2, <2>3 DEF ReadInv, Expected, InHand, Stream!Init
<1>2. TransferInv /\ ReadInv /\ [Next]_vars => ReadInv' /\ [Stream!Next]_(Stream!vars)
  BY ReadInvNext, StreamStep
<1> QED
  BY <1>1, <1>2, TransferInductive, PTL DEF Spec, EndToEnd, Stream!Spec
=============================================================================
