------------------------------ MODULE Transfer ------------------------------
(***************************************************************************)
(* One direction of a Resf connection: the send half of one endpoint       *)
(* (SendBuffer), the receive half of the other (RecvBuffer), and UDP       *)
(* between them.  Only this direction carries data, so the sender gets     *)
(* bare acknowledgments and the receiver has nothing to send along.        *)
(*                                                                         *)
(* The two channels are queues that keep order and may lose a bounded      *)
(* number of datagrams: a failure found here needs no reordering and no    *)
(* duplication.  The congestion window never limits; rwnd, which each      *)
(* acknowledgment carries, does.                                           *)
(***************************************************************************)
EXTENDS Ring, Sequences

CONSTANTS MSS, CallSizes, ReadSizes, MaxBytes,
          MaxTimeNums,  \* polls before a write gives up, 20
          MaxReadPolls, \* polls before a read gives up, 20
          InitRwnd,     \* rwnd before the first segment arrives: an argument of main
          Retransmits,  \* whether timeout and duplicateAcks ever retransmit
          SlowNetwork,  \* whether an answer takes longer than prepareAndSend
                        \* takes from sendto to its store into lastSent
          MaxLost,      \* model bound: datagrams lost in all
          MaxQueue      \* model bound: datagrams under way in one direction

ASSUME TransferParams ==
  /\ MSS \in 1 .. N - 1 /\ InitRwnd \in 0 .. N - 1
  /\ CallSizes \subseteq Nat \ {0} /\ ReadSizes \subseteq Nat \ {0}
  /\ MaxBytes \in Nat /\ MaxTimeNums \in Nat /\ MaxTimeNums > 1
  /\ MaxReadPolls \in Nat
  /\ Retransmits \in BOOLEAN /\ SlowNetwork \in BOOLEAN
  /\ MaxLost \in Nat /\ MaxQueue \in Nat \ {0}

VARIABLES
  \* the sending endpoint: SendBuffer, and Resf.rwnd
  lastAcked, lastSent, lastWrite, sendBuff, mutex,
  apc, sendLen, len, canSendLen, rel, clear, timeNums,
  spc, sge, sleft, sseq, rpc, rge, rleft, rack, rdata, written, rwnd,
  \* the receiving endpoint: RecvBuffer
  lastRead, lastRecved, recvBuff, brpc, brge, bdata, canRecvLen,
  bpc, mode, recvLen, buf, timeNum, accepted, got,
  \* UDP
  data, acks, lost

sndVars == <<lastAcked, lastSent, lastWrite, sendBuff, mutex,
             apc, sendLen, len, canSendLen, rel, clear, timeNums,
             spc, sge, sleft, sseq, rpc, rge, rleft, rack, rdata, written>>
rcvVars == <<lastRead, lastRecved, recvBuff, brpc, brge, bdata, canRecvLen,
             bpc, mode, recvLen, buf, timeNum, accepted, got>>
netVars == <<data, acks, lost>>
vars    == <<sndVars, rwnd, rcvVars, netVars>>

\* sendto succeeds and the wait times are 0, as client and server set them.
Snd == INSTANCE SendBuffer WITH SendFails <- FALSE, WaitLimits <- FALSE

\* The application reads with recvFromResf.  The receiving endpoint has no data
\* to send, and so its send thread no window to advertise.  (TLC takes no
\* UNCHANGED of the literals TRUE and FALSE.)
Rcv == INSTANCE RecvBuffer WITH Modes <- {"all"}, Seps <- {},
                                MaxTimeNums <- MaxReadPolls,
                                rpc <- brpc, rge <- brge, rdata <- bdata,
                                spc <- "rest", sge <- 0 = 0, sidx <- 0,
                                swin <- 0, stored <- 0 = 1

Init ==
  /\ Snd!Init /\ rwnd = InitRwnd
  /\ Rcv!Init
  /\ data = << >> /\ acks = << >> /\ lost = 0

-----------------------------------------------------------------------------
(* The sending endpoint                                                    *)

App == Snd!ANext /\ UNCHANGED <<rwnd, rcvVars, netVars>>

\* The steps of startSend that send nothing.
SendThread ==
  /\ \/ Snd!SWake \/ Snd!SLock(rwnd) \/ Snd!SWindow \/ Snd!SUnsent
     \/ Snd!SBudget \/ Snd!SAdvance \/ Snd!SUnacked \/ Snd!SSeqNum
     \/ Snd!STimers /\ (Retransmits \/ spc' = "top")
  /\ UNCHANGED <<rwnd, rcvVars, netVars>>

\* sendto in prepareAndSend and in retransmit.
SendData ==
  /\ Len(data) < MaxQueue
  /\ \/ Snd!SSend /\ data' = Append(data, Snd!NewSegment(sleft))
     \/ Snd!SResend /\ data' = Append(data, Snd!RtxSegment)
  /\ UNCHANGED <<rwnd, rcvVars, acks, lost>>

\* startRecv takes an acknowledgment in: rwnd first, then lastAcked.
TakeAck ==
  /\ acks # << >>
  /\ SlowNetwork => spc # "advance"
  /\ rwnd' = Head(acks).rwnd
  /\ Snd!RRecv(TRUE, Head(acks).ackNum, FALSE)
  /\ acks' = Tail(acks)
  /\ UNCHANGED <<rcvVars, data, lost>>

CheckAck == Snd!RCheck /\ UNCHANGED <<rwnd, rcvVars, netVars>>

-----------------------------------------------------------------------------
(* The receiving endpoint                                                  *)

TakeData ==
  /\ data # << >>
  /\ Rcv!RArrive(Head(data).seq, Head(data).data)
  /\ data' = Tail(data)
  /\ UNCHANGED <<sndVars, rwnd, acks, lost>>

StoreData ==
  /\ Rcv!RSpace \/ Rcv!RWake \/ Rcv!RCopy \/ Rcv!RPublish \/ Rcv!RAckTest
  /\ UNCHANGED <<sndVars, rwnd, netVars>>

SendAck ==
  /\ Len(acks) < MaxQueue
  /\ Rcv!RAckSend
  /\ acks' = Append(acks, Rcv!AckSegment)
  /\ UNCHANGED <<sndVars, rwnd, data, lost>>

Reader == Rcv!BNext /\ UNCHANGED <<sndVars, rwnd, netVars>>

-----------------------------------------------------------------------------
(* UDP loses a datagram                                                    *)

Lose ==
  /\ lost < MaxLost
  /\ lost' = lost + 1
  /\ \/ data # << >> /\ data' = Tail(data) /\ UNCHANGED acks
     \/ acks # << >> /\ acks' = Tail(acks) /\ UNCHANGED data
  /\ UNCHANGED <<sndVars, rwnd, rcvVars>>

-----------------------------------------------------------------------------
Next == App \/ SendThread \/ SendData \/ TakeAck \/ CheckAck
        \/ TakeData \/ StoreData \/ SendAck \/ Reader \/ Lose

Spec == Init /\ [][Next]_vars

\* One more retransmission is built.
Retransmit == spc = "timers" /\ SendThread /\ spc' = "unacked"

(***************************************************************************)
(* The four threads are scheduled and UDP delivers what it does not lose;  *)
(* the application at the receiver keeps reading; a timer that is not      *)
(* stopped expires again and again.  Nothing is asked of the sending       *)
(* application.                                                            *)
(***************************************************************************)
Fairness ==
  /\ WF_vars(SendThread \/ SendData)
  /\ SF_vars(Retransmit)
  /\ WF_vars(CheckAck) /\ SF_vars(TakeAck)
  /\ WF_vars(TakeData \/ StoreData \/ SendAck)
  /\ WF_vars(Reader)

FairSpec == Spec /\ Fairness

-----------------------------------------------------------------------------
(* Properties                                                              *)

(***************************************************************************)
(* What sendToResf was given comes out of recvFromResf as a stream, across *)
(* both buffers and the segments between them.                             *)
(***************************************************************************)
Stream == INSTANCE ByteStream WITH received <- got
EndToEnd == Stream!Spec

(***************************************************************************)
(* The acknowledgments never run ahead of the receiver: as positions of    *)
(* the stream, lastAcked is not past lastRecved, however often the two     *)
(* indices have gone round, whatever is lost, sent again or overtaken.     *)
(*                                                                         *)
(* This is about how many bytes have been taken, not about which: a        *)
(* retransmission may carry other bytes under the number of a lost one     *)
(* (resf.c:828, run TransferPhantom), and the receiver then stores and     *)
(* acknowledges those; the sender gives up the slots of bytes that the     *)
(* receiver has never seen.                                                *)
(***************************************************************************)
AckedNotAhead == Snd!StreamPos(lastAcked) <= accepted

(***************************************************************************)
(* Whenever the writer pauses for long enough, everything it has written   *)
(* is read.  (In the model it pauses for good after MaxBytes bytes.)       *)
(***************************************************************************)
Delivered == []<>(Len(got) = written)

(***************************************************************************)
(* Likewise everything it has written is acknowledged: the client waits    *)
(* for that before it exits (http_client.c:182), and sendToResf for the    *)
(* space.                                                                  *)
(***************************************************************************)
Acknowledged == []<>(lastAcked = lastWrite)
=============================================================================
