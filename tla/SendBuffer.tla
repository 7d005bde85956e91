----------------------------- MODULE SendBuffer -----------------------------
(***************************************************************************)
(* The send half of one Resf endpoint (resf.c) and the three threads that  *)
(* share it:                                                               *)
(*                                                                         *)
(*   A  the application inside sendToResf, which appends bytes,            *)
(*   S  the send thread (startSend): prepareAndSend, then timeout and      *)
(*      duplicateAcks, which may retransmit,                               *)
(*   R  the receive thread (startRecv): takes acknowledgments in and       *)
(*      answers data through sendDataWithAck or a bare acknowledgment.     *)
(*                                                                         *)
(* Only prepareAndSend and sendDataWithAck take sendNewDataMutex; every    *)
(* other access to lastAcked, lastSent and lastWrite is a plain load or    *)
(* store.  The build (./run: make CFLAGS+="-pthread") compiles without     *)
(* optimisation, so a C expression that names a field twice loads it       *)
(* twice.  Loads between which another thread can change the outcome are   *)
(* separate steps here; ge, rel, clear, left keep what a thread has read.  *)
(*                                                                         *)
(* A byte is represented by its position in the stream the application     *)
(* writes.  min(rwnd, cwnd) is any value the 16-bit window field allows,   *)
(* an acknowledgment any number a delayed datagram can carry, and a timer  *)
(* may be found expired whenever the send thread looks at it.              *)
(***************************************************************************)
EXTENDS Ring

CONSTANTS MSS,          \* MAX_SEG_SIZE, 1440
          CallSizes,    \* sendLen arguments the application uses
          MaxBytes,     \* model bound: bytes written in all
          MaxTimeNums,  \* polls before sendToResf gives up, 20
          SendFails,    \* whether sendto may fail
          WaitLimits    \* whether sendWaitTime and recvWaitTime are not 0

ASSUME SendParams ==
  /\ MSS \in 1 .. N - 1
  /\ CallSizes \subseteq Nat \ {0}
  /\ MaxBytes \in Nat
  /\ MaxTimeNums \in Nat /\ MaxTimeNums > 1
  /\ SendFails \in BOOLEAN
  /\ WaitLimits \in BOOLEAN

VARIABLES
  lastAcked, lastSent, lastWrite,  \* the Resf fields of these names
  sendBuff,                        \* Resf.sendBuff
  mutex,                           \* holder of sendNewDataMutex
  apc, sendLen, len, canSendLen, rel, clear, timeNums,  \* A in sendToResf
  spc, sge, sleft, sseq,           \* S: branch taken, length left, seg.seqNum
  rpc, rge, rleft, rack, rdata,    \* R: likewise, seg.ackNum, seg.dataLen > 0
  written                          \* history: bytes stored by sendToResf

ringVars == <<lastAcked, lastSent, lastWrite>>
aVars == <<apc, sendLen, len, canSendLen, rel, clear, timeNums>>
sVars == <<spc, sge, sleft, sseq>>
rVars == <<rpc, rge, rleft, rack, rdata>>
vars  == <<ringVars, sendBuff, mutex, aVars, sVars, rVars, written>>

Junk == -1   \* what an unwritten slot of the uninitialised buffer holds

Init ==
  /\ lastAcked = 0 /\ lastSent = 0 /\ lastWrite = 0
  /\ sendBuff = [p \in Pos |-> Junk]
  /\ mutex = "none"
  /\ apc = "idle" /\ sendLen = 0 /\ len = 0 /\ canSendLen = 0
  /\ rel = "gt" /\ clear = FALSE /\ timeNums = 0
  /\ spc = "top" /\ sge = FALSE /\ sleft = 0 /\ sseq = 0
  /\ rpc = "recv" /\ rge = FALSE /\ rleft = 0 /\ rack = 0 /\ rdata = FALSE
  /\ written = 0

-----------------------------------------------------------------------------
(* A: sendToResf                                                           *)

\* A call with sendLen = k; more than the buffer size is refused with -1, and
\* the application may call again.
ACall(k) ==
  /\ apc = "idle"
  /\ written + k <= MaxBytes
  /\ apc' = IF k > N THEN "idle" ELSE "room"
  /\ sendLen' = k
  /\ len' = 0 /\ canSendLen' = 0 /\ timeNums' = 0
  /\ UNCHANGED <<ringVars, sendBuff, mutex, rel, clear, sVars, rVars, written>>

\* The first test of the loop, lastWrite > lastAcked.
ATestAbove ==
  /\ apc = "room"
  /\ IF lastWrite > lastAcked
       THEN apc' = "calc" /\ rel' = "gt"
       ELSE apc' = "room2" /\ UNCHANGED rel
  /\ UNCHANGED <<ringVars, sendBuff, mutex, sendLen, len, canSendLen, clear,
                 timeNums, sVars, rVars, written>>

\* Leave the loop when the room found is enough, else sleep and look again.
Decide(room) ==
  /\ canSendLen' = room
  /\ apc' = IF room < sendLen THEN "room" ELSE "byte"

\* The other two tests, lastWrite < lastAcked and lastWrite == lastAcked.
\* When lastAcked has overtaken both, canSendLen keeps its old value.
ATestBelow ==
  /\ apc = "room2"
  /\ \/ /\ lastWrite < lastAcked
        /\ apc' = "calc" /\ rel' = "lt"
        /\ UNCHANGED canSendLen
     \/ lastWrite = lastAcked /\ Decide(N - 1) /\ UNCHANGED rel
     \/ lastWrite > lastAcked /\ Decide(canSendLen) /\ UNCHANGED rel
  /\ UNCHANGED <<ringVars, sendBuff, mutex, sendLen, len, clear, timeNums,
                 sVars, rVars, written>>

\* Mutated form of RoomBy: the slot that tells full from empty is given away.
RoomByFull == IF rel = "gt" THEN N - (lastWrite - lastAcked)
                            ELSE lastAcked - lastWrite

\* canSendLen by the formula of the branch taken, lastAcked loaded again.
RoomBy == IF rel = "gt" THEN N - (lastWrite - lastAcked) - 1
                        ELSE lastAcked - lastWrite - 1

ACalcRoom ==
  /\ apc = "calc"
  /\ Decide(RoomBy)
  /\ UNCHANGED <<ringVars, sendBuff, mutex, sendLen, len, rel, clear, timeNums,
                 sVars, rVars, written>>

\* Mutated form of AllClear: an idle connection is never recognised.
AllClearNever == FALSE

\* The local "clear" of the copy loop.
AllClear == lastAcked = lastSent /\ lastSent = lastWrite

\* One round of the copy loop, first half; sendToResf returns at the end.
AByte ==
  /\ apc = "byte"
  /\ IF len < sendLen /\ len < canSendLen
       THEN apc' = "store" /\ clear' = AllClear
       ELSE apc' = "idle" /\ UNCHANGED clear
  /\ UNCHANGED <<ringVars, sendBuff, mutex, sendLen, len, canSendLen, rel,
                 timeNums, sVars, rVars, written>>

\* Second half: the buffer looks full, so poll; give up after MaxTimeNums.
APoll ==
  /\ apc = "store" /\ lastWrite = lastAcked /\ ~clear
  /\ timeNums' = timeNums + 1
  /\ apc' = IF timeNums' >= MaxTimeNums THEN "short" ELSE "byte"
  /\ UNCHANGED <<ringVars, sendBuff, mutex, sendLen, len, canSendLen, rel,
                 clear, sVars, rVars, written>>

\* Second half: store one byte and publish it through lastWrite.
AStore ==
  /\ apc = "store" /\ ~(lastWrite = lastAcked /\ ~clear)
  /\ sendBuff' = [sendBuff EXCEPT ![lastWrite] = written]
  /\ lastWrite' = Add(lastWrite, 1)
  /\ len' = len + 1
  /\ written' = written + 1
  /\ timeNums' = 0
  /\ apc' = "byte"
  /\ UNCHANGED <<lastAcked, lastSent, mutex, sendLen, canSendLen, rel, clear,
                 sVars, rVars>>

ANext ==
  \/ \E k \in CallSizes : ACall(k)
  \/ ATestAbove \/ ATestBelow \/ ACalcRoom \/ AByte \/ APoll \/ AStore

-----------------------------------------------------------------------------
(* Segments                                                                *)

\* Mutated form of NewSegment: the bytes are taken from lastAcked on.
NewSegmentOldest(left) ==
  [seq  |-> lastSent,
   data |-> [i \in 1 .. SmallerOf(left, MSS) |-> sendBuff[Add(lastAcked, i - 1)]]]

\* The segment of new data that the next sendto takes when left bytes may go.
NewSegment(left) ==
  [seq  |-> lastSent,
   data |-> [i \in 1 .. SmallerOf(left, MSS) |-> sendBuff[Add(lastSent, i - 1)]]]

\* The segment that retransmit builds: number sseq, but bytes from lastSent on.
RtxSegment ==
  [seq  |-> sseq,
   data |-> [i \in 1 .. sleft |-> sendBuff[Add(lastSent, i - 1)]]]

-----------------------------------------------------------------------------
(* S: startSend                                                            *)

\* Something to send or to wait for: go on to prepareAndSend.
\* Otherwise the thread sleeps on unsentDataCond, with a time limit.
SWake ==
  /\ spc = "top"
  /\ ~ AllClear
  /\ spc' = "lock"
  /\ UNCHANGED <<ringVars, sendBuff, mutex, aVars, sge, sleft, sseq, rVars,
                 written>>

\* Nothing to send or to wait for during sendWaitTime: the thread ends.
SIdleEnds ==
  /\ spc = "top" /\ WaitLimits
  /\ AllClear
  /\ spc' = "ended"
  /\ UNCHANGED <<ringVars, sendBuff, mutex, aVars, sge, sleft, sseq, rVars,
                 written>>

\* wndLimit is loaded before the test of lastSent and lastAcked.
SLock(wndLimit) ==
  /\ spc = "lock" /\ mutex = "none"
  /\ mutex' = "S"
  /\ sleft' = wndLimit
  /\ sge' = (lastSent >= lastAcked)
  /\ spc' = "window"
  /\ UNCHANGED <<ringVars, sendBuff, aVars, sseq, rVars, written>>

\* leftWnd, raised to one segment when it is exactly 0.
SWindow ==
  /\ spc = "window"
  /\ LET leftWnd == sleft - DistBy(sge, lastAcked, lastSent) IN
     sleft' = IF leftWnd = 0 THEN MSS ELSE leftWnd
  /\ spc' = "unsent"
  /\ UNCHANGED <<ringVars, sendBuff, mutex, aVars, sge, sseq, rVars, written>>

SUnsent ==
  /\ spc = "unsent"
  /\ sge' = (lastSent <= lastWrite)
  /\ spc' = "budget"
  /\ UNCHANGED <<ringVars, sendBuff, mutex, aVars, sleft, sseq, rVars, written>>

\* Mutated form of Budget: the bytes written are not counted.
BudgetWindowOnly(ge, leftWnd) == leftWnd

\* Mutated form of Budget: the last byte written is held back.
BudgetHoldsLast(ge, leftWnd) ==
  SmallerOf(leftWnd, DistBy(ge, lastSent, lastWrite) - 1)

\* canSendLen of prepareAndSend and sendDataWithAck.
Budget(ge, leftWnd) == SmallerOf(leftWnd, DistBy(ge, lastSent, lastWrite))

\* Mutated form of SBudget: with nothing to send it returns without unlocking.
SBudgetKeepsLock ==
  /\ spc = "budget"
  /\ sleft' = Budget(sge, sleft)
  /\ spc' = IF sleft' > 0 THEN "send" ELSE "timers"
  /\ UNCHANGED <<ringVars, sendBuff, mutex, aVars, sge, sseq, rVars, written>>

SBudget ==
  /\ spc = "budget"
  /\ IF Budget(sge, sleft) > 0
       THEN /\ sleft' = Budget(sge, sleft)
            /\ spc' = "send"
            /\ UNCHANGED mutex
       ELSE /\ sleft' = 0
            /\ spc' = "timers"
            /\ mutex' = "none"
  /\ UNCHANGED <<ringVars, sendBuff, aVars, sge, sseq, rVars, written>>

\* sendto hands NewSegment(sleft) to the network; lastSent moves only later.
SSend ==
  /\ spc = "send"
  /\ spc' = "advance"
  /\ UNCHANGED <<ringVars, sendBuff, mutex, aVars, sge, sleft, sseq, rVars,
                 written>>

\* sendto fails: prepareAndSend returns 1 and the thread ends, mutex held.
SSendFails ==
  /\ spc = "send" /\ SendFails
  /\ spc' = "ended"
  /\ UNCHANGED <<ringVars, sendBuff, mutex, aVars, sge, sleft, sseq, rVars,
                 written>>

SAdvance ==
  /\ spc = "advance"
  /\ LET segLen == SmallerOf(sleft, MSS) IN
       /\ lastSent' = Add(lastSent, segLen)
       /\ sleft' = sleft - segLen
  /\ IF sleft' > 0 THEN spc' = "send" /\ UNCHANGED mutex
                   ELSE spc' = "timers" /\ mutex' = "none"
  /\ UNCHANGED <<lastAcked, lastWrite, sendBuff, aVars, sge, sseq, rVars,
                 written>>

\* timeout and duplicateAcks: retransmit, or back to the loop.  A second
\* retransmit in the same round is one of the next round, or does nothing.
STimers ==
  /\ spc = "timers"
  /\ \/ spc' = "top" /\ UNCHANGED sge
     \/ spc' = "unacked" /\ sge' = (lastSent >= lastAcked)
  /\ UNCHANGED <<ringVars, sendBuff, mutex, aVars, sleft, sseq, rVars, written>>

SUnacked ==
  /\ spc = "unacked"
  /\ LET unAckedLen == DistBy(sge, lastAcked, lastSent) IN
     IF unAckedLen > 0
       THEN sleft' = SmallerOf(unAckedLen, MSS) /\ spc' = "seqnum"
       ELSE sleft' = 0 /\ spc' = "top"
  /\ UNCHANGED <<ringVars, sendBuff, mutex, aVars, sge, sseq, rVars, written>>

SSeqNum ==
  /\ spc = "seqnum"
  /\ sseq' = lastAcked
  /\ spc' = "resend"
  /\ UNCHANGED <<ringVars, sendBuff, mutex, aVars, sge, sleft, rVars, written>>

\* sendto hands RtxSegment to the network; a failure changes nothing here.
SResend ==
  /\ spc = "resend"
  /\ spc' = "top" /\ sleft' = 0 /\ sseq' = 0
  /\ UNCHANGED <<ringVars, sendBuff, mutex, aVars, sge, rVars, written>>

SNext ==
  \/ SWake \/ SIdleEnds \/ (\E w \in Pos : SLock(w)) \/ SWindow \/ SUnsent \/ SBudget
  \/ SSend \/ SSendFails \/ SAdvance
  \/ STimers \/ SUnacked \/ SSeqNum \/ SResend

-----------------------------------------------------------------------------
(* R: startRecv                                                            *)

\* A segment arrives: it may carry the ack flag, and data this end needs.
RRecv(hasAck, ackNum, hasData) ==
  /\ rpc = "recv"
  /\ IF hasAck /\ ackNum # lastAcked
       THEN /\ rpc' = "check"
            /\ rack' = ackNum /\ rdata' = hasData
            /\ rge' = (lastSent >= lastAcked)
       ELSE /\ rpc' = IF hasData THEN "reply" ELSE "recv"
            /\ UNCHANGED <<rack, rdata, rge>>
  /\ UNCHANGED <<ringVars, sendBuff, mutex, aVars, sVars, rleft, written>>

\* Nothing arrives during recvWaitTime: the thread ends.
RIdleEnds ==
  /\ rpc = "recv" /\ WaitLimits
  /\ rpc' = "ended"
  /\ UNCHANGED <<ringVars, sendBuff, mutex, aVars, sVars, rge, rleft, rack,
                 rdata, written>>

\* Mutated form of Acceptable: an acknowledgment ahead of lastSent passes.
AcceptableAhead == IF rge THEN rack > lastAcked
                          ELSE rack > lastAcked \/ rack <= lastSent

\* Mutated form of Acceptable: everything sent is acknowledged but in vain.
AcceptableStrict == IF rge THEN rack > lastAcked /\ rack < lastSent
                           ELSE rack > lastAcked \/ rack < lastSent

\* The test on a new acknowledgment, lastSent loaded again.
Acceptable == IF rge THEN rack > lastAcked /\ rack <= lastSent
                     ELSE rack > lastAcked \/ rack <= lastSent

RCheck ==
  /\ rpc = "check"
  /\ lastAcked' = IF Acceptable THEN rack ELSE lastAcked
  /\ rpc' = IF rdata THEN "reply" ELSE "recv"
  /\ rack' = 0 /\ rdata' = FALSE
  /\ UNCHANGED <<lastSent, lastWrite, sendBuff, mutex, aVars, sVars, rge,
                 rleft, written>>

\* sendDataWithAck: lock, compute leftWnd, test lastSent <= lastWrite.
RLock(wndLimit) ==
  /\ rpc = "reply" /\ mutex = "none"
  /\ mutex' = "R"
  /\ rleft' = wndLimit - Dist(lastAcked, lastSent)
  /\ rge' = (lastSent <= lastWrite)
  /\ rpc' = "answer"
  /\ UNCHANGED <<ringVars, sendBuff, aVars, sVars, rack, rdata, written>>

\* sendDataWithAck sends NewSegment(Budget(rge, rleft)) with the ack on it.
RPiggyback ==
  /\ rpc = "answer"
  /\ Budget(rge, rleft) > 0
  /\ lastSent' = Add(lastSent, SmallerOf(Budget(rge, rleft), MSS))
  /\ mutex' = "none"
  /\ rpc' = "recv" /\ rleft' = 0
  /\ UNCHANGED <<lastAcked, lastWrite, sendBuff, aVars, sVars, rge, rack,
                 rdata, written>>

\* Nothing to send along, or its sendto failed: a bare acknowledgment.
\* When that fails as well the thread ends.
RAckOnly ==
  /\ rpc = "answer"
  /\ Budget(rge, rleft) <= 0 \/ SendFails
  /\ mutex' = "none"
  /\ \/ rpc' = "recv"
     \/ rpc' = "ended" /\ SendFails
  /\ rleft' = 0
  /\ UNCHANGED <<ringVars, sendBuff, aVars, sVars, rge, rack, rdata, written>>

RNext ==
  \/ \E hasAck, hasData \in BOOLEAN, a \in Pos : RRecv(hasAck, a, hasData)
  \/ RIdleEnds \/ RCheck \/ (\E w \in Pos : RLock(w)) \/ RPiggyback \/ RAckOnly

-----------------------------------------------------------------------------
Next == ANext \/ SNext \/ RNext

Spec == Init /\ [][Next]_vars

(***************************************************************************)
(* Threads are scheduled: each of S and R keeps taking its steps, and a    *)
(* thread that blocks on sendNewDataMutex again and again gets it at last. *)
(* Nothing is assumed of the application or of the peer.                   *)
(***************************************************************************)
Fairness ==
  /\ WF_vars(SNext)
  /\ SF_vars(\E w \in Pos : RLock(w))
  /\ WF_vars(RCheck \/ RPiggyback \/ RAckOnly)

FairSpec == Spec /\ Fairness

-----------------------------------------------------------------------------
(* Properties                                                              *)

\* The fields and locals keep their types; the three indices stay indices.
TypeOK ==
  /\ lastAcked \in Pos /\ lastSent \in Pos /\ lastWrite \in Pos
  /\ sendBuff \in [Pos -> Int]
  /\ mutex \in {"none", "S", "R"}
  /\ apc \in {"idle", "room", "room2", "calc", "byte", "store", "short"}
  /\ sendLen \in Nat /\ len \in Nat /\ canSendLen \in Int
  /\ rel \in {"gt", "lt"} /\ clear \in BOOLEAN /\ timeNums \in Nat
  /\ spc \in {"top", "lock", "window", "unsent", "budget", "send", "advance",
              "timers", "unacked", "seqnum", "resend", "ended"}
  /\ sge \in BOOLEAN /\ sleft \in Int /\ sseq \in Pos
  /\ rpc \in {"recv", "check", "reply", "answer", "ended"}
  /\ rge \in BOOLEAN /\ rleft \in Int /\ rack \in Pos /\ rdata \in BOOLEAN
  /\ written \in Nat

(***************************************************************************)
(* lastAcked, lastSent and lastWrite stay in this order around the ring    *)
(* and never span more than N - 1 bytes, whatever the three threads read   *)
(* while the others move them and whatever acknowledgment numbers arrive   *)
(* (the unlocked tests of sendToResf, prepareAndSend and startRecv).       *)
(***************************************************************************)
RingOrder ==
  Dist(lastAcked, lastSent) + Dist(lastSent, lastWrite) <= N - 1

\* Stream position of the byte that belongs at index p, lastAcked..lastWrite.
StreamPos(p) == written - Dist(p, lastWrite)

(***************************************************************************)
(* Every byte not yet acknowledged is still in the buffer: sendToResf      *)
(* never stores into a slot that a retransmission would have to read.      *)
(***************************************************************************)
UnackedIntact ==
  \A k \in Pos : k < Dist(lastAcked, lastWrite) =>
    sendBuff[Add(lastAcked, k)] = StreamPos(lastAcked) + k

IsStream(seg) ==
  \A i \in DOMAIN seg.data : seg.data[i] = StreamPos(lastSent) + i - 1

(***************************************************************************)
(* New data is sent as written: the segment that prepareAndSend or         *)
(* sendDataWithAck hands to sendto holds the bytes the application wrote   *)
(* there, never an unwritten or an already reused slot.                    *)
(***************************************************************************)
NewDataIntact ==
  /\ spc = "send" => IsStream(NewSegment(sleft))
  /\ rpc = "answer" => IsStream(NewSegment(Budget(rge, rleft)))

(***************************************************************************)
(* sendToResf is all or nothing: having waited for room for the whole call *)
(* it never runs into its 2 s timeout half way, although it may take the   *)
(* buffer for full when the last acknowledgment arrives between its loads. *)
(***************************************************************************)
NoShortSend == apc # "short"

(***************************************************************************)
(* The indices only move forward, each at most up to the next one: no      *)
(* stale acknowledgment takes lastAcked back, none takes it past lastSent, *)
(* and lastSent never passes what has been written.                        *)
(***************************************************************************)
PointersAdvance ==
  [][ /\ Dist(lastAcked, lastAcked') <= Dist(lastAcked, lastSent)
      /\ Dist(lastSent, lastSent') <= Dist(lastSent, lastWrite)
      /\ Dist(lastWrite, lastWrite') <= Room(lastAcked, lastWrite)
    ]_ringVars

(***************************************************************************)
(* In-order data is answered: the receive thread gets past                 *)
(* sendDataWithAck, "send only ack" being its fallback (resf.c:681).       *)
(***************************************************************************)
Answered == rpc = "reply" ~> rpc # "reply"

(***************************************************************************)
(* The same as long as the send thread lives: without a failed sendto the  *)
(* two threads never keep each other from sendNewDataMutex for good.       *)
(***************************************************************************)
AnsweredWhileSending == rpc = "reply" ~> (rpc # "reply" \/ spc = "ended")
=============================================================================
