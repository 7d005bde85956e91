-------------------------- MODULE SendBufferProofs --------------------------
(***************************************************************************)
(* Safety of the send half, for every buffer size N, segment size MSS, set *)
(* of call lengths and poll limit > 1.                                     *)
(*                                                                         *)
(* RingOrder is not inductive: a thread that has tested a field and is     *)
(* about to use it must be known to have seen something that is still      *)
(* true.  OrderInv adds, per thread, what its locals guarantee: AppRoom    *)
(* for sendToResf, SendBudget for the two senders, AckBranch for the       *)
(* acknowledgment in startRecv, and MutexHeld for sendNewDataMutex.        *)
(***************************************************************************)
EXTENDS SendBuffer, RingLemmas

\* Whoever is past a pthread_mutex_lock on sendNewDataMutex holds it.
MutexHeld ==
  /\ spc \in {"window", "unsent", "budget", "send", "advance"} => mutex = "S"
  /\ rpc = "answer" => mutex = "R"

\* What sendToResf has read is enough for the rest of the call.
AppRoom ==
  /\ apc \in {"room", "room2", "calc"} => len = 0 /\ canSendLen < sendLen
  /\ apc = "calc" /\ rel = "gt" => lastAcked <= lastWrite
  /\ apc \in {"byte", "store"} =>
       /\ len <= sendLen /\ sendLen <= canSendLen
       /\ sendLen - len <= Room(lastAcked, lastWrite)
  /\ apc = "store" => len < sendLen

\* What prepareAndSend and sendDataWithAck have read is not too much.
SendBudget ==
  /\ spc = "budget" /\ ~sge => lastWrite < lastSent
  /\ spc \in {"send", "advance"} => 0 < sleft /\ sleft <= Dist(lastSent, lastWrite)
  /\ rpc = "answer" /\ ~rge => lastWrite < lastSent

\* What startRecv has read of lastSent still bounds the acknowledgment.
AckBranch ==
  rpc = "check" => rack # lastAcked /\ (~rge => lastSent < lastAcked)

OrderInv == RingOrder /\ MutexHeld /\ AppRoom /\ SendBudget /\ AckBranch

\* initResf and the locals start with values of their types.
LEMMA TypeInit == Init => TypeOK
<1> SUFFICES ASSUME Init PROVE TypeOK
  OBVIOUS
<1>1. 0 \in Pos /\ Junk \in Int
  BY RingSize DEF Pos, Junk
<1>2. sendBuff \in [Pos -> Int]
  BY <1>1 DEF Init
<1>3. clear \in BOOLEAN /\ sge \in BOOLEAN /\ rge \in BOOLEAN /\ rdata \in BOOLEAN
  BY Zenon DEF Init
<1> QED
  BY <1>1, <1>2, <1>3 DEF Init, TypeOK

\* Every step keeps the types: an index leaves 0 .. N - 1 nowhere, because
\* each store reduces modulo N or takes over a number that is an index.
LEMMA TypeNext == TypeOK /\ [Next]_vars => TypeOK'
<1> SUFFICES ASSUME TypeOK, [Next]_vars PROVE TypeOK'
  OBVIOUS
<1> USE RingSize, SendParams DEF TypeOK, ringVars, aVars, sVars, rVars
<1>1. ASSUME NEW k \in CallSizes, ACall(k)
     PROVE  TypeOK'
  BY <1>1 DEF ACall
<1>2. CASE ATestAbove
  BY <1>2 DEF ATestAbove
<1>3. CASE ATestBelow
  BY <1>3 DEF ATestBelow, Decide, Pos
<1>4. CASE ACalcRoom
  BY <1>4 DEF ACalcRoom, Decide, RoomBy, Pos
<1>5. CASE AByte
  <2>1. clear' \in BOOLEAN
    BY <1>5, Zenon DEF AByte, AllClear
  <2> QED
    BY <1>5, <2>1 DEF AByte
<1>6. CASE APoll
  BY <1>6 DEF APoll
<1>7. CASE AStore
  BY <1>7, AddInRing DEF AStore
<1>8. CASE SWake
  BY <1>8 DEF SWake
<1>26. CASE SIdleEnds
  BY <1>26 DEF SIdleEnds
<1>27. CASE RIdleEnds
  BY <1>27 DEF RIdleEnds
<1>9. ASSUME NEW w \in Pos, SLock(w)
     PROVE  TypeOK'
  BY <1>9 DEF SLock, Pos
<1>10. CASE SWindow
  BY <1>10 DEF SWindow, DistBy, Pos
<1>11. CASE SUnsent
  BY <1>11 DEF SUnsent
<1>12. CASE SBudget
  BY <1>12 DEF SBudget, Budget, SmallerOf, DistBy, Pos
<1>13. CASE SSend
  BY <1>13 DEF SSend
<1>14. CASE SSendFails
  BY <1>14 DEF SSendFails
<1>15. CASE SAdvance
  <2>1. SmallerOf(sleft, MSS) \in Int
    BY DEF SmallerOf
  <2>2. lastSent' \in Pos /\ sleft' \in Int
    BY <1>15, <2>1, AddInRing DEF SAdvance
  <2> QED
    BY <1>15, <2>2 DEF SAdvance
<1>16. CASE STimers
  <2>1. sge' \in BOOLEAN
    <3>1. CASE UNCHANGED sge
      BY <3>1
    <3>2. CASE sge' = (lastSent >= lastAcked)
      BY <3>2
    <3> QED
      BY <1>16, <3>1, <3>2 DEF STimers
  <2> QED
    BY <1>16, <2>1 DEF STimers
<1>17. CASE SUnacked
  BY <1>17 DEF SUnacked, SmallerOf, DistBy, Pos
<1>18. CASE SSeqNum
  BY <1>18 DEF SSeqNum
<1>19. CASE SResend
  BY <1>19 DEF SResend, Pos
<1>20. ASSUME NEW hasAck \in BOOLEAN, NEW hasData \in BOOLEAN, NEW a \in Pos,
              RRecv(hasAck, a, hasData)
     PROVE  TypeOK'
  <2>1. rge' \in BOOLEAN /\ rdata' \in BOOLEAN
    <3>1. CASE UNCHANGED <<rge, rdata>>
      BY <3>1
    <3>2. CASE rge' = (lastSent >= lastAcked) /\ rdata' = hasData
      BY <3>2
    <3> QED
      BY <1>20, <3>1, <3>2 DEF RRecv
  <2> QED
    BY <1>20, <2>1 DEF RRecv
<1>21. CASE RCheck
  <2>1. lastAcked' \in Pos
    BY <1>21 DEF RCheck
  <2>2. rdata' \in BOOLEAN /\ rge' \in BOOLEAN
    BY <1>21, Zenon DEF RCheck
  <2> QED
    BY <1>21, <2>1, <2>2 DEF RCheck, Pos
<1>22. ASSUME NEW w \in Pos, RLock(w)
     PROVE  TypeOK'
  BY <1>22 DEF RLock, Dist, DistBy, Pos
<1>23. CASE RPiggyback
  <2>1. SmallerOf(Budget(rge, rleft), MSS) \in Int
    BY DEF SmallerOf, Budget, DistBy, Pos
  <2>2. lastSent' \in Pos
    BY <1>23, <2>1, AddInRing DEF RPiggyback
  <2> QED
    BY <1>23, <2>2 DEF RPiggyback
<1>24. CASE RAckOnly
  BY <1>24 DEF RAckOnly
<1>25. CASE UNCHANGED vars
  BY <1>25 DEF vars
<1> QED
  BY <1>1, <1>2, <1>3, <1>4, <1>5, <1>6, <1>7, <1>8, <1>9, <1>10, <1>11, <1>12, <1>13, <1>14, <1>15, <1>16, <1>17, <1>18, <1>19, <1>20, <1>21, <1>22, <1>23, <1>24, <1>25, <1>26, <1>27
     DEF Next, ANext, SNext, RNext

\* An idle endpoint with empty buffers satisfies the invariant.
LEMMA OrderInit == Init => OrderInv
BY RingSize DEF Init, OrderInv, RingOrder, MutexHeld, AppRoom, SendBudget, AckBranch,
                Dist, DistBy

\* Every step keeps the invariant.  The steps that matter store an index:
\* AStore (by AppRoom), SAdvance and RPiggyback (by SendBudget and the mutex,
\* which keeps the other one away) and RCheck (by AckBranch).  The loads only
\* record what they saw, and what they saw stays true enough: lastAcked only
\* ever makes room larger and lastWrite the unsent data longer.
LEMMA OrderNext == TypeOK /\ TypeOK' /\ OrderInv /\ [Next]_vars => OrderInv'
<1> SUFFICES ASSUME TypeOK, TypeOK', OrderInv, [Next]_vars PROVE OrderInv'
  OBVIOUS
<1> USE RingSize, SendParams DEF TypeOK, OrderInv, RingOrder, MutexHeld, AppRoom, SendBudget, AckBranch,
      Pos, Dist, DistBy, Room, ringVars, aVars, sVars, rVars
<1>1. ASSUME NEW k \in CallSizes, ACall(k)
     PROVE  OrderInv'
  BY <1>1 DEF ACall
<1>2. CASE ATestAbove
  BY <1>2 DEF ATestAbove
<1>3. CASE ATestBelow
  <2>1. RingOrder'
    BY <1>3 DEF ATestBelow, Decide
  <2>2. MutexHeld'
    BY <1>3 DEF ATestBelow, Decide
  <2>3. AppRoom'
    BY <1>3 DEF ATestBelow, Decide
  <2>4. SendBudget'
    BY <1>3 DEF ATestBelow, Decide
  <2>5. AckBranch'
    BY <1>3 DEF ATestBelow, Decide
  <2> QED
    BY <2>1, <2>2, <2>3, <2>4, <2>5
<1>4. CASE ACalcRoom
  <2>1. RingOrder'
    BY <1>4 DEF ACalcRoom, Decide, RoomBy
  <2>2. MutexHeld'
    BY <1>4 DEF ACalcRoom, Decide, RoomBy
  <2>3. AppRoom'
    BY <1>4 DEF ACalcRoom, Decide, RoomBy
  <2>4. SendBudget'
    BY <1>4 DEF ACalcRoom, Decide, RoomBy
  <2>5. AckBranch'
    BY <1>4 DEF ACalcRoom, Decide, RoomBy
  <2> QED
    BY <2>1, <2>2, <2>3, <2>4, <2>5
<1>5. CASE AByte
  BY <1>5 DEF AByte
<1>6. CASE APoll
  BY <1>6 DEF APoll
<1>7. CASE AStore
  <2>0. lastWrite' = IF lastWrite + 1 < N THEN lastWrite + 1 ELSE 0
    BY <1>7, AddCases, SMTT(30) DEF AStore
  <2>1. RingOrder'
    BY <1>7, <2>0, SMTT(30) DEF AStore
  <2>2. MutexHeld'
    BY <1>7, AddCases DEF AStore
  <2>3. AppRoom'
    <3>1. apc = "store" /\ apc' = "byte" /\ len' = len + 1
          /\ UNCHANGED <<sendLen, canSendLen, lastAcked>>
      BY <1>7 DEF AStore
    <3>2. sendLen - len <= Room(lastAcked, lastWrite) /\ len < sendLen
          /\ sendLen <= canSendLen
      BY <3>1
    <3>3. lastAcked \in Pos /\ lastWrite \in Pos /\ sendLen \in Nat /\ len \in Nat
          /\ canSendLen \in Int
      OBVIOUS
    <3>4. lastWrite' = Add(lastWrite, 1)
      BY <1>7 DEF AStore
    <3> HIDE DEF TypeOK, OrderInv, Pos, Dist, DistBy
    <3>5. 1 <= Room(lastAcked, lastWrite)
      BY <3>2, <3>3, RingSize DEF Room, Dist, DistBy, Pos
    <3>6. Room(lastAcked, lastWrite') = Room(lastAcked, lastWrite) - 1
      BY <3>3, <3>4, <3>5, Extend, DistPos DEF Room, Pos
    <3> QED
      BY <3>1, <3>2, <3>3, <3>6, RingSize DEF AppRoom, Room, Dist, DistBy, Pos
  <2>4. SendBudget'
    BY <1>7, <2>0, SMTT(30) DEF AStore
  <2>5. AckBranch'
    BY <1>7, AddCases DEF AStore
  <2> QED
    BY <2>1, <2>2, <2>3, <2>4, <2>5
<1>8. CASE SWake
  BY <1>8 DEF SWake
<1>26. CASE SIdleEnds
  BY <1>26 DEF SIdleEnds
<1>27. CASE RIdleEnds
  BY <1>27 DEF RIdleEnds
<1>9. ASSUME NEW w \in Pos, SLock(w)
     PROVE  OrderInv'
  BY <1>9 DEF SLock
<1>10. CASE SWindow
  BY <1>10 DEF SWindow
<1>11. CASE SUnsent
  <2>1. RingOrder'
    BY <1>11 DEF SUnsent
  <2>2. MutexHeld'
    BY <1>11 DEF SUnsent
  <2>3. AppRoom'
    BY <1>11 DEF SUnsent
  <2>4. SendBudget'
    <3>1. ~sge' => ~(lastSent <= lastWrite)
      BY <1>11, Zenon DEF SUnsent
    <3>2. ~sge' => lastWrite < lastSent
      BY <3>1
    <3> QED
      BY <1>11, <3>2 DEF SUnsent
  <2>5. AckBranch'
    BY <1>11 DEF SUnsent
  <2> QED
    BY <2>1, <2>2, <2>3, <2>4, <2>5
<1>12. CASE SBudget
  BY <1>12 DEF SBudget, Budget, SmallerOf
<1>13. CASE SSend
  BY <1>13 DEF SSend
<1>14. CASE SSendFails
  BY <1>14 DEF SSendFails
<1>15. CASE SAdvance
  <2> DEFINE segLen == SmallerOf(sleft, MSS)
  <2>6. segLen \in 1 .. N - 1 /\ segLen <= sleft /\ sleft <= Dist(lastSent, lastWrite)
    BY <1>15 DEF SAdvance, SmallerOf
  <2>8. lastSent' = Add(lastSent, segLen) /\ sleft' = sleft - segLen
    BY <1>15 DEF SAdvance
  <2> HIDE DEF segLen
  <2>7. Add(lastSent, segLen) = IF lastSent + segLen < N THEN lastSent + segLen
                                                        ELSE lastSent + segLen - N
    <3>1. lastSent \in Pos /\ segLen \in 0 .. N
      BY <2>6
    <3> HIDE DEF Pos, TypeOK, OrderInv
    <3> QED
      BY <3>1, AddCases
  <2>1. RingOrder'
    BY <1>15, <2>6, <2>7, <2>8 DEF SAdvance
  <2>2. MutexHeld'
    BY <1>15, AddCases DEF SAdvance, SmallerOf
  <2>3. AppRoom'
    BY <1>15, AddCases DEF SAdvance, SmallerOf
  <2>4. SendBudget'
    BY <1>15, <2>6, <2>7, <2>8, SMTT(30) DEF SAdvance
  <2>5. AckBranch'
    BY <1>15, <2>6, <2>7, <2>8 DEF SAdvance
  <2> QED
    BY <2>1, <2>2, <2>3, <2>4, <2>5
<1>16. CASE STimers
  BY <1>16 DEF STimers
<1>17. CASE SUnacked
  BY <1>17 DEF SUnacked
<1>18. CASE SSeqNum
  BY <1>18 DEF SSeqNum
<1>19. CASE SResend
  BY <1>19 DEF SResend
<1>20. ASSUME NEW hasAck \in BOOLEAN, NEW hasData \in BOOLEAN, NEW a \in Pos,
              RRecv(hasAck, a, hasData)
     PROVE  OrderInv'
  BY <1>20 DEF RRecv
<1>21. CASE RCheck
  BY <1>21 DEF RCheck, Acceptable
<1>22. ASSUME NEW w \in Pos, RLock(w)
     PROVE  OrderInv'
  <2>1. RingOrder'
    BY <1>22 DEF RLock
  <2>2. MutexHeld'
    BY <1>22 DEF RLock
  <2>3. AppRoom'
    BY <1>22 DEF RLock
  <2>4. SendBudget'
    <3>1. ~rge' => ~(lastSent <= lastWrite)
      BY <1>22, Zenon DEF RLock
    <3>2. ~rge' => lastWrite < lastSent
      BY <3>1
    <3> QED
      BY <1>22, <3>2 DEF RLock
  <2>5. AckBranch'
    BY <1>22 DEF RLock
  <2> QED
    BY <2>1, <2>2, <2>3, <2>4, <2>5
<1>23. CASE RPiggyback
  <2> DEFINE segLen == SmallerOf(Budget(rge, rleft), MSS)
  <2>6. segLen \in 1 .. N - 1 /\ segLen <= Dist(lastSent, lastWrite)
    BY <1>23 DEF RPiggyback, Budget, SmallerOf
  <2>8. lastSent' = Add(lastSent, segLen)
    BY <1>23 DEF RPiggyback
  <2> HIDE DEF segLen
  <2>7. Add(lastSent, segLen) = IF lastSent + segLen < N THEN lastSent + segLen
                                                        ELSE lastSent + segLen - N
    <3>1. lastSent \in Pos /\ segLen \in 0 .. N
      BY <2>6
    <3> HIDE DEF Pos, TypeOK, OrderInv
    <3> QED
      BY <3>1, AddCases
  <2>1. RingOrder'
    BY <1>23, <2>6, <2>7, <2>8 DEF RPiggyback
  <2>2. MutexHeld'
    BY <1>23, AddCases DEF RPiggyback, Budget, SmallerOf
  <2>3. AppRoom'
    BY <1>23, AddCases DEF RPiggyback, Budget, SmallerOf
  <2>4. SendBudget'
    BY <1>23, AddCases DEF RPiggyback, Budget, SmallerOf
  <2>5. AckBranch'
    BY <1>23, AddCases DEF RPiggyback, Budget, SmallerOf
  <2> QED
    BY <2>1, <2>2, <2>3, <2>4, <2>5
<1>24. CASE RAckOnly
  BY <1>24 DEF RAckOnly
<1>25. CASE UNCHANGED vars
  BY <1>25 DEF vars
<1> QED
  BY <1>1, <1>2, <1>3, <1>4, <1>5, <1>6, <1>7, <1>8, <1>9, <1>10, <1>11, <1>12, <1>13, <1>14, <1>15, <1>16, <1>17, <1>18, <1>19, <1>20, <1>21, <1>22, <1>23, <1>24, <1>25, <1>26, <1>27
     DEF Next, ANext, SNext, RNext

\* What the copy loop has counted: one poll at most, and then only because
\* the last acknowledgment arrived between the loads of AllClear.
PollInv ==
  /\ apc # "short"
  /\ timeNums <= 1
  /\ apc \in {"room", "room2", "calc"} => timeNums = 0
  /\ apc \in {"byte", "store"} /\ timeNums = 1 => lastAcked = lastWrite
  /\ apc = "store" /\ timeNums = 1 => clear

\* The numeric part of TypeOK, for steps that need nothing else of it.
LEMMA TypeNumbers ==
  TypeOK => /\ lastAcked \in Pos /\ lastSent \in Pos /\ lastWrite \in Pos
            /\ sendLen \in Nat /\ len \in Nat /\ sleft \in Int /\ rleft \in Int
            /\ written \in Nat
BY DEF TypeOK

\* A step moves each index forward, at most up to the next one.
LEMMA MovesForward ==
  TypeOK /\ TypeOK' /\ OrderInv /\ [Next]_vars =>
    /\ Dist(lastAcked, lastAcked') <= Dist(lastAcked, lastSent)
    /\ Dist(lastSent, lastSent') <= Dist(lastSent, lastWrite)
    /\ Dist(lastWrite, lastWrite') <= Room(lastAcked, lastWrite)
<1> SUFFICES ASSUME TypeOK, TypeOK', OrderInv, [Next]_vars
             PROVE  /\ Dist(lastAcked, lastAcked') <= Dist(lastAcked, lastSent)
                    /\ Dist(lastSent, lastSent') <= Dist(lastSent, lastWrite)
                    /\ Dist(lastWrite, lastWrite') <= Room(lastAcked, lastWrite)
  OBVIOUS
<1>1. /\ lastAcked \in Pos /\ lastSent \in Pos /\ lastWrite \in Pos
      /\ Dist(lastAcked, lastAcked) = 0 /\ Dist(lastSent, lastSent) = 0
      /\ Dist(lastWrite, lastWrite) = 0 /\ Dist(lastAcked, lastSent) >= 0
      /\ Dist(lastSent, lastWrite) >= 0 /\ Room(lastAcked, lastWrite) >= 0
  <2>1. /\ Dist(lastAcked, lastSent) \in Pos /\ Dist(lastSent, lastWrite) \in Pos
        /\ Dist(lastAcked, lastWrite) \in Pos
    BY TypeNumbers, DistPos
  <2> QED
    BY <2>1, TypeNumbers, RingSize DEF Pos, Dist, DistBy, Room
<1>2. CASE UNCHANGED ringVars
  BY <1>1, <1>2 DEF ringVars
<1>3. CASE AStore
  <2>1. /\ UNCHANGED <<lastAcked, lastSent>> /\ lastWrite' = Add(lastWrite, 1)
        /\ apc = "store"
    BY <1>3 DEF AStore
  <2>2. 1 <= Room(lastAcked, lastWrite)
    <3>1. sendLen - len <= Room(lastAcked, lastWrite) /\ len < sendLen
      BY <2>1 DEF OrderInv, AppRoom
    <3> QED
      BY <3>1, <1>1, TypeNumbers, RingSize DEF Room, Dist, DistBy, Pos
  <2>3. Dist(lastWrite, lastWrite') = 1
    BY <1>1, <2>1, <2>2, Extend
  <2> QED
    BY <1>1, <2>1, <2>2, <2>3
<1>4. CASE SAdvance
  <2>1. UNCHANGED <<lastAcked, lastWrite>> /\ spc = "advance"
    BY <1>4 DEF SAdvance
  <2>2. PICK k \in Nat : k <= Dist(lastSent, lastWrite) /\ lastSent' = Add(lastSent, k)
    <3>1. SmallerOf(sleft, MSS) \in Nat
          /\ SmallerOf(sleft, MSS) <= Dist(lastSent, lastWrite)
      <4>1. 0 < sleft /\ sleft <= Dist(lastSent, lastWrite)
        BY <2>1 DEF OrderInv, SendBudget
      <4> QED
        BY <4>1, TypeNumbers, SendParams, RingSize DEF SmallerOf, Dist, DistBy, Pos
    <3> QED
      BY <1>4, <3>1 DEF SAdvance
  <2>3. Dist(lastSent, lastSent') = k
    BY <1>1, <2>2, Advance
  <2> QED
    BY <1>1, <2>1, <2>2, <2>3
<1>5. CASE RPiggyback
  <2>1. UNCHANGED <<lastAcked, lastWrite>> /\ rpc = "answer" /\ Budget(rge, rleft) > 0
    BY <1>5 DEF RPiggyback
  <2>2. PICK k \in Nat : k <= Dist(lastSent, lastWrite) /\ lastSent' = Add(lastSent, k)
    <3>1. SmallerOf(Budget(rge, rleft), MSS) \in Nat
          /\ SmallerOf(Budget(rge, rleft), MSS) <= Dist(lastSent, lastWrite)
      <4>1. ~rge => lastWrite < lastSent
        BY <2>1 DEF OrderInv, SendBudget
      <4> QED
        BY <2>1, <4>1, TypeNumbers, SendParams, RingSize
        DEF Budget, SmallerOf, Dist, DistBy, Pos
    <3> QED
      BY <1>5, <3>1 DEF RPiggyback
  <2>3. Dist(lastSent, lastSent') = k
    BY <1>1, <2>2, Advance
  <2> QED
    BY <1>1, <2>1, <2>2, <2>3
<1>6. CASE RCheck
  <2>1. UNCHANGED <<lastSent, lastWrite>>
    BY <1>6 DEF RCheck
  <2>2. Dist(lastAcked, lastAcked') <= Dist(lastAcked, lastSent)
    BY <1>6, RingSize
    DEF RCheck, Acceptable, OrderInv, AckBranch, TypeOK, Dist, DistBy, Pos
  <2> QED
    BY <1>1, <2>1, <2>2
<1>7. UNCHANGED ringVars \/ AStore \/ SAdvance \/ RPiggyback \/ RCheck
  BY DEF Next, ANext, SNext, RNext, vars, ACall, ATestAbove, ATestBelow, ACalcRoom,
         Decide, AByte, APoll, SWake, SLock, SWindow, SUnsent, SBudget, SSend,
         SSendFails, STimers, SUnacked, SSeqNum, SResend, SIdleEnds,
         RIdleEnds, RRecv, RLock, RAckOnly
<1> QED
  BY <1>2, <1>3, <1>4, <1>5, <1>6, <1>7

\* With nothing written there is nothing to lose.
LEMMA IntactInit == Init => UnackedIntact
BY RingSize DEF Init, UnackedIntact, Pos, Dist, DistBy

\* A store goes to the free slot after the last byte written, and an
\* acknowledgment only shortens the part of the ring that counts.
LEMMA IntactNext ==
  TypeOK /\ TypeOK' /\ OrderInv /\ UnackedIntact /\ [Next]_vars => UnackedIntact'
<1> SUFFICES ASSUME TypeOK, TypeOK', OrderInv, UnackedIntact, [Next]_vars
             PROVE  UnackedIntact'
  OBVIOUS
<1> DEFINE D == Dist(lastAcked, lastWrite)
<1>1. /\ lastAcked \in Pos /\ lastSent \in Pos /\ lastWrite \in Pos /\ written \in Nat
      /\ lastAcked' \in Pos /\ D \in Pos /\ Dist(lastAcked, lastSent) \in Pos
      /\ Dist(lastSent, lastWrite) \in Pos
  BY TypeNumbers, DistPos DEF TypeOK
<1>2. CASE UNCHANGED <<lastAcked, lastWrite, sendBuff, written>>
  BY <1>2 DEF UnackedIntact, StreamPos, Dist, DistBy, Add, Pos
<1>3. CASE AStore
  <2>1. /\ UNCHANGED <<lastAcked, lastSent>> /\ lastWrite' = Add(lastWrite, 1)
        /\ sendBuff' = [sendBuff EXCEPT ![lastWrite] = written]
        /\ written' = written + 1 /\ apc = "store"
    BY <1>3 DEF AStore
  <2>2. 1 <= Room(lastAcked, lastWrite)
    <3>1. sendLen - len <= Room(lastAcked, lastWrite) /\ len < sendLen
      BY <2>1 DEF OrderInv, AppRoom
    <3> QED
      BY <3>1, <1>1, TypeNumbers, RingSize DEF Room, Dist, DistBy, Pos
  <2>3. Dist(lastAcked, lastWrite') = D + 1
    BY <1>1, <2>1, <2>2, Extend
  <2>4. Add(lastAcked, D) = lastWrite
    BY <1>1, DistPos
  <2>5. StreamPos(lastAcked)' = StreamPos(lastAcked)
    BY <2>1, <2>3, <1>1, RingSize DEF StreamPos, Pos
  <2>6. ASSUME NEW k \in Pos, k < D + 1
        PROVE  sendBuff'[Add(lastAcked, k)] = StreamPos(lastAcked) + k
    <3>1. CASE k = D
      <4>1. Add(lastAcked, k) = lastWrite
        BY <3>1, <2>4
      <4>2. sendBuff'[lastWrite] = written
        BY <2>1, <1>1 DEF TypeOK
      <4>3. StreamPos(lastAcked) + k = written
        BY <3>1, <1>1, RingSize DEF StreamPos, Pos
      <4> QED
        BY <4>1, <4>2, <4>3
    <3>2. CASE k < D
      <4>1. Add(lastAcked, k) # lastWrite
        <5>1. k # D
          BY <3>2, <1>1, RingSize DEF Pos
        <5> HIDE DEF D
        <5> QED
          BY <5>1, <2>4, <1>1, AddInjective
      <4>2. sendBuff'[Add(lastAcked, k)] = sendBuff[Add(lastAcked, k)]
        BY <4>1, <2>1, <1>1, AddPos DEF TypeOK
      <4> QED
        BY <4>2, <3>2 DEF UnackedIntact
    <3> QED
      BY <2>6, <3>1, <3>2, <1>1, RingSize DEF Pos
  <2> QED
    BY <2>1, <2>3, <2>5, <2>6 DEF UnackedIntact
<1>4. CASE RCheck
  <2>1. UNCHANGED <<lastSent, lastWrite, sendBuff, written>>
    BY <1>4 DEF RCheck
  <2> DEFINE j == Dist(lastAcked, lastAcked')
  <2>2. j <= Dist(lastAcked, lastSent)
    BY MovesForward
  <2>3. D = Dist(lastAcked, lastSent) + Dist(lastSent, lastWrite)
    BY <1>1, DistChain, RingSize DEF OrderInv, RingOrder, Pos
  <2>4. j \in Pos /\ j <= D /\ lastAcked' = Add(lastAcked, j)
    BY <2>2, <2>3, <1>1, DistPos DEF Pos
  <2>5. Dist(lastAcked', lastWrite) = D - j
    BY <2>4, <1>1, Advance DEF Pos
  <2> HIDE DEF j, D
  <2>6. ASSUME NEW k \in Pos, k < D - j
        PROVE  sendBuff[Add(lastAcked', k)] = StreamPos(lastAcked) + j + k
    <3>1. Add(lastAcked', k) = Add(lastAcked, j + k) /\ j + k \in Pos /\ j + k < D
      BY <2>4, <2>6, <1>1, AddAdd, RingSize DEF Pos
    <3>2. sendBuff[Add(lastAcked, j + k)] = StreamPos(lastAcked) + (j + k)
      BY <3>1 DEF UnackedIntact, D
    <3>3. StreamPos(lastAcked) \in Int
      BY <1>1 DEF StreamPos, D, Pos
    <3> QED
      BY <3>1, <3>2, <3>3, <2>4, RingSize DEF Pos
  <2>7. StreamPos(lastAcked)' = StreamPos(lastAcked) + j
    BY <2>1, <2>4, <2>5, <1>1, RingSize DEF StreamPos, D, Pos
  <2> QED
    BY <2>1, <2>5, <2>6, <2>7 DEF UnackedIntact
<1>5. UNCHANGED <<lastAcked, lastWrite, sendBuff, written>> \/ AStore \/ RCheck
  BY DEF Next, ANext, SNext, RNext, vars, ACall, ATestAbove, ATestBelow, ACalcRoom,
         Decide, AByte, APoll, SWake, SLock, SWindow, SUnsent, SBudget, SSend, SAdvance,
         SSendFails, STimers, SUnacked, SSeqNum, SResend, SIdleEnds,
         RIdleEnds, RRecv, RLock, RPiggyback,
         RAckOnly, ringVars
<1> QED
  BY <1>2, <1>3, <1>4, <1>5

\* A segment cut from the unsent part of the ring holds the bytes that
\* were written there.
LEMMA NewSegmentIntact ==
  ASSUME TypeOK, OrderInv, UnackedIntact,
         NEW left \in Int, left <= Dist(lastSent, lastWrite)
  PROVE  IsStream(NewSegment(left))
<1> DEFINE j == Dist(lastAcked, lastSent)
           D == Dist(lastAcked, lastWrite)
           segLen == SmallerOf(left, MSS)
<1>1. /\ lastAcked \in Pos /\ lastSent \in Pos /\ lastWrite \in Pos /\ written \in Nat
      /\ D \in Pos /\ j \in Pos /\ Dist(lastSent, lastWrite) \in Pos
  BY TypeNumbers, DistPos
<1>2. D = j + Dist(lastSent, lastWrite)
  BY <1>1, DistChain, RingSize DEF OrderInv, RingOrder, Pos
<1>3. segLen \in Int /\ segLen <= Dist(lastSent, lastWrite)
  BY <1>1, SendParams, RingSize DEF SmallerOf, Pos
<1>4. lastSent = Add(lastAcked, j)
  BY <1>1, DistPos
<1> HIDE DEF j, D, segLen
<1>5. ASSUME NEW i \in 1 .. segLen
      PROVE  sendBuff[Add(lastSent, i - 1)] = StreamPos(lastSent) + i - 1
  <2>1. i - 1 \in Pos /\ j + (i - 1) \in Pos /\ j + (i - 1) < D
    BY <1>1, <1>2, <1>3, RingSize DEF Pos
  <2>2. Add(lastSent, i - 1) = Add(lastAcked, j + (i - 1))
    BY <2>1, <1>1, <1>4, AddAdd, RingSize DEF Pos
  <2>3. sendBuff[Add(lastAcked, j + (i - 1))] = StreamPos(lastAcked) + (j + (i - 1))
    BY <2>1 DEF UnackedIntact, D
  <2>4. StreamPos(lastAcked) + j = StreamPos(lastSent) /\ StreamPos(lastSent) \in Int
    BY <1>1, <1>2, RingSize DEF StreamPos, D, Pos
  <2>5. StreamPos(lastAcked) \in Int
    BY <1>1, RingSize DEF StreamPos, D, Pos
  <2> QED
    BY <2>1, <2>2, <2>3, <2>4, <2>5, <1>1, RingSize DEF Pos
<1> QED
  BY <1>5 DEF IsStream, NewSegment, segLen

\* Both users of NewSegment stay inside the unsent part of the ring:
\* prepareAndSend and sendDataWithAck.
LEMMA NewDataSafe == TypeOK /\ OrderInv /\ UnackedIntact => NewDataIntact
<1> SUFFICES ASSUME TypeOK, OrderInv, UnackedIntact PROVE NewDataIntact
  OBVIOUS
<1>1. spc = "send" => IsStream(NewSegment(sleft))
  BY TypeNumbers, NewSegmentIntact DEF OrderInv, SendBudget
<1>2. rpc = "answer" => IsStream(NewSegment(Budget(rge, rleft)))
  <2> SUFFICES ASSUME rpc = "answer" PROVE IsStream(NewSegment(Budget(rge, rleft)))
    OBVIOUS
  <2>1. ~rge => lastWrite < lastSent
    BY DEF OrderInv, SendBudget
  <2>2. Budget(rge, rleft) \in Int /\ Budget(rge, rleft) <= Dist(lastSent, lastWrite)
    BY <2>1, TypeNumbers, RingSize DEF Budget, SmallerOf, Dist, DistBy, Pos
  <2> QED
    BY <2>2, NewSegmentIntact
<1> QED
  BY <1>1, <1>2 DEF NewDataIntact

\* A poll of sendToResf is followed by one that finds the buffer empty:
\* the store then resets timeNums, so that the count never reaches 2.
LEMMA PollNext ==
  TypeOK /\ TypeOK' /\ OrderInv /\ PollInv /\ [Next]_vars => PollInv'
<1> SUFFICES ASSUME TypeOK, TypeOK', OrderInv, PollInv, [Next]_vars PROVE PollInv'
  OBVIOUS
<1>1. timeNums \in Nat
  BY DEF TypeOK
<1>2. lastAcked = lastWrite => AllClear
  <2>1. Dist(lastAcked, lastSent) + Dist(lastSent, lastWrite) <= N - 1
    BY DEF OrderInv, RingOrder
  <2>2. lastAcked \in Pos /\ lastSent \in Pos /\ lastWrite \in Pos
    BY TypeNumbers
  <2>3. lastAcked = lastWrite => lastSent = lastWrite
    BY <2>1, <2>2, RingSize DEF Dist, DistBy, Pos
  <2> QED
    BY <2>3 DEF AllClear
<1>3. CASE UNCHANGED <<lastAcked, lastWrite, apc, clear, timeNums>>
  BY <1>3 DEF PollInv
<1>4. ASSUME NEW k \in CallSizes, ACall(k) PROVE PollInv'
  BY <1>4 DEF ACall, PollInv
<1>5. CASE ATestAbove
  BY <1>5 DEF ATestAbove, PollInv
<1>6. CASE ATestBelow \/ ACalcRoom
  BY <1>6 DEF ATestBelow, ACalcRoom, Decide, PollInv
<1>7. CASE AByte
  <2>1. apc = "byte" /\ UNCHANGED <<lastAcked, lastWrite, timeNums>>
        /\ apc' \in {"store", "idle"}
    BY <1>7 DEF AByte, ringVars
  <2>2. timeNums = 1 => AllClear
    BY <2>1, <1>2 DEF PollInv
  <2>3. apc' = "store" /\ AllClear => clear'
    BY <1>7, Zenon DEF AByte
  <2> QED
    BY <2>1, <2>2, <2>3 DEF PollInv
<1>8. CASE APoll
  BY <1>1, <1>8, SendParams DEF APoll, PollInv, ringVars
<1>9. CASE AStore
  BY <1>9 DEF AStore, PollInv
<1>10. CASE RCheck
  <2>1. UNCHANGED <<lastWrite, apc, clear, timeNums>>
    BY <1>10 DEF RCheck, aVars
  <2>2. lastAcked = lastWrite => lastAcked' = lastAcked
    <3>1. Dist(lastAcked, lastAcked') <= Dist(lastAcked, lastSent)
      BY MovesForward
    <3>2. lastAcked \in Pos /\ lastAcked' \in Pos
      BY DEF TypeOK
    <3> QED
      BY <1>2, <3>1, <3>2, RingSize DEF AllClear, Dist, DistBy, Pos
  <2> QED
    BY <2>1, <2>2 DEF PollInv
<1> QED
  BY <1>3, <1>4, <1>5, <1>6, <1>7, <1>8, <1>9, <1>10
  DEF Next, ANext, SNext, RNext, vars, ringVars, aVars, SWake, SLock, SWindow, SUnsent,
      SBudget, SSend, SAdvance, SSendFails, STimers, SUnacked, SSeqNum, SResend, SIdleEnds, RIdleEnds, RRecv,
      RLock, RPiggyback, RAckOnly

\* The fields and locals of the send half keep their types, for every ring
\* and segment size: the three indices stay indices.
THEOREM TypeCorrect == Spec => []TypeOK
<1>1. Init => TypeOK
  BY TypeInit
<1>2. TypeOK /\ [Next]_vars => TypeOK'
  BY TypeNext
<1> QED
  BY <1>1, <1>2, PTL DEF Spec

\* The inductive invariant holds in every reachable state: what the threads
\* of the send half have read without a lock is still good when they use it.
THEOREM OrderCorrect == Spec => []OrderInv
<1>1. Init => OrderInv
  BY OrderInit
<1>2. TypeOK /\ TypeOK' /\ OrderInv /\ [Next]_vars => OrderInv'
  BY OrderNext
<1> QED
  BY <1>1, <1>2, TypeCorrect, PTL DEF Spec

\* lastAcked, lastSent and lastWrite keep their order around the ring,
\* whatever sendToResf, prepareAndSend and startRecv interleave.
THEOREM RingOrderCorrect == Spec => []RingOrder
<1>1. OrderInv => RingOrder
  BY DEF OrderInv
<1> QED
  BY <1>1, OrderCorrect, PTL

\* No step of the three threads moves an index back or past the next one:
\* no stale acknowledgment passes the test of startRecv.
THEOREM AdvanceCorrect == Spec => PointersAdvance
<1>1. TypeOK /\ TypeOK' /\ OrderInv /\ [Next]_vars =>
        [/\ Dist(lastAcked, lastAcked') <= Dist(lastAcked, lastSent)
         /\ Dist(lastSent, lastSent') <= Dist(lastSent, lastWrite)
         /\ Dist(lastWrite, lastWrite') <= Room(lastAcked, lastWrite)]_ringVars
  BY MovesForward
<1> QED
  BY <1>1, TypeCorrect, OrderCorrect, PTL DEF Spec, PointersAdvance

\* sendToResf never overwrites a byte that has not been acknowledged.
THEOREM UnackedCorrect == Spec => []UnackedIntact
<1>1. Init => UnackedIntact
  BY IntactInit
<1>2. TypeOK /\ TypeOK' /\ OrderInv /\ UnackedIntact /\ [Next]_vars => UnackedIntact'
  BY IntactNext
<1> QED
  BY <1>1, <1>2, TypeCorrect, OrderCorrect, PTL DEF Spec

\* prepareAndSend and sendDataWithAck send new data as it was written.
THEOREM NewDataCorrect == Spec => []NewDataIntact
BY TypeCorrect, OrderCorrect, UnackedCorrect, NewDataSafe, PTL

\* sendToResf never gives up in the middle of a call it has waited for room
\* for, as long as it polls at least twice before giving up (SendParams).
THEOREM NoShortCorrect == Spec => []NoShortSend
<1>1. Init => PollInv
  BY DEF Init, PollInv
<1>2. TypeOK /\ TypeOK' /\ OrderInv /\ PollInv /\ [Next]_vars => PollInv'
  BY PollNext
<1>3. PollInv => NoShortSend
  BY DEF PollInv, NoShortSend
<1> QED
  BY <1>1, <1>2, <1>3, TypeCorrect, OrderCorrect, PTL DEF Spec
=============================================================================
