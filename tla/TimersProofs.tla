---------------------------- MODULE TimersProofs ----------------------------
(***************************************************************************)
(* Proofs about the retransmission timer (Timers), for every buffer size,  *)
(* width of the fields and longest round trip.                             *)
(*                                                                         *)
(* TypeOK is inductive but for the estimates, whose width depends on their *)
(* being bounded by the samples; TypeOK /\ RttBounded is inductive.        *)
(* BackOff and SampleFresh have invariants of their own, BackOffInv and    *)
(* SampleInv.                                                              *)
(***************************************************************************)
EXTENDS Timers, RingLemmas, TLAPS

IInv == TypeOK /\ RttBounded

\* A weighted mean of two bounded times is bounded: the two expressions of
\* calculateRtt (resf.c:903-916).
LEMMA MeanBounded ==
  ASSUME NEW m \in Nat, NEW x \in 0 .. m, NEW y \in 0 .. m
  PROVE  /\ (7 * x + y) \div 8 \in 0 .. m
         /\ (3 * x + y) \div 4 \in 0 .. m
  OBVIOUS

\* What a sample of at most m does to the estimate and the deviation.
LEMMA SampleBounded ==
  ASSUME NEW m \in Nat, estimateRtt \in 0 .. m, devRtt \in 0 .. m, NEW rtt \in 0 .. m
  PROVE  Estimate(rtt) \in 0 .. m /\ Deviation(rtt) \in 0 .. m
<1>1. Estimate(rtt) \in 0 .. m
  BY MeanBounded DEF Estimate
<1>2. Gap(rtt, Estimate(rtt)) \in 0 .. m
  BY <1>1 DEF Gap
<1> QED
  BY <1>1, <1>2, MeanBounded DEF Deviation

\* What is cut to the width of a uint32_t fits.
LEMMA CutFits ==
  ASSUME NEW x \in Int, NEW w \in Nat \ {0}
  PROVE  x % w \in 0 .. w - 1
  OBVIOUS

\* The constants.
LEMMA Params ==
  /\ N \in Nat /\ N > 1 /\ W \in Nat \ {0}
  /\ InitTimeout \in 0 .. W - 1 /\ MaxRtt \in 0 .. W - 2
  BY RingSize, TimersParams

LEMMA HalfOfW == Half \in Nat /\ W = 2 * Half
  BY Params, TimersParams DEF Half

\* The fields start with values of their types.
LEMMA InitIInv == Init => IInv
<1> SUFFICES ASSUME Init PROVE IInv
  OBVIOUS
<1>1. looked \in BOOLEAN /\ covered \in BOOLEAN
  BY Zenon DEF Init
<1>2. Half \in Nat /\ 0 \in Pos
  BY Params, HalfOfW DEF Pos
<1> QED
  BY <1>1, <1>2, Params DEF Init, IInv, TypeOK, RttBounded

\* The steps of the send thread keep the types and leave the estimates alone.
LEMMA SNextIInv == ASSUME IInv, SNext PROVE IInv'
<1> USE Params, HalfOfW DEF IInv, TypeOK, RttBounded, fields, history, rVars
<1>1. CASE SStamp
  BY <1>1 DEF SStamp
<1>2. CASE SSeqNum
  <2>1. covered' \in BOOLEAN
    BY <1>2, Zenon DEF SSeqNum
  <2>2. since' \in 0 .. N /\ sampleSeqNum' \in Pos
    BY <1>2 DEF SSeqNum
  <2>3. spc' \in {"top", "seqNum", "send", "test", "expired", "restart", "load",
                 "store", "dups", "resent"}
    BY <1>2 DEF SSeqNum
  <2>4. UNCHANGED <<lastAcked, lastSent, timeout, estimateRtt, devRtt, startAge,
                    sampleAge, sval, rVars, looked, quiet, need>>
    BY <1>2 DEF SSeqNum
  <2> QED
    BY <2>1, <2>2, <2>3, <2>4
<1>3. CASE SSend
  <2>1. since' \in 0 .. N + 1
    BY <1>3 DEF SSend, SendOne, SmallerOf
  <2> QED
    BY <1>3, <2>1, AddInRing DEF SSend, SendOne
<1>4. CASE SNone
  BY <1>4 DEF SNone
<1>5. CASE STest
  <2>1. looked' \in BOOLEAN
    BY <1>5, Zenon DEF STest
  <2> QED
    BY <1>5, <2>1 DEF STest
<1>6. CASE SRetransmit
  BY <1>6 DEF SRetransmit
<1>7. CASE SRestart
  BY <1>7 DEF SRestart
<1>8. CASE SLoad
  BY <1>8 DEF SLoad
<1>9. CASE SStore
  <2>1. Doubled(sval) \in 0 .. W - 1
    BY CutFits DEF Doubled
  <2>2. need' \in 0 .. Half
    BY <1>9 DEF SStore
  <2> QED
    BY <1>9, <2>1, <2>2 DEF SStore
<1>10. CASE SDups
  BY <1>10 DEF SDups
<1>11. CASE STimeoutWhenDup
  BY <1>11 DEF STimeoutWhenDup
<1> QED
  BY <1>1, <1>2, <1>3, <1>4, <1>5, <1>6, <1>7, <1>8, <1>9, <1>10, <1>11 DEF SNext

\* The tests of calculateRtt only move R on.
LEMMA RTestsMove ==
  ASSUME TypeOK, RWrapped \/ RStraight
  PROVE  /\ UNCHANGED <<fields, spc, sval, rack, looked, history>>
         /\ rseq' \in Pos
         /\ rpc' \in {"low", "lowTest", "lowAck", "high", "highSent", "highAck",
                     "from", "to", "toTest", "again", "againTest", "sample", "store"}
<1>1. rseq \in Pos /\ sampleSeqNum \in Pos /\ 0 \in Pos
  BY Params DEF TypeOK, Pos
<1> QED
  BY <1>1 DEF RWrapped, RStraight, RFrom, RLoad, RTest, RBelow

\* The steps of the receive thread.
LEMMA RNextIInv == ASSUME IInv, RNext PROVE IInv'
<1> USE Params, HalfOfW DEF IInv, TypeOK, RttBounded, fields, history
<1>1. ASSUME NEW n \in 1 .. N - 1, RAck(n) PROVE IInv'
  BY <1>1, AddInRing DEF RAck
<1>2. CASE RWrapped \/ RStraight
  BY <1>2, RTestsMove
<1>3. CASE RSample
  <2>1. sampleAge \in 0 .. MaxRtt /\ estimateRtt \in 0 .. MaxRtt /\ devRtt \in 0 .. MaxRtt
    OBVIOUS
  <2>2. Estimate(sampleAge) \in 0 .. MaxRtt /\ Deviation(sampleAge) \in 0 .. MaxRtt
    BY <2>1, SampleBounded
  <2> QED
    BY <1>3, <2>2 DEF RSample
<1>4. CASE RStore
  <2>1. covered' \in BOOLEAN
    BY <1>4 DEF RStore
  <2>2. 0 \in Pos
    BY DEF Pos
  <2> QED
    BY <1>4, <2>1, <2>2 DEF RStore
<1>5. CASE RStart
  BY <1>5 DEF RStart
<1>6. CASE RTimeout
  <2>1. timeout' \in 0 .. W - 1
    BY <1>6, CutFits DEF RTimeout
  <2> QED
    BY <1>6, <2>1 DEF RTimeout
<1>7. CASE RSend
  <2>1. since' \in 0 .. N + 1
    BY <1>7 DEF RSend, SendOne, SmallerOf
  <2> QED
    BY <1>7, <2>1, AddInRing DEF RSend, SendOne, rVars
<1> QED
  BY <1>1, <1>2, <1>3, <1>4, <1>5, <1>6, <1>7 DEF RNext, RWork

\* The clock.
LEMMA TickIInv == ASSUME IInv, Tick PROVE IInv'
<1> USE Params
<1>1. startAge + 1 \in Int /\ W \in Nat \ {0}
  BY DEF IInv, TypeOK
<1>2. (startAge + 1) % W \in 0 .. W - 1
  BY <1>1, CutFits
<1>3. startAge' \in 0 .. W - 1
  BY <1>2 DEF Tick
<1>4. sampleAge' \in 0 .. MaxRtt /\ quiet' \in 0 .. Half
  BY HalfOfW DEF Tick, SmallerOf, IInv, TypeOK
<1>5. looked' \in BOOLEAN
  BY Zenon DEF Tick
<1> QED
  BY <1>3, <1>4, <1>5 DEF Tick, IInv, TypeOK, RttBounded, rVars

\* Every step, and a stuttering one.
LEMMA NextIInv == IInv /\ [Next]_vars => IInv'
<1> SUFFICES ASSUME IInv, [Next]_vars PROVE IInv'
  OBVIOUS
<1>1. CASE UNCHANGED vars
  BY <1>1 DEF IInv, TypeOK, RttBounded, vars, fields, history, rVars
<1> QED
  BY <1>1, SNextIInv, RNextIInv, TickIInv DEF Next

(***************************************************************************)
(* The fields of the timer keep their types, and what is computed of times *)
(* keeps to the width of a uint32_t.                                       *)
(***************************************************************************)
THEOREM TypeCorrect == Spec => []TypeOK
<1>1. IInv => TypeOK
  BY DEF IInv
<1> QED
  BY <1>1, InitIInv, NextIInv, PTL DEF Spec

(***************************************************************************)
(* If no sample of the round trip exceeds a time, neither does the         *)
(* estimate nor the deviation of calculateRtt, for any sequence of samples *)
(* and any interleaving of the two threads.                                *)
(***************************************************************************)
THEOREM RttCorrect == Spec => []RttBounded
<1>1. IInv => RttBounded
  BY DEF IInv
<1> QED
  BY <1>1, InitIInv, NextIInv, PTL DEF Spec

-----------------------------------------------------------------------------
(* Back-off                                                                *)

\* What is needed of the fields: need is the timeout last doubled, unless an
\* acknowledgment has come in between, and the timer, whoever starts it anew,
\* has not been running for longer than since its last retransmission.
BackOffInv ==
  /\ need > 0 => need = timeout /\ need <= Half
  /\ quiet < Half => startAge <= quiet
  /\ spc = "expired" => quiet >= need

\* A timer that was started less than a timeout ago has not expired.
LEMMA ExpiredLate ==
  ASSUME NEW age \in 0 .. W - 1, NEW t \in 0 .. Half, (age - t) % W < Half
  PROVE  age >= t
<1>1. ASSUME age < t PROVE FALSE
  <2>1. age - t \in Int /\ 0 <= age - t + W /\ age - t + W < W /\ age - t + W >= Half
    BY <1>1, HalfOfW, Params
  <2>2. (age - t) % W = age - t + W
    BY <2>1, Params
  <2> QED
    BY <2>1, <2>2, HalfOfW
<1> QED
  BY <1>1, HalfOfW, Params

LEMMA BackOffInit == Init => BackOffInv
  BY Params, HalfOfW DEF Init, BackOffInv

LEMMA BackOffNext == TypeOK /\ BackOffInv /\ [Next]_vars => BackOffInv'
<1> SUFFICES ASSUME TypeOK, BackOffInv, [Next]_vars PROVE BackOffInv'
  OBVIOUS
<1> USE Params, HalfOfW DEF BackOffInv
<1>0. /\ timeout \in 0 .. W - 1 /\ startAge \in 0 .. W - 1 /\ quiet \in 0 .. Half
      /\ need \in 0 .. Half /\ sval \in 0 .. W - 1
  BY DEF TypeOK
<1>1. ASSUME UNCHANGED <<need, timeout, startAge, quiet>>, spc' # "expired"
      PROVE  BackOffInv'
  BY <1>1
<1>2. CASE SStamp
  BY <1>1, <1>2 DEF SStamp, history
<1>3. CASE SSeqNum
  BY <1>1, <1>3 DEF SSeqNum
<1>4. CASE SSend
  <2>1. spc' # "expired"
    BY <1>4 DEF SSend
  <2> QED
    BY <1>1, <1>4, <2>1 DEF SSend
<1>5. CASE SNone
  BY <1>1, <1>5 DEF SNone, fields, history
<1>6. CASE STest
  <2>1. CASE need > 0 /\ Expired
    <3>1. need = timeout /\ need \in 0 .. Half
      BY <1>0, <2>1
    <3>2. startAge >= need
      BY <1>0, <2>1, <3>1, ExpiredLate DEF Expired
    <3> QED
      BY <1>0, <1>6, <3>2 DEF STest, fields, history
  <2>2. CASE ~(need > 0)
    BY <1>0, <1>6, <2>2 DEF STest, fields, history
  <2>3. CASE ~Expired
    BY <1>6, <2>3 DEF STest, fields, history
  <2> QED
    BY <2>1, <2>2, <2>3
<1>7. CASE SRetransmit
  <2>1. spc' # "expired"
    BY <1>7 DEF SRetransmit
  <2> QED
    BY <1>1, <1>7, <2>1 DEF SRetransmit, fields, history
<1>8. CASE SRestart
  BY <1>0, <1>8 DEF SRestart
<1>9. CASE SLoad
  BY <1>1, <1>9 DEF SLoad, fields, history
<1>10. CASE SStore
  <2>1. spc' # "expired" /\ UNCHANGED <<startAge, quiet>>
    BY <1>10 DEF SStore
  <2>2. need' > 0 => need' = timeout' /\ need' <= Half
    <3>1. ASSUME 2 * sval <= Half PROVE Doubled(sval) = 2 * sval
      <4>1. 2 * sval \in 0 .. W - 1
        BY <1>0, <3>1
      <4> QED
        BY <4>1 DEF Doubled
    <3>2. need' = (IF 2 * sval <= Half THEN 2 * sval ELSE 0) /\ timeout' = Doubled(sval)
      BY <1>10 DEF SStore
    <3> QED
      BY <3>1, <3>2
  <2> QED
    BY <2>1, <2>2
<1>11. CASE SDups
  <2>1. spc' # "expired"
    BY <1>11 DEF SDups
  <2> QED
    BY <1>1, <1>11, <2>1 DEF SDups, fields, history
<1>12. CASE STimeoutWhenDup
  BY <1>0, <1>12 DEF STimeoutWhenDup, history
<1>13. CASE (\E n \in 1 .. N - 1 : RAck(n)) \/ RWrapped \/ RStraight \/ RSample
  <2>1. UNCHANGED <<need, timeout, startAge, quiet, spc>>
    BY <1>13, RTestsMove DEF RAck, RSample, fields, history
  <2> QED
    BY <2>1
<1>19. CASE RStore
  <2>1. need' = 0 /\ UNCHANGED <<startAge, quiet>>
    BY <1>19 DEF RStore
  <2> QED
    BY <1>0, <2>1
<1>14. CASE RStart
  BY <1>0, <1>14 DEF RStart, history
<1>15. CASE RTimeout
  BY <1>0, <1>15 DEF RTimeout
<1>16. CASE RSend
  BY <1>16 DEF RSend
<1>17. CASE Tick
  <2>1. startAge + 1 < W => (startAge + 1) % W = startAge + 1
    BY <1>0
  <2>2. startAge + 1 >= W => (startAge + 1) % W = 0
    BY <1>0
  <2> QED
    BY <1>0, <1>17, <2>1, <2>2 DEF Tick, SmallerOf
<1>18. CASE UNCHANGED vars
  BY <1>18 DEF vars, fields, history
<1> QED
  BY <1>2, <1>3, <1>4, <1>5, <1>6, <1>7, <1>8, <1>9, <1>10, <1>11, <1>12, <1>13, <1>14,
     <1>15, <1>16, <1>17, <1>18, <1>19 DEF Next, SNext, RNext, RWork

(***************************************************************************)
(* Without an acknowledgment in between, the timer does not retransmit     *)
(* again before twice the timeout it had waited for, whatever the receive  *)
(* thread stores while timeout doubles it.                                 *)
(***************************************************************************)
THEOREM BackOffCorrect == Spec => BackOff
<1>1. BackOffInv => (spc = "expired" /\ spc' = "restart" => quiet >= need)
  BY DEF BackOffInv
<1> QED
  BY <1>1, TypeCorrect, BackOffInit, BackOffNext, PTL DEF Spec, BackOff

-----------------------------------------------------------------------------
(* Samples                                                                 *)

\* R has found the outstanding bytes wrapped, and while it computes they stay
\* so: only their end moves, up to lastAcked.
InWrapped == rpc \in {"low", "lowTest", "lowAck", "high", "highSent", "highAck"}

\* An old stamp: its byte has been acknowledged, less than a lap ago.
Old == covered /\ since <= N

(***************************************************************************)
(* What has been sent since the stamp; once the stamped byte has been      *)
(* acknowledged, everything outstanding was sent after it; and how far an  *)
(* old stamp gets in the tests of calculateRtt.                            *)
(***************************************************************************)
SampleInv ==
  /\ since < N => since = Dist(sampleSeqNum, lastSent)
  /\ since = N => sampleSeqNum = lastSent
  /\ Old => Unacked < since
  /\ InWrapped => lastSent < lastAcked
  /\ rpc \notin {"recv", "start", "timeout"} => Dist(lastAcked, rack) <= Unacked
  /\ Old => rpc \notin {"lowAck", "highSent", "highAck", "again", "againTest", "sample"}
  /\ Old /\ rpc \in {"to", "toTest"} => sampleSeqNum >= lastAcked
  /\ Old /\ rpc \in {"lowTest", "toTest"} => rseq = sampleSeqNum

\* One more byte is one more since the stamp.
LEMMA OneMore ==
  ASSUME TypeOK, SampleInv, SendOne
  PROVE  /\ Dist(lastAcked, lastSent') = Unacked + 1
         /\ since' < N => since' = Dist(sampleSeqNum, lastSent')
         /\ since' = N => sampleSeqNum = lastSent'
         /\ since' <= N => since <= N /\ since' = since + 1
<1>1. /\ lastAcked \in Pos /\ lastSent \in Pos /\ sampleSeqNum \in Pos /\ since \in 0 .. N + 1
      /\ Unacked \in Nat
  BY Params DEF TypeOK, Unacked, Dist, DistBy, Pos
<1>2. lastSent' = Add(lastSent, 1) /\ since' = SmallerOf(N + 1, since + 1) /\ Unacked < N - 1
  BY DEF SendOne
<1>3. 1 <= Room(lastAcked, lastSent)
  BY <1>1, <1>2, Params DEF Room, Unacked
<1>4. Dist(lastAcked, Add(lastSent, 1)) = Unacked + 1
  BY <1>1, <1>3, Extend DEF Unacked
<1>5. since' <= N => since <= N /\ since' = since + 1
  BY <1>1, <1>2, Params DEF SmallerOf
<1>6. Add(lastSent, 1) = IF lastSent + 1 < N THEN lastSent + 1 ELSE lastSent + 1 - N
  BY <1>1, Params, AddCases
<1>7. ASSUME since < N
      PROVE  /\ since + 1 < N => since + 1 = Dist(sampleSeqNum, Add(lastSent, 1))
             /\ since + 1 = N => sampleSeqNum = Add(lastSent, 1)
  <2>1. since = Dist(sampleSeqNum, lastSent)
    BY <1>7 DEF SampleInv
  <2> QED
    BY <1>1, <1>6, <2>1, Params DEF Dist, DistBy, Pos
<1>8. since' <= N => since < N
  BY <1>1, <1>5, Params
<1>9. ASSUME since' <= N
      PROVE  /\ since' < N => since' = Dist(sampleSeqNum, lastSent')
             /\ since' = N => sampleSeqNum = lastSent'
  BY <1>2, <1>5, <1>7, <1>8, <1>9
<1>10. since' \in Nat /\ N \in Nat
  BY <1>1, <1>2, Params DEF SmallerOf
<1> QED
  BY <1>2, <1>4, <1>5, <1>9, <1>10

\* An acknowledgment beyond the stamped byte leaves less than was sent since.
LEMMA Passed ==
  ASSUME NEW a \in Pos, NEW s \in Pos, NEW l \in Pos, NEW n \in Nat,
         n <= Dist(a, l), Dist(a, s) < n
  PROVE  Dist(a, l) - n < Dist(s, l)
  BY RingSize DEF Dist, DistBy, Pos

(***************************************************************************)
(* Where an old stamp is: behind lastAcked, so that it is not among the    *)
(* outstanding bytes, wrapped or not.                                      *)
(***************************************************************************)
LEMMA OldIsBehind ==
  ASSUME TypeOK, SampleInv, Old
  PROVE  /\ lastSent < lastAcked => lastSent <= sampleSeqNum /\ sampleSeqNum <= lastAcked
         /\ sampleSeqNum >= lastAcked => ~(sampleSeqNum < lastSent)
<1>1. /\ lastAcked \in Pos /\ lastSent \in Pos /\ sampleSeqNum \in Pos /\ since \in 0 .. N + 1
      /\ Dist(lastAcked, lastSent) < since /\ since <= N
  BY DEF TypeOK, SampleInv, Unacked, Old
<1>2. CASE since < N
  BY <1>1, <1>2, RingSize DEF SampleInv, Dist, DistBy, Pos
<1>3. CASE since = N
  BY <1>1, <1>3, RingSize DEF SampleInv, Pos
<1> QED
  BY <1>1, <1>2, <1>3, RingSize

LEMMA SampleInit == Init => SampleInv
  BY RingSize DEF Init, SampleInv, Old, InWrapped

LEMMA OneMoreKeeps ==
  ASSUME TypeOK, SampleInv, SendOne, UNCHANGED <<lastAcked, sampleSeqNum, covered, rVars>>
  PROVE  SampleInv'
<1>1. /\ Dist(lastAcked, lastSent') = Unacked + 1
      /\ since' < N => since' = Dist(sampleSeqNum, lastSent')
      /\ since' = N => sampleSeqNum = lastSent'
      /\ since' <= N => since <= N /\ since' = since + 1
  BY OneMore
<1>2. since \in 0 .. N + 1 /\ Unacked \in Nat /\ N \in Nat /\ rack \in Pos /\ rseq \in Pos
      /\ lastAcked \in Pos /\ lastSent \in Pos
  BY Params DEF TypeOK, Unacked, Dist, DistBy, Pos
<1>3. Unacked' = Unacked + 1 /\ UNCHANGED <<lastAcked, sampleSeqNum, rpc, rack, rseq>>
  BY <1>1 DEF Unacked, rVars
<1>4. Old' => Old
  <2>1. covered' => covered
    BY Zenon
  <2> QED
    BY <1>1, <2>1 DEF Old
<1>5. Old' => Unacked' < since'
  BY <1>1, <1>2, <1>3, <1>4 DEF SampleInv, Old
<1>6. lastSent < lastAcked => lastSent' < lastAcked
  <2>1. lastSent' = Add(lastSent, 1) /\ Unacked < N - 1
    BY DEF SendOne
  <2>2. Add(lastSent, 1) = IF lastSent + 1 < N THEN lastSent + 1 ELSE lastSent + 1 - N
    BY <1>2, Params, AddCases
  <2> QED
    BY <1>2, <2>1, <2>2, Params DEF Unacked, Dist, DistBy, Pos
<1>7. Dist(lastAcked, rack) <= Unacked => Dist(lastAcked, rack) <= Unacked'
  <2>1. Dist(lastAcked, rack) \in Int
    BY <1>2 DEF Dist, DistBy, Pos
  <2> QED
    BY <1>2, <1>3, <2>1
<1> QED
  BY <1>1, <1>3, <1>4, <1>5, <1>6, <1>7 DEF SampleInv, InWrapped

\* The tests of calculateRtt do not take an old stamp for a fresh one.
LEMMA TestsKeep ==
  ASSUME TypeOK, SampleInv, RWrapped \/ RStraight PROVE SampleInv'
<1>1. UNCHANGED <<fields, spc, sval, rack, looked, history>>
  BY RTestsMove
<1>2. /\ UNCHANGED <<lastAcked, lastSent, sampleSeqNum, since, covered, rack>>
      /\ Unacked' = Unacked /\ Old' = Old
  BY <1>1 DEF fields, history, Unacked, Old
<1>3. /\ lastAcked \in Int /\ lastSent \in Int /\ sampleSeqNum \in Int /\ rseq \in Int
  BY DEF TypeOK, Pos
<1>4. InWrapped => lastSent < lastAcked
  BY DEF SampleInv
<1>5. Dist(lastAcked, rack) <= Unacked
  BY DEF SampleInv, RWrapped, RStraight, RFrom, RLoad, RTest, RBelow
<1>6. InWrapped' => InWrapped
  BY DEF InWrapped, RWrapped, RStraight, RFrom, RLoad, RTest, RBelow
<1>7. ASSUME Old
      PROVE  /\ rpc' \notin {"lowAck", "highSent", "highAck", "again", "againTest", "sample"}
             /\ rpc' \in {"to", "toTest"} => sampleSeqNum >= lastAcked
             /\ rpc' \in {"lowTest", "toTest"} => rseq' = sampleSeqNum
  <2>1. /\ lastSent < lastAcked => lastSent <= sampleSeqNum /\ sampleSeqNum <= lastAcked
        /\ sampleSeqNum >= lastAcked => ~(sampleSeqNum < lastSent)
    BY <1>7, OldIsBehind
  <2>2. /\ rpc \notin {"lowAck", "highSent", "highAck", "again", "againTest", "sample"}
        /\ rpc \in {"to", "toTest"} => sampleSeqNum >= lastAcked
        /\ rpc \in {"lowTest", "toTest"} => rseq = sampleSeqNum
    BY <1>7 DEF SampleInv
  <2>3. CASE RWrapped
    <3>1. lastSent < lastAcked
      BY <1>4, <2>3 DEF InWrapped, RWrapped, RLoad, RTest, RBelow
    <3>2. CASE rpc = "lowTest"
      <4>1. ~(rseq < lastSent)
        BY <1>3, <2>1, <2>2, <3>1, <3>2
      <4> QED
        BY <2>3, <3>2, <4>1 DEF RWrapped, RLoad, RTest, RBelow
    <3>3. CASE rpc = "high"
      <4>1. ~(sampleSeqNum > lastAcked)
        BY <1>3, <2>1, <3>1
      <4> QED
        BY <2>3, <3>3, <4>1 DEF RWrapped, RLoad, RTest, RBelow
    <3> QED
      BY <2>2, <2>3, <3>2, <3>3 DEF RWrapped, RLoad, RTest, RBelow
  <2>4. CASE RStraight
    <3>1. CASE rpc = "toTest"
      <4>1. ~(rseq < lastSent)
        BY <2>1, <2>2, <3>1
      <4> QED
        BY <2>4, <3>1, <4>1 DEF RStraight, RFrom, RLoad, RTest, RBelow
    <3> QED
      BY <2>2, <2>4, <3>1 DEF RStraight, RFrom, RLoad, RTest, RBelow
  <2> QED
    BY <2>3, <2>4
<1> QED
  BY <1>2, <1>4, <1>5, <1>6, <1>7 DEF SampleInv

\* An acknowledgment starts the tests.
LEMMA AckKeeps ==
  ASSUME TypeOK, SampleInv, NEW n \in 1 .. N - 1, RAck(n) PROVE SampleInv'
<1>1. /\ lastAcked \in Pos /\ lastSent \in Pos /\ n \in Pos /\ n <= Unacked
  BY Params DEF TypeOK, RAck, Pos
<1>2. /\ UNCHANGED <<lastAcked, lastSent, sampleSeqNum, since, covered>>
      /\ Unacked' = Unacked /\ Old' = Old /\ rack' = Add(lastAcked, n)
      /\ rpc' = IF lastAcked >= lastSent THEN "low" ELSE "from"
  BY DEF RAck, fields, history, Unacked, Old
<1>3. Dist(lastAcked, rack') = n
  BY <1>1, <1>2, AddPos
<1>4. lastAcked # lastSent
  BY <1>1, Params DEF Unacked, Dist, DistBy, Pos
<1>5. lastAcked >= lastSent => lastSent < lastAcked
  BY <1>1, <1>4 DEF Pos
<1> QED
  BY <1>1, <1>2, <1>3, <1>5 DEF SampleInv, InWrapped

\* lastAcked moves: what was sent after an old stamp stays outstanding.
LEMMA StoreKeeps == ASSUME TypeOK, SampleInv, RStore PROVE SampleInv'
<1> DEFINE n == Dist(lastAcked, rack)
<1>1. /\ lastAcked \in Pos /\ lastSent \in Pos /\ sampleSeqNum \in Pos /\ rack \in Pos
      /\ since \in 0 .. N + 1 /\ Unacked \in Nat /\ Unacked < N
  BY Params DEF TypeOK, Unacked, Dist, DistBy, Pos
<1>2. n \in Nat /\ n <= Unacked /\ Add(lastAcked, n) = rack
  <2>1. n \in Pos /\ Add(lastAcked, n) = rack
    BY <1>1, DistPos
  <2> QED
    BY <2>1, Params DEF SampleInv, RStore, Pos
<1>3. /\ lastAcked' = rack /\ UNCHANGED <<lastSent, sampleSeqNum, since>>
      /\ covered' = (covered \/ Dist(lastAcked, sampleSeqNum) < n) /\ rpc' = "start"
  BY DEF RStore
<1>4. Dist(rack, lastSent) = Unacked - n
  BY <1>1, <1>2, Advance DEF Unacked
<1>5. Unacked' = Unacked - n
  BY <1>3, <1>4 DEF Unacked
<1> HIDE DEF n
<1>6. ASSUME Old' PROVE Unacked' < since
  <2>1. CASE covered
    BY <1>1, <1>2, <1>3, <1>5, <1>6, <2>1 DEF SampleInv, Old
  <2>2. CASE Dist(lastAcked, sampleSeqNum) < n
    <3>1. Unacked - n < Dist(sampleSeqNum, lastSent)
      BY <1>1, <1>2, <2>2, Passed DEF Unacked
    <3>2. since < N => since = Dist(sampleSeqNum, lastSent)
      BY DEF SampleInv
    <3>3. since >= N => Unacked - n < since
      BY <1>1, <1>2, Params
    <3> QED
      BY <1>1, <1>2, <1>5, <3>1, <3>2, <3>3, Params
  <2> QED
    BY <1>3, <1>6, <2>1, <2>2 DEF Old
<1> QED
  BY <1>3, <1>6 DEF SampleInv, InWrapped

\* A new stamp.
LEMMA StampKeeps == ASSUME TypeOK, SampleInv, SSeqNum PROVE SampleInv'
<1>1. Dist(lastSent, lastSent) = 0
  BY Params DEF TypeOK, Dist, DistBy, Pos
<1>2. ~covered'
  BY Zenon DEF SSeqNum
<1>3. since' = 0 /\ sampleSeqNum' = lastSent /\ UNCHANGED <<lastAcked, lastSent, rVars>>
  BY DEF SSeqNum
<1>4. Unacked' = Unacked /\ ~Old' /\ UNCHANGED <<rpc, rack>>
  BY <1>2, <1>3 DEF Unacked, Old, rVars
<1> QED
  BY <1>1, <1>3, <1>4, Params DEF SampleInv, InWrapped

LEMMA SampleNext == TypeOK /\ SampleInv /\ [Next]_vars => SampleInv'
<1> SUFFICES ASSUME TypeOK, SampleInv, [Next]_vars PROVE SampleInv'
  OBVIOUS
<1>1. ASSUME UNCHANGED <<lastAcked, lastSent, sampleSeqNum, covered, since, rVars>>
      PROVE  SampleInv'
  BY <1>1 DEF SampleInv, Unacked, Old, InWrapped, rVars
<1>2. CASE SStamp
  BY <1>1, <1>2 DEF SStamp, history
<1>3. CASE SSeqNum
  BY <1>3, StampKeeps
<1>4. CASE SSend
  <2>1. SendOne /\ UNCHANGED <<lastAcked, sampleSeqNum, covered, rVars>>
    BY <1>4 DEF SSend
  <2> QED
    BY <2>1, OneMoreKeeps
<1>5. CASE RSend
  <2>1. SendOne /\ UNCHANGED <<lastAcked, sampleSeqNum, covered, rVars>>
    BY <1>5 DEF RSend
  <2> QED
    BY <2>1, OneMoreKeeps
<1>6. CASE SNone
  BY <1>1, <1>6 DEF SNone, fields, history
<1>7. CASE STest
  BY <1>1, <1>7 DEF STest, fields, history
<1>8. CASE SRetransmit
  BY <1>1, <1>8 DEF SRetransmit, fields, history
<1>9. CASE SRestart
  BY <1>1, <1>9 DEF SRestart
<1>10. CASE SLoad
  BY <1>1, <1>10 DEF SLoad, fields, history
<1>11. CASE SStore
  BY <1>1, <1>11 DEF SStore
<1>12. CASE SDups
  BY <1>1, <1>12 DEF SDups, fields, history
<1>13. CASE STimeoutWhenDup
  BY <1>1, <1>13 DEF STimeoutWhenDup, history
<1>14. ASSUME NEW n \in 1 .. N - 1, RAck(n) PROVE SampleInv'
  BY <1>14, AckKeeps
<1>15. CASE RWrapped \/ RStraight
  BY <1>15, TestsKeep
<1>16. CASE RSample \/ RStart \/ RTimeout
  <2>1. /\ UNCHANGED <<lastAcked, lastSent, sampleSeqNum, covered, since, rack, rseq>>
        /\ rpc' \in {"store", "timeout", "recv"}
        /\ rpc' = "store" => rpc = "sample"
    BY <1>16 DEF RSample, RStart, RTimeout, history
  <2>2. Unacked' = Unacked /\ (Old' => Old) /\ ~InWrapped'
    BY <2>1 DEF Unacked, Old, InWrapped
  <2>3. rpc' = "store" => Dist(lastAcked, rack) <= Unacked
    BY <2>1 DEF SampleInv
  <2> QED
    BY <2>1, <2>2, <2>3 DEF SampleInv
<1>17. CASE RStore
  BY <1>17, StoreKeeps
<1>18. CASE Tick
  BY <1>1, <1>18 DEF Tick
<1>19. CASE UNCHANGED vars
  BY <1>1, <1>19 DEF vars, fields, history
<1> QED
  BY <1>2, <1>3, <1>4, <1>5, <1>6, <1>7, <1>8, <1>9, <1>10, <1>11, <1>12, <1>13,
     <1>14, <1>15, <1>16, <1>17, <1>18, <1>19 DEF Next, SNext, RNext, RWork

(***************************************************************************)
(* calculateRtt takes no sample from a stamp whose byte has already been   *)
(* acknowledged, unless more than a lap has been sent since that stamp or  *)
(* there has been none: for every buffer size, and for every interleaving  *)
(* of its loads with the stores of the send thread.                        *)
(***************************************************************************)
THEOREM SampleFreshCorrect == Spec => []SampleFresh
<1>1. TypeOK /\ SampleInv => SampleFresh
  BY Params DEF SampleInv, SampleFresh, Old, TypeOK
<1> QED
  BY <1>1, TypeCorrect, SampleInit, SampleNext, PTL DEF Spec
=============================================================================
