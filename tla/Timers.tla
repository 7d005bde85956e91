------------------------------- MODULE Timers -------------------------------
(***************************************************************************)
(* The retransmission timer of one Resf endpoint (resf.c) and the two      *)
(* threads that share it without a lock:                                   *)
(*                                                                         *)
(*   S  the send thread: prepareAndSend stamps a burst, timeout looks at   *)
(*      the timer, retransmits, restarts it and doubles it, duplicateAcks  *)
(*      restarts it (timeoutWhenDup),                                      *)
(*   R  the receive thread: an acknowledgment gives a sample of the round  *)
(*      trip (calculateRtt), restarts the timer and sets it anew           *)
(*      (calculateNewTimeout); sendDataWithAck sends without a stamp.      *)
(*                                                                         *)
(* A stored time is represented by its age, and that of timeoutStart by    *)
(* its age modulo W, the number of values of a uint32_t: this is what is   *)
(* left of it when timeout assigns a 64-bit difference to an int.  A       *)
(* struct timespec is loaded and stored in one step.  calculateRtt's other *)
(* loads of what S stores, sampleSeqNum and lastSent, are a step each.     *)
(***************************************************************************)
EXTENDS Ring

CONSTANTS W,            \* number of values of a uint32_t
          InitTimeout,  \* timeout at first, 1000000 microseconds
          MaxRtt        \* model bound: the longest sample; an older stamp
                        \* counts as one of that age

ASSUME TimersParams ==
  /\ W \in Nat \ {0} /\ W % 2 = 0
  /\ InitTimeout \in 0 .. W - 1 /\ MaxRtt \in 0 .. W - 2

VARIABLES
  lastAcked, lastSent, sampleSeqNum,  \* the Resf fields of these names
  timeout, estimateRtt, devRtt,
  startAge, sampleAge,  \* ages of timeoutStart, modulo W, and sampleSentTime
  spc, sval,            \* S: the timeout it has loaded
  rpc, rack, rseq,      \* R: seg.ackNum, the sampleSeqNum it has loaded
  looked,               \* S has looked at the timer since the clock moved
  covered,              \* history: the sampled byte has been acknowledged
  since,                \* history: bytes sent since the last stamp, no more
                        \* than a lap and one
  quiet, need           \* history: time since the timer last retransmitted
                        \* (no more than Half is told apart),
                        \* and how long that has to be before it does again

fields  == <<lastAcked, lastSent, sampleSeqNum, timeout, estimateRtt, devRtt,
             startAge, sampleAge>>
history == <<covered, since, quiet, need>>
rVars   == <<rpc, rack, rseq>>
vars    == <<fields, spc, sval, rVars, looked, history>>

Half == W \div 2

\* timeoutStart is not set, nor are sampleSeqNum and sampleSentTime, which an
\* acknowledgment uses before the first burst if sendDataWithAck comes first.
Init ==
  /\ lastAcked = 0 /\ lastSent = 0
  /\ timeout = InitTimeout /\ estimateRtt = 0 /\ devRtt = 0
  /\ startAge \in 0 .. W - 1 /\ sampleAge \in 0 .. MaxRtt /\ sampleSeqNum \in Pos
  /\ spc = "top" /\ sval = 0 /\ looked = TRUE
  /\ rpc = "recv" /\ rack = 0 /\ rseq = 0
  /\ covered = TRUE /\ since = N + 1 /\ quiet = Half /\ need = 0

Unacked == Dist(lastAcked, lastSent)

\* One more byte is sent: there is always room for one more in the ring.
SendOne ==
  /\ Unacked < N - 1
  /\ lastSent' = Add(lastSent, 1)
  /\ since' = SmallerOf(N + 1, since + 1)

-----------------------------------------------------------------------------
(* S: startSend                                                            *)

\* prepareAndSend has something to send: the time of the burst, then its
\* first byte.
SStamp ==
  /\ spc = "top" /\ Unacked < N - 1
  /\ sampleAge' = 0
  /\ spc' = "seqNum"
  /\ UNCHANGED <<lastAcked, lastSent, sampleSeqNum, timeout, estimateRtt, devRtt,
                 startAge, sval, rVars, looked, history>>

SSeqNum ==
  /\ spc = "seqNum"
  /\ sampleSeqNum' = lastSent /\ since' = 0 /\ covered' = FALSE
  /\ spc' = "send"
  /\ UNCHANGED <<lastAcked, lastSent, timeout, estimateRtt, devRtt, startAge,
                 sampleAge, sval, rVars, looked, quiet, need>>

\* One segment of the burst, perhaps the last one.  The window is computed
\* once, so that a burst is shorter than the ring.
SSend ==
  /\ spc = "send"
  /\ SendOne
  /\ spc' \in {"send", "test"}
  /\ spc' = "send" => since' < N - 1 /\ Unacked + 1 < N - 1
  /\ UNCHANGED <<lastAcked, sampleSeqNum, timeout, estimateRtt, devRtt, startAge,
                 sampleAge, sval, rVars, looked, covered, quiet, need>>

\* Mutated form of SNone: the timer starts anew in every round of the loop.
SNoneRestart ==
  /\ spc = "top" /\ lastSent # lastAcked
  /\ startAge' = 0
  /\ spc' = "test"
  /\ UNCHANGED <<lastAcked, lastSent, sampleSeqNum, timeout, estimateRtt, devRtt,
                 sampleAge, sval, rVars, looked, history>>

\* prepareAndSend sends nothing.
SNone ==
  /\ spc = "top" /\ lastSent # lastAcked
  /\ spc' = "test"
  /\ UNCHANGED <<fields, sval, rVars, looked, history>>

\* The int that timeout tests: what 32 bits keep of the difference.
Expired == (startAge - timeout) % W < Half

STest ==
  /\ spc = "test"
  /\ spc' = IF Expired THEN "expired" ELSE "dups"
  /\ looked' = TRUE
  /\ UNCHANGED <<fields, sval, rVars, history>>

\* retransmit finds nothing to send again, or sendto fails, or it succeeds.
SRetransmit ==
  /\ spc = "expired"
  /\ spc' \in {"dups", "restart"}
  /\ spc' = "restart" => Unacked > 0
  /\ UNCHANGED <<fields, sval, rVars, looked, history>>

SRestart ==
  /\ spc = "restart"
  /\ startAge' = 0 /\ quiet' = 0
  /\ spc' = "load"
  /\ UNCHANGED <<lastAcked, lastSent, sampleSeqNum, timeout, estimateRtt, devRtt,
                 sampleAge, sval, rVars, looked, covered, since, need>>

\* timeout *= 2 is a load and a store.
SLoad ==
  /\ spc = "load"
  /\ sval' = timeout
  /\ spc' = "store"
  /\ UNCHANGED <<fields, rVars, looked, history>>

\* Mutated form of Doubled: no back-off.
DoubledNot(t) == t

\* Mutated form of Doubled: a timeout of more than 32 bits.
DoubledWide(t) == 2 * t

Doubled(t) == (2 * t) % W

\* Above Half, the int that timeout tests comes out positive at once.
SStore ==
  /\ spc = "store"
  /\ timeout' = Doubled(sval)
  /\ need' = IF 2 * sval <= Half THEN 2 * sval ELSE 0
  /\ spc' = "dups" /\ sval' = 0
  /\ UNCHANGED <<lastAcked, lastSent, sampleSeqNum, estimateRtt, devRtt, startAge,
                 sampleAge, rVars, looked, covered, since, quiet>>

\* duplicateAcks: perhaps a fast retransmission succeeds.
SDups ==
  /\ spc = "dups"
  /\ spc' \in {"top", "resent"}
  /\ spc' = "resent" => Unacked > 0
  /\ UNCHANGED <<fields, sval, rVars, looked, history>>

\* timeoutWhenDup
STimeoutWhenDup ==
  /\ spc = "resent"
  /\ startAge' = 0
  /\ spc' = "top"
  /\ UNCHANGED <<lastAcked, lastSent, sampleSeqNum, timeout, estimateRtt, devRtt,
                 sampleAge, sval, rVars, looked, history>>

SNext == SStamp \/ SSeqNum \/ SSend \/ SNone \/ STest \/ SRetransmit
         \/ SRestart \/ SLoad \/ SStore \/ SDups \/ STimeoutWhenDup

-----------------------------------------------------------------------------
(* R: startRecv                                                            *)

\* An acknowledgment of n outstanding bytes, and the first test of
\* calculateRtt: have the outstanding bytes wrapped round?
RAck(n) ==
  /\ rpc = "recv" /\ n <= Unacked
  /\ rack' = Add(lastAcked, n)
  /\ rpc' = IF lastAcked >= lastSent THEN "low" ELSE "from"
  /\ UNCHANGED <<fields, spc, sval, rseq, looked, history>>

\* A test at `at' that loads one field of S.
RTest(at, holds, yes, no) ==
  /\ rpc = at
  /\ rpc' = IF holds THEN yes ELSE no
  /\ UNCHANGED <<fields, spc, sval, rack, rseq, looked, history>>

\* sampleSeqNum < lastSent is two loads.
RLoad(at, compare) ==
  /\ rpc = at
  /\ rseq' = sampleSeqNum
  /\ rpc' = compare
  /\ UNCHANGED <<fields, spc, sval, rack, looked, history>>

RBelow(compare, yes, no) ==
  /\ rpc = compare
  /\ rpc' = IF rseq < lastSent THEN yes ELSE no
  /\ rseq' = 0
  /\ UNCHANGED <<fields, spc, sval, rack, looked, history>>

\* Wrapped: the sampled byte is below lastSent, or it is above lastAcked.
RWrapped ==
  \/ RLoad("low", "lowTest") \/ RBelow("lowTest", "lowAck", "high")
  \/ RTest("lowAck", rack > sampleSeqNum, "sample", "high")
  \/ RTest("high", sampleSeqNum > lastAcked, "highSent", "store")
  \/ RTest("highSent", rack < lastSent, "sample", "highAck")
  \/ RTest("highAck", rack > sampleSeqNum, "sample", "store")

\* Mutated form of RFrom: the sampled byte need not be outstanding.
RFromAny == RTest("from", TRUE, "to", "store")

RFrom == RTest("from", sampleSeqNum >= lastAcked, "to", "store")

\* Not wrapped: it is in between.  (The code has the second test twice.)
RStraight ==
  \/ RFrom
  \/ RLoad("to", "toTest") \/ RBelow("toTest", "again", "store")
  \/ RLoad("again", "againTest") \/ RBelow("againTest", "sample", "store")

\* Mutated form of Estimate: the sample enters with its whole weight.
EstimateWhole(rtt) ==
  IF estimateRtt = 0 THEN rtt ELSE (7 * estimateRtt + 8 * rtt) \div 8

\* 0.875 * estimateRtt + 0.125 * sampleRtt, cut to a uint32_t.
Estimate(rtt) == IF estimateRtt = 0 THEN rtt ELSE (7 * estimateRtt + rtt) \div 8

Gap(x, y) == IF x > y THEN x - y ELSE y - x

\* 0.75 * devRtt + 0.25 * |sampleRtt - estimateRtt|, with the new estimate.
Deviation(rtt) == (3 * devRtt + Gap(rtt, Estimate(rtt))) \div 4

\* calculateRtt takes a sample, whatever burst sampleSentTime is of by now.
RSample ==
  /\ rpc = "sample"
  /\ estimateRtt' = Estimate(sampleAge) /\ devRtt' = Deviation(sampleAge)
  /\ rpc' = "store"
  /\ UNCHANGED <<lastAcked, lastSent, sampleSeqNum, timeout, startAge, sampleAge,
                 spc, sval, rack, rseq, looked, history>>

RStore ==
  /\ rpc = "store"
  /\ lastAcked' = rack
  /\ covered' = (covered \/ Dist(lastAcked, sampleSeqNum) < Dist(lastAcked, rack))
  /\ rpc' = "start" /\ rack' = 0 /\ need' = 0
  /\ UNCHANGED <<lastSent, sampleSeqNum, timeout, estimateRtt, devRtt, startAge,
                 sampleAge, spc, sval, rseq, looked, since, quiet>>

RStart ==
  /\ rpc = "start"
  /\ startAge' = 0
  /\ rpc' = "timeout"
  /\ UNCHANGED <<lastAcked, lastSent, sampleSeqNum, timeout, estimateRtt, devRtt,
                 sampleAge, spc, sval, rack, rseq, looked, history>>

\* calculateNewTimeout
RTimeout ==
  /\ rpc = "timeout"
  /\ timeout' = IF estimateRtt = 0 THEN timeout ELSE (estimateRtt + 4 * devRtt) % W
  /\ rpc' = "recv" /\ need' = 0
  /\ UNCHANGED <<lastAcked, lastSent, sampleSeqNum, estimateRtt, devRtt, startAge,
                 sampleAge, spc, sval, rack, rseq, looked, covered, since, quiet>>

\* sendDataWithAck, under the lock that prepareAndSend holds for its burst.
RSend ==
  /\ rpc = "recv" /\ spc \notin {"seqNum", "send"}
  /\ SendOne
  /\ UNCHANGED <<lastAcked, sampleSeqNum, timeout, estimateRtt, devRtt, startAge,
                 sampleAge, spc, sval, rVars, looked, covered, quiet, need>>

RWork == RWrapped \/ RStraight \/ RSample \/ RStore \/ RStart \/ RTimeout

RNext == (\E n \in 1 .. N - 1 : RAck(n)) \/ RWork \/ RSend

-----------------------------------------------------------------------------
(* The clock moves on by the granularity of the model.  The send thread    *)
(* looks at the timer once per round of a loop that takes microseconds, so *)
(* it has been round since the last tick, unless it has nothing to do.     *)
Tick ==
  /\ looked \/ lastSent = lastAcked
  /\ startAge' = (startAge + 1) % W /\ sampleAge' = SmallerOf(MaxRtt, sampleAge + 1)
  /\ quiet' = SmallerOf(Half, quiet + 1)
  /\ looked' = FALSE
  /\ UNCHANGED <<lastAcked, lastSent, sampleSeqNum, timeout, estimateRtt, devRtt,
                 spc, sval, rVars, covered, since, need>>

Next == SNext \/ RNext \/ Tick

Spec == Init /\ [][Next]_vars

\* Both threads are scheduled and time passes.
FairSpec == Spec /\ WF_vars(SNext) /\ WF_vars(RWork) /\ WF_vars(Tick)

-----------------------------------------------------------------------------
(* Properties                                                              *)

\* The fields keep their types; the times computed their 32 bits.
TypeOK ==
  /\ lastAcked \in Pos /\ lastSent \in Pos /\ sampleSeqNum \in Pos
  /\ timeout \in 0 .. W - 1 /\ estimateRtt \in 0 .. W - 1 /\ devRtt \in 0 .. W - 1
  /\ startAge \in 0 .. W - 1 /\ sampleAge \in 0 .. MaxRtt
  /\ spc \in {"top", "seqNum", "send", "test", "expired", "restart", "load",
              "store", "dups", "resent"}
  /\ sval \in 0 .. W - 1
  /\ rpc \in {"recv", "low", "lowTest", "lowAck", "high", "highSent", "highAck",
              "from", "to", "toTest", "again", "againTest", "sample", "store",
              "start", "timeout"}
  /\ rack \in Pos /\ rseq \in Pos
  /\ looked \in BOOLEAN /\ covered \in BOOLEAN
  /\ since \in 0 .. N + 1 /\ quiet \in 0 .. Half /\ need \in 0 .. Half

(***************************************************************************)
(* Neither the estimate nor its deviation ever exceeds the longest sample: *)
(* the unsigned difference in calculateRtt is taken the right way round    *)
(* and never turns a small error into one of 2^32 microseconds.  A timeout *)
(* computed from them is at most five times the longest round trip.        *)
(***************************************************************************)
RttBounded == estimateRtt <= MaxRtt /\ devRtt <= MaxRtt

(***************************************************************************)
(* A sample is only decided on while the sampled byte is outstanding: a    *)
(* burst acknowledged long ago is not measured as if the answer had come   *)
(* just now, although indices wrap and S moves lastSent and sampleSeqNum   *)
(* between the loads of calculateRtt (resf.c:884-906).  Only when more     *)
(* than a whole lap has been sent without a stamp, by sendDataWithAck,     *)
(* does an old stamp pass for a new one; and so does a stamp never set.    *)
(***************************************************************************)
SampleFresh == rpc = "sample" /\ covered => since > N

(***************************************************************************)
(* Back-off: with no acknowledgment in between, the timer does not         *)
(* retransmit again before twice the timeout it had waited for, whatever   *)
(* the receive thread stores meanwhile.  (As long as twice the timeout is  *)
(* at most 2^31, after which the code's int expression fires at once.)     *)
(***************************************************************************)
BackOff == [][spc = "expired" /\ spc' = "restart" => quiet >= need]_vars

(***************************************************************************)
(* While bytes are unacknowledged and no acknowledgment comes, the timer   *)
(* expires again and again (or duplicates retransmit): also after doubling *)
(* has wrapped round to 0, and with a start that was never set.            *)
(***************************************************************************)
Fires ==
  []<>(lastSent = lastAcked \/ rpc = "start" \/ spc \in {"expired", "resent"})
=============================================================================
