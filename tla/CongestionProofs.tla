-------------------------- MODULE CongestionProofs --------------------------
(***************************************************************************)
(* What a fast retransmission costs and how far the window opens, for      *)
(* every segment size, every width of dupAckNum above 3 and every          *)
(* interleaving of the two threads.                                        *)
(*                                                                         *)
(* DuplicatesPay is not inductive: it must be known what dupAckNum and the *)
(* copy of it that a dupAckNum++ holds are worth at each moment.  PayInv   *)
(* says that a value of 3 has been paid for with a duplicate more than the *)
(* fast retransmissions so far needed.  AckClocked needs the same of every *)
(* window and threshold a thread has computed and not yet stored: ClockInv *)
(* below, which rests on PayInv where recovery adds three segments.        *)
(***************************************************************************)
EXTENDS Congestion, TLAPS

\* Between the test of duplicateAcks and its reset of dupAckNum.
Recovering ==
  swhy = "dup3" /\ spc \in {"test", "halve", "thresh", "window", "status", "reset"}

\* While nothing was retransmitted, dupAckNum counts no more than arrived.
FirstThree ==
  fasts = 0 => /\ dupAckNum <= dups
               /\ rpc = "count" => rval + 1 <= dups

\* A dupAckNum++ finds at its store what it loaded, or the reset.
CountStale == rpc = "count" => rval \in Nat /\ dupAckNum \in {0, rval}

\* What is enough for duplicateAcks is paid for.
Paid ==
  /\ ~Recovering /\ dupAckNum >= 3 => fasts + 3 <= dups
  /\ rpc = "count" /\ fasts > 0 => fasts + 3 <= dups
  /\ rpc = "count" /\ rval >= 3 /\ ~Recovering /\ dupAckNum >= 3 => fasts + 4 <= dups
  /\ spc = "reset" => swhy = "dup3"

PayInv == DuplicatesPay /\ FirstThree /\ CountStale /\ Paid

\* congestWhenNAck divides by rwnd only when it is not 0.
DivisorPositive == rpc = "load" /\ rwhy = "new" /\ rtest = 2 => rwnd > 0

TypeInv == TypeOK /\ DivisorPositive

\* The fields and locals start with values of their types.
LEMMA TypeInit == Init => TypeInv
BY CongestionParams DEF Init, TypeInv, TypeOK, DivisorPositive

\* The window never becomes negative in congestion avoidance.
LEMMA Quotient == ASSUME NEW m \in Nat, NEW d \in Nat, d > 0
                  PROVE  m \div d \in Nat
<1>1. m \div d \in Int
  OBVIOUS
<1>2. m = d * (m \div d) + (m % d) /\ 0 <= m % d /\ m % d < d
  OBVIOUS
<1>3. ASSUME m \div d < 0 PROVE FALSE
  <2> DEFINE q == m \div d
  <2>1. q \in Int /\ q <= -1 /\ m = d * q + (m % d) /\ m % d \in Int
    BY <1>1, <1>2, <1>3
  <2> HIDE DEF q
  <2>2. d * q <= -d
    BY <2>1
  <2> QED
    BY <1>2, <2>1, <2>2
<1> QED
  BY <1>1, <1>3

\* Every step keeps the types.
LEMMA TypeNext == TypeInv /\ [Next]_vars => TypeInv'
<1> SUFFICES ASSUME TypeInv, [Next]_vars PROVE TypeInv'
  OBVIOUS
<1> USE CongestionParams DEF TypeInv, TypeOK, DivisorPositive, fields, sVars, rVars, history
<1>1. ASSUME NEW b \in BOOLEAN, STimer(b) PROVE TypeInv'
  BY <1>1 DEF STimer
<1>2. ASSUME NEW b \in BOOLEAN, SDups(b) PROVE TypeInv'
  BY <1>2 DEF SDups
<1>3. CASE STest
  BY <1>3 DEF STest, HandlerEnd
<1>4. CASE SHalve
  BY <1>4 DEF SHalve
<1>5. CASE SThresh
  BY <1>5 DEF SThresh
<1>6. CASE SWindow
  BY <1>6 DEF SWindow, WindowAfterLoss, HandlerEnd
<1>7. CASE SStatus
  BY <1>7 DEF SStatus, HandlerEnd
<1>8. CASE SReset
  BY <1>8 DEF SReset
<1>9. ASSUME NEW w \in Rwnds, RDup(w) PROVE TypeInv'
  BY <1>9 DEF RDup
<1>10. ASSUME NEW w \in Rwnds, RNew(w) PROVE TypeInv'
  BY <1>10 DEF RNew
<1>11. CASE RCount
  BY <1>11 DEF RCount, NextDup
<1>12. CASE RTest
  BY <1>12 DEF RTest, Ignored
<1>13. CASE RLoad
  <2>1. MSS * MSS \in Nat
    OBVIOUS
  <2>2. WindowAfterAck \in Nat
    BY <1>13, <2>1, Quotient DEF RLoad, WindowAfterAck
  <2> QED
    BY <1>13, <2>2 DEF RLoad
<1>14. CASE RStore
  BY <1>14 DEF RStore
<1>15. CASE RReload
  BY <1>15 DEF RReload
<1>16. CASE RCross
  BY <1>16 DEF RCross
<1>17. CASE RStatus
  BY <1>17 DEF RStatus
<1>18. CASE UNCHANGED vars
  BY <1>18 DEF vars
<1> QED
  BY <1>1, <1>2, <1>3, <1>4, <1>5, <1>6, <1>7, <1>8, <1>9, <1>10, <1>11, <1>12,
     <1>13, <1>14, <1>15, <1>16, <1>17, <1>18
  DEF Next, SWork, RWork

\* Nothing has been counted or retransmitted at first.
LEMMA PayInit == Init => PayInv
BY DEF Init, PayInv, DuplicatesPay, FirstThree, CountStale, Paid, Recovering

\* Every step keeps PayInv.  SDups spends what Paid has put aside; SReset and
\* RCount, in whatever order, leave a count that is paid for again.
LEMMA PayNext == TypeOK /\ PayInv /\ [Next]_vars => PayInv'
<1> SUFFICES ASSUME TypeOK, PayInv, [Next]_vars PROVE PayInv'
  OBVIOUS
<1> USE CongestionParams DEF TypeOK, PayInv, DuplicatesPay, FirstThree, CountStale, Paid,
        Recovering, fields, sVars, rVars, history
<1>1. ASSUME NEW b \in BOOLEAN, STimer(b) PROVE PayInv'
  BY <1>1 DEF STimer
<1>2. ASSUME NEW b \in BOOLEAN, SDups(b) PROVE PayInv'
  BY <1>2 DEF SDups, Enough
<1>3. CASE STest
  BY <1>3 DEF STest, HandlerEnd
<1>4. CASE SHalve
  BY <1>4 DEF SHalve
<1>5. CASE SThresh
  BY <1>5 DEF SThresh
<1>6. CASE SWindow
  BY <1>6 DEF SWindow, HandlerEnd
<1>7. CASE SStatus
  BY <1>7 DEF SStatus, HandlerEnd
<1>8. CASE SReset
  BY <1>8 DEF SReset
<1>9. ASSUME NEW w \in Rwnds, RDup(w) PROVE PayInv'
  BY <1>9 DEF RDup
<1>10. ASSUME NEW w \in Rwnds, RNew(w) PROVE PayInv'
  BY <1>10 DEF RNew
<1>11. CASE RCount
  BY <1>11 DEF RCount, NextDup
<1>12. CASE RTest \/ RLoad \/ RStore \/ RReload \/ RCross \/ RStatus
  BY <1>12 DEF RTest, RLoad, RStore, RReload, RCross, RStatus
<1>13. CASE UNCHANGED vars
  BY <1>13 DEF vars
<1> QED
  BY <1>1, <1>2, <1>3, <1>4, <1>5, <1>6, <1>7, <1>8, <1>9, <1>10, <1>11, <1>12, <1>13
  DEF Next, SWork, RWork

\* The fields of congestion control and the locals of both threads keep
\* their types; dupAckNum stays a uint8_t.
THEOREM TypeCorrect == Spec => []TypeOK
<1>1. TypeInv => TypeOK
  BY DEF TypeInv
<1> QED
  BY <1>1, TypeInit, TypeNext, PTL DEF Spec

\* No fast retransmission without a duplicate acknowledgment of its own, and
\* none before the third, whatever duplicateAcks and startRecv interleave.
THEOREM DuplicatesPayCorrect == Spec => []DuplicatesPay
<1>1. PayInv => DuplicatesPay
  BY DEF PayInv
<1> QED
  BY <1>1, TypeCorrect, PayInit, PayNext, PTL DEF Spec

-----------------------------------------------------------------------------
(***************************************************************************)
(* AckClocked.  The window is not all that must be bounded: R may hold a   *)
(* window it has computed, S a threshold, and recovery builds the next     *)
(* window from the threshold.  Credit is what the window may stand at now: *)
(* a gain for each acknowledgment and fast retransmission that has already *)
(* been spent.  It never shrinks, so that a stale store is covered by the  *)
(* credit of the moment when its value was computed.                       *)
(*                                                                         *)
(* The gain g of one acknowledgment is a segment, or more where avoidance  *)
(* divides by a window rwnd below a segment.                               *)
(***************************************************************************)
IsGain(g) == g \in Nat /\ MSS <= g
             /\ \A w \in Rwnds : w = 0 \/ (MSS * MSS) \div w <= g

\* A report R has taken in but not turned into a window yet.
Unspent == IF rpc \in {"count", "test", "load"} THEN 1 ELSE 0

\* A fast retransmission S has made but not turned into a window yet.
Promised == IF swhy = "dup3" /\ spc \in {"test", "halve", "thresh", "window"}
              THEN 1 ELSE 0

Credit == 1 + news + dups + fasts - Unspent - Promised
Cap(g) == g * Credit

\* Every window in a field or in a local is covered.
WithinCredit(g) ==
  /\ Credit >= 1
  /\ cwnd <= Cap(g)
  /\ rpc = "store" => rval <= Cap(g)
  /\ spc = "thresh" => sval <= Cap(g)

\* The threshold is covered where it may become the window; the initial one,
\* 64 << 10, is not, but a loss replaces it before that.
ThreshCovered(g) ==
  \/ spc \in {"window", "status"}
  \/ cstatus = "RECOV"
  \/ rpc = "load" /\ rwhy = "new" /\ rtest = 3
  => ssthresh <= Cap(g)

\* Before the first fast retransmission there is no recovery, and a duplicate
\* opens no window; before the first new acknowledgment nothing does.
Untouched ==
  fasts = 0 =>
    /\ cstatus # "RECOV" /\ swhy = "timeout"
    /\ rwhy = "dup" => rpc \notin {"load", "store"}
    /\ news = 0 => /\ cwnd <= MSS
                   /\ rpc \in {"recv", "count", "test"}
                   /\ rpc = "test" => rwhy = "dup"

\* The three duplicates that bring a fast retransmission about are worth half
\* the window and two segments: with the retransmission itself they pay for
\* ssthresh + 3 * MSS.
RecoveryCovered(g) ==
  swhy = "dup3" =>
    /\ spc \in {"test", "halve"} => /\ Credit + Unspent >= 4
                                    /\ Credit >= 4 \/ cwnd <= MSS
    /\ spc = "thresh" => sval + 2 * MSS <= Cap(g)
    /\ spc = "window" => ssthresh + 2 * MSS <= Cap(g)

ClockInv(g) == WithinCredit(g) /\ ThreshCovered(g) /\ Untouched /\ RecoveryCovered(g)

\* What a window of c gains holds.
LEMMA Gains ==
  ASSUME NEW g \in Nat, MSS <= g, NEW c \in Int
  PROVE  /\ g * c \in Int
         /\ g * (c + 1) = g * c + g
         /\ \A d \in Int : c <= d => g * c <= g * d
         /\ c >= 1 => g * c >= g
         /\ c >= 3 => g * c >= 3 * g
         /\ c >= 4 => g * c >= 4 * g
<1>1. g * c \in Int /\ g * (c + 1) = g * c + g
  OBVIOUS
<1>2. ASSUME NEW d \in Int, c <= d PROVE g * c <= g * d
  BY <1>2
<1>3. ASSUME NEW d \in Int, d <= c PROVE g * d <= g * c
  BY <1>3
<1>4. g * 1 = g /\ g * 3 = 3 * g /\ g * 4 = 4 * g
  OBVIOUS
<1> QED
  BY <1>1, <1>2, <1>3, <1>4

\* One acknowledgment in avoidance is worth at most a segment, when the peer
\* advertises at least that.
LEMMA AvoidanceQuotient ==
  ASSUME NEW d \in Nat, MSS <= d
  PROVE  (MSS * MSS) \div d <= MSS
<1> DEFINE q == (MSS * MSS) \div d
           m == MSS * MSS
<1>1. m \in Nat /\ d > 0
  BY CongestionParams
<1> HIDE DEF m
<1>2. q \in Nat
  BY <1>1, Quotient DEF m
<1>3. m = d * (m \div d) + (m % d) /\ m % d \in Nat
  BY <1>1
<1>4. d * q <= m
  BY <1>1, <1>2, <1>3 DEF m
<1> HIDE DEF q
<1>5. ASSUME q > MSS PROVE FALSE
  <2>1. MSS * q <= d * q
    BY <1>2, CongestionParams
  <2>2. MSS * (MSS + 1) <= MSS * q
    BY <1>2, <1>5, CongestionParams
  <2>3. MSS * (MSS + 1) = m + MSS
    BY CongestionParams DEF m
  <2> QED
    BY <1>1, <1>2, <1>4, <2>1, <2>2, <2>3, CongestionParams
<1>6. q <= MSS
  BY <1>2, <1>5, CongestionParams
<1> QED
  BY <1>6 DEF q

\* Credit is a number, and Cap follows it.
LEMMA CapNumbers ==
  ASSUME TypeOK, NEW g, IsGain(g)
  PROVE  /\ Credit \in Int /\ Cap(g) \in Int /\ Unspent \in {0, 1}
         /\ Credit >= 1 => Cap(g) >= g
         /\ Credit >= 3 => Cap(g) >= 3 * g
         /\ Credit >= 4 => Cap(g) >= 4 * g
<1>1. Credit \in Int
  BY DEF TypeOK, Credit, Unspent, Promised
<1>2. Unspent \in {0, 1}
  BY DEF Unspent
<1> QED
  BY <1>1, <1>2, Gains DEF Cap, IsGain

\* No step takes credit back: what is promised was not counted before.
LEMMA CapSame == ASSUME NEW g, Credit' = Credit PROVE Cap(g)' = Cap(g)
BY DEF Cap

LEMMA CapMore ==
  ASSUME NEW g, IsGain(g), TypeOK, Credit' = Credit + 1
  PROVE  Cap(g)' = Cap(g) + g
BY CapNumbers, Gains DEF Cap, IsGain

\* Half a window, and two segments more, when four segments are to be had, or
\* three and the window is one segment (congestWhenDup3).
LEMMA HalfCovered ==
  ASSUME NEW g \in Nat, MSS <= g, NEW w \in Nat, NEW half \in Nat, NEW cap \in Int,
         2 * half <= w, w <= cap
  PROVE  /\ half <= cap
         /\ cap >= 4 * g => half + 2 * MSS <= cap
         /\ cap >= 3 * g /\ w <= MSS => half + 2 * MSS <= cap
BY CongestionParams

\* The window is a segment, and nothing has been reported.
LEMMA ClockInit == ASSUME NEW g, IsGain(g), Init PROVE ClockInv(g)
<1>1. Credit = 1
  BY DEF Init, Credit, Unspent, Promised
<1>2. Cap(g) = g
  BY <1>1 DEF Cap, IsGain
<1> QED
  BY <1>1, <1>2, CongestionParams
  DEF Init, IsGain, ClockInv, WithinCredit, ThreshCovered, Untouched, RecoveryCovered

\* Every step keeps ClockInv.  SDups turns three duplicates into a promise,
\* SHalve and SWindow redeem it, RLoad spends a report, and the stores of
\* both threads, however late, write what Cap covered when it was computed.
LEMMA ClockNext ==
  ASSUME NEW g, IsGain(g),
         TypeInv, TypeOK', PayInv, ClockInv(g), [Next]_vars
  PROVE  ClockInv(g)'
<1> USE CongestionParams
    DEF ClockInv, WithinCredit, ThreshCovered, Untouched, RecoveryCovered,
        fields, sVars, rVars, history
<1>0. /\ TypeOK /\ MSS \in Nat /\ MSS > 0 /\ g \in Nat /\ MSS <= g
      /\ Credit \in Int /\ Cap(g) \in Int /\ Unspent \in {0, 1}
      /\ Cap(g) >= g
      /\ Credit >= 3 => Cap(g) >= 3 * g
      /\ Credit >= 4 => Cap(g) >= 4 * g
  BY CapNumbers DEF TypeInv, IsGain
<1>a. cwnd \in Nat /\ ssthresh \in Nat /\ sval \in Nat /\ rval \in Nat
      /\ news \in Nat /\ dups \in Nat /\ fasts \in Nat
  BY <1>0 DEF TypeOK
<1>1. ASSUME NEW b \in BOOLEAN, STimer(b) PROVE ClockInv(g)'
  <2>1. Credit' = Credit /\ Unspent' = Unspent
    BY <1>1 DEF STimer, Credit, Unspent, Promised
  <2>2. Cap(g)' = Cap(g)
    BY <2>1, CapSame
  <2> QED
    BY <1>0, <1>1, <2>1, <2>2 DEF STimer
<1>2. ASSUME NEW b \in BOOLEAN, SDups(b) PROVE ClockInv(g)'
  <2>1. Credit' = Credit /\ Unspent' = Unspent
    BY <1>2, <1>a DEF SDups, Credit, Unspent, Promised
  <2>2. Cap(g)' = Cap(g)
    BY <2>1, CapSame
  <2>3. CASE spc' = "timer"
    BY <1>0, <1>2, <2>1, <2>2, <2>3 DEF SDups
  <2>4. CASE spc' = "test"
    <3>1. dupAckNum >= 3 /\ spc = "dups" /\ spc' = "test" /\ fasts' = fasts + 1
          /\ swhy' = "dup3" /\ UNCHANGED <<cwnd, rpc, rval, cstatus, ssthresh>>
      BY <1>2, <2>4 DEF SDups, Enough
    <3>2. fasts + 3 <= dups
      BY <3>1 DEF PayInv, Paid, Recovering
    <3>3. Credit + Unspent >= 4
      BY <3>1, <3>2, <1>a DEF Credit, Unspent, Promised
    <3>4. Credit >= 4 \/ cwnd <= MSS
      <4>1. CASE fasts = 0 /\ news = 0
        BY <4>1
      <4>2. CASE fasts > 0 \/ news > 0
        BY <3>1, <3>2, <4>2, <1>a DEF Credit, Unspent, Promised
      <4> QED
        BY <4>1, <4>2, <1>a
    <3> QED
      BY <1>0, <1>2, <1>a, <2>1, <2>2, <3>1, <3>3, <3>4 DEF SDups
  <2> QED
    BY <1>2, <2>3, <2>4 DEF SDups
<1>3. CASE STest
  <2>1. Unspent' = Unspent /\ (Credit' = Credit \/ Credit' = Credit + 1)
    BY <1>3, <1>a DEF STest, HandlerEnd, Credit, Unspent, Promised
  <2>2. spc' \in {"test", "halve"} => Credit' = Credit
    BY <1>3 DEF STest, HandlerEnd, Credit, Unspent, Promised
  <2>3. Cap(g)' = Cap(g) \/ Cap(g)' = Cap(g) + g
    BY <1>0, <2>1, CapSame, CapMore
  <2>4. Credit' = Credit => Cap(g)' = Cap(g)
    BY CapSame
  <2> QED
    BY <1>0, <1>3, <1>a, <2>1, <2>2, <2>3, <2>4 DEF STest, HandlerEnd
<1>4. CASE SHalve
  <2>1. Credit' = Credit /\ Unspent' = Unspent
    BY <1>4 DEF SHalve, Credit, Unspent, Promised
  <2>2. Cap(g)' = Cap(g)
    BY <2>1, CapSame
  <2>3. sval' \in Nat /\ 2 * sval' <= cwnd
    BY <1>4, <1>a DEF SHalve
  <2>4. swhy = "dup3" => sval' + 2 * MSS <= Cap(g)
    <3>1. swhy = "dup3" => Credit >= 3 /\ (Credit >= 4 \/ cwnd <= MSS)
      BY <1>0, <1>4 DEF SHalve
    <3>2. cwnd <= Cap(g)
      OBVIOUS
    <3> QED
      BY <1>0, <1>a, <2>3, <3>1, <3>2, HalfCovered
  <2>5. sval' <= Cap(g)
    <3>1. cwnd <= Cap(g)
      OBVIOUS
    <3> QED
      BY <1>0, <1>a, <2>3, <3>1, HalfCovered
  <2> QED
    BY <1>0, <1>4, <2>1, <2>2, <2>4, <2>5 DEF SHalve
<1>5. CASE SThresh
  <2>1. Credit' = Credit /\ Unspent' = Unspent
    BY <1>5 DEF SThresh, Credit, Unspent, Promised
  <2>2. Cap(g)' = Cap(g)
    BY <2>1, CapSame
  <2> QED
    BY <1>0, <1>5, <2>1, <2>2 DEF SThresh
<1>6. CASE SWindow
  <2>1. Unspent' = Unspent
        /\ Credit' = IF swhy = "dup3" THEN Credit + 1 ELSE Credit
    BY <1>6, <1>a DEF SWindow, HandlerEnd, Credit, Unspent, Promised, TypeInv, TypeOK
  <2>2. Cap(g)' = IF swhy = "dup3" THEN Cap(g) + g ELSE Cap(g)
    BY <1>0, <2>1, CapSame, CapMore
  <2>3. swhy \in {"timeout", "dup3"}
    BY <1>0 DEF TypeOK
  <2> QED
    BY <1>0, <1>6, <1>a, <2>1, <2>2, <2>3 DEF SWindow, WindowAfterLoss, HandlerEnd
<1>7. CASE SStatus
  <2>1. Credit' = Credit /\ Unspent' = Unspent
    BY <1>7 DEF SStatus, HandlerEnd, Credit, Unspent, Promised
  <2>2. Cap(g)' = Cap(g)
    BY <2>1, CapSame
  <2> QED
    BY <1>0, <1>7, <2>1, <2>2 DEF SStatus, HandlerEnd
<1>8. CASE SReset
  <2>1. Credit' = Credit /\ Unspent' = Unspent
    BY <1>8 DEF SReset, Credit, Unspent, Promised
  <2>2. Cap(g)' = Cap(g)
    BY <2>1, CapSame
  <2> QED
    BY <1>0, <1>8, <2>1, <2>2 DEF SReset
<1>9. ASSUME NEW w \in Rwnds, RDup(w) PROVE ClockInv(g)'
  <2>1. Credit' = Credit /\ Unspent' = 1
    BY <1>9, <1>a DEF RDup, Credit, Unspent, Promised
  <2>2. Cap(g)' = Cap(g)
    BY <2>1, CapSame
  <2> QED
    BY <1>0, <1>9, <2>1, <2>2 DEF RDup
<1>10. ASSUME NEW w \in Rwnds, RNew(w) PROVE ClockInv(g)'
  <2>1. Credit' = Credit /\ Unspent' = 1
    BY <1>10, <1>a DEF RNew, Credit, Unspent, Promised
  <2>2. Cap(g)' = Cap(g)
    BY <2>1, CapSame
  <2>3. news' > 0
    BY <1>10, <1>a DEF RNew
  <2> QED
    BY <1>0, <1>10, <2>1, <2>2, <2>3 DEF RNew
<1>11. CASE RCount
  <2>1. Credit' = Credit /\ Unspent' = Unspent
    BY <1>11 DEF RCount, Credit, Unspent, Promised
  <2>2. Cap(g)' = Cap(g)
    BY <2>1, CapSame
  <2> QED
    BY <1>0, <1>11, <2>1, <2>2 DEF RCount
<1>12. CASE RTest
  <2>1. IF rpc' = "recv" THEN Credit' = Credit + 1 /\ Unspent' = 0 /\ Unspent = 1
                         ELSE Credit' = Credit /\ Unspent' = Unspent
    BY <1>12, <1>a DEF RTest, Credit, Unspent, Promised
  <2>2. Cap(g)' = Cap(g) \/ Cap(g)' = Cap(g) + g
    BY <1>0, <2>1, CapSame, CapMore
  <2>3. /\ rpc = "test" /\ rpc' \in {"recv", "load", "test"}
        /\ UNCHANGED <<cwnd, ssthresh, cstatus, spc, swhy, sval, rwhy, rval,
                       news, dups, fasts>>
        /\ rpc' = "load" => cstatus = Status[rtest] /\ rtest' = rtest /\ ~Ignored
    BY <1>12 DEF RTest
  <2>4. rpc' = "load" /\ rtest' = 3 => cstatus = "RECOV"
    BY <2>3 DEF Status
  <2>5. rpc' = "load" /\ rwhy = "dup" => cstatus = "RECOV"
    BY <2>3 DEF Status, Ignored
  <2> QED
    BY <1>0, <1>a, <2>1, <2>2, <2>3, <2>4, <2>5
<1>13. CASE RLoad
  <2>1. Credit' = Credit + 1 /\ Unspent' = 0 /\ Unspent = 1
    BY <1>13, <1>a DEF RLoad, Credit, Unspent, Promised
  <2>2. Cap(g)' = Cap(g) + g
    BY <1>0, <2>1, CapMore
  <2>3. WindowAfterAck <= Cap(g) + g
    <3>1. CASE rwhy = "dup" \/ rtest = 1
      BY <1>0, <1>a, <3>1 DEF WindowAfterAck
    <3>2. CASE rwhy = "new" /\ rtest = 2
      <4>1. rwnd \in Nat /\ rwnd \in Rwnds /\ rwnd > 0
        BY <1>13, <3>2 DEF RLoad, TypeInv, TypeOK, DivisorPositive
      <4>2. (MSS * MSS) \div rwnd <= g
        BY <4>1 DEF IsGain
      <4>3. MSS * MSS \in Nat
        OBVIOUS
      <4>4. (MSS * MSS) \div rwnd \in Nat
        BY <4>1, <4>3, Quotient
      <4>5. WindowAfterAck = cwnd + (MSS * MSS) \div rwnd
        BY <3>2 DEF WindowAfterAck
      <4> QED
        BY <1>0, <1>a, <4>2, <4>4, <4>5
    <3>3. CASE rwhy = "new" /\ rtest = 3
      BY <1>0, <1>a, <1>13, <3>3 DEF RLoad, WindowAfterAck
    <3> QED
      BY <3>1, <3>2, <3>3, <1>0 DEF TypeOK
  <2>4. rpc = "load" /\ rpc' = "store" /\ rval' <= Cap(g)'
        /\ UNCHANGED <<cwnd, ssthresh, cstatus, spc, swhy, sval, rwhy, rtest,
                       news, dups, fasts>>
    BY <1>13, <2>2, <2>3 DEF RLoad
  <2> HIDE DEF fields
  <2> QED
    BY <1>0, <1>a, <2>1, <2>2, <2>4
<1>14. CASE RStore
  <2>1. Credit' = Credit /\ Unspent' = Unspent /\ Unspent = 0
    BY <1>14 DEF RStore, Credit, Unspent, Promised
  <2>2. Cap(g)' = Cap(g)
    BY <2>1, CapSame
  <2> QED
    BY <1>0, <1>14, <1>a, <2>1, <2>2 DEF RStore
<1>15. CASE RReload
  <2>1. Credit' = Credit /\ Unspent' = Unspent
    BY <1>15 DEF RReload, Credit, Unspent, Promised
  <2>2. Cap(g)' = Cap(g)
    BY <2>1, CapSame
  <2> QED
    BY <1>0, <1>15, <2>1, <2>2 DEF RReload
<1>16. CASE RCross
  <2>1. Credit' = Credit /\ Unspent' = Unspent
    BY <1>16 DEF RCross, Credit, Unspent, Promised
  <2>2. Cap(g)' = Cap(g)
    BY <2>1, CapSame
  <2> QED
    BY <1>0, <1>16, <2>1, <2>2 DEF RCross
<1>17. CASE RStatus
  <2>1. Credit' = Credit /\ Unspent' = Unspent
    BY <1>17 DEF RStatus, Credit, Unspent, Promised
  <2>2. Cap(g)' = Cap(g)
    BY <2>1, CapSame
  <2> QED
    BY <1>0, <1>17, <2>1, <2>2 DEF RStatus
<1>18. CASE UNCHANGED vars
  <2>1. Credit' = Credit /\ Unspent' = Unspent
    BY <1>18 DEF vars, Credit, Unspent, Promised
  <2>2. Cap(g)' = Cap(g)
    BY <2>1, CapSame
  <2> QED
    BY <1>18, <2>1, <2>2 DEF vars
<1> QED
  BY <1>1, <1>2, <1>3, <1>4, <1>5, <1>6, <1>7, <1>8, <1>9, <1>10, <1>11, <1>12,
     <1>13, <1>14, <1>15, <1>16, <1>17, <1>18
  DEF Next, SWork, RWork

\* What is covered is within one gain per report and fast retransmission.
LEMMA ClockBounds ==
  ASSUME NEW g, IsGain(g), TypeOK, ClockInv(g)
  PROVE  cwnd <= g * (1 + news + dups + fasts)
<1> DEFINE all == 1 + news + dups + fasts
<1>1. Credit \in Int /\ all \in Int /\ Credit <= all
  BY DEF TypeOK, Credit, Unspent, Promised
<1>2. Cap(g) <= g * all /\ Cap(g) \in Int /\ g * all \in Int
  BY <1>1, Gains DEF Cap, IsGain
<1>3. cwnd <= Cap(g) /\ cwnd \in Nat
  BY DEF ClockInv, WithinCredit, TypeOK
<1> QED
  BY <1>2, <1>3

\* The three facts of the invariance proof, for any gain.
LEMMA ClockInductive ==
  ASSUME NEW g, IsGain(g)
  PROVE  /\ Init => TypeInv /\ PayInv /\ ClockInv(g)
         /\ TypeInv /\ PayInv /\ ClockInv(g) /\ [Next]_vars
              => TypeInv' /\ PayInv' /\ ClockInv(g)'
         /\ TypeInv /\ ClockInv(g) => cwnd <= g * (1 + news + dups + fasts)
<1>1. Init => TypeInv /\ PayInv /\ ClockInv(g)
  BY TypeInit, PayInit, ClockInit
<1>2. ASSUME TypeInv, PayInv, ClockInv(g), [Next]_vars
      PROVE  TypeInv' /\ PayInv' /\ ClockInv(g)'
  <2>1. TypeInv' /\ PayInv'
    BY <1>2, TypeNext, PayNext DEF TypeInv
  <2>2. TypeOK'
    BY <2>1 DEF TypeInv
  <2> QED
    BY <1>2, <2>1, <2>2, ClockNext
<1>3. TypeInv /\ ClockInv(g) => cwnd <= g * (1 + news + dups + fasts)
  BY ClockBounds DEF TypeInv
<1> QED
  BY <1>1, <1>2, <1>3

\* However the handlers of the two threads interleave on cwnd, ssthresh and
\* cstatus, the window opens by at most one gain for each acknowledgment
\* taken in and each fast retransmission, whatever windows the peer
\* advertises (congestWhenNAck, congestWhenNDup, congestWhenDup3 and
\* congestWhenTimeout).
THEOREM GainClocked ==
  ASSUME NEW g, IsGain(g)
  PROVE  Spec => [](cwnd <= g * (1 + news + dups + fasts))
<1>1. Init => TypeInv /\ PayInv /\ ClockInv(g)
  BY ClockInductive
<1>2. TypeInv /\ PayInv /\ ClockInv(g) /\ [Next]_vars
        => TypeInv' /\ PayInv' /\ ClockInv(g)'
  BY ClockInductive
<1>3. TypeInv /\ ClockInv(g) => cwnd <= g * (1 + news + dups + fasts)
  BY ClockInductive
<1> QED
  BY <1>1, <1>2, <1>3, PTL DEF Spec

\* The gain is one segment when the peer advertises no window or at least a
\* segment: congestWhenNAck divides MSS * MSS by it.
THEOREM AckClockedCorrect ==
  ASSUME \A w \in Rwnds : w = 0 \/ w >= MSS
  PROVE  Spec => []AckClocked
<1>1. IsGain(MSS)
  BY AvoidanceQuotient, CongestionParams DEF IsGain
<1>2. Init => TypeInv /\ PayInv /\ ClockInv(MSS)
  BY <1>1, ClockInductive
<1>3. TypeInv /\ PayInv /\ ClockInv(MSS) /\ [Next]_vars
        => TypeInv' /\ PayInv' /\ ClockInv(MSS)'
  BY <1>1, ClockInductive
<1>4. TypeInv /\ ClockInv(MSS) => AckClocked
  BY <1>1, ClockInductive DEF AckClocked
<1> QED
  BY <1>2, <1>3, <1>4, PTL DEF Spec
=============================================================================
