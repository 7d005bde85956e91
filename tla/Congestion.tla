----------------------------- MODULE Congestion -----------------------------
(***************************************************************************)
(* Congestion control of one Resf endpoint (resf.c) and the two threads    *)
(* that run it on the same fields without a lock:                          *)
(*                                                                         *)
(*   S  the send thread: timeout and congestWhenTimeout, duplicateAcks and *)
(*      congestWhenDup3,                                                   *)
(*   R  the receive thread: dupAckNum, congestWhenNDup, congestWhenNAck.   *)
(*                                                                         *)
(* Every load and every store of a field that the other thread may store   *)
(* or load is a step.  A handler tests cstatus against SLOW, AVOID and     *)
(* RECOV in this order and loads it for each test.  Whether a timer has    *)
(* expired, whether a retransmission succeeds and what a segment reports   *)
(* are arbitrary.                                                          *)
(***************************************************************************)
EXTENDS Integers

CONSTANTS MSS,         \* MAX_SEG_SIZE and MAX_SEGMENT_DATA_SIZE, 1440
          InitThresh,  \* ssthresh at first, 64 << 10
          Rwnds,       \* windows the segments of the peer carry
          DupWidth,    \* number of values of dupAckNum, 256: a uint8_t
          MaxReports   \* model bound: acknowledgments taken in

ASSUME CongestionParams ==
  /\ MSS \in Nat \ {0} /\ InitThresh \in Nat
  /\ Rwnds \subseteq Nat
  /\ DupWidth \in Nat /\ DupWidth > 3
  /\ MaxReports \in Nat

VARIABLES
  cwnd, ssthresh, cstatus, dupAckNum, rwnd,  \* the Resf fields of these names
  spc, swhy, stest, sval,  \* S: cause and branch of its handler, value loaded
  rpc, rwhy, rtest, rval,  \* R: likewise
  news, dups, fasts        \* history: new and duplicate acknowledgments taken
                           \* in, fast retransmissions

fields  == <<cwnd, ssthresh, cstatus, dupAckNum, rwnd>>
sVars   == <<spc, swhy, stest, sval>>
rVars   == <<rpc, rwhy, rtest, rval>>
history == <<news, dups, fasts>>
vars    == <<fields, sVars, rVars, history>>

\* congestStatus, in the order of the tests.
Status == <<"SLOW", "AVOID", "RECOV">>

Init ==
  /\ cwnd = MSS /\ ssthresh = InitThresh /\ cstatus = "SLOW"
  /\ dupAckNum = 0 /\ rwnd \in Rwnds
  /\ spc = "timer" /\ swhy = "timeout" /\ stest = 1 /\ sval = 0
  /\ rpc = "recv" /\ rwhy = "new" /\ rtest = 1 /\ rval = 0
  /\ news = 0 /\ dups = 0 /\ fasts = 0

-----------------------------------------------------------------------------
(* S: timeout, then duplicateAcks, again and again                         *)

\* timeout: when the timer has expired, whatever became of retransmit.
STimer(expired) ==
  /\ spc = "timer"
  /\ IF expired THEN spc' = "test" /\ swhy' = "timeout" /\ stest' = 1
                ELSE spc' = "dups" /\ UNCHANGED <<swhy, stest>>
  /\ UNCHANGED <<fields, sval, rVars, history>>

\* Mutated form of Enough: one duplicate acknowledgment too early.
EnoughAtTwo == dupAckNum >= 2

Enough == dupAckNum >= 3

\* duplicateAcks: without a successful retransmission nothing is reset.
SDups(resent) ==
  /\ spc = "dups"
  /\ IF Enough /\ resent
       THEN spc' = "test" /\ swhy' = "dup3" /\ stest' = 1 /\ fasts' = fasts + 1
       ELSE spc' = "timer" /\ UNCHANGED <<swhy, stest, fasts>>
  /\ UNCHANGED <<fields, sval, rVars, news, dups>>

HandlerEnd == IF swhy = "timeout" THEN "dups" ELSE "reset"

\* The chain of tests; congestWhenDup3 does nothing in RECOV.
STest ==
  /\ spc = "test"
  /\ IF cstatus = Status[stest]
       THEN /\ spc' = IF swhy = "dup3" /\ stest = 3 THEN HandlerEnd ELSE "halve"
            /\ UNCHANGED stest
       ELSE IF stest < 3 THEN stest' = stest + 1 /\ UNCHANGED spc
                         ELSE spc' = HandlerEnd /\ UNCHANGED stest
  /\ UNCHANGED <<fields, swhy, sval, rVars, history>>

SHalve ==
  /\ spc = "halve" /\ spc' = "thresh"
  /\ sval' = cwnd \div 2
  /\ UNCHANGED <<fields, swhy, stest, rVars, history>>

SThresh ==
  /\ spc = "thresh" /\ spc' = "window"
  /\ ssthresh' = sval
  /\ UNCHANGED <<cwnd, cstatus, dupAckNum, rwnd, swhy, stest, sval, rVars, history>>

\* Mutated form of WindowAfterLoss: recovery starts from the whole window.
WindowAfterLossWhole ==
  IF swhy = "timeout" THEN MSS ELSE cwnd + 3 * MSS

WindowAfterLoss ==
  IF swhy = "timeout" THEN MSS ELSE ssthresh + 3 * MSS

\* congestWhenTimeout in SLOW leaves cstatus alone.
SWindow ==
  /\ spc = "window"
  /\ cwnd' = WindowAfterLoss
  /\ spc' = IF swhy = "timeout" /\ stest = 1 THEN HandlerEnd ELSE "status"
  /\ UNCHANGED <<ssthresh, cstatus, dupAckNum, rwnd, swhy, stest, sval, rVars,
                 history>>

SStatus ==
  /\ spc = "status" /\ spc' = HandlerEnd
  /\ cstatus' = IF swhy = "timeout" THEN "SLOW" ELSE "RECOV"
  /\ UNCHANGED <<cwnd, ssthresh, dupAckNum, rwnd, swhy, stest, sval, rVars,
                 history>>

SReset ==
  /\ spc = "reset" /\ spc' = "timer"
  /\ dupAckNum' = 0
  /\ UNCHANGED <<cwnd, ssthresh, cstatus, rwnd, swhy, stest, sval, rVars, history>>

SWork == STest \/ SHalve \/ SThresh \/ SWindow \/ SStatus \/ SReset

-----------------------------------------------------------------------------
(* R: the acknowledgment part of startRecv                                 *)

\* A segment repeats lastAcked: rwnd, then dupAckNum++ loads.
RDup(w) ==
  /\ rpc = "recv" /\ news + dups < MaxReports
  /\ rwnd' = w
  /\ rval' = dupAckNum
  /\ rpc' = "count" /\ dups' = dups + 1
  /\ UNCHANGED <<cwnd, ssthresh, cstatus, dupAckNum, sVars, rwhy, rtest, news, fasts>>

\* Mutated form of NextDup: a counter wider than 8 bits.
NextDupWide == rval + 1

NextDup == IF rval + 1 < DupWidth THEN rval + 1 ELSE 0

\* dupAckNum++ stores; congestWhenNDup begins.
RCount ==
  /\ rpc = "count"
  /\ dupAckNum' = NextDup
  /\ rpc' = "test" /\ rwhy' = "dup" /\ rtest' = 1
  /\ UNCHANGED <<cwnd, ssthresh, cstatus, rwnd, sVars, rval, history>>

\* A segment moves lastAcked: rwnd, then congestWhenNAck begins.
RNew(w) ==
  /\ rpc = "recv" /\ news + dups < MaxReports
  /\ rwnd' = w
  /\ rpc' = "test" /\ rwhy' = "new" /\ rtest' = 1
  /\ news' = news + 1
  /\ UNCHANGED <<cwnd, ssthresh, cstatus, dupAckNum, sVars, rval, dups, fasts>>

\* What a handler does nothing about: congestWhenNDup outside RECOV, and
\* congestWhenNAck in AVOID when the window is 0.
Ignored == \/ rwhy = "dup" /\ rtest # 3
           \/ rwhy = "new" /\ rtest = 2 /\ rwnd = 0

RTest ==
  /\ rpc = "test"
  /\ IF cstatus = Status[rtest]
       THEN rpc' = (IF Ignored THEN "recv" ELSE "load") /\ UNCHANGED rtest
       ELSE IF rtest < 3 THEN rtest' = rtest + 1 /\ UNCHANGED rpc
                         ELSE rpc' = "recv" /\ UNCHANGED rtest
  /\ UNCHANGED <<fields, sVars, rwhy, rval, history>>

\* The window after an acknowledgment; avoidance divides by rwnd.
WindowAfterAck ==
  IF rwhy = "dup" \/ rtest = 1 THEN cwnd + MSS
  ELSE IF rtest = 2 THEN cwnd + (MSS * MSS) \div rwnd
  ELSE ssthresh

RLoad ==
  /\ rpc = "load" /\ rpc' = "store"
  /\ rval' = WindowAfterAck
  /\ UNCHANGED <<fields, sVars, rwhy, rtest, history>>

RStore ==
  /\ rpc = "store"
  /\ cwnd' = rval
  /\ rpc' = IF rwhy = "dup" \/ rtest = 2 THEN "recv"
            ELSE IF rtest = 1 THEN "reload" ELSE "status"
  /\ UNCHANGED <<ssthresh, cstatus, dupAckNum, rwnd, sVars, rwhy, rtest, rval,
                 history>>

\* Slow start ends when cwnd >= ssthresh: two loads, then the store.
RReload ==
  /\ rpc = "reload" /\ rpc' = "cross"
  /\ rval' = cwnd
  /\ UNCHANGED <<fields, sVars, rwhy, rtest, history>>

RCross ==
  /\ rpc = "cross"
  /\ rpc' = IF rval >= ssthresh THEN "status" ELSE "recv"
  /\ UNCHANGED <<fields, sVars, rwhy, rtest, rval, history>>

RStatus ==
  /\ rpc = "status" /\ rpc' = "recv"
  /\ cstatus' = "AVOID"
  /\ UNCHANGED <<cwnd, ssthresh, dupAckNum, rwnd, sVars, rwhy, rtest, rval,
                 history>>

RWork == RCount \/ RTest \/ RLoad \/ RStore \/ RReload \/ RCross \/ RStatus

-----------------------------------------------------------------------------
Next ==
  \/ \E b \in BOOLEAN : STimer(b) \/ SDups(b)
  \/ SWork
  \/ \E w \in Rwnds : RDup(w) \/ RNew(w)
  \/ RWork

Spec == Init /\ [][Next]_vars

-----------------------------------------------------------------------------
(* Properties                                                              *)

\* The fields and locals keep their types; dupAckNum its width.
TypeOK ==
  /\ cwnd \in Nat /\ ssthresh \in Nat
  /\ cstatus \in {"SLOW", "AVOID", "RECOV"}
  /\ dupAckNum \in 0 .. DupWidth - 1 /\ rwnd \in Rwnds
  /\ spc \in {"timer", "dups", "test", "halve", "thresh", "window", "status", "reset"}
  /\ rpc \in {"recv", "count", "test", "load", "store", "reload", "cross", "status"}
  /\ swhy \in {"timeout", "dup3"} /\ rwhy \in {"new", "dup"}
  /\ stest \in 1 .. 3 /\ rtest \in 1 .. 3 /\ sval \in Nat /\ rval \in Nat
  /\ news \in Nat /\ dups \in Nat /\ fasts \in Nat

(***************************************************************************)
(* Each fast retransmission needs a duplicate acknowledgment of its own,   *)
(* the first one three.  It cannot be said that each needs three ("check   *)
(* three duplicates acks", resf.c:455): a dupAckNum++ of the receive       *)
(* thread that has loaded the count before duplicateAcks resets it stores  *)
(* it back afterwards, and the next one may do the same.                   *)
(***************************************************************************)
DuplicatesPay == fasts > 0 => fasts + 2 <= dups

(***************************************************************************)
(* The window opens by at most one segment per acknowledgment and per fast *)
(* retransmission, even when a stale store of congestWhenNAck or           *)
(* congestWhenNDup brings back a window that a loss had closed.  (As far   *)
(* as the peer advertises whole segments: congestion avoidance divides by  *)
(* rwnd, and opens by more than a segment when rwnd is below one.)         *)
(***************************************************************************)
AckClocked == cwnd <= MSS * (1 + news + dups + fasts)
=============================================================================
