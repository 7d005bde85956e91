--------------------------- MODULE SessionProofs ---------------------------
(***************************************************************************)
(* Safety of the two programs over Resf, for any number of clients, any    *)
(* files shorter than ten bytes, and segments and buffers of any size.     *)
(*                                                                         *)
(* TypeInv adds to TypeOK what the reset has already set.  SessionInv says *)
(* of a client that found the server at rest how its exchange stands: it   *)
(* is Asking, the server is Answering, or Clearing its Resf, or has Rested *)
(* and drops whatever is still under way.  In each of these, the bytes     *)
(* between the two ends are accounted for: what is written, sent, under    *)
(* way and received are consecutive parts (Part, Chain) of one request and *)
(* of one response, and an acknowledgment of the request is under way      *)
(* unless the client has it (Underway), so that nothing is retransmitted   *)
(* that the server takes.                                                  *)
(*                                                                         *)
(* A client that starts earlier may be served another one's file.  TurnInv *)
(* says of every client what remains: the data under way is that which the *)
(* server has not acknowledged (Turns), earlier clients have left no data  *)
(* (Earlier), and Before it receives anything the server is Fresh, Behind  *)
(* with what it has to reset, or has Heard of it; During, it is Replying   *)
(* with a file, Closing, or has Closed.  FileInv adds what the clients     *)
(* before it have saved.                                                   *)
(*                                                                         *)
(* All of this is about steps other than Tears, after which it no longer   *)
(* claims anything.                                                        *)
(***************************************************************************)
EXTENDS Session, SequenceTheorems, WellFoundedInduction, TLAPS

CopyOf == INSTANCE SegmentProofs

-----------------------------------------------------------------------------
(* Minima and searches                                                     *)

LEMMA MinOfTwo ==
  ASSUME NEW a \in Int, NEW b \in Int
  PROVE  Min({a, b}) = IF a <= b THEN a ELSE b
<1> DEFINE m == IF a <= b THEN a ELSE b
<1>1. m \in {a, b} /\ \A y \in {a, b} : m <= y
  OBVIOUS
<1>2. \A x \in {a, b} : (\A y \in {a, b} : x <= y) => x = m
  OBVIOUS
<1> QED
  BY <1>1, <1>2 DEF Min

LEMMA MinOfThree ==
  ASSUME NEW a \in Int, NEW b \in Int, NEW c \in Int
  PROVE  /\ Min({a, b, c}) \in {a, b, c}
         /\ Min({a, b, c}) <= a /\ Min({a, b, c}) <= b /\ Min({a, b, c}) <= c
<1> DEFINE m == IF a <= b /\ a <= c THEN a ELSE IF b <= c THEN b ELSE c
<1>1. m \in {a, b, c} /\ \A y \in {a, b, c} : m <= y
  OBVIOUS
<1>2. \E x \in {a, b, c} : \A y \in {a, b, c} : x <= y
  BY <1>1
<1> QED
  BY <1>2 DEF Min

\* There is a first position, if only the one after the last.
LEMMA FindIs ==
  ASSUME NEW c, NEW str, Len(str) \in Nat, NEW i \in 1 .. Len(str) + 1
  PROVE  /\ Find(c, str, i) \in i .. Len(str) + 1
         /\ Find(c, str, i) <= Len(str) => str[Find(c, str, i)] = c
         /\ \A j \in i .. Find(c, str, i) - 1 : str[j] # c
<1> DEFINE T == {k \in i .. Len(str) + 1 : k <= Len(str) => str[k] = c}
<1>1. T \subseteq Nat /\ Len(str) + 1 \in T
  OBVIOUS
<1>2. \E k \in T : \A y \in T : ~ (<< y, k >> \in OpToRel(<, Nat))
  <2>1. IsWellFoundedOn(OpToRel(<, Nat), Nat)
    BY NatLessThanWellFounded, Zenon
  <2>2. T # {}
    BY <1>1
  <2> HIDE DEF T
  <2> QED
    BY <1>1, <2>1, <2>2, WFMin, Zenon
<1>3. PICK k \in T : \A y \in T : ~ (<< y, k >> \in OpToRel(<, Nat))
  BY <1>2, Zenon
<1>4. \A y \in T : ~ (y < k)
  BY <1>1, <1>3, Zenon DEF OpToRel
<1>5. \A j \in i .. k - 1 : str[j] # c
  BY <1>1, <1>4
<1>6. \E x \in i .. Len(str) + 1 : /\ x <= Len(str) => str[x] = c
                                   /\ \A j \in i .. x - 1 : str[j] # c
  BY <1>3, <1>5
<1> QED
  BY <1>6 DEF Find

\* And there is only one.
LEMMA FindAt ==
  ASSUME NEW c, NEW str, Len(str) \in Nat, NEW i \in 1 .. Len(str) + 1,
         NEW k \in i .. Len(str) + 1, k <= Len(str) => str[k] = c,
         \A j \in i .. k - 1 : str[j] # c
  PROVE  Find(c, str, i) = k
<1> DEFINE f == Find(c, str, i)
<1>1. /\ f \in i .. Len(str) + 1
      /\ f <= Len(str) => str[f] = c
      /\ \A j \in i .. f - 1 : str[j] # c
  BY FindIs
<1> HIDE DEF f
<1>2. ~ (f < k) /\ ~ (k < f)
  BY <1>1
<1> QED
  BY <1>1, <1>2 DEF f

-----------------------------------------------------------------------------
(* Types                                                                   *)

Seg == [seqNum : Nat, ackNum : Nat, flags : 0 .. 1, data : Seq(Byte)]

Typed ==
  /\ lastSent \in [Host -> Nat] /\ lastAcked \in [Host -> Nat] /\ lastRead \in [Host -> Nat]
  /\ sendBuff \in [Host -> Seq(Byte)] /\ recvBuff \in [Host -> Seq(Byte)]
  /\ out \in Seq(Byte)
  /\ held \in Seq([seg : Seg, fresh : BOOLEAN]) /\ Len(held) <= 1
  /\ toServer \in Seq([from : 0 .. cur, seg : Seg]) /\ toClient \in Seq(Seg)
  /\ addr \in 0 .. cur /\ cur \in 0 .. NC /\ left \in -1 .. 9
  /\ spc \in {"poll", "body", "blank", "drain", "gone", "lastSent", "lastAcked",
              "lastWrite", "lastRead", "lastRecved", "sockFd", "addr", "waitTime"}
  /\ cpc \in {"status", "header", "body", "done", "failed"}
  /\ pos \in 0 .. FileLen /\ file \in Seq(Byte) /\ Len(file) <= FileLen
  /\ want \in [Clients -> Names] /\ saved \in [Clients -> Seq(Byte)]

\* Every step but those of Tears.
Step == Work \/ Start \/ ClientResend

Flags == ready \in [Clients -> BOOLEAN] /\ late \in BOOLEAN /\ torn \in BOOLEAN

\* The indices of both ends, and how far the reset has got.
Ordered ==
  /\ \A h \in Host : lastRead[h] <= lastRecved(h)
  /\ lastSent["client"] <= lastWrite("client") /\ lastAcked["client"] <= lastSent["client"]
  /\ ~ torn /\ ~ HalfReset =>
       lastSent["server"] <= lastWrite("server") /\ lastAcked["server"] <= lastSent["server"]
  /\ ~ torn /\ HalfReset => lastSent["server"] = 0
  /\ ~ torn /\ spc = "lastWrite" => lastAcked["server"] = 0
  /\ spc \in {"lastRead", "lastRecved", "sockFd", "addr", "waitTime", "poll"} =>
       sendBuff["server"] = << >>
  /\ spc \in {"lastRecved", "sockFd", "addr", "waitTime", "poll"} => lastRead["server"] = 0

TypeInv == Typed /\ Flags /\ Ordered

LEMMA TypeInvGives == TypeInv => TypeOK
<1> SUFFICES ASSUME TypeInv PROVE TypeOK
  OBVIOUS
<1>1. /\ lastSent \in [Host -> Nat] /\ lastAcked \in [Host -> Nat] /\ lastRead \in [Host -> Nat]
      /\ sendBuff \in [Host -> Seq(Byte)] /\ recvBuff \in [Host -> Seq(Byte)]
  BY Zenon DEF TypeInv, Typed
<1>2. /\ out \in Seq(Byte) /\ Len(held) <= 1 /\ addr \in 0 .. cur
      /\ cur \in 0 .. NC /\ left \in -1 .. 9
      /\ spc \in {"poll", "body", "blank", "drain", "gone", "lastSent", "lastAcked",
                  "lastWrite", "lastRead", "lastRecved", "sockFd", "addr", "waitTime"}
      /\ cpc \in {"status", "header", "body", "done", "failed"}
      /\ pos \in 0 .. FileLen /\ file \in Seq(Byte)
      /\ want \in [Clients -> Names] /\ saved \in [Clients -> Seq(Byte)]
      /\ ready \in [Clients -> BOOLEAN] /\ late \in BOOLEAN /\ torn \in BOOLEAN
  BY Zenon DEF TypeInv, Typed, Flags
<1>3. \A h \in Host : /\ lastSent[h] \in Nat /\ lastAcked[h] \in Nat /\ lastRead[h] \in Nat
                      /\ sendBuff[h] \in Seq(Byte) /\ recvBuff[h] \in Seq(Byte)
  BY <1>1
<1>4. \A h \in Host : lastRead[h] \in 0 .. lastRecved(h)
  <2>1. \A h \in Host : lastRead[h] <= lastRecved(h)
    BY DEF TypeInv, Ordered
  <2> QED
    BY <1>3, <2>1 DEF lastRecved
<1>5. ~torn => \A h \in Host :
        /\ lastSent[h] <= lastWrite(h) /\ lastAcked[h] \in Nat
        /\ lastAcked[h] <= lastSent[h] \/ (h = "server" /\ spc = "lastAcked")
  <2>1. lastWrite("server") \in Nat
    BY <1>3, LenProperties DEF lastWrite, Host
  <2>2. ASSUME ~torn
        PROVE  /\ lastSent["server"] <= lastWrite("server")
               /\ lastAcked["server"] <= lastSent["server"] \/ spc = "lastAcked"
    <3>1. CASE HalfReset
      BY <2>1, <2>2, <3>1 DEF TypeInv, Ordered, HalfReset
    <3>2. CASE ~HalfReset
      BY <2>2, <3>2 DEF TypeInv, Ordered
    <3> QED
      BY <3>1, <3>2
  <2>3. lastSent["client"] <= lastWrite("client") /\ lastAcked["client"] <= lastSent["client"]
    BY DEF TypeInv, Ordered
  <2> QED
    BY <1>3, <2>2, <2>3 DEF Host
<1> QED
  BY <1>2, <1>3, <1>4, <1>5 DEF TypeOK

LEMMA TypeInit == Init => TypeInv
<1> SUFFICES ASSUME Init PROVE TypeInv
  OBVIOUS
<1>1. /\ NC \in Nat /\ FileLen \in Nat /\ want \in [Clients -> Names]
      /\ [c \in Clients |-> << >>] \in [Clients -> Seq(Byte)]
  BY SessionParams DEF Init, Injection
<1>2. \A S : << >> \in Seq(S) /\ Len(<< >>) = 0
  BY EmptySeq
<1>3. /\ lastSent \in [Host -> Nat] /\ lastAcked \in [Host -> Nat] /\ lastRead \in [Host -> Nat]
      /\ sendBuff \in [Host -> Seq(Byte)] /\ recvBuff \in [Host -> Seq(Byte)]
  BY <1>2 DEF Init
<1>4. /\ out \in Seq(Byte) /\ held \in Seq([seg : Seg, fresh : BOOLEAN]) /\ Len(held) <= 1
      /\ toServer \in Seq([from : 0 .. cur, seg : Seg]) /\ toClient \in Seq(Seg)
      /\ file \in Seq(Byte) /\ Len(file) = 0
  BY <1>2 DEF Init, None
<1>5. Flags
  BY DEF Init, Flags
<1>6. /\ addr \in 0 .. cur /\ cur \in 0 .. NC /\ left \in -1 .. 9 /\ pos \in 0 .. FileLen
      /\ saved \in [Clients -> Seq(Byte)] /\ spc = "poll" /\ cpc = "done"
  BY <1>1 DEF Init
<1>7. Typed
  BY <1>1, <1>3, <1>4, <1>6 DEF Typed
<1>8. Ordered
  BY <1>2 DEF Init, Ordered, Host, HalfReset, lastRecved, lastWrite
<1> QED
  BY <1>5, <1>7, <1>8 DEF TypeInv

-----------------------------------------------------------------------------
(* What a step uses, in terms of types                                     *)

LEMMA Lengths ==
  ASSUME Typed, NEW h \in Host
  PROVE  /\ lastWrite(h) \in Nat /\ lastRecved(h) \in Nat
         /\ lastSent[h] \in Nat /\ lastAcked[h] \in Nat /\ lastRead[h] \in Nat
         /\ sendBuff[h] \in Seq(Byte) /\ recvBuff[h] \in Seq(Byte)
BY DEF Typed, lastWrite, lastRecved

LEMMA SentOrder ==
  ASSUME TypeInv, Running, NEW h \in Host
  PROVE  lastSent[h] <= lastWrite(h)
BY Lengths DEF TypeInv, Ordered, Running, Host, HalfReset

LEMMA NextLenIs ==
  ASSUME Typed, NEW h \in Host
  PROVE  /\ NextLen(h) \in Int
         /\ NextLen(h) <= MSS /\ NextLen(h) <= lastWrite(h) - lastSent[h]
         /\ lastSent[h] <= lastWrite(h) => NextLen(h) \in Nat
         /\ lastSent[h] < lastWrite(h) => NextLen(h) > 0
<1>1. MSS \in Nat /\ MSS > 0
  BY SessionParams
<1>2. lastWrite(h) - lastSent[h] \in Int /\ lastWrite(h) \in Nat /\ lastSent[h] \in Nat
  BY Lengths
<1> DEFINE d == lastWrite(h) - lastSent[h]
<1>3. NextLen(h) = IF MSS <= d THEN MSS ELSE d
  BY <1>1, <1>2, MinOfTwo DEF NextLen
<1> QED
  BY <1>1, <1>2, <1>3

LEMMA NewDataIs ==
  ASSUME Typed, NEW h \in Host, lastSent[h] <= lastWrite(h), NEW a \in Nat, NEW fl \in 0 .. 1
  PROVE  /\ NewData(h, a, fl) \in Seg
         /\ Len(NewData(h, a, fl).data) = NextLen(h)
         /\ \A i \in 1 .. NextLen(h) : NewData(h, a, fl).data[i] = sendBuff[h][lastSent[h] + i]
<1> DEFINE n == NextLen(h)
           s == lastSent[h]
           d == SubSeq(sendBuff[h], s + 1, s + n)
<1>1. n \in Nat /\ s \in Nat /\ s + n <= Len(sendBuff[h]) /\ sendBuff[h] \in Seq(Byte)
  BY Lengths, NextLenIs DEF lastWrite
<1> HIDE DEF n, s
<1>2. \A i \in s + 1 .. s + n : sendBuff[h][i] \in Byte
  BY <1>1
<1>3. d \in Seq(Byte) /\ Len(d) = n /\ \A i \in 1 .. n : d[i] = sendBuff[h][s + i]
  <2>1. s + 1 \in Int /\ s + n \in Int /\ (s + n) - (s + 1) + 1 = n
    BY <1>1
  <2>2. /\ d \in Seq(Byte)
        /\ Len(d) = IF s + 1 <= s + n THEN (s + n) - (s + 1) + 1 ELSE 0
        /\ \A i \in 1 .. (s + n) - (s + 1) + 1 : d[i] = sendBuff[h][(s + 1) + i - 1]
    BY <1>2, <2>1, SubSeqProperties
  <2> QED
    BY <1>1, <2>1, <2>2
<1> HIDE DEF d
<1>4. NewData(h, a, fl) = [seqNum |-> s, ackNum |-> a, flags |-> fl, data |-> d]
  BY DEF NewData, s, n, d
<1> QED
  BY <1>1, <1>3, <1>4 DEF Seg, n, s

LEMMA ReceivedType ==
  ASSUME NEW seg \in Seg
  PROVE  /\ Received(seg) \in Seg
         /\ Received(seg).seqNum = seg.seqNum /\ Received(seg).ackNum = seg.ackNum
         /\ Received(seg).flags = seg.flags /\ Received(seg).data = Copied(seg.data)
         /\ Len(Received(seg).data) = Len(seg.data)
<1>1. seg.data \in Seq(Byte)
  BY DEF Seg
<1>2. Copied(seg.data) \in Seq(Byte) /\ Len(Copied(seg.data)) = Len(seg.data)
  BY <1>1, CopyOf!CopiedType DEF Copied, CopyOf!Copied, Byte, CopyOf!Byte
<1> QED
  BY <1>2 DEF Received, Seg

LEMMA ToServerIs ==
  ASSUME Typed, NEW seg \in Seg
  PROVE  /\ ToServer(seg) \in Seq([from : 0 .. cur, seg : Seg])
         /\ Len(ToServer(seg)) = Len(toServer) + 1
         /\ \A i \in 1 .. Len(toServer) : ToServer(seg)[i] = toServer[i]
         /\ ToServer(seg)[Len(toServer) + 1] = [from |-> cur, seg |-> Received(seg)]
<1>1. [from |-> cur, seg |-> Received(seg)] \in [from : 0 .. cur, seg : Seg]
  BY ReceivedType DEF Typed
<1>2. toServer \in Seq([from : 0 .. cur, seg : Seg])
  BY DEF Typed
<1> QED
  BY <1>1, <1>2, AppendProperties DEF ToServer

LEMMA ToClientType ==
  ASSUME Typed, NEW seg \in Seg
  PROVE  ToClient(seg) \in Seq(Seg)
BY ReceivedType, AppendProperties DEF Typed, ToClient

LEMMA UnreadIs ==
  ASSUME Typed, NEW h \in Host, lastRead[h] <= lastRecved(h)
  PROVE  /\ Unread(h) \in Seq(Byte) /\ Len(Unread(h)) = lastRecved(h) - lastRead[h]
         /\ \A i \in 1 .. Len(Unread(h)) : Unread(h)[i] = recvBuff[h][lastRead[h] + i]
<1> DEFINE m == lastRead[h]
           n == lastRecved(h)
<1>1. m \in Nat /\ n \in Nat /\ m <= n /\ recvBuff[h] \in Seq(Byte) /\ Len(recvBuff[h]) = n
  BY Lengths DEF lastRecved
<1>2. Unread(h) = SubSeq(recvBuff[h], m + 1, n)
  BY DEF Unread
<1> HIDE DEF m, n
<1>3. \A i \in m + 1 .. n : recvBuff[h][i] \in Byte
  BY <1>1
<1>4. m + 1 \in Int /\ n \in Int /\ n - (m + 1) + 1 = n - m
  BY <1>1
<1>5. /\ Unread(h) \in Seq(Byte)
      /\ Len(Unread(h)) = IF m + 1 <= n THEN n - (m + 1) + 1 ELSE 0
      /\ \A i \in 1 .. n - (m + 1) + 1 : Unread(h)[i] = recvBuff[h][(m + 1) + i - 1]
  BY <1>2, <1>3, <1>4, SubSeqProperties
<1>6. Len(Unread(h)) = n - m
  BY <1>1, <1>4, <1>5
<1>7. \A i \in 1 .. n - m : Unread(h)[i] = recvBuff[h][m + i]
  <2>1. \A i \in 1 .. n - m : (m + 1) + i - 1 = m + i
    BY <1>1
  <2> QED
    BY <1>4, <1>5, <2>1
<1> QED
  BY <1>5, <1>6, <1>7 DEF m, n

\* A line ends within what is unread, or is not there yet.
LEMMA LineIs ==
  ASSUME Typed, NEW h \in Host, lastRead[h] <= lastRecved(h)
  PROVE  /\ LineEnds(h) \in Nat /\ LineEnds(h) > lastRead[h]
         /\ Find(LF, Unread(h), 1) \in 1 .. Len(Unread(h)) + 1
         /\ HasLine(h) <=> Find(LF, Unread(h), 1) <= Len(Unread(h))
         /\ HasLine(h) => /\ Line(h) \in Seq(Byte)
                          /\ Len(Line(h)) = Find(LF, Unread(h), 1)
                          /\ \A i \in 1 .. Len(Line(h)) : Line(h)[i] = Unread(h)[i]
<1> DEFINE f == Find(LF, Unread(h), 1)
           m == lastRead[h]
           n == lastRecved(h)
<1>1. m \in Nat /\ n \in Nat /\ m <= n /\ recvBuff[h] \in Seq(Byte) /\ Len(recvBuff[h]) = n
  BY Lengths DEF lastRecved
<1>2. Len(Unread(h)) = n - m /\ \A i \in 1 .. n - m : Unread(h)[i] = recvBuff[h][m + i]
  BY UnreadIs
<1>3. f \in 1 .. Len(Unread(h)) + 1
  <2>1. Len(Unread(h)) \in Nat /\ 1 \in 1 .. Len(Unread(h)) + 1
    BY <1>1, <1>2
  <2> QED
    BY <2>1, FindIs
<1>4. LineEnds(h) = m + f
  BY DEF LineEnds
<1> HIDE DEF f, m, n
<1>5. /\ LineEnds(h) \in Nat /\ LineEnds(h) > m
      /\ HasLine(h) <=> f <= Len(Unread(h))
  BY <1>1, <1>2, <1>3, <1>4 DEF HasLine, n
<1>6. ASSUME HasLine(h) PROVE /\ Line(h) \in Seq(Byte) /\ Len(Line(h)) = f
                              /\ \A i \in 1 .. Len(Line(h)) : Line(h)[i] = Unread(h)[i]
  <2>1. m + f <= n
    BY <1>1, <1>2, <1>3, <1>5, <1>6
  <2>2. \A i \in m + 1 .. m + f : recvBuff[h][i] \in Byte
    BY <1>1, <1>3, <2>1
  <2>3. Line(h) = SubSeq(recvBuff[h], m + 1, m + f)
    BY <1>4 DEF Line, m
  <2>4. m + 1 \in Int /\ m + f \in Int /\ (m + f) - (m + 1) + 1 = f /\ m + 1 <= m + f
    BY <1>1, <1>2, <1>3
  <2>5. /\ Line(h) \in Seq(Byte)
        /\ Len(Line(h)) = IF m + 1 <= m + f THEN (m + f) - (m + 1) + 1 ELSE 0
        /\ \A i \in 1 .. (m + f) - (m + 1) + 1 : Line(h)[i] = recvBuff[h][(m + 1) + i - 1]
    BY <2>2, <2>3, <2>4, SubSeqProperties
  <2> QED
    BY <1>1, <1>2, <1>3, <2>1, <2>4, <2>5
<1> QED
  BY <1>3, <1>5, <1>6 DEF f, m, n

\* What is appended comes after what was there.
LEMMA Appended ==
  ASSUME NEW s \in Seq(Byte), NEW t \in Seq(Byte)
  PROVE  /\ s \o t \in Seq(Byte) /\ Len(s \o t) \in Nat
         /\ Len(s) \in Nat /\ Len(t) \in Nat
         /\ Len(s \o t) = Len(s) + Len(t) /\ Len(s) <= Len(s \o t)
         /\ \A i \in 1 .. Len(s) : (s \o t)[i] = s[i]
         /\ \A i \in 1 .. Len(t) : (s \o t)[Len(s) + i] = t[i]
<1>1. Len(s) \in Nat /\ Len(t) \in Nat
  BY LenProperties
<1> DEFINE u == s \o t
           m == Len(s)
           n == Len(t)
<1>2. u \in Seq(Byte)
  BY ConcatProperties
<1>3. Len(u) = m + n
  BY ConcatProperties
<1>4. \A i \in 1 .. m + n : u[i] = IF i <= m THEN s[i] ELSE t[i - m]
  BY ConcatProperties
<1> HIDE DEF u, m, n
<1>5. m \in Nat /\ n \in Nat
  BY <1>1 DEF m, n
<1>6. \A i \in 1 .. m : u[i] = s[i]
  BY <1>4, <1>5
<1>7. \A i \in 1 .. n : u[m + i] = t[i]
  <2> TAKE i \in 1 .. n
  <2>1. m + i \in 1 .. m + n /\ ~ (m + i <= m) /\ (m + i) - m = i
    BY <1>5
  <2> QED
    BY <1>4, <2>1
<1>8. Len(u) \in Nat /\ m <= Len(u)
  BY <1>3, <1>5
<1> QED
  BY <1>2, <1>3, <1>5, <1>6, <1>7, <1>8 DEF u, m, n

LEMMA ReceiveTypes ==
  ASSUME TypeInv, Running, NEW h \in Host, NEW seg \in Seg, NEW fresh \in BOOLEAN,
         Receive(h, seg, fresh)
  PROVE  /\ lastAcked' \in [Host -> Nat] /\ lastSent' \in [Host -> Nat]
         /\ recvBuff' \in [Host -> Seq(Byte)]
         /\ \A k \in Host : Len(recvBuff[k]) <= Len(recvBuff'[k])
         /\ Answer(h, seg) \in Seg
<1>1. Typed /\ lastSent[h] <= lastWrite(h)
  BY SentOrder DEF TypeInv
<1>2. NextLen(h) \in Nat
  BY <1>1, NextLenIs
<1>3. seg.data \in Seq(Byte) /\ seg.ackNum \in Nat /\ Len(seg.data) \in Nat
  BY DEF Seg
<1>4. lastAcked' \in [Host -> Nat]
  BY <1>1, <1>3 DEF Receive, Typed
<1>5. lastSent' \in [Host -> Nat]
  <2>1. lastSent \in [Host -> Nat] /\ lastSent[h] + NextLen(h) \in Nat
    <3>1. lastSent \in [Host -> Nat]
      BY <1>1, Zenon DEF Typed
    <3> QED
      BY <1>2, <3>1
  <2>2. lastSent' = lastSent \/ lastSent' = [lastSent EXCEPT ![h] = lastSent[h] + NextLen(h)]
    BY DEF Receive
  <2> QED
    BY <2>1, <2>2
<1>6. recvBuff[h] \o seg.data \in Seq(Byte) /\ Len(recvBuff[h]) <= Len(recvBuff[h] \o seg.data)
  <2>1. recvBuff[h] \in Seq(Byte)
    BY <1>1, Lengths
  <2> QED
    BY <1>3, <2>1, Appended
<1>7. recvBuff' = recvBuff \/ recvBuff' = [recvBuff EXCEPT ![h] = recvBuff[h] \o seg.data]
  BY DEF Receive
<1>8. recvBuff \in [Host -> Seq(Byte)] /\ \A k \in Host : Len(recvBuff[k]) \in Nat
  <2>1. recvBuff \in [Host -> Seq(Byte)]
    BY <1>1, Zenon DEF Typed
  <2> QED
    BY <2>1
<1>9. recvBuff' \in [Host -> Seq(Byte)] /\ \A k \in Host : Len(recvBuff[k]) <= Len(recvBuff'[k])
  <2>1. CASE recvBuff' = recvBuff
    BY <1>8, <2>1
  <2>2. CASE recvBuff' = [recvBuff EXCEPT ![h] = recvBuff[h] \o seg.data]
    <3> DEFINE all == recvBuff[h] \o seg.data
    <3>1. all \in Seq(Byte) /\ Len(recvBuff[h]) <= Len(all)
      BY <1>6
    <3> HIDE DEF all
    <3>2. recvBuff' = [recvBuff EXCEPT ![h] = all]
      BY <2>2 DEF all
    <3> QED
      BY <1>8, <3>1, <3>2
  <2> QED
    BY <1>7, <2>1, <2>2
<1>10. Answer(h, seg) \in Seg
  <2>1. lastRecved(h) + Len(seg.data) \in Nat
    BY <1>1, <1>3, Lengths
  <2>2. NewData(h, lastRecved(h) + Len(seg.data), 1) \in Seg
    BY <1>1, <2>1, NewDataIs
  <2>3. << >> \in Seq(Byte)
    BY EmptySeq
  <2> QED
    BY <2>1, <2>2, <2>3 DEF Answer, Seg
<1> QED
  BY <1>4, <1>5, <1>9, <1>10

-----------------------------------------------------------------------------
(* The lines and the files                                                 *)

\* Request and Response of a file, character by character.
Req(f) == << Get, SP, Slash, f, SP, 72, 84, 49, CR, LF, CR, LF >>
Resp(f) == [i \in 1 .. 11 + FileLen |->
              IF i <= 11 THEN Response(FileLen)[i] ELSE f + i - 11]

LEMMA CodesAreBytes ==
  /\ Get \in Byte /\ SP \in Byte /\ Slash \in Byte /\ CR \in Byte /\ LF \in Byte
  /\ Status \in Byte /\ ContentLength \in Byte /\ Colon \in Byte
  /\ \A n \in 0 .. 9 : Zero + n \in Byte
BY DEF Get, SP, Slash, CR, LF, Status, ContentLength, Colon, Zero, Byte

LEMMA RequestIs == ASSUME NEW f \in Byte PROVE Request(<< f >>) = Req(f)
<1> DEFINE a == << Get, SP, Slash >>
           b == << f >>
           c == << SP >>
           d == << CR, LF, CR, LF >>
<1>1. a \in Seq(Byte) /\ b \in Seq(Byte) /\ c \in Seq(Byte) /\ d \in Seq(Byte) /\ Version \in Seq(Byte)
  BY CodesAreBytes DEF Version, Byte
<1>2. /\ Len(a) = 3 /\ a[1] = Get /\ a[2] = SP /\ a[3] = Slash
      /\ Len(b) = 1 /\ b[1] = f /\ Len(c) = 1 /\ c[1] = SP
      /\ Len(Version) = 3 /\ Version[1] = 72 /\ Version[2] = 84 /\ Version[3] = 49
      /\ Len(d) = 4 /\ d[1] = CR /\ d[2] = LF /\ d[3] = CR /\ d[4] = LF
  BY DEF Version
<1> HIDE DEF a, b, c, d
<1> DEFINE r1 == a \o b
           r2 == r1 \o c
           r3 == r2 \o Version
           r4 == r3 \o d
<1>3. /\ r1 \in Seq(Byte) /\ Len(r1) = 4
      /\ r1[1] = Get /\ r1[2] = SP /\ r1[3] = Slash /\ r1[4] = f
  <2>1. /\ r1 \in Seq(Byte) /\ Len(r1) = Len(a) + Len(b)
        /\ \A i \in 1 .. Len(a) : r1[i] = a[i]
        /\ \A i \in 1 .. Len(b) : r1[Len(a) + i] = b[i]
    BY <1>1, Appended
  <2> HIDE DEF r1
  <2> QED
    BY <1>2, <2>1
<1> HIDE DEF r1
<1>4. /\ r2 \in Seq(Byte) /\ Len(r2) = 5
      /\ \A i \in 1 .. 4 : r2[i] = r1[i]
      /\ r2[5] = SP
  <2>1. /\ r2 \in Seq(Byte) /\ Len(r2) = Len(r1) + Len(c)
        /\ \A i \in 1 .. Len(r1) : r2[i] = r1[i]
        /\ \A i \in 1 .. Len(c) : r2[Len(r1) + i] = c[i]
    BY <1>1, <1>3, Appended
  <2> HIDE DEF r2
  <2> QED
    BY <1>2, <1>3, <2>1
<1> HIDE DEF r2
<1>5. /\ r3 \in Seq(Byte) /\ Len(r3) = 8
      /\ \A i \in 1 .. 5 : r3[i] = r2[i]
      /\ r3[6] = 72 /\ r3[7] = 84 /\ r3[8] = 49
  <2>1. /\ r3 \in Seq(Byte) /\ Len(r3) = Len(r2) + Len(Version)
        /\ \A i \in 1 .. Len(r2) : r3[i] = r2[i]
        /\ \A i \in 1 .. Len(Version) : r3[Len(r2) + i] = Version[i]
    BY <1>1, <1>4, Appended
  <2> HIDE DEF r3
  <2> QED
    BY <1>2, <1>4, <2>1
<1> HIDE DEF r3
<1>6. /\ r4 \in Seq(Byte) /\ Len(r4) = 12
      /\ \A i \in 1 .. 8 : r4[i] = r3[i]
      /\ r4[9] = CR /\ r4[10] = LF /\ r4[11] = CR /\ r4[12] = LF
  <2>1. /\ r4 \in Seq(Byte) /\ Len(r4) = Len(r3) + Len(d)
        /\ \A i \in 1 .. Len(r3) : r4[i] = r3[i]
        /\ \A i \in 1 .. Len(d) : r4[Len(r3) + i] = d[i]
    <3>1. r3 \in Seq(Byte) /\ d \in Seq(Byte)
      BY <1>1, <1>5
    <3> QED
      BY <3>1, Appended, Zenon
  <2> HIDE DEF r4
  <2> QED
    BY <1>2, <1>5, <2>1
<1>7. Request(<< f >>) = r4
  BY DEF Request, r1, r2, r3, a, b, c, d
<1> HIDE DEF r4
<1>8. Req(f) \in Seq(Byte) /\ Len(Req(f)) = 12
  BY CodesAreBytes DEF Req, Byte
<1>9. \A i \in 1 .. 12 : r4[i] = Req(f)[i]
  <2>1. /\ r4[1] = Get /\ r4[2] = SP /\ r4[3] = Slash /\ r4[4] = f /\ r4[5] = SP
        /\ r4[6] = 72 /\ r4[7] = 84 /\ r4[8] = 49
        /\ r4[9] = CR /\ r4[10] = LF /\ r4[11] = CR /\ r4[12] = LF
    BY <1>3, <1>4, <1>5, <1>6
  <2>2. /\ r4[1] = Req(f)[1] /\ r4[2] = Req(f)[2] /\ r4[3] = Req(f)[3] /\ r4[4] = Req(f)[4]
        /\ r4[5] = Req(f)[5] /\ r4[6] = Req(f)[6] /\ r4[7] = Req(f)[7] /\ r4[8] = Req(f)[8]
        /\ r4[9] = Req(f)[9] /\ r4[10] = Req(f)[10] /\ r4[11] = Req(f)[11]
        /\ r4[12] = Req(f)[12]
    BY <2>1 DEF Req
  <2>3. \A i \in 1 .. 12 : \/ i = 1 \/ i = 2 \/ i = 3 \/ i = 4 \/ i = 5 \/ i = 6
                           \/ i = 7 \/ i = 8 \/ i = 9 \/ i = 10 \/ i = 11 \/ i = 12
    OBVIOUS
  <2> QED
    BY <2>2, <2>3
<1> QED
  BY <1>6, <1>7, <1>8, <1>9, SeqEqual

LEMMA ReqIs ==
  ASSUME NEW f \in Names
  PROVE  /\ Req(f) \in Seq(Byte) /\ Len(Req(f)) = 12
         /\ \A i \in 1 .. 12 : Req(f)[i] \in Byte /\ Req(f)[i] # NUL
         /\ f \in Byte /\ f # SP /\ f # LF /\ f # NUL
         /\ Req(f)[1] = Get /\ Req(f)[2] = SP /\ Req(f)[3] = Slash /\ Req(f)[4] = f
         /\ Req(f)[5] = SP /\ Req(f)[6] = 72 /\ Req(f)[7] = 84 /\ Req(f)[8] = 49
         /\ Req(f)[9] = CR /\ Req(f)[10] = LF /\ Req(f)[11] = CR /\ Req(f)[12] = LF
<1>1. f \in Byte /\ f # SP /\ f # LF /\ f # NUL
  BY SessionParams
<1>2. Req(f) \in Seq(Byte) /\ Len(Req(f)) = 12
  BY <1>1, CodesAreBytes DEF Req, Byte
<1>3. /\ Req(f)[1] = Get /\ Req(f)[2] = SP /\ Req(f)[3] = Slash /\ Req(f)[4] = f
      /\ Req(f)[5] = SP /\ Req(f)[6] = 72 /\ Req(f)[7] = 84 /\ Req(f)[8] = 49
      /\ Req(f)[9] = CR /\ Req(f)[10] = LF /\ Req(f)[11] = CR /\ Req(f)[12] = LF
  BY DEF Req
<1>4. \A i \in 1 .. 12 : \/ i = 1 \/ i = 2 \/ i = 3 \/ i = 4 \/ i = 5 \/ i = 6
                         \/ i = 7 \/ i = 8 \/ i = 9 \/ i = 10 \/ i = 11 \/ i = 12
  OBVIOUS
<1>5. \A i \in 1 .. 12 : Req(f)[i] # NUL
  <2>1. Get # NUL /\ SP # NUL /\ Slash # NUL /\ CR # NUL /\ LF # NUL /\ 72 # NUL /\ 84 # NUL /\ 49 # NUL
    BY DEF Get, SP, Slash, CR, LF, NUL
  <2> DEFINE r == Req(f)
  <2>2. /\ r[1] # NUL /\ r[2] # NUL /\ r[3] # NUL /\ r[4] # NUL /\ r[5] # NUL /\ r[6] # NUL
        /\ r[7] # NUL /\ r[8] # NUL /\ r[9] # NUL /\ r[10] # NUL /\ r[11] # NUL /\ r[12] # NUL
    BY <1>1, <1>3, <2>1
  <2> HIDE DEF r
  <2>3. \A i \in 1 .. 12 : r[i] # NUL
    BY <1>4, <2>2, Zenon
  <2> QED
    BY <2>3, Zenon DEF r
<1>6. \A i \in 1 .. 12 : Req(f)[i] \in Byte
  BY <1>2, ElementOfSeq
<1> QED
  BY <1>1, <1>2, <1>3, <1>5, <1>6

LEMMA ResponseIs ==
  ASSUME NEW n \in 0 .. 9
  PROVE  /\ Response(n) \in Seq(Byte) /\ Len(Response(n)) = 11
         /\ Response(n)[1] = Status /\ Response(n)[2] = CR /\ Response(n)[3] = LF
         /\ Response(n)[4] = ContentLength /\ Response(n)[5] = Colon /\ Response(n)[6] = SP
         /\ Response(n)[7] = Zero + n /\ Response(n)[8] = CR /\ Response(n)[9] = LF
         /\ Response(n)[10] = CR /\ Response(n)[11] = LF
<1>1. Zero + n \in Byte
  BY CodesAreBytes
<1> DEFINE z == Zero + n
<1> HIDE DEF z
<1>2. Response(n) = << Status, CR, LF, ContentLength, Colon, SP, z, CR, LF, CR, LF >>
  BY DEF Response, z
<1> QED
  BY <1>1, <1>2, CodesAreBytes DEF z

LEMMA ContentIs ==
  ASSUME NEW f \in Existing
  PROVE  /\ Content[f] \in Seq(Byte) /\ Len(Content[f]) = FileLen
         /\ \A i \in 1 .. FileLen : Content[f][i] = f + i
<1>1. f \in Names /\ f \in Byte /\ f + FileLen \in Byte /\ FileLen \in Nat
  BY SessionParams
<1>2. Content[f] = [i \in 1 .. FileLen |-> f + i]
  BY <1>1 DEF Content
<1>3. \A i \in 1 .. FileLen : f + i \in Byte
  BY <1>1 DEF Byte
<1>4. [i \in 1 .. FileLen |-> f + i] \in [1 .. FileLen -> Byte]
  BY <1>3
<1> QED
  BY <1>1, <1>2, <1>4

LEMMA RespIs ==
  ASSUME NEW f \in Existing
  PROVE  /\ \A i \in 1 .. 11 + FileLen : Resp(f)[i] \in Byte /\ Resp(f)[i] # NUL
         /\ \A i \in 1 .. 11 : Resp(f)[i] = Response(FileLen)[i]
         /\ \A i \in 1 .. FileLen : Resp(f)[11 + i] = Content[f][i]
<1>1. f \in Names /\ f \in Byte /\ f + FileLen \in Byte /\ FileLen \in 1 .. 9
  BY SessionParams
<1>2. \A i \in 1 .. 11 : Resp(f)[i] = Response(FileLen)[i]
  BY <1>1 DEF Resp
<1>3. \A i \in 1 .. FileLen : Resp(f)[11 + i] = f + i
  BY <1>1 DEF Resp, Byte
<1>4. \A i \in 1 .. FileLen : Resp(f)[11 + i] = Content[f][i]
  BY <1>3, ContentIs
<1>5. \A i \in 1 .. 11 : Response(FileLen)[i] \in Byte /\ Response(FileLen)[i] # NUL
  <2> DEFINE r == Response(FileLen)
  <2>1. /\ r \in Seq(Byte) /\ Len(r) = 11
        /\ r[1] = Status /\ r[2] = CR /\ r[3] = LF /\ r[4] = ContentLength /\ r[5] = Colon
        /\ r[6] = SP /\ r[7] = Zero + FileLen /\ r[8] = CR /\ r[9] = LF /\ r[10] = CR
        /\ r[11] = LF
    <3>1. FileLen \in 0 .. 9
      BY <1>1
    <3> QED
      BY <3>1, ResponseIs
  <2> HIDE DEF r
  <2>2. \A i \in 1 .. 11 : \/ i = 1 \/ i = 2 \/ i = 3 \/ i = 4 \/ i = 5 \/ i = 6
                           \/ i = 7 \/ i = 8 \/ i = 9 \/ i = 10 \/ i = 11
    OBVIOUS
  <2>3. \A i \in 1 .. 11 : r[i] # NUL
    <3>1. /\ r[1] # NUL /\ r[2] # NUL /\ r[3] # NUL /\ r[4] # NUL /\ r[5] # NUL /\ r[6] # NUL
          /\ r[7] # NUL /\ r[8] # NUL /\ r[9] # NUL /\ r[10] # NUL /\ r[11] # NUL
      BY <1>1, <2>1 DEF Status, CR, LF, ContentLength, Colon, SP, Zero, NUL
    <3> QED
      BY <2>2, <3>1, Zenon
  <2>4. \A i \in 1 .. 11 : r[i] \in Byte
    BY <2>1, ElementOfSeq
  <2> QED
    BY <2>3, <2>4 DEF r
<1>6. \A i \in 1 .. FileLen : Resp(f)[11 + i] \in Byte /\ Resp(f)[11 + i] # NUL
  BY <1>1, <1>3 DEF Byte, NUL
<1>7. \A i \in 1 .. 11 + FileLen : i \in 1 .. 11 \/ \E j \in 1 .. FileLen : i = 11 + j
  <2> TAKE i \in 1 .. 11 + FileLen
  <2>1. i > 11 => i - 11 \in 1 .. FileLen /\ i = 11 + (i - 11)
    BY <1>1
  <2> QED
    BY <2>1
<1> QED
  BY <1>2, <1>4, <1>5, <1>6, <1>7

LEMMA PrintedIs ==
  ASSUME NEW s \in Seq(Byte)
  PROVE  /\ Printed(s) \in Seq(Byte)
         /\ (\A i \in 1 .. Len(s) : s[i] # NUL) => Printed(s) = s
<1> DEFINE k == Find(NUL, s, 1)
<1>1. Len(s) \in Nat /\ 1 \in 1 .. Len(s) + 1
  OBVIOUS
<1>2. k \in 1 .. Len(s) + 1 /\ (k <= Len(s) => s[k] = NUL)
  BY <1>1, FindIs
<1>3. Printed(s) = SubSeq(s, 1, k - 1)
  BY DEF Printed, WordAt
<1> HIDE DEF k
<1>4. k - 1 \in Int /\ \A i \in 1 .. k - 1 : s[i] \in Byte
  BY <1>1, <1>2
<1>5. Printed(s) \in Seq(Byte)
  BY <1>3, <1>4, SubSeqProperties
<1>6. ASSUME \A i \in 1 .. Len(s) : s[i] # NUL PROVE Printed(s) = s
  <2>1. k - 1 = Len(s)
    BY <1>1, <1>2, <1>6
  <2> QED
    BY <1>3, <2>1, SubSeqFull
<1> QED
  BY <1>5, <1>6

-----------------------------------------------------------------------------
(* Every step keeps the types                                              *)

LEMMA ReadOrder == ASSUME TypeInv, NEW h \in Host PROVE lastRead[h] <= lastRecved(h)
BY DEF TypeInv, Ordered

\* What Serve leaves alone, and what it writes.
LEMMA ServeIs ==
  ASSUME Typed, NEW line, Serve(line)
  PROVE  \/ /\ spc' = "gone" /\ UNCHANGED <<file, pos, sendBuff>>
            /\ ~ (Parsed(line).ok /\ Exists(Parsed(line).path))
         \/ /\ spc' = "body" /\ pos' = 0
            /\ \E f \in Existing :
                 /\ Parsed(line).ok /\ Parsed(line).path = << Dot, Slash, Slash, f >>
                 /\ file' = Content[f]
            /\ sendBuff' = [sendBuff EXCEPT !["server"] = @ \o Response(FileLen)]
<1>1. CASE ~ (Parsed(line).ok /\ Exists(Parsed(line).path))
  BY <1>1 DEF Serve
<1>2. CASE Parsed(line).ok /\ Exists(Parsed(line).path)
  <2>1. PICK f \in Existing : Parsed(line).path = << Dot, Slash, Slash, f >>
    BY <1>2 DEF Exists
  <2>2. /\ file' = Content[Last(Parsed(line).path)] /\ pos' = 0 /\ spc' = "body"
        /\ sendBuff' = [sendBuff EXCEPT !["server"] = @ \o Response(Len(file'))]
    BY <1>2 DEF Serve, Write
  <2>3. Last(<< Dot, Slash, Slash, f >>) = f
    BY DEF Last
  <2>4. file' = Content[f] /\ Len(Content[f]) = FileLen
    BY <2>1, <2>2, <2>3, ContentIs
  <2> QED
    BY <1>2, <2>1, <2>2, <2>4
<1> QED
  BY <1>1, <1>2

LEMMA ServeTypes ==
  ASSUME Typed, NEW line, Serve(line)
  PROVE  /\ sendBuff' \in [Host -> Seq(Byte)] /\ sendBuff'["client"] = sendBuff["client"]
         /\ Len(sendBuff["server"]) <= Len(sendBuff'["server"])
         /\ file' \in Seq(Byte) /\ Len(file') <= FileLen /\ pos' \in 0 .. FileLen
         /\ spc' \in {"gone", "body"}
<1>1. /\ sendBuff \in [Host -> Seq(Byte)] /\ sendBuff["server"] \in Seq(Byte)
      /\ FileLen \in 0 .. 9 /\ Len(sendBuff["server"]) \in Nat
  <2>1. sendBuff \in [Host -> Seq(Byte)]
    BY Zenon DEF Typed
  <2>2. sendBuff["server"] \in Seq(Byte)
    BY <2>1 DEF Host
  <2>3. FileLen \in 0 .. 9
    BY SessionParams
  <2> QED
    BY <2>1, <2>2, <2>3
<1>2. CASE UNCHANGED <<file, pos, sendBuff>> /\ spc' = "gone"
  BY <1>1, <1>2 DEF Typed
<1>3. ASSUME pos' = 0, spc' = "body", NEW f \in Existing, file' = Content[f],
             sendBuff' = [sendBuff EXCEPT !["server"] = @ \o Response(FileLen)]
      PROVE  /\ sendBuff' \in [Host -> Seq(Byte)] /\ sendBuff'["client"] = sendBuff["client"]
             /\ Len(sendBuff["server"]) <= Len(sendBuff'["server"])
             /\ file' \in Seq(Byte) /\ Len(file') <= FileLen /\ pos' \in 0 .. FileLen
             /\ spc' \in {"gone", "body"}
  <2>1. Response(FileLen) \in Seq(Byte)
    BY <1>1, ResponseIs
  <2> DEFINE all == sendBuff["server"] \o Response(FileLen)
  <2>2. all \in Seq(Byte) /\ Len(sendBuff["server"]) <= Len(all)
    BY <1>1, <2>1, Appended
  <2>3. sendBuff' = [sendBuff EXCEPT !["server"] = all]
    BY <1>3
  <2> HIDE DEF all
  <2>4. /\ sendBuff' \in [Host -> Seq(Byte)] /\ sendBuff'["client"] = sendBuff["client"]
        /\ sendBuff'["server"] = all
    BY <1>1, <2>2, <2>3 DEF Host
  <2>5. file' \in Seq(Byte) /\ Len(file') <= FileLen
    BY <1>1, <1>3, ContentIs
  <2> QED
    BY <1>1, <1>3, <2>2, <2>4, <2>5
<1> QED
  BY <1>2, <1>3, ServeIs

LEMMA SendTypes ==
  ASSUME TypeInv, NEW h \in Host, Send(h)
  PROVE  /\ lastSent' \in [Host -> Nat]
         /\ toServer' \in Seq([from : 0 .. cur, seg : Seg]) /\ toClient' \in Seq(Seg)
         /\ torn' \in BOOLEAN
<1>1. Typed /\ Running /\ lastSent[h] <= lastWrite(h)
  BY SentOrder DEF TypeInv, Send
<1>2. NewData(h, 0, 0) \in Seg
  BY <1>1, NewDataIs
<1>3. ToServer(NewData(h, 0, 0)) \in Seq([from : 0 .. cur, seg : Seg])
  BY <1>1, <1>2, ToServerIs
<1>4. ToClient(NewData(h, 0, 0)) \in Seq(Seg)
  BY <1>1, <1>2, ToClientType
<1>5. lastSent \in [Host -> Nat] /\ lastSent[h] + NextLen(h) \in Nat
  <2>1. NextLen(h) \in Nat
    BY <1>1, NextLenIs
  <2> QED
    BY <1>1, <2>1 DEF Typed
<1>6. lastSent' = [lastSent EXCEPT ![h] = lastSent[h] + NextLen(h)]
  BY DEF Send
<1>7. lastSent' \in [Host -> Nat]
  BY <1>5, <1>6
<1>8. toServer' \in Seq([from : 0 .. cur, seg : Seg]) /\ toClient' \in Seq(Seg)
  BY <1>1, <1>3, <1>4 DEF Send, Typed
<1>9. torn' \in BOOLEAN
  BY DEF Send
<1> QED
  BY <1>7, <1>8, <1>9

LEMMA ClientWriteTypes ==
  ASSUME Typed, ClientWrite
  PROVE  /\ sendBuff' \in [Host -> Seq(Byte)] /\ out' \in Seq(Byte)
         /\ sendBuff'["server"] = sendBuff["server"]
         /\ Len(sendBuff["client"]) <= Len(sendBuff'["client"])
<1>1. PICK n \in 1 .. Len(out) :
        /\ sendBuff' = [sendBuff EXCEPT !["client"] = @ \o SubSeq(out, 1, n)]
        /\ out' = SubSeq(out, n + 1, Len(out))
  BY DEF ClientWrite
<1>2. /\ out \in Seq(Byte) /\ Len(out) \in Nat /\ sendBuff \in [Host -> Seq(Byte)]
      /\ sendBuff["client"] \in Seq(Byte)
  BY DEF Typed, Host
<1>3. /\ n \in Int /\ n + 1 \in Int /\ \A i \in 1 .. n : out[i] \in Byte
      /\ \A i \in n + 1 .. Len(out) : out[i] \in Byte
  BY <1>2
<1>4. out' \in Seq(Byte)
  BY <1>1, <1>2, <1>3, SubSeqProperties
<1>5. SubSeq(out, 1, n) \in Seq(Byte)
  BY <1>3, SubSeqProperties
<1> DEFINE all == sendBuff["client"] \o SubSeq(out, 1, n)
<1>6. all \in Seq(Byte) /\ Len(sendBuff["client"]) <= Len(all)
  BY <1>2, <1>5, Appended
<1>7. sendBuff' = [sendBuff EXCEPT !["client"] = all]
  BY <1>1
<1> HIDE DEF all
<1> QED
  BY <1>2, <1>4, <1>6, <1>7 DEF Host

LEMMA ServerBodyTypes ==
  ASSUME Typed, ServerBody
  PROVE  /\ sendBuff' \in [Host -> Seq(Byte)] /\ sendBuff'["client"] = sendBuff["client"]
         /\ Len(sendBuff["server"]) <= Len(sendBuff'["server"])
         /\ pos' \in 0 .. FileLen /\ spc' \in {"body", "blank"}
<1> DEFINE end == Min({pos + BufLen, Len(file)})
<1>1. /\ file \in Seq(Byte) /\ Len(file) \in Nat /\ Len(file) <= FileLen /\ pos \in 0 .. FileLen
      /\ BufLen \in Nat /\ BufLen > 0 /\ FileLen \in Nat
      /\ sendBuff \in [Host -> Seq(Byte)] /\ sendBuff["server"] \in Seq(Byte)
      /\ Len(sendBuff["server"]) \in Nat
  BY SessionParams, SMTT(30) DEF Typed, Host
<1>2. end = IF pos + BufLen <= Len(file) THEN pos + BufLen ELSE Len(file)
  BY <1>1, MinOfTwo
<1>3. CASE pos < Len(file)
  <2>1. /\ sendBuff' = [sendBuff EXCEPT !["server"] = @ \o SubSeq(file, pos + 1, end)]
        /\ pos' = end /\ spc' = spc /\ spc = "body"
    BY <1>3 DEF ServerBody, Write
  <2> HIDE DEF end
  <2>2. end \in pos + 1 .. Len(file) /\ pos + 1 \in Int /\ end \in Int
    BY <1>1, <1>2, <1>3
  <2>3. \A i \in pos + 1 .. end : file[i] \in Byte
    BY <1>1, <2>2
  <2> DEFINE part == SubSeq(file, pos + 1, end)
             all == sendBuff["server"] \o part
  <2>4. part \in Seq(Byte)
    BY <2>2, <2>3, SubSeqProperties
  <2> HIDE DEF part
  <2>5. all \in Seq(Byte) /\ Len(sendBuff["server"]) <= Len(all)
    BY <1>1, <2>4, Appended
  <2>6. sendBuff' = [sendBuff EXCEPT !["server"] = all]
    BY <2>1 DEF part
  <2> HIDE DEF all
  <2>7. /\ sendBuff' \in [Host -> Seq(Byte)] /\ sendBuff'["client"] = sendBuff["client"]
        /\ sendBuff'["server"] = all
    BY <1>1, <2>5, <2>6 DEF Host
  <2> QED
    BY <1>1, <2>1, <2>2, <2>5, <2>7
<1>4. CASE ~ (pos < Len(file))
  BY <1>1, <1>4 DEF ServerBody
<1> QED
  BY <1>3, <1>4

\* A part of a sequence, from after position m to position n.
LEMMA SliceIs ==
  ASSUME NEW s \in Seq(Byte), NEW m \in Nat, NEW n \in m .. Len(s)
  PROVE  /\ SubSeq(s, m + 1, n) \in Seq(Byte) /\ Len(SubSeq(s, m + 1, n)) = n - m
         /\ \A i \in 1 .. n - m : SubSeq(s, m + 1, n)[i] = s[m + i]
<1>1. /\ m + 1 \in Int /\ n \in Int /\ n - (m + 1) + 1 = n - m
      /\ \A i \in m + 1 .. n : s[i] \in Byte
  OBVIOUS
<1>2. /\ SubSeq(s, m + 1, n) \in Seq(Byte)
      /\ Len(SubSeq(s, m + 1, n)) = IF m + 1 <= n THEN n - (m + 1) + 1 ELSE 0
      /\ \A i \in 1 .. n - (m + 1) + 1 : SubSeq(s, m + 1, n)[i] = s[(m + 1) + i - 1]
  BY <1>1, SubSeqProperties
<1>3. Len(SubSeq(s, m + 1, n)) = n - m
  BY <1>1, <1>2
<1>4. \A i \in 1 .. n - m : SubSeq(s, m + 1, n)[i] = s[m + i]
  <2>1. \A i \in 1 .. n - m : (m + 1) + i - 1 = m + i
    OBVIOUS
  <2> QED
    BY <1>1, <1>2, <2>1
<1> QED
  BY <1>2, <1>3, <1>4

LEMMA PrefixIs ==
  ASSUME NEW s \in Seq(Byte), NEW n \in 0 .. Len(s)
  PROVE  /\ SubSeq(s, 1, n) \in Seq(Byte) /\ Len(SubSeq(s, 1, n)) = n
         /\ \A i \in 1 .. n : SubSeq(s, 1, n)[i] = s[i]
<1>1. \A m \in Nat : m <= n => /\ SubSeq(s, m + 1, n) \in Seq(Byte)
                               /\ Len(SubSeq(s, m + 1, n)) = n - m
                               /\ \A i \in 1 .. n - m : SubSeq(s, m + 1, n)[i] = s[m + i]
  BY SliceIs
<1>2. 0 + 1 = 1 /\ n - 0 = n /\ 0 <= n /\ \A i \in 1 .. n : 0 + i = i
  OBVIOUS
<1> QED
  BY <1>1, <1>2

\* The lengths a client may take of a response.
LEMMA BodyTaken ==
  ASSUME TypeInv, NEW n, n = Min({left, BufLen, Len(Unread("client"))}), n > 0
  PROVE  /\ n \in 1 .. left /\ n <= Len(Unread("client"))
         /\ lastRead["client"] + n <= lastRecved("client")
         /\ Unread("client") \in Seq(Byte)
         /\ SubSeq(Unread("client"), 1, n) \in Seq(Byte)
         /\ Len(SubSeq(Unread("client"), 1, n)) = n
         /\ \A i \in 1 .. n : SubSeq(Unread("client"), 1, n)[i] = Unread("client")[i]
<1> DEFINE u == Unread("client")
<1>1. Typed /\ "client" \in Host /\ lastRead["client"] <= lastRecved("client")
  BY ReadOrder DEF TypeInv, Host
<1>2. /\ u \in Seq(Byte) /\ Len(u) = lastRecved("client") - lastRead["client"]
      /\ lastRecved("client") \in Nat /\ lastRead["client"] \in Nat
  BY <1>1, UnreadIs, Lengths
<1>3. left \in Int /\ BufLen \in Int /\ Len(u) \in Int
  BY <1>1, <1>2, SessionParams DEF Typed
<1> HIDE DEF u
<1>4. n \in {left, BufLen, Len(u)} /\ n <= left /\ n <= Len(u)
  BY <1>3, MinOfThree DEF u
<1>5. n \in 1 .. left /\ n <= Len(u) /\ lastRead["client"] + n <= lastRecved("client") /\ n \in Nat
  BY <1>2, <1>3, <1>4
<1>6. /\ SubSeq(u, 1, n) \in Seq(Byte) /\ Len(SubSeq(u, 1, n)) = n
      /\ \A i \in 1 .. n : SubSeq(u, 1, n)[i] = u[i]
  <2>1. n \in 0 .. Len(u)
    BY <1>2, <1>5
  <2> QED
    BY <1>2, <2>1, PrefixIs
<1> QED
  BY <1>2, <1>5, <1>6 DEF u

LEMMA FlagsNext == ASSUME Flags, [Step]_vars PROVE Flags'
<1>1. ready' \in [Clients -> BOOLEAN]
  <2>1. CASE Start
    <3>1. ready' = [ready EXCEPT ![cur + 1] = /\ spc = "poll" /\ Unread("server") = << >>
                                              /\ toServer = << >> /\ held = None]
      BY <2>1 DEF Start
    <3> QED
      BY <3>1, Zenon DEF Flags
  <2>2. CASE ~ Start
    <3>1. ready' = ready
      BY <2>2 DEF Step, Work, Send, ServerTakes, ServerReceives, ClientReceives, ClientMain,
         ClientWrite, ClientExit, ClientBody, ClientStatus, ClientHeader, ServerMain,
         ServerBody, ServerDrain, InitResf, ServerBlank, ServerCutBlank, ServerRequest,
         ServerCutRequest, ClientResend, vars, client
    <3> QED
      BY <3>1 DEF Flags
  <2> QED
    BY <2>1, <2>2
<1>2. late' \in BOOLEAN
  <2>1. CASE ServerCutRequest \/ ServerCutBlank
    <3>1. late' = (late \/ ~Arrived)
      BY <2>1 DEF ServerCutRequest, ServerCutBlank, CutLine
    <3>2. (late \/ ~Arrived) \in BOOLEAN
      OBVIOUS
    <3> QED
      BY <3>1, <3>2, Zenon
  <2>2. CASE ~ (ServerCutRequest \/ ServerCutBlank)
    <3>1. late' = late
      BY <2>2 DEF Step, Work, Send, ServerTakes, ServerReceives, ClientReceives, ClientMain,
         ClientWrite, ClientExit, ClientBody, ClientStatus, ClientHeader, ServerMain,
         ServerBody, ServerDrain, InitResf, ServerBlank, ServerRequest, Start, ClientResend,
         vars
    <3> QED
      BY <3>1, Zenon DEF Flags
  <2> QED
    BY <2>1, <2>2
<1>3. torn' \in BOOLEAN
  <2>1. CASE \E h \in Host : Send(h)
    <3>1. torn' = (spc = "server" /\ HalfReset) \/ \E h \in Host : torn' = (h = "server" /\ HalfReset)
      BY <2>1 DEF Send
    <3> QED
      BY <3>1, Zenon
  <2>2. CASE ServerReceives
    <3>1. torn' = Straddles(held[1].seg, held[1].fresh)
      BY <2>2, Zenon DEF ServerReceives
    <3>2. Straddles(held[1].seg, held[1].fresh) \in BOOLEAN
      BY Zenon DEF Straddles
    <3> QED
      BY <3>1, <3>2, Zenon
  <2>3. CASE ~ ((\E h \in Host : Send(h)) \/ ServerReceives)
    <3>1. torn' = torn
      BY <2>3 DEF Step, Work, ServerTakes, ClientReceives, ClientMain,
         ClientWrite, ClientExit, ClientBody, ClientStatus, ClientHeader, ServerMain,
         ServerBody, ServerDrain, InitResf, ServerBlank, ServerCutBlank, ServerRequest,
         ServerCutRequest, Start, ClientResend, vars
    <3> QED
      BY <3>1, Zenon DEF Flags
  <2> QED
    BY <2>1, <2>2, <2>3
<1> QED
  BY <1>1, <1>2, <1>3 DEF Flags

\* Steps that leave most of the state alone.
LEMMA TypedQuiet ==
  ASSUME TypeInv, ClientExit \/ ServerDrain \/ ServerBlank \/ ServerCutBlank \/ ClientStatus
  PROVE  Typed'
<1>1. Typed
  BY DEF TypeInv
<1>2. CASE ClientExit
  BY <1>1, <1>2 DEF ClientExit, Typed, endpoints, net, server
<1>3. CASE ServerDrain
  BY <1>1, <1>3 DEF ServerDrain, Typed, endpoints, net, client
<1>4. ASSUME NEW h \in Host, TakeLine(h) PROVE lastRead' \in [Host -> Nat]
  <2>1. LineEnds(h) \in Nat
    BY <1>1, LineIs, ReadOrder
  <2> QED
    BY <1>1, <1>4, <2>1 DEF TakeLine, Typed
<1>5. CASE ServerBlank
  <2>1. lastRead' \in [Host -> Nat]
    BY <1>4, <1>5 DEF ServerBlank, Host
  <2> QED
    BY <1>1, <1>5, <2>1 DEF ServerBlank, Typed, net, client
<1>6. CASE ServerCutBlank
  BY <1>1, <1>6 DEF ServerCutBlank, CutLine, Typed, net, client
<1>7. CASE ClientStatus
  <2>1. lastRead' \in [Host -> Nat]
    BY <1>4, <1>7 DEF ClientStatus, Host
  <2> QED
    BY <1>1, <1>7, <2>1 DEF ClientStatus, Typed, net, server
<1> QED
  BY <1>2, <1>3, <1>5, <1>6, <1>7

LEMMA AtoiIs == ASSUME NEW str \in Seq(Byte) PROVE atoi(str) \in 0 .. 9
BY DEF atoi, Zero, Byte

LEMMA TypedClient ==
  ASSUME TypeInv, ClientHeader \/ ClientBody \/ ClientResend \/ Start
  PROVE  Typed'
<1>1. Typed
  BY DEF TypeInv
<1>2. CASE ClientHeader
  <2>1. HasLine("client") /\ lastRead' = [lastRead EXCEPT !["client"] = LineEnds("client")]
    BY <1>2 DEF ClientHeader, TakeLine
  <2>2. LineEnds("client") \in Nat /\ Line("client") \in Seq(Byte)
    BY <1>1, <2>1, LineIs, ReadOrder DEF Host
  <2>3. lastRead' \in [Host -> Nat]
    BY <1>1, <2>1, <2>2 DEF Typed
  <2>4. left' \in -1 .. 9
    <3> DEFINE l == Line("client")
               str == SubSeq(l, 1, Len(l) - 2)
               colon == Find(Colon, str, 1)
    <3>1. parseHeader(l).value = SubSeq(str, colon + 2, Len(str))
      BY DEF parseHeader
    <3>2. str \in Seq(Byte)
      <4>1. Len(l) \in Nat /\ Len(l) - 2 \in Int /\ \A i \in 1 .. Len(l) - 2 : l[i] \in Byte
        BY <2>2
      <4> QED
        BY <4>1, SubSeqProperties
    <3>3. SubSeq(str, colon + 2, Len(str)) \in Seq(Byte)
      <4>1. Len(str) \in Nat
        BY <3>2, LenProperties, Zenon
      <4> HIDE DEF str
      <4>2. colon \in 1 .. Len(str) + 1
        BY <4>1, FindIs
      <4> HIDE DEF colon
      <4>3. colon + 2 \in Int /\ Len(str) \in Int /\ \A i \in colon + 2 .. Len(str) : str[i] \in Byte
        BY <3>2, <4>1, <4>2
      <4> QED
        BY <4>3, SubSeqProperties
    <3>4. atoi(parseHeader(l).value) \in 0 .. 9
      BY <3>1, <3>3, AtoiIs
    <3>5. left' = left \/ left' = atoi(parseHeader(l).value)
      BY <1>2 DEF ClientHeader
    <3> HIDE DEF l, str, colon
    <3>6. \E v \in 0 .. 9 : left' = left \/ left' = v
      BY <3>4, <3>5, Zenon
    <3>7. left \in -1 .. 9
      BY <1>1 DEF Typed
    <3> QED
      BY <3>6, <3>7
  <2> QED
    BY <1>1, <1>2, <2>3, <2>4 DEF ClientHeader, Typed, net, server
<1>3. CASE ClientBody
  <2> DEFINE n == Min({left, BufLen, Len(Unread("client"))})
             part == Printed(SubSeq(Unread("client"), 1, n))
  <2>1. n > 0
    BY <1>3 DEF ClientBody
  <2>2. n \in 1 .. left /\ SubSeq(Unread("client"), 1, n) \in Seq(Byte)
    BY <2>1, BodyTaken
  <2>3. part \in Seq(Byte)
    BY <2>2, PrintedIs
  <2>4. /\ saved' = [saved EXCEPT ![cur] = @ \o part]
        /\ lastRead' = [lastRead EXCEPT !["client"] = @ + n] /\ left' = left - n
    BY <1>3 DEF ClientBody
  <2> HIDE DEF n, part
  <2>5. saved' \in [Clients -> Seq(Byte)]
    <3>1. saved \in [Clients -> Seq(Byte)]
      BY <1>1 DEF Typed
    <3>2. cur \in Clients => saved[cur] \o part \in Seq(Byte)
      BY <2>3, <3>1, Appended
    <3> QED
      BY <2>4, <3>1, <3>2
  <2>6. left' \in -1 .. 9 /\ lastRead' \in [Host -> Nat]
    <3>1. /\ left \in -1 .. 9 /\ lastRead \in [Host -> Nat]
          /\ lastRead["client"] \in Nat /\ n \in 1 .. left
      BY <1>1, <2>2 DEF Typed, Host
    <3>2. left - n \in -1 .. 9 /\ lastRead["client"] + n \in Nat
      BY <3>1
    <3> QED
      BY <2>4, <3>1, <3>2
  <2> QED
    BY <1>1, <1>3, <2>5, <2>6 DEF ClientBody, Typed, net, server
<1>4. CASE ClientResend
  <2> DEFINE n == Min({MSS, lastSent["client"] - lastAcked["client"]})
  <2>1. PICK junk \in Junk :
          toServer' = ToServer([seqNum |-> lastAcked["client"], ackNum |-> 0, flags |-> 0,
                                data |-> [i \in 1 .. n |-> junk]])
    BY <1>4 DEF ClientResend
  <2>2. n \in Nat
    <3>1. MSS \in Int /\ lastSent["client"] - lastAcked["client"] \in Int /\ n > 0
      BY <1>1, <1>4, SessionParams DEF ClientResend, Typed, Host
    <3> QED
      BY <3>1, MinOfTwo
  <2> HIDE DEF n
  <2>3. [i \in 1 .. n |-> junk] \in Seq(Byte)
    BY <2>2, SessionParams
  <2>4. lastAcked["client"] \in Nat
    BY <1>1, Lengths DEF Host
  <2> DEFINE seg == [seqNum |-> lastAcked["client"], ackNum |-> 0, flags |-> 0,
                     data |-> [i \in 1 .. n |-> junk]]
  <2>5. seg \in Seg
    BY <2>3, <2>4 DEF Seg
  <2> HIDE DEF seg
  <2>6. toServer' \in Seq([from : 0 .. cur, seg : Seg])
    BY <1>1, <2>1, <2>5, ToServerIs DEF seg
  <2> QED
    BY <1>1, <1>4, <2>6 DEF ClientResend, Typed, endpoints, server, client
<1>5. CASE Start
  <2>1. cur + 1 \in Clients /\ cur \in Nat
    BY <1>1, <1>5, SessionParams DEF Start, Typed, Clients
  <2>2. want[cur + 1] \in Byte
    BY <1>1, <2>1, ReqIs DEF Typed
  <2>3. out' \in Seq(Byte)
    <3>1. out' = Request(<< want[cur + 1] >>)
      BY <1>5 DEF Start
    <3> QED
      BY <1>1, <2>1, <2>2, <3>1, RequestIs, ReqIs DEF Typed
  <2>4. << >> \in Seq(Byte) /\ << >> \in Seq(Seg)
    BY EmptySeq
  <2>5. /\ lastSent' \in [Host -> Nat] /\ lastAcked' \in [Host -> Nat]
        /\ lastRead' \in [Host -> Nat]
        /\ sendBuff' \in [Host -> Seq(Byte)] /\ recvBuff' \in [Host -> Seq(Byte)]
    BY <1>1, <1>5, <2>4 DEF Start, Typed
  <2>6. toServer' \in Seq([from : 0 .. cur', seg : Seg])
    <3>1. [from : 0 .. cur, seg : Seg] \subseteq [from : 0 .. cur + 1, seg : Seg]
      BY <2>1
    <3>2. toServer \in Seq([from : 0 .. cur + 1, seg : Seg])
      BY <1>1, <3>1, SeqMonotonic DEF Typed
    <3> QED
      BY <1>5, <3>2 DEF Start
  <2>7. addr' \in 0 .. cur' /\ cur' \in 0 .. NC
    <3>1. addr \in 0 .. cur /\ NC \in Nat /\ cur + 1 \in 1 .. NC /\ cur' = cur + 1 /\ addr' = addr
      BY <1>1, <1>5, <2>1, SessionParams DEF Start, Typed, Clients
    <3> QED
      BY <2>1, <3>1
  <2>8. /\ toClient' = << >> /\ left' = -1 /\ cpc' = "status"
        /\ UNCHANGED <<held, spc, file, pos, want, saved>>
    BY <1>5 DEF Start, server
  <2> QED
    BY <1>1, <2>3, <2>4, <2>5, <2>6, <2>7, <2>8 DEF Typed
<1> QED
  BY <1>2, <1>3, <1>4, <1>5

LEMMA HeldIs ==
  ASSUME Typed, held # None
  PROVE  Len(held) = 1 /\ held[1].seg \in Seg /\ held[1].fresh \in BOOLEAN
<1>1. held \in Seq([seg : Seg, fresh : BOOLEAN]) /\ Len(held) <= 1 /\ held # << >>
  BY DEF Typed, None
<1> DEFINE S == [seg : Seg, fresh : BOOLEAN]
<1>2. Len(held) = 1
  <2>1. held \in Seq(S) /\ held # << >>
    BY <1>1
  <2> HIDE DEF S
  <2>2. Len(held) \in Nat /\ Tail(held) \in Seq(S) /\ Len(Tail(held)) = Len(held) - 1
    BY <2>1, HeadTailProperties
  <2>3. Len(Tail(held)) \in Nat
    BY <2>2, LenProperties
  <2> QED
    BY <1>1, <2>2, <2>3
<1>3. held[1] \in S
  <2>1. held \in Seq(S)
    BY <1>1
  <2> HIDE DEF S
  <2> QED
    BY <1>2, <2>1
<1> QED
  BY <1>2, <1>3

LEMMA TakenTypes ==
  ASSUME Typed, ServerTakes
  PROVE  /\ held' \in Seq([seg : Seg, fresh : BOOLEAN]) /\ Len(held') = 1
         /\ held'[1].seg = toServer[1].seg
         /\ toServer' \in Seq([from : 0 .. cur, seg : Seg]) /\ addr' \in 0 .. cur
         /\ addr' = toServer[1].from
         /\ Len(toServer) \in Nat \ {0} /\ Len(toServer') = Len(toServer) - 1
         /\ \A i \in 1 .. Len(toServer') : toServer'[i] = toServer[i + 1]
<1>1. toServer \in Seq([from : 0 .. cur, seg : Seg]) /\ toServer # << >>
  BY DEF Typed, ServerTakes
<1> DEFINE seg == Head(toServer).seg
<1>2. /\ held' = << [seg |-> seg, fresh |-> FreshAck("server", seg)] >>
      /\ addr' = Head(toServer).from /\ toServer' = Tail(toServer)
  BY DEF ServerTakes
<1>3. Head(toServer) \in [from : 0 .. cur, seg : Seg] /\ Head(toServer) = toServer[1]
  <2> DEFINE S == [from : 0 .. cur, seg : Seg]
  <2>1. toServer \in Seq(S) /\ toServer # << >>
    BY <1>1
  <2> HIDE DEF S
  <2>2. Head(toServer) \in S
    BY <2>1, HeadTailProperties
  <2>3. Head(toServer) = toServer[1]
    BY <2>1
  <2> QED
    BY <2>2, <2>3 DEF S
<1>4. seg \in Seg /\ addr' \in 0 .. cur
  BY <1>2, <1>3
<1>5. FreshAck("server", seg) \in BOOLEAN
  BY Zenon DEF FreshAck
<1>6. /\ toServer' \in Seq([from : 0 .. cur, seg : Seg])
      /\ Len(toServer) \in Nat \ {0} /\ Len(toServer') = Len(toServer) - 1
      /\ \A i \in 1 .. Len(toServer') : toServer'[i] = toServer[i + 1]
  BY <1>1, <1>2, HeadTailProperties, EmptySeq
<1> DEFINE fresh == FreshAck("server", seg)
<1> HIDE DEF seg, fresh
<1>7. /\ held' = << [seg |-> seg, fresh |-> fresh] >>
  BY <1>2 DEF seg, fresh
<1>8. [seg |-> seg, fresh |-> fresh] \in [seg : Seg, fresh : BOOLEAN]
  BY <1>4, <1>5, Zenon DEF fresh
<1>9. held' \in Seq([seg : Seg, fresh : BOOLEAN]) /\ Len(held') = 1 /\ held'[1].seg = seg
  BY <1>7, <1>8
<1> QED
  BY <1>2, <1>3, <1>4, <1>6, <1>9 DEF seg

LEMMA TypedServer ==
  ASSUME TypeInv, ServerBody \/ ServerRequest \/ ServerCutRequest \/ InitResf
  PROVE  Typed'
<1>1. Typed
  BY DEF TypeInv
<1>2. CASE ServerBody
  <2>1. file' = file /\ UNCHANGED <<lastSent, lastAcked, lastRead, recvBuff, out, held, net, addr, client>>
    BY <1>2 DEF ServerBody
  <2>2. sendBuff' \in [Host -> Seq(Byte)] /\ pos' \in 0 .. FileLen /\ spc' \in {"body", "blank"}
    BY <1>1, <1>2, ServerBodyTypes
  <2> QED
    BY <1>1, <2>1, <2>2 DEF Typed, net, client
<1>3. CASE ServerRequest
  <2>1. UNCHANGED <<lastSent, lastAcked, recvBuff, out, held, net, addr, client>>
    BY <1>3 DEF ServerRequest
  <2>2. LineEnds("server") \in Nat /\ lastRead' = [lastRead EXCEPT !["server"] = LineEnds("server")]
    BY <1>1, <1>3, LineIs, ReadOrder DEF ServerRequest, TakeLine, Host
  <2>3. lastRead' \in [Host -> Nat]
    BY <1>1, <2>2 DEF Typed
  <2>4. /\ sendBuff' \in [Host -> Seq(Byte)] /\ spc' \in {"gone", "body"}
        /\ file' \in Seq(Byte) /\ Len(file') <= FileLen /\ pos' \in 0 .. FileLen
    BY <1>1, <1>3, ServeTypes DEF ServerRequest
  <2> QED
    BY <1>1, <2>1, <2>3, <2>4 DEF Typed, net, client
<1>4. CASE ServerCutRequest
  <2>1. UNCHANGED <<lastSent, lastAcked, lastRead, recvBuff, out, held, net, addr, client>>
    BY <1>4 DEF ServerCutRequest, CutLine
  <2>2. /\ sendBuff' \in [Host -> Seq(Byte)] /\ spc' \in {"gone", "body"}
        /\ file' \in Seq(Byte) /\ Len(file') <= FileLen /\ pos' \in 0 .. FileLen
    BY <1>1, <1>4, ServeTypes DEF ServerCutRequest
  <2> QED
    BY <1>1, <2>1, <2>2 DEF Typed, net, client
<1>5. CASE InitResf
  <2>1. << >> \in Seq(Byte)
    BY EmptySeq
  <2>2. /\ lastSent' \in [Host -> Nat] /\ lastAcked' \in [Host -> Nat]
        /\ lastRead' \in [Host -> Nat]
        /\ sendBuff' \in [Host -> Seq(Byte)] /\ recvBuff' \in [Host -> Seq(Byte)]
    BY <1>1, <1>5, <2>1 DEF InitResf, Cleared, Typed
  <2>3. spc' \in {"lastAcked", "lastWrite", "lastRead", "lastRecved", "sockFd", "addr", "waitTime",
                   "poll"}
    BY <1>5 DEF InitResf, ResetOrder
  <2>4. UNCHANGED <<out, held, net, addr, file, pos, client>>
    BY <1>5 DEF InitResf
  <2> QED
    BY <1>1, <2>2, <2>3, <2>4 DEF Typed, net, client
<1> QED
  BY <1>2, <1>3, <1>4, <1>5

LEMMA TypedWire ==
  ASSUME TypeInv, \/ \E h \in Host : Send(h)
                  \/ ServerTakes \/ ServerReceives \/ ClientReceives \/ ClientWrite
  PROVE  Typed'
<1>1. Typed
  BY DEF TypeInv
<1>2. CASE \E h \in Host : Send(h)
  <2>1. PICK h \in Host : Send(h)
    BY <1>2
  <2>2. /\ lastSent' \in [Host -> Nat]
        /\ toServer' \in Seq([from : 0 .. cur, seg : Seg]) /\ toClient' \in Seq(Seg)
    BY <2>1, SendTypes
  <2>3. UNCHANGED <<lastAcked, lastRead, sendBuff, recvBuff, out, held, addr, server, client>>
    BY <2>1 DEF Send
  <2> QED
    BY <1>1, <2>2, <2>3 DEF Typed, server, client
<1>3. CASE ServerTakes
  <2>1. /\ held' \in Seq([seg : Seg, fresh : BOOLEAN]) /\ Len(held') = 1
        /\ toServer' \in Seq([from : 0 .. cur, seg : Seg]) /\ addr' \in 0 .. cur
    BY <1>1, <1>3, TakenTypes
  <2>2. UNCHANGED <<endpoints, out, toClient, server, client>>
    BY <1>3 DEF ServerTakes
  <2>3. Len(held') <= 1
    BY <2>1
  <2> QED
    BY <1>1, <2>1, <2>2, <2>3 DEF Typed, endpoints, server, client
<1>4. CASE ServerReceives
  <2>1. Running /\ held[1].seg \in Seg /\ held[1].fresh \in BOOLEAN
    BY <1>1, <1>4, HeldIs DEF ServerReceives
  <2>2. Receive("server", held[1].seg, held[1].fresh)
    BY <1>4 DEF ServerReceives
  <2>3. /\ lastAcked' \in [Host -> Nat] /\ lastSent' \in [Host -> Nat]
        /\ recvBuff' \in [Host -> Seq(Byte)] /\ Answer("server", held[1].seg) \in Seg
    BY <2>1, <2>2, ReceiveTypes DEF Host
  <2>4. toClient' \in Seq(Seg)
    <3>1. ToClient(Answer("server", held[1].seg)) \in Seq(Seg)
      BY <1>1, <2>3, ToClientType
    <3>2. toClient' = toClient \/ toClient' = ToClient(Answer("server", held[1].seg))
      BY <1>4 DEF ServerReceives
    <3> QED
      BY <1>1, <3>1, <3>2 DEF Typed
  <2>5. held' \in Seq([seg : Seg, fresh : BOOLEAN]) /\ Len(held') <= 1
    <3>1. held' = << >>
      BY <1>4 DEF ServerReceives, None
    <3> QED
      BY <3>1, EmptySeq
  <2>6. UNCHANGED <<lastRead, sendBuff, out, toServer, addr, server, client>>
    BY <1>4 DEF ServerReceives
  <2> QED
    BY <1>1, <2>3, <2>4, <2>5, <2>6 DEF Typed, server, client
<1>5. CASE ClientReceives
  <2> DEFINE seg == Head(toClient)
  <2>1. Running /\ toClient # << >> /\ toClient \in Seq(Seg)
    BY <1>1, <1>5 DEF ClientReceives, Typed
  <2>2. seg \in Seg /\ Tail(toClient) \in Seq(Seg)
    BY <2>1, HeadTailProperties
  <2>3. FreshAck("client", seg) \in BOOLEAN
    BY Zenon DEF FreshAck
  <2>4. Receive("client", seg, FreshAck("client", seg))
    BY <1>5 DEF ClientReceives
  <2>5. /\ toServer' = toServer \/ toServer' = ToServer(Answer("client", seg))
        /\ toClient' = Tail(toClient)
        /\ UNCHANGED <<lastRead, sendBuff, out, held, addr, server, client>>
    BY <1>5 DEF ClientReceives
  <2> DEFINE fresh == FreshAck("client", seg)
  <2> HIDE DEF seg, fresh
  <2>6. fresh \in BOOLEAN /\ Receive("client", seg, fresh)
    BY <2>3, <2>4 DEF fresh
  <2>7. /\ lastAcked' \in [Host -> Nat] /\ lastSent' \in [Host -> Nat]
        /\ recvBuff' \in [Host -> Seq(Byte)] /\ Answer("client", seg) \in Seg
    BY <2>1, <2>2, <2>6, ReceiveTypes DEF Host
  <2>8. toServer' \in Seq([from : 0 .. cur, seg : Seg])
    <3>1. ToServer(Answer("client", seg)) \in Seq([from : 0 .. cur, seg : Seg])
      BY <1>1, <2>7, ToServerIs
    <3> QED
      BY <1>1, <2>5, <3>1 DEF Typed
  <2> QED
    BY <1>1, <2>2, <2>5, <2>7, <2>8 DEF Typed, server, client
<1>6. CASE ClientWrite
  <2>1. sendBuff' \in [Host -> Seq(Byte)] /\ out' \in Seq(Byte)
    BY <1>1, <1>6, ClientWriteTypes
  <2>2. UNCHANGED <<lastSent, lastAcked, lastRead, recvBuff, held, net, addr, server, client>>
    BY <1>6 DEF ClientWrite
  <2> QED
    BY <1>1, <2>1, <2>2 DEF Typed, net, server, client
<1> QED
  BY <1>2, <1>3, <1>4, <1>5, <1>6

LEMMA TypedNext == ASSUME TypeInv, [Step]_vars PROVE Typed'
<1>1. CASE UNCHANGED vars
  BY <1>1 DEF TypeInv, Typed, vars, endpoints, net, server, client
<1>2. CASE Step
  BY <1>2, TypedQuiet, TypedClient, TypedServer, TypedWire
     DEF Step, Work, ClientMain, ServerMain
<1> QED
  BY <1>1, <1>2

-----------------------------------------------------------------------------
(* Every step keeps the indices in order                                   *)

\* The indices of the client, and those of the server.
ClientOrder ==
  /\ lastRead["client"] <= lastRecved("client")
  /\ lastSent["client"] <= lastWrite("client") /\ lastAcked["client"] <= lastSent["client"]

ServerOrder ==
  /\ lastRead["server"] <= lastRecved("server")
  /\ ~ torn /\ ~ HalfReset =>
       lastSent["server"] <= lastWrite("server") /\ lastAcked["server"] <= lastSent["server"]
  /\ ~ torn /\ HalfReset => lastSent["server"] = 0
  /\ ~ torn /\ spc = "lastWrite" => lastAcked["server"] = 0
  /\ spc \in {"lastRead", "lastRecved", "sockFd", "addr", "waitTime", "poll"} =>
       sendBuff["server"] = << >>
  /\ spc \in {"lastRecved", "sockFd", "addr", "waitTime", "poll"} => lastRead["server"] = 0

LEMMA OrderedIs == Ordered <=> ClientOrder /\ ServerOrder
BY DEF Ordered, ClientOrder, ServerOrder, Host

LEMMA ReceiveOrder ==
  ASSUME TypeInv, Running, NEW h \in Host, NEW seg \in Seg, NEW fresh \in BOOLEAN,
         Receive(h, seg, fresh)
  PROVE  /\ lastSent'[h] = IF InOrder(h, seg) THEN lastSent[h] + NextLen(h) ELSE lastSent[h]
         /\ lastSent[h] <= lastSent'[h] /\ lastSent'[h] <= lastWrite(h)
         /\ lastAcked'[h] = IF fresh THEN seg.ackNum ELSE lastAcked[h]
         /\ \A k \in Host : k # h => /\ lastSent'[k] = lastSent[k]
                                     /\ lastAcked'[k] = lastAcked[k]
                                     /\ recvBuff'[k] = recvBuff[k]
<1>1. Typed /\ lastSent[h] <= lastWrite(h)
  BY SentOrder DEF TypeInv
<1>2. NextLen(h) \in Nat /\ NextLen(h) <= lastWrite(h) - lastSent[h]
  BY <1>1, NextLenIs
<1>3. /\ lastSent \in [Host -> Nat] /\ lastAcked \in [Host -> Nat]
      /\ recvBuff \in [Host -> Seq(Byte)] /\ lastWrite(h) \in Nat
  BY <1>1, Lengths DEF Typed
<1>4. lastSent'[h] = IF InOrder(h, seg) THEN lastSent[h] + NextLen(h) ELSE lastSent[h]
  BY <1>3 DEF Receive
<1>5. lastSent[h] <= lastSent'[h] /\ lastSent'[h] <= lastWrite(h)
  BY <1>1, <1>2, <1>3, <1>4
<1>6. lastAcked'[h] = IF fresh THEN seg.ackNum ELSE lastAcked[h]
  BY <1>3 DEF Receive
<1>7. \A k \in Host : k # h => /\ lastSent'[k] = lastSent[k] /\ lastAcked'[k] = lastAcked[k]
                               /\ recvBuff'[k] = recvBuff[k]
  BY <1>3 DEF Receive
<1> QED
  BY <1>4, <1>5, <1>6, <1>7

LEMMA SendOrder ==
  ASSUME TypeInv, NEW h \in Host, Send(h)
  PROVE  /\ lastSent'[h] = lastSent[h] + NextLen(h) /\ lastSent'[h] <= lastWrite(h)
         /\ lastSent[h] <= lastSent'[h]
         /\ \A k \in Host : k # h => lastSent'[k] = lastSent[k]
<1>1. Typed /\ Running /\ lastSent[h] <= lastWrite(h)
  BY SentOrder DEF TypeInv, Send
<1>2. /\ NextLen(h) \in Nat /\ NextLen(h) <= lastWrite(h) - lastSent[h]
      /\ lastSent \in [Host -> Nat] /\ lastWrite(h) \in Nat
  BY <1>1, NextLenIs, Lengths DEF Typed
<1>3. lastSent'[h] = lastSent[h] + NextLen(h) /\ \A k \in Host : k # h => lastSent'[k] = lastSent[k]
  BY <1>2 DEF Send
<1> QED
  BY <1>1, <1>2, <1>3

LEMMA TakeLineOrder ==
  ASSUME TypeInv, NEW h \in Host, TakeLine(h), recvBuff' = recvBuff
  PROVE  /\ lastRead'[h] <= lastRecved(h)'
         /\ lastRead'[h] = LineEnds(h) /\ HasLine(h)
         /\ \A k \in Host : k # h => lastRead'[k] = lastRead[k]
<1>1. lastRead \in [Host -> Nat]
  BY DEF TypeInv, Typed
<1>2. lastRead' = [lastRead EXCEPT ![h] = LineEnds(h)] /\ LineEnds(h) <= lastRecved(h) /\ HasLine(h)
  BY DEF TakeLine, HasLine
<1>3. lastRecved(h)' = lastRecved(h)
  BY DEF lastRecved
<1> QED
  BY <1>1, <1>2, <1>3

LEMMA ClientOrderNext == ASSUME TypeInv, Typed', [Step]_vars PROVE ClientOrder'
<1>1. Typed /\ ClientOrder /\ "client" \in Host /\ "server" \in Host
  BY OrderedIs DEF TypeInv, Host
<1>0. \A k \in Host : /\ lastSent'[k] \in Nat /\ lastAcked'[k] \in Nat
                      /\ Len(sendBuff'[k]) \in Nat /\ Len(recvBuff'[k]) \in Nat
  <2>1. /\ lastSent' \in [Host -> Nat] /\ lastAcked' \in [Host -> Nat]
        /\ sendBuff' \in [Host -> Seq(Byte)] /\ recvBuff' \in [Host -> Seq(Byte)]
    BY DEF Typed
  <2> QED
    BY <2>1, LenProperties
<1> DEFINE Same == /\ lastRead'["client"] = lastRead["client"]
                   /\ lastSent'["client"] = lastSent["client"]
                   /\ lastAcked'["client"] = lastAcked["client"]
                   /\ sendBuff'["client"] = sendBuff["client"]
                   /\ recvBuff'["client"] = recvBuff["client"]
<1>2. ASSUME Same PROVE ClientOrder'
  BY <1>1, <1>2 DEF ClientOrder, lastWrite, lastRecved
<1>3. CASE UNCHANGED vars \/ UNCHANGED endpoints
  BY <1>2, <1>3 DEF vars, endpoints
<1>4. CASE \E h \in Host : Send(h)
  <2>1. PICK h \in Host : Send(h)
    BY <1>4
  <2>2. UNCHANGED <<lastAcked, lastRead, sendBuff, recvBuff>>
    BY <2>1 DEF Send
  <2>3. lastSent[h] \in Nat /\ lastSent'[h] \in Nat /\ lastAcked[h] \in Nat
    BY <1>1 DEF Typed
  <2> QED
    BY <1>1, <1>2, <2>1, <2>2, <2>3, SendOrder DEF ClientOrder, lastWrite, lastRecved
<1>5. CASE ServerReceives
  <2>1. Running /\ held[1].seg \in Seg /\ held[1].fresh \in BOOLEAN
    BY <1>1, <1>5, HeldIs DEF ServerReceives
  <2>2. Receive("server", held[1].seg, held[1].fresh) /\ UNCHANGED <<lastRead, sendBuff>>
    BY <1>5 DEF ServerReceives
  <2>3. Same
    BY <1>1, <2>1, <2>2, ReceiveOrder
  <2> QED
    BY <1>2, <2>3
<1>6. CASE ClientReceives
  <2> DEFINE seg == Head(toClient)
             fresh == FreshAck("client", seg)
  <2>1. Running /\ toClient # << >> /\ toClient \in Seq(Seg)
    BY <1>1, <1>6 DEF ClientReceives, Typed
  <2>2. seg \in Seg
    BY <2>1, HeadTailProperties
  <2>3. Receive("client", seg, fresh) /\ UNCHANGED <<lastRead, sendBuff>>
    BY <1>6 DEF ClientReceives
  <2>4. fresh \in BOOLEAN
    BY Zenon DEF FreshAck
  <2>5. fresh => seg.ackNum <= lastSent["client"]
    BY <1>1 DEF FreshAck, ClientOrder
  <2> HIDE DEF seg, fresh
  <2>6. /\ lastSent["client"] <= lastSent'["client"] /\ lastSent'["client"] <= lastWrite("client")
        /\ lastAcked'["client"] = IF fresh THEN seg.ackNum ELSE lastAcked["client"]
    BY <1>1, <2>1, <2>2, <2>3, <2>4, ReceiveOrder
  <2>7. Len(recvBuff["client"]) <= Len(recvBuff'["client"])
    BY <1>1, <2>1, <2>2, <2>3, <2>4, ReceiveTypes
  <2>8. /\ lastSent["client"] \in Nat /\ lastSent'["client"] \in Nat /\ seg.ackNum \in Nat
        /\ lastAcked["client"] \in Nat /\ lastRead["client"] \in Nat
        /\ Len(recvBuff["client"]) \in Nat /\ Len(recvBuff'["client"]) \in Nat
    BY <1>0, <1>1, <2>2 DEF Typed, Seg
  <2>9. lastAcked'["client"] <= lastSent'["client"]
    BY <1>1, <2>5, <2>6, <2>8 DEF ClientOrder
  <2>10. lastRead'["client"] <= Len(recvBuff'["client"])
    BY <1>1, <2>3, <2>7, <2>8 DEF ClientOrder, lastRecved
  <2> QED
    BY <2>3, <2>6, <2>9, <2>10 DEF ClientOrder, lastRecved, lastWrite
<1>7. CASE ClientWrite
  <2>1. UNCHANGED <<lastSent, lastAcked, lastRead, recvBuff>>
    BY <1>7 DEF ClientWrite
  <2>2. Len(sendBuff["client"]) <= Len(sendBuff'["client"])
    BY <1>1, <1>7, ClientWriteTypes
  <2>3. /\ lastSent["client"] \in Nat /\ Len(sendBuff["client"]) \in Nat
        /\ Len(sendBuff'["client"]) \in Nat
    BY <1>0, <1>1 DEF Typed
  <2> QED
    BY <1>1, <2>1, <2>2, <2>3 DEF ClientOrder, lastRecved, lastWrite
<1>8. CASE ClientBody
  <2> DEFINE n == Min({left, BufLen, Len(Unread("client"))})
  <2>1. n > 0 /\ lastRead' = [lastRead EXCEPT !["client"] = @ + n]
        /\ UNCHANGED <<lastSent, lastAcked, sendBuff, recvBuff>>
    BY <1>8 DEF ClientBody
  <2>2. lastRead["client"] + n <= lastRecved("client")
    BY <2>1, BodyTaken
  <2> HIDE DEF n
  <2> QED
    BY <1>1, <2>1, <2>2 DEF ClientOrder, lastRecved, lastWrite, Typed
<1>9. CASE ClientStatus \/ ClientHeader
  <2>1. TakeLine("client") /\ UNCHANGED <<lastSent, lastAcked, sendBuff, recvBuff>>
    BY <1>9 DEF ClientStatus, ClientHeader
  <2> QED
    BY <1>1, <2>1, TakeLineOrder DEF ClientOrder, lastRecved, lastWrite
<1>10. CASE Start
  <2>1. /\ lastSent'["client"] = 0 /\ lastAcked'["client"] = 0 /\ lastRead'["client"] = 0
        /\ sendBuff'["client"] = << >> /\ recvBuff'["client"] = << >>
    BY <1>1, <1>10 DEF Start, Typed
  <2>2. Len(<< >>) = 0
    OBVIOUS
  <2> QED
    BY <2>1, <2>2 DEF ClientOrder, lastRecved, lastWrite
<1>11. CASE ServerRequest \/ ServerBlank
  <2>1. TakeLine("server") /\ UNCHANGED <<lastSent, lastAcked, recvBuff>>
    BY <1>11 DEF ServerRequest, ServerBlank
  <2>2. sendBuff'["client"] = sendBuff["client"]
    BY <1>1, <1>11, ServeTypes DEF ServerRequest, ServerBlank
  <2> QED
    BY <1>1, <1>2, <2>1, <2>2, TakeLineOrder
<1>12. CASE ServerCutRequest \/ ServerCutBlank \/ ServerBody
  <2>1. UNCHANGED <<lastSent, lastAcked, lastRead, recvBuff>>
    BY <1>12 DEF ServerCutRequest, ServerCutBlank, ServerBody, CutLine
  <2>2. sendBuff'["client"] = sendBuff["client"]
    BY <1>1, <1>12, ServeTypes, ServerBodyTypes DEF ServerCutRequest, ServerCutBlank
  <2> QED
    BY <1>2, <2>1, <2>2
<1>13. CASE InitResf
  BY <1>1, <1>2, <1>13 DEF InitResf, Cleared, Typed
<1>14. CASE ServerTakes \/ ServerDrain \/ ClientExit \/ ClientResend
  BY <1>3, <1>14 DEF ServerTakes, ServerDrain, ClientExit, ClientResend
<1> QED
  BY <1>3, <1>4, <1>5, <1>6, <1>7, <1>8, <1>9, <1>10, <1>11, <1>12, <1>13, <1>14
     DEF Step, Work, ClientMain, ServerMain

LEMMA ServerOrderNext == ASSUME TypeInv, Typed', [Step]_vars PROVE ServerOrder'
<1>1. Typed /\ ServerOrder /\ "client" \in Host /\ "server" \in Host
  BY OrderedIs DEF TypeInv, Host
<1>2. \A k \in Host : /\ lastSent'[k] \in Nat /\ lastAcked'[k] \in Nat
                      /\ Len(sendBuff'[k]) \in Nat /\ Len(recvBuff'[k]) \in Nat
  <2>1. /\ lastSent' \in [Host -> Nat] /\ lastAcked' \in [Host -> Nat]
        /\ sendBuff' \in [Host -> Seq(Byte)] /\ recvBuff' \in [Host -> Seq(Byte)]
    BY DEF Typed
  <2> QED
    BY <2>1, LenProperties
<1>3. /\ lastSent["server"] \in Nat /\ lastAcked["server"] \in Nat /\ lastRead["server"] \in Nat
      /\ Len(sendBuff["server"]) \in Nat /\ Len(recvBuff["server"]) \in Nat
  BY <1>1, Lengths DEF lastWrite, lastRecved
<1> DEFINE Same == /\ lastRead'["server"] = lastRead["server"]
                   /\ lastSent'["server"] = lastSent["server"]
                   /\ lastAcked'["server"] = lastAcked["server"]
                   /\ sendBuff'["server"] = sendBuff["server"]
                   /\ recvBuff'["server"] = recvBuff["server"]
                   /\ spc' = spc /\ torn' = torn
<1>4. ASSUME Same PROVE ServerOrder'
  BY <1>1, <1>4 DEF ServerOrder, lastWrite, lastRecved, HalfReset
<1>5. CASE UNCHANGED vars \/ (UNCHANGED <<endpoints, spc, torn>>)
  BY <1>4, <1>5 DEF vars, endpoints, server
<1>6. CASE \E h \in Host : Send(h)
  <2>1. PICK h \in Host : Send(h)
    BY <1>6
  <2>2. UNCHANGED <<lastAcked, lastRead, sendBuff, recvBuff, spc>> /\ Running
    BY <2>1 DEF Send, server
  <2>3. torn' = (h = "server" /\ HalfReset)
    BY <2>1 DEF Send
  <2>4. CASE h = "client"
    <3>1. lastSent'["server"] = lastSent["server"] /\ torn' = torn
      <4>1. lastSent'["server"] = lastSent["server"]
        BY <1>1, <2>1, <2>4, SendOrder
      <4>2. ~ torn' /\ ~ torn
        BY <2>2, <2>3, <2>4 DEF Running
      <4>3. torn \in BOOLEAN /\ torn' \in BOOLEAN
        BY FlagsNext DEF TypeInv, Flags
      <4> QED
        BY <4>1, <4>2, <4>3
    <3> QED
      BY <1>4, <2>2, <3>1
  <2>5. CASE h = "server"
    <3>1. lastSent["server"] <= lastSent'["server"] /\ lastSent'["server"] <= lastWrite("server")
      BY <1>1, <2>1, <2>5, SendOrder
    <3>2. HalfReset' = HalfReset /\ ~ torn
      BY <2>2 DEF HalfReset, Running
    <3>3. ~ torn' => ~ HalfReset
      BY <2>3, <2>5
    <3> QED
      BY <1>1, <1>2, <1>3, <2>2, <3>1, <3>2, <3>3
         DEF ServerOrder, lastWrite, lastRecved, HalfReset
  <2> QED
    BY <2>4, <2>5 DEF Host
<1>7. CASE ClientReceives
  <2> DEFINE seg == Head(toClient)
             fresh == FreshAck("client", seg)
  <2>1. Running /\ toClient # << >> /\ toClient \in Seq(Seg)
    BY <1>1, <1>7 DEF ClientReceives, Typed
  <2>2. seg \in Seg
    BY <2>1, HeadTailProperties
  <2>3. Receive("client", seg, fresh) /\ UNCHANGED <<lastRead, sendBuff, spc, torn>>
    BY <1>7 DEF ClientReceives, server
  <2>4. fresh \in BOOLEAN
    BY Zenon DEF FreshAck
  <2> HIDE DEF seg, fresh
  <2>5. Same
    BY <1>1, <2>1, <2>2, <2>3, <2>4, ReceiveOrder
  <2> QED
    BY <1>4, <2>5
<1>8. CASE ServerReceives
  <2> DEFINE seg == held[1].seg
             fresh == held[1].fresh
  <2>1. Running /\ seg \in Seg /\ fresh \in BOOLEAN
    BY <1>1, <1>8, HeldIs DEF ServerReceives
  <2>2. /\ Receive("server", seg, fresh) /\ UNCHANGED <<lastRead, sendBuff, spc>>
        /\ torn' = Straddles(seg, fresh)
    BY <1>8 DEF ServerReceives, server
  <2> HIDE DEF seg, fresh
  <2>3. /\ lastSent'["server"] =
             IF InOrder("server", seg) THEN lastSent["server"] + NextLen("server")
                                       ELSE lastSent["server"]
        /\ lastSent["server"] <= lastSent'["server"] /\ lastSent'["server"] <= lastWrite("server")
        /\ lastAcked'["server"] = IF fresh THEN seg.ackNum ELSE lastAcked["server"]
    BY <1>1, <2>1, <2>2, ReceiveOrder
  <2>4. Len(recvBuff["server"]) <= Len(recvBuff'["server"])
    BY <1>1, <2>1, <2>2, ReceiveTypes
  <2>5. seg.ackNum \in Nat
    BY <2>1 DEF Seg
  <2>6. ~ torn' => /\ HalfReset => ~ InOrder("server", seg)
                   /\ fresh => spc = "lastAcked" \/ seg.ackNum <= lastSent["server"]
    BY <1>3, <2>2, <2>5 DEF Straddles
  <2>7. ~ torn /\ HalfReset' = HalfReset
    BY <2>1, <2>2 DEF Running, HalfReset
  <2>8. lastRead'["server"] <= Len(recvBuff'["server"])
    BY <1>1, <1>2, <1>3, <2>2, <2>4 DEF ServerOrder, lastRecved
  <2>9. ASSUME ~ torn', ~ HalfReset
        PROVE  lastSent'["server"] <= Len(sendBuff'["server"])
               /\ lastAcked'["server"] <= lastSent'["server"]
    <3>1. spc # "lastAcked"
      BY <2>9 DEF HalfReset
    <3> QED
      BY <1>1, <1>2, <1>3, <2>2, <2>3, <2>5, <2>6, <2>7, <2>9, <3>1
         DEF ServerOrder, lastWrite
  <2>10. ASSUME ~ torn', HalfReset PROVE lastSent'["server"] = 0
    BY <1>1, <2>3, <2>6, <2>7, <2>10 DEF ServerOrder
  <2>11. ASSUME ~ torn', spc = "lastWrite" PROVE lastAcked'["server"] = 0
    <3>1. HalfReset /\ lastSent["server"] = 0 /\ lastAcked["server"] = 0
      BY <1>1, <2>7, <2>11 DEF HalfReset, ServerOrder
    <3> QED
      BY <2>3, <2>5, <2>6, <2>11, <3>1
  <2>12. HalfReset' <=> HalfReset
    BY <2>7
  <2>13. /\ spc' = spc /\ sendBuff' = sendBuff /\ lastRead' = lastRead
         /\ spc \in {"lastRead", "lastRecved", "sockFd", "addr", "waitTime", "poll"} =>
              sendBuff["server"] = << >>
         /\ spc \in {"lastRecved", "sockFd", "addr", "waitTime", "poll"} => lastRead["server"] = 0
    BY <1>1, <2>2 DEF ServerOrder
  <2>14. /\ ~ torn' /\ ~ HalfReset' =>
              lastSent'["server"] <= lastWrite("server")' /\ lastAcked'["server"] <= lastSent'["server"]
         /\ ~ torn' /\ HalfReset' => lastSent'["server"] = 0
         /\ ~ torn' /\ spc' = "lastWrite" => lastAcked'["server"] = 0
    BY <2>9, <2>10, <2>11, <2>12, <2>13 DEF lastWrite
  <2> QED
    BY <2>8, <2>13, <2>14 DEF ServerOrder, lastRecved
<1>9. CASE ClientWrite
  <2>1. UNCHANGED <<lastSent, lastAcked, lastRead, recvBuff, spc, torn>>
    BY <1>9 DEF ClientWrite, server
  <2> QED
    BY <1>1, <1>4, <1>9, <2>1, ClientWriteTypes
<1>10. CASE ClientBody
  <2>1. /\ lastRead' = [lastRead EXCEPT !["client"] = @ + Min({left, BufLen, Len(Unread("client"))})]
        /\ UNCHANGED <<lastSent, lastAcked, sendBuff, recvBuff, spc, torn>>
    BY <1>10 DEF ClientBody, server
  <2>2. lastRead'["server"] = lastRead["server"]
    BY <1>1, <2>1 DEF Typed
  <2> QED
    BY <1>4, <2>1, <2>2
<1>11. CASE ClientStatus \/ ClientHeader
  <2>1. /\ TakeLine("client")
        /\ UNCHANGED <<lastSent, lastAcked, sendBuff, recvBuff, spc, torn>>
    BY <1>11 DEF ClientStatus, ClientHeader, server
  <2> QED
    BY <1>1, <1>4, <2>1, TakeLineOrder
<1>12. CASE Start
  <2>1. Same
    BY <1>1, <1>12 DEF Start, Typed, server
  <2> QED
    BY <1>4, <2>1
<1>13. CASE ServerRequest \/ ServerCutRequest
  <2>1. /\ UNCHANGED <<lastSent, lastAcked, recvBuff, torn>> /\ spc = "poll"
        /\ TakeLine("server") \/ lastRead' = lastRead
        /\ \E line : Serve(line)
    BY <1>13 DEF ServerRequest, ServerCutRequest, CutLine
  <2>2. spc' \in {"gone", "body"} /\ Len(sendBuff["server"]) <= Len(sendBuff'["server"])
    BY <1>1, <2>1, ServeTypes
  <2>3. lastRead'["server"] <= lastRecved("server")'
    <3>1. CASE TakeLine("server")
      BY <1>1, <2>1, <3>1, TakeLineOrder
    <3>2. CASE lastRead' = lastRead
      BY <1>1, <2>1, <3>2 DEF ServerOrder, lastRecved
    <3> QED
      BY <2>1, <3>1, <3>2
  <2>4. ~ HalfReset /\ ~ HalfReset'
    BY <2>1, <2>2 DEF HalfReset
  <2> QED
    BY <1>1, <1>2, <1>3, <2>1, <2>2, <2>3, <2>4 DEF ServerOrder, lastWrite
<1>14. CASE ServerBlank \/ ServerCutBlank
  <2>1. /\ UNCHANGED <<lastSent, lastAcked, sendBuff, recvBuff, torn>> /\ spc = "blank"
        /\ TakeLine("server") \/ lastRead' = lastRead
        /\ spc' \in {"gone", "drain"}
    BY <1>14 DEF ServerBlank, ServerCutBlank, CutLine
  <2>2. lastRead'["server"] <= lastRecved("server")'
    <3>1. CASE TakeLine("server")
      BY <1>1, <2>1, <3>1, TakeLineOrder
    <3>2. CASE lastRead' = lastRead
      BY <1>1, <2>1, <3>2 DEF ServerOrder, lastRecved
    <3> QED
      BY <2>1, <3>1, <3>2
  <2>3. ~ HalfReset /\ ~ HalfReset'
    BY <2>1 DEF HalfReset
  <2> QED
    BY <1>1, <2>1, <2>2, <2>3 DEF ServerOrder, lastWrite
<1>15. CASE ServerBody
  <2>1. UNCHANGED <<lastSent, lastAcked, lastRead, recvBuff, torn>> /\ spc = "body"
    BY <1>15 DEF ServerBody
  <2>2. spc' \in {"body", "blank"} /\ Len(sendBuff["server"]) <= Len(sendBuff'["server"])
    BY <1>1, <1>15, ServerBodyTypes
  <2>3. ~ HalfReset /\ ~ HalfReset'
    BY <2>1, <2>2 DEF HalfReset
  <2> QED
    BY <1>1, <1>2, <1>3, <2>1, <2>2, <2>3 DEF ServerOrder, lastWrite, lastRecved
<1>16. CASE ServerDrain
  <2>1. UNCHANGED <<endpoints, torn>> /\ spc = "drain" /\ spc' = "lastSent"
    BY <1>16 DEF ServerDrain
  <2>2. ~ HalfReset /\ ~ HalfReset'
    BY <2>1 DEF HalfReset
  <2> QED
    BY <1>1, <2>1, <2>2 DEF ServerOrder, lastWrite, lastRecved, endpoints
<1>17. CASE InitResf
  <2>1. /\ \/ spc = "lastSent" /\ spc' = "lastAcked"
           \/ spc = "lastAcked" /\ spc' = "lastWrite"
           \/ spc = "lastWrite" /\ spc' = "lastRead"
           \/ spc = "lastRead" /\ spc' = "lastRecved"
           \/ spc = "lastRecved" /\ spc' = "sockFd"
           \/ spc = "sockFd" /\ spc' = "addr"
           \/ spc = "addr" /\ spc' = "waitTime"
           \/ spc = "waitTime" /\ spc' = "poll"
        /\ torn' = torn
    BY <1>17 DEF InitResf, ResetOrder
  <2>2. /\ lastSent'["server"] = IF spc = "lastSent" THEN 0 ELSE lastSent["server"]
        /\ lastAcked'["server"] = IF spc = "lastAcked" THEN 0 ELSE lastAcked["server"]
        /\ sendBuff'["server"] = IF spc = "lastWrite" THEN << >> ELSE sendBuff["server"]
        /\ lastRead'["server"] = IF spc = "lastRead" THEN 0 ELSE lastRead["server"]
        /\ recvBuff'["server"] = IF spc = "lastRecved" THEN << >> ELSE recvBuff["server"]
    BY <1>1, <1>17 DEF InitResf, Cleared, Typed
  <2>3. Len(<< >>) = 0
    OBVIOUS
  <2>4. lastRead'["server"] <= Len(recvBuff'["server"])
    BY <1>1, <1>2, <1>3, <2>1, <2>2, <2>3 DEF ServerOrder, lastRecved
  <2>5. /\ ~ torn' /\ ~ HalfReset' =>
             lastSent'["server"] <= Len(sendBuff'["server"])
             /\ lastAcked'["server"] <= lastSent'["server"]
        /\ ~ torn' /\ HalfReset' => lastSent'["server"] = 0
    BY <1>1, <1>3, <2>1, <2>2, <2>3 DEF ServerOrder, lastWrite, HalfReset
  <2>6. /\ ~ torn' /\ spc' = "lastWrite" => lastAcked'["server"] = 0
        /\ spc' \in {"lastRead", "lastRecved", "sockFd", "addr", "waitTime", "poll"} =>
             sendBuff'["server"] = << >>
        /\ spc' \in {"lastRecved", "sockFd", "addr", "waitTime", "poll"} => lastRead'["server"] = 0
    BY <1>1, <2>1, <2>2 DEF ServerOrder
  <2> QED
    BY <2>4, <2>5, <2>6 DEF ServerOrder, lastWrite, lastRecved
<1>18. CASE ServerTakes \/ ClientExit \/ ClientResend
  BY <1>5, <1>18 DEF ServerTakes, ClientExit, ClientResend, server
<1> QED
  BY <1>5, <1>6, <1>7, <1>8, <1>9, <1>10, <1>11, <1>12, <1>13, <1>14, <1>15, <1>16, <1>17,
     <1>18 DEF Step, Work, ClientMain, ServerMain

LEMMA TypeInvStep == TypeInv /\ [Step]_vars => TypeInv'
<1> SUFFICES ASSUME TypeInv, [Step]_vars PROVE TypeInv'
  OBVIOUS
<1>1. Typed'
  BY TypedNext
<1>2. Flags'
  BY FlagsNext DEF TypeInv
<1>3. ClientOrder' /\ ServerOrder'
  BY <1>1, ClientOrderNext, ServerOrderNext
<1>4. Ordered'
  <2>1. (ClientOrder' /\ ServerOrder') => Ordered'
    BY DEF Ordered, ClientOrder, ServerOrder, Host
  <2> QED
    BY <1>3, <2>1
<1> QED
  BY <1>1, <1>2, <1>4 DEF TypeInv

LEMMA NextIs == Next => Step \/ Tears
BY DEF Next, Step

\* After Tears, whatever is the case while Running is no longer claimed.
LEMMA TearsStops ==
  ASSUME TypeInv, Tears
  PROVE  /\ torn' = TRUE /\ ~ Running' /\ TypeInv'
         /\ UNCHANGED <<endpoints, out, held, net, addr, server, client, late>>
<1>1. torn' = TRUE /\ UNCHANGED <<endpoints, out, held, net, addr, server, client, late>>
  BY Zenon DEF Tears
<1>2. Typed'
  BY <1>1 DEF TypeInv, Typed, endpoints, net, server, client
<1>3. Flags'
  BY <1>1 DEF TypeInv, Flags, client
<1>4. Ordered'
  <2>1. UNCHANGED <<lastSent, lastAcked, lastRead, sendBuff, recvBuff, spc>>
    BY <1>1 DEF endpoints, server
  <2> QED
    BY <1>1, <2>1 DEF TypeInv, Ordered, lastWrite, lastRecved, HalfReset
<1> QED
  BY <1>1, <1>2, <1>3, <1>4 DEF TypeInv, Running

LEMMA TypeInvNext == TypeInv /\ [Next]_vars => TypeInv'
BY TypeInvStep, TearsStops, NextIs

LEMMA TypeInvariant == Spec => []TypeInv
BY TypeInit, TypeInvNext, PTL DEF Spec

\* TypeOK: lastRead never passes lastRecved, at every store of initResf and
\* whatever the threads do; and until threads meet half way no store of initResf
\* takes lastSent past lastWrite, nor lastAcked past lastSent but for the one
\* that follows.  For every number of clients, every length of a segment and of
\* the buffer, and whatever the unwritten slots hold.
THEOREM TypeCorrect == Spec => []TypeOK
BY TypeInvariant, TypeInvGives, PTL

-----------------------------------------------------------------------------
(* Parts of a sequence of bytes, and segments that carry one               *)

\* s is what bytes has after position k.
Part(s, bytes, k) == \A i \in 1 .. Len(s) : s[i] = bytes[k + i]

\* The segments of q carry bytes, in order, from after position k to position e.
Chain(q, k, e, bytes) ==
  \E P \in [1 .. Len(q) + 1 -> Nat] :
    /\ P[1] = k /\ P[Len(q) + 1] = e
    /\ \A i, j \in 1 .. Len(q) + 1 : i <= j => P[i] <= P[j]
    /\ \A i \in 1 .. Len(q) :
         /\ P[i + 1] = P[i] + Len(q[i].data)
         /\ q[i].data # << >> => q[i].seqNum = P[i]
         /\ Part(q[i].data, bytes, P[i])

\* A sender that has had acked acknowledged and has sent sent will have n
\* acknowledged at least, when it has received the segments of q.
Underway(n, acked, sent, q) ==
  \/ acked >= n
  \/ \E i \in 1 .. Len(q) : q[i].flags = 1 /\ q[i].ackNum \in n .. sent

LEMMA EmptyIs == ASSUME NEW S, NEW s \in Seq(S) PROVE s = << >> <=> Len(s) = 0
<1>1. Len(<< >>) = 0
  BY EmptySeq
<1>2. s # << >> => Len(s) \in Nat \ {0}
  BY EmptySeq
<1> QED
  BY <1>1, <1>2

LEMMA PartConcat ==
  ASSUME NEW s \in Seq(Byte), NEW t \in Seq(Byte), NEW bytes, NEW k \in Nat,
         Part(s, bytes, k), Part(t, bytes, k + Len(s))
  PROVE  Part(s \o t, bytes, k)
<1> DEFINE u == s \o t
<1>1. /\ Len(u) = Len(s) + Len(t) /\ Len(s) \in Nat /\ Len(t) \in Nat
      /\ \A i \in 1 .. Len(s) : u[i] = s[i]
      /\ \A i \in 1 .. Len(t) : u[Len(s) + i] = t[i]
  BY Appended
<1> HIDE DEF u
<1> SUFFICES ASSUME NEW i \in 1 .. Len(u) PROVE u[i] = bytes[k + i]
  BY DEF Part, u
<1>2. CASE i <= Len(s)
  BY <1>1, <1>2 DEF Part
<1>3. CASE i > Len(s)
  <2>1. i - Len(s) \in 1 .. Len(t) /\ Len(s) + (i - Len(s)) = i
        /\ (k + Len(s)) + (i - Len(s)) = k + i
    BY <1>1, <1>3
  <2>2. u[Len(s) + (i - Len(s))] = t[i - Len(s)]
    BY <1>1, <2>1
  <2>3. t[i - Len(s)] = bytes[(k + Len(s)) + (i - Len(s))]
    BY <2>1 DEF Part
  <2> QED
    BY <2>1, <2>2, <2>3
<1> QED
  BY <1>1, <1>2, <1>3

\* A part of a part.
LEMMA PartOf ==
  ASSUME NEW s \in Seq(Byte), NEW t \in Seq(Byte), NEW bytes, NEW k \in Nat, NEW m \in Nat,
         Part(s, bytes, k), m + Len(t) <= Len(s),
         \A i \in 1 .. Len(t) : t[i] = s[m + i]
  PROVE  Part(t, bytes, k + m)
<1> SUFFICES ASSUME NEW i \in 1 .. Len(t) PROVE t[i] = bytes[(k + m) + i]
  BY DEF Part
<1>1. Len(s) \in Nat /\ Len(t) \in Nat
  BY LenProperties
<1>2. m + i \in 1 .. Len(s) /\ (k + m) + i = k + (m + i)
  BY <1>1
<1>3. s[m + i] = bytes[k + (m + i)]
  BY <1>2 DEF Part
<1> QED
  BY <1>2, <1>3

LEMMA ChainEmpty ==
  ASSUME NEW k \in Nat, NEW e, NEW bytes
  PROVE  Chain(<< >>, k, e, bytes) <=> k = e
<1>1. Len(<< >>) = 0 /\ 1 .. 0 = {} /\ 0 + 1 = 1
  OBVIOUS
<1>2. ASSUME Chain(<< >>, k, e, bytes) PROVE k = e
  BY <1>1, <1>2 DEF Chain
<1>3. ASSUME k = e PROVE Chain(<< >>, k, e, bytes)
  <2> DEFINE P == [i \in 1 .. 1 |-> k]
  <2>1. /\ P \in [1 .. 1 -> Nat] /\ P[1] = k
        /\ \A i, j \in 1 .. 1 : i <= j => P[i] <= P[j]
    OBVIOUS
  <2> HIDE DEF P
  <2> QED
    BY <1>1, <1>3, <2>1 DEF Chain
<1> QED
  BY <1>2, <1>3

\* What a chain says of its ends and of each of its segments.
LEMMA ChainIs ==
  ASSUME NEW q \in Seq(Seg), NEW k, NEW e, NEW bytes, Chain(q, k, e, bytes)
  PROVE  /\ k \in Nat /\ e \in Nat /\ k <= e
         /\ \A i \in 1 .. Len(q) : q[i].data # << >> => q[i].seqNum >= k
<1>1. PICK P \in [1 .. Len(q) + 1 -> Nat] :
        /\ P[1] = k /\ P[Len(q) + 1] = e
        /\ \A i, j \in 1 .. Len(q) + 1 : i <= j => P[i] <= P[j]
        /\ \A i \in 1 .. Len(q) : q[i].data # << >> => q[i].seqNum = P[i]
  BY DEF Chain
<1>2. Len(q) \in Nat
  BY LenProperties
<1>3. 1 \in 1 .. Len(q) + 1 /\ Len(q) + 1 \in 1 .. Len(q) + 1 /\ 1 <= Len(q) + 1
  BY <1>2
<1>4. \A i \in 1 .. Len(q) : i \in 1 .. Len(q) + 1 /\ 1 <= i
  BY <1>2
<1>5. P[1] <= P[Len(q) + 1] /\ \A i \in 1 .. Len(q) : P[1] <= P[i]
  BY <1>1, <1>3, <1>4
<1> QED
  BY <1>1, <1>2, <1>3, <1>4, <1>5

LEMMA ChainAppend ==
  ASSUME NEW q \in Seq(Seg), NEW k, NEW e, NEW bytes, Chain(q, k, e, bytes),
         NEW seg \in Seg, seg.data # << >> => seg.seqNum = e, Part(seg.data, bytes, e)
  PROVE  Chain(Append(q, seg), k, e + Len(seg.data), bytes)
<1> DEFINE n == Len(q)
           d == Len(seg.data)
           r == Append(q, seg)
<1>1. PICK P \in [1 .. n + 1 -> Nat] :
        /\ P[1] = k /\ P[n + 1] = e
        /\ \A i, j \in 1 .. n + 1 : i <= j => P[i] <= P[j]
        /\ \A i \in 1 .. n : /\ P[i + 1] = P[i] + Len(q[i].data)
                             /\ q[i].data # << >> => q[i].seqNum = P[i]
                             /\ Part(q[i].data, bytes, P[i])
  BY DEF Chain
<1>2. n \in Nat
  BY LenProperties
<1>3. d \in Nat
  <2>1. seg.data \in Seq(Byte)
    BY DEF Seg
  <2> QED
    BY <2>1, LenProperties
<1>4. Len(r) = n + 1 /\ (\A i \in 1 .. n : r[i] = q[i]) /\ r[n + 1] = seg
  BY AppendProperties
<1> HIDE DEF n, d, r
<1> DEFINE R == [i \in 1 .. n + 2 |-> IF i = n + 2 THEN e + d ELSE P[i]]
<1>5. e \in Nat /\ \A i \in 1 .. n + 1 : P[i] \in Nat /\ P[i] <= e
  BY <1>1, <1>2
<1>6. R \in [1 .. n + 2 -> Nat] /\ (\A i \in 1 .. n + 1 : R[i] = P[i]) /\ R[n + 2] = e + d
  <2>1. \A i \in 1 .. n + 2 : i = n + 2 \/ i \in 1 .. n + 1
    BY <1>2
  <2>2. \A i \in 1 .. n + 2 : (IF i = n + 2 THEN e + d ELSE P[i]) \in Nat
    BY <1>3, <1>5, <2>1
  <2>3. \A i \in 1 .. n + 1 : i \in 1 .. n + 2 /\ i # n + 2
    BY <1>2
  <2>4. n + 2 \in 1 .. n + 2
    BY <1>2
  <2> QED
    BY <2>2, <2>3, <2>4
<1> HIDE DEF R
<1>7. \A i, j \in 1 .. n + 2 : i <= j => R[i] <= R[j]
  <2> SUFFICES ASSUME NEW i \in 1 .. n + 2, NEW j \in 1 .. n + 2, i <= j PROVE R[i] <= R[j]
    OBVIOUS
  <2>1. CASE j \in 1 .. n + 1
    BY <1>1, <1>2, <1>6, <2>1
  <2>2. CASE j = n + 2 /\ i \in 1 .. n + 1
    BY <1>3, <1>5, <1>6, <2>2
  <2>3. CASE j = n + 2 /\ i = n + 2
    BY <1>3, <1>5, <1>6, <2>3
  <2> QED
    BY <1>2, <2>1, <2>2, <2>3
<1>8. ASSUME NEW i \in 1 .. n + 1
      PROVE  /\ R[i + 1] = R[i] + Len(r[i].data)
             /\ r[i].data # << >> => r[i].seqNum = R[i]
             /\ Part(r[i].data, bytes, R[i])
  <2>1. CASE i \in 1 .. n
    <3>1. R[i] = P[i] /\ R[i + 1] = P[i + 1] /\ r[i] = q[i]
      BY <1>2, <1>4, <1>6, <2>1
    <3> QED
      BY <1>1, <2>1, <3>1
  <2>2. CASE i = n + 1
    <3>1. R[i] = e /\ R[i + 1] = e + d /\ r[i] = seg
      BY <1>1, <1>2, <1>4, <1>6, <2>2
    <3> QED
      BY <3>1 DEF d
  <2> QED
    BY <1>2, <2>1, <2>2
<1>9. R[1] = k /\ (n + 1) + 1 = n + 2
  BY <1>1, <1>2, <1>6
<1>10. \E Q \in [1 .. Len(r) + 1 -> Nat] :
         /\ Q[1] = k /\ Q[Len(r) + 1] = e + d
         /\ \A i, j \in 1 .. Len(r) + 1 : i <= j => Q[i] <= Q[j]
         /\ \A i \in 1 .. Len(r) : /\ Q[i + 1] = Q[i] + Len(r[i].data)
                                   /\ r[i].data # << >> => r[i].seqNum = Q[i]
                                   /\ Part(r[i].data, bytes, Q[i])
  BY <1>4, <1>6, <1>7, <1>8, <1>9
<1> QED
  BY <1>10 DEF Chain, r, d

LEMMA ChainTail ==
  ASSUME NEW q \in Seq(Seg), NEW k, NEW e, NEW bytes, Chain(q, k, e, bytes), q # << >>
  PROVE  /\ Head(q) \in Seg /\ Head(q).data \in Seq(Byte)
         /\ Head(q).data # << >> => Head(q).seqNum = k
         /\ Part(Head(q).data, bytes, k)
         /\ k + Len(Head(q).data) <= e
         /\ Chain(Tail(q), k + Len(Head(q).data), e, bytes)
<1> DEFINE n == Len(q)
           r == Tail(q)
<1>1. PICK P \in [1 .. n + 1 -> Nat] :
        /\ P[1] = k /\ P[n + 1] = e
        /\ \A i, j \in 1 .. n + 1 : i <= j => P[i] <= P[j]
        /\ \A i \in 1 .. n : /\ P[i + 1] = P[i] + Len(q[i].data)
                             /\ q[i].data # << >> => q[i].seqNum = P[i]
                             /\ Part(q[i].data, bytes, P[i])
  BY DEF Chain
<1>2. n \in Nat \ {0} /\ Head(q) \in Seg /\ Head(q) = q[1] /\ r \in Seq(Seg)
      /\ Len(r) = n - 1 /\ \A i \in 1 .. n - 1 : r[i] = q[i + 1]
  <2>1. n \in Nat \ {0}
    BY EmptySeq
  <2> QED
    BY <2>1, HeadTailProperties
<1>3. Head(q).data \in Seq(Byte)
  BY <1>2 DEF Seg
<1> HIDE DEF n, r
<1> DEFINE d == Len(Head(q).data)
<1>4. d \in Nat
  BY <1>3, LenProperties
<1>5. /\ Head(q).data # << >> => Head(q).seqNum = k
      /\ Part(Head(q).data, bytes, k) /\ P[2] = k + d
  <2>1. 1 \in 1 .. n /\ 1 + 1 = 2
    BY <1>2
  <2> QED
    BY <1>1, <1>2, <2>1
<1>6. k + d <= e
  <2>1. 2 \in 1 .. n + 1 /\ n + 1 \in 1 .. n + 1 /\ 2 <= n + 1
    BY <1>2
  <2> QED
    BY <1>1, <1>5, <2>1
<1> HIDE DEF d
<1> DEFINE R == [i \in 1 .. n |-> P[i + 1]]
<1>7. \A i \in 1 .. n : i + 1 \in 1 .. n + 1
  BY <1>2
<1>8. R \in [1 .. n -> Nat] /\ \A i \in 1 .. n : R[i] = P[i + 1]
  BY <1>1, <1>7
<1> HIDE DEF R
<1>9. (n - 1) + 1 = n /\ \A i \in 1 .. n - 1 : i \in 1 .. n /\ i + 1 \in 1 .. n
  BY <1>2
<1>10. \A i, j \in 1 .. n : i <= j => R[i] <= R[j]
  <2> SUFFICES ASSUME NEW i \in 1 .. n, NEW j \in 1 .. n, i <= j PROVE R[i] <= R[j]
    OBVIOUS
  <2>1. i + 1 \in 1 .. n + 1 /\ j + 1 \in 1 .. n + 1 /\ i + 1 <= j + 1
    BY <1>2
  <2> QED
    BY <1>1, <1>8, <2>1
<1>11. ASSUME NEW i \in 1 .. n - 1
       PROVE  /\ R[i + 1] = R[i] + Len(r[i].data)
              /\ r[i].data # << >> => r[i].seqNum = R[i]
              /\ Part(r[i].data, bytes, R[i])
  <2>1. R[i] = P[i + 1] /\ R[i + 1] = P[(i + 1) + 1] /\ r[i] = q[i + 1] /\ i + 1 \in 1 .. n
    BY <1>2, <1>8, <1>9
  <2> QED
    BY <1>1, <2>1
<1>12. R[1] = k + d /\ R[n] = e
  <2>1. 1 \in 1 .. n /\ n \in 1 .. n /\ 1 + 1 = 2
    BY <1>2
  <2> QED
    BY <1>1, <1>5, <1>8, <2>1
<1>13. \E Q \in [1 .. Len(r) + 1 -> Nat] :
         /\ Q[1] = k + d /\ Q[Len(r) + 1] = e
         /\ \A i, j \in 1 .. Len(r) + 1 : i <= j => Q[i] <= Q[j]
         /\ \A i \in 1 .. Len(r) : /\ Q[i + 1] = Q[i] + Len(r[i].data)
                                   /\ r[i].data # << >> => r[i].seqNum = Q[i]
                                   /\ Part(r[i].data, bytes, Q[i])
  BY <1>2, <1>8, <1>9, <1>10, <1>11, <1>12
<1> QED
  BY <1>2, <1>3, <1>5, <1>6, <1>13 DEF Chain, r, d

-----------------------------------------------------------------------------
(* One client and the server                                               *)

\* What the client asks for, and how far its segments have got.
Asked == want[cur]

Pipe == [i \in 1 .. Len(held) + Len(toServer) |->
           IF i <= Len(held) THEN held[i].seg ELSE toServer[i - Len(held)].seg]

\* All that is under way comes from this client.
FromCur ==
  /\ \A i \in 1 .. Len(toServer) : toServer[i].from = cur
  /\ held # None => addr = cur

\* The client has written a part of its request, and has the rest.
Writing ==
  /\ Len(out) = 12 - lastWrite("client")
  /\ Part(sendBuff["client"], Req(Asked), 0)
  /\ Part(out, Req(Asked), lastWrite("client"))

\* It has received a part of the response with file f.
Gets(f) ==
  /\ Part(recvBuff["client"], Resp(f), 0)
  /\ lastRecved("client") \in 0 .. 11 + FileLen
  /\ lastRecved("client") > 0 => f \in Existing

\* How far its main function has got with it.
Reads(f) ==
  \/ cpc = "status" /\ lastRead["client"] = 0 /\ left = -1 /\ saved[cur] = << >>
  \/ cpc = "header" /\ lastRead["client"] = 3 /\ left = -1 /\ saved[cur] = << >>
  \/ cpc = "header" /\ lastRead["client"] = 9 /\ left = FileLen /\ saved[cur] = << >>
  \/ /\ cpc \in {"body", "done"}
     /\ lastRead["client"] = 11 + Len(saved[cur]) /\ left = FileLen - Len(saved[cur])
     /\ cpc = "done" => left = 0
     /\ Part(saved[cur], Resp(f), 11)

\* The response with file f has been sent up to e.
Carries(f, e) ==
  /\ e \in 0 .. 11 + FileLen /\ (e > 0 => f \in Existing)
  /\ Chain(toClient, lastRecved("client"), e, Resp(f))

\* It is the file the client has asked for.
Copying    == Gets(Asked)
Reading    == Reads(Asked)
Answers(e) == Carries(Asked, e)

\* The server has received a part of the request, the rest is under way or not
\* sent, and so is the last acknowledgment.
Requests ==
  /\ Chain(Pipe, lastRecved("server"), lastSent["client"], Req(Asked))
  /\ Part(recvBuff["server"], Req(Asked), 0)
  /\ lastAcked["client"] <= lastRecved("server")
  /\ \A i \in 1 .. Len(toClient) :
       toClient[i].flags = 1 => toClient[i].ackNum <= lastRecved("server")
  /\ Underway(lastRecved("server"), lastAcked["client"], lastSent["client"], toClient)

\* The four parts of an exchange.  The server has no line yet;
Asking ==
  /\ spc = "poll" /\ Requests /\ Answers(0)
  /\ lastRecved("server") > 0 => addr = cur

\* it answers;
Answering ==
  /\ spc \in {"body", "blank", "drain", "lastSent"}
  /\ Requests /\ lastRecved("server") > 0 /\ addr = cur
  /\ Asked \in Existing /\ file = Content[Asked]
  /\ lastWrite("server") = 11 + pos
  /\ Part(sendBuff["server"], Resp(Asked), 0)
  /\ spc # "body" => pos = FileLen
  /\ spc = "lastSent" => lastSent["server"] = 11 + FileLen
  /\ Answers(lastSent["server"])

\* it resets its Resf, up to lastRecved;
Clearing ==
  /\ spc \in {"lastAcked", "lastWrite", "lastRead", "lastRecved"}
  /\ Requests /\ lastRecved("server") > 0
  /\ Answers(11 + FileLen)

\* it takes nothing of this client any more, whose segments are all old.
Rested ==
  /\ spc \in {"sockFd", "addr", "waitTime", "poll"}
  /\ recvBuff["server"] = << >> /\ lastSent["client"] >= 1
  /\ \A i \in 1 .. Len(Pipe) : Pipe[i].data # << >> => Pipe[i].seqNum >= 1
  /\ Underway(1, lastAcked["client"], lastSent["client"], toClient)
  /\ Answers(11 + FileLen)

Active == Running /\ cur > 0

\* What ends the request is not read before the file has been served.
Unended == spc \in {"body", "blank"} => lastRead["server"] <= 10

Exchange ==
  /\ FromCur /\ Writing /\ Copying /\ Reading /\ Unended
  /\ Asking \/ Answering \/ Clearing \/ Rested

\* Before the first client, nothing is there.
Silent ==
  /\ toServer = << >> /\ held = None /\ out = << >> /\ cpc = "done"
  /\ sendBuff["client"] = << >> /\ recvBuff["server"] = << >>
  /\ spc = "poll"

SessionInv ==
  /\ TypeInv
  /\ Active /\ ready[cur] => Exchange
  /\ cur = 0 => Silent
  /\ \A c \in Clients : c > cur => saved[c] = << >>
  /\ ServerStays

LEMMA ActiveIs ==
  ASSUME TypeInv, Active
  PROVE  /\ Typed /\ Running /\ cur \in Clients /\ cur \in Nat /\ Asked \in Names
         /\ "client" \in Host /\ "server" \in Host
         /\ lastSent["client"] <= lastWrite("client") /\ lastSent["server"] <= lastWrite("server")
         /\ lastAcked["client"] <= lastSent["client"]
<1>1. Typed /\ Running /\ cur > 0 /\ "client" \in Host /\ "server" \in Host
  BY DEF TypeInv, Active, Host
<1>2. cur \in Clients /\ cur \in Nat
  BY <1>1, SessionParams DEF Typed, Clients
<1>3. Asked \in Names
  BY <1>1, <1>2 DEF Typed, Asked
<1> QED
  BY <1>1, <1>2, <1>3, SentOrder DEF TypeInv, Ordered

\* A segment of what has been written carries it, and survives strncpy.
LEMMA Carried ==
  ASSUME Typed, NEW h \in Host, lastSent[h] <= lastWrite(h), NEW a \in Nat, NEW fl \in 0 .. 1,
         NEW bytes, NEW m \in Nat, lastWrite(h) <= m, \A i \in 1 .. m : bytes[i] # NUL,
         Part(sendBuff[h], bytes, 0)
  PROVE  LET seg == NewData(h, a, fl) IN
         /\ seg \in Seg /\ Received(seg) = seg
         /\ seg.seqNum = lastSent[h] /\ seg.ackNum = a /\ seg.flags = fl
         /\ Len(seg.data) = NextLen(h) /\ Part(seg.data, bytes, lastSent[h])
<1> DEFINE seg == NewData(h, a, fl)
           s == lastSent[h]
           n == NextLen(h)
<1>1. /\ seg \in Seg /\ Len(seg.data) = n
      /\ \A i \in 1 .. n : seg.data[i] = sendBuff[h][s + i]
  BY NewDataIs
<1>2. seg.seqNum = s /\ seg.ackNum = a /\ seg.flags = fl
  BY DEF NewData
<1>3. s \in Nat /\ n \in Nat /\ s + n <= lastWrite(h) /\ lastWrite(h) \in Nat
  BY Lengths, NextLenIs
<1>4. seg.data \in Seq(Byte)
  BY <1>1 DEF Seg
<1> HIDE DEF seg, s, n
<1>5. \A i \in 1 .. n : s + i \in 1 .. lastWrite(h) /\ s + i \in 1 .. m
  BY <1>3
<1>6. \A i \in 1 .. lastWrite(h) : sendBuff[h][i] = bytes[i]
  BY <1>3 DEF Part, lastWrite
<1>7. \A i \in 1 .. n : seg.data[i] = bytes[s + i] /\ seg.data[i] # 0
  BY <1>1, <1>5, <1>6 DEF NUL
<1>8. Part(seg.data, bytes, s)
  BY <1>1, <1>7 DEF Part
<1>9. Received(seg) = seg
  <2>1. CopyOf!Copied(seg.data) = seg.data
    <3>1. seg.data \in Seq(CopyOf!Byte) /\ \A i \in 1 .. Len(seg.data) : seg.data[i] # 0
      BY <1>1, <1>4, <1>7 DEF Byte, CopyOf!Byte
    <3> QED
      BY <3>1, CopyOf!TextIsCopied
  <2>2. Copied(seg.data) = seg.data
    BY <2>1 DEF Copied, CopyOf!Copied
  <2> QED
    BY <1>1, <2>2 DEF Received, Seg
<1> QED
  BY <1>1, <1>2, <1>8, <1>9 DEF seg, s, n

\* The answer to data in order acknowledges it, and carries new data.
LEMMA AnswerIs ==
  ASSUME Typed, NEW h \in Host, lastSent[h] <= lastWrite(h), NEW seg \in Seg,
         NEW bytes, NEW m \in Nat, lastWrite(h) <= m, \A i \in 1 .. m : bytes[i] # NUL,
         Part(sendBuff[h], bytes, 0)
  PROVE  LET r == Received(Answer(h, seg)) IN
         /\ Answer(h, seg) \in Seg /\ r \in Seg /\ r.flags = 1
         /\ r.ackNum = lastRecved(h) + Len(seg.data)
         /\ r.data # << >> => r.seqNum = lastSent[h]
         /\ Len(r.data) = NextLen(h) /\ Part(r.data, bytes, lastSent[h])
<1> DEFINE a == lastRecved(h) + Len(seg.data)
<1>1. a \in Nat
  <2>1. seg.data \in Seq(Byte)
    BY DEF Seg
  <2> QED
    BY <2>1, Lengths, LenProperties
<1>2. NextLen(h) \in Nat
  BY NextLenIs
<1> HIDE DEF a
<1>3. CASE NextLen(h) > 0
  <2>1. Answer(h, seg) = NewData(h, a, 1)
    BY <1>3 DEF Answer, a
  <2> DEFINE r == NewData(h, a, 1)
  <2>2. /\ r \in Seg /\ Received(r) = r
        /\ r.seqNum = lastSent[h] /\ r.ackNum = a /\ r.flags = 1
        /\ Len(r.data) = NextLen(h) /\ Part(r.data, bytes, lastSent[h])
    BY <1>1, Carried
  <2> HIDE DEF r
  <2> QED
    BY <2>1, <2>2 DEF a, r
<1>4. CASE ~ (NextLen(h) > 0)
  <2> DEFINE r == [seqNum |-> 0, ackNum |-> a, flags |-> 1, data |-> << >>]
  <2>1. Answer(h, seg) = r
    BY <1>4 DEF Answer, a
  <2>2. r \in Seg /\ r.data = << >> /\ r.ackNum = a /\ r.flags = 1
    BY <1>1, EmptySeq DEF Seg
  <2>3. Len(r.data) = 0
    BY <2>2, EmptySeq
  <2> HIDE DEF r
  <2>4. /\ Received(r) \in Seg /\ Received(r).ackNum = a /\ Received(r).flags = 1
        /\ Len(Received(r).data) = 0
    BY <2>2, <2>3, ReceivedType
  <2>5. Received(r).data = << >> /\ Part(Received(r).data, bytes, lastSent[h])
    <3>1. Received(r).data \in Seq(Byte)
      BY <2>4 DEF Seg
    <3> QED
      BY <2>4, <3>1, EmptyIs DEF Part
  <2> QED
    BY <1>2, <1>4, <2>1, <2>2, <2>4, <2>5 DEF a
<1> QED
  BY <1>3, <1>4

LEMMA PipeIs ==
  ASSUME Typed
  PROVE  /\ Pipe \in Seq(Seg) /\ Len(Pipe) = Len(held) + Len(toServer)
         /\ Len(held) \in Nat /\ Len(toServer) \in Nat
         /\ \A i \in 1 .. Len(held) + Len(toServer) :
              Pipe[i] = IF i <= Len(held) THEN held[i].seg ELSE toServer[i - Len(held)].seg
<1> DEFINE S == [seg : Seg, fresh : BOOLEAN]
           T == [from : 0 .. cur, seg : Seg]
           m == Len(held)
           n == Len(toServer)
<1>1. held \in Seq(S) /\ toServer \in Seq(T)
  BY DEF Typed
<1>2. /\ m \in Nat /\ n \in Nat
      /\ \A i \in 1 .. m : held[i] \in S
      /\ \A i \in 1 .. n : toServer[i] \in T
  <2> HIDE DEF S, T
  <2> QED
    BY <1>1, LenProperties, ElementOfSeq
<1>3. /\ \A i \in 1 .. m : held[i].seg \in Seg
      /\ \A i \in 1 .. n : toServer[i].seg \in Seg
  BY <1>2
<1> HIDE DEF m, n
<1> DEFINE at(i) == IF i <= m THEN held[i].seg ELSE toServer[i - m].seg
<1>4. \A i \in 1 .. m + n : at(i) \in Seg
  <2> TAKE i \in 1 .. m + n
  <2>1. CASE i <= m
    BY <1>2, <1>3, <2>1
  <2>2. CASE ~ (i <= m)
    <3>1. i - m \in 1 .. n
      BY <1>2, <2>2
    <3> QED
      BY <1>3, <2>2, <3>1
  <2> QED
    BY <2>1, <2>2
<1>5. Pipe = [i \in 1 .. m + n |-> at(i)]
  BY DEF Pipe, m, n
<1> HIDE DEF at
<1>6. Pipe \in [1 .. m + n -> Seg] /\ \A i \in 1 .. m + n : Pipe[i] = at(i)
  BY <1>4, <1>5
<1>7. Pipe \in Seq(Seg) /\ Len(Pipe) = m + n
  BY <1>2, <1>5, <1>6
<1> QED
  BY <1>2, <1>6, <1>7 DEF at, m, n

LEMMA PipeTakes == ASSUME Typed, Typed', ServerTakes PROVE Pipe' = Pipe
<1>1. /\ held = << >> /\ Len(held) = 0 /\ Len(held') = 1 /\ held'[1].seg = toServer[1].seg
      /\ Len(toServer) \in Nat \ {0} /\ Len(toServer') = Len(toServer) - 1
      /\ \A i \in 1 .. Len(toServer') : toServer'[i] = toServer[i + 1]
  BY TakenTypes DEF ServerTakes, None
<1> DEFINE n == Len(toServer)
<1>2. /\ Pipe \in Seq(Seg) /\ Len(Pipe) = n
      /\ \A i \in 1 .. n : Pipe[i] = toServer[i].seg
  <2>1. /\ Pipe \in Seq(Seg) /\ Len(Pipe) = 0 + n
        /\ \A i \in 1 .. 0 + n : Pipe[i] = IF i <= 0 THEN held[i].seg ELSE toServer[i - 0].seg
    BY <1>1, PipeIs
  <2>2. 0 + n = n /\ \A i \in 1 .. n : ~ (i <= 0) /\ i - 0 = i
    BY <1>1
  <2> QED
    BY <2>1, <2>2
<1>3. /\ Pipe' \in Seq(Seg) /\ Len(Pipe') = n
      /\ \A i \in 1 .. n : Pipe'[i] = toServer[i].seg
  <2> HIDE DEF n
  <2>1. /\ Pipe' = [i \in 1 .. Len(held') + Len(toServer') |->
                     IF i <= Len(held') THEN held'[i].seg ELSE toServer'[i - Len(held')].seg]
    BY DEF Pipe
  <2>2. n \in Nat \ {0} /\ Len(held') = 1 /\ Len(toServer') = n - 1 /\ 1 + (n - 1) = n
    BY <1>1 DEF n
  <2>3. Pipe' = [i \in 1 .. n |-> IF i <= 1 THEN held'[i].seg ELSE toServer'[i - 1].seg]
    BY <2>1, <2>2
  <2>4. \A i \in 1 .. n : ~ (i <= 1) => toServer'[i - 1] = toServer[i]
    <3> TAKE i \in 1 .. n
    <3>1. ~ (i <= 1) => i - 1 \in 1 .. n - 1 /\ (i - 1) + 1 = i
      BY <2>2
    <3> QED
      BY <1>1, <2>2, <3>1
  <2>5. \A i \in 1 .. n : Pipe'[i] = toServer[i].seg
    <3> TAKE i \in 1 .. n
    <3>1. CASE i = 1
      BY <1>1, <2>2, <2>3, <3>1
    <3>2. CASE ~ (i <= 1)
      BY <2>3, <2>4, <3>2
    <3> QED
      BY <2>2, <3>1, <3>2
  <2>6. \A i \in 1 .. n : toServer[i].seg \in Seg
    <3>1. \A i \in 1 .. n : Pipe[i] \in Seg
      BY <1>2, <2>2, ElementOfSeq
    <3> QED
      BY <1>2, <3>1
  <2>7. Pipe' = [i \in 1 .. n |-> toServer[i].seg]
    <3> DEFINE at(i) == IF i <= 1 THEN held'[i].seg ELSE toServer'[i - 1].seg
    <3>1. \A i \in 1 .. n : at(i) = toServer[i].seg
      BY <2>3, <2>5
    <3>2. Pipe' = [i \in 1 .. n |-> at(i)]
      BY <2>3
    <3> HIDE DEF at
    <3> QED
      BY <3>1, <3>2
  <2> QED
    BY <2>2, <2>5, <2>6, <2>7
<1> QED
  BY <1>2, <1>3, SeqEqual

LEMMA PipeAppend ==
  ASSUME Typed, NEW seg \in Seg, toServer' = ToServer(seg), held' = held
  PROVE  Pipe' = Append(Pipe, Received(seg))
<1> DEFINE m == Len(held)
           n == Len(toServer)
           r == Received(seg)
<1>1. /\ Pipe \in Seq(Seg) /\ Len(Pipe) = m + n /\ m \in Nat /\ n \in Nat
      /\ \A i \in 1 .. m + n :
           Pipe[i] = IF i <= m THEN held[i].seg ELSE toServer[i - m].seg
  BY PipeIs
<1>2. /\ Len(toServer') = n + 1
      /\ \A i \in 1 .. n : toServer'[i] = toServer[i]
      /\ toServer'[n + 1].seg = r /\ r \in Seg
  <2>1. /\ Len(toServer') = n + 1
        /\ \A i \in 1 .. n : toServer'[i] = toServer[i]
        /\ toServer'[n + 1] = [from |-> cur, seg |-> r]
    BY ToServerIs
  <2>2. r \in Seg
    BY ReceivedType
  <2> HIDE DEF n, r
  <2> QED
    BY <2>1, <2>2
<1> HIDE DEF m, n, r
<1>3. Pipe' = [i \in 1 .. m + (n + 1) |-> IF i <= m THEN held[i].seg ELSE toServer'[i - m].seg]
  <2>1. Pipe' = [i \in 1 .. Len(held') + Len(toServer') |->
                   IF i <= Len(held') THEN held'[i].seg ELSE toServer'[i - Len(held')].seg]
    BY DEF Pipe
  <2> QED
    BY <1>2, <2>1 DEF m
<1> DEFINE t == Append(Pipe, r)
<1>4. /\ t \in Seq(Seg) /\ Len(t) = m + n + 1
      /\ \A i \in 1 .. m + n : t[i] = Pipe[i]
      /\ t[m + n + 1] = r
  BY <1>1, <1>2, AppendProperties
<1> HIDE DEF t
<1>5. \A i \in 1 .. m + n + 1 : Pipe'[i] = t[i]
  <2> TAKE i \in 1 .. m + n + 1
  <2>1. Pipe'[i] = IF i <= m THEN held[i].seg ELSE toServer'[i - m].seg
    BY <1>1, <1>3
  <2>2. CASE i = m + n + 1
    <3>1. ~ (i <= m) /\ i - m = n + 1
      BY <1>1, <2>2
    <3> QED
      BY <1>2, <1>4, <2>1, <2>2, <3>1
  <2>3. CASE i # m + n + 1
    <3>1. i \in 1 .. m + n /\ (~ (i <= m) => i - m \in 1 .. n)
      BY <1>1, <2>3
    <3> QED
      BY <1>1, <1>2, <1>4, <2>1, <3>1
  <2> QED
    BY <2>2, <2>3
<1>6. \A i \in 1 .. m + n + 1 : t[i] \in Seg
  <2>1. Len(t) \in Nat /\ \A i \in 1 .. Len(t) : t[i] \in Seg
    BY <1>4, LenProperties, ElementOfSeq
  <2> QED
    BY <1>4, <2>1
<1>7. Pipe' = [i \in 1 .. m + n + 1 |-> Pipe'[i]] /\ m + n + 1 \in Nat
  <2>1. m + (n + 1) = m + n + 1 /\ m + n + 1 \in Nat
    BY <1>1
  <2> QED
    BY <1>3, <2>1
<1>8. Pipe' \in Seq(Seg) /\ Len(Pipe') = m + n + 1
  BY <1>5, <1>6, <1>7
<1>9. Pipe' = t
  BY <1>4, <1>5, <1>8, SeqEqual
<1> QED
  BY <1>9 DEF t, r

LEMMA PipeTail ==
  ASSUME Typed, held # None, held' = None, toServer' = toServer
  PROVE  Pipe # << >> /\ Head(Pipe) = held[1].seg /\ Pipe' = Tail(Pipe)
<1> DEFINE n == Len(toServer)
<1>1. /\ Pipe \in Seq(Seg) /\ Len(Pipe) = 1 + n /\ n \in Nat
      /\ \A i \in 1 .. 1 + n : Pipe[i] = IF i <= 1 THEN held[i].seg ELSE toServer[i - 1].seg
  <2>1. Len(held) = 1
    BY HeldIs
  <2> QED
    BY <2>1, PipeIs
<1>2. Pipe' = [i \in 1 .. n |-> toServer[i].seg]
  <2>1. Pipe' = [i \in 1 .. Len(held') + Len(toServer') |->
                   IF i <= Len(held') THEN held'[i].seg ELSE toServer'[i - Len(held')].seg]
    BY DEF Pipe
  <2>2. Len(held') = 0 /\ toServer' = toServer
    BY DEF None
  <2>3. 0 + n = n /\ \A i \in 1 .. n : ~ (i <= 0) /\ i - 0 = i
    BY <1>1
  <2>4. Pipe' = [i \in 1 .. 0 + n |-> IF i <= 0 THEN held'[i].seg ELSE toServer[i - 0].seg]
    BY <2>1, <2>2
  <2> HIDE DEF n
  <2> QED
    BY <2>3, <2>4
<1> HIDE DEF n
<1>3. \A i \in 1 .. n : i + 1 \in 1 .. 1 + n /\ ~ (i + 1 <= 1) /\ (i + 1) - 1 = i
  BY <1>1
<1>4. Pipe # << >>
  BY <1>1, EmptyIs
<1> DEFINE t == Tail(Pipe)
<1>5. t \in Seq(Seg) /\ Len(t) = n /\ \A i \in 1 .. n : t[i] = Pipe[i + 1]
  <2>1. /\ t \in Seq(Seg) /\ Len(t) = (1 + n) - 1
        /\ \A i \in 1 .. Len(t) : t[i] = Pipe[i + 1]
    BY <1>1, <1>4, HeadTailProperties
  <2>2. (1 + n) - 1 = n
    BY <1>1
  <2> QED
    BY <2>1, <2>2
<1>6. Head(Pipe) = held[1].seg
  <2>1. Head(Pipe) = Pipe[1]
    BY <1>1, <1>4
  <2>2. 1 \in 1 .. 1 + n /\ 1 <= 1
    BY <1>1
  <2> QED
    BY <1>1, <2>1, <2>2
<1> HIDE DEF t
<1>7. \A i \in 1 .. n : t[i] = toServer[i].seg
  BY <1>1, <1>3, <1>5
<1>8. \A i \in 1 .. n : t[i] \in Seg
  BY <1>1, <1>5, ElementOfSeq
<1>9. Pipe' \in Seq(Seg) /\ Len(Pipe') = n /\ \A i \in 1 .. n : Pipe'[i] = t[i]
  BY <1>1, <1>2, <1>7, <1>8
<1>10. Pipe' = t
  BY <1>5, <1>9, SeqEqual
<1> QED
  BY <1>4, <1>6, <1>10 DEF t

LEMMA UnderwayMore ==
  ASSUME NEW q \in Seq(Seg), NEW seg, NEW n \in Nat, NEW acked, NEW sent \in Nat,
         NEW sent2 \in Nat, sent <= sent2, Underway(n, acked, sent, q)
  PROVE  Underway(n, acked, sent2, q) /\ Underway(n, acked, sent2, Append(q, seg))
<1>1. CASE acked >= n
  BY <1>1 DEF Underway
<1>2. CASE ~ (acked >= n)
  <2>1. PICK i \in 1 .. Len(q) : q[i].flags = 1 /\ q[i].ackNum \in n .. sent
    BY <1>2 DEF Underway
  <2>2. q[i].ackNum \in n .. sent2
    BY <2>1
  <2>3. Len(q) \in Nat /\ Len(Append(q, seg)) = Len(q) + 1 /\ Append(q, seg)[i] = q[i]
    OBVIOUS
  <2>4. i \in 1 .. Len(Append(q, seg))
    BY <2>3
  <2> QED
    BY <2>1, <2>2, <2>3, <2>4 DEF Underway
<1> QED
  BY <1>1, <1>2

LEMMA UnderwayTail ==
  ASSUME NEW q \in Seq(Seg), q # << >>, NEW n \in Nat, NEW acked \in Nat, NEW sent \in Nat,
         NEW sent2 \in Nat, sent <= sent2, NEW acked2, Underway(n, acked, sent, q),
         acked2 = IF /\ Head(q).flags = 1 /\ Head(q).ackNum > acked
                     /\ Head(q).ackNum <= sent
                    THEN Head(q).ackNum ELSE acked
  PROVE  Underway(n, acked2, sent2, Tail(q)) /\ acked <= acked2
<1>1. /\ Len(q) \in Nat \ {0} /\ Head(q) = q[1] /\ Head(q) \in Seg
      /\ Len(Tail(q)) = Len(q) - 1 /\ \A i \in 1 .. Len(q) - 1 : Tail(q)[i] = q[i + 1]
  <2>1. Len(q) \in Nat \ {0}
    BY EmptySeq
  <2> QED
    BY <2>1, HeadTailProperties
<1>2. Head(q).ackNum \in Nat
  BY <1>1 DEF Seg
<1>3. acked <= acked2 /\ acked2 \in Nat
  BY <1>2
<1>4. CASE acked >= n
  <2>1. acked2 >= n
    BY <1>3, <1>4
  <2> QED
    BY <1>3, <2>1 DEF Underway
<1>5. CASE ~ (acked >= n)
  <2>1. PICK i \in 1 .. Len(q) : q[i].flags = 1 /\ q[i].ackNum \in n .. sent
    BY <1>5 DEF Underway
  <2>2. CASE i = 1
    <3>1. acked2 >= n
      BY <1>1, <1>2, <1>5, <2>1, <2>2
    <3> QED
      BY <1>3, <3>1 DEF Underway
  <2>3. CASE i # 1
    <3>1. i - 1 \in 1 .. Len(q) - 1 /\ (i - 1) + 1 = i
      BY <1>1, <2>3
    <3>2. Tail(q)[i - 1] = q[i] /\ q[i].ackNum \in n .. sent2 /\ i - 1 \in 1 .. Len(Tail(q))
      BY <1>1, <2>1, <3>1
    <3> QED
      BY <1>3, <2>1, <3>2 DEF Underway
  <2> QED
    BY <2>2, <2>3
<1> QED
  BY <1>3, <1>4, <1>5

-----------------------------------------------------------------------------
(* What the two programs make of the lines                                 *)

\* The first line of a request is ten bytes long.
LEMMA FirstLine ==
  ASSUME NEW f \in Names, NEW u \in Seq(Byte), Part(u, Req(f), 0), Len(u) <= 12
  PROVE  Find(LF, u, 1) = IF Len(u) >= 10 THEN 10 ELSE Len(u) + 1
<1>1. Len(u) \in Nat /\ \A i \in 1 .. Len(u) : u[i] = Req(f)[i]
  BY LenProperties DEF Part
<1>2. Req(f)[10] = LF /\ \A i \in 1 .. 9 : Req(f)[i] # LF
  <2> DEFINE r == Req(f)
  <2>1. /\ f # LF /\ r[1] = Get /\ r[2] = SP /\ r[3] = Slash /\ r[4] = f
        /\ r[5] = SP /\ r[6] = 72 /\ r[7] = 84 /\ r[8] = 49 /\ r[9] = CR /\ r[10] = LF
    BY ReqIs
  <2> HIDE DEF r
  <2>2. /\ r[1] # LF /\ r[2] # LF /\ r[3] # LF /\ r[4] # LF /\ r[5] # LF /\ r[6] # LF
        /\ r[7] # LF /\ r[8] # LF /\ r[9] # LF
    BY <2>1 DEF Get, SP, Slash, CR, LF
  <2>3. \A i \in 1 .. 9 : \/ i = 1 \/ i = 2 \/ i = 3 \/ i = 4 \/ i = 5 \/ i = 6
                          \/ i = 7 \/ i = 8 \/ i = 9
    OBVIOUS
  <2>4. \A i \in 1 .. 9 : r[i] # LF
    BY <2>2, <2>3, Zenon
  <2> QED
    BY <2>1, <2>4 DEF r
<1> DEFINE k == IF Len(u) >= 10 THEN 10 ELSE Len(u) + 1
<1>3. /\ k \in 1 .. Len(u) + 1 /\ 1 \in 1 .. Len(u) + 1
      /\ k <= Len(u) => k = 10
      /\ \A j \in 1 .. k - 1 : j \in 1 .. 9 /\ j \in 1 .. Len(u)
  BY <1>1
<1> HIDE DEF k
<1>4. k <= Len(u) => u[k] = LF
  <2>1. k <= Len(u) => k = 10 /\ k \in 1 .. Len(u)
    BY <1>1, <1>3
  <2> QED
    BY <1>1, <1>2, <2>1
<1>5. \A j \in 1 .. k - 1 : u[j] # LF
  <2> TAKE j \in 1 .. k - 1
  <2>1. j \in 1 .. 9 /\ j \in 1 .. Len(u)
    BY <1>3
  <2> QED
    BY <1>1, <1>2, <2>1
<1>6. Find(LF, u, 1) = k
  <2>1. Len(u) \in Nat /\ 1 \in 1 .. Len(u) + 1 /\ k \in 1 .. Len(u) + 1
    BY <1>1, <1>3
  <2> QED
    BY <1>4, <1>5, <2>1, FindAt
<1> QED
  BY <1>6 DEF k

\* A part of that line, if it can be parsed at all, has the whole of the path:
\* the version comes after it.
LEMMA RequestParsed ==
  ASSUME NEW f \in Names, NEW str \in Seq(Byte), Part(str, Req(f), 0), Len(str) <= 8
  PROVE  /\ Len(str) = 8 => parseHttpRequestLine(str).ok
         /\ parseHttpRequestLine(str).ok =>
              parseHttpRequestLine(str).path = << Dot, Slash, Slash, f >>
<1> DEFINE n == Len(str)
           second == Skip(SP, str, 1)
           third == Skip(SP, str, second)
           method == WordAt(SP, str, 1)
           path == WordAt(SP, str, second)
           version == WordAt(SP, str, third)
<1>1. n \in 0 .. 8 /\ \A i \in 1 .. n : str[i] = Req(f)[i] /\ str[i] \in Byte
  <2>1. n \in Nat /\ n <= 8
    BY LenProperties
  <2>2. \A i \in 1 .. n : str[i] \in Byte
    BY ElementOfSeq
  <2>3. \A i \in 1 .. n : str[i] = Req(f)[0 + i]
    BY DEF Part
  <2> HIDE DEF n
  <2>4. \A i \in 1 .. n : 0 + i = i
    BY <2>1
  <2> QED
    BY <2>1, <2>2, <2>3, <2>4
<1>2. /\ parseHttpRequestLine(str).ok <=> method # << >> /\ version # << >>
      /\ parseHttpRequestLine(str).path = << Dot, Slash >> \o path
  BY DEF parseHttpRequestLine
<1>3. /\ n >= 1 => str[1] # SP
      /\ n >= 2 => str[2] = SP
      /\ n >= 3 => str[3] = Slash /\ str[3] # SP
      /\ n >= 4 => str[4] = f /\ str[4] # SP
      /\ n >= 5 => str[5] = SP
      /\ n >= 6 => str[6] # SP
      /\ n >= 7 => str[7] # SP
      /\ n >= 8 => str[8] # SP
  <2>1. /\ f # SP /\ Req(f)[1] = Get /\ Req(f)[2] = SP /\ Req(f)[3] = Slash /\ Req(f)[4] = f
        /\ Req(f)[5] = SP /\ Req(f)[6] = 72 /\ Req(f)[7] = 84 /\ Req(f)[8] = 49
    BY ReqIs
  <2>2. Get # SP /\ Slash # SP /\ 72 # SP /\ 84 # SP /\ 49 # SP
    BY DEF Get, SP, Slash
  <2>3. /\ n >= 1 => 1 \in 1 .. n
        /\ n >= 2 => 2 \in 1 .. n
        /\ n >= 3 => 3 \in 1 .. n
        /\ n >= 4 => 4 \in 1 .. n
        /\ n >= 5 => 5 \in 1 .. n
        /\ n >= 6 => 6 \in 1 .. n
        /\ n >= 7 => 7 \in 1 .. n
        /\ n >= 8 => 8 \in 1 .. n
    BY <1>1
  <2> HIDE DEF n
  <2> QED
    BY <1>1, <2>1, <2>2, <2>3
<1> HIDE DEF n
<1>4. n = Len(str)
  BY DEF n
\* Where the words end.
<1>5. Find(SP, str, 1) = IF n >= 2 THEN 2 ELSE n + 1
  <2> DEFINE k == IF n >= 2 THEN 2 ELSE n + 1
  <2>1. /\ k \in 1 .. Len(str) + 1 /\ 1 \in 1 .. Len(str) + 1 /\ Len(str) \in Nat
        /\ k <= Len(str) => str[k] = SP
        /\ \A j \in 1 .. k - 1 : str[j] # SP
    <3>1. \A j \in 1 .. k - 1 : j = 1 /\ n >= 1
      BY <1>1
    <3> QED
      BY <1>1, <1>3, <1>4, <3>1
  <2> HIDE DEF k
  <2>2. Find(SP, str, 1) = k
    BY <2>1, FindAt
  <2> QED
    BY <2>2 DEF k
<1>6. second = IF n >= 2 THEN 3 ELSE n + 1
  BY <1>1, <1>4, <1>5 DEF Skip
<1>7. method = SubSeq(str, 1, IF n >= 2 THEN 1 ELSE n)
  <2>1. (IF n >= 2 THEN 2 ELSE n + 1) - 1 = IF n >= 2 THEN 1 ELSE n
    BY <1>1
  <2> QED
    BY <1>5, <2>1 DEF WordAt
<1>8. Find(SP, str, second) = IF n >= 5 THEN 5 ELSE n + 1
  <2> DEFINE k == IF n >= 5 THEN 5 ELSE n + 1
  <2>1. second \in 1 .. Len(str) + 1 /\ k \in second .. Len(str) + 1 /\ Len(str) \in Nat
    BY <1>1, <1>4, <1>6
  <2>2. /\ k <= Len(str) => str[k] = SP
        /\ \A j \in second .. k - 1 : str[j] # SP
    <3>1. \A j \in second .. k - 1 : \/ j = 3 /\ n >= 3
                                     \/ j = 4 /\ n >= 4
      BY <1>1, <1>6
    <3>2. k <= Len(str) => k = 5 /\ n >= 5
      BY <1>1, <1>4
    <3> HIDE DEF k
    <3> QED
      BY <1>3, <3>1, <3>2
  <2> HIDE DEF k, second
  <2>3. Find(SP, str, second) = k
    BY <2>1, <2>2, FindAt
  <2> QED
    BY <2>3 DEF k
<1>9. third = IF n >= 5 THEN 6 ELSE n + 1
  BY <1>1, <1>4, <1>8 DEF Skip
<1>10. Find(SP, str, third) = n + 1
  <2> DEFINE k == n + 1
  <2>1. third \in 1 .. Len(str) + 1 /\ k \in third .. Len(str) + 1 /\ Len(str) \in Nat
    BY <1>1, <1>4, <1>9
  <2>2. /\ ~ (k <= Len(str))
        /\ \A j \in third .. k - 1 : str[j] # SP
    <3>1. \A j \in third .. k - 1 : \/ j = 6 /\ n >= 6
                                    \/ j = 7 /\ n >= 7
                                    \/ j = 8 /\ n >= 8
      BY <1>1, <1>9
    <3>2. ~ (k <= Len(str))
      BY <1>1, <1>4
    <3> HIDE DEF k
    <3> QED
      BY <1>3, <3>1, <3>2
  <2> HIDE DEF k, third
  <2>3. Find(SP, str, third) = k
    BY <2>1, <2>2, FindAt
  <2> QED
    BY <2>3 DEF k
<1>11. version = SubSeq(str, third, n)
  <2>1. (n + 1) - 1 = n
    BY <1>1
  <2> QED
    BY <1>10, <2>1 DEF WordAt
<1>12. n <= 5 => version = << >>
  <2>1. n <= 5 => third = n + 1 /\ n + 1 \in Int /\ n \in Int /\ n < n + 1
    BY <1>1, <1>9
  <2> HIDE DEF third, version
  <2> QED
    BY <1>11, <2>1, SubSeqEmpty
<1>13. n > 5 => version # << >> /\ method # << >>
  <2> HIDE DEF third, version, method
  <2>1. SUFFICES ASSUME n > 5 PROVE version # << >> /\ method # << >>
    OBVIOUS
  <2>2. third = 6 /\ method = SubSeq(str, 1, 1)
    BY <1>1, <1>7, <1>9, <2>1
  <2>3. \A i \in 6 .. n : str[i] \in Byte
    BY <1>1
  <2>5. Len(version) = n - 6 + 1 /\ Len(method) = 1
    <3>1. 6 \in Int /\ n \in Int /\ 1 \in Int /\ 6 <= n
      BY <1>1, <2>1
    <3>2. Len(SubSeq(str, 6, n)) = n - 6 + 1
      BY <2>3, <3>1, SubSeqProperties
    <3>3. Len(SubSeq(str, 1, 1)) = 1
      <4>1. 1 \in 0 .. Len(str)
        BY <1>1, <1>4, <2>1
      <4> QED
        BY <4>1, PrefixIs
    <3> QED
      BY <1>11, <2>2, <3>2, <3>3
  <2>6. Len(version) # 0 /\ Len(method) # 0 /\ Len(<< >>) = 0
    BY <1>1, <2>1, <2>5
  <2> QED
    BY <2>6
<1>14. n > 5 => path = << Slash, f >>
  <2> SUFFICES ASSUME n > 5 PROVE path = << Slash, f >>
    OBVIOUS
  <2>1. second = 3 /\ Find(SP, str, 3) = 5 /\ 5 - 1 = 4
    BY <1>1, <1>6, <1>8
  <2>2. path = SubSeq(str, 3, 4)
    BY <2>1 DEF WordAt
  <2>3. str[3] = Slash /\ str[4] = f /\ f \in Byte
    <3>1. f \in Byte
      BY ReqIs
    <3>2. n >= 3 /\ n >= 4
      BY <1>1
    <3> QED
      BY <1>3, <3>1, <3>2
  <2>4. \A i \in 3 .. 4 : str[i] \in Byte
    BY <1>1
  <2> HIDE DEF path
  <2>5. path \in Seq(Byte) /\ Len(path) = 2 /\ path[1] = str[3] /\ path[2] = str[4]
    BY <2>2, <2>4, SubSeqProperties
  <2> QED
    BY <2>3, <2>5
<1>15. n > 5 => << Dot, Slash >> \o path = << Dot, Slash, Slash, f >>
  <2> SUFFICES ASSUME n > 5 PROVE << Dot, Slash >> \o path = << Dot, Slash, Slash, f >>
    OBVIOUS
  <2> DEFINE a == << Dot, Slash >>
             b == << Slash, f >>
             c == << Dot, Slash, Slash, f >>
  <2>1. path = b /\ f \in Byte
    BY <1>14, ReqIs
  <2>2. /\ a \in Seq(Byte) /\ Len(a) = 2 /\ a[1] = Dot /\ a[2] = Slash
        /\ b \in Seq(Byte) /\ Len(b) = 2 /\ b[1] = Slash /\ b[2] = f
        /\ c \in Seq(Byte) /\ Len(c) = 4
        /\ c[1] = Dot /\ c[2] = Slash /\ c[3] = Slash /\ c[4] = f
    BY <2>1, CodesAreBytes DEF Dot, Byte
  <2> HIDE DEF a, b, c, path
  <2>3. /\ a \o b \in Seq(Byte) /\ Len(a \o b) = Len(a) + Len(b)
        /\ \A i \in 1 .. Len(a) : (a \o b)[i] = a[i]
        /\ \A i \in 1 .. Len(b) : (a \o b)[Len(a) + i] = b[i]
    BY <2>2, Appended
  <2> DEFINE d == a \o b
  <2> HIDE DEF d
  <2>4. /\ d \in Seq(Byte) /\ Len(d) = 4
        /\ d[1] = Dot /\ d[2] = Slash /\ d[3] = Slash /\ d[4] = f
    BY <2>2, <2>3 DEF d
  <2>5. d = c
    <3>1. \A i \in 1 .. 4 : i = 1 \/ i = 2 \/ i = 3 \/ i = 4
      OBVIOUS
    <3>2. \A i \in 1 .. 4 : d[i] = c[i]
      BY <2>2, <2>4, <3>1, Zenon
    <3> QED
      BY <2>2, <2>4, <3>2, SeqEqual
  <2> QED
    BY <2>1, <2>5 DEF a, c, d
<1> QED
  BY <1>1, <1>2, <1>4, <1>12, <1>13, <1>15

LEMMA RespCodes ==
  ASSUME NEW f \in Existing
  PROVE  /\ Resp(f)[1] = Status /\ Resp(f)[2] = CR /\ Resp(f)[3] = LF
         /\ Resp(f)[4] = ContentLength /\ Resp(f)[5] = Colon /\ Resp(f)[6] = SP
         /\ Resp(f)[7] = Zero + FileLen /\ Resp(f)[8] = CR /\ Resp(f)[9] = LF
         /\ Resp(f)[10] = CR /\ Resp(f)[11] = LF
         /\ FileLen \in 1 .. 9
<1>1. \A i \in 1 .. 11 : Resp(f)[i] = Response(FileLen)[i]
  BY RespIs
<1>2. FileLen \in 1 .. 9
  BY SessionParams
<1> DEFINE r == Response(FileLen)
           p == Resp(f)
<1>3. /\ r[1] = Status /\ r[2] = CR /\ r[3] = LF
      /\ r[4] = ContentLength /\ r[5] = Colon /\ r[6] = SP
      /\ r[7] = Zero + FileLen /\ r[8] = CR /\ r[9] = LF
      /\ r[10] = CR /\ r[11] = LF
  <2>1. FileLen \in 0 .. 9
    BY <1>2
  <2> QED
    BY <2>1, ResponseIs
<1> HIDE DEF r
<1>4. /\ p[1] = r[1] /\ p[2] = r[2] /\ p[3] = r[3] /\ p[4] = r[4] /\ p[5] = r[5] /\ p[6] = r[6]
      /\ p[7] = r[7] /\ p[8] = r[8] /\ p[9] = r[9] /\ p[10] = r[10] /\ p[11] = r[11]
  BY <1>1 DEF r
<1> QED
  BY <1>2, <1>3, <1>4

\* The lines of a response end at 3, 9 and 11.
LEMMA ResponseLines ==
  ASSUME NEW f \in Existing, NEW u \in Seq(Byte), NEW k \in {0, 3, 9},
         Part(u, Resp(f), k), Find(LF, u, 1) <= Len(u)
  PROVE  /\ k = 0 => Find(LF, u, 1) = 3
         /\ k = 3 => Find(LF, u, 1) = 6
         /\ k = 9 => Find(LF, u, 1) = 2
         /\ \A i \in 1 .. Find(LF, u, 1) : u[i] = Resp(f)[k + i]
<1> DEFINE n == Find(LF, u, 1)
           r == Resp(f)
<1>1. Len(u) \in Nat
  BY LenProperties
<1>2. n \in 1 .. Len(u) /\ u[n] = LF /\ \A j \in 1 .. n - 1 : u[j] # LF
  <2>1. Len(u) \in Nat /\ 1 \in 1 .. Len(u) + 1
    BY <1>1
  <2>2. /\ n \in 1 .. Len(u) + 1 /\ (n <= Len(u) => u[n] = LF)
        /\ \A j \in 1 .. n - 1 : u[j] # LF
    BY <2>1, FindIs
  <2>3. n <= Len(u)
    OBVIOUS
  <2> HIDE DEF n
  <2> QED
    BY <1>1, <2>2, <2>3
<1>3. \A i \in 1 .. Len(u) : u[i] = r[k + i]
  BY DEF Part
<1>4. /\ r[1] # LF /\ r[2] # LF /\ r[3] = LF /\ r[4] # LF /\ r[5] # LF /\ r[6] # LF
      /\ r[7] # LF /\ r[8] # LF /\ r[9] = LF /\ r[10] # LF /\ r[11] = LF
  <2>1. /\ r[1] = Status /\ r[2] = CR /\ r[3] = LF
        /\ r[4] = ContentLength /\ r[5] = Colon /\ r[6] = SP
        /\ r[7] = Zero + FileLen /\ r[8] = CR /\ r[9] = LF
        /\ r[10] = CR /\ r[11] = LF /\ FileLen \in 1 .. 9
    BY RespCodes
  <2> HIDE DEF r
  <2>2. /\ Status # LF /\ CR # LF /\ ContentLength # LF /\ Colon # LF /\ SP # LF
        /\ Zero + FileLen # LF
    BY <2>1 DEF Status, CR, LF, ContentLength, Colon, SP, Zero
  <2> QED
    BY <2>1, <2>2
<1> HIDE DEF n, r
<1>5. \A i \in 1 .. n : u[i] = r[k + i]
  BY <1>1, <1>2, <1>3
<1>6. r[k + n] = LF /\ \A j \in 1 .. n - 1 : r[k + j] # LF
  <2>1. n \in 1 .. n /\ n \in Int /\ \A j \in 1 .. n - 1 : j \in 1 .. n
    BY <1>1, <1>2
  <2> QED
    BY <1>2, <1>5, <2>1
<1>7. CASE k = 0
  <2>1. r[n] = LF /\ \A j \in 1 .. n - 1 : r[j] # LF
    <3>1. 0 + n = n /\ \A j \in 1 .. n - 1 : 0 + j = j
      BY <1>1, <1>2
    <3> QED
      BY <1>6, <1>7, <3>1
  <2>2. ~ (n > 3)
    <3>1. n > 3 => 3 \in 1 .. n - 1
      BY <1>1, <1>2
    <3> QED
      BY <1>4, <2>1, <3>1
  <2>3. n # 1 /\ n # 2
    BY <1>4, <2>1
  <2>4. n = 3
    BY <1>1, <1>2, <2>2, <2>3
  <2> QED
    BY <1>5, <1>7, <2>4 DEF n, r
<1>8. CASE k = 3
  <2>1. ~ (n > 6)
    <3>1. n > 6 => 6 \in 1 .. n - 1 /\ 3 + 6 = 9
      BY <1>1, <1>2
    <3> QED
      BY <1>4, <1>6, <1>8, <3>1
  <2>2. n # 1 /\ n # 2 /\ n # 3 /\ n # 4 /\ n # 5
    <3>1. 3 + 1 = 4 /\ 3 + 2 = 5 /\ 3 + 3 = 6 /\ 3 + 4 = 7 /\ 3 + 5 = 8
      OBVIOUS
    <3> QED
      BY <1>4, <1>6, <1>8, <3>1
  <2>3. n = 6
    BY <1>1, <1>2, <2>1, <2>2
  <2> QED
    BY <1>5, <1>8, <2>3 DEF n, r
<1>9. CASE k = 9
  <2>1. ~ (n > 2)
    <3>1. n > 2 => 2 \in 1 .. n - 1 /\ 9 + 2 = 11
      BY <1>1, <1>2
    <3> QED
      BY <1>4, <1>6, <1>9, <3>1
  <2>2. n # 1
    <3>1. 9 + 1 = 10
      OBVIOUS
    <3> QED
      BY <1>4, <1>6, <1>9, <3>1
  <2>3. n = 2
    BY <1>1, <1>2, <2>1, <2>2
  <2> QED
    BY <1>5, <1>9, <2>3 DEF n, r
<1> QED
  BY <1>7, <1>8, <1>9

\* Content-Length: the length the server has written is the one read.
LEMMA HeaderParsed ==
  ASSUME NEW n \in 0 .. 9, NEW line \in Seq(Byte), Len(line) = 6,
         line[1] = ContentLength, line[2] = Colon, line[4] = Zero + n
  PROVE  parseHeader(line).name = << ContentLength >> /\ atoi(parseHeader(line).value) = n
<1> DEFINE str == SubSeq(line, 1, Len(line) - 2)
           colon == Find(Colon, str, 1)
<1>1. str \in Seq(Byte) /\ Len(str) = 4 /\ \A i \in 1 .. 4 : str[i] = line[i]
  <2>1. 4 \in 0 .. Len(line) /\ Len(line) - 2 = 4
    OBVIOUS
  <2> QED
    BY <2>1, PrefixIs
<1>2. /\ parseHeader(line).name = SubSeq(str, 1, colon - 1)
      /\ parseHeader(line).value = SubSeq(str, colon + 2, Len(str))
  BY DEF parseHeader
<1> HIDE DEF str
<1>3. colon = 2
  <2>1. ContentLength # Colon
    BY DEF ContentLength, Colon
  <2>2. \A j \in 1 .. 2 - 1 : j = 1
    OBVIOUS
  <2>3. /\ str[2] = Colon /\ \A j \in 1 .. 2 - 1 : str[j] # Colon
        /\ Len(str) \in Nat /\ 1 \in 1 .. Len(str) + 1 /\ 2 \in 1 .. Len(str) + 1
    BY <1>1, <2>1, <2>2
  <2> QED
    BY <2>3, FindAt
<1> HIDE DEF colon
<1>4. parseHeader(line).name = << ContentLength >>
  <2> DEFINE m == SubSeq(str, 1, 1)
  <2>1. m \in Seq(Byte) /\ Len(m) = 1 /\ \A i \in 1 .. 1 : m[i] = str[i]
    <3>1. 1 \in 0 .. Len(str)
      BY <1>1
    <3> QED
      BY <1>1, <3>1, PrefixIs
  <2>2. parseHeader(line).name = m
    <3>1. colon - 1 = 1
      BY <1>3
    <3> QED
      BY <1>2, <3>1
  <2> HIDE DEF m
  <2> QED
    BY <1>1, <2>1, <2>2
<1>5. atoi(parseHeader(line).value) = n
  <2> DEFINE v == SubSeq(str, 3 + 1, 4)
  <2>1. v \in Seq(Byte) /\ Len(v) = 4 - 3 /\ \A i \in 1 .. 4 - 3 : v[i] = str[3 + i]
    <3>1. 4 \in 3 .. Len(str)
      BY <1>1
    <3> QED
      BY <1>1, <3>1, SliceIs
  <2>2. parseHeader(line).value = v
    <3>1. colon + 2 = 3 + 1
      BY <1>3
    <3> QED
      BY <1>1, <1>2, <3>1
  <2> HIDE DEF v
  <2>3. v[1] = Zero + n /\ v # << >>
    <3>1. 4 - 3 = 1 /\ 1 \in 1 .. 1 /\ 3 + 1 = 4 /\ 4 \in 1 .. 4
      OBVIOUS
    <3>2. Len(v) # 0
      BY <2>1, <3>1
    <3> QED
      BY <1>1, <2>1, <3>1, <3>2, EmptyIs
  <2> QED
    BY <2>2, <2>3 DEF atoi, Zero
<1> QED
  BY <1>4, <1>5

-----------------------------------------------------------------------------
(* What the steps leave alone                                              *)

LEMMA SameClient ==
  ASSUME Step, ~ Start
  PROVE  UNCHANGED <<cur, want, ready>>
BY DEF Step, Work, Send, ServerTakes, ServerReceives, ClientReceives, ClientMain,
   ClientWrite, ClientExit, ClientBody, ClientStatus, ClientHeader, ServerMain,
   ServerBody, ServerDrain, InitResf, ServerBlank, ServerCutBlank, ServerRequest,
   ServerCutRequest, ClientResend, client

LEMMA SameWritten ==
  ASSUME TypeInv, Step, ~ Start, ~ ClientWrite
  PROVE  out' = out /\ sendBuff'["client"] = sendBuff["client"]
<1>1. Typed /\ "client" \in Host /\ "server" \in Host
  BY DEF TypeInv, Host
<1>2. CASE ServerRequest \/ ServerCutRequest
  <2>1. out' = out /\ \E line : Serve(line)
    BY <1>2 DEF ServerRequest, ServerCutRequest
  <2> QED
    BY <1>1, <2>1, ServeTypes
<1>3. CASE ServerBody
  <2>1. out' = out
    BY <1>3 DEF ServerBody
  <2> QED
    BY <1>1, <1>3, <2>1, ServerBodyTypes
<1>4. CASE InitResf
  BY <1>1, <1>4 DEF InitResf, Cleared, Typed
<1>5. CASE ~ (ServerRequest \/ ServerCutRequest \/ ServerBody \/ InitResf)
  <2>1. out' = out /\ sendBuff' = sendBuff
    BY <1>5 DEF Step, Work, Send, ServerTakes, ServerReceives, ClientReceives, ClientMain,
       ClientExit, ClientBody, ClientStatus, ClientHeader, ServerMain, ServerDrain,
       ServerBlank, ServerCutBlank, ClientResend, endpoints
  <2> QED
    BY <2>1
<1> QED
  BY <1>2, <1>3, <1>4, <1>5

LEMMA SameReceived ==
  ASSUME TypeInv, Step, ~ Start
  PROVE  /\ ~ ClientReceives => recvBuff'["client"] = recvBuff["client"]
         /\ ~ ServerReceives /\ ~ (InitResf /\ spc = "lastRecved") =>
              recvBuff'["server"] = recvBuff["server"]
<1>1. Typed /\ "client" \in Host /\ "server" \in Host
  BY DEF TypeInv, Host
<1>2. CASE ServerReceives
  <2>1. Running /\ held[1].seg \in Seg /\ held[1].fresh \in BOOLEAN
    BY <1>1, <1>2, HeldIs DEF ServerReceives
  <2>2. Receive("server", held[1].seg, held[1].fresh)
    BY <1>2 DEF ServerReceives
  <2>3. recvBuff'["client"] = recvBuff["client"]
    BY <1>1, <2>1, <2>2, ReceiveOrder
  <2> QED
    BY <1>2, <2>3
<1>3. CASE ClientReceives
  <2> DEFINE seg == Head(toClient)
             fresh == FreshAck("client", seg)
  <2>1. Running /\ toClient # << >> /\ toClient \in Seq(Seg)
    BY <1>1, <1>3 DEF ClientReceives, Typed
  <2>2. seg \in Seg
    BY <2>1, HeadTailProperties
  <2>3. Receive("client", seg, fresh)
    BY <1>3 DEF ClientReceives
  <2>4. fresh \in BOOLEAN
    BY Zenon DEF FreshAck
  <2> HIDE DEF seg, fresh
  <2>5. recvBuff'["server"] = recvBuff["server"]
    BY <1>1, <2>1, <2>2, <2>3, <2>4, ReceiveOrder
  <2> QED
    BY <1>3, <2>5
<1>4. CASE InitResf
  BY <1>1, <1>4 DEF InitResf, Cleared, Typed
<1>5. CASE ~ (ServerReceives \/ ClientReceives \/ InitResf)
  <2>1. recvBuff' = recvBuff
    BY <1>5 DEF Step, Work, Send, ServerTakes, ClientMain, ClientWrite,
       ClientExit, ClientBody, ClientStatus, ClientHeader, ServerMain, ServerDrain,
       ServerBody, ServerBlank, ServerCutBlank, ServerRequest, ServerCutRequest,
       ClientResend, endpoints
  <2> QED
    BY <2>1
<1> QED
  BY <1>2, <1>3, <1>4, <1>5

\* lastSent, lastAcked and what is under way to the server, of the client.
LEMMA SameSent ==
  ASSUME TypeInv, Step, ~ Start, ~ Send("client"), ~ ClientReceives
  PROVE  lastSent'["client"] = lastSent["client"] /\ lastAcked'["client"] = lastAcked["client"]
<1>1. Typed /\ "client" \in Host /\ "server" \in Host
  BY DEF TypeInv, Host
<1>2. CASE ServerReceives
  <2>1. Running /\ held[1].seg \in Seg /\ held[1].fresh \in BOOLEAN
    BY <1>1, <1>2, HeldIs DEF ServerReceives
  <2>2. Receive("server", held[1].seg, held[1].fresh)
    BY <1>2 DEF ServerReceives
  <2> QED
    BY <1>1, <2>1, <2>2, ReceiveOrder
<1>3. CASE Send("server")
  <2>1. lastAcked' = lastAcked
    BY <1>3 DEF Send
  <2> QED
    BY <1>1, <1>3, <2>1, SendOrder
<1>4. CASE InitResf
  BY <1>1, <1>4 DEF InitResf, Cleared, Typed
<1>5. CASE ~ (ServerReceives \/ Send("server") \/ InitResf)
  <2>1. ~ \E h \in Host : Send(h)
    BY <1>5 DEF Host
  <2>2. lastSent' = lastSent /\ lastAcked' = lastAcked
    BY <1>5, <2>1 DEF Step, Work, ServerTakes, ClientMain, ClientWrite,
       ClientExit, ClientBody, ClientStatus, ClientHeader, ServerMain, ServerDrain,
       ServerBody, ServerBlank, ServerCutBlank, ServerRequest, ServerCutRequest,
       ClientResend, endpoints
  <2> QED
    BY <2>2
<1> QED
  BY <1>2, <1>3, <1>4, <1>5

\* What is under way to the server, and to the client, and the address.
LEMMA SameNet ==
  ASSUME Step, ~ Start
  PROVE  /\ ~ Send("client") /\ ~ ServerTakes /\ ~ ClientReceives /\ ~ ClientResend =>
              toServer' = toServer
         /\ ~ ServerTakes /\ ~ ServerReceives => held' = held
         /\ ~ ServerTakes => addr' = addr
         /\ ~ Send("server") /\ ~ ServerReceives /\ ~ ClientReceives => toClient' = toClient
<1>1. CASE \E h \in Host : Send(h)
  <2>1. PICK h \in Host : Send(h)
    BY <1>1
  <2>2. h = "client" \/ h = "server"
    BY DEF Host
  <2>3. /\ held' = held /\ addr' = addr
        /\ h = "client" => toClient' = toClient
        /\ h = "server" => toServer' = toServer
    BY <2>1 DEF Send
  <2> QED
    BY <2>1, <2>2, <2>3
<1>2. CASE ServerTakes
  BY <1>2 DEF ServerTakes
<1>3. CASE ServerReceives
  BY <1>3 DEF ServerReceives
<1>4. CASE ClientReceives
  BY <1>4 DEF ClientReceives
<1>5. CASE ClientResend
  BY <1>5 DEF ClientResend
<1>6. CASE ClientMain \/ ServerMain
  BY <1>6 DEF ClientMain, ClientWrite, ClientExit, ClientBody, ClientStatus, ClientHeader,
     ServerMain, ServerDrain, ServerBody, ServerBlank, ServerCutBlank, ServerRequest,
     ServerCutRequest, InitResf, net
<1> QED
  BY <1>1, <1>2, <1>3, <1>4, <1>5, <1>6 DEF Step, Work

-----------------------------------------------------------------------------
(* The request as the client writes it                                     *)

LEMMA WritingNext ==
  ASSUME TypeInv, Active, Writing, Step, ~ Start
  PROVE  Writing'
<1>1. Typed /\ "client" \in Host /\ Asked \in Names /\ Asked' = Asked
  BY ActiveIs, SameClient DEF Asked
<1>2. CASE ~ ClientWrite
  BY <1>1, <1>2, SameWritten DEF Writing, lastWrite
<1>3. CASE ClientWrite
  <2> DEFINE s == sendBuff["client"]
             bytes == Req(Asked)
  <2>1. PICK n \in 1 .. Len(out) :
          /\ sendBuff' = [sendBuff EXCEPT !["client"] = @ \o SubSeq(out, 1, n)]
          /\ out' = SubSeq(out, n + 1, Len(out))
    BY <1>3 DEF ClientWrite
  <2>2. /\ s \in Seq(Byte) /\ Len(s) \in Nat /\ out \in Seq(Byte) /\ Len(out) \in Nat
        /\ sendBuff'["client"] = s \o SubSeq(out, 1, n)
    <3>1. sendBuff \in [Host -> Seq(Byte)] /\ out \in Seq(Byte)
      BY <1>1 DEF Typed
    <3>2. sendBuff'["client"] = s \o SubSeq(out, 1, n)
      BY <1>1, <2>1, <3>1
    <3> QED
      BY <1>1, <3>1, <3>2, LenProperties
  <2>3. Len(out) = 12 - Len(s) /\ Part(s, bytes, 0) /\ Part(out, bytes, Len(s))
    BY DEF Writing, lastWrite
  <2> DEFINE a == SubSeq(out, 1, n)
             b == SubSeq(out, n + 1, Len(out))
  <2> HIDE DEF s, bytes
  <2>4. /\ a \in Seq(Byte) /\ Len(a) = n /\ \A i \in 1 .. n : a[i] = out[i]
    <3>1. n \in 0 .. Len(out)
      BY <2>2
    <3> QED
      BY <2>2, <3>1, PrefixIs
  <2>5. /\ b \in Seq(Byte) /\ Len(b) = Len(out) - n
        /\ \A i \in 1 .. Len(out) - n : b[i] = out[n + i]
    <3>1. n \in Nat /\ Len(out) \in n .. Len(out)
      BY <2>2
    <3> QED
      BY <2>2, <3>1, SliceIs
  <2> HIDE DEF a, b
  <2>6. Part(a, bytes, Len(s))
    <3>1. \A i \in 1 .. n : i \in 1 .. Len(out)
      BY <2>2
    <3>2. \A i \in 1 .. Len(out) : out[i] = bytes[Len(s) + i]
      BY <2>3 DEF Part
    <3> QED
      BY <2>4, <3>1, <3>2 DEF Part
  <2>7. Part(b, bytes, Len(s) + n)
    <3>1. n \in Nat /\ n + Len(b) <= Len(out) /\ \A i \in 1 .. Len(b) : b[i] = out[n + i]
      BY <2>2, <2>5
    <3> QED
      BY <2>2, <2>3, <2>5, <3>1, PartOf
  <2>8. /\ s \o a \in Seq(Byte) /\ Len(s \o a) = Len(s) + n /\ Part(s \o a, bytes, 0)
    <3>1. 0 + Len(s) = Len(s)
      BY <2>2
    <3>2. Part(a, bytes, 0 + Len(s))
      BY <2>6, <3>1
    <3>3. Part(s \o a, bytes, 0)
      BY <2>2, <2>3, <2>4, <3>2, PartConcat
    <3>4. s \o a \in Seq(Byte) /\ Len(s \o a) = Len(s) + Len(a)
      BY <2>2, <2>4, Appended
    <3> QED
      BY <2>4, <3>3, <3>4
  <2>9. sendBuff'["client"] = s \o a /\ out' = b
    BY <2>1, <2>2 DEF a, b
  <2>10. Len(out') = 12 - Len(sendBuff'["client"])
    <3>1. Len(out') = Len(out) - n /\ Len(sendBuff'["client"]) = Len(s) + n
      BY <2>5, <2>8, <2>9
    <3> QED
      BY <2>2, <2>3, <3>1
  <2>11. Part(sendBuff'["client"], bytes, 0) /\ Part(out', bytes, Len(sendBuff'["client"]))
    BY <2>7, <2>8, <2>9
  <2> QED
    BY <1>1, <2>10, <2>11 DEF Writing, lastWrite, bytes
<1> QED
  BY <1>2, <1>3

\* What it has written is no longer than the request.
LEMMA WrittenIs ==
  ASSUME TypeInv, Active, Writing
  PROVE  /\ lastWrite("client") \in 0 .. 12 /\ Part(sendBuff["client"], Req(Asked), 0)
         /\ \A i \in 1 .. 12 : Req(Asked)[i] # NUL
<1>1. Typed /\ "client" \in Host /\ Asked \in Names
  BY ActiveIs
<1>2. Len(out) \in Nat /\ lastWrite("client") \in Nat
  BY <1>1, Lengths, SMTT(30) DEF Typed
<1>3. Len(out) = 12 - lastWrite("client") /\ Part(sendBuff["client"], Req(Asked), 0)
  BY DEF Writing
<1>4. lastWrite("client") \in 0 .. 12
  BY <1>2, <1>3
<1>5. \A i \in 1 .. 12 : Req(Asked)[i] # NUL
  <2>1. \A i \in 1 .. 12 : Req(Asked)[i] \in Byte /\ Req(Asked)[i] # NUL
    BY <1>1, ReqIs, Zenon
  <2> QED
    BY <2>1
<1> QED
  BY <1>3, <1>4, <1>5

LEMMA FromCurNext ==
  ASSUME TypeInv, Active, Typed', FromCur, Step, ~ Start
  PROVE  FromCur'
<1>1. Typed /\ cur' = cur /\ "client" \in Host
  BY ActiveIs, SameClient
<1>2. ASSUME NEW seg \in Seg, toServer' = ToServer(seg)
      PROVE  \A i \in 1 .. Len(toServer') : toServer'[i].from = cur
  <2>1. /\ Len(toServer') = Len(toServer) + 1
        /\ \A i \in 1 .. Len(toServer) : toServer'[i] = toServer[i]
        /\ toServer'[Len(toServer) + 1] = [from |-> cur, seg |-> Received(seg)]
    BY <1>1, <1>2, ToServerIs
  <2>2. Len(toServer) \in Nat
    BY <1>1 DEF Typed
  <2> TAKE i \in 1 .. Len(toServer')
  <2>3. CASE i \in 1 .. Len(toServer)
    BY <2>1, <2>3 DEF FromCur
  <2>4. CASE i = Len(toServer) + 1
    BY <2>1, <2>4
  <2> QED
    BY <2>1, <2>2, <2>3, <2>4
<1>3. CASE ServerTakes
  <2>1. /\ addr' = toServer[1].from /\ Len(toServer) \in Nat \ {0}
        /\ Len(toServer') = Len(toServer) - 1
        /\ \A i \in 1 .. Len(toServer') : toServer'[i] = toServer[i + 1]
    BY <1>1, <1>3, TakenTypes
  <2>2. 1 \in 1 .. Len(toServer) /\ \A i \in 1 .. Len(toServer') : i + 1 \in 1 .. Len(toServer)
    BY <2>1
  <2> QED
    BY <1>1, <2>1, <2>2 DEF FromCur
<1>4. CASE ServerReceives
  <2>1. held' = None /\ toServer' = toServer
    BY <1>4 DEF ServerReceives
  <2> QED
    BY <1>1, <2>1 DEF FromCur
<1>5. ASSUME ~ ServerTakes, ~ ServerReceives PROVE held' = held /\ addr' = addr
  BY <1>5, SameNet
<1>6. CASE Send("client")
  <2>1. lastSent["client"] <= lastWrite("client") /\ toServer' = ToServer(NewData("client", 0, 0))
    BY <1>6, ActiveIs DEF Send
  <2>2. NewData("client", 0, 0) \in Seg
    BY <1>1, <2>1, NewDataIs
  <2>3. held' = held /\ addr' = addr
    BY <1>6 DEF Send
  <2> QED
    BY <1>1, <1>2, <2>1, <2>2, <2>3 DEF FromCur
<1>7. CASE ClientReceives
  <2> DEFINE seg == Head(toClient)
             fresh == FreshAck("client", seg)
  <2>1. /\ Running /\ toClient # << >> /\ toClient \in Seq(Seg) /\ held' = held /\ addr' = addr
        /\ toServer' = toServer \/ toServer' = ToServer(Answer("client", seg))
    BY <1>1, <1>7 DEF ClientReceives, Typed
  <2>2. seg \in Seg
    BY <2>1, HeadTailProperties
  <2>3. Receive("client", seg, fresh)
    BY <1>7 DEF ClientReceives
  <2>4. fresh \in BOOLEAN
    BY Zenon DEF FreshAck
  <2> HIDE DEF seg, fresh
  <2>5. Answer("client", seg) \in Seg
    BY <1>1, <2>1, <2>2, <2>3, <2>4, ReceiveTypes
  <2> QED
    BY <1>1, <1>2, <2>1, <2>5 DEF FromCur
<1>8. CASE ClientResend
  <2>1. held' = held /\ addr' = addr /\ held = None /\ toServer = << >>
    BY <1>8 DEF ClientResend
  <2>2. PICK seg : toServer' = ToServer(seg)
    BY <1>8 DEF ClientResend
  <2>3. toServer' = << [from |-> cur, seg |-> Received(seg)] >>
    BY <2>1, <2>2 DEF ToServer
  <2> QED
    BY <1>1, <2>1, <2>3 DEF FromCur
<1>9. CASE ~ (ServerTakes \/ ServerReceives \/ Send("client") \/ ClientReceives \/ ClientResend)
  BY <1>1, <1>9, SameNet DEF FromCur
<1> QED
  BY <1>3, <1>4, <1>6, <1>7, <1>8, <1>9

-----------------------------------------------------------------------------
(* What the two ends send each other                                       *)

LEMMA FreshIs ==
  ASSUME TypeInv, Active, NEW seg \in Seg
  PROVE  FreshAck("client", seg) <=> /\ seg.flags = 1 /\ seg.ackNum > lastAcked["client"]
                                     /\ seg.ackNum <= lastSent["client"]
<1>1. /\ lastSent["client"] \in Nat /\ lastAcked["client"] \in Nat
      /\ lastAcked["client"] <= lastSent["client"]
  BY ActiveIs, Lengths
<1>2. seg.ackNum \in Nat
  BY DEF Seg
<1> QED
  BY <1>1, <1>2 DEF FreshAck

LEMMA ClientReceivesIs ==
  ASSUME TypeInv, Active, ClientReceives
  PROVE  /\ toClient \in Seq(Seg) /\ toClient # << >> /\ toClient' = Tail(toClient)
         /\ Head(toClient) \in Seg /\ Head(toClient).data \in Seq(Byte)
         /\ lastAcked'["client"] = IF /\ Head(toClient).flags = 1
                                      /\ Head(toClient).ackNum > lastAcked["client"]
                                      /\ Head(toClient).ackNum <= lastSent["client"]
                                     THEN Head(toClient).ackNum ELSE lastAcked["client"]
         /\ lastSent'["server"] = lastSent["server"]
         /\ IF InOrder("client", Head(toClient))
              THEN /\ recvBuff'["client"] = recvBuff["client"] \o Head(toClient).data
                   /\ lastSent'["client"] = lastSent["client"] + NextLen("client")
                   /\ toServer' = ToServer(Answer("client", Head(toClient)))
              ELSE /\ recvBuff'["client"] = recvBuff["client"]
                   /\ lastSent'["client"] = lastSent["client"] /\ toServer' = toServer
         /\ held' = held /\ sendBuff' = sendBuff /\ addr' = addr
         /\ UNCHANGED <<spc, file, pos, lastRead, cpc, left, saved>>
<1> DEFINE seg == Head(toClient)
           fresh == FreshAck("client", seg)
<1>1. Typed /\ Running /\ "client" \in Host /\ "server" \in Host
  BY ActiveIs
<1>2. /\ toClient # << >> /\ toClient \in Seq(Seg) /\ toClient' = Tail(toClient)
      /\ held' = held /\ sendBuff' = sendBuff /\ addr' = addr
      /\ UNCHANGED <<spc, file, pos, lastRead, cpc, left, saved>>
      /\ Receive("client", seg, fresh)
      /\ toServer' = IF InOrder("client", seg) THEN ToServer(Answer("client", seg)) ELSE toServer
  BY <1>1 DEF ClientReceives, Typed, server, client
<1>3. seg \in Seg
  BY <1>2, HeadTailProperties
<1>4. seg.data \in Seq(Byte)
  BY <1>3 DEF Seg
<1>5. fresh \in BOOLEAN
  BY Zenon DEF FreshAck
<1>6. fresh <=> /\ seg.flags = 1 /\ seg.ackNum > lastAcked["client"]
                /\ seg.ackNum <= lastSent["client"]
  BY <1>3, FreshIs
<1> HIDE DEF seg, fresh
<1>7. /\ lastSent'["client"] = IF InOrder("client", seg)
                                 THEN lastSent["client"] + NextLen("client")
                                 ELSE lastSent["client"]
      /\ lastAcked'["client"] = IF fresh THEN seg.ackNum ELSE lastAcked["client"]
      /\ lastSent'["server"] = lastSent["server"]
  BY <1>1, <1>2, <1>3, <1>5, ReceiveOrder
<1>8. recvBuff'["client"] = IF InOrder("client", seg) THEN recvBuff["client"] \o seg.data
                                                      ELSE recvBuff["client"]
  <2>1. recvBuff \in [Host -> Seq(Byte)]
    BY <1>1 DEF Typed
  <2> QED
    BY <1>1, <1>2, <2>1 DEF Receive
<1> QED
  BY <1>2, <1>3, <1>4, <1>6, <1>7, <1>8 DEF seg

\* What the client puts on its way: nothing, or the next part of its request.
LEMMA ClientSends ==
  ASSUME TypeInv, Active, Writing, Send("client") \/ ClientReceives
  PROVE  \/ Pipe' = Pipe /\ lastSent'["client"] = lastSent["client"]
         \/ \E r \in Seg : /\ Pipe' = Append(Pipe, r)
                           /\ r.data # << >> => r.seqNum = lastSent["client"]
                           /\ Part(r.data, Req(Asked), lastSent["client"])
                           /\ lastSent'["client"] = lastSent["client"] + Len(r.data)
<1>1. /\ Typed /\ "client" \in Host /\ lastSent["client"] <= lastWrite("client")
      /\ lastWrite("client") <= 12 /\ Part(sendBuff["client"], Req(Asked), 0)
      /\ \A i \in 1 .. 12 : Req(Asked)[i] # NUL
  BY ActiveIs, WrittenIs
<1>2. CASE Send("client")
  <2> DEFINE seg == NewData("client", 0, 0)
  <2>1. /\ seg \in Seg /\ Received(seg) = seg /\ seg.seqNum = lastSent["client"]
        /\ Len(seg.data) = NextLen("client") /\ Part(seg.data, Req(Asked), lastSent["client"])
    BY <1>1, Carried
  <2>2. toServer' = ToServer(seg) /\ held' = held
    BY <1>2 DEF Send
  <2> HIDE DEF seg
  <2>3. Pipe' = Append(Pipe, seg)
    <3>1. Pipe' = Append(Pipe, Received(seg))
      BY <1>1, <2>1, <2>2, PipeAppend
    <3> QED
      BY <2>1, <3>1
  <2>4. lastSent'["client"] = lastSent["client"] + Len(seg.data)
    BY <1>1, <1>2, <2>1, SendOrder
  <2> QED
    BY <2>1, <2>3, <2>4
<1>3. CASE ClientReceives
  <2> DEFINE seg == Head(toClient)
             r == Received(Answer("client", seg))
  <2>1. /\ seg \in Seg /\ held' = held
        /\ IF InOrder("client", seg)
             THEN /\ lastSent'["client"] = lastSent["client"] + NextLen("client")
                  /\ toServer' = ToServer(Answer("client", seg))
             ELSE lastSent'["client"] = lastSent["client"] /\ toServer' = toServer
    BY <1>3, ClientReceivesIs
  <2> HIDE DEF seg
  <2>2. CASE InOrder("client", seg)
    <3>1. /\ Answer("client", seg) \in Seg /\ r \in Seg
          /\ r.data # << >> => r.seqNum = lastSent["client"]
          /\ Len(r.data) = NextLen("client") /\ Part(r.data, Req(Asked), lastSent["client"])
      BY <1>1, <2>1, AnswerIs
    <3>2. Pipe' = Append(Pipe, r)
      BY <1>1, <2>1, <2>2, <3>1, PipeAppend
    <3> QED
      BY <2>1, <2>2, <3>1, <3>2
  <2>3. CASE ~ InOrder("client", seg)
    BY <2>1, <2>3 DEF Pipe
  <2> QED
    BY <2>2, <2>3
<1> QED
  BY <1>2, <1>3

\* The same of the server, which has a part of bytes to send.
LEMMA ServerAnswers ==
  ASSUME TypeInv, Active, ServerReceives, ~ torn', NEW bytes,
         held[1].seg.data # << >> => addr = cur,
         ~ HalfReset => Part(sendBuff["server"], bytes, 0),
         ~ HalfReset => \A i \in 1 .. lastWrite("server") : bytes[i] # NUL
  PROVE  /\ Pipe \in Seq(Seg) /\ Pipe # << >> /\ Pipe' = Tail(Pipe)
         /\ UNCHANGED <<spc, file, pos, addr, sendBuff, lastRead>>
         /\ \/ /\ ~ InOrder("server", Head(Pipe))
               /\ recvBuff'["server"] = recvBuff["server"]
               /\ lastSent'["server"] = lastSent["server"] /\ toClient' = toClient
            \/ /\ InOrder("server", Head(Pipe)) /\ ~ HalfReset /\ spc # "addr" /\ addr = cur
               /\ recvBuff'["server"] = recvBuff["server"] \o Head(Pipe).data
               /\ \E r \in Seg :
                    /\ toClient' = Append(toClient, r)
                    /\ r.flags = 1 /\ r.ackNum = lastRecved("server") + Len(Head(Pipe).data)
                    /\ r.data # << >> => r.seqNum = lastSent["server"]
                    /\ Part(r.data, bytes, lastSent["server"])
                    /\ lastSent'["server"] = lastSent["server"] + Len(r.data)
<1> DEFINE seg == held[1].seg
           fresh == held[1].fresh
           r == Received(Answer("server", seg))
<1>1. /\ Typed /\ Running /\ "server" \in Host /\ held # None
      /\ lastSent["server"] <= lastWrite("server")
  BY ActiveIs DEF ServerReceives
<1>2. seg \in Seg /\ fresh \in BOOLEAN
  BY <1>1, HeldIs
<1>3. /\ Receive("server", seg, fresh) /\ held' = None /\ toServer' = toServer
      /\ UNCHANGED <<spc, file, pos, addr, sendBuff, lastRead>>
      /\ toClient' = IF InOrder("server", seg) THEN ToClient(Answer("server", seg)) ELSE toClient
      /\ InOrder("server", seg) => ~ HalfReset /\ spc # "addr"
  BY DEF ServerReceives, server, Straddles
<1>4. Pipe \in Seq(Seg) /\ Pipe # << >> /\ Head(Pipe) = seg /\ Pipe' = Tail(Pipe)
  BY <1>1, <1>3, PipeIs, PipeTail
<1> HIDE DEF seg, fresh
<1>5. lastSent'["server"] = IF InOrder("server", seg)
                              THEN lastSent["server"] + NextLen("server")
                              ELSE lastSent["server"]
  BY <1>1, <1>2, <1>3, ReceiveOrder
<1>6. recvBuff'["server"] = IF InOrder("server", seg) THEN recvBuff["server"] \o seg.data
                                                      ELSE recvBuff["server"]
  <2>1. recvBuff \in [Host -> Seq(Byte)]
    BY <1>1 DEF Typed
  <2> QED
    BY <1>1, <1>3, <2>1 DEF Receive
<1>7. CASE ~ InOrder("server", seg)
  BY <1>3, <1>4, <1>5, <1>6, <1>7
<1>8. CASE InOrder("server", seg)
  <2>1. lastWrite("server") \in Nat
    BY <1>1, Lengths
  <2>2. /\ r \in Seg /\ r.flags = 1
        /\ r.ackNum = lastRecved("server") + Len(seg.data)
        /\ r.data # << >> => r.seqNum = lastSent["server"]
        /\ Len(r.data) = NextLen("server") /\ Part(r.data, bytes, lastSent["server"])
    <3>1. lastWrite("server") <= lastWrite("server")
      BY <2>1
    <3> QED
      BY <1>1, <1>2, <1>3, <1>8, <2>1, <3>1, AnswerIs
  <2>3. toClient' = Append(toClient, r) /\ addr = cur
    <3>1. addr = cur
      BY <1>8 DEF InOrder, seg
    <3> QED
      BY <1>3, <1>8, <3>1 DEF ToClient
  <2> QED
    BY <1>1, <1>3, <1>4, <1>5, <1>6, <1>8, <2>2, <2>3
<1> QED
  BY <1>7, <1>8

\* The same, of the response to the present client.
LEMMA ServerReceivesIs ==
  ASSUME TypeInv, Active, FromCur, ServerReceives, ~ torn',
         ~ HalfReset => Part(sendBuff["server"], Resp(Asked), 0),
         ~ HalfReset => \A i \in 1 .. lastWrite("server") : Resp(Asked)[i] # NUL
  PROVE  /\ Pipe \in Seq(Seg) /\ Pipe # << >> /\ Pipe' = Tail(Pipe)
         /\ UNCHANGED <<spc, file, pos, addr, sendBuff, lastRead>>
         /\ \/ /\ ~ InOrder("server", Head(Pipe))
               /\ recvBuff'["server"] = recvBuff["server"]
               /\ lastSent'["server"] = lastSent["server"] /\ toClient' = toClient
            \/ /\ InOrder("server", Head(Pipe)) /\ ~ HalfReset /\ spc # "addr" /\ addr = cur
               /\ recvBuff'["server"] = recvBuff["server"] \o Head(Pipe).data
               /\ \E r \in Seg :
                    /\ toClient' = Append(toClient, r)
                    /\ r.flags = 1 /\ r.ackNum = lastRecved("server") + Len(Head(Pipe).data)
                    /\ r.data # << >> => r.seqNum = lastSent["server"]
                    /\ Part(r.data, Resp(Asked), lastSent["server"])
                    /\ lastSent'["server"] = lastSent["server"] + Len(r.data)
<1>1. PICK bytes : bytes = Resp(Asked)
  OBVIOUS
<1>2. held[1].seg.data # << >> => addr = cur
  BY DEF ServerReceives, FromCur
<1> QED
  BY <1>1, <1>2, ServerAnswers

-----------------------------------------------------------------------------
(* The request on its way                                                  *)

LEMMA RequestsSame ==
  ASSUME Requests, Asked' = Asked, Pipe' = Pipe, toClient' = toClient,
         recvBuff'["server"] = recvBuff["server"],
         lastSent'["client"] = lastSent["client"], lastAcked'["client"] = lastAcked["client"]
  PROVE  Requests'
BY DEF Requests, lastRecved

\* The client sends a part of it, with an acknowledgment or without.
LEMMA RequestsClient ==
  ASSUME TypeInv, Active, Writing, Requests, Typed', Send("client") \/ ClientReceives
  PROVE  Requests'
<1> DEFINE k == lastRecved("server")
<1>1. /\ Typed /\ "client" \in Host /\ "server" \in Host /\ k \in Nat
      /\ lastSent["client"] \in Nat /\ lastSent'["client"] \in Nat /\ lastAcked["client"] \in Nat
      /\ toClient \in Seq(Seg) /\ Pipe \in Seq(Seg)
  <2>1. Typed /\ "client" \in Host /\ "server" \in Host
    BY ActiveIs
  <2>2. lastSent' \in [Host -> Nat]
    BY DEF Typed
  <2> QED
    BY <2>1, <2>2, Lengths, PipeIs DEF Typed
<1>2. Step /\ ~ Start
  <2>1. Step
    BY <1>1 DEF Step, Work
  <2>2. cur \in Nat /\ (Start => cur' = cur + 1)
    BY ActiveIs DEF Start
  <2>3. cur' = cur
    BY DEF Send, ClientReceives, client
  <2> QED
    BY <2>1, <2>2, <2>3
<1>3. Asked' = Asked /\ recvBuff'["server"] = recvBuff["server"]
  <2>1. ~ ServerReceives /\ ~ InitResf
    <3>1. Send("client") \/ ClientReceives => lastRead' = lastRead /\ spc' = spc
      BY DEF Send, ClientReceives, server
    <3>2. InitResf => spc' # spc
      BY DEF InitResf, ResetOrder
    <3>3. ServerReceives => held' # held
      BY DEF ServerReceives
    <3>4. Send("client") \/ ClientReceives => held' = held
      BY DEF Send, ClientReceives
    <3> QED
      BY <3>1, <3>2, <3>3, <3>4
  <2> QED
    BY <1>2, <2>1, SameClient, SameReceived DEF Asked
<1>4. lastRecved("server")' = k
  BY <1>3 DEF lastRecved
<1> HIDE DEF k
<1>5. Chain(Pipe', k, lastSent'["client"], Req(Asked))
  <2>1. Chain(Pipe, k, lastSent["client"], Req(Asked))
    BY DEF Requests, k
  <2>2. CASE Pipe' = Pipe /\ lastSent'["client"] = lastSent["client"]
    BY <2>1, <2>2
  <2>3. ASSUME NEW r \in Seg, Pipe' = Append(Pipe, r),
               r.data # << >> => r.seqNum = lastSent["client"],
               Part(r.data, Req(Asked), lastSent["client"]),
               lastSent'["client"] = lastSent["client"] + Len(r.data)
        PROVE  Chain(Pipe', k, lastSent'["client"], Req(Asked))
    BY <1>1, <2>1, <2>3, ChainAppend
  <2> QED
    BY <2>2, <2>3, ClientSends
<1>6. lastSent["client"] <= lastSent'["client"]
  <2>1. \A r \in Seg : Len(r.data) \in Nat
    <3>1. \A r \in Seg : r.data \in Seq(Byte)
      BY DEF Seg
    <3> QED
      BY <3>1, LenProperties
  <2> QED
    BY <1>1, <2>1, ClientSends
<1>7. Underway(k, lastAcked["client"], lastSent["client"], toClient)
  BY DEF Requests, k
<1>8. lastAcked["client"] <= k /\ \A i \in 1 .. Len(toClient) :
                                     toClient[i].flags = 1 => toClient[i].ackNum <= k
  BY DEF Requests, k
<1>9. /\ lastAcked'["client"] <= k
      /\ \A i \in 1 .. Len(toClient') : toClient'[i].flags = 1 => toClient'[i].ackNum <= k
      /\ Underway(k, lastAcked'["client"], lastSent'["client"], toClient')
  <2>1. CASE Send("client")
    <3>1. toClient' = toClient /\ lastAcked' = lastAcked
      BY <2>1 DEF Send
    <3> QED
      BY <1>1, <1>6, <1>7, <1>8, <3>1, UnderwayMore
  <2>2. CASE ClientReceives
    <3>1. /\ toClient # << >> /\ toClient' = Tail(toClient)
          /\ lastAcked'["client"] = IF /\ Head(toClient).flags = 1
                                       /\ Head(toClient).ackNum > lastAcked["client"]
                                       /\ Head(toClient).ackNum <= lastSent["client"]
                                      THEN Head(toClient).ackNum ELSE lastAcked["client"]
      BY <2>2, ClientReceivesIs
    <3>2. Underway(k, lastAcked'["client"], lastSent'["client"], toClient')
      BY <1>1, <1>6, <1>7, <3>1, UnderwayTail, ActiveIs
    <3>3. /\ Len(toClient) \in Nat \ {0} /\ Len(toClient') = Len(toClient) - 1
          /\ \A i \in 1 .. Len(toClient') : toClient'[i] = toClient[i + 1]
          /\ Head(toClient) = toClient[1]
      <4>1. Len(toClient) \in Nat \ {0}
        BY <1>1, <3>1, EmptySeq
      <4> QED
        BY <1>1, <3>1, <4>1, HeadTailProperties
    <3>4. 1 \in 1 .. Len(toClient) /\ \A i \in 1 .. Len(toClient') : i + 1 \in 1 .. Len(toClient)
      BY <3>3
    <3> QED
      BY <1>8, <3>1, <3>2, <3>3, <3>4
  <2> QED
    BY <2>1, <2>2
<1>10. Part(recvBuff'["server"], Req(Asked), 0)
  BY <1>3 DEF Requests
<1> QED
  BY <1>3, <1>4, <1>5, <1>9, <1>10 DEF Requests

\* The server sends something that acknowledges no more than it has.
LEMMA RequestsAnswered ==
  ASSUME TypeInv, Active, Requests, Asked' = Asked, Pipe' = Pipe,
         recvBuff'["server"] = recvBuff["server"],
         lastSent'["client"] = lastSent["client"], lastAcked'["client"] = lastAcked["client"],
         NEW r \in Seg, toClient' = Append(toClient, r), r.flags # 1
  PROVE  Requests'
<1>1. /\ toClient \in Seq(Seg) /\ lastRecved("server") \in Nat /\ lastSent["client"] \in Nat
      /\ "client" \in Host
  BY ActiveIs, Lengths DEF Typed
<1>2. lastRecved("server")' = lastRecved("server")
  BY DEF lastRecved
<1>3. Underway(lastRecved("server"), lastAcked["client"], lastSent["client"], toClient')
  <2>1. lastSent["client"] <= lastSent["client"]
    BY <1>1
  <2>2. Underway(lastRecved("server"), lastAcked["client"], lastSent["client"], toClient)
    BY DEF Requests
  <2> QED
    BY <1>1, <2>1, <2>2, UnderwayMore
<1>4. \A i \in 1 .. Len(toClient') :
        toClient'[i].flags = 1 => toClient'[i].ackNum <= lastRecved("server")
  <2>1. /\ Len(toClient) \in Nat /\ Len(toClient') = Len(toClient) + 1
        /\ \A i \in 1 .. Len(toClient) : toClient'[i] = toClient[i]
        /\ toClient'[Len(toClient) + 1] = r
    BY <1>1, AppendProperties
  <2>2. \A i \in 1 .. Len(toClient') : i \in 1 .. Len(toClient) \/ i = Len(toClient) + 1
    BY <2>1
  <2> QED
    BY <2>1, <2>2 DEF Requests
<1> QED
  BY <1>2, <1>3, <1>4 DEF Requests

\* The server receives the next part of it, or something without data.
LEMMA RequestsReceived ==
  ASSUME TypeInv, Active, FromCur, Requests, ServerReceives, ~ torn', Asked' = Asked,
         lastSent'["client"] = lastSent["client"], lastAcked'["client"] = lastAcked["client"],
         ~ HalfReset => Part(sendBuff["server"], Resp(Asked), 0),
         ~ HalfReset => \A i \in 1 .. lastWrite("server") : Resp(Asked)[i] # NUL
  PROVE  Requests' /\ lastRecved("server") <= lastRecved("server")'
<1> DEFINE seg == Head(Pipe)
           k == lastRecved("server")
           n == Len(seg.data)
<1>1. /\ Typed /\ "client" \in Host /\ "server" \in Host /\ k \in Nat
      /\ toClient \in Seq(Seg) /\ lastSent["client"] \in Nat /\ lastAcked["client"] \in Nat
      /\ recvBuff["server"] \in Seq(Byte) /\ Len(recvBuff["server"]) = k
  BY ActiveIs, Lengths DEF Typed, lastRecved
<1>2. Pipe \in Seq(Seg) /\ Pipe # << >> /\ Pipe' = Tail(Pipe)
  BY ServerReceivesIs
<1>3. /\ seg \in Seg /\ seg.data \in Seq(Byte) /\ Part(seg.data, Req(Asked), k)
      /\ seg.data # << >> => seg.seqNum = k
      /\ k + n <= lastSent["client"]
      /\ Chain(Tail(Pipe), k + n, lastSent["client"], Req(Asked))
  <2>1. Chain(Pipe, k, lastSent["client"], Req(Asked))
    BY DEF Requests
  <2> HIDE DEF k
  <2> QED
    BY <1>2, <2>1, ChainTail
<1>4. n \in Nat
  BY <1>3, LenProperties
<1>5. Part(recvBuff["server"], Req(Asked), 0)
  BY DEF Requests
<1>6. CASE ~ InOrder("server", seg)
  <2>1. recvBuff'["server"] = recvBuff["server"] /\ toClient' = toClient
    BY <1>6, ServerReceivesIs
  <2>2. seg.data = << >> /\ n = 0 /\ k + n = k
    <3>1. seg.data = << >>
      BY <1>3, <1>6 DEF InOrder
    <3>2. n = 0
      BY <3>1, EmptySeq
    <3> QED
      BY <1>1, <3>1, <3>2
  <2>3. Chain(Pipe', k, lastSent["client"], Req(Asked))
    BY <1>2, <1>3, <2>2
  <2>4. lastRecved("server")' = k
    BY <2>1 DEF lastRecved
  <2> QED
    BY <1>1, <2>1, <2>3, <2>4 DEF Requests
<1>7. CASE InOrder("server", seg)
  <2>1. PICK r \in Seg :
          /\ recvBuff'["server"] = recvBuff["server"] \o seg.data
          /\ toClient' = Append(toClient, r)
          /\ r.flags = 1 /\ r.ackNum = k + n
    BY <1>7, ServerReceivesIs
  <2> HIDE DEF seg, n
  <2>2. Len(recvBuff'["server"]) = k + n /\ Part(recvBuff'["server"], Req(Asked), 0)
    <3>1. 0 + k = k
      BY <1>1
    <3>2. Part(recvBuff["server"] \o seg.data, Req(Asked), 0)
      BY <1>1, <1>3, <1>5, <3>1, PartConcat
    <3>3. Len(recvBuff["server"] \o seg.data) = Len(recvBuff["server"]) + Len(seg.data)
      BY <1>1, <1>3, Appended
    <3>4. Len(seg.data) = n
      BY DEF n
    <3>5. Len(recvBuff["server"] \o seg.data) = k + n
      BY <1>1, <3>3, <3>4
    <3> QED
      BY <2>1, <3>2, <3>5
  <2>3. lastRecved("server")' = k + n
    BY <2>2 DEF lastRecved
  <2> HIDE DEF k
  <2>4. /\ lastAcked["client"] <= k
        /\ \A i \in 1 .. Len(toClient) : toClient[i].flags = 1 => toClient[i].ackNum <= k
    BY DEF Requests, k
  <2>5. /\ Len(toClient) \in Nat /\ Len(toClient') = Len(toClient) + 1
        /\ \A i \in 1 .. Len(toClient) : toClient'[i] = toClient[i]
        /\ toClient'[Len(toClient) + 1] = r
    BY <1>1, <2>1, AppendProperties
  <2>6. \A i \in 1 .. Len(toClient') : toClient'[i].flags = 1 => toClient'[i].ackNum <= k + n
    <3> SUFFICES ASSUME NEW i \in 1 .. Len(toClient'), toClient'[i].flags = 1
                 PROVE  toClient'[i].ackNum <= k + n
      OBVIOUS
    <3>1. CASE i = Len(toClient) + 1
      BY <1>1, <1>4, <2>1, <2>5, <3>1
    <3>2. CASE i \in 1 .. Len(toClient)
      <4>1. toClient[i].ackNum <= k /\ toClient[i] \in Seg
        BY <1>1, <2>4, <2>5, <3>2, ElementOfSeq
      <4>2. toClient[i].ackNum \in Nat
        BY <4>1 DEF Seg
      <4> QED
        BY <1>1, <1>4, <2>5, <3>2, <4>1, <4>2
    <3> QED
      BY <2>5, <3>1, <3>2
  <2>7. Underway(k + n, lastAcked["client"], lastSent["client"], toClient')
    <3>1. Len(toClient) + 1 \in 1 .. Len(toClient') /\ k + n \in k + n .. lastSent["client"]
      BY <1>1, <1>3, <1>4, <2>5
    <3> QED
      BY <2>1, <2>5, <3>1 DEF Underway
  <2>8. lastAcked["client"] <= k + n
    BY <1>1, <1>4, <2>4
  <2> QED
    BY <1>1, <1>2, <1>3, <1>4, <2>2, <2>3, <2>6, <2>7, <2>8 DEF Requests, k
<1> QED
  BY <1>6, <1>7

-----------------------------------------------------------------------------
(* The response on its way                                                 *)

LEMMA AnswersSame ==
  ASSUME NEW e, Answers(e), Asked' = Asked, toClient' = toClient,
         recvBuff'["client"] = recvBuff["client"]
  PROVE  Answers(e)'
BY DEF Answers, Carries, lastRecved

\* More of it, or something without data, is sent.
LEMMA CarriesAppend ==
  ASSUME NEW f, Typed, NEW e, Carries(f, e), recvBuff'["client"] = recvBuff["client"],
         NEW r \in Seg, toClient' = Append(toClient, r),
         r.data # << >> => r.seqNum = e, Part(r.data, Resp(f), e),
         e + Len(r.data) <= 11 + FileLen, Len(r.data) > 0 => f \in Existing
  PROVE  Carries(f, e + Len(r.data))'
<1>1. toClient \in Seq(Seg) /\ r.data \in Seq(Byte)
  BY DEF Typed, Seg
<1>2. Len(r.data) \in Nat /\ FileLen \in Nat /\ e \in Nat
  BY <1>1, LenProperties, SessionParams DEF Carries
<1>3. lastRecved("client")' = lastRecved("client")
  BY DEF lastRecved
<1>4. Chain(toClient', lastRecved("client"), e + Len(r.data), Resp(f))
  BY <1>1, ChainAppend DEF Carries
<1>5. e + Len(r.data) \in 0 .. 11 + FileLen /\ (e + Len(r.data) > 0 => f \in Existing)
  BY <1>2 DEF Carries
<1> QED
  BY <1>3, <1>4, <1>5 DEF Carries

LEMMA AnswersAppend ==
  ASSUME Typed, NEW e, Answers(e), Asked' = Asked, recvBuff'["client"] = recvBuff["client"],
         NEW r \in Seg, toClient' = Append(toClient, r),
         r.data # << >> => r.seqNum = e, Part(r.data, Resp(Asked), e),
         e + Len(r.data) <= 11 + FileLen, Len(r.data) > 0 => Asked \in Existing
  PROVE  Answers(e + Len(r.data))'
<1>1. PICK f : f = Asked
  OBVIOUS
<1>2. Carries(f, e)
  BY <1>1 DEF Answers
<1>3. Carries(f, e + Len(r.data))'
  BY <1>1, <1>2, CarriesAppend
<1> QED
  BY <1>1, <1>3 DEF Answers, Carries

\* Nothing of it is lost or taken twice, and what has been received is a part of it.
LEMMA CarriesReceived ==
  ASSUME NEW f, TypeInv, Active, Gets(f), ClientReceives, NEW e, Carries(f, e)
  PROVE  Gets(f)' /\ Carries(f, e)'
<1> DEFINE seg == Head(toClient)
           k == lastRecved("client")
           n == Len(seg.data)
           b == recvBuff["client"]
<1>1. /\ toClient \in Seq(Seg) /\ toClient # << >> /\ toClient' = Tail(toClient)
      /\ b \in Seq(Byte) /\ Len(b) = k /\ k \in Nat /\ FileLen \in Nat
  BY ActiveIs, ClientReceivesIs, Lengths, SessionParams DEF lastRecved
<1>2. e \in 0 .. 11 + FileLen /\ (e > 0 => f \in Existing)
      /\ Chain(toClient, k, e, Resp(f))
  BY DEF Carries
<1> HIDE DEF k
<1>3. /\ seg \in Seg /\ seg.data \in Seq(Byte) /\ Part(seg.data, Resp(f), k)
      /\ seg.data # << >> => seg.seqNum = k
      /\ k + n <= e
      /\ Chain(Tail(toClient), k + n, e, Resp(f))
  BY <1>1, <1>2, ChainTail
<1>4. n \in Nat
  BY <1>3, LenProperties
<1>5. /\ recvBuff'["client"] = b \o seg.data
      /\ Len(b \o seg.data) = k + n
  <2>1. Len(b \o seg.data) = Len(b) + Len(seg.data)
    BY <1>1, <1>3, Appended
  <2>2. CASE seg.data = << >>
    <3>1. recvBuff'["client"] = b
      BY <2>2, ClientReceivesIs DEF InOrder
    <3>2. b \o seg.data = b
      <4>1. b \o << >> = b
        BY <1>1, ConcatEmptySeq
      <4> QED
        BY <2>2, <4>1
    <3> QED
      BY <1>1, <2>1, <3>1, <3>2
  <2>3. CASE seg.data # << >>
    <3>1. InOrder("client", seg)
      BY <1>3, <2>3 DEF InOrder, k
    <3>2. recvBuff'["client"] = b \o seg.data
      BY <3>1, ClientReceivesIs
    <3> QED
      BY <1>1, <2>1, <3>2
  <2> QED
    BY <2>2, <2>3
<1> HIDE DEF seg, n, b
<1>6. lastRecved("client")' = k + n
  BY <1>5 DEF lastRecved
<1>7. Carries(f, e)'
  BY <1>1, <1>2, <1>3, <1>6 DEF Carries, seg
<1>8. Part(b \o seg.data, Resp(f), 0)
  <2>1. Part(b, Resp(f), 0) /\ 0 + Len(b) = k
    BY <1>1 DEF Gets, b
  <2> QED
    BY <1>1, <1>3, <2>1, PartConcat
<1>9. k + n \in 0 .. 11 + FileLen /\ (k + n > 0 => f \in Existing)
  BY <1>1, <1>2, <1>3, <1>4
<1> QED
  BY <1>5, <1>6, <1>7, <1>8, <1>9 DEF Gets

LEMMA AnswersReceived ==
  ASSUME TypeInv, Active, Copying, ClientReceives, Asked' = Asked, NEW e, Answers(e)
  PROVE  Copying' /\ Answers(e)'
<1>1. PICK f : f = Asked
  OBVIOUS
<1>2. Gets(f) /\ Carries(f, e)
  BY <1>1 DEF Copying, Answers
<1>3. Gets(f)' /\ Carries(f, e)'
  BY <1>2, CarriesReceived
<1> QED
  BY <1>1, <1>3 DEF Copying, Gets, Answers, Carries

\* Only ClientReceives changes what the client has received.
LEMMA GetsNext ==
  ASSUME NEW f, TypeInv, Active, Gets(f), Step, ~ Start, NEW e, Carries(f, e)
  PROVE  Gets(f)'
<1>1. CASE ClientReceives
  BY <1>1, CarriesReceived
<1>2. CASE ~ ClientReceives
  <2>1. recvBuff'["client"] = recvBuff["client"]
    BY <1>2, SameReceived
  <2> QED
    BY <2>1 DEF Gets, lastRecved
<1> QED
  BY <1>1, <1>2

LEMMA CopyingNext ==
  ASSUME TypeInv, Active, Copying, Step, ~ Start, NEW e, Answers(e)
  PROVE  Copying'
<1>1. PICK f : f = Asked
  OBVIOUS
<1>2. Gets(f) /\ Carries(f, e)
  BY <1>1 DEF Copying, Answers
<1>3. Gets(f)' /\ Asked' = Asked
  BY <1>2, GetsNext, SameClient DEF Asked
<1> QED
  BY <1>1, <1>3 DEF Copying, Gets

-----------------------------------------------------------------------------
(* Whatever the client sends or receives, the exchange stays where it is   *)

LEMMA ClientSide ==
  ASSUME TypeInv, Active, Send("client") \/ ClientReceives
  PROVE  /\ Step /\ ~ Start /\ Asked' = Asked
         /\ UNCHANGED <<spc, file, pos, addr, held, cur>>
         /\ sendBuff'["server"] = sendBuff["server"] /\ recvBuff'["server"] = recvBuff["server"]
         /\ lastSent'["server"] = lastSent["server"]
<1>1. "client" \in Host /\ "server" \in Host /\ cur \in Nat /\ Typed /\ "client" # "server"
  BY ActiveIs
<1>2. Step
  BY <1>1 DEF Step, Work
<1>3. cur' = cur /\ want' = want /\ UNCHANGED <<spc, file, pos, addr, held, sendBuff>>
  BY DEF Send, ClientReceives, client, server
<1>4. ~ Start
  BY <1>1, <1>3 DEF Start
<1>5. recvBuff'["server"] = recvBuff["server"] /\ lastSent'["server"] = lastSent["server"]
  <2>1. CASE Send("client")
    <3>1. recvBuff' = recvBuff /\ lastSent' = [lastSent EXCEPT !["client"] = @ + NextLen("client")]
      BY <2>1 DEF Send
    <3>2. lastSent \in [Host -> Nat]
      BY <1>1 DEF Typed
    <3> QED
      BY <1>1, <3>1, <3>2
  <2>2. CASE ClientReceives
    <3>1. lastSent'["server"] = lastSent["server"]
      BY <2>2, ClientReceivesIs
    <3>2. ~ ServerReceives /\ ~ InitResf
      <4>1. held' = held /\ spc' = spc
        BY <1>3
      <4>2. InitResf => spc' # spc
        BY DEF InitResf, ResetOrder
      <4>3. ServerReceives => held' # held
        BY DEF ServerReceives
      <4> QED
        BY <4>1, <4>2, <4>3
    <3> QED
      BY <1>2, <1>4, <3>1, <3>2, SameReceived
  <2> QED
    BY <2>1, <2>2
<1> QED
  BY <1>2, <1>3, <1>4, <1>5 DEF Asked

LEMMA RestedClient ==
  ASSUME TypeInv, Active, Writing, Rested, Typed', Send("client") \/ ClientReceives,
         Answers(11 + FileLen)'
  PROVE  Rested'
<1>1. /\ Typed /\ "client" \in Host /\ lastSent["client"] \in Nat /\ lastAcked["client"] \in Nat
      /\ lastSent'["client"] \in Nat /\ toClient \in Seq(Seg) /\ Pipe \in Seq(Seg)
  <2>1. Typed /\ "client" \in Host
    BY ActiveIs
  <2>2. lastSent' \in [Host -> Nat]
    BY DEF Typed
  <2> QED
    BY <2>1, <2>2, Lengths, PipeIs DEF Typed
<1>2. /\ lastSent["client"] >= 1
      /\ \A i \in 1 .. Len(Pipe) : Pipe[i].data # << >> => Pipe[i].seqNum >= 1
      /\ Underway(1, lastAcked["client"], lastSent["client"], toClient)
  BY DEF Rested
<1>3. spc' = spc /\ recvBuff'["server"] = recvBuff["server"]
  BY ClientSide
<1>4. \A r \in Seg : Len(r.data) \in Nat
  <2>1. \A r \in Seg : r.data \in Seq(Byte)
    BY DEF Seg
  <2> QED
    BY <2>1, LenProperties
<1>5. lastSent["client"] <= lastSent'["client"]
  BY <1>1, <1>4, ClientSends
<1>6. \A i \in 1 .. Len(Pipe') : Pipe'[i].data # << >> => Pipe'[i].seqNum >= 1
  <2>1. CASE Pipe' = Pipe
    BY <1>2, <2>1
  <2>2. ASSUME NEW r \in Seg, Pipe' = Append(Pipe, r),
               r.data # << >> => r.seqNum = lastSent["client"]
        PROVE  \A i \in 1 .. Len(Pipe') : Pipe'[i].data # << >> => Pipe'[i].seqNum >= 1
    <3>1. /\ Len(Pipe) \in Nat /\ Len(Pipe') = Len(Pipe) + 1
          /\ \A i \in 1 .. Len(Pipe) : Pipe'[i] = Pipe[i]
          /\ Pipe'[Len(Pipe) + 1] = r
      BY <1>1, <2>2, AppendProperties
    <3>2. \A i \in 1 .. Len(Pipe') : i \in 1 .. Len(Pipe) \/ i = Len(Pipe) + 1
      BY <3>1
    <3> QED
      BY <1>2, <2>2, <3>1, <3>2
  <2> QED
    BY <2>1, <2>2, ClientSends
<1>7. Underway(1, lastAcked'["client"], lastSent'["client"], toClient')
  <2>1. CASE Send("client")
    <3>1. toClient' = toClient /\ lastAcked' = lastAcked
      BY <2>1 DEF Send
    <3> QED
      BY <1>1, <1>2, <1>5, <3>1, UnderwayMore
  <2>2. CASE ClientReceives
    <3>1. /\ toClient # << >> /\ toClient' = Tail(toClient)
          /\ lastAcked'["client"] = IF /\ Head(toClient).flags = 1
                                       /\ Head(toClient).ackNum > lastAcked["client"]
                                       /\ Head(toClient).ackNum <= lastSent["client"]
                                      THEN Head(toClient).ackNum ELSE lastAcked["client"]
      BY <2>2, ClientReceivesIs
    <3>2. Underway(1, lastAcked'["client"], lastSent'["client"], Tail(toClient))
      BY <1>1, <1>2, <1>5, <3>1, UnderwayTail
    <3> QED
      BY <3>1, <3>2
  <2> QED
    BY <2>1, <2>2
<1>8. recvBuff'["server"] = << >> /\ spc' \in {"sockFd", "addr", "waitTime", "poll"} /\ lastSent'["client"] >= 1
  BY <1>1, <1>2, <1>3, <1>5 DEF Rested
<1> QED
  BY <1>6, <1>7, <1>8 DEF Rested

LEMMA PhaseClient ==
  ASSUME TypeInv, Active, Typed', Writing, Copying, Send("client") \/ ClientReceives,
         Asking \/ Answering \/ Clearing \/ Rested
  PROVE  (Asking \/ Answering \/ Clearing \/ Rested)'
<1>1. /\ Asked' = Asked /\ UNCHANGED <<spc, file, pos, addr, cur>>
      /\ sendBuff'["server"] = sendBuff["server"] /\ recvBuff'["server"] = recvBuff["server"]
      /\ lastSent'["server"] = lastSent["server"]
  BY ClientSide
<1>2. lastRecved("server")' = lastRecved("server") /\ lastWrite("server")' = lastWrite("server")
  BY <1>1 DEF lastRecved, lastWrite
<1>3. ASSUME NEW e, Answers(e) PROVE Answers(e)'
  <2>1. CASE Send("client")
    <3>1. toClient' = toClient /\ recvBuff' = recvBuff
      BY <2>1 DEF Send
    <3> QED
      BY <1>1, <1>3, <3>1, AnswersSame
  <2>2. CASE ClientReceives
    BY <1>1, <1>3, <2>2, AnswersReceived
  <2> QED
    BY <2>1, <2>2
<1>4. Requests => Requests'
  BY RequestsClient
<1>5. CASE Asking
  <2>1. Answers(0)'
    BY <1>3, <1>5 DEF Asking
  <2> QED
    BY <1>1, <1>2, <1>4, <1>5, <2>1 DEF Asking
<1>6. CASE Answering
  <2>1. PICK e : e = lastSent["server"]
    OBVIOUS
  <2>2. Answers(e)'
    BY <1>3, <1>6, <2>1 DEF Answering
  <2>3. Answers(lastSent["server"])'
    BY <1>1, <2>1, <2>2 DEF Answers, Carries
  <2>4. (Requests /\ lastRecved("server") > 0)'
    BY <1>2, <1>4, <1>6 DEF Answering
  <2> QED
    BY <1>1, <1>2, <1>6, <2>3, <2>4 DEF Answering
<1>7. CASE Clearing
  BY <1>1, <1>2, <1>3, <1>4, <1>7 DEF Clearing
<1>8. CASE Rested
  <2>1. Answers(11 + FileLen)'
    BY <1>3, <1>8 DEF Rested
  <2> QED
    BY <1>8, <2>1, RestedClient
<1> QED
  BY <1>5, <1>6, <1>7, <1>8

\* Nothing that the exchange is about changes.
LEMMA PhaseSame ==
  ASSUME Asked' = Asked, cur' = cur, Pipe' = Pipe, addr' = addr \/ addr' = cur,
         UNCHANGED <<toClient, lastSent, lastAcked, recvBuff, spc, file, pos>>,
         sendBuff'["server"] = sendBuff["server"],
         Asking \/ Answering \/ Clearing \/ Rested
  PROVE  (Asking \/ Answering \/ Clearing \/ Rested)'
<1>1. Requests => Requests'
  BY RequestsSame
<1>2. ASSUME NEW e, Answers(e) PROVE Answers(e)'
  BY <1>2, AnswersSame
<1>3. lastRecved("server")' = lastRecved("server") /\ lastWrite("server")' = lastWrite("server")
  BY DEF lastRecved, lastWrite
<1>4. CASE Asking
  <2>1. Answers(0)'
    BY <1>2, <1>4 DEF Asking
  <2> QED
    BY <1>1, <1>3, <1>4, <2>1 DEF Asking
<1>5. CASE Answering
  <2>1. PICK e : e = lastSent["server"]
    OBVIOUS
  <2>2. Answers(e)'
    BY <1>2, <1>5, <2>1 DEF Answering
  <2>3. Answers(lastSent["server"])'
    BY <2>1, <2>2 DEF Answers, Carries
  <2>4. (Requests /\ lastRecved("server") > 0)' /\ addr' = cur
    BY <1>1, <1>3, <1>5 DEF Answering
  <2> QED
    BY <1>3, <1>5, <2>3, <2>4 DEF Answering
<1>6. CASE Clearing
  <2>1. Answers(11 + FileLen)'
    BY <1>2, <1>6 DEF Clearing
  <2> QED
    BY <1>1, <1>3, <1>6, <2>1 DEF Clearing
<1>7. CASE Rested
  <2>1. Answers(11 + FileLen)'
    BY <1>2, <1>7 DEF Rested
  <2> QED
    BY <1>7, <2>1 DEF Rested
<1> QED
  BY <1>4, <1>5, <1>6, <1>7

\* What the server has written is a part of the response.
LEMMA RespWritten ==
  ASSUME TypeInv, Active, Asking \/ Answering \/ Clearing \/ Rested, ~ HalfReset
  PROVE  /\ Part(sendBuff["server"], Resp(Asked), 0)
         /\ \A i \in 1 .. lastWrite("server") : Resp(Asked)[i] # NUL
         /\ ~ Answering => sendBuff["server"] = << >> /\ lastWrite("server") = 0
                           /\ lastSent["server"] = 0
         /\ Answering => lastWrite("server") <= 11 + FileLen
<1>1. /\ Typed /\ Ordered /\ Running /\ lastSent["server"] <= lastWrite("server")
      /\ lastSent["server"] \in Nat /\ FileLen \in Nat /\ pos \in 0 .. FileLen /\ Asked \in Names
  <2>1. /\ Typed /\ Ordered /\ Running /\ lastSent["server"] <= lastWrite("server")
        /\ "server" \in Host /\ Asked \in Names
    BY ActiveIs DEF TypeInv
  <2>2. FileLen \in 1 .. 9
    BY SessionParams
  <2>3. pos \in 0 .. FileLen
    BY <2>1 DEF Typed
  <2>4. lastSent["server"] \in Nat
    BY <2>1, Lengths
  <2> QED
    BY <2>1, <2>2, <2>3, <2>4
<1>2. CASE Answering
  <2>1. /\ Part(sendBuff["server"], Resp(Asked), 0) /\ Asked \in Existing
        /\ lastWrite("server") = 11 + pos
    BY <1>2 DEF Answering
  <2>2. lastWrite("server") <= 11 + FileLen
    BY <1>1, <2>1
  <2>3. \A i \in 1 .. 11 + FileLen : Resp(Asked)[i] # NUL
    BY <2>1, RespIs
  <2>4. \A i \in 1 .. lastWrite("server") : i \in 1 .. 11 + FileLen
    BY <1>1, <2>1
  <2> QED
    BY <1>2, <2>1, <2>2, <2>3, <2>4
<1>3. CASE ~ Answering
  <2>1. spc \in {"lastRead", "lastRecved", "sockFd", "addr", "waitTime", "poll"}
    BY <1>3 DEF Asking, Clearing, Rested, HalfReset
  <2>2. sendBuff["server"] = << >>
    BY <1>1, <2>1 DEF Ordered
  <2>3. lastWrite("server") = 0
    BY <2>2, EmptySeq DEF lastWrite
  <2> QED
    BY <1>1, <1>3, <2>2, <2>3 DEF Part, lastWrite
<1> QED
  BY <1>2, <1>3

\* What the server's receive thread leaves alone.
LEMMA ReceivedSide ==
  ASSUME TypeInv, Active, ServerReceives
  PROVE  /\ Step /\ ~ Start /\ Asked' = Asked /\ cur' = cur
         /\ UNCHANGED <<spc, file, pos, addr>>
         /\ recvBuff'["client"] = recvBuff["client"]
         /\ lastSent'["client"] = lastSent["client"] /\ lastAcked'["client"] = lastAcked["client"]
<1>1. Step
  BY DEF Step, Work
<1>2. cur' = cur /\ want' = want /\ UNCHANGED <<spc, file, pos, addr, out, lastRead, sendBuff>>
      /\ held' # held /\ toServer' = toServer
  BY DEF ServerReceives, client, server
<1>3. ~ Start
  BY <1>2, ActiveIs DEF Start
<1>4. ~ ClientReceives /\ ~ Send("client")
  BY <1>2 DEF ClientReceives, Send
<1>5. recvBuff'["client"] = recvBuff["client"]
  BY <1>1, <1>3, <1>4, SameReceived
<1>6. lastSent'["client"] = lastSent["client"] /\ lastAcked'["client"] = lastAcked["client"]
  BY <1>1, <1>3, <1>4, SameSent
<1> QED
  BY <1>1, <1>2, <1>3, <1>5, <1>6 DEF Asked

\* What it receives, the server answers in the order of the response.
LEMMA AnswersNext ==
  ASSUME TypeInv, Active, TypeInv', Running', FromCur, ServerReceives,
         Asking \/ Answering \/ Clearing \/ Rested,
         NEW e, Answers(e), e = lastSent["server"] \/ ~ Answering
  PROVE  \/ Answers(e)' /\ (Answering => e = lastSent'["server"])
         \/ Answering /\ \E d \in Nat : Answers(d)' /\ d = lastSent'["server"]
<1>1. /\ Typed /\ "server" \in Host /\ lastSent["server"] \in Nat /\ FileLen \in 1 .. 9
      /\ Asked' = Asked /\ recvBuff'["client"] = recvBuff["client"] /\ ~ torn'
      /\ sendBuff' = sendBuff
  BY ActiveIs, Lengths, ReceivedSide, SessionParams DEF Running, ServerReceives
<1>2. ~ HalfReset => /\ Part(sendBuff["server"], Resp(Asked), 0)
                     /\ \A i \in 1 .. lastWrite("server") : Resp(Asked)[i] # NUL
  BY RespWritten
<1>3. \/ lastSent'["server"] = lastSent["server"] /\ toClient' = toClient
      \/ /\ ~ HalfReset
         /\ \E r \in Seg :
              /\ toClient' = Append(toClient, r)
              /\ r.data # << >> => r.seqNum = lastSent["server"]
              /\ Part(r.data, Resp(Asked), lastSent["server"])
              /\ lastSent'["server"] = lastSent["server"] + Len(r.data)
  BY <1>1, <1>2, ServerReceivesIs
<1>4. CASE lastSent'["server"] = lastSent["server"] /\ toClient' = toClient
  BY <1>1, <1>4, AnswersSame
<1>5. ASSUME ~ HalfReset, NEW r \in Seg,
             toClient' = Append(toClient, r),
             r.data # << >> => r.seqNum = lastSent["server"],
             Part(r.data, Resp(Asked), lastSent["server"]),
             lastSent'["server"] = lastSent["server"] + Len(r.data)
      PROVE  \/ Answers(e)' /\ (Answering => e = lastSent'["server"])
             \/ Answering /\ \E d \in Nat : Answers(d)' /\ d = lastSent'["server"]
  <2>1. r.data \in Seq(Byte) /\ Len(r.data) \in Nat
    <3>1. r.data \in Seq(Byte)
      BY DEF Seg
    <3> QED
      BY <3>1, LenProperties
  <2>2. lastSent'["server"] <= lastWrite("server")
    <3>1. lastSent'["server"] <= lastWrite("server")'
      <4>1. Ordered'
        BY DEF TypeInv
      <4>2. ~ torn' /\ ~ HalfReset'
        BY <1>1, <1>5, ReceivedSide DEF HalfReset
      <4> QED
        BY <4>1, <4>2 DEF Ordered
    <3> QED
      BY <1>1, <3>1 DEF lastWrite
  <2>3. CASE Answering
    <3>1. e = lastSent["server"] /\ Asked \in Existing /\ lastWrite("server") <= 11 + FileLen
      BY <1>5, <2>3, RespWritten DEF Answering
    <3>2. lastWrite("server") \in Nat
      BY <1>1, Lengths
    <3>3. e + Len(r.data) <= 11 + FileLen
      BY <1>1, <1>5, <2>1, <2>2, <3>1, <3>2
    <3>4. Answers(e + Len(r.data))'
      BY <1>1, <1>5, <3>1, <3>3, AnswersAppend
    <3>5. e + Len(r.data) \in Nat
      BY <1>1, <2>1, <3>1
    <3> QED
      BY <1>5, <2>3, <3>1, <3>4, <3>5
  <2>4. CASE ~ Answering
    <3>1. lastWrite("server") = 0 /\ lastSent["server"] = 0
      BY <1>5, <2>4, RespWritten
    <3>2. Len(r.data) = 0
      BY <1>5, <2>1, <2>2, <3>1
    <3>3. r.data = << >>
      BY <2>1, <3>2, EmptyIs
    <3>4. e \in 0 .. 11 + FileLen
      BY DEF Answers, Carries
    <3>5. e + Len(r.data) = e /\ e <= 11 + FileLen /\ Part(r.data, Resp(Asked), e)
      BY <1>1, <3>2, <3>4 DEF Part
    <3>6. Answers(e + Len(r.data))'
      BY <1>1, <1>5, <3>2, <3>3, <3>5, AnswersAppend
    <3>7. PICK d : d = e + Len(r.data)
      OBVIOUS
    <3>8. Answers(d)' /\ d = e
      BY <3>5, <3>6, <3>7 DEF Answers, Carries
    <3> QED
      BY <2>4, <3>8 DEF Answers, Carries
  <2> QED
    BY <2>3, <2>4
<1> QED
  BY <1>3, <1>4, <1>5

LEMMA PhaseReceived ==
  ASSUME TypeInv, Active, TypeInv', Running', FromCur, ServerReceives,
         Asking \/ Answering \/ Clearing \/ Rested
  PROVE  (Asking \/ Answering \/ Clearing \/ Rested)'
<1>1. /\ Typed /\ "server" \in Host /\ Asked' = Asked /\ cur' = cur /\ ~ torn'
      /\ UNCHANGED <<spc, file, pos, addr>>
      /\ lastSent'["client"] = lastSent["client"] /\ lastAcked'["client"] = lastAcked["client"]
  BY ActiveIs, ReceivedSide DEF Running
<1>2. ~ HalfReset => /\ Part(sendBuff["server"], Resp(Asked), 0)
                     /\ \A i \in 1 .. lastWrite("server") : Resp(Asked)[i] # NUL
  BY RespWritten
<1>3. Requests => Requests' /\ lastRecved("server") <= lastRecved("server")'
  BY <1>1, <1>2, RequestsReceived
<1>4. lastRecved("server") \in Nat /\ lastRecved("server")' \in Nat
  <2>1. recvBuff'["server"] \in Seq(Byte)
    BY <1>1 DEF TypeInv, Typed
  <2> QED
    BY <1>1, <2>1, Lengths, LenProperties DEF lastRecved
<1>5. sendBuff'["server"] = sendBuff["server"] /\ lastWrite("server")' = lastWrite("server")
  BY DEF ServerReceives, lastWrite
<1>6. CASE Asking
  <2>1. Answers(0) /\ ~ Answering /\ Requests
    BY <1>6 DEF Asking, Answering
  <2>2. Answers(0)'
    BY <2>1, <1>6, AnswersNext
  <2>3. lastRecved("server")' > 0 => addr = cur
    <3>1. CASE recvBuff'["server"] = recvBuff["server"]
      BY <1>6, <3>1 DEF Asking, lastRecved
    <3>2. CASE addr = cur
      BY <3>2
    <3> QED
      BY <1>1, <1>2, <3>1, <3>2, ServerReceivesIs
  <2> QED
    BY <1>1, <1>3, <1>6, <2>1, <2>2, <2>3 DEF Asking
<1>7. CASE Answering
  <2>1. Answers(lastSent["server"])
    BY <1>7 DEF Answering
  <2>2. PICK e : e = lastSent["server"]
    OBVIOUS
  <2>3. \E d : Answers(d)' /\ d = lastSent'["server"]
    <3>1. Answers(e)
      BY <2>1, <2>2
    <3> QED
      BY <1>7, <2>2, <3>1, AnswersNext
  <2>4. Answers(lastSent["server"])'
    BY <2>3 DEF Answers, Carries
  <2>5. (Requests /\ lastRecved("server") > 0)'
    BY <1>3, <1>4, <1>7 DEF Answering
  <2>6. spc = "lastSent" => lastSent'["server"] = 11 + FileLen
    <3>1. ASSUME spc = "lastSent" PROVE lastSent'["server"] = 11 + FileLen
      <4>1. lastSent["server"] = 11 + FileLen /\ lastWrite("server") = 11 + FileLen
        BY <1>7, <3>1 DEF Answering
      <4>2. ~ HalfReset /\ ~ HalfReset' /\ Ordered' /\ ~ torn'
        BY <1>1, <3>1 DEF HalfReset, TypeInv
      <4>3. lastSent'["server"] <= lastWrite("server")'
        BY <4>2 DEF Ordered
      <4>4. lastSent["server"] <= lastSent'["server"] /\ lastSent'["server"] \in Nat
        <5>1. lastSent' \in [Host -> Nat]
          BY DEF TypeInv, Typed
        <5>2. lastSent["server"] \in Nat /\ \A r \in Seg : Len(r.data) \in Nat
          <6>1. \A r \in Seg : r.data \in Seq(Byte)
            BY DEF Seg
          <6> QED
            BY <1>1, <6>1, Lengths, LenProperties
        <5>3. lastSent'["server"] = lastSent["server"]
              \/ \E r \in Seg : lastSent'["server"] = lastSent["server"] + Len(r.data)
          BY <1>1, <1>2, ServerReceivesIs
        <5> QED
          BY <1>1, <5>1, <5>2, <5>3
      <4>5. FileLen \in 1 .. 9
        BY SessionParams
      <4> QED
        BY <1>5, <4>1, <4>3, <4>4, <4>5
    <3> QED
      BY <3>1
  <2> QED
    BY <1>1, <1>5, <1>7, <2>4, <2>5, <2>6 DEF Answering
<1>8. CASE Clearing
  <2>1. Answers(11 + FileLen) /\ ~ Answering /\ Requests /\ lastRecved("server") > 0
    BY <1>8 DEF Clearing, Answering
  <2>2. Answers(11 + FileLen)'
    BY <2>1, <1>8, AnswersNext
  <2> QED
    BY <1>1, <1>3, <1>4, <1>8, <2>1, <2>2 DEF Clearing
<1>9. CASE Rested
  <2>1. Answers(11 + FileLen) /\ ~ Answering
    BY <1>9 DEF Rested, Answering
  <2>2. Answers(11 + FileLen)'
    BY <2>1, <1>9, AnswersNext
  <2>3. /\ recvBuff["server"] = << >> /\ lastRecved("server") = 0
        /\ \A i \in 1 .. Len(Pipe) : Pipe[i].data # << >> => Pipe[i].seqNum >= 1
    BY <1>9, EmptySeq DEF Rested, lastRecved
  <2>4. Pipe \in Seq(Seg) /\ Pipe # << >> /\ Pipe' = Tail(Pipe)
    BY <1>1, <1>2, ServerReceivesIs
  <2>5. /\ Len(Pipe) \in Nat \ {0} /\ Len(Pipe') = Len(Pipe) - 1 /\ Head(Pipe) = Pipe[1]
        /\ \A i \in 1 .. Len(Pipe') : Pipe'[i] = Pipe[i + 1]
    <3>1. Len(Pipe) \in Nat \ {0}
      BY <2>4, EmptySeq
    <3> QED
      BY <2>4, <3>1, HeadTailProperties
  <2>6. 1 \in 1 .. Len(Pipe) /\ \A i \in 1 .. Len(Pipe') : i + 1 \in 1 .. Len(Pipe)
    BY <2>5
  <2>7. ~ InOrder("server", Head(Pipe))
    BY <2>3, <2>5, <2>6 DEF InOrder
  <2>8. recvBuff'["server"] = recvBuff["server"] /\ toClient' = toClient
    BY <1>1, <1>2, <2>7, ServerReceivesIs
  <2>9. \A i \in 1 .. Len(Pipe') : Pipe'[i].data # << >> => Pipe'[i].seqNum >= 1
    BY <2>3, <2>5, <2>6
  <2> QED
    BY <1>1, <1>9, <2>2, <2>3, <2>8, <2>9 DEF Rested
<1> QED
  BY <1>6, <1>7, <1>8, <1>9

LEMMA PhaseTaken ==
  ASSUME TypeInv, Active, Typed', FromCur', ServerTakes,
         Asking \/ Answering \/ Clearing \/ Rested
  PROVE  (Asking \/ Answering \/ Clearing \/ Rested)'
<1>1. Typed /\ UNCHANGED <<cur, want, toClient, lastSent, lastAcked, recvBuff, spc, file, pos>>
      /\ sendBuff' = sendBuff /\ held' # None
  <2>1. held' # << >>
    BY DEF ServerTakes
  <2> QED
    BY <2>1, ActiveIs DEF ServerTakes, endpoints, client, server, None
<1>2. Pipe' = Pipe
  BY <1>1, PipeTakes
<1>3. addr' = cur
  BY <1>1 DEF FromCur, None
<1> QED
  BY <1>1, <1>2, <1>3, PhaseSame DEF Asked

\* The server sends the next part of the response, to the client it is for.
LEMMA PhaseSent ==
  ASSUME TypeInv, Active, TypeInv', Running', Send("server"),
         Asking \/ Answering \/ Clearing \/ Rested
  PROVE  Answering /\ Answering' /\ addr = cur
<1> DEFINE seg == NewData("server", 0, 0)
<1>1. /\ Typed /\ "server" \in Host /\ "client" \in Host /\ "server" # "client"
      /\ lastSent["server"] \in Nat /\ lastSent["server"] <= lastWrite("server")
      /\ NextLen("server") > 0 /\ NextLen("server") \in Nat
      /\ toClient' = ToClient(seg) /\ toServer' = toServer
      /\ lastSent' = [lastSent EXCEPT !["server"] = @ + NextLen("server")]
      /\ UNCHANGED <<lastAcked, sendBuff, recvBuff, held, addr, spc, file, pos, cur, want>>
  <2>1. /\ Typed /\ "server" \in Host /\ "client" \in Host /\ "server" # "client"
        /\ lastSent["server"] <= lastWrite("server")
    BY ActiveIs
  <2>2. /\ NextLen("server") > 0
        /\ toClient' = ToClient(seg) /\ toServer' = toServer
        /\ lastSent' = [lastSent EXCEPT !["server"] = @ + NextLen("server")]
        /\ UNCHANGED <<lastAcked, sendBuff, recvBuff, held, addr, spc, file, pos, cur, want>>
    BY <2>1 DEF Send, client, server
  <2> HIDE DEF seg
  <2> QED
    BY <2>1, <2>2, Lengths, NextLenIs
<1>2. ~ HalfReset
  BY DEF Send, Running
<1>3. /\ Part(sendBuff["server"], Resp(Asked), 0)
      /\ \A i \in 1 .. lastWrite("server") : Resp(Asked)[i] # NUL
      /\ ~ Answering => lastWrite("server") = 0 /\ lastSent["server"] = 0
      /\ Answering => lastWrite("server") <= 11 + FileLen
  BY <1>2, RespWritten
<1>4. lastWrite("server") \in Nat /\ FileLen \in 1 .. 9
      /\ NextLen("server") <= lastWrite("server") - lastSent["server"]
  BY <1>1, Lengths, NextLenIs, SessionParams
<1>5. Answering
  BY <1>1, <1>3, <1>4
<1>6. addr = cur /\ Asked \in Existing /\ Requests
  BY <1>5 DEF Answering
<1>7. /\ seg \in Seg /\ Received(seg) = seg
      /\ seg.seqNum = lastSent["server"] /\ seg.flags = 0
      /\ Len(seg.data) = NextLen("server") /\ Part(seg.data, Resp(Asked), lastSent["server"])
  <2>1. 0 \in Nat /\ 0 \in 0 .. 1 /\ lastWrite("server") <= lastWrite("server")
    BY <1>4
  <2> QED
    BY <1>1, <1>3, <1>4, <2>1, Carried
<1> HIDE DEF seg
<1>8. toClient' = Append(toClient, seg) /\ Asked' = Asked
  BY <1>1, <1>6, <1>7 DEF ToClient, Asked
<1>9. Pipe' = Pipe
  BY <1>1 DEF Pipe
<1>10. lastSent'["client"] = lastSent["client"]
       /\ lastSent'["server"] = lastSent["server"] + NextLen("server")
  <2>1. lastSent \in [Host -> Nat]
    BY <1>1 DEF Typed
  <2> QED
    BY <1>1, <2>1
<1>11. Requests'
  <2>1. seg.flags # 1
    BY <1>7
  <2> QED
    BY <1>1, <1>6, <1>7, <1>8, <1>9, <1>10, <2>1, RequestsAnswered
<1>12. Answers(lastSent["server"])'
  <2>1. PICK e : e = lastSent["server"]
    OBVIOUS
  <2>2. PICK r \in Seg : r = seg
    BY <1>7
  <2>3. Answers(e)
    BY <1>5, <2>1 DEF Answering
  <2>4. e + Len(r.data) <= 11 + FileLen
    BY <1>1, <1>3, <1>4, <1>5, <1>7, <2>1, <2>2
  <2>5. /\ toClient' = Append(toClient, r) /\ recvBuff'["client"] = recvBuff["client"]
        /\ r.seqNum = e /\ Part(r.data, Resp(Asked), e)
    BY <1>1, <1>7, <1>8, <2>1, <2>2
  <2>6. Answers(e + Len(r.data))'
    BY <1>1, <1>6, <1>8, <2>3, <2>4, <2>5, AnswersAppend
  <2>7. PICK d : d = e + Len(r.data)
    OBVIOUS
  <2>8. Answers(d)' /\ d = lastSent'["server"]
    BY <1>7, <1>10, <2>1, <2>2, <2>6, <2>7 DEF Answers, Carries
  <2> QED
    BY <2>8 DEF Answers, Carries
<1>13. spc # "lastSent"
  BY <1>1, <1>3, <1>4, <1>5 DEF Answering
<1>14. lastRecved("server")' = lastRecved("server") /\ lastWrite("server")' = lastWrite("server")
  BY <1>1 DEF lastRecved, lastWrite
<1>15. (Requests /\ lastRecved("server") > 0)'
  BY <1>5, <1>11, <1>14 DEF Answering
<1> QED
  BY <1>1, <1>5, <1>6, <1>8, <1>12, <1>13, <1>14, <1>15 DEF Answering

\* The client retransmits only what the server drops.
LEMMA PhaseResent ==
  ASSUME TypeInv, Active, Typed', ClientResend, Asking \/ Answering \/ Clearing \/ Rested
  PROVE  Rested /\ Rested'
<1> DEFINE n == Min({MSS, lastSent["client"] - lastAcked["client"]})
<1>1. /\ Typed /\ "client" \in Host
      /\ lastSent["client"] \in Nat /\ lastAcked["client"] \in Nat
      /\ lastAcked["client"] <= lastSent["client"]
  BY ActiveIs, Lengths
<1>2. n > 0 /\ toServer = << >> /\ toClient = << >> /\ held = << >>
  BY DEF ClientResend, None
<1>3. n \in Nat /\ n <= lastSent["client"] - lastAcked["client"]
  <2>1. MSS \in Nat /\ MSS > 0
    BY SessionParams
  <2> QED
    BY <1>1, <1>2, <2>1, MinOfTwo
<1>4. PICK junk \in Junk :
        toServer' = ToServer([seqNum |-> lastAcked["client"], ackNum |-> 0, flags |-> 0,
                              data |-> [i \in 1 .. n |-> junk]])
  BY DEF ClientResend
<1> HIDE DEF n
<1>5. Len(<< >>) = 0
  BY EmptySeq
<1>6. ~ Requests
  <2> SUFFICES ASSUME Requests PROVE FALSE
    OBVIOUS
  <2>1. Pipe = << >>
    <3>1. Pipe \in Seq(Seg) /\ Len(Pipe) = 0
      BY <1>1, <1>2, <1>5, PipeIs
    <3> QED
      BY <3>1, EmptyIs
  <2>2. lastRecved("server") \in Nat /\ lastRecved("server") = lastSent["client"]
    <3>1. lastRecved("server") \in Nat
      BY <1>1, Lengths DEF Host
    <3>2. Chain(<< >>, lastRecved("server"), lastSent["client"], Req(Asked))
      BY <2>1 DEF Requests
    <3> QED
      BY <3>1, <3>2, ChainEmpty
  <2>3. lastAcked["client"] >= lastRecved("server")
    BY <1>2, <1>5 DEF Requests, Underway
  <2> QED
    BY <1>1, <1>2, <1>3, <2>2, <2>3
<1>7. Rested
  BY <1>6 DEF Asking, Answering, Clearing
<1>8. lastAcked["client"] >= 1
  BY <1>2, <1>5, <1>7 DEF Rested, Underway
<1> DEFINE d == [i \in 1 .. n |-> junk]
           seg == [seqNum |-> lastAcked["client"], ackNum |-> 0, flags |-> 0, data |-> d]
<1>9. seg \in Seg
  <2>1. junk \in Byte
    BY SessionParams
  <2>2. d \in Seq(Byte)
    BY <1>3, <2>1, SeqDef
  <2> HIDE DEF d
  <2>3. 0 \in Nat /\ 0 \in 0 .. 1
    OBVIOUS
  <2> QED
    BY <1>1, <2>2, <2>3 DEF Seg
<1>10. toServer' = ToServer(seg) /\ seg.seqNum = lastAcked["client"]
  BY <1>4
<1> HIDE DEF d, seg
<1>11. Pipe' = Append(Pipe, Received(seg))
  <2>1. held' = held
    BY DEF ClientResend
  <2> QED
    BY <1>1, <1>9, <1>10, <2>1, PipeAppend
<1>12. Received(seg) \in Seg /\ Received(seg).seqNum >= 1
  BY <1>1, <1>8, <1>9, <1>10, ReceivedType DEF Received, Seg
<1>13. \A i \in 1 .. Len(Pipe') : Pipe'[i].data # << >> => Pipe'[i].seqNum >= 1
  <2>1. /\ Len(Pipe) \in Nat /\ Len(Pipe') = Len(Pipe) + 1
        /\ \A i \in 1 .. Len(Pipe) : Pipe'[i] = Pipe[i]
        /\ Pipe'[Len(Pipe) + 1] = Received(seg)
    BY <1>1, <1>11, <1>12, PipeIs, AppendProperties
  <2>2. \A i \in 1 .. Len(Pipe') : i \in 1 .. Len(Pipe) \/ i = Len(Pipe) + 1
    BY <2>1
  <2> QED
    BY <1>7, <1>12, <2>1, <2>2 DEF Rested
<1>14. UNCHANGED <<lastSent, lastAcked, recvBuff, spc, toClient, cur, want>>
  BY DEF ClientResend, endpoints, server, client
<1>15. Answers(11 + FileLen)'
  BY <1>7, <1>14, AnswersSame DEF Rested, Asked
<1> QED
  BY <1>7, <1>13, <1>14, <1>15 DEF Rested

-----------------------------------------------------------------------------
(* The server reads the request                                            *)

\* Of a line or a part of a line of the request.
LEMMA ServeAsked ==
  ASSUME TypeInv, Active, NEW line \in Seq(Byte), Part(line, Req(Asked), 0), Len(line) <= 10,
         Serve(line)
  PROVE  \/ /\ spc' = "gone" /\ ~ (Len(line) = 10 /\ Asked \in Existing)
         \/ /\ spc' = "body" /\ pos' = 0 /\ Asked \in Existing /\ file' = Content[Asked]
            /\ sendBuff' = [sendBuff EXCEPT !["server"] = @ \o Response(FileLen)]
<1> DEFINE str == SubSeq(line, 1, Len(line) - 2)
           p == parseHttpRequestLine(str)
           named(f) == << Dot, Slash, Slash, f >>
<1>1. Typed /\ Asked \in Names /\ Len(line) \in Nat
  BY ActiveIs, LenProperties
<1>2. str \in Seq(Byte) /\ Part(str, Req(Asked), 0) /\ Len(str) <= 8
      /\ (Len(line) = 10 => Len(str) = 8)
  <2>1. CASE Len(line) >= 2
    <3>1. Len(line) - 2 \in 0 .. Len(line)
      BY <1>1, <2>1
    <3>2. /\ str \in Seq(Byte) /\ Len(str) = Len(line) - 2
          /\ \A i \in 1 .. Len(line) - 2 : str[i] = line[i]
      BY <3>1, PrefixIs
    <3> HIDE DEF str
    <3>3. \A i \in 1 .. Len(line) - 2 : i \in 1 .. Len(line)
      BY <1>1
    <3> QED
      BY <1>1, <3>2, <3>3 DEF Part
  <2>2. CASE Len(line) < 2
    <3>1. 1 \in Int /\ Len(line) - 2 \in Int /\ Len(line) - 2 < 1
      BY <1>1, <2>2
    <3>2. str = << >>
      BY <3>1, SubSeqEmpty
    <3>3. str \in Seq(Byte) /\ Len(str) = 0
      BY <3>2, EmptySeq
    <3> HIDE DEF str
    <3>4. Part(str, Req(Asked), 0)
      BY <3>3 DEF Part
    <3> DEFINE n == Len(line)
    <3>5. n \in Nat /\ n < 2
      BY <1>1, <2>2
    <3> HIDE DEF n
    <3>6. n # 10
      BY <3>5
    <3>7. Len(str) <= 8
      BY <3>3
    <3> QED
      BY <3>3, <3>4, <3>6, <3>7 DEF n
  <2> QED
    BY <1>1, <2>1, <2>2
<1>3. Parsed(line) = p
  BY DEF Parsed
<1> HIDE DEF str
<1>4. /\ Len(str) = 8 => p.ok
      /\ p.ok => p.path = named(Asked)
  BY <1>1, <1>2, RequestParsed
<1> HIDE DEF p
<1>5. \A f, g : named(f) = named(g) => f = g
  OBVIOUS
<1>6. CASE spc' = "gone" /\ ~ (p.ok /\ Exists(p.path))
  <2>1. Asked \in Existing /\ p.ok => Exists(p.path)
    BY <1>4 DEF Exists
  <2> QED
    BY <1>2, <1>4, <1>6, <2>1
<1>7. ASSUME spc' = "body", pos' = 0, NEW f \in Existing, p.ok, p.path = named(f),
             file' = Content[f],
             sendBuff' = [sendBuff EXCEPT !["server"] = @ \o Response(FileLen)]
      PROVE  /\ spc' = "body" /\ pos' = 0 /\ Asked \in Existing /\ file' = Content[Asked]
             /\ sendBuff' = [sendBuff EXCEPT !["server"] = @ \o Response(FileLen)]
  <2>1. f = Asked
    BY <1>4, <1>5, <1>7
  <2> QED
    BY <1>7, <2>1
<1> QED
  BY <1>1, <1>3, <1>6, <1>7, ServeIs

\* What it has of the request, and where the first line ends.
LEMMA PollIs ==
  ASSUME TypeInv, Active, Writing, Requests, spc = "poll"
  PROVE  /\ Unread("server") \in Seq(Byte) /\ Len(Unread("server")) = lastRecved("server")
         /\ Part(Unread("server"), Req(Asked), 0) /\ lastRecved("server") <= 12
         /\ Find(LF, Unread("server"), 1) =
              IF lastRecved("server") >= 10 THEN 10 ELSE lastRecved("server") + 1
<1> DEFINE u == Unread("server")
           n == lastRecved("server")
<1>1. /\ Typed /\ Ordered /\ "server" \in Host /\ Asked \in Names /\ n \in Nat
      /\ lastRead["server"] = 0 /\ lastRead["server"] <= n
      /\ lastSent["client"] <= lastWrite("client") /\ lastSent["client"] \in Nat
      /\ lastWrite("client") \in 0 .. 12
  <2>1. Typed /\ Ordered /\ "server" \in Host /\ "client" \in Host /\ Asked \in Names
        /\ lastSent["client"] <= lastWrite("client")
    BY ActiveIs DEF TypeInv
  <2>2. lastRead["server"] = 0
    BY <2>1 DEF Ordered
  <2> QED
    BY <2>1, <2>2, Lengths, WrittenIs
<1>2. /\ u \in Seq(Byte) /\ Len(u) = n - lastRead["server"]
      /\ \A i \in 1 .. Len(u) : u[i] = recvBuff["server"][lastRead["server"] + i]
  BY <1>1, UnreadIs
<1>3. n <= lastSent["client"]
  BY <1>1, PipeIs, ChainIs DEF Requests
<1>4. Part(recvBuff["server"], Req(Asked), 0) /\ Len(recvBuff["server"]) = n
  BY DEF Requests, lastRecved
<1> HIDE DEF u, n
<1>5. Len(u) = n /\ n <= 12
  BY <1>1, <1>2, <1>3
<1>6. Part(u, Req(Asked), 0)
  <2>1. \A i \in 1 .. n : lastRead["server"] + i = i
    BY <1>1
  <2> QED
    BY <1>2, <1>4, <1>5, <2>1 DEF Part
<1>7. Find(LF, u, 1) = IF Len(u) >= 10 THEN 10 ELSE Len(u) + 1
  BY <1>1, <1>2, <1>5, <1>6, FirstLine
<1> QED
  BY <1>2, <1>5, <1>6, <1>7 DEF u, n

LEMMA WholeIs ==
  ASSUME TypeInv, Active, Writing
  PROVE  lastWrite("client") + Len(out) = 12
BY WrittenIs DEF Writing

\* The server answers the request, or ends.
LEMMA Requested ==
  ASSUME TypeInv, Active, Writing, Asking \/ Answering \/ Clearing \/ Rested,
         ServerRequest \/ ServerCutRequest
  PROVE  /\ Asking /\ lastRecved("server") > 0
         /\ \/ spc' = "gone" /\ (late' \/ Asked \notin Existing)
            \/ /\ spc' = "body" /\ pos' = 0 /\ Asked \in Existing /\ file' = Content[Asked]
               /\ sendBuff' = [sendBuff EXCEPT !["server"] = @ \o Response(FileLen)]
<1> DEFINE u == Unread("server")
           n == lastRecved("server")
<1>1. /\ Typed /\ "server" \in Host /\ lastRead["server"] <= n /\ n \in Nat /\ spc = "poll"
      /\ lastRead["server"] \in Nat
  BY ActiveIs, ReadOrder, Lengths DEF ServerRequest, ServerCutRequest
<1>2. HasLine("server") \/ u # << >>
  BY DEF ServerRequest, ServerCutRequest, TakeLine
<1>3. /\ u \in Seq(Byte) /\ Len(u) = n - lastRead["server"]
      /\ Find(LF, u, 1) \in 1 .. Len(u) + 1
      /\ HasLine("server") <=> Find(LF, u, 1) <= Len(u)
      /\ HasLine("server") => /\ Line("server") \in Seq(Byte)
                              /\ Len(Line("server")) = Find(LF, u, 1)
                              /\ \A i \in 1 .. Len(Line("server")) : Line("server")[i] = u[i]
  BY <1>1, UnreadIs, LineIs
<1>4. n > 0
  <2>1. u # << >> => Len(u) > 0
    BY <1>3, EmptyIs, LenProperties
  <2> HIDE DEF u, n
  <2> QED
    BY <1>1, <1>2, <1>3, <2>1
<1>5. Asking
  <2>1. ~ Rested
    <3>1. Rested => n = 0
      BY EmptySeq DEF Rested, lastRecved
    <3> QED
      BY <1>4, <3>1
  <2> QED
    BY <1>1, <2>1 DEF Answering, Clearing
<1>6. /\ Len(u) = n /\ Part(u, Req(Asked), 0) /\ n <= 12
      /\ Find(LF, u, 1) = IF n >= 10 THEN 10 ELSE n + 1
  BY <1>5, PollIs DEF Asking
<1> HIDE DEF u, n
<1>7. CASE ServerRequest
  <2>1. HasLine("server") /\ Serve(Line("server"))
    BY <1>7 DEF ServerRequest, TakeLine
  <2> DEFINE line == Line("server")
  <2>2. /\ line \in Seq(Byte) /\ Len(line) = Find(LF, u, 1) /\ Find(LF, u, 1) <= Len(u)
        /\ \A i \in 1 .. Len(line) : line[i] = u[i]
    BY <1>3, <2>1
  <2> HIDE DEF line
  <2>3. Len(line) = 10 /\ n >= 10
    BY <1>1, <1>6, <2>2 DEF n
  <2>4. Part(line, Req(Asked), 0)
    <3>1. \A i \in 1 .. Len(line) : i \in 1 .. Len(u)
      BY <1>3, <2>2, <2>3, <1>6 DEF u
    <3>2. \A i \in 1 .. Len(u) : u[i] = Req(Asked)[0 + i]
      BY <1>6 DEF Part
    <3>3. \A i \in 1 .. Len(line) : line[i] = u[i]
      BY <2>2
    <3> QED
      BY <3>1, <3>2, <3>3 DEF Part
  <2>5. Serve(line) /\ Len(line) <= 10
    <3>1. Serve(line)
      BY <2>1 DEF line
    <3> QED
      BY <2>3, <3>1
  <2>6. \/ spc' = "gone" /\ Asked \notin Existing
        \/ /\ spc' = "body" /\ pos' = 0 /\ Asked \in Existing /\ file' = Content[Asked]
           /\ sendBuff' = [sendBuff EXCEPT !["server"] = @ \o Response(FileLen)]
    BY <2>2, <2>3, <2>4, <2>5, ServeAsked
  <2> QED
    BY <1>4, <1>5, <2>6 DEF n
<1>8. CASE ServerCutRequest
  <2>1. ~ HasLine("server") /\ late' = (late \/ ~ Arrived) /\ Serve(u)
    BY <1>8 DEF ServerCutRequest, CutLine, u
  <2>2. Len(u) < 10
    BY <1>1, <1>3, <1>6, <2>1
  <2>3. late'
    <3>1. ~ Arrived
      BY <1>1, <1>6, <2>2, WholeIs DEF Arrived, n
    <3> QED
      BY <2>1, <3>1, Zenon
  <2> QED
    BY <1>1, <1>3, <1>4, <1>5, <1>6, <2>1, <2>2, <2>3, ServeAsked DEF n
<1> QED
  BY <1>7, <1>8

\* It begins a response.
LEMMA ResponseBegun ==
  ASSUME TypeInv, Active, NEW f \in Existing, pos' = 0, sendBuff["server"] = << >>,
         sendBuff' = [sendBuff EXCEPT !["server"] = @ \o Response(FileLen)]
  PROVE  lastWrite("server")' = 11 + pos' /\ Part(sendBuff'["server"], Resp(f), 0)
<1>1. sendBuff \in [Host -> Seq(Byte)] /\ "server" \in Host /\ FileLen \in 1 .. 9
  BY ActiveIs, SessionParams DEF Typed
<1> DEFINE r == Response(FileLen)
<1>2. r \in Seq(Byte) /\ Len(r) = 11 /\ Part(r, Resp(f), 0)
  <2>1. FileLen \in 0 .. 9
    BY <1>1
  <2>2. r \in Seq(Byte) /\ Len(r) = 11
    BY <2>1, ResponseIs
  <2>3. \A i \in 1 .. 11 : Resp(f)[i] = r[i]
    BY RespIs
  <2> HIDE DEF r
  <2> QED
    BY <2>2, <2>3 DEF Part
<1>3. sendBuff' = [sendBuff EXCEPT !["server"] = @ \o r]
  OBVIOUS
<1> HIDE DEF r
<1>4. sendBuff'["server"] = r
  <2>1. << >> \o r = r
    BY <1>2, ConcatEmptySeq
  <2> DEFINE all == sendBuff["server"] \o r
  <2>2. sendBuff' = [sendBuff EXCEPT !["server"] = all]
    BY <1>3
  <2>3. all = r
    BY <2>1
  <2> HIDE DEF all
  <2> QED
    BY <1>1, <2>2, <2>3
<1>5. lastWrite("server")' = 11
  <2>1. Len(sendBuff'["server"]) = 11
    BY <1>2, <1>4
  <2> QED
    BY <2>1 DEF lastWrite
<1> QED
  BY <1>2, <1>4, <1>5

LEMMA PhaseRequested ==
  ASSUME TypeInv, Active, Running', Writing, Asking \/ Answering \/ Clearing \/ Rested,
         ServerRequest \/ ServerCutRequest
  PROVE  Answering'
<1>1. /\ Asking /\ lastRecved("server") > 0
      /\ spc' = "body" /\ pos' = 0 /\ Asked \in Existing /\ file' = Content[Asked]
      /\ sendBuff' = [sendBuff EXCEPT !["server"] = @ \o Response(FileLen)]
  BY Requested DEF Running
<1>2. UNCHANGED <<held, toServer, toClient, addr, cur, want, lastSent, lastAcked, recvBuff>>
  BY DEF ServerRequest, ServerCutRequest, net, client
<1>3. Pipe' = Pipe /\ Asked' = Asked
  BY <1>2 DEF Pipe, Asked
<1>4. Requests' /\ lastRecved("server")' = lastRecved("server")
  <2>1. Requests
    BY <1>1 DEF Asking
  <2> QED
    BY <1>2, <1>3, <2>1, RequestsSame DEF lastRecved
<1>5. sendBuff["server"] = << >> /\ lastSent["server"] = 0
  <2>1. ~ HalfReset /\ ~ Answering
    BY <1>1 DEF Asking, Answering, HalfReset
  <2> QED
    BY <2>1, RespWritten
<1>6. lastWrite("server")' = 11 + pos' /\ Part(sendBuff'["server"], Resp(Asked), 0)
  <2>1. PICK f \in Existing : f = Asked
    BY <1>1
  <2>2. lastWrite("server")' = 11 + pos' /\ Part(sendBuff'["server"], Resp(f), 0)
    BY <1>1, <1>5, ResponseBegun
  <2> QED
    BY <2>1, <2>2
<1>7. Answers(lastSent["server"])'
  <2>1. PICK e : e = 0
    OBVIOUS
  <2>2. Answers(e)
    BY <1>1, <2>1 DEF Asking
  <2>3. Answers(e)'
    BY <1>2, <1>3, <2>2, AnswersSame
  <2> QED
    BY <1>2, <1>5, <2>1, <2>3 DEF Answers, Carries
<1>8. addr' = cur'
  BY <1>1, <1>2 DEF Asking
<1>9. (Requests /\ lastRecved("server") > 0)'
  BY <1>1, <1>4
<1> QED
  BY <1>1, <1>3, <1>6, <1>7, <1>8, <1>9 DEF Answering

\* It writes the next part of a response.
LEMMA BodyWritten ==
  ASSUME TypeInv, Active, NEW f \in Existing, ServerBody, pos < Len(file),
         file = Content[f], lastWrite("server") = 11 + pos, Part(sendBuff["server"], Resp(f), 0)
  PROVE  /\ spc' = "body" /\ lastWrite("server")' = 11 + pos'
         /\ Part(sendBuff'["server"], Resp(f), 0)
<1>1. /\ Typed /\ "server" \in Host /\ pos \in 0 .. FileLen /\ FileLen \in 1 .. 9
      /\ BufLen \in Nat /\ BufLen > 0
      /\ sendBuff \in [Host -> Seq(Byte)] /\ sendBuff["server"] \in Seq(Byte)
      /\ Len(sendBuff["server"]) = 11 + pos
      /\ file \in Seq(Byte) /\ Len(file) = FileLen
  <2>1. Typed /\ "server" \in Host
    BY ActiveIs
  <2>2. FileLen \in 1 .. 9 /\ BufLen \in Nat /\ BufLen > 0
    BY SessionParams
  <2>3. Len(file) = FileLen
    BY ContentIs
  <2> QED
    BY <2>1, <2>2, <2>3 DEF Typed, lastWrite
<1> DEFINE end == Min({pos + BufLen, Len(file)})
<1>2. /\ sendBuff' = [sendBuff EXCEPT !["server"] = @ \o SubSeq(file, pos + 1, end)]
      /\ pos' = end /\ spc' = "body"
  BY DEF ServerBody, Write
<1>3. end \in pos .. Len(file) /\ end \in Nat /\ pos \in Nat
  <2>1. pos + BufLen \in Int /\ Len(file) \in Int
    BY <1>1
  <2>2. end = IF pos + BufLen <= Len(file) THEN pos + BufLen ELSE Len(file)
    BY <2>1, MinOfTwo
  <2> HIDE DEF end
  <2> QED
    BY <1>1, <2>2
<1> HIDE DEF end
<1> DEFINE t == SubSeq(file, pos + 1, end)
           s == sendBuff["server"]
<1>4. t \in Seq(Byte) /\ Len(t) = end - pos /\ \A i \in 1 .. end - pos : t[i] = file[pos + i]
  BY <1>1, <1>3, SliceIs
<1>5. sendBuff'["server"] = s \o t /\ s \in Seq(Byte) /\ Len(s) = 11 + pos
      /\ Part(s, Resp(f), 0)
  BY <1>1, <1>2
<1> HIDE DEF s, t
<1>6. Part(t, Resp(f), 11 + pos)
  <2>1. \A i \in 1 .. end - pos : /\ pos + i \in 1 .. FileLen
                                  /\ 11 + (pos + i) = (11 + pos) + i
    BY <1>1, <1>3
  <2>2. \A i \in 1 .. FileLen : Resp(f)[11 + i] = Content[f][i]
    BY RespIs
  <2>3. \A i \in 1 .. end - pos : t[i] = Resp(f)[11 + (pos + i)]
    BY <1>4, <2>1, <2>2
  <2> QED
    BY <1>4, <2>1, <2>3 DEF Part
<1>7. Part(s \o t, Resp(f), 0)
  <2>1. 0 + Len(s) = 11 + pos
    BY <1>1, <1>5
  <2> QED
    BY <1>4, <1>5, <1>6, <2>1, PartConcat
<1>8. Len(s \o t) = 11 + end
  <2>1. Len(s \o t) = Len(s) + Len(t)
    BY <1>4, <1>5, Appended
  <2> QED
    BY <1>1, <1>3, <1>4, <1>5, <2>1
<1> QED
  BY <1>2, <1>5, <1>7, <1>8 DEF lastWrite

\* It writes the rest of the response, and waits until all of it has been sent.
LEMMA PhaseServed ==
  ASSUME TypeInv, Active, Running', Asking \/ Answering \/ Clearing \/ Rested,
         ServerBody \/ ServerBlank \/ ServerCutBlank \/ ServerDrain
  PROVE  Answering /\ Answering'
<1>1. /\ UNCHANGED <<held, toServer, toClient, addr, cur, want, lastSent, lastAcked, recvBuff, file>>
      /\ spc \in {"body", "blank", "drain"}
  BY DEF ServerBody, ServerBlank, ServerCutBlank, ServerDrain, net, client, endpoints
<1>2. Answering
  BY <1>1 DEF Asking, Clearing, Rested
<1>3. Pipe' = Pipe /\ Asked' = Asked
  BY <1>1 DEF Pipe, Asked
<1>4. Requests' /\ lastRecved("server")' = lastRecved("server")
  <2>1. Requests
    BY <1>2 DEF Answering
  <2> QED
    BY <1>1, <1>3, <2>1, RequestsSame DEF lastRecved
<1>5. Answers(lastSent["server"])'
  <2>1. PICK e : e = lastSent["server"]
    OBVIOUS
  <2>2. Answers(e)
    BY <1>2, <2>1 DEF Answering
  <2>3. Answers(e)'
    BY <1>1, <1>3, <2>2, AnswersSame
  <2> QED
    BY <1>1, <2>1, <2>3 DEF Answers, Carries
<1>6. /\ (Requests /\ lastRecved("server") > 0)' /\ addr' = cur'
      /\ Asked' \in Existing /\ file' = Content[Asked']
  BY <1>1, <1>2, <1>3, <1>4 DEF Answering
<1>7. /\ Asked \in Existing /\ file = Content[Asked] /\ lastWrite("server") = 11 + pos
      /\ Part(sendBuff["server"], Resp(Asked), 0) /\ (spc # "body" => pos = FileLen)
  BY <1>2 DEF Answering
<1>8. /\ Typed /\ "server" \in Host /\ pos \in 0 .. FileLen /\ FileLen \in 1 .. 9
      /\ BufLen \in Nat /\ BufLen > 0
      /\ sendBuff \in [Host -> Seq(Byte)] /\ sendBuff["server"] \in Seq(Byte)
      /\ Len(sendBuff["server"]) = 11 + pos
      /\ file \in Seq(Byte) /\ Len(file) = FileLen
  <2>1. Typed /\ "server" \in Host
    BY ActiveIs
  <2>2. FileLen \in 1 .. 9 /\ BufLen \in Nat /\ BufLen > 0
    BY SessionParams
  <2>3. Len(file) = FileLen
    BY <1>7, ContentIs
  <2> QED
    BY <1>7, <2>1, <2>2, <2>3 DEF Typed, lastWrite
<1>9. CASE ServerBody /\ pos < Len(file)
  <2>1. PICK f \in Existing : f = Asked
    BY <1>7
  <2>2. /\ spc' = "body" /\ lastWrite("server")' = 11 + pos'
        /\ Part(sendBuff'["server"], Resp(f), 0)
    BY <1>7, <1>9, <2>1, BodyWritten
  <2>3. Part(sendBuff'["server"], Resp(Asked)', 0)
    BY <1>3, <2>1, <2>2
  <2> QED
    BY <1>2, <1>3, <1>5, <1>6, <2>2, <2>3 DEF Answering
<1>10. CASE ~ (ServerBody /\ pos < Len(file))
  <2>1. sendBuff' = sendBuff /\ pos' = pos /\ spc' \in {"blank", "drain", "lastSent"}
    BY <1>8, <1>10 DEF ServerBody, ServerBlank, ServerCutBlank, ServerDrain, endpoints, Running
  <2>2. pos = FileLen
    BY <1>7, <1>8, <1>10 DEF ServerBody, ServerBlank, ServerCutBlank, ServerDrain
  <2>3. spc' = "lastSent" => lastSent'["server"] = 11 + FileLen
    <3>1. spc' = "lastSent" => lastSent["server"] = lastWrite("server")
      BY DEF ServerBody, ServerBlank, ServerCutBlank, ServerDrain, Drained
    <3> QED
      BY <1>1, <1>7, <2>2, <3>1
  <2>4. lastWrite("server")' = 11 + pos' /\ Part(sendBuff'["server"], Resp(Asked)', 0)
    BY <1>3, <1>7, <2>1 DEF lastWrite
  <2> QED
    BY <1>2, <1>3, <1>5, <1>6, <2>1, <2>2, <2>3, <2>4 DEF Answering
<1> QED
  BY <1>2, <1>9, <1>10

-----------------------------------------------------------------------------
(* The server resets its Resf                                              *)

LEMMA PhaseReset ==
  ASSUME TypeInv, Active, InitResf, Asking \/ Answering \/ Clearing \/ Rested
  PROVE  (Clearing \/ Rested)'
<1>1. \/ spc = "lastSent" /\ spc' = "lastAcked"
      \/ spc = "lastAcked" /\ spc' = "lastWrite"
      \/ spc = "lastWrite" /\ spc' = "lastRead"
      \/ spc = "lastRead" /\ spc' = "lastRecved"
      \/ spc = "lastRecved" /\ spc' = "sockFd"
      \/ spc = "sockFd" /\ spc' = "addr"
      \/ spc = "addr" /\ spc' = "waitTime"
      \/ spc = "waitTime" /\ spc' = "poll"
  BY DEF InitResf, ResetOrder
<1>2. /\ UNCHANGED <<held, toServer, toClient, cur, want>>
      /\ lastSent'["client"] = lastSent["client"] /\ lastAcked'["client"] = lastAcked["client"]
      /\ recvBuff'["client"] = recvBuff["client"]
      /\ spc # "lastRecved" => recvBuff'["server"] = recvBuff["server"]
      /\ spc = "lastRecved" => recvBuff'["server"] = << >>
  <2>1. Typed /\ "client" \in Host /\ "server" \in Host /\ "client" # "server"
    BY ActiveIs
  <2> QED
    BY <2>1 DEF InitResf, Cleared, net, client, Typed
<1>3. Pipe' = Pipe /\ Asked' = Asked
  BY <1>2 DEF Pipe, Asked
<1>4. ASSUME NEW e, Answers(e) PROVE Answers(e)'
  BY <1>2, <1>3, <1>4, AnswersSame
<1>5. Answers(11 + FileLen)'
  <2>1. Answers(11 + FileLen)
    BY <1>1 DEF Asking, Answering, Clearing, Rested
  <2> QED
    BY <1>4, <2>1
<1>6. CASE spc \notin {"lastRecved", "sockFd", "addr", "waitTime"}
  <2>1. Requests /\ lastRecved("server") > 0
    BY <1>1, <1>6 DEF Asking, Answering, Clearing, Rested
  <2>2. Requests'
    BY <1>2, <1>3, <1>6, <2>1, RequestsSame
  <2>3. lastRecved("server")' = lastRecved("server")
    BY <1>2, <1>6 DEF lastRecved
  <2>4. spc' \in {"lastAcked", "lastWrite", "lastRead", "lastRecved"}
    BY <1>1, <1>6
  <2> QED
    BY <1>5, <2>1, <2>2, <2>3, <2>4 DEF Clearing
<1>7. CASE spc = "lastRecved"
  <2> DEFINE k == lastRecved("server")
  <2>1. Requests /\ k > 0 /\ k \in Nat /\ lastAcked["client"] \in Nat
        /\ Pipe \in Seq(Seg) /\ toClient \in Seq(Seg)
    <3>1. Requests /\ k > 0
      BY <1>7 DEF Asking, Answering, Clearing, Rested
    <3>2. Typed /\ "client" \in Host /\ "server" \in Host
      BY ActiveIs
    <3> QED
      BY <3>1, <3>2, Lengths, PipeIs DEF Typed
  <2>2. /\ k <= lastSent["client"] /\ lastSent["client"] \in Nat
        /\ \A i \in 1 .. Len(Pipe) : Pipe[i].data # << >> => Pipe[i].seqNum >= k
    BY <2>1, ChainIs DEF Requests
  <2>3. Underway(k, lastAcked["client"], lastSent["client"], toClient)
    BY <2>1 DEF Requests
  <2> HIDE DEF k
  <2>4. \A i \in 1 .. Len(Pipe) : Pipe[i].data # << >> => Pipe[i].seqNum >= 1
    <3>1. \A i \in 1 .. Len(Pipe) : Pipe[i].seqNum \in Nat
      <4>1. \A i \in 1 .. Len(Pipe) : Pipe[i] \in Seg
        BY <2>1, ElementOfSeq
      <4> QED
        BY <4>1 DEF Seg
    <3> QED
      BY <2>1, <2>2, <3>1
  <2>5. Underway(1, lastAcked["client"], lastSent["client"], toClient)
    <3>1. lastAcked["client"] >= k => lastAcked["client"] >= 1
      BY <2>1
    <3>2. \A n : n \in k .. lastSent["client"] => n \in 1 .. lastSent["client"]
      BY <2>1, <2>2
    <3> QED
      BY <2>3, <3>1, <3>2 DEF Underway
  <2>6. lastSent["client"] >= 1
    BY <2>1, <2>2
  <2>7. spc' = "sockFd" /\ recvBuff'["server"] = << >>
    BY <1>1, <1>2, <1>7
  <2> QED
    BY <1>2, <1>3, <1>5, <2>4, <2>5, <2>6, <2>7 DEF Rested
<1>8. CASE spc \in {"sockFd", "addr", "waitTime"}
  <2>1. Rested
    BY <1>8 DEF Asking, Answering, Clearing, Rested
  <2>2. spc' \in {"addr", "waitTime", "poll"} /\ recvBuff'["server"] = recvBuff["server"]
    BY <1>1, <1>2, <1>8
  <2> QED
    BY <1>2, <1>3, <1>5, <2>1, <2>2 DEF Rested
<1> QED
  BY <1>1, <1>6, <1>7, <1>8

-----------------------------------------------------------------------------
(* Every step but the start of another client                              *)

LEMMA PhaseNext ==
  ASSUME TypeInv, Active, TypeInv', Running', FromCur, Writing, Copying,
         Asking \/ Answering \/ Clearing \/ Rested, Step, ~ Start
  PROVE  (Asking \/ Answering \/ Clearing \/ Rested)'
<1>1. Typed' /\ FromCur'
  BY FromCurNext DEF TypeInv
<1>2. CASE Send("client") \/ ClientReceives
  BY <1>1, <1>2, PhaseClient
<1>3. CASE Send("server")
  BY <1>3, PhaseSent
<1>4. CASE ServerTakes
  BY <1>1, <1>4, PhaseTaken
<1>5. CASE ServerReceives
  BY <1>5, PhaseReceived
<1>6. CASE ClientResend
  BY <1>1, <1>6, PhaseResent
<1>7. CASE ServerRequest \/ ServerCutRequest
  BY <1>7, PhaseRequested
<1>8. CASE ServerBody \/ ServerBlank \/ ServerCutBlank \/ ServerDrain
  BY <1>8, PhaseServed
<1>9. CASE InitResf
  BY <1>9, PhaseReset
<1>10. CASE ClientMain
  <2>1. /\ UNCHANGED <<held, toServer, toClient, addr, cur, want, lastSent, lastAcked, recvBuff>>
        /\ UNCHANGED <<spc, file, pos>>
    BY <1>10 DEF ClientMain, ClientWrite, ClientExit, ClientBody, ClientStatus, ClientHeader,
                 net, client, server, endpoints
  <2>2. sendBuff'["server"] = sendBuff["server"]
    <3>1. CASE ClientWrite
      BY <3>1, ActiveIs DEF ClientWrite, Typed
    <3>2. CASE ~ ClientWrite
      BY <1>10, <3>2 DEF ClientMain, ClientExit, ClientBody, ClientStatus, ClientHeader, endpoints
    <3> QED
      BY <3>1, <3>2
  <2>3. Pipe' = Pipe /\ Asked' = Asked
    BY <2>1 DEF Pipe, Asked
  <2> QED
    BY <2>1, <2>2, <2>3, PhaseSame
<1> QED
  BY <1>2, <1>3, <1>4, <1>5, <1>6, <1>7, <1>8, <1>9, <1>10 DEF Step, Work, ServerMain, Host

-----------------------------------------------------------------------------
(* The client reads the response                                           *)

\* What a line of it is that is complete.
LEMMA LineGot ==
  ASSUME NEW f, TypeInv, Active, Gets(f), HasLine("client"), lastRead["client"] \in {0, 3, 9}
  PROVE  /\ f \in Existing
         /\ lastRead["client"] = 0 => LineEnds("client") = 3
         /\ lastRead["client"] = 3 => LineEnds("client") = 9 /\ Len(Line("client")) = 6
         /\ lastRead["client"] = 9 => LineEnds("client") = 11
         /\ Line("client") \in Seq(Byte) /\ Len(Line("client")) \in Nat \ {0}
         /\ \A i \in 1 .. Len(Line("client")) :
              Line("client")[i] = Resp(f)[lastRead["client"] + i]
<1> DEFINE u == Unread("client")
           k == lastRead["client"]
           z == Find(LF, Unread("client"), 1)
           line == Line("client")
<1>1. /\ Typed /\ "client" \in Host /\ k <= lastRecved("client")
      /\ lastRecved("client") \in Nat /\ k \in Nat
  BY ActiveIs, ReadOrder, Lengths
<1>2. /\ u \in Seq(Byte) /\ Len(u) = lastRecved("client") - k
      /\ \A i \in 1 .. Len(u) : u[i] = recvBuff["client"][k + i]
  BY <1>1, UnreadIs
<1>3. /\ z \in 1 .. Len(u) + 1 /\ z <= Len(u)
      /\ line \in Seq(Byte) /\ Len(line) = z
      /\ \A i \in 1 .. Len(line) : line[i] = u[i]
  BY <1>1, LineIs
<1>4. LineEnds("client") = k + z
  BY DEF LineEnds
<1>5. z = Find(LF, u, 1)
  OBVIOUS
<1> HIDE DEF z, u, line, k
<1>6. lastRecved("client") > 0 /\ f \in Existing
  <2>1. lastRecved("client") > 0
    BY <1>1, <1>2, <1>3
  <2> QED
    BY <2>1 DEF Gets
<1>7. Part(u, Resp(f), k)
  <2>1. \A i \in 1 .. Len(u) : k + i \in 1 .. lastRecved("client") /\ 0 + (k + i) = k + i
    BY <1>1, <1>2
  <2>2. \A i \in 1 .. lastRecved("client") : recvBuff["client"][i] = Resp(f)[0 + i]
    BY DEF Gets, Part, lastRecved
  <2> QED
    BY <1>2, <2>1, <2>2 DEF Part
<1>8. k \in {0, 3, 9}
  BY DEF k
<1>9. /\ k = 0 => z = 3
      /\ k = 3 => z = 6
      /\ k = 9 => z = 2
      /\ \A i \in 1 .. z : u[i] = Resp(f)[k + i]
  BY <1>2, <1>3, <1>5, <1>6, <1>7, <1>8, ResponseLines
<1>10. \A i \in 1 .. Len(line) : line[i] = Resp(f)[k + i]
  BY <1>3, <1>9
<1>11. /\ k = 0 => LineEnds("client") = 3
       /\ k = 3 => LineEnds("client") = 9 /\ Len(line) = 6
       /\ k = 9 => LineEnds("client") = 11
  BY <1>3, <1>4, <1>9
<1>12. z \in Nat \ {0}
  BY <1>8, <1>9
<1> QED
  BY <1>3, <1>6, <1>10, <1>11, <1>12 DEF k, line

LEMMA ReadsStatus ==
  ASSUME NEW f, TypeInv, Active, Gets(f), Reads(f), ClientStatus
  PROVE  Reads(f)'
<1>1. /\ cpc = "status" /\ HasLine("client") /\ cpc' = "header"
      /\ lastRead' = [lastRead EXCEPT !["client"] = LineEnds("client")]
      /\ UNCHANGED <<left, saved, cur>>
  BY DEF ClientStatus, TakeLine
<1>2. lastRead["client"] = 0 /\ left = -1 /\ saved[cur] = << >>
  BY <1>1 DEF Reads
<1>3. LineEnds("client") = 3
  BY <1>1, <1>2, LineGot
<1>4. lastRead'["client"] = 3
  BY <1>1, <1>3, ActiveIs DEF Typed
<1> QED
  BY <1>1, <1>2, <1>4 DEF Reads

LEMMA ReadsHeader ==
  ASSUME NEW f, TypeInv, Active, Gets(f), Reads(f), ClientHeader
  PROVE  Reads(f)'
<1> DEFINE line == Line("client")
           header == parseHeader(line)
<1>1. /\ cpc = "header" /\ HasLine("client")
      /\ lastRead' = [lastRead EXCEPT !["client"] = LineEnds("client")]
      /\ UNCHANGED <<saved, cur, want>>
      /\ IF line[1] = CR
           THEN cpc' = (IF left < 0 THEN "failed" ELSE "body") /\ left' = left
           ELSE /\ left' = IF header.name = << ContentLength >> THEN atoi(header.value) ELSE left
                /\ cpc' = cpc
  BY DEF ClientHeader, TakeLine
<1>2. lastRead["client"] \in {3, 9}
  BY <1>1 DEF Reads
<1>3. /\ f \in Existing
      /\ lastRead["client"] = 3 => LineEnds("client") = 9 /\ Len(line) = 6
      /\ lastRead["client"] = 9 => LineEnds("client") = 11
      /\ line \in Seq(Byte) /\ Len(line) \in Nat \ {0}
      /\ \A i \in 1 .. Len(line) : line[i] = Resp(f)[lastRead["client"] + i]
  BY <1>1, <1>2, LineGot
<1>4. lastRead'["client"] = LineEnds("client")
  BY <1>1, ActiveIs DEF Typed
<1>5. /\ Resp(f)[4] = ContentLength /\ Resp(f)[5] = Colon
      /\ Resp(f)[7] = Zero + FileLen /\ Resp(f)[10] = CR /\ FileLen \in 1 .. 9
  BY <1>3, RespCodes
<1> HIDE DEF line
<1>6. CASE lastRead["client"] = 3
  <2>1. left = -1 /\ saved[cur] = << >>
    BY <1>1, <1>6 DEF Reads
  <2>2. /\ 1 \in 1 .. Len(line) /\ 2 \in 1 .. Len(line) /\ 4 \in 1 .. Len(line)
        /\ 3 + 1 = 4 /\ 3 + 2 = 5 /\ 3 + 4 = 7
    <3>1. Len(line) = 6
      BY <1>3, <1>6
    <3> QED
      BY <3>1
  <2>3. line[1] = ContentLength /\ line[2] = Colon /\ line[4] = Zero + FileLen
    BY <1>3, <1>5, <1>6, <2>2
  <2>4. FileLen \in 0 .. 9
    BY <1>5
  <2>5. header.name = << ContentLength >> /\ atoi(header.value) = FileLen
    BY <1>3, <1>6, <2>3, <2>4, HeaderParsed
  <2>6. line[1] # CR
    BY <2>3 DEF ContentLength, CR
  <2> HIDE DEF header
  <2>7. left' = FileLen /\ cpc' = "header" /\ lastRead'["client"] = 9
    BY <1>1, <1>3, <1>4, <1>6, <2>5, <2>6
  <2> QED
    BY <1>1, <2>1, <2>7 DEF Reads
<1>7. CASE lastRead["client"] = 9
  <2>1. left = FileLen /\ saved[cur] = << >>
    BY <1>1, <1>7 DEF Reads
  <2>2. 1 \in 1 .. Len(line) /\ 9 + 1 = 10
    BY <1>3
  <2>3. line[1] = CR
    BY <1>3, <1>5, <1>7, <2>2
  <2>4. ~ (left < 0)
    BY <1>5, <2>1
  <2>5. left' = left /\ cpc' = "body" /\ lastRead'["client"] = 11
    BY <1>1, <1>3, <1>4, <1>7, <2>3, <2>4
  <2>6. Len(saved'[cur']) = 0 /\ saved'[cur'] = << >>
    BY <1>1, <2>1, EmptySeq
  <2>7. Part(saved'[cur'], Resp(f), 11)
    BY <2>6 DEF Part
  <2>8. lastRead'["client"] = 11 + Len(saved'[cur']) /\ left' = FileLen - Len(saved'[cur'])
    BY <1>5, <2>1, <2>5, <2>6
  <2> QED
    BY <2>5, <2>7, <2>8 DEF Reads
<1> QED
  BY <1>2, <1>6, <1>7

LEMMA ReadsBody ==
  ASSUME NEW f, TypeInv, Active, Gets(f), Reads(f), ClientBody
  PROVE  /\ Reads(f)' /\ f \in Existing /\ FileLen \in 1 .. 9
         /\ saved' = [saved EXCEPT ![cur] = saved'[cur]]
         /\ saved'[cur] \in Seq(Byte) /\ Len(saved'[cur]) <= FileLen
         /\ Len(saved[cur]) <= Len(saved'[cur])
         /\ Part(saved'[cur], Resp(f), 11)
<1> DEFINE u == Unread("client")
           n == Min({left, BufLen, Len(u)})
           t == SubSeq(u, 1, n)
           s == saved[cur]
           k == lastRead["client"]
<1>1. /\ cpc = "body" /\ n > 0 /\ cpc' = cpc /\ cur' = cur /\ want' = want
      /\ saved' = [saved EXCEPT ![cur] = s \o Printed(t)]
      /\ lastRead' = [lastRead EXCEPT !["client"] = @ + n]
      /\ left' = left - n
  BY DEF ClientBody
<1>2. /\ Typed /\ "client" \in Host /\ cur \in Clients /\ k \in Nat
      /\ k <= lastRecved("client") /\ lastRecved("client") \in Nat
      /\ lastRead \in [Host -> Nat] /\ saved \in [Clients -> Seq(Byte)] /\ s \in Seq(Byte)
  BY ActiveIs, ReadOrder, Lengths DEF Typed
<1>3. /\ k = 11 + Len(s) /\ left = FileLen - Len(s) /\ Part(s, Resp(f), 11)
  BY <1>1 DEF Reads
<1>4. /\ u \in Seq(Byte) /\ Len(u) = lastRecved("client") - k
      /\ \A i \in 1 .. Len(u) : u[i] = recvBuff["client"][k + i]
  BY <1>2, UnreadIs
<1>5. /\ n \in 1 .. left /\ n <= Len(u)
      /\ t \in Seq(Byte) /\ Len(t) = n
      /\ \A i \in 1 .. n : t[i] = u[i]
  <2> DEFINE m == n
  <2>1. m = Min({left, BufLen, Len(Unread("client"))}) /\ m > 0
    BY <1>1
  <2> HIDE DEF m
  <2>2. /\ m \in 1 .. left /\ m <= Len(Unread("client"))
        /\ SubSeq(Unread("client"), 1, m) \in Seq(Byte)
        /\ Len(SubSeq(Unread("client"), 1, m)) = m
        /\ \A i \in 1 .. m : SubSeq(Unread("client"), 1, m)[i] = Unread("client")[i]
    BY <2>1, BodyTaken
  <2> QED
    BY <2>2 DEF m
<1> HIDE DEF u, n, t, s, k
<1>6. /\ lastRecved("client") \in 0 .. 11 + FileLen /\ f \in Existing
      /\ FileLen \in 1 .. 9 /\ left \in Int /\ Len(s) \in Nat
  <2>1. FileLen \in 1 .. 9 /\ Len(s) \in Nat /\ left \in Int
    BY <1>2, LenProperties, SessionParams DEF Typed
  <2>2. lastRecved("client") > 0
    BY <1>2, <1>3, <1>4, <1>5, <2>1
  <2> QED
    BY <2>1, <2>2 DEF Gets
<1>7. \A i \in 1 .. n : t[i] = Resp(f)[k + i] /\ t[i] # NUL
  <2>1. \A i \in 1 .. n : /\ i \in 1 .. Len(u) /\ k + i \in 1 .. lastRecved("client")
                          /\ 0 + (k + i) = k + i /\ k + i \in 1 .. 11 + FileLen
    <3> DEFINE r == lastRecved("client")
               v == Len(u)
    <3>1. /\ k \in Nat /\ r \in Nat /\ v = r - k /\ n \in Nat /\ n <= v
          /\ r <= 11 + FileLen /\ FileLen \in Nat
      <4>1. k \in Nat /\ r \in Nat
        BY <1>2
      <4>2. v = r - k
        BY <1>4
      <4>3. n \in Nat /\ n <= v
        BY <1>5
      <4>4. r \in 0 .. 11 + FileLen /\ FileLen \in 1 .. 9
        BY <1>6
      <4> HIDE DEF r, v
      <4>5. FileLen \in Nat /\ r <= 11 + FileLen
        BY <4>1, <4>4
      <4> QED
        BY <4>1, <4>2, <4>3, <4>5
    <3> HIDE DEF r, v
    <3>2. \A i \in 1 .. n : /\ i \in 1 .. v /\ k + i \in 1 .. r
                            /\ 0 + (k + i) = k + i /\ k + i \in 1 .. 11 + FileLen
      BY <3>1
    <3> QED
      BY <3>2 DEF r, v
  <2>2. \A i \in 1 .. lastRecved("client") : recvBuff["client"][i] = Resp(f)[0 + i]
    BY DEF Gets, Part, lastRecved
  <2>3. \A i \in 1 .. 11 + FileLen : Resp(f)[i] # NUL
    BY <1>6, RespIs
  <2> QED
    BY <1>4, <1>5, <2>1, <2>2, <2>3
<1>8. Printed(t) = t
  BY <1>5, <1>7, PrintedIs
<1>9. Part(t, Resp(f), 11 + Len(s))
  BY <1>3, <1>5, <1>7 DEF Part
<1>10. /\ s \o t \in Seq(Byte) /\ Len(s \o t) = Len(s) + n
       /\ Part(s \o t, Resp(f), 11)
  <2>1. s \o t \in Seq(Byte) /\ Len(s \o t) = Len(s) + Len(t)
    BY <1>2, <1>5, Appended
  <2>2. Part(s \o t, Resp(f), 11)
    BY <1>2, <1>3, <1>5, <1>9, PartConcat
  <2> QED
    BY <1>5, <2>1, <2>2
<1>11. saved'[cur] = s \o t /\ saved' = [saved EXCEPT ![cur] = s \o t]
  BY <1>1, <1>2, <1>8
<1>12. lastRead'["client"] = k + n /\ n \in Nat
  <2>1. n \in Nat
    BY <1>5, <1>6
  <2> QED
    BY <1>1, <1>2, <2>1 DEF k
<1> DEFINE z == s \o t
<1> HIDE DEF z
<1>13. /\ lastRead'["client"] = 11 + Len(z) /\ left' = FileLen - Len(z)
       /\ Len(z) <= FileLen /\ Len(s) <= Len(z)
  <2>1. Len(z) = Len(s) + n
    BY <1>10 DEF z
  <2> QED
    BY <1>1, <1>3, <1>5, <1>6, <1>12, <2>1
<1>14. saved'[cur'] = z /\ Part(z, Resp(f), 11) /\ z \in Seq(Byte)
       /\ saved'[cur] = z /\ saved' = [saved EXCEPT ![cur] = z]
  BY <1>1, <1>10, <1>11 DEF z
<1> QED
  BY <1>1, <1>6, <1>13, <1>14 DEF Reads, s

LEMMA ReadingBody ==
  ASSUME TypeInv, Active, Copying, Reading, ClientBody
  PROVE  /\ Reading' /\ Asked \in Existing /\ FileLen \in 1 .. 9
         /\ saved' = [saved EXCEPT ![cur] = saved'[cur]]
         /\ saved'[cur] \in Seq(Byte) /\ Len(saved'[cur]) <= FileLen
         /\ Len(saved[cur]) <= Len(saved'[cur])
         /\ Part(saved'[cur], Resp(Asked), 11)
<1>1. PICK f : f = Asked
  OBVIOUS
<1>2. Gets(f) /\ Reads(f)
  BY <1>1 DEF Copying, Reading
<1>3. /\ Reads(f)' /\ f \in Existing /\ FileLen \in 1 .. 9
      /\ saved' = [saved EXCEPT ![cur] = saved'[cur]]
      /\ saved'[cur] \in Seq(Byte) /\ Len(saved'[cur]) <= FileLen
      /\ Len(saved[cur]) <= Len(saved'[cur])
      /\ Part(saved'[cur], Resp(f), 11)
  BY <1>2, ReadsBody
<1>4. Asked' = Asked
  BY DEF ClientBody, Asked
<1> QED
  BY <1>1, <1>3, <1>4 DEF Reading, Reads

\* What the others leave alone.
LEMMA SameReading ==
  ASSUME TypeInv, Step, ~ Start, ~ ClientStatus, ~ ClientHeader, ~ ClientBody
  PROVE  /\ lastRead'["client"] = lastRead["client"] /\ left' = left /\ saved' = saved
         /\ ~ ClientExit => cpc' = cpc
<1>1. Typed /\ "client" \in Host /\ "server" \in Host
  BY DEF TypeInv, Host
<1>2. CASE InitResf \/ ServerRequest \/ ServerBlank
  BY <1>1, <1>2 DEF InitResf, ServerRequest, ServerBlank, Cleared, TakeLine, client, Typed
<1>3. CASE ~ (InitResf \/ ServerRequest \/ ServerBlank)
  BY <1>3 DEF Step, Work, Send, ServerTakes, ServerReceives, ClientReceives, ClientMain,
     ClientWrite, ClientExit, ServerMain, ServerBody, ServerDrain, ServerCutBlank,
     ServerCutRequest, CutLine, ClientResend, client, endpoints
<1> QED
  BY <1>2, <1>3

LEMMA ReadsNext ==
  ASSUME NEW f, TypeInv, Active, Gets(f), Reads(f), Step, ~ Start
  PROVE  Reads(f)'
<1>1. CASE ClientStatus
  BY <1>1, ReadsStatus
<1>2. CASE ClientHeader
  BY <1>2, ReadsHeader
<1>3. CASE ClientBody
  BY <1>3, ReadsBody
<1>4. CASE ~ (ClientStatus \/ ClientHeader \/ ClientBody)
  <2>1. lastRead'["client"] = lastRead["client"] /\ left' = left /\ saved' = saved
        /\ cur' = cur
    BY <1>4, SameReading, SameClient
  <2>2. CASE ClientExit
    <3>1. cpc = "body" /\ cpc' = "done" /\ left = 0
      BY <2>2 DEF ClientExit
    <3> QED
      BY <2>1, <3>1 DEF Reads
  <2>3. CASE ~ ClientExit
    <3>1. cpc' = cpc
      BY <1>4, <2>3, SameReading
    <3> QED
      BY <2>1, <3>1 DEF Reads
  <2> QED
    BY <2>2, <2>3
<1> QED
  BY <1>1, <1>2, <1>3, <1>4

LEMMA ReadingNext ==
  ASSUME TypeInv, Active, Copying, Reading, Step, ~ Start
  PROVE  Reading'
<1>1. PICK f : f = Asked
  OBVIOUS
<1>2. Gets(f) /\ Reads(f)
  BY <1>1 DEF Copying, Reading
<1>3. Reads(f)' /\ Asked' = Asked
  BY <1>2, ReadsNext, SameClient DEF Asked
<1> QED
  BY <1>1, <1>3 DEF Reading, Reads

LEMMA UnendedNext ==
  ASSUME TypeInv, Active, Writing, Asking \/ Answering \/ Clearing \/ Rested, Unended,
         Step, ~ Start
  PROVE  Unended'
<1>1. /\ Typed /\ Ordered /\ "server" \in Host /\ "client" \in Host
      /\ lastRead \in [Host -> Nat]
  BY ActiveIs DEF TypeInv, Typed
<1>2. CASE ServerRequest \/ ServerCutRequest
  <2>1. spc = "poll" /\ lastRead["server"] = 0
    BY <1>1, <1>2 DEF ServerRequest, ServerCutRequest, Ordered
  <2>2. Requests
    BY <1>2, Requested DEF Asking
  <2>3. /\ Len(Unread("server")) = lastRecved("server")
        /\ Find(LF, Unread("server"), 1) =
             IF lastRecved("server") >= 10 THEN 10 ELSE lastRecved("server") + 1
    BY <2>1, <2>2, PollIs
  <2>4. HasLine("server") => LineEnds("server") = 10
    <3>1. lastRead["server"] <= lastRecved("server") /\ lastRecved("server") \in Nat
      BY <1>1, Lengths, ReadOrder
    <3>2. HasLine("server") <=> Find(LF, Unread("server"), 1) <= Len(Unread("server"))
      BY <1>1, <3>1, LineIs
    <3> QED
      BY <2>1, <2>3, <3>1, <3>2 DEF LineEnds
  <2>5. lastRead'["server"] \in {0, 10}
    <3>1. CASE ServerRequest
      BY <1>1, <2>4, <3>1 DEF ServerRequest, TakeLine
    <3>2. CASE ServerCutRequest
      BY <2>1, <3>2 DEF ServerCutRequest, CutLine
    <3> QED
      BY <1>2, <3>1, <3>2
  <2> QED
    BY <2>5 DEF Unended
<1>3. CASE ServerBlank \/ ServerCutBlank \/ ServerDrain \/ InitResf
  <2>1. spc' \notin {"body", "blank"}
    <3>1. InitResf => spc' \notin {"body", "blank"}
      BY DEF InitResf, ResetOrder
    <3> QED
      BY <1>3, <3>1 DEF ServerBlank, ServerCutBlank, ServerDrain
  <2> QED
    BY <2>1 DEF Unended
<1>4. CASE ServerBody
  BY <1>4 DEF ServerBody, Unended
<1>5. CASE ClientStatus \/ ClientHeader \/ ClientBody
  <2>1. spc' = spc /\ \E e : lastRead' = [lastRead EXCEPT !["client"] = e]
    BY <1>5 DEF ClientStatus, ClientHeader, ClientBody, TakeLine, server
  <2>2. lastRead'["server"] = lastRead["server"]
    BY <1>1, <2>1
  <2> QED
    BY <2>1, <2>2 DEF Unended
<1>6. CASE ~ (ServerMain \/ ClientStatus \/ ClientHeader \/ ClientBody)
  <2>1. spc' = spc /\ lastRead' = lastRead
    BY <1>6 DEF Step, Work, Send, ServerTakes, ServerReceives, ClientReceives, ClientMain,
       ClientWrite, ClientExit, ClientResend, endpoints, server
  <2> QED
    BY <2>1 DEF Unended
<1> QED
  BY <1>2, <1>3, <1>4, <1>5, <1>6 DEF ServerMain

LEMMA ExchangeNext ==
  ASSUME TypeInv, Active, TypeInv', Running', Exchange, Step, ~ Start
  PROVE  Exchange'
<1>1. /\ FromCur /\ Writing /\ Copying /\ Reading /\ Unended
      /\ Asking \/ Answering \/ Clearing \/ Rested
  BY DEF Exchange
<1>2. \E e : Answers(e)
  BY <1>1 DEF Asking, Answering, Clearing, Rested
<1>3. FromCur'
  BY <1>1, FromCurNext DEF TypeInv
<1>4. Writing'
  BY <1>1, WritingNext
<1>5. Copying'
  BY <1>1, <1>2, CopyingNext
<1>6. Reading'
  BY <1>1, ReadingNext
<1>7. (Asking \/ Answering \/ Clearing \/ Rested)'
  BY <1>1, PhaseNext
<1>8. Unended'
  BY <1>1, UnendedNext
<1> QED
  BY <1>3, <1>4, <1>5, <1>6, <1>7, <1>8 DEF Exchange

-----------------------------------------------------------------------------
(* The start of a client                                                   *)

\* A client that starts while the server is at rest finds nothing of others.
LEMMA ExchangeStarts ==
  ASSUME TypeInv, Start, ready'[cur'], \A c \in Clients : c > cur => saved[c] = << >>
  PROVE  Exchange' /\ Asked' \in Names
<1>1. /\ cur' = cur + 1 /\ cpc' = "status" /\ left' = -1 /\ want' = want /\ saved' = saved
      /\ lastSent' = [lastSent EXCEPT !["client"] = 0]
      /\ lastAcked' = [lastAcked EXCEPT !["client"] = 0]
      /\ lastRead' = [lastRead EXCEPT !["client"] = 0]
      /\ sendBuff' = [sendBuff EXCEPT !["client"] = << >>]
      /\ recvBuff' = [recvBuff EXCEPT !["client"] = << >>]
      /\ out' = Request(<< want[cur + 1] >>)
      /\ toClient' = << >> /\ cur < NC
      /\ ready' = [ready EXCEPT ![cur + 1] =
                     /\ spc = "poll" /\ Unread("server") = << >>
                     /\ toServer = << >> /\ held = None]
      /\ UNCHANGED <<held, toServer, spc>>
  BY DEF Start, server
<1>2. /\ Typed /\ Ordered /\ "client" \in Host /\ "server" \in Host /\ "client" # "server"
      /\ cur + 1 \in Clients /\ ready \in [Clients -> BOOLEAN]
  <2>1. Typed /\ Flags /\ Ordered
    BY DEF TypeInv
  <2>2. cur \in 0 .. NC /\ NC \in Nat
    BY <2>1, SessionParams DEF Typed
  <2> QED
    BY <1>1, <2>1, <2>2 DEF Host, Clients, Flags
<1>3. spc = "poll" /\ Unread("server") = << >> /\ toServer = << >> /\ held = << >>
  BY <1>1, <1>2 DEF None
<1> DEFINE f == want[cur + 1]
<1>4. f \in Names /\ Asked' = f
  BY <1>1, <1>2 DEF Typed, Asked
<1>5. /\ lastSent'["client"] = 0 /\ lastAcked'["client"] = 0 /\ lastRead'["client"] = 0
      /\ sendBuff'["client"] = << >> /\ recvBuff'["client"] = << >>
      /\ recvBuff'["server"] = recvBuff["server"] /\ sendBuff'["server"] = sendBuff["server"]
  BY <1>1, <1>2 DEF Typed
<1>6. Len(<< >>) = 0
  BY EmptySeq
<1>7. recvBuff["server"] = << >>
  <2>1. lastRead["server"] = 0 /\ recvBuff["server"] \in Seq(Byte)
    BY <1>2, <1>3 DEF Ordered, Typed
  <2>2. /\ lastRead["server"] <= lastRecved("server") /\ lastRecved("server") \in Nat
    BY <1>2, ReadOrder, Lengths
  <2>3. Len(Unread("server")) = lastRecved("server") - lastRead["server"]
    BY <1>2, <2>2, UnreadIs
  <2>4. lastRecved("server") = 0
    BY <1>3, <1>6, <2>1, <2>2, <2>3
  <2> QED
    BY <2>1, <2>4, EmptyIs DEF lastRecved
<1>8. Pipe' = << >>
  <2>1. Pipe' = [i \in 1 .. 0 + 0 |-> IF i <= 0 THEN held'[i].seg ELSE toServer'[i - 0].seg]
    BY <1>1, <1>3, <1>6 DEF Pipe
  <2>2. 1 .. 0 + 0 = {} /\ \A g : [i \in {} |-> g] = << >>
    OBVIOUS
  <2> QED
    BY <2>1, <2>2
<1>9. FromCur'
  <2>1. 1 .. 0 = {}
    OBVIOUS
  <2> QED
    BY <1>1, <1>3, <1>6, <2>1 DEF FromCur, None
<1> HIDE DEF f
<1>10. \A e, b, k : Part(<< >>, b, k)
  <2>1. 1 .. 0 = {}
    OBVIOUS
  <2> QED
    BY <1>6, <2>1 DEF Part
<1>11. Writing'
  <2>1. out' = Req(f) /\ Len(Req(f)) = 12
    BY <1>1, <1>4, RequestIs, ReqIs DEF f
  <2>2. lastWrite("client")' = 0
    BY <1>5, <1>6 DEF lastWrite
  <2>3. Part(Req(f), Req(f), 0)
    <3>1. \A i \in 1 .. 12 : 0 + i = i
      OBVIOUS
    <3> QED
      BY <2>1, <3>1 DEF Part
  <2>4. Len(out)' = 12 - lastWrite("client")'
    BY <2>1, <2>2
  <2> QED
    BY <1>4, <1>5, <1>10, <2>1, <2>2, <2>3, <2>4 DEF Writing
<1>12. Copying'
  <2>1. lastRecved("client")' = 0
    BY <1>5, <1>6 DEF lastRecved
  <2>2. 0 \in 0 .. 11 + FileLen
    BY SessionParams
  <2> QED
    BY <1>5, <1>10, <2>1, <2>2 DEF Copying, Gets
<1>13. Reading'
  <2>1. saved'[cur'] = << >>
    <3>1. cur + 1 > cur
      BY <1>2 DEF Typed
    <3> QED
      BY <1>1, <1>2, <3>1
  <2> QED
    BY <1>1, <1>5, <2>1 DEF Reading, Reads
<1>14. Asking'
  <2>1. lastRecved("server")' = 0 /\ lastRecved("client")' = 0
    BY <1>5, <1>6, <1>7 DEF lastRecved
  <2>2. \A b : Chain(<< >>, 0, 0, b)
    BY ChainEmpty
  <2>3. Answers(0)'
    <3>1. 0 \in 0 .. 11 + FileLen
      BY SessionParams
    <3> QED
      BY <1>1, <2>1, <2>2, <3>1 DEF Answers, Carries
  <2>4. Requests'
    <3>1. 1 .. 0 = {} /\ 0 <= 0
      OBVIOUS
    <3> QED
      BY <1>1, <1>5, <1>6, <1>7, <1>8, <1>10, <2>1, <2>2, <3>1 DEF Requests, Underway
  <2> QED
    BY <1>1, <1>3, <2>1, <2>3, <2>4 DEF Asking
<1>15. Unended'
  BY <1>1, <1>3 DEF Unended
<1> QED
  BY <1>4, <1>9, <1>11, <1>12, <1>13, <1>14, <1>15 DEF Exchange

-----------------------------------------------------------------------------
(* The invariant                                                           *)

LEMMA SessionInit == Init => SessionInv
<1> SUFFICES ASSUME Init PROVE SessionInv
  OBVIOUS
<1>1. TypeInv
  BY TypeInit
<1>2. ~ Active /\ cur = 0 /\ spc = "poll"
  BY DEF Init, Active
<1>3. Silent
  BY DEF Init, Silent, Host
<1>4. \A c \in Clients : saved[c] = << >>
  BY DEF Init
<1> QED
  BY <1>1, <1>2, <1>3, <1>4 DEF SessionInv, ServerStays

LEMMA NextRuns == ASSUME Step PROVE Running
BY DEF Step, Work, Send, ServerTakes, ServerReceives, ClientReceives, ClientMain,
   ClientWrite, ClientExit, ClientBody, ClientStatus, ClientHeader, ServerMain,
   ServerBody, ServerDrain, InitResf, ServerBlank, ServerCutBlank, ServerRequest,
   ServerCutRequest, ClientResend, Start

\* Before the first client starts, nothing happens.
LEMMA SilentNext ==
  ASSUME TypeInv, cur = 0, Silent, Step
  PROVE  Start
<1>1. /\ Typed /\ Ordered /\ "client" \in Host /\ "server" \in Host /\ Running
      /\ spc = "poll" /\ toServer = << >> /\ held = None /\ Len(out) = 0 /\ cpc = "done"
      /\ Len(<< >>) = 0
  BY NextRuns, EmptySeq DEF TypeInv, Host, Silent
<1>2. /\ lastWrite("client") = 0 /\ lastWrite("server") = 0 /\ lastRecved("server") = 0
      /\ lastRead["server"] = 0
  BY <1>1 DEF Silent, Ordered, lastWrite, lastRecved
<1>3. ~ \E h \in Host : Send(h)
  <2> SUFFICES ASSUME NEW h \in Host PROVE ~ (NextLen(h) > 0)
    BY DEF Send
  <2>1. NextLen(h) \in Int /\ NextLen(h) <= lastWrite(h) - lastSent[h]
    BY <1>1, NextLenIs
  <2>2. lastWrite(h) = 0 /\ lastSent[h] \in Nat
    BY <1>1, <1>2, Lengths DEF Host
  <2> QED
    BY <2>1, <2>2
<1>4. ~ ServerRequest /\ ~ ServerCutRequest
  <2>1. Unread("server") \in Seq(Byte) /\ Len(Unread("server")) = 0
    <3>1. lastRead["server"] <= lastRecved("server") /\ 0 - 0 = 0
      BY <1>2
    <3> QED
      BY <1>1, <1>2, <3>1, UnreadIs
  <2>2. Unread("server") = << >>
    BY <2>1, EmptyIs
  <2>3. ~ HasLine("server")
    <3>1. /\ Find(LF, Unread("server"), 1) \in 1 .. Len(Unread("server")) + 1
          /\ HasLine("server") <=> Find(LF, Unread("server"), 1) <= Len(Unread("server"))
      BY <1>1, ReadOrder, LineIs
    <3> QED
      BY <2>1, <3>1
  <2> QED
    BY <2>2, <2>3 DEF ServerRequest, ServerCutRequest, TakeLine
<1>5. ~ ClientWrite
  <2>1. 1 .. 0 = {}
    OBVIOUS
  <2> QED
    BY <1>1, <2>1 DEF ClientWrite
<1>6. ~ InitResf
  BY <1>1 DEF InitResf, ResetOrder
<1> QED
  BY <1>1, <1>3, <1>4, <1>5, <1>6 DEF Step, Work, ServerTakes, ServerReceives, ClientReceives,
     ClientMain, ClientExit, ClientBody, ClientStatus, ClientHeader, ServerMain, ServerBody,
     ServerDrain, ServerBlank, ServerCutBlank, ClientResend

\* If the line that ends the request does not come in time, not all of the
\* request has come.
LEMMA CutBlankEnds ==
  ASSUME TypeInv, Active, Exchange, ServerCutBlank, spc' = "gone"
  PROVE  late'
<1>1. /\ spc = "blank" /\ Unread("server") = << >> /\ late' = (late \/ ~ Arrived)
      /\ "server" \in Host /\ Typed
  BY ActiveIs DEF ServerCutBlank, CutLine
<1>2. lastRead["server"] <= 10 /\ Writing
  BY <1>1 DEF Exchange, Unended
<1>3. /\ lastRead["server"] \in Nat /\ lastRecved("server") \in Nat
      /\ Len(Unread("server")) = lastRecved("server") - lastRead["server"]
  BY <1>1, Lengths, ReadOrder, UnreadIs
<1>4. Len(Unread("server")) = 0
  BY <1>1, EmptySeq
<1>5. ~ Arrived
  BY <1>2, <1>3, <1>4, WholeIs DEF Arrived
<1> QED
  BY <1>1, <1>5, Zenon

\* What ends the server.
LEMMA ServerStaysNext ==
  ASSUME SessionInv, Step, spc' = "gone"
  PROVE  ServerStays'
<1>1. TypeInv /\ Running /\ spc # "gone" /\ (Active /\ ready[cur] => Exchange) /\ (cur = 0 => Silent)
  BY NextRuns DEF SessionInv, Running
<1>2. spc' # spc /\ ~ Start
  BY <1>1 DEF Start, server
<1>3. ServerRequest \/ ServerCutRequest \/ ServerCutBlank
  <2>1. ~ InitResf /\ ~ ServerBody /\ ~ ServerBlank /\ ~ ServerDrain
    <3>1. InitResf => spc' # "gone"
      BY DEF InitResf, ResetOrder
    <3>2. ServerBody => spc' \in {spc, "blank"}
      BY DEF ServerBody
    <3> QED
      BY <1>1, <3>1, <3>2 DEF ServerBlank, ServerDrain
  <2> QED
    BY <1>2, <2>1 DEF Step, Work, Send, ServerTakes, ServerReceives, ClientReceives, ClientMain,
       ClientWrite, ClientExit, ClientBody, ClientStatus, ClientHeader, ServerMain,
       ClientResend, server
<1>4. UNCHANGED <<cur, want, ready>>
  BY <1>2, SameClient
<1>5. late' \/ Asked \notin Existing \/ ~ ready[cur]
  <2>1. CASE Active /\ ready[cur]
    <3>1. Exchange /\ Writing /\ (Asking \/ Answering \/ Clearing \/ Rested)
      BY <1>1, <2>1 DEF Exchange
    <3>2. CASE ServerRequest \/ ServerCutRequest
      BY <1>1, <2>1, <3>1, <3>2, Requested
    <3>3. CASE ServerCutBlank
      BY <1>1, <2>1, <3>1, <3>3, CutBlankEnds
    <3> QED
      BY <1>3, <3>2, <3>3
  <2>2. CASE ~ Active /\ ready[cur]
    <3>1. cur # 0
      BY <1>1, <1>2, SilentNext
    <3>2. cur > 0
      BY <1>1, <3>1, SessionParams DEF TypeInv, Typed
    <3> QED
      BY <1>1, <2>2, <3>2 DEF Active
  <2> QED
    BY <2>1, <2>2
<1>6. cur \in 1 .. cur
  <2>1. cur # 0
    BY <1>1, <1>2, SilentNext
  <2> QED
    BY <1>1, <2>1, SessionParams DEF TypeInv, Typed
<1> QED
  BY <1>4, <1>5, <1>6 DEF ServerStays, Asked

LEMMA SessionInvNext == SessionInv /\ [Next]_vars => SessionInv'
<1> SUFFICES ASSUME SessionInv, [Next]_vars PROVE SessionInv'
  OBVIOUS
<1>1. TypeInv /\ TypeInv'
  BY TypeInvNext DEF SessionInv
<1>2. CASE UNCHANGED vars
  <2>1. /\ UNCHANGED <<lastSent, lastAcked, lastRead, sendBuff, recvBuff, out, held, toServer>>
        /\ UNCHANGED <<toClient, addr, spc, file, pos, cur, cpc, left, want, saved, ready>>
        /\ UNCHANGED <<late, torn>>
    BY <1>2 DEF vars, endpoints, net, server, client
  <2>2. Pipe' = Pipe /\ Asked' = Asked
    BY <2>1 DEF Pipe, Asked
  <2>3. Active' = Active /\ (Silent => Silent') /\ (ServerStays => ServerStays')
    BY <2>1 DEF Active, Running, Silent, ServerStays
  <2>4. ASSUME Exchange PROVE Exchange'
    <3>1. FromCur' /\ Writing' /\ Copying' /\ Reading' /\ Unended'
      BY <2>1, <2>2, <2>4 DEF Exchange, FromCur, Writing, Copying, Gets, Reading, Reads,
        Unended, lastWrite, lastRecved
    <3>2. (Asking \/ Answering \/ Clearing \/ Rested)'
      BY <2>1, <2>2, <2>4, PhaseSame DEF Exchange
    <3> QED
      BY <3>1, <3>2 DEF Exchange
  <2> QED
    BY <1>1, <2>1, <2>3, <2>4 DEF SessionInv
<1>3. CASE Step
  <2>1. /\ Running /\ (Active /\ ready[cur] => Exchange) /\ (cur = 0 => Silent) /\ cur \in Nat
        /\ \A c \in Clients : c > cur => saved[c] = << >>
    <3>1. cur \in 0 .. NC /\ NC \in Nat
      BY <1>1, SessionParams DEF TypeInv, Typed
    <3> QED
      BY <1>3, <3>1, NextRuns DEF SessionInv
  <2>2. ServerStays'
    BY <1>3, ServerStaysNext DEF ServerStays
  <2>3. CASE Start
    <3>1. cur' = cur + 1 /\ saved' = saved
      BY <2>3 DEF Start
    <3>2. Active' /\ ready'[cur'] => Exchange'
      BY <1>1, <2>1, <2>3, ExchangeStarts
    <3>3. cur' # 0
      BY <2>1, <3>1
    <3>4. \A c \in Clients : c > cur' => saved'[c] = << >>
      BY <2>1, <3>1, SessionParams DEF Clients
    <3> QED
      BY <1>1, <2>2, <3>2, <3>3, <3>4 DEF SessionInv
  <2>4. CASE ~ Start
    <3>1. UNCHANGED <<cur, want, ready>>
      BY <1>3, <2>4, SameClient
    <3>2. Active' => Active /\ Running'
      BY <2>1, <3>1 DEF Active
    <3>3. Active' /\ ready'[cur'] => Exchange'
      BY <1>1, <1>3, <2>1, <2>4, <3>1, <3>2, ExchangeNext
    <3>4. cur' # 0
      BY <1>1, <1>3, <2>1, <2>4, <3>1, SilentNext
    <3>5. \A c \in Clients : c > cur => saved'[c] = saved[c]
      <4>1. CASE ClientBody
        <5>1. PICK s : saved' = [saved EXCEPT ![cur] = s]
          BY <4>1 DEF ClientBody
        <5>2. saved \in [Clients -> Seq(Byte)] /\ \A c \in Clients : c > cur => c # cur
          BY <1>1, <2>1, SessionParams DEF TypeInv, Typed, Clients
        <5> QED
          BY <5>1, <5>2
      <4>2. CASE ~ ClientBody
        <5>1. saved' = saved
          BY <1>3, <2>4, <4>2 DEF Step, Work, Send, ServerTakes, ServerReceives, ClientReceives,
             ClientMain, ClientWrite, ClientExit, ClientStatus, ClientHeader, ServerMain,
             ServerBody, ServerDrain, InitResf, ServerBlank, ServerCutBlank, ServerRequest,
             ServerCutRequest, ClientResend, client
        <5> QED
          BY <5>1
      <4> QED
        BY <4>1, <4>2
    <3>6. \A c \in Clients : c > cur' => saved'[c] = << >>
      BY <2>1, <3>1, <3>5
    <3> QED
      BY <1>1, <2>2, <3>3, <3>4, <3>6 DEF SessionInv
  <2> QED
    BY <2>3, <2>4
<1>4. CASE Tears
  <2>1. /\ ~ Running'
        /\ UNCHANGED <<endpoints, out, held, net, addr, server, client, late>>
    BY <1>1, <1>4, TearsStops
  <2>2. /\ UNCHANGED <<sendBuff, recvBuff, toServer, out, held, spc, cur, cpc>>
        /\ UNCHANGED <<want, saved, ready, late>>
    BY <2>1 DEF endpoints, net, server, client
  <2>3. ~ Active'
    BY <2>1 DEF Active
  <2>4. (cur = 0 => Silent)' /\ ServerStays'
    BY <2>2 DEF SessionInv, Silent, ServerStays
  <2>5. (\A c \in Clients : c > cur => saved[c] = << >>)'
    BY <2>2 DEF SessionInv
  <2> QED
    BY <1>1, <2>3, <2>4, <2>5 DEF SessionInv
<1> QED
  BY <1>2, <1>3, <1>4, NextIs

LEMMA SessionInvariant == Spec => []SessionInv
BY SessionInit, SessionInvNext, PTL DEF Spec

(***************************************************************************)
(* As long as threads do not meet half way (Tears, Straddles), main of     *)
(* http_server.c only ever ends because a file is missing, because a       *)
(* client was silent for 1 s with some of its request still to come, or    *)
(* because a client started before initResf was done: never because of     *)
(* what an earlier response or an earlier reset has left behind.           *)
(***************************************************************************)
THEOREM ServerStaysCorrect == Spec => []ServerStays
<1>1. SessionInv => ServerStays
  BY DEF SessionInv
<1> QED
  BY <1>1, SessionInvariant, PTL

-----------------------------------------------------------------------------
(* What a user sees of it                                                  *)

Phases == [c \in Clients |-> Phase(c)]
Stored == [c \in Clients |-> IF ready[c] THEN saved[c] ELSE << >>]

LEMMA PhaseIs ==
  ASSUME NEW c \in Clients, cur \in Nat
  PROVE  /\ ~ ready[c] \/ c > cur => Phase(c) = "idle"
         /\ ready[c] /\ c = cur /\ cpc # "done" => Phase(c) = "asked"
         /\ ready[c] /\ ~ (c > cur) /\ ~ (c = cur /\ cpc # "done") => Phase(c) = "done"
<1>1. ~ (c > cur /\ c = cur)
  BY SessionParams DEF Clients
<1>2. ASSUME ~ ready[c] \/ c > cur PROVE Phase(c) = "idle"
  <2>1. ~ (ready[c] /\ c = cur /\ cpc # "done")
    BY <1>1, <1>2
  <2> QED
    BY <1>2, <2>1, Zenon DEF Phase
<1>3. ASSUME ready[c], c = cur, cpc # "done" PROVE Phase(c) = "asked"
  <2>1. ~ (~ ready[c] \/ c > cur)
    BY <1>1, <1>3
  <2> QED
    BY <1>3, <2>1, Zenon DEF Phase
<1>4. ASSUME ready[c], ~ (c > cur), ~ (c = cur /\ cpc # "done") PROVE Phase(c) = "done"
  BY <1>4, Zenon DEF Phase
<1> QED
  BY <1>2, <1>3, <1>4

\* The same of the next state.
LEMMA PhaseThenIs ==
  ASSUME NEW c \in Clients, cur' \in Nat
  PROVE  /\ ~ ready'[c] \/ c > cur' => Phase(c)' = "idle"
         /\ ready'[c] /\ c = cur' /\ cpc' # "done" => Phase(c)' = "asked"
         /\ ready'[c] /\ ~ (c > cur') /\ ~ (c = cur' /\ cpc' # "done") => Phase(c)' = "done"
<1>1. ~ (c > cur' /\ c = cur')
  BY SessionParams DEF Clients
<1>2. ASSUME ~ ready'[c] \/ c > cur' PROVE Phase(c)' = "idle"
  <2>1. ~ (ready'[c] /\ c = cur' /\ cpc' # "done")
    BY <1>1, <1>2
  <2> QED
    BY <1>2, <2>1, Zenon DEF Phase
<1>3. ASSUME ready'[c], c = cur', cpc' # "done" PROVE Phase(c)' = "asked"
  <2>1. ~ (~ ready'[c] \/ c > cur')
    BY <1>1, <1>3
  <2> QED
    BY <1>3, <2>1, Zenon DEF Phase
<1>4. ASSUME ready'[c], ~ (c > cur'), ~ (c = cur' /\ cpc' # "done") PROVE Phase(c)' = "done"
  BY <1>4, Zenon DEF Phase
<1> QED
  BY <1>2, <1>3, <1>4

\* The start of a client that finds the server at rest is the question.
LEMMA StartAsks ==
  ASSUME SessionInv, Start
  PROVE  \/ Phases' = Phases /\ want' = want /\ Stored' = Stored
         \/ \E c \in Clients : /\ Phases[c] = "idle"
                               /\ Phases' = [Phases EXCEPT ![c] = "asked"]
                               /\ want' = want /\ Stored' = Stored
<1>d. PICK d \in Clients : d = cur + 1
  <2>1. cur \in 0 .. NC /\ NC \in Nat /\ cur < NC
    BY SessionParams DEF SessionInv, TypeInv, Typed, Start
  <2> QED
    BY <2>1 DEF Clients
<1>1. /\ cur' = d /\ cpc' = "status" /\ want' = want /\ saved' = saved /\ d \in Clients
      /\ cur \in Nat /\ cpc \in {"done", "failed"} /\ Running
      /\ ready \in [Clients -> BOOLEAN]
      /\ \E b : ready' = [ready EXCEPT ![d] = b]
      /\ saved[d] = << >>
  <2>1. /\ cur' = d /\ cpc' = "status" /\ want' = want /\ saved' = saved /\ cur < NC
        /\ cpc \in {"done", "failed"} /\ Running
        /\ \E b : ready' = [ready EXCEPT ![d] = b]
    BY <1>d DEF Start
  <2>2. cur \in 0 .. NC /\ NC \in Nat /\ ready \in [Clients -> BOOLEAN]
    BY SessionParams DEF SessionInv, TypeInv, Typed, Flags
  <2>3. d \in Clients /\ d > cur /\ cur \in Nat
    BY <1>d, <2>1, <2>2
  <2>4. saved[d] = << >>
    BY <2>3 DEF SessionInv
  <2> QED
    BY <2>1, <2>2, <2>3, <2>4
<1>2. ready' \in [Clients -> BOOLEAN] /\ \A c \in Clients : c # d => ready'[c] = ready[c]
  <2>1. ready' \in [Clients -> BOOLEAN]
    <3>1. TypeInv /\ [Step]_vars
      BY DEF SessionInv, Step
    <3>2. Flags'
      BY <3>1, FlagsNext DEF TypeInv
    <3> QED
      BY <3>2, Zenon DEF Flags
  <2> QED
    BY <1>1, <2>1
<1>3. \A c \in Clients : c \in Nat
  BY SessionParams DEF Clients
<1>4. cur > 0 /\ ready[cur] => cpc = "done"
  <2> SUFFICES ASSUME cur > 0, ready[cur] PROVE cpc # "failed"
    BY <1>1
  <2>1. Reading
    BY <1>1 DEF SessionInv, Active, Exchange
  <2> QED
    BY <2>1 DEF Reading, Reads
<1>5. Stored' = Stored
  <2>1. \A c \in Clients : (IF ready'[c] THEN saved'[c] ELSE << >>)
                           = (IF ready[c] THEN saved[c] ELSE << >>)
    BY <1>1, <1>2
  <2> QED
    BY <2>1 DEF Stored
<1>6. \A c \in Clients : c # d => Phase(c)' = Phase(c)
  <2> SUFFICES ASSUME NEW c \in Clients, c # d PROVE Phase(c)' = Phase(c)
    OBVIOUS
  <2>1. /\ ~ ready'[c] \/ c > cur' => Phase(c)' = "idle"
        /\ ready'[c] /\ ~ (c > cur') /\ ~ (c = cur' /\ cpc' # "done") => Phase(c)' = "done"
    BY <1>d, <1>1, PhaseThenIs
  <2>2. ready'[c] = ready[c] /\ (c > cur' <=> c > cur) /\ c # cur' /\ (c = cur => c > 0)
    BY <1>d, <1>1, <1>2, <1>3, SessionParams DEF Clients
  <2> QED
    BY <1>1, <1>4, <2>1, <2>2, PhaseIs
<1>7. Phase(d) = "idle" /\ Phase(d)' \in {"idle", "asked"}
  <2>1. d > cur /\ ~ (d > cur')
    BY <1>d, <1>1
  <2>2. Phase(d) = "idle"
    BY <1>1, <2>1, PhaseIs
  <2>3. /\ ~ ready'[d] => Phase(d)' = "idle"
        /\ ready'[d] => Phase(d)' = "asked"
    BY <1>d, <1>1, <2>1, PhaseThenIs
  <2> QED
    BY <2>2, <2>3
<1>8. CASE Phase(d)' = "idle"
  <2>1. \A c \in Clients : Phase(c)' = Phase(c)
    BY <1>6, <1>7, <1>8
  <2>2. Phases' = Phases
    BY <2>1 DEF Phases
  <2> QED
    BY <1>1, <1>5, <2>2
<1>9. CASE Phase(d)' = "asked"
  <2>1. Phases' = [Phases EXCEPT ![d] = "asked"]
    <3>1. \A c \in Clients : Phase(c)' = IF c = d THEN "asked" ELSE Phase(c)
      BY <1>6, <1>9
    <3>2. Phases' = [c \in Clients |-> IF c = d THEN "asked" ELSE Phase(c)]
      BY <3>1 DEF Phases
    <3> QED
      BY <3>2 DEF Phases
  <2>2. Phases[d] = "idle"
    BY <1>1, <1>7 DEF Phases
  <2> QED
    BY <1>1, <1>5, <2>1, <2>2
<1> QED
  BY <1>7, <1>8, <1>9

\* A sequence of bytes that carries what a response has after its headers is a
\* prefix of the file.
LEMMA SavedIs ==
  ASSUME NEW f \in Existing, NEW s \in Seq(Byte), Len(s) <= FileLen, Part(s, Resp(f), 11)
  PROVE  s = SubSeq(Content[f], 1, Len(s)) /\ Len(s) \in 0 .. Len(Content[f])
<1> DEFINE n == Len(s)
           t == SubSeq(Content[f], 1, n)
<1>1. /\ Content[f] \in Seq(Byte) /\ Len(Content[f]) = FileLen /\ FileLen \in Nat
      /\ n \in 0 .. Len(Content[f])
  BY ContentIs, SessionParams
<1>2. t \in Seq(Byte) /\ Len(t) = n /\ \A i \in 1 .. n : t[i] = Content[f][i]
  BY <1>1, PrefixIs
<1>3. \A i \in 1 .. n : s[i] = t[i]
  <2>1. \A i \in 1 .. n : i \in 1 .. FileLen
    BY <1>1
  <2>2. \A i \in 1 .. n : s[i] = Resp(f)[11 + i]
    BY DEF Part
  <2> QED
    BY <1>2, <2>1, <2>2, RespIs
<1> HIDE DEF t
<1>4. s = t
  BY <1>2, <1>3, SeqEqual
<1> QED
  BY <1>1, <1>4 DEF t

\* What ClientBody writes to the file is more of the file asked for.
LEMMA BodySaves ==
  ASSUME SessionInv, ClientBody
  PROVE  /\ Phases' = Phases /\ want' = want
         /\ \/ Stored' = Stored
            \/ /\ cur \in Clients /\ Phases[cur] = "asked"
               /\ \E n \in Len(Stored[cur]) .. Len(Content[want[cur]]) :
                    Stored' = [Stored EXCEPT ![cur] = SubSeq(Content[want[cur]], 1, n)]
<1>1. /\ cur' = cur /\ cpc' = cpc /\ want' = want /\ ready' = ready /\ cpc = "body" /\ Running
  BY DEF ClientBody
<1>2. Phases' = Phases
  BY <1>1 DEF Phases, Phase
<1>3. cur \in Clients /\ cur \in Nat
  <2>1. cur \in 0 .. NC /\ NC \in Nat
    BY SessionParams DEF SessionInv, TypeInv, Typed
  <2>2. cur # 0
    BY <1>1 DEF SessionInv, Silent
  <2> QED
    BY <2>1, <2>2 DEF Clients
<1>4. \E v : saved' = [saved EXCEPT ![cur] = v]
  BY DEF ClientBody
<1>5. saved \in [Clients -> Seq(Byte)] /\ ready \in [Clients -> BOOLEAN]
  BY DEF SessionInv, TypeInv, Typed, Flags
<1>6. CASE ~ ready[cur]
  <2>1. \A c \in Clients : ready[c] => saved'[c] = saved[c]
    BY <1>4, <1>5, <1>6
  <2>2. Stored' = Stored
    BY <1>1, <2>1 DEF Stored
  <2> QED
    BY <1>1, <1>2, <2>2
<1>7. CASE ready[cur]
  <2> DEFINE s == saved'[cur]
  <2>1. Active
    BY <1>1, <1>3, <1>7, SessionParams DEF Active, Clients
  <2>2. /\ Asked \in Existing /\ saved' = [saved EXCEPT ![cur] = s]
        /\ s \in Seq(Byte) /\ Len(s) <= FileLen /\ Len(saved[cur]) <= Len(s)
        /\ Part(s, Resp(Asked), 11)
    BY <1>7, <2>1, ReadingBody DEF SessionInv, Exchange
  <2> HIDE DEF s
  <2>3. PICK f \in Existing : f = Asked
    BY <2>2
  <2>4. s = SubSeq(Content[f], 1, Len(s)) /\ Len(s) \in 0 .. Len(Content[f])
    BY <2>2, <2>3, SavedIs
  <2>5. Stored[cur] = saved[cur] /\ Len(saved[cur]) \in Nat
    BY <1>3, <1>5, <1>7 DEF Stored
  <2>6. Len(s) \in Len(Stored[cur]) .. Len(Content[f])
    BY <2>2, <2>4, <2>5
  <2>7. Stored' = [Stored EXCEPT ![cur] = s]
    <3>1. \A c \in Clients : (IF ready[c] THEN saved'[c] ELSE << >>)
                             = IF c = cur THEN s ELSE IF ready[c] THEN saved[c] ELSE << >>
      BY <1>3, <1>5, <1>7, <2>2
    <3> QED
      BY <1>1, <3>1 DEF Stored
  <2>8. Phases[cur] = "asked"
    BY <1>1, <1>3, <1>7, PhaseIs DEF Phases
  <2>9. Content[f] = Content[want[cur]]
    BY <2>3 DEF Asked
  <2> QED
    BY <1>1, <1>2, <1>3, <2>4, <2>6, <2>7, <2>8, <2>9
<1> QED
  BY <1>6, <1>7

\* A client exits with all of the file.
LEMMA ExitFinishes ==
  ASSUME SessionInv, ClientExit
  PROVE  /\ want' = want /\ Stored' = Stored
         /\ \/ Phases' = Phases
            \/ /\ cur \in Clients /\ Phases[cur] = "asked"
               /\ Stored[cur] = Content[want[cur]]
               /\ Phases' = [Phases EXCEPT ![cur] = "done"]
<1>1. /\ cur' = cur /\ cpc' = "done" /\ want' = want /\ ready' = ready /\ saved' = saved
      /\ cpc = "body" /\ left = 0 /\ Running
  BY DEF ClientExit
<1>2. Stored' = Stored
  BY <1>1 DEF Stored
<1>3. cur \in Clients /\ cur \in Nat
  <2>1. cur \in 0 .. NC /\ NC \in Nat
    BY SessionParams DEF SessionInv, TypeInv, Typed
  <2>2. cur # 0
    BY <1>1 DEF SessionInv, Silent
  <2> QED
    BY <2>1, <2>2 DEF Clients
<1>4. saved \in [Clients -> Seq(Byte)] /\ ready \in [Clients -> BOOLEAN] /\ TypeInv
  BY DEF SessionInv, TypeInv, Typed, Flags
<1>5. \A c \in Clients : c # cur => Phase(c)' = Phase(c)
  BY <1>1 DEF Phase
<1>6. CASE ~ ready[cur]
  <2>1. \A c \in Clients : Phase(c)' = Phase(c)
    BY <1>1, <1>3, <1>5, <1>6, PhaseIs, PhaseThenIs
  <2> QED
    BY <1>1, <1>2, <2>1 DEF Phases
<1>7. CASE ready[cur]
  <2>1. Active
    BY <1>1, <1>3, <1>7, SessionParams DEF Active, Clients
  <2>2. Copying /\ lastRead["client"] = 11 + Len(saved[cur]) /\ 0 = FileLen - Len(saved[cur])
        /\ Part(saved[cur], Resp(Asked), 11)
    BY <1>1, <1>7, <2>1 DEF SessionInv, Exchange, Reading, Reads
  <2>3. Len(saved[cur]) \in Nat /\ saved[cur] \in Seq(Byte) /\ "client" \in Host /\ Typed
    BY <1>3, <1>4 DEF Host, TypeInv
  <2>4. Asked \in Existing
    BY <1>4, <2>2, <2>3, ReadOrder, Lengths DEF Copying, Gets
  <2>5. PICK f \in Existing : f = Asked
    BY <2>4
  <2>6. Len(saved[cur]) = FileLen /\ FileLen \in Nat
    BY <2>2, <2>3, SessionParams
  <2>7. saved[cur] = SubSeq(Content[f], 1, FileLen)
    BY <2>2, <2>3, <2>5, <2>6, SavedIs
  <2>8. SubSeq(Content[f], 1, FileLen) = Content[f]
    <3>1. Content[f] \in Seq(Byte) /\ Len(Content[f]) = FileLen
      BY ContentIs
    <3>2. /\ SubSeq(Content[f], 1, FileLen) \in Seq(Byte)
          /\ Len(SubSeq(Content[f], 1, FileLen)) = FileLen
          /\ \A i \in 1 .. FileLen : SubSeq(Content[f], 1, FileLen)[i] = Content[f][i]
      BY <2>6, <3>1, PrefixIs
    <3> QED
      BY <3>1, <3>2, SeqEqual
  <2>9. Stored[cur] = Content[want[cur]]
    BY <1>3, <1>7, <2>5, <2>7, <2>8 DEF Stored, Asked
  <2>10. Phases[cur] = "asked"
    BY <1>1, <1>3, <1>7, PhaseIs DEF Phases
  <2>11. PICK d \in Clients : d = cur
    BY <1>3
  <2>12. Phase(d)' = "done"
    BY <1>1, <1>3, <1>7, <2>11, PhaseThenIs
  <2>13. \A c \in Clients : Phase(c)' = IF c = d THEN "done" ELSE Phase(c)
    BY <1>5, <2>11, <2>12
  <2>14. Phases' = [Phases EXCEPT ![cur] = "done"]
    BY <2>11, <2>13 DEF Phases
  <2> QED
    BY <1>1, <1>2, <1>3, <2>9, <2>10, <2>14
<1> QED
  BY <1>6, <1>7

\* No other step is seen by a user.
LEMMA OthersStutter ==
  ASSUME SessionInv, Step, ~ Start, ~ ClientBody, ~ ClientExit
  PROVE  Phases' = Phases /\ want' = want /\ Stored' = Stored
<1>1. /\ cur' = cur /\ want' = want /\ ready' = ready
  BY SameClient
<1>2. TypeInv
  BY DEF SessionInv
<1>3. saved' = saved /\ (cpc' = "done" <=> cpc = "done")
  <2>1. CASE ClientStatus
    BY <2>1 DEF ClientStatus
  <2>2. CASE ClientHeader
    <3>1. saved' = saved /\ cpc = "header" /\ cpc' \in {"failed", "body", cpc}
      BY <2>2 DEF ClientHeader
    <3> QED
      BY <3>1
  <2>3. CASE ~ ClientStatus /\ ~ ClientHeader
    BY <1>2, <2>3, SameReading
  <2> QED
    BY <2>1, <2>2, <2>3
<1>4. \A c \in Clients : Phase(c)' = Phase(c)
  BY <1>1, <1>3 DEF Phase
<1> QED
  BY <1>1, <1>3, <1>4 DEF Phases, Stored

LEMMA FilesInit == Init => Files!Init
<1> SUFFICES ASSUME Init PROVE Files!Init
  OBVIOUS
<1>1. /\ ready = [c \in Clients |-> FALSE] /\ want \in Injection(Clients, Names)
  BY DEF Init
<1>2. want \in [Clients -> DOMAIN Content]
  BY <1>1 DEF Injection, Content
<1>3. \A c \in Clients : Phase(c) = "idle"
  BY <1>1 DEF Phase
<1> QED
  BY <1>1, <1>2, <1>3 DEF Files!Init

LEMMA FilesStep ==
  ASSUME SessionInv, [Next]_vars
  PROVE  [Files!Next]_<<Phases, want, Stored>>
<1>1. CASE UNCHANGED vars
  <2>1. UNCHANGED <<cur, cpc, ready, want, saved>>
    BY <1>1 DEF vars, client
  <2>2. Phases' = Phases /\ Stored' = Stored
    BY <2>1 DEF Phases, Phase, Stored
  <2> QED
    BY <2>1, <2>2
<1>2. CASE Start
  <2>1. CASE Phases' = Phases /\ want' = want /\ Stored' = Stored
    BY <2>1
  <2>2. ASSUME NEW c \in Clients, Phases[c] = "idle", Phases' = [Phases EXCEPT ![c] = "asked"],
               want' = want, Stored' = Stored
        PROVE  Files!Next
    <3>1. Files!Ask(c)
      BY <2>2 DEF Files!Ask, Phases, Stored
    <3> QED
      BY <3>1 DEF Files!Next
  <2> QED
    BY <1>2, <2>1, <2>2, StartAsks
<1>3. CASE ClientBody
  <2>1. Phases' = Phases /\ want' = want
    BY <1>3, BodySaves
  <2>2. CASE Stored' = Stored
    BY <2>1, <2>2
  <2>3. ASSUME NEW c \in Clients, Phases[c] = "asked",
               \E n \in Len(Stored[c]) .. Len(Content[want[c]]) :
                 Stored' = [Stored EXCEPT ![c] = SubSeq(Content[want[c]], 1, n)]
        PROVE  Files!Next
    <3>1. Files!Save(c)
      BY <2>1, <2>3 DEF Files!Save, Phases, Stored
    <3> QED
      BY <3>1 DEF Files!Next
  <2> QED
    BY <1>3, <2>2, <2>3, BodySaves
<1>4. CASE ClientExit
  <2>1. want' = want /\ Stored' = Stored
    BY <1>4, ExitFinishes
  <2>2. CASE Phases' = Phases
    BY <2>1, <2>2
  <2>3. ASSUME NEW c \in Clients, Phases[c] = "asked", Stored[c] = Content[want[c]],
               Phases' = [Phases EXCEPT ![c] = "done"]
        PROVE  Files!Next
    <3>1. Files!Finish(c)
      BY <2>1, <2>3 DEF Files!Finish, Phases, Stored
    <3> QED
      BY <3>1 DEF Files!Next
  <2> QED
    BY <1>4, <2>2, <2>3, ExitFinishes
<1>5. CASE Step /\ ~ Start /\ ~ ClientBody /\ ~ ClientExit
  BY <1>5, OthersStutter
<1>6. CASE Tears
  <2>1. UNCHANGED <<cur, cpc, ready, want, saved>>
    BY <1>6, TearsStops DEF SessionInv, client
  <2> QED
    BY <2>1 DEF Phases, Phase, Stored
<1> QED
  BY <1>1, <1>2, <1>3, <1>4, <1>5, <1>6, NextIs

(***************************************************************************)
(* A client that started with the server at rest saves a growing prefix of *)
(* the file it asked for, and has all of it when main of http_client.c     *)
(* returns: no byte of another response, of a header, or of before         *)
(* initResf, whatever the steps of the threads until two of them meet half *)
(* way (Tears, Straddles).                                                 *)
(***************************************************************************)
THEOREM ServiceCorrect == Spec => Service
<1>1. Init => Files!Init
  BY FilesInit
<1>2. SessionInv /\ [Next]_vars => [Files!Next]_<<Phases, want, Stored>>
  BY FilesStep
<1> QED
  BY <1>1, <1>2, SessionInvariant, PTL DEF Spec, Service, Files!Spec, Phases, Stored

-----------------------------------------------------------------------------
(* Every client, ready or not: requests in turn                            *)

\* A sender has had acked acknowledged and has sent sent.  The data under way
\* from it in p has not been acknowledged, not even by what is under way to it
\* in q, and no byte of it is twice in p.
Turns(p, q, acked, sent) ==
  /\ \A j \in 1 .. Len(q) : q[j].flags = 1 => q[j].ackNum <= sent
  /\ \A i \in 1 .. Len(p) : p[i].data # << >> =>
       acked <= p[i].seqNum /\ p[i].seqNum + Len(p[i].data) <= sent
  /\ \A i \in 1 .. Len(p), j \in 1 .. Len(q) :
       p[i].data # << >> /\ q[j].flags = 1 => q[j].ackNum <= p[i].seqNum
  /\ \A i, j \in 1 .. Len(p) :
       i < j /\ p[i].data # << >> /\ p[j].data # << >>
         => p[i].seqNum + Len(p[i].data) <= p[j].seqNum

LEMMA SegIs ==
  ASSUME NEW r \in Seg
  PROVE  /\ r.seqNum \in Nat /\ r.ackNum \in Nat /\ r.data \in Seq(Byte)
         /\ Len(r.data) \in Nat /\ (r.data # << >> => Len(r.data) > 0)
<1>1. r.seqNum \in Nat /\ r.ackNum \in Nat /\ r.data \in Seq(Byte)
  BY DEF Seg
<1>2. Len(r.data) \in Nat /\ (r.data = << >> <=> Len(r.data) = 0)
  BY <1>1, LenProperties, EmptyIs
<1> QED
  BY <1>1, <1>2

LEMMA SegsAre ==
  ASSUME NEW q \in Seq(Seg)
  PROVE  /\ Len(q) \in Nat
         /\ \A i \in 1 .. Len(q) : /\ q[i].seqNum \in Nat /\ q[i].ackNum \in Nat
                                   /\ Len(q[i].data) \in Nat
                                   /\ q[i].data # << >> => Len(q[i].data) > 0
<1>1. \A i \in 1 .. Len(q) : q[i] \in Seg
  BY ElementOfSeq
<1>2. Len(q) \in Nat
  BY LenProperties
<1> QED
  BY <1>1, <1>2, SegIs

\* New data is sent.
LEMMA TurnsSent ==
  ASSUME NEW p \in Seq(Seg), NEW q \in Seq(Seg), NEW acked \in Nat, NEW sent \in Nat,
         Turns(p, q, acked, sent), acked <= sent,
         NEW r \in Seg, r.data # << >> => r.seqNum = sent
  PROVE  Turns(Append(p, r), q, acked, sent + Len(r.data))
<1> DEFINE t == Append(p, r)
           n == Len(p)
           e == sent + Len(r.data)
<1>1. /\ n \in Nat /\ Len(t) = n + 1 /\ t[n + 1] = r /\ \A i \in 1 .. n : t[i] = p[i]
  BY AppendProperties
<1>2. /\ \A i \in 1 .. n : p[i].seqNum \in Nat /\ Len(p[i].data) \in Nat
      /\ \A j \in 1 .. Len(q) : q[j].ackNum \in Nat
      /\ Len(r.data) \in Nat /\ e \in Nat /\ sent <= e
  BY SegsAre, SegIs
<1>3. \A i \in 1 .. Len(t) : i \in 1 .. n \/ i = n + 1
  BY <1>1
<1> HIDE DEF t, n
<1>4. \A j \in 1 .. Len(q) : q[j].flags = 1 => q[j].ackNum <= e
  BY <1>2 DEF Turns
<1> HIDE DEF e
<1>5. \A i \in 1 .. Len(t) : t[i].data # << >> =>
        acked <= t[i].seqNum /\ t[i].seqNum + Len(t[i].data) <= e
  <2> TAKE i \in 1 .. Len(t)
  <2>1. CASE i \in 1 .. n
    BY <1>1, <1>2, <2>1 DEF Turns, n
  <2>2. CASE i = n + 1
    BY <1>1, <2>2 DEF e
  <2> QED
    BY <1>3, <2>1, <2>2
<1>6. \A i \in 1 .. Len(t), j \in 1 .. Len(q) :
        t[i].data # << >> /\ q[j].flags = 1 => q[j].ackNum <= t[i].seqNum
  <2> TAKE i \in 1 .. Len(t), j \in 1 .. Len(q)
  <2>1. CASE i \in 1 .. n
    BY <1>1, <2>1 DEF Turns, n
  <2>2. CASE i = n + 1
    BY <1>1, <2>2 DEF Turns
  <2> QED
    BY <1>3, <2>1, <2>2
<1>7. \A i, j \in 1 .. Len(t) :
        i < j /\ t[i].data # << >> /\ t[j].data # << >>
          => t[i].seqNum + Len(t[i].data) <= t[j].seqNum
  <2> SUFFICES ASSUME NEW i \in 1 .. Len(t), NEW j \in 1 .. Len(t),
                      i < j, t[i].data # << >>, t[j].data # << >>
               PROVE  t[i].seqNum + Len(t[i].data) <= t[j].seqNum
    OBVIOUS
  <2>1. i \in 1 .. n
    BY <1>1
  <2>2. CASE j \in 1 .. n
    BY <1>1, <2>1, <2>2 DEF Turns, n
  <2>3. CASE j = n + 1
    BY <1>1, <2>1, <2>3 DEF Turns, n
  <2> QED
    BY <1>3, <2>2, <2>3
<1> QED
  BY <1>4, <1>5, <1>6, <1>7 DEF Turns, t, e

\* The data ahead is taken, and not answered or answered.
LEMMA TurnsDrop ==
  ASSUME NEW p \in Seq(Seg), NEW q \in Seq(Seg), NEW acked, NEW sent,
         Turns(p, q, acked, sent), p # << >>
  PROVE  Turns(Tail(p), q, acked, sent)
<1> DEFINE t == Tail(p)
<1>1. /\ Len(p) \in Nat \ {0} /\ Len(t) = Len(p) - 1
      /\ \A i \in 1 .. Len(t) : t[i] = p[i + 1]
  <2>1. Len(p) \in Nat \ {0}
    BY EmptySeq
  <2> QED
    BY <2>1, HeadTailProperties
<1>2. \A i \in 1 .. Len(t) : i + 1 \in 1 .. Len(p)
  BY <1>1
<1>3. \A i, j \in 1 .. Len(t) : i < j => i + 1 < j + 1
  OBVIOUS
<1> HIDE DEF t
<1> QED
  BY <1>1, <1>2, <1>3 DEF Turns, t

LEMMA TurnsAnswered ==
  ASSUME NEW p \in Seq(Seg), NEW q \in Seq(Seg), NEW acked \in Nat, NEW sent \in Nat,
         Turns(p, q, acked, sent), p # << >>, Head(p).data # << >>,
         NEW r \in Seg, r.ackNum = Head(p).seqNum + Len(Head(p).data)
  PROVE  Turns(Tail(p), Append(q, r), acked, sent)
<1> DEFINE t == Tail(p)
           u == Append(q, r)
           m == Len(q)
<1>1. /\ Len(p) \in Nat \ {0} /\ Len(t) = Len(p) - 1 /\ Head(p) = p[1]
      /\ \A i \in 1 .. Len(t) : t[i] = p[i + 1]
  <2>1. Len(p) \in Nat \ {0}
    BY EmptySeq
  <2> QED
    BY <2>1, HeadTailProperties
<1>2. /\ 1 \in 1 .. Len(p)
      /\ \A i \in 1 .. Len(t) : i + 1 \in 1 .. Len(p) /\ 1 < i + 1
  BY <1>1
<1>3. Turns(t, q, acked, sent)
  BY TurnsDrop
<1>4. /\ m \in Nat /\ Len(u) = m + 1 /\ u[m + 1] = r /\ \A j \in 1 .. m : u[j] = q[j]
  BY AppendProperties
<1>5. \A j \in 1 .. Len(u) : j \in 1 .. m \/ j = m + 1
  BY <1>4
<1> HIDE DEF t, u, m
<1>6. r.ackNum <= sent /\ \A i \in 1 .. Len(t) : t[i].data # << >> => r.ackNum <= t[i].seqNum
  <2>1. r.ackNum <= sent
    BY <1>1, <1>2 DEF Turns
  <2>2. ASSUME NEW i \in 1 .. Len(t), t[i].data # << >> PROVE r.ackNum <= t[i].seqNum
    <3>1. p[i + 1].data # << >> /\ i + 1 \in 1 .. Len(p) /\ 1 < i + 1
      BY <1>1, <1>2, <2>2
    <3>2. p[1].seqNum + Len(p[1].data) <= p[i + 1].seqNum
      BY <1>1, <1>2, <3>1 DEF Turns
    <3> QED
      BY <1>1, <3>2
  <2> QED
    BY <2>1, <2>2
<1>7. \A j \in 1 .. Len(u) : u[j].flags = 1 => u[j].ackNum <= sent
  <2> TAKE j \in 1 .. Len(u)
  <2>1. CASE j \in 1 .. m
    BY <1>3, <1>4, <2>1 DEF Turns, m
  <2> QED
    BY <1>4, <1>5, <1>6, <2>1
<1>8. \A i \in 1 .. Len(t), j \in 1 .. Len(u) :
        t[i].data # << >> /\ u[j].flags = 1 => u[j].ackNum <= t[i].seqNum
  <2> TAKE i \in 1 .. Len(t), j \in 1 .. Len(u)
  <2>1. CASE j \in 1 .. m
    BY <1>3, <1>4, <2>1 DEF Turns, m
  <2> QED
    BY <1>4, <1>5, <1>6, <2>1
<1> QED
  BY <1>3, <1>7, <1>8 DEF Turns, t, u

\* Something that acknowledges nothing is sent to it.
LEMMA TurnsMore ==
  ASSUME NEW p \in Seq(Seg), NEW q \in Seq(Seg), NEW acked, NEW sent,
         Turns(p, q, acked, sent), NEW r \in Seg, r.flags # 1
  PROVE  Turns(p, Append(q, r), acked, sent)
<1> DEFINE u == Append(q, r)
           m == Len(q)
<1>1. /\ m \in Nat /\ Len(u) = m + 1 /\ u[m + 1] = r /\ \A j \in 1 .. m : u[j] = q[j]
  BY AppendProperties
<1>2. \A j \in 1 .. Len(u) : u[j].flags = 1 => j \in 1 .. m /\ u[j] = q[j]
  BY <1>1
<1> HIDE DEF u, m
<1> QED
  BY <1>2 DEF Turns, u, m

\* It receives an acknowledgment or anything else.
LEMMA TurnsTaken ==
  ASSUME NEW p \in Seq(Seg), NEW q \in Seq(Seg), NEW acked \in Nat, NEW sent \in Nat,
         Turns(p, q, acked, sent), q # << >>, NEW acked2,
         acked2 = IF /\ Head(q).flags = 1 /\ Head(q).ackNum > acked
                     /\ Head(q).ackNum <= sent
                    THEN Head(q).ackNum ELSE acked
  PROVE  Turns(p, Tail(q), acked2, sent)
<1> DEFINE u == Tail(q)
<1>1. /\ Len(q) \in Nat \ {0} /\ Len(u) = Len(q) - 1 /\ Head(q) = q[1]
      /\ \A i \in 1 .. Len(u) : u[i] = q[i + 1]
  <2>1. Len(q) \in Nat \ {0}
    BY EmptySeq
  <2> QED
    BY <2>1, HeadTailProperties
<1>2. 1 \in 1 .. Len(q) /\ \A i \in 1 .. Len(u) : i + 1 \in 1 .. Len(q)
  BY <1>1
<1> HIDE DEF u
<1>3. \A i \in 1 .. Len(p) : p[i].data # << >> => acked2 <= p[i].seqNum
  BY <1>1, <1>2 DEF Turns
<1> QED
  BY <1>1, <1>2, <1>3 DEF Turns, u

\* It is sent again what nothing is under way of.
LEMMA TurnsAgain ==
  ASSUME NEW acked \in Nat, NEW sent \in Nat, NEW r \in Seg,
         r.seqNum = acked, acked + Len(r.data) <= sent
  PROVE  Turns(Append(<< >>, r), << >>, acked, sent)
<1> DEFINE t == Append(<< >>, r)
<1>1. Len(<< >>) = 0 /\ Len(t) = 1 /\ t[1] = r /\ 1 .. 0 = {} /\ 1 .. 1 = {1}
  OBVIOUS
<1>2. Len(r.data) \in Nat
  BY SegIs
<1> HIDE DEF t
<1> QED
  BY <1>1, <1>2 DEF Turns, t

InTurn == Turns(Pipe, toClient, lastAcked["client"], lastSent["client"])

\* What earlier clients have left under way carries no data and is ahead of
\* all that comes from this one.
Earlier ==
  /\ \A i \in 1 .. Len(toServer) : toServer[i].from # cur => toServer[i].seg.data = << >>
  /\ \A i, j \in 1 .. Len(toServer) :
       i < j /\ toServer[i].from = cur => toServer[j].from = cur
  /\ addr = cur => \A i \in 1 .. Len(toServer) : toServer[i].from = cur
  /\ held # None /\ addr # cur => held[1].seg.data = << >>

\* An answer, whatever it carries.
LEMMA AnswerAcks ==
  ASSUME Typed, NEW h \in Host, lastSent[h] <= lastWrite(h), NEW got \in Seg
  PROVE  LET seg == Answer(h, got) IN
         /\ seg \in Seg /\ (seg.data # << >> => seg.seqNum = lastSent[h])
         /\ Len(seg.data) = NextLen(h)
         /\ seg.flags = 1 /\ seg.ackNum = lastRecved(h) + Len(got.data)
<1> DEFINE seg == Answer(h, got)
           a   == lastRecved(h) + Len(got.data)
<1>1. a \in Nat /\ NextLen(h) \in Nat
  <2>1. lastRecved(h) \in Nat /\ NextLen(h) \in Nat
    BY Lengths, NextLenIs
  <2>2. Len(got.data) \in Nat
    BY SegIs
  <2> QED
    BY <2>1, <2>2
<1>2. CASE NextLen(h) > 0
  <2>1. seg = NewData(h, a, 1)
    BY <1>2 DEF Answer
  <2> HIDE DEF a
  <2>2. /\ NewData(h, a, 1).seqNum = lastSent[h]
        /\ NewData(h, a, 1).flags = 1 /\ NewData(h, a, 1).ackNum = a
    BY DEF NewData
  <2>3. 1 \in 0 .. 1 /\ NewData(h, a, 1) \in Seg
        /\ Len(NewData(h, a, 1).data) = NextLen(h)
    BY <1>1, NewDataIs
  <2> QED
    BY <2>1, <2>2, <2>3 DEF a
<1>3. CASE ~ (NextLen(h) > 0)
  <2>1. seg = [seqNum |-> 0, ackNum |-> a, flags |-> 1, data |-> << >>]
    BY <1>3 DEF Answer
  <2>2. NextLen(h) = 0
    BY <1>1, <1>3
  <2> HIDE DEF a, seg
  <2>3. seg \in Seg /\ seg.data = << >> /\ Len(<< >>) = 0 /\ seg.flags = 1 /\ seg.ackNum = a
    BY <1>1, <2>1, EmptySeq DEF Seg
  <2> QED
    BY <2>2, <2>3 DEF a, seg
<1> QED
  BY <1>2, <1>3

\* What the client puts on its way, whatever it has written.
LEMMA ClientPuts ==
  ASSUME TypeInv, Active, Send("client") \/ ClientReceives
  PROVE  /\ held' = held /\ addr' = addr
         /\ \/ /\ toServer' = toServer /\ Pipe' = Pipe
               /\ lastSent'["client"] = lastSent["client"]
            \/ \E seg \in Seg :
                 /\ toServer' = ToServer(seg) /\ Pipe' = Append(Pipe, Received(seg))
                 /\ seg.data # << >> => seg.seqNum = lastSent["client"]
                 /\ lastSent'["client"] = lastSent["client"] + Len(seg.data)
<1>1. Typed /\ "client" \in Host /\ lastSent["client"] <= lastWrite("client")
  BY ActiveIs
<1>2. CASE Send("client")
  <2> DEFINE seg == NewData("client", 0, 0)
  <2>1. toServer' = ToServer(seg) /\ held' = held /\ addr' = addr
    BY <1>2 DEF Send
  <2>2. seg.seqNum = lastSent["client"]
    BY DEF NewData
  <2>3. seg \in Seg /\ Len(seg.data) = NextLen("client")
    <3>1. 0 \in Nat /\ 0 \in 0 .. 1
      OBVIOUS
    <3> QED
      BY <1>1, <3>1, NewDataIs
  <2> HIDE DEF seg
  <2>4. Pipe' = Append(Pipe, Received(seg))
    BY <1>1, <2>1, <2>3, PipeAppend
  <2>5. lastSent'["client"] = lastSent["client"] + NextLen("client")
    BY <1>1, <1>2, SendOrder
  <2> QED
    BY <2>1, <2>2, <2>3, <2>4, <2>5
<1>3. CASE ClientReceives
  <2> DEFINE got == Head(toClient)
             seg == Answer("client", got)
  <2>1. /\ got \in Seg /\ held' = held /\ addr' = addr
        /\ IF InOrder("client", got)
             THEN /\ lastSent'["client"] = lastSent["client"] + NextLen("client")
                  /\ toServer' = ToServer(seg)
             ELSE lastSent'["client"] = lastSent["client"] /\ toServer' = toServer
    BY <1>3, ClientReceivesIs
  <2>2. CASE ~ InOrder("client", got)
    <3>1. Pipe' = Pipe
      BY <2>1, <2>2 DEF Pipe
    <3> QED
      BY <2>1, <2>2, <3>1
  <2>3. CASE InOrder("client", got)
    <3> HIDE DEF got
    <3>2. /\ seg \in Seg /\ (seg.data # << >> => seg.seqNum = lastSent["client"])
          /\ Len(seg.data) = NextLen("client")
      BY <1>1, <2>1, AnswerAcks
    <3> HIDE DEF seg
    <3>3. toServer' = ToServer(seg)
      BY <2>1, <2>3
    <3>4. Pipe' = Append(Pipe, Received(seg))
      BY <1>1, <2>1, <3>2, <3>3, PipeAppend
    <3> QED
      BY <2>1, <2>3, <3>2, <3>3, <3>4
  <2> QED
    BY <2>2, <2>3
<1> QED
  BY <1>2, <1>3

LEMMA EarlierNext ==
  ASSUME TypeInv, Active, Typed', Earlier, Step, ~ Start
  PROVE  Earlier'
<1>1. Typed /\ cur' = cur /\ "client" \in Host /\ Len(toServer) \in Nat
  <2>1. Typed /\ cur' = cur /\ "client" \in Host
    BY ActiveIs, SameClient
  <2> QED
    BY <2>1, PipeIs
<1>2. ASSUME NEW seg \in Seg, toServer' = ToServer(seg), held' = held, addr' = addr
      PROVE  Earlier'
  <2> DEFINE n == Len(toServer)
  <2>1. /\ n \in Nat /\ Len(toServer') = n + 1
        /\ \A i \in 1 .. n : toServer'[i] = toServer[i]
        /\ toServer'[n + 1].from = cur
    <3>1. ToServer(seg)[n + 1].from = cur
      <4>1. ToServer(seg)[n + 1] = [from |-> cur, seg |-> Received(seg)]
        BY <1>1, ToServerIs
      <4> HIDE DEF n
      <4> QED
        BY <4>1
    <3> QED
      BY <1>1, <1>2, <3>1, ToServerIs
  <2>2. \A i \in 1 .. Len(toServer') : i \in 1 .. n \/ i = n + 1
    BY <2>1
  <2> HIDE DEF n
  <2>3. \A i \in 1 .. Len(toServer') : toServer'[i].from # cur => toServer'[i].seg.data = << >>
    <3> TAKE i \in 1 .. Len(toServer')
    <3>1. CASE i \in 1 .. n
      BY <2>1, <3>1 DEF Earlier, n
    <3> QED
      BY <2>1, <2>2, <3>1
  <2>4. \A i, j \in 1 .. Len(toServer') :
          i < j /\ toServer'[i].from = cur => toServer'[j].from = cur
    <3> SUFFICES ASSUME NEW i \in 1 .. Len(toServer'), NEW j \in 1 .. Len(toServer'),
                        i < j, toServer'[i].from = cur
                 PROVE  toServer'[j].from = cur
      OBVIOUS
    <3>1. CASE j \in 1 .. n
      <4>1. i \in 1 .. n
        BY <2>1, <3>1
      <4> QED
        BY <2>1, <3>1, <4>1 DEF Earlier, n
    <3> QED
      BY <2>1, <2>2, <3>1
  <2>5. addr' = cur => \A i \in 1 .. Len(toServer') : toServer'[i].from = cur
    <3> SUFFICES ASSUME addr = cur, NEW i \in 1 .. Len(toServer') PROVE toServer'[i].from = cur
      BY <1>2
    <3>1. CASE i \in 1 .. n
      BY <2>1, <3>1 DEF Earlier, n
    <3> QED
      BY <2>1, <2>2, <3>1
  <2> QED
    BY <1>1, <1>2, <2>3, <2>4, <2>5 DEF Earlier
<1>3. CASE ServerTakes
  <2>1. /\ addr' = toServer[1].from /\ Len(toServer) \in Nat \ {0}
        /\ Len(toServer') = Len(toServer) - 1 /\ held'[1].seg = toServer[1].seg
        /\ \A i \in 1 .. Len(toServer') : toServer'[i] = toServer[i + 1]
    BY <1>1, <1>3, TakenTypes
  <2>2. /\ 1 \in 1 .. Len(toServer)
        /\ \A i \in 1 .. Len(toServer') : i + 1 \in 1 .. Len(toServer) /\ 1 < i + 1
        /\ \A i, j \in 1 .. Len(toServer') : i < j => i + 1 < j + 1
    BY <2>1
  <2>3. \A i \in 1 .. Len(toServer') : toServer'[i].from # cur => toServer'[i].seg.data = << >>
    BY <2>1, <2>2 DEF Earlier
  <2>4. \A i, j \in 1 .. Len(toServer') :
          i < j /\ toServer'[i].from = cur => toServer'[j].from = cur
    <3>1. \A i, j \in 1 .. Len(toServer) :
            i < j /\ toServer[i].from = cur => toServer[j].from = cur
      BY DEF Earlier
    <3> TAKE i, j \in 1 .. Len(toServer')
    <3>2. /\ i + 1 \in 1 .. Len(toServer) /\ j + 1 \in 1 .. Len(toServer)
          /\ i < j => i + 1 < j + 1
      BY <2>2
    <3>3. toServer'[i] = toServer[i + 1] /\ toServer'[j] = toServer[j + 1]
      BY <2>1
    <3> QED
      BY <3>1, <3>2, <3>3
  <2>5. addr' = cur => \A i \in 1 .. Len(toServer') : toServer'[i].from = cur
    BY <2>1, <2>2 DEF Earlier
  <2>6. addr' # cur => held'[1].seg.data = << >>
    BY <2>1, <2>2 DEF Earlier
  <2> QED
    BY <1>1, <2>3, <2>4, <2>5, <2>6 DEF Earlier
<1>4. CASE ServerReceives
  <2>1. held' = None /\ toServer' = toServer /\ addr' = addr
    BY <1>4 DEF ServerReceives
  <2> QED
    BY <1>1, <2>1 DEF Earlier
<1>5. CASE Send("client") \/ ClientReceives
  <2>1. held' = held /\ addr' = addr
        /\ (toServer' = toServer \/ \E seg \in Seg : toServer' = ToServer(seg))
    BY <1>5, ClientPuts
  <2> QED
    BY <1>1, <1>2, <2>1 DEF Earlier
<1>6. CASE ClientResend
  <2>1. held' = held /\ addr' = addr /\ held = None /\ toServer = << >>
    BY <1>6 DEF ClientResend
  <2>2. PICK seg : toServer' = ToServer(seg)
    BY <1>6 DEF ClientResend
  <2>3. toServer' = << [from |-> cur, seg |-> Received(seg)] >>
    BY <2>1, <2>2 DEF ToServer
  <2>4. Len(toServer') = 1 /\ toServer'[1].from = cur /\ 1 .. 1 = {1}
    BY <2>3
  <2> QED
    BY <1>1, <2>1, <2>4 DEF Earlier
<1>7. CASE ~ (ServerTakes \/ ServerReceives \/ Send("client") \/ ClientReceives \/ ClientResend)
  <2>1. toServer' = toServer /\ held' = held /\ addr' = addr
    BY <1>7, SameNet
  <2> QED
    BY <1>1, <2>1 DEF Earlier
<1> QED
  BY <1>3, <1>4, <1>5, <1>6, <1>7

LEMMA InTurnNext ==
  ASSUME TypeInv, Active, Typed', Earlier, InTurn, Step, ~ Start
  PROVE  InTurn'
<1> DEFINE p == Pipe
           q == toClient
           acked == lastAcked["client"]
           sent  == lastSent["client"]
<1>1. /\ Typed /\ "client" \in Host /\ "server" \in Host /\ cur' = cur
      /\ p \in Seq(Seg) /\ q \in Seq(Seg) /\ acked \in Nat /\ sent \in Nat /\ acked <= sent
      /\ lastSent["server"] <= lastWrite("server")
  <2>1. Typed /\ "client" \in Host /\ "server" \in Host /\ cur' = cur /\ acked <= sent
        /\ lastSent["server"] <= lastWrite("server")
    BY ActiveIs, SameClient
  <2> QED
    BY <2>1, PipeIs, Lengths DEF Typed
<1>2. Turns(p, q, acked, sent)
  BY DEF InTurn
<1> HIDE DEF p, q, acked, sent
<1>3. CASE Send("client") \/ ClientReceives
  <2>1. PICK q2, acked2 :
          /\ q2 = toClient' /\ acked2 = lastAcked'["client"]
          /\ q2 \in Seq(Seg) /\ acked2 \in Nat /\ acked2 <= sent /\ Turns(p, q2, acked2, sent)
    <3>1. CASE Send("client")
      <4>1. toClient' = q /\ lastAcked'["client"] = acked
        BY <3>1 DEF Send, q, acked
      <4> QED
        BY <1>1, <1>2, <4>1
    <3>2. CASE ClientReceives
      <4>1. /\ q # << >> /\ toClient' = Tail(q) /\ Head(q) \in Seg
            /\ lastAcked'["client"] = IF /\ Head(q).flags = 1 /\ Head(q).ackNum > acked
                                         /\ Head(q).ackNum <= sent
                                        THEN Head(q).ackNum ELSE acked
        BY <3>2, ClientReceivesIs DEF q, acked, sent
      <4>2. Head(q).ackNum \in Nat
        BY <4>1, SegIs
      <4>3. Tail(q) \in Seq(Seg)
        BY <1>1, <4>1, HeadTailProperties
      <4>4. Turns(p, Tail(q), lastAcked'["client"], sent)
        BY <1>1, <1>2, <4>1, TurnsTaken
      <4>5. lastAcked'["client"] \in Nat /\ lastAcked'["client"] <= sent
        BY <1>1, <4>1, <4>2
      <4> QED
        BY <4>1, <4>3, <4>4, <4>5
    <3> QED
      BY <1>3, <3>1, <3>2
  <2>2. CASE Pipe' = Pipe /\ lastSent'["client"] = lastSent["client"]
    BY <2>1, <2>2 DEF InTurn, p, sent
  <2>3. ASSUME NEW seg \in Seg, Pipe' = Append(Pipe, Received(seg)),
               seg.data # << >> => seg.seqNum = lastSent["client"],
               lastSent'["client"] = lastSent["client"] + Len(seg.data)
        PROVE  InTurn'
    <3> DEFINE r == Received(seg)
    <3>1. r \in Seg /\ r.seqNum = seg.seqNum /\ Len(r.data) = Len(seg.data)
      BY ReceivedType
    <3>2. r.data # << >> => r.seqNum = sent
      <4>1. r.data # << >> => Len(r.data) > 0
        BY <3>1, SegIs
      <4>2. Len(seg.data) > 0 => seg.data # << >>
        BY EmptySeq
      <4> QED
        BY <2>3, <3>1, <4>1, <4>2 DEF sent
    <3> HIDE DEF r
    <3>3. Turns(Append(p, r), q2, acked2, sent + Len(r.data))
      BY <1>1, <2>1, <3>1, <3>2, TurnsSent
    <3>4. Pipe' = Append(p, r) /\ lastSent'["client"] = sent + Len(r.data)
      BY <2>3, <3>1 DEF p, r, sent
    <3> QED
      BY <2>1, <3>3, <3>4 DEF InTurn
  <2> QED
    BY <1>3, <2>2, <2>3, ClientPuts
<1>4. ASSUME ~ Send("client"), ~ ClientReceives
      PROVE  lastSent'["client"] = sent /\ lastAcked'["client"] = acked
  BY <1>4, SameSent DEF sent, acked
<1>5. CASE Send("server")
  <2> DEFINE seg == NewData("server", 0, 0)
  <2>1. /\ toServer' = toServer /\ held' = held /\ toClient' = ToClient(seg)
        /\ ~ Send("client") /\ ~ ClientReceives
    <3>1. toServer' = toServer /\ held' = held /\ toClient' = ToClient(seg)
      BY <1>5 DEF Send
    <3>2. /\ lastSent'["client"] = lastSent["client"]
          /\ lastSent'["server"] = lastSent["server"] + NextLen("server")
      BY <1>1, <1>5, SendOrder
    <3>3. NextLen("server") > 0 /\ NextLen("client") \in Int /\ lastSent["server"] \in Nat
          /\ NextLen("server") \in Int
      BY <1>1, <1>5, NextLenIs, Lengths DEF Send
    <3>4. ~ Send("client")
      <4>1. Send("client") => lastSent'["server"] = lastSent["server"]
        BY <1>1, SendOrder
      <4> QED
        BY <3>2, <3>3, <4>1
    <3>5. ~ ClientReceives
      <4>1. ClientReceives => lastSent'["server"] = lastSent["server"]
        BY ClientReceivesIs
      <4> QED
        BY <3>2, <3>3, <4>1
    <3> QED
      BY <3>1, <3>4, <3>5
  <2>2. Pipe' = p
    BY <2>1 DEF Pipe, p
  <2>3. seg \in Seg /\ seg.flags = 0
    <3>1. 0 \in Nat /\ 0 \in 0 .. 1
      OBVIOUS
    <3>2. seg.flags = 0
      BY DEF NewData
    <3> QED
      BY <1>1, <3>1, <3>2, NewDataIs
  <2> HIDE DEF seg
  <2>4. Received(seg) \in Seg /\ Received(seg).flags # 1
    BY <2>3, ReceivedType
  <2>5. toClient' = q \/ toClient' = Append(q, Received(seg))
    BY <2>1 DEF ToClient, q
  <2>6. Turns(p, Append(q, Received(seg)), acked, sent)
    BY <1>1, <1>2, <2>4, TurnsMore
  <2> QED
    BY <1>2, <1>4, <2>1, <2>2, <2>5, <2>6 DEF InTurn
<1>6. CASE ServerReceives
  <2> DEFINE seg == held[1].seg
             r   == Received(Answer("server", seg))
  <2>1. /\ held # None /\ held' = None /\ toServer' = toServer /\ ~ Send("client")
        /\ ~ ClientReceives
        /\ toClient' = IF InOrder("server", seg) THEN ToClient(Answer("server", seg)) ELSE toClient
    <3>1. /\ held # None /\ held' = None /\ toServer' = toServer
          /\ toClient' = IF InOrder("server", seg) THEN ToClient(Answer("server", seg)) ELSE toClient
      BY <1>6 DEF ServerReceives
    <3>2. Send("client") => held' = held
      BY DEF Send
    <3>3. ClientReceives => held' = held
      BY DEF ClientReceives
    <3> QED
      BY <3>1, <3>2, <3>3
  <2>2. p # << >> /\ Head(p) = seg /\ Pipe' = Tail(p) /\ seg \in Seg
    BY <1>1, <2>1, PipeTail, HeldIs DEF p
  <2>3. CASE ~ InOrder("server", seg)
    <3>1. Turns(Tail(p), q, acked, sent)
      BY <1>1, <1>2, <2>2, TurnsDrop
    <3>2. toClient' = q
      BY <2>1, <2>3 DEF q
    <3> QED
      BY <1>4, <2>1, <2>2, <3>1, <3>2 DEF InTurn
  <2>4. CASE InOrder("server", seg)
    <3>1. seg.data # << >> /\ seg.seqNum = lastRecved("server") /\ addr = cur
      BY <2>1, <2>4 DEF InOrder, Earlier
    <3> HIDE DEF seg
    <3>2. /\ r \in Seg /\ r.flags = 1
          /\ r.ackNum = lastRecved("server") + Len(seg.data)
      <4> DEFINE answer == Answer("server", seg)
      <4>1. /\ answer \in Seg /\ answer.flags = 1
            /\ answer.ackNum = lastRecved("server") + Len(seg.data)
        BY <1>1, <2>2, AnswerAcks
      <4> HIDE DEF answer
      <4>2. Received(answer) \in Seg /\ Received(answer).flags = answer.flags
            /\ Received(answer).ackNum = answer.ackNum
        BY <4>1, ReceivedType
      <4> QED
        BY <4>1, <4>2 DEF answer
    <3>3. toClient' = Append(q, r)
      BY <2>1, <2>4, <3>1 DEF ToClient, q
    <3> HIDE DEF r
    <3>4. Turns(Tail(p), Append(q, r), acked, sent)
      BY <1>1, <1>2, <2>2, <3>1, <3>2, TurnsAnswered
    <3> QED
      BY <1>4, <2>1, <2>2, <3>3, <3>4 DEF InTurn
  <2> QED
    BY <2>3, <2>4
<1>7. CASE ServerTakes
  <2>1. Pipe' = p
    BY <1>1, <1>7, PipeTakes DEF p
  <2>2. toClient' = q /\ lastSent'["client"] = sent /\ lastAcked'["client"] = acked
    BY <1>7 DEF ServerTakes, endpoints, q, sent, acked
  <2> QED
    BY <1>2, <2>1, <2>2 DEF InTurn
<1>8. CASE ClientResend
  <2> DEFINE n == Min({MSS, lastSent["client"] - lastAcked["client"]})
  <2>1. n > 0 /\ toServer = << >> /\ toClient = << >> /\ held = << >> /\ held' = held
        /\ toClient' = toClient
        /\ lastSent'["client"] = sent /\ lastAcked'["client"] = acked
    BY <1>8 DEF ClientResend, None, endpoints, sent, acked
  <2>2. n \in Nat /\ n <= sent - acked
    <3>1. MSS \in Nat /\ MSS > 0
      BY SessionParams
    <3> QED
      BY <1>1, <2>1, <3>1, MinOfTwo DEF sent, acked
  <2>3. PICK junk \in Junk :
          toServer' = ToServer([seqNum |-> lastAcked["client"], ackNum |-> 0, flags |-> 0,
                                data |-> [i \in 1 .. n |-> junk]])
    BY <1>8 DEF ClientResend
  <2> HIDE DEF n
  <2> DEFINE d == [i \in 1 .. n |-> junk]
  <2>4. d \in Seq(Byte) /\ Len(d) = n
    BY <2>2, SessionParams
  <2> HIDE DEF d
  <2> DEFINE seg == [seqNum |-> acked, ackNum |-> 0, flags |-> 0, data |-> d]
             r == Received(seg)
  <2>5. seg \in Seg /\ seg.seqNum = acked /\ Len(seg.data) = n
    BY <1>1, <2>4 DEF Seg
  <2>6. toServer' = ToServer(seg)
    BY <2>3 DEF acked, d
  <2> HIDE DEF seg
  <2>7. r \in Seg /\ r.seqNum = acked /\ Len(r.data) = n
    BY <2>5, ReceivedType
  <2>8. Pipe' = Append(p, r)
    BY <1>1, <2>1, <2>5, <2>6, PipeAppend DEF p
  <2>9. p = << >> /\ q = << >>
    <3>1. Len(<< >>) = 0
      BY EmptySeq
    <3>2. Pipe \in Seq(Seg) /\ Len(Pipe) = 0
      BY <1>1, <2>1, <3>1, PipeIs
    <3> QED
      BY <2>1, <3>2, EmptyIs DEF p, q
  <2>10. acked + Len(r.data) <= sent
    BY <1>1, <2>2, <2>7
  <2> HIDE DEF r
  <2>11. Turns(Append(<< >>, r), << >>, acked, sent)
    BY <1>1, <2>7, <2>10, TurnsAgain
  <2> QED
    BY <2>1, <2>8, <2>9, <2>11 DEF InTurn, q
<1>9. CASE ~ (Send("client") \/ ClientReceives \/ Send("server") \/ ServerReceives
              \/ ServerTakes \/ ClientResend)
  <2>1. toServer' = toServer /\ held' = held /\ toClient' = toClient
    BY <1>9, SameNet
  <2>2. Pipe' = Pipe
    BY <2>1 DEF Pipe
  <2> QED
    BY <1>2, <1>4, <1>9, <2>1, <2>2 DEF InTurn, p, q
<1> QED
  BY <1>3, <1>5, <1>6, <1>7, <1>8, <1>9

-----------------------------------------------------------------------------
(* Every client: how far the server and it have got                        *)

\* The request is written before anything is read, and acknowledged before the
\* process exits.
Written ==
  /\ lastWrite("client") + Len(out) = 12
  /\ cpc # "status" => out = << >>
  /\ cpc = "done" => lastAcked["client"] = 12

\* The server has had something of the request, and the client will know.
Noticed == Underway(1, lastAcked["client"], lastSent["client"], toClient)

Acks ==
  /\ Noticed /\ lastAcked["client"] <= lastRecved("server")
  /\ \A j \in 1 .. Len(toClient) :
       toClient[j].flags = 1 => toClient[j].ackNum <= lastRecved("server")

\* The client has not had anything of a response.
Waits ==
  /\ cpc = "status" /\ lastRead["client"] = 0 /\ left = -1 /\ saved[cur] = << >>
  /\ recvBuff["client"] = << >>

\* The server has not had anything from it, and waits for it;
Fresh ==
  /\ spc \in {"sockFd", "addr", "waitTime", "poll"} /\ recvBuff["server"] = << >>
  /\ toClient = << >> /\ lastAcked["client"] = 0

\* or it has still to reset what a whole request of another client has left;
Behind ==
  /\ toClient = << >> /\ lastAcked["client"] = 0 /\ lastRecved("server") >= 12
  /\ \/ spc \in {"lastAcked", "lastWrite", "lastRead", "lastRecved"}
     \/ /\ spc \in {"body", "blank", "drain", "lastSent"}
        /\ pos = FileLen /\ Len(file) = FileLen /\ lastSent["server"] = lastWrite("server")

\* or it has had a part of a request.
Heard ==
  /\ spc \in {"sockFd", "addr", "waitTime", "poll"} /\ addr = cur /\ Acks
  /\ \A i \in 1 .. Len(toClient) : toClient[i].data = << >>

\* The server answers with file f, whatever the client has asked for;
Replying(f) ==
  /\ spc \in {"body", "blank", "drain", "lastSent"} /\ addr = cur /\ Acks
  /\ file = Content[f] /\ lastWrite("server") = 11 + pos
  /\ Part(sendBuff["server"], Resp(f), 0)
  /\ spc # "body" => pos = FileLen
  /\ spc = "lastSent" => lastSent["server"] = 11 + FileLen
  /\ Carries(f, lastSent["server"])

\* it resets its Resf; and it drops what the client has still under way.
Closing(f) ==
  /\ spc \in {"lastAcked", "lastWrite", "lastRead", "lastRecved"} /\ Acks
  /\ Carries(f, 11 + FileLen)

Closed(f) ==
  /\ spc \in {"sockFd", "addr", "waitTime", "poll"} /\ recvBuff["server"] = << >> /\ Noticed
  /\ Carries(f, 11 + FileLen)

Before == Waits /\ (Fresh \/ Behind \/ Heard)

During(f) == Gets(f) /\ Reads(f) /\ (Replying(f) \/ Closing(f) \/ Closed(f))

Turn ==
  Active => /\ Earlier /\ InTurn /\ Written
            /\ Before \/ \E f \in Existing : During(f)

LEMMA WrittenNext ==
  ASSUME TypeInv, Active, Written, Step, ~ Start
  PROVE  Written'
<1>1. Typed /\ "client" \in Host /\ "server" \in Host
  BY ActiveIs
<1>2. CASE ClientWrite
  <2>1. PICK n \in 1 .. Len(out) :
          /\ sendBuff' = [sendBuff EXCEPT !["client"] = @ \o SubSeq(out, 1, n)]
          /\ out' = SubSeq(out, n + 1, Len(out))
    BY <1>2 DEF ClientWrite
  <2> DEFINE s == sendBuff["client"]
             a == SubSeq(out, 1, n)
             b == SubSeq(out, n + 1, Len(out))
  <2>2. /\ s \in Seq(Byte) /\ Len(s) \in Nat /\ out \in Seq(Byte) /\ Len(out) \in Nat
        /\ sendBuff'["client"] = s \o a /\ cpc' = cpc
        /\ n \in 0 .. Len(out) /\ n \in Nat /\ Len(out) \in n .. Len(out)
    <3>1. sendBuff \in [Host -> Seq(Byte)] /\ out \in Seq(Byte)
      BY <1>1 DEF Typed
    <3>2. sendBuff'["client"] = s \o a
      BY <1>1, <2>1, <3>1
    <3>3. cpc' = cpc
      BY <1>2 DEF ClientWrite, client
    <3>4. s \in Seq(Byte) /\ Len(s) \in Nat /\ Len(out) \in Nat
      BY <1>1, <3>1, LenProperties
    <3> HIDE DEF s, a
    <3> QED
      BY <3>1, <3>2, <3>3, <3>4
  <2>3. a \in Seq(Byte) /\ Len(a) = n
    BY <2>2, PrefixIs
  <2>4. b \in Seq(Byte) /\ Len(b) = Len(out) - n
    BY <2>2, SliceIs
  <2>5. out' = b
    BY <2>1
  <2> HIDE DEF a, b, s
  <2>6. Len(s \o a) = Len(s) + n
    BY <2>2, <2>3, Appended
  <2>7. Len(s) + Len(out) = 12
    BY DEF Written, lastWrite, s
  <2>8. Len(sendBuff'["client"]) + Len(out') = 12
    <3>1. Len(sendBuff'["client"]) = Len(s) + n /\ Len(out') = Len(out) - n
      BY <2>2, <2>4, <2>5, <2>6
    <3> QED
      BY <2>2, <2>7, <3>1
  <2>9. cpc = "status"
    <3>1. out # << >>
      <4>1. out = << >> => Len(out) = 0
        BY EmptySeq
      <4> QED
        BY <2>2, <4>1
    <3> QED
      BY <3>1 DEF Written
  <2> QED
    BY <2>2, <2>8, <2>9 DEF Written, lastWrite
<1>3. CASE ~ ClientWrite
  <2>1. out' = out /\ sendBuff'["client"] = sendBuff["client"]
    BY <1>3, SameWritten
  <2>2. cpc' # "status" => out = << >>
    <3>1. CASE cpc' = cpc
      BY <3>1 DEF Written
    <3>2. CASE ClientStatus \/ ClientHeader \/ ClientBody \/ ClientExit
      BY <3>2 DEF ClientStatus, ClientHeader, ClientBody, ClientExit, Written
    <3> QED
      BY <3>1, <3>2, SameReading
  <2>3. cpc' = "done" => lastAcked'["client"] = 12
    <3> SUFFICES ASSUME cpc' = "done" PROVE lastAcked'["client"] = 12
      OBVIOUS
    <3>1. CASE ClientExit
      <4>1. /\ lastAcked' = lastAcked /\ lastAcked["client"] = lastWrite("client")
            /\ cpc = "body"
        BY <3>1 DEF ClientExit, endpoints
      <4>2. Len(out) = 0 /\ lastWrite("client") \in Nat
        <5>1. out = << >>
          BY <4>1 DEF Written
        <5> QED
          BY <1>1, <5>1, EmptySeq, Lengths
      <4> QED
        BY <4>1, <4>2 DEF Written
    <3>2. CASE ~ ClientExit
      <4>1. cpc = "done"
        <5>1. ~ ClientStatus /\ ~ ClientBody /\ ~ ClientHeader
          <6>1. ~ ClientStatus
            BY DEF ClientStatus
          <6>2. ~ ClientBody
            BY DEF ClientBody, client
          <6>3. ~ ClientHeader
            BY DEF ClientHeader
          <6> QED
            BY <6>1, <6>2, <6>3
        <5> QED
          BY <3>2, <5>1, SameReading
      <4>2. ~ ClientReceives
        BY <4>1 DEF ClientReceives
      <4>3. lastAcked'["client"] = lastAcked["client"]
        <5>1. CASE Send("client")
          BY <5>1 DEF Send
        <5>2. CASE ~ Send("client")
          BY <4>2, <5>2, SameSent
        <5> QED
          BY <5>1, <5>2
      <4> QED
        BY <4>1, <4>3 DEF Written
    <3> QED
      BY <3>1, <3>2
  <2> QED
    BY <2>1, <2>2, <2>3 DEF Written, lastWrite
<1> QED
  BY <1>2, <1>3

\* The data in hand.
LEMMA HeadInTurn ==
  ASSUME TypeInv, Active, InTurn, held # None, held[1].seg.data # << >>
  PROVE  /\ held[1].seg \in Seg
         /\ lastAcked["client"] <= held[1].seg.seqNum
         /\ held[1].seg.seqNum + Len(held[1].seg.data) <= lastSent["client"]
         /\ \A j \in 1 .. Len(toClient) :
              toClient[j].flags = 1 => toClient[j].ackNum <= held[1].seg.seqNum
<1>1. Typed /\ Len(held) = 1 /\ held[1].seg \in Seg
  BY ActiveIs, HeldIs
<1>2. Len(toServer) \in Nat /\ Len(Pipe) = 1 + Len(toServer) /\ Pipe[1] = held[1].seg
  <2>1. /\ Len(Pipe) = Len(held) + Len(toServer) /\ Len(toServer) \in Nat
        /\ \A i \in 1 .. Len(held) + Len(toServer) :
              Pipe[i] = IF i <= Len(held) THEN held[i].seg ELSE toServer[i - Len(held)].seg
    BY <1>1, PipeIs
  <2>2. 1 \in 1 .. Len(held) + Len(toServer) /\ 1 <= Len(held)
    BY <1>1, <2>1
  <2> QED
    BY <1>1, <2>1, <2>2
<1>3. 1 \in 1 .. Len(Pipe)
  BY <1>2
<1> QED
  BY <1>1, <1>2, <1>3 DEF InTurn, Turns

\* What is not in order is dropped.
LEMMA ServerDrops ==
  ASSUME TypeInv, Active, ServerReceives, ~ InOrder("server", held[1].seg)
  PROVE  /\ recvBuff'["server"] = recvBuff["server"]
         /\ lastSent'["server"] = lastSent["server"] /\ toClient' = toClient
<1> DEFINE seg == held[1].seg
           fresh == held[1].fresh
<1>1. Typed /\ Running /\ "server" \in Host /\ held # None
  BY ActiveIs DEF ServerReceives
<1>2. seg \in Seg /\ fresh \in BOOLEAN
  BY <1>1, HeldIs
<1>3. Receive("server", seg, fresh) /\ toClient' = toClient
  BY DEF ServerReceives
<1>4. recvBuff' = recvBuff
  BY <1>3 DEF Receive
<1> HIDE DEF seg, fresh
<1>5. lastSent'["server"] = lastSent["server"]
  BY <1>1, <1>2, <1>3, ReceiveOrder DEF seg
<1> QED
  BY <1>3, <1>4, <1>5

\* Acknowledgments arrive, and are sent.
LEMMA AcksClient ==
  ASSUME TypeInv, Active, Typed', Send("client") \/ ClientReceives
  PROVE  /\ Noticed => Noticed'
         /\ Acks => Acks'
<1> DEFINE k == lastRecved("server")
<1>1. /\ Typed /\ "client" \in Host /\ lastSent["client"] \in Nat /\ lastAcked["client"] \in Nat
      /\ lastSent'["client"] \in Nat /\ toClient \in Seq(Seg) /\ k \in Nat
      /\ lastRecved("server")' = k
  <2>1. Typed /\ "client" \in Host /\ "server" \in Host
    BY ActiveIs
  <2>2. lastSent' \in [Host -> Nat]
    BY DEF Typed
  <2>3. lastRecved("server")' = k
    BY ClientSide DEF lastRecved
  <2> QED
    BY <2>1, <2>2, <2>3, Lengths DEF Typed
<1>2. lastSent["client"] <= lastSent'["client"]
  <2>1. \A r \in Seg : Len(r.data) \in Nat
    BY SegIs
  <2> QED
    BY <1>1, <2>1, ClientPuts
<1> HIDE DEF k
<1>3. CASE Send("client")
  <2>1. toClient' = toClient /\ lastAcked' = lastAcked
    BY <1>3 DEF Send
  <2>2. Noticed => Noticed'
    BY <1>1, <1>2, <2>1, UnderwayMore DEF Noticed
  <2> QED
    BY <1>1, <2>1, <2>2 DEF Acks, k
<1>4. CASE ClientReceives
  <2>1. /\ toClient # << >> /\ toClient' = Tail(toClient) /\ Head(toClient) \in Seg
        /\ lastAcked'["client"] = IF /\ Head(toClient).flags = 1
                                     /\ Head(toClient).ackNum > lastAcked["client"]
                                     /\ Head(toClient).ackNum <= lastSent["client"]
                                    THEN Head(toClient).ackNum ELSE lastAcked["client"]
    BY <1>4, ClientReceivesIs
  <2>2. ASSUME Noticed PROVE Noticed'
    <3>1. 1 \in Nat /\ Underway(1, lastAcked["client"], lastSent["client"], toClient)
      BY <2>2 DEF Noticed
    <3>2. Underway(1, lastAcked'["client"], lastSent'["client"], Tail(toClient))
      BY <1>1, <1>2, <2>1, <3>1, UnderwayTail
    <3> QED
      BY <2>1, <3>2 DEF Noticed
  <2>3. ASSUME Acks PROVE Acks'
    <3>1. /\ Len(toClient) \in Nat \ {0} /\ Head(toClient) = toClient[1]
          /\ Len(toClient') = Len(toClient) - 1
          /\ \A i \in 1 .. Len(toClient') : toClient'[i] = toClient[i + 1]
      <4>1. Len(toClient) \in Nat \ {0}
        BY <1>1, <2>1, EmptySeq
      <4> QED
        BY <1>1, <2>1, <4>1, HeadTailProperties
    <3>2. 1 \in 1 .. Len(toClient) /\ \A i \in 1 .. Len(toClient') : i + 1 \in 1 .. Len(toClient)
      BY <3>1
    <3>3. lastAcked'["client"] <= k
      BY <2>1, <2>3, <3>1, <3>2 DEF Acks, k
    <3>4. \A i \in 1 .. Len(toClient') : toClient'[i].flags = 1 => toClient'[i].ackNum <= k
      BY <2>3, <3>1, <3>2 DEF Acks, k
    <3>5. Noticed'
      BY <2>2, <2>3 DEF Acks
    <3> QED
      BY <1>1, <3>3, <3>4, <3>5 DEF Acks
  <2> QED
    BY <2>2, <2>3
<1> QED
  BY <1>3, <1>4

LEMMA AcksAppend ==
  ASSUME TypeInv, Active, TypeInv', NEW k \in Nat, lastAcked["client"] <= k,
         \A j \in 1 .. Len(toClient) : toClient[j].flags = 1 => toClient[j].ackNum <= k,
         lastSent'["client"] = lastSent["client"], lastAcked'["client"] = lastAcked["client"],
         NEW r \in Seg, toClient' = Append(toClient, r),
         r.flags = 1 => r.ackNum <= lastRecved("server")',
         k <= lastRecved("server")',
         Noticed \/ (r.flags = 1 /\ r.ackNum \in 1 .. lastSent["client"])
  PROVE  Acks'
<1>1. /\ toClient \in Seq(Seg) /\ lastSent["client"] \in Nat /\ lastAcked["client"] \in Nat
      /\ lastRecved("server")' \in Nat /\ r.ackNum \in Nat
  <2>1. Typed /\ "client" \in Host /\ "server" \in Host
    BY ActiveIs
  <2>2. recvBuff'["server"] \in Seq(Byte)
    BY <2>1 DEF TypeInv, Typed
  <2>3. lastRecved("server")' \in Nat
    BY <2>2, LenProperties DEF lastRecved
  <2>4. lastSent["client"] \in Nat /\ lastAcked["client"] \in Nat
    BY <2>1, Lengths
  <2> QED
    BY <2>1, <2>3, <2>4, SegIs DEF Typed
<1>2. Noticed'
  <2>1. CASE Noticed
    BY <1>1, <2>1, UnderwayMore DEF Noticed
  <2>2. CASE r.flags = 1 /\ r.ackNum \in 1 .. lastSent["client"]
    <3>1. Len(toClient') = Len(toClient) + 1 /\ toClient'[Len(toClient) + 1] = r
          /\ Len(toClient) \in Nat
      BY <1>1, AppendProperties
    <3>2. Len(toClient) + 1 \in 1 .. Len(toClient')
      BY <3>1
    <3> QED
      BY <2>2, <3>1, <3>2 DEF Noticed, Underway
  <2> QED
    BY <2>1, <2>2
<1>3. /\ Len(toClient) \in Nat /\ Len(toClient') = Len(toClient) + 1
      /\ \A i \in 1 .. Len(toClient) : toClient'[i] = toClient[i] /\ toClient[i].ackNum \in Nat
      /\ toClient'[Len(toClient) + 1] = r
  BY <1>1, AppendProperties, SegsAre
<1>4. \A i \in 1 .. Len(toClient') : i \in 1 .. Len(toClient) \/ i = Len(toClient) + 1
  BY <1>3
<1>5. \A i \in 1 .. Len(toClient') :
        toClient'[i].flags = 1 => toClient'[i].ackNum <= lastRecved("server")'
  <2> SUFFICES ASSUME NEW i \in 1 .. Len(toClient'), toClient'[i].flags = 1
               PROVE  toClient'[i].ackNum <= lastRecved("server")'
    OBVIOUS
  <2>1. CASE i \in 1 .. Len(toClient)
    <3>1. toClient'[i] = toClient[i] /\ toClient[i].ackNum \in Nat /\ toClient[i].ackNum <= k
      BY <1>3, <2>1
    <3> QED
      BY <1>1, <3>1
  <2> QED
    BY <1>3, <1>4, <2>1
<1>6. lastAcked'["client"] <= lastRecved("server")'
  BY <1>1
<1> QED
  BY <1>2, <1>5, <1>6 DEF Acks

\* What data in order says: the server has a part of the request at most, and
\* acknowledges no more than has been sent.
LEMMA DataTaken ==
  ASSUME TypeInv, Active, TypeInv', Running', Earlier, InTurn, ServerReceives, NEW bytes,
         InOrder("server", held[1].seg),
         ~ HalfReset => Part(sendBuff["server"], bytes, 0),
         ~ HalfReset => \A i \in 1 .. lastWrite("server") : bytes[i] # NUL
  PROVE  /\ ~ HalfReset /\ spc # "addr" /\ addr = cur
         /\ lastRecved("server") < lastSent["client"]
         /\ lastAcked["client"] <= lastRecved("server")
         /\ \A j \in 1 .. Len(toClient) :
              toClient[j].flags = 1 => toClient[j].ackNum <= lastRecved("server")
         /\ \E r \in Seg :
              /\ toClient' = Append(toClient, r)
              /\ r.flags = 1 /\ r.ackNum = lastRecved("server")'
              /\ r.ackNum \in 1 .. lastSent["client"] /\ lastRecved("server") <= r.ackNum
              /\ r.data # << >> => r.seqNum = lastSent["server"]
              /\ Part(r.data, bytes, lastSent["server"])
              /\ lastSent'["server"] = lastSent["server"] + Len(r.data)
              /\ lastSent'["server"] <= lastWrite("server")
<1> DEFINE seg == held[1].seg
           n == Len(seg.data)
           k == lastRecved("server")
<1>1. /\ Typed /\ "server" \in Host /\ "client" \in Host /\ held # None /\ ~ torn'
      /\ lastSent["client"] \in Nat /\ k \in Nat /\ recvBuff["server"] \in Seq(Byte)
      /\ sendBuff' = sendBuff /\ spc' = spc
  <2>1. Typed /\ "server" \in Host /\ "client" \in Host /\ held # None /\ ~ torn'
        /\ sendBuff' = sendBuff /\ spc' = spc
    BY ActiveIs DEF ServerReceives, Running, server
  <2> QED
    BY <2>1, Lengths
<1>2. seg.data # << >> /\ seg.seqNum = k
  BY DEF InOrder
<1>3. /\ seg \in Seg /\ lastAcked["client"] <= k /\ k + n <= lastSent["client"]
      /\ \A j \in 1 .. Len(toClient) : toClient[j].flags = 1 => toClient[j].ackNum <= k
  BY <1>1, <1>2, HeadInTurn
<1>4. n \in Nat /\ n > 0 /\ seg.data \in Seq(Byte)
  BY <1>2, <1>3, SegIs
<1>5. held[1].seg.data # << >> => addr = cur
  BY <1>1 DEF Earlier
<1>6. Head(Pipe) = seg
  BY <1>1, PipeTail DEF ServerReceives
<1>7. InOrder("server", seg)
  OBVIOUS
<1> HIDE DEF seg
<1>8. /\ ~ HalfReset /\ spc # "addr" /\ addr = cur
      /\ recvBuff'["server"] = recvBuff["server"] \o seg.data
      /\ \E r \in Seg :
           /\ toClient' = Append(toClient, r)
           /\ r.flags = 1 /\ r.ackNum = lastRecved("server") + Len(seg.data)
           /\ r.data # << >> => r.seqNum = lastSent["server"]
           /\ Part(r.data, bytes, lastSent["server"])
           /\ lastSent'["server"] = lastSent["server"] + Len(r.data)
  BY <1>1, <1>5, <1>6, <1>7, ServerAnswers
<1>9. lastRecved("server")' = k + n
  <2>1. Len(recvBuff["server"] \o seg.data) = Len(recvBuff["server"]) + Len(seg.data)
    BY <1>1, <1>4, Appended
  <2>2. Len(recvBuff'["server"]) = k + n
    BY <1>8, <2>1 DEF lastRecved
  <2> QED
    BY <2>2 DEF lastRecved
<1>10. lastSent'["server"] <= lastWrite("server")
  <2>1. Ordered' /\ ~ HalfReset'
    BY <1>1, <1>8 DEF HalfReset, TypeInv
  <2>2. lastSent'["server"] <= lastWrite("server")'
    BY <1>1, <2>1 DEF Ordered
  <2> QED
    BY <1>1, <2>2 DEF lastWrite
<1>11. k < lastSent["client"] /\ k + n \in 1 .. lastSent["client"] /\ k <= k + n
  <2> HIDE DEF k, n
  <2> QED
    BY <1>1, <1>3, <1>4
<1>12. PICK r \in Seg :
           /\ toClient' = Append(toClient, r)
           /\ r.flags = 1 /\ r.ackNum = k + n
           /\ r.data # << >> => r.seqNum = lastSent["server"]
           /\ Part(r.data, bytes, lastSent["server"])
           /\ lastSent'["server"] = lastSent["server"] + Len(r.data)
  BY <1>8
<1> HIDE DEF n
<1>13. /\ toClient' = Append(toClient, r)
       /\ r.flags = 1 /\ r.ackNum = lastRecved("server")'
       /\ r.ackNum \in 1 .. lastSent["client"] /\ lastRecved("server") <= r.ackNum
       /\ r.data # << >> => r.seqNum = lastSent["server"]
       /\ Part(r.data, bytes, lastSent["server"])
       /\ lastSent'["server"] = lastSent["server"] + Len(r.data)
       /\ lastSent'["server"] <= lastWrite("server")
  BY <1>9, <1>10, <1>11, <1>12
<1> QED
  BY <1>3, <1>8, <1>11, <1>13

LEMMA BeforeReceived ==
  ASSUME TypeInv, Active, TypeInv', Running', Earlier, InTurn, Written, ServerReceives,
         Fresh \/ Behind \/ Heard
  PROVE  (Fresh \/ Behind \/ Heard)'
<1>1. /\ Typed /\ "server" \in Host /\ "client" \in Host
      /\ cur' = cur /\ UNCHANGED <<spc, file, pos, addr, sendBuff>>
      /\ lastSent'["client"] = lastSent["client"] /\ lastAcked'["client"] = lastAcked["client"]
      /\ lastSent["client"] <= lastWrite("client")
  <2>1. sendBuff' = sendBuff
    BY DEF ServerReceives
  <2> QED
    BY <2>1, ActiveIs, ReceivedSide
<1>2. CASE ~ InOrder("server", held[1].seg)
  <2>1. /\ recvBuff'["server"] = recvBuff["server"]
        /\ lastSent'["server"] = lastSent["server"] /\ toClient' = toClient
    BY <1>2, ServerDrops
  <2>2. /\ lastRecved("server")' = lastRecved("server")
        /\ lastWrite("server")' = lastWrite("server")
    BY <1>1, <2>1 DEF lastRecved, lastWrite
  <2>3. Fresh => Fresh'
    BY <1>1, <2>1 DEF Fresh
  <2>4. Behind => Behind'
    BY <1>1, <2>1, <2>2 DEF Behind
  <2>5. Heard => Heard'
    BY <1>1, <2>1, <2>2 DEF Heard, Acks, Noticed
  <2> QED
    BY <2>3, <2>4, <2>5
<1>3. CASE InOrder("server", held[1].seg)
  <2>0. ~ HalfReset /\ spc # "addr"
    BY <1>3 DEF ServerReceives, Running, Straddles
  <2>1. ~ Behind
    <3>1. lastRecved("server") < lastSent["client"]
      <4>1. held # None /\ held[1].seg.data # << >> /\ held[1].seg.seqNum = lastRecved("server")
        BY <1>3 DEF ServerReceives, InOrder
      <4>2. /\ held[1].seg \in Seg
            /\ lastRecved("server") + Len(held[1].seg.data) <= lastSent["client"]
        BY <4>1, HeadInTurn
      <4>3. Len(held[1].seg.data) \in Nat /\ Len(held[1].seg.data) > 0
        BY <4>1, <4>2, SegIs
      <4>4. lastRecved("server") \in Nat /\ lastSent["client"] \in Nat
        BY <1>1, Lengths
      <4> QED
        BY <4>2, <4>3, <4>4
    <3>2. lastWrite("client") <= 12 /\ lastWrite("client") \in Nat /\ lastSent["client"] \in Nat
          /\ lastRecved("server") \in Nat
      <4>1. /\ Len(out) \in Nat /\ lastWrite("client") \in Nat /\ lastSent["client"] \in Nat
            /\ lastRecved("server") \in Nat
        <5>1. out \in Seq(Byte)
          BY <1>1 DEF Typed
        <5> QED
          BY <1>1, <5>1, Lengths, LenProperties
      <4> QED
        BY <4>1 DEF Written
    <3> QED
      BY <1>1, <3>1, <3>2 DEF Behind
  <2>2. /\ spc \in {"sockFd", "addr", "waitTime", "poll"}
        /\ sendBuff["server"] = << >> /\ lastWrite("server") = 0
    <3>1. spc \in {"sockFd", "addr", "waitTime", "poll"}
      BY <2>1 DEF Fresh, Heard
    <3>2. sendBuff["server"] = << >>
      BY <3>1 DEF TypeInv, Ordered
    <3> QED
      BY <3>1, <3>2, EmptySeq DEF lastWrite
  <2>3. PICK bytes : bytes = << >>
    OBVIOUS
  <2>4. /\ Part(sendBuff["server"], bytes, 0)
        /\ \A i \in 1 .. lastWrite("server") : bytes[i] # NUL
    <3>1. Len(sendBuff["server"]) = 0
      BY <2>2 DEF lastWrite
    <3> QED
      BY <2>2, <3>1 DEF Part
  <2>5. /\ addr = cur /\ lastAcked["client"] <= lastRecved("server")
        /\ \A j \in 1 .. Len(toClient) :
             toClient[j].flags = 1 => toClient[j].ackNum <= lastRecved("server")
    BY <1>3, <2>4, DataTaken
  <2>6. PICK r \in Seg :
          /\ toClient' = Append(toClient, r)
          /\ r.flags = 1 /\ r.ackNum = lastRecved("server")'
          /\ r.ackNum \in 1 .. lastSent["client"] /\ lastRecved("server") <= r.ackNum
          /\ lastSent'["server"] = lastSent["server"] + Len(r.data)
          /\ lastSent'["server"] <= lastWrite("server")
    BY <1>3, <2>4, DataTaken
  <2>7. r.ackNum \in Nat /\ r.data \in Seq(Byte) /\ Len(r.data) \in Nat
        /\ lastRecved("server") \in Nat /\ lastSent["server"] \in Nat
    BY <1>1, SegIs, Lengths
  <2>8. r.data = << >>
    <3>1. Len(r.data) = 0
      BY <2>2, <2>6, <2>7
    <3> QED
      BY <2>7, <3>1, EmptyIs
  <2>9. Acks'
    <3>1. r.ackNum <= lastRecved("server")' /\ lastRecved("server") <= lastRecved("server")'
      BY <2>6, <2>7
    <3>2. PICK k \in Nat : k = lastRecved("server")
      BY <2>7
    <3> QED
      BY <1>1, <2>5, <2>6, <3>1, <3>2, AcksAppend
  <2>10. \A i \in 1 .. Len(toClient') : toClient'[i].data = << >>
    <3>1. \A i \in 1 .. Len(toClient) : toClient[i].data = << >>
      <4>1. toClient = << >> => Len(toClient) = 0
        BY EmptySeq
      <4> QED
        BY <2>1, <4>1 DEF Fresh, Heard
    <3>2. /\ Len(toClient) \in Nat /\ Len(toClient') = Len(toClient) + 1
          /\ \A i \in 1 .. Len(toClient) : toClient'[i] = toClient[i]
          /\ toClient'[Len(toClient) + 1] = r
      <4>1. toClient \in Seq(Seg)
        BY <1>1 DEF Typed
      <4> QED
        BY <2>6, <4>1, AppendProperties
    <3>3. \A i \in 1 .. Len(toClient') : i \in 1 .. Len(toClient) \/ i = Len(toClient) + 1
      BY <3>2
    <3> QED
      BY <2>8, <3>1, <3>2, <3>3
  <2> QED
    BY <1>1, <2>2, <2>5, <2>9, <2>10 DEF Heard
<1> QED
  BY <1>2, <1>3

\* A part of the response that has been written can be sent.
LEMMA ReplyWritten ==
  ASSUME TypeInv, Active, NEW f \in Existing, Replying(f) \/ Closing(f), ~ HalfReset
  PROVE  /\ Part(sendBuff["server"], Resp(f), 0)
         /\ lastWrite("server") \in 0 .. 11 + FileLen
         /\ \A i \in 1 .. lastWrite("server") : Resp(f)[i] # NUL
         /\ Closing(f) => lastWrite("server") = 0 /\ lastSent["server"] = 0
<1>1. /\ "server" \in Host /\ lastSent["server"] \in Nat /\ lastWrite("server") \in Nat
      /\ lastSent["server"] <= lastWrite("server") /\ pos \in 0 .. FileLen /\ FileLen \in 1 .. 9
  <2>1. Typed /\ "server" \in Host /\ lastSent["server"] <= lastWrite("server")
    BY ActiveIs
  <2>2. pos \in 0 .. FileLen
    BY <2>1, Zenon DEF Typed
  <2> QED
    BY <2>1, <2>2, Lengths, SessionParams
<1>2. Closing(f) => sendBuff["server"] = << >> /\ lastWrite("server") = 0
  <2>1. Closing(f) => spc \in {"lastRead", "lastRecved"}
    BY DEF Closing, HalfReset
  <2>2. Closing(f) => sendBuff["server"] = << >>
    BY <2>1 DEF TypeInv, Ordered
  <2> QED
    BY <2>2, EmptySeq DEF lastWrite
<1>3. Replying(f) => lastWrite("server") = 11 + pos /\ Part(sendBuff["server"], Resp(f), 0)
  BY DEF Replying
<1>4. lastWrite("server") \in 0 .. 11 + FileLen
  BY <1>1, <1>2, <1>3
<1>5. Part(sendBuff["server"], Resp(f), 0)
  <2>1. CASE Closing(f)
    <3>1. Len(sendBuff["server"]) = 0
      BY <1>2, <2>1 DEF lastWrite
    <3> QED
      BY <3>1 DEF Part
  <2> QED
    BY <1>3, <2>1
<1>6. \A i \in 1 .. lastWrite("server") : Resp(f)[i] # NUL
  <2>1. \A i \in 1 .. lastWrite("server") : i \in 1 .. 11 + FileLen
    BY <1>1, <1>4
  <2>2. \A i \in 1 .. 11 + FileLen : Resp(f)[i] # NUL
    BY RespIs
  <2> QED
    BY <2>1, <2>2
<1> QED
  BY <1>1, <1>2, <1>4, <1>5, <1>6

LEMMA CarriesSame ==
  ASSUME NEW f, NEW e, Carries(f, e), toClient' = toClient,
         recvBuff'["client"] = recvBuff["client"]
  PROVE  Carries(f, e)'
BY DEF Carries, lastRecved

LEMMA DuringReceived ==
  ASSUME TypeInv, Active, TypeInv', Running', Earlier, InTurn, ServerReceives,
         NEW f \in Existing, Replying(f) \/ Closing(f) \/ Closed(f)
  PROVE  (Replying(f) \/ Closing(f) \/ Closed(f))'
<1>1. /\ Typed /\ "server" \in Host /\ "client" \in Host
      /\ cur' = cur /\ UNCHANGED <<spc, file, pos, addr, sendBuff>>
      /\ recvBuff'["client"] = recvBuff["client"]
      /\ lastSent'["client"] = lastSent["client"] /\ lastAcked'["client"] = lastAcked["client"]
      /\ FileLen \in 1 .. 9 /\ lastWrite("server")' = lastWrite("server")
      /\ lastSent["server"] \in Nat /\ lastWrite("server") \in Nat
      /\ lastRecved("server") \in Nat /\ lastAcked["client"] \in Nat
  <2>1. sendBuff' = sendBuff
    BY DEF ServerReceives
  <2>2. Typed /\ "server" \in Host /\ "client" \in Host
    BY ActiveIs
  <2> QED
    BY <2>1, <2>2, ReceivedSide, SessionParams, Lengths DEF lastWrite
<1>2. CASE ~ InOrder("server", held[1].seg)
  <2>1. /\ recvBuff'["server"] = recvBuff["server"]
        /\ lastSent'["server"] = lastSent["server"] /\ toClient' = toClient
    BY <1>2, ServerDrops
  <2>2. lastRecved("server")' = lastRecved("server")
    BY <2>1 DEF lastRecved
  <2>3. /\ Noticed => Noticed'
        /\ Acks => Acks'
    BY <1>1, <2>1, <2>2 DEF Acks, Noticed
  <2>4. ASSUME NEW e, Carries(f, e) PROVE Carries(f, e)'
    BY <1>1, <2>1, <2>4, CarriesSame
  <2>5. Replying(f) => Replying(f)'
    <3>1. PICK e : e = lastSent["server"]
      OBVIOUS
    <3>2. Replying(f) => Carries(f, e) /\ Carries(f, e)'
      BY <2>4, <3>1 DEF Replying
    <3>3. Replying(f) => Carries(f, lastSent["server"])'
      BY <2>1, <3>1, <3>2 DEF Carries
    <3> QED
      BY <1>1, <2>1, <2>3, <3>3 DEF Replying
  <2>6. Closing(f) => Closing(f)'
    BY <1>1, <2>3, <2>4 DEF Closing
  <2>7. Closed(f) => Closed(f)'
    BY <1>1, <2>1, <2>3, <2>4 DEF Closed
  <2> QED
    BY <2>5, <2>6, <2>7
<1>3. CASE InOrder("server", held[1].seg)
  <2>1. ~ Closed(f)
    <3>1. held # None /\ held[1].seg.data # << >> /\ held[1].seg.seqNum = lastRecved("server")
      BY <1>3 DEF ServerReceives, InOrder
    <3>2. /\ lastAcked["client"] <= lastRecved("server")
          /\ \A j \in 1 .. Len(toClient) :
               toClient[j].flags = 1 => toClient[j].ackNum <= lastRecved("server")
      BY <3>1, HeadInTurn
    <3> SUFFICES ASSUME Closed(f) PROVE FALSE
      OBVIOUS
    <3>3. lastRecved("server") = 0 /\ Noticed
      BY EmptySeq DEF Closed, lastRecved
    <3>4. CASE lastAcked["client"] >= 1
      BY <1>1, <3>2, <3>3, <3>4
    <3>5. CASE \E i \in 1 .. Len(toClient) :
                 toClient[i].flags = 1 /\ toClient[i].ackNum \in 1 .. lastSent["client"]
      <4>1. PICK i \in 1 .. Len(toClient) :
              toClient[i].flags = 1 /\ toClient[i].ackNum \in 1 .. lastSent["client"]
        BY <3>5
      <4>2. toClient[i].ackNum <= 0
        BY <3>2, <3>3, <4>1
      <4> QED
        BY <4>1, <4>2
    <3> QED
      BY <3>3, <3>4, <3>5 DEF Noticed, Underway
  <2>2. ~ HalfReset
    BY <1>3 DEF ServerReceives, Running, Straddles
  <2>3. /\ Part(sendBuff["server"], Resp(f), 0) /\ lastWrite("server") \in 0 .. 11 + FileLen
        /\ \A i \in 1 .. lastWrite("server") : Resp(f)[i] # NUL
        /\ Closing(f) => lastWrite("server") = 0 /\ lastSent["server"] = 0
    BY <2>1, <2>2, ReplyWritten
  <2>4. PICK bytes : bytes = Resp(f)
    OBVIOUS
  <2>5. /\ lastAcked["client"] <= lastRecved("server")
        /\ \A j \in 1 .. Len(toClient) :
             toClient[j].flags = 1 => toClient[j].ackNum <= lastRecved("server")
    BY <1>3, <2>3, <2>4, DataTaken
  <2>6. PICK r \in Seg :
          /\ toClient' = Append(toClient, r)
          /\ r.flags = 1 /\ r.ackNum = lastRecved("server")'
          /\ r.ackNum \in 1 .. lastSent["client"] /\ lastRecved("server") <= r.ackNum
          /\ r.data # << >> => r.seqNum = lastSent["server"]
          /\ Part(r.data, bytes, lastSent["server"])
          /\ lastSent'["server"] = lastSent["server"] + Len(r.data)
          /\ lastSent'["server"] <= lastWrite("server")
    BY <1>3, <2>3, <2>4, DataTaken
  <2>7. r.ackNum \in Nat /\ r.data \in Seq(Byte) /\ Len(r.data) \in Nat
    BY SegIs
  <2>8. Acks'
    <3>1. r.ackNum <= lastRecved("server")' /\ lastRecved("server") <= lastRecved("server")'
      BY <2>6, <2>7
    <3>2. PICK k \in Nat : k = lastRecved("server")
      BY <1>1
    <3> QED
      BY <1>1, <2>5, <2>6, <3>1, <3>2, AcksAppend
  <2>9. CASE Replying(f)
    <3>1. PICK e : e = lastSent["server"]
      OBVIOUS
    <3>2. Carries(f, e) /\ e \in Nat
      <4>1. Carries(f, lastSent["server"])
        BY <2>9 DEF Replying
      <4> QED
        BY <1>1, <3>1, <4>1
    <3>3. e + Len(r.data) <= 11 + FileLen
      <4>1. e + Len(r.data) <= lastWrite("server")
        BY <2>6, <3>1
      <4> QED
        BY <1>1, <2>3, <2>7, <3>2, <4>1
    <3>4. Carries(f, e + Len(r.data))'
      BY <1>1, <2>4, <2>6, <3>1, <3>2, <3>3, CarriesAppend
    <3>5. PICK d : d = e + Len(r.data)
      OBVIOUS
    <3>6. Carries(f, d)' /\ d = lastSent'["server"]
      BY <2>6, <3>1, <3>4, <3>5 DEF Carries
    <3>7. Carries(f, lastSent["server"])'
      BY <3>6 DEF Carries
    <3>8. spc = "lastSent" => lastSent'["server"] = 11 + FileLen
      <4>1. spc = "lastSent" => lastSent["server"] = 11 + FileLen
        BY <2>9 DEF Replying
      <4> QED
        BY <1>1, <2>3, <2>6, <2>7, <4>1
    <3> QED
      BY <1>1, <2>8, <2>9, <3>7, <3>8 DEF Replying
  <2>10. CASE Closing(f)
    <3>1. Len(r.data) = 0
      BY <1>1, <2>3, <2>6, <2>7, <2>10
    <3>2. r.data = << >>
      BY <2>7, <3>1, EmptyIs
    <3>3. PICK e : e = 11 + FileLen
      OBVIOUS
    <3>4. e + Len(r.data) = e /\ e + Len(r.data) <= 11 + FileLen /\ Part(r.data, Resp(f), e)
      BY <1>1, <3>1, <3>3 DEF Part
    <3>5. Carries(f, e)
      BY <2>10, <3>3 DEF Closing
    <3>6. Carries(f, e + Len(r.data))'
      BY <1>1, <2>6, <3>2, <3>4, <3>5, CarriesAppend
    <3>7. Carries(f, 11 + FileLen)'
      BY <3>3, <3>4, <3>6 DEF Carries
    <3> QED
      BY <1>1, <2>8, <2>10, <3>7 DEF Closing
  <2> QED
    BY <2>1, <2>9, <2>10
<1> QED
  BY <1>2, <1>3

\* Whatever the client sends or receives, they stay where they are.
LEMMA CarriesClient ==
  ASSUME NEW f, NEW e, TypeInv, Active, Gets(f), Carries(f, e),
         Send("client") \/ ClientReceives
  PROVE  Carries(f, e)'
<1>1. CASE Send("client")
  <2>1. toClient' = toClient /\ recvBuff' = recvBuff
    BY <1>1 DEF Send
  <2> QED
    BY <2>1, CarriesSame
<1>2. CASE ClientReceives
  BY <1>2, CarriesReceived
<1> QED
  BY <1>1, <1>2

LEMMA DuringClient ==
  ASSUME TypeInv, Active, Typed', Send("client") \/ ClientReceives,
         NEW f \in Existing, Gets(f), Replying(f) \/ Closing(f) \/ Closed(f)
  PROVE  (Replying(f) \/ Closing(f) \/ Closed(f))'
<1>1. /\ UNCHANGED <<spc, file, pos, addr, cur>>
      /\ sendBuff'["server"] = sendBuff["server"] /\ recvBuff'["server"] = recvBuff["server"]
      /\ lastSent'["server"] = lastSent["server"] /\ lastWrite("server")' = lastWrite("server")
  <2>1. /\ UNCHANGED <<spc, file, pos, addr, cur>>
        /\ sendBuff'["server"] = sendBuff["server"] /\ recvBuff'["server"] = recvBuff["server"]
        /\ lastSent'["server"] = lastSent["server"]
    BY ClientSide
  <2> QED
    BY <2>1 DEF lastWrite
<1>2. (Acks => Acks') /\ (Noticed => Noticed')
  BY AcksClient
<1>3. ASSUME NEW e, Carries(f, e) PROVE Carries(f, e)'
  BY <1>3, CarriesClient
<1>4. CASE Replying(f)
  <2>1. PICK e : e = lastSent["server"]
    OBVIOUS
  <2>2. Carries(f, e)'
    <3>1. Carries(f, lastSent["server"])
      BY <1>4 DEF Replying
    <3>2. Carries(f, e)
      BY <2>1, <3>1
    <3> QED
      BY <1>3, <3>2
  <2>3. Carries(f, lastSent["server"])'
    BY <1>1, <2>1, <2>2 DEF Carries
  <2> QED
    BY <1>1, <1>2, <1>4, <2>3 DEF Replying
<1>5. CASE Closing(f)
  BY <1>1, <1>2, <1>3, <1>5 DEF Closing
<1>6. CASE Closed(f)
  BY <1>1, <1>2, <1>3, <1>6 DEF Closed
<1> QED
  BY <1>4, <1>5, <1>6

LEMMA BeforeClient ==
  ASSUME TypeInv, Active, Typed', Send("client") \/ ClientReceives, Waits,
         Fresh \/ Behind \/ Heard
  PROVE  Waits' /\ (Fresh \/ Behind \/ Heard)'
<1>1. /\ Typed /\ "client" \in Host /\ Step /\ ~ Start
      /\ UNCHANGED <<spc, file, pos, addr, cur>>
      /\ sendBuff'["server"] = sendBuff["server"] /\ recvBuff'["server"] = recvBuff["server"]
      /\ lastSent'["server"] = lastSent["server"] /\ lastWrite("server")' = lastWrite("server")
      /\ lastRecved("server")' = lastRecved("server")
  <2>1. /\ Step /\ ~ Start /\ UNCHANGED <<spc, file, pos, addr, cur>>
        /\ sendBuff'["server"] = sendBuff["server"] /\ recvBuff'["server"] = recvBuff["server"]
        /\ lastSent'["server"] = lastSent["server"]
    BY ClientSide
  <2> QED
    BY <2>1, ActiveIs DEF lastWrite, lastRecved
<1>2. UNCHANGED <<cpc, left, saved, lastRead>>
  BY DEF Send, ClientReceives, client
<1>3. CASE Send("client")
  <2>1. toClient' = toClient /\ lastAcked' = lastAcked /\ recvBuff' = recvBuff
    BY <1>3 DEF Send
  <2>2. Acks => Acks'
    BY AcksClient
  <2>3. Waits'
    BY <1>1, <1>2, <2>1 DEF Waits
  <2>4. Fresh => Fresh'
    BY <1>1, <2>1 DEF Fresh
  <2>5. Behind => Behind'
    BY <1>1, <2>1 DEF Behind
  <2>6. Heard => Heard'
    BY <1>1, <2>1, <2>2 DEF Heard
  <2> QED
    BY <2>3, <2>4, <2>5, <2>6
<1>4. CASE ClientReceives
  <2>1. toClient # << >> /\ toClient' = Tail(toClient)
    BY <1>4 DEF ClientReceives
  <2>2. Heard
    BY <2>1 DEF Fresh, Behind
  <2>3. /\ Len(toClient) \in Nat \ {0} /\ Head(toClient) = toClient[1]
        /\ Len(toClient') = Len(toClient) - 1
        /\ \A i \in 1 .. Len(toClient') : toClient'[i] = toClient[i + 1]
    <3>1. toClient \in Seq(Seg)
      BY <1>1 DEF Typed
    <3>2. Len(toClient) \in Nat \ {0}
      BY <2>1, <3>1, EmptySeq
    <3> QED
      BY <2>1, <3>1, <3>2, HeadTailProperties
  <2>4. 1 \in 1 .. Len(toClient) /\ \A i \in 1 .. Len(toClient') : i + 1 \in 1 .. Len(toClient)
    BY <2>3
  <2>5. Head(toClient).data = << >>
    BY <2>2, <2>3, <2>4 DEF Heard
  <2>6. \A i \in 1 .. Len(toClient') : toClient'[i].data = << >>
    BY <2>2, <2>3, <2>4 DEF Heard
  <2>7. recvBuff' = recvBuff
    <3>1. ~ InOrder("client", Head(toClient))
      BY <2>5 DEF InOrder
    <3>2. Receive("client", Head(toClient), FreshAck("client", Head(toClient)))
      BY <1>4 DEF ClientReceives
    <3> QED
      BY <3>1, <3>2 DEF Receive
  <2>8. Acks'
    BY <2>2, AcksClient DEF Heard
  <2>9. Waits'
    BY <1>1, <1>2, <2>7 DEF Waits
  <2> QED
    BY <1>1, <2>2, <2>6, <2>8, <2>9 DEF Heard
<1> QED
  BY <1>3, <1>4

\* Nothing that they are about changes.
LEMMA TurnSame ==
  ASSUME cur' = cur, addr' = addr \/ addr' = cur,
         UNCHANGED <<toClient, lastSent, lastAcked, spc, file, pos>>,
         recvBuff' = recvBuff, sendBuff'["server"] = sendBuff["server"]
  PROVE  /\ Fresh \/ Behind \/ Heard => (Fresh \/ Behind \/ Heard)'
         /\ \A f \in Existing :
              Replying(f) \/ Closing(f) \/ Closed(f) => (Replying(f) \/ Closing(f) \/ Closed(f))'
<1>1. lastRecved("server")' = lastRecved("server") /\ lastWrite("server")' = lastWrite("server")
  BY DEF lastRecved, lastWrite
<1>2. Noticed' <=> Noticed
  BY DEF Noticed
<1>3. Acks => Acks'
  BY <1>1, <1>2 DEF Acks
<1>4. Fresh => Fresh'
  BY DEF Fresh
<1>5. Behind => Behind'
  BY <1>1 DEF Behind
<1>6. Heard => Heard'
  BY <1>3 DEF Heard
<1>7. ASSUME NEW f \in Existing
      PROVE  /\ Replying(f) => Replying(f)'
             /\ Closing(f) => Closing(f)'
             /\ Closed(f) => Closed(f)'
  <2>1. ASSUME NEW e, Carries(f, e) PROVE Carries(f, e)'
    BY <2>1, CarriesSame
  <2>2. PICK e : e = lastSent["server"]
    OBVIOUS
  <2>3. ASSUME Replying(f) PROVE Replying(f)'
    <3>1. Carries(f, lastSent["server"])
      BY <2>3 DEF Replying
    <3>2. Carries(f, e)
      BY <2>2, <3>1
    <3>3. Carries(f, e)'
      BY <2>1, <3>2
    <3>4. Carries(f, lastSent["server"])'
      BY <2>2, <3>3 DEF Carries
    <3> QED
      BY <1>1, <1>3, <2>3, <3>4 DEF Replying
  <2>4. Closing(f) => Closing(f)'
    BY <1>3, <2>1 DEF Closing
  <2>5. Closed(f) => Closed(f)'
    BY <1>2, <2>1 DEF Closed
  <2> QED
    BY <2>3, <2>4, <2>5
<1> QED
  BY <1>4, <1>5, <1>6, <1>7

\* The server sends only what it has written for this client.
LEMMA BeforeSent ==
  ASSUME TypeInv, Active, Running', Send("server"), Fresh \/ Behind \/ Heard
  PROVE  FALSE
<1>1. /\ Typed /\ "server" \in Host /\ lastSent["server"] \in Nat /\ lastWrite("server") \in Nat
      /\ lastSent["server"] <= lastWrite("server")
      /\ NextLen("server") > 0 /\ NextLen("server") \in Nat
      /\ NextLen("server") <= lastWrite("server") - lastSent["server"]
  <2>1. Typed /\ "server" \in Host /\ lastSent["server"] <= lastWrite("server")
    BY ActiveIs
  <2>2. NextLen("server") > 0
    BY DEF Send
  <2> QED
    BY <2>1, <2>2, Lengths, NextLenIs
<1>2. ~ HalfReset
  BY DEF Send, Running
<1>3. lastWrite("server") > 0 /\ lastSent["server"] # lastWrite("server")
  BY <1>1
<1>4. spc \notin {"lastRead", "lastRecved", "sockFd", "addr", "waitTime", "poll"}
  <2> SUFFICES ASSUME spc \in {"lastRead", "lastRecved", "sockFd", "addr", "waitTime", "poll"} PROVE FALSE
    OBVIOUS
  <2>1. sendBuff["server"] = << >>
    BY DEF TypeInv, Ordered
  <2>2. lastWrite("server") = 0
    BY <2>1, EmptySeq DEF lastWrite
  <2> QED
    BY <1>3, <2>2
<1>5. ~ Fresh /\ ~ Heard
  BY <1>4 DEF Fresh, Heard
<1>6. ~ Behind
  BY <1>2, <1>3, <1>4 DEF Behind, HalfReset
<1> QED
  BY <1>5, <1>6

LEMMA DuringSent ==
  ASSUME TypeInv, Active, TypeInv', Running', Send("server"),
         NEW f \in Existing, Replying(f) \/ Closing(f) \/ Closed(f)
  PROVE  Replying(f) /\ Replying(f)'
<1> DEFINE seg == NewData("server", 0, 0)
<1>1. /\ Typed /\ "server" \in Host /\ "client" \in Host /\ "server" # "client"
      /\ lastSent["server"] \in Nat /\ lastSent["server"] <= lastWrite("server")
      /\ NextLen("server") > 0 /\ NextLen("server") \in Nat
      /\ toClient' = ToClient(seg)
      /\ lastSent' = [lastSent EXCEPT !["server"] = @ + NextLen("server")]
      /\ UNCHANGED <<lastAcked, sendBuff, recvBuff, addr, spc, file, pos, cur>>
  <2>1. /\ Typed /\ "server" \in Host /\ "client" \in Host /\ "server" # "client"
        /\ lastSent["server"] <= lastWrite("server")
    BY ActiveIs
  <2>2. /\ NextLen("server") > 0
        /\ toClient' = ToClient(seg)
        /\ lastSent' = [lastSent EXCEPT !["server"] = @ + NextLen("server")]
        /\ UNCHANGED <<lastAcked, sendBuff, recvBuff, addr, spc, file, pos, cur>>
    BY <2>1 DEF Send, client, server
  <2> HIDE DEF seg
  <2> QED
    BY <2>1, <2>2, Lengths, NextLenIs
<1>2. lastWrite("server") \in Nat /\ FileLen \in 1 .. 9 /\ lastRecved("server") \in Nat
      /\ NextLen("server") <= lastWrite("server") - lastSent["server"]
  BY <1>1, Lengths, NextLenIs, SessionParams
<1>3. ~ HalfReset
  BY DEF Send, Running
<1>4. Replying(f)
  <2>1. ~ Closing(f)
    <3>1. Closing(f) => lastWrite("server") = 0 /\ lastSent["server"] = 0
      BY <1>3, ReplyWritten
    <3> QED
      BY <1>1, <1>2, <3>1
  <2>2. ~ Closed(f)
    <3> SUFFICES ASSUME Closed(f) PROVE FALSE
      OBVIOUS
    <3>1. sendBuff["server"] = << >>
      BY DEF Closed, TypeInv, Ordered
    <3>2. lastWrite("server") = 0
      BY <3>1, EmptySeq DEF lastWrite
    <3> QED
      BY <1>1, <1>2, <3>2
  <2> QED
    BY <2>1, <2>2
<1>5. /\ Part(sendBuff["server"], Resp(f), 0) /\ lastWrite("server") \in 0 .. 11 + FileLen
      /\ \A i \in 1 .. lastWrite("server") : Resp(f)[i] # NUL
  BY <1>3, <1>4, ReplyWritten
<1>6. addr = cur /\ Acks
  BY <1>4 DEF Replying
<1>7. /\ seg \in Seg /\ Received(seg) = seg
      /\ seg.seqNum = lastSent["server"] /\ seg.flags = 0
      /\ Len(seg.data) = NextLen("server") /\ Part(seg.data, Resp(f), lastSent["server"])
  <2>1. 0 \in Nat /\ 0 \in 0 .. 1 /\ lastWrite("server") <= lastWrite("server")
    BY <1>2
  <2> QED
    BY <1>1, <1>2, <1>5, <2>1, Carried
<1> HIDE DEF seg
<1>8. toClient' = Append(toClient, seg)
  BY <1>1, <1>6, <1>7 DEF ToClient
<1>9. /\ lastSent'["client"] = lastSent["client"]
      /\ lastSent'["server"] = lastSent["server"] + NextLen("server")
  <2>1. lastSent \in [Host -> Nat]
    BY <1>1 DEF Typed
  <2> QED
    BY <1>1, <2>1
<1>10. lastRecved("server")' = lastRecved("server") /\ lastWrite("server")' = lastWrite("server")
  BY <1>1 DEF lastRecved, lastWrite
<1>11. Acks'
  <2>1. seg.flags # 1
    BY <1>7
  <2>2. PICK k \in Nat : k = lastRecved("server")
    BY <1>2
  <2>3. /\ lastAcked["client"] <= k /\ Noticed
        /\ \A j \in 1 .. Len(toClient) : toClient[j].flags = 1 => toClient[j].ackNum <= k
    BY <1>6, <2>2 DEF Acks
  <2>4. k <= lastRecved("server")' /\ lastAcked'["client"] = lastAcked["client"]
    BY <1>1, <1>10, <2>2
  <2> QED
    BY <1>7, <1>8, <1>9, <2>1, <2>3, <2>4, AcksAppend
<1>12. Carries(f, lastSent["server"])'
  <2>1. PICK e : e = lastSent["server"]
    OBVIOUS
  <2>2. PICK r \in Seg : r = seg
    BY <1>7
  <2>3. Carries(f, e)
    <3>1. Carries(f, lastSent["server"])
      BY <1>4 DEF Replying
    <3> QED
      BY <2>1, <3>1
  <2>4. e + Len(r.data) <= 11 + FileLen
    BY <1>1, <1>2, <1>5, <1>7, <2>1, <2>2
  <2>5. /\ toClient' = Append(toClient, r) /\ recvBuff'["client"] = recvBuff["client"]
        /\ r.seqNum = e /\ Part(r.data, Resp(f), e)
    BY <1>1, <1>7, <1>8, <2>1, <2>2
  <2>6. Carries(f, e + Len(r.data))'
    BY <1>1, <2>3, <2>4, <2>5, CarriesAppend
  <2>7. PICK d : d = e + Len(r.data)
    OBVIOUS
  <2>8. Carries(f, d)' /\ d = lastSent'["server"]
    BY <1>7, <1>9, <2>1, <2>2, <2>6, <2>7 DEF Carries
  <2> QED
    BY <2>8 DEF Carries
<1>13. spc # "lastSent"
  <2>1. spc = "lastSent" => lastSent["server"] = 11 + FileLen
    BY <1>4 DEF Replying
  <2> QED
    BY <1>1, <1>2, <1>5, <2>1
<1> QED
  BY <1>1, <1>4, <1>6, <1>10, <1>11, <1>12, <1>13 DEF Replying

\* The server's receive thread takes the next segment, which is of this client
\* once one of it has been taken.
LEMMA TurnTaken ==
  ASSUME TypeInv, Active, Typed', Earlier, ServerTakes
  PROVE  /\ Fresh \/ Behind \/ Heard => (Fresh \/ Behind \/ Heard)'
         /\ \A f \in Existing :
              Replying(f) \/ Closing(f) \/ Closed(f) => (Replying(f) \/ Closing(f) \/ Closed(f))'
<1>1. UNCHANGED <<cur, toClient, lastSent, lastAcked, recvBuff, sendBuff, spc, file, pos>>
  BY DEF ServerTakes, endpoints, client, server
<1>2. addr' = Head(toServer).from /\ toServer # << >>
  BY DEF ServerTakes
<1>3. Len(toServer) \in Nat \ {0} /\ Head(toServer) = toServer[1]
  <2>1. toServer \in Seq([from : 0 .. cur, seg : Seg])
    BY ActiveIs DEF Typed
  <2> DEFINE T == [from : 0 .. cur, seg : Seg]
  <2> HIDE DEF T
  <2>2. toServer \in Seq(T)
    BY <2>1 DEF T
  <2>3. Len(toServer) \in Nat \ {0}
    BY <1>2, <2>2, EmptySeq
  <2> QED
    BY <2>2, <2>3, HeadTailProperties
<1>4. 1 \in 1 .. Len(toServer)
  BY <1>3
<1>5. addr = cur => addr' = cur
  BY <1>2, <1>3, <1>4 DEF Earlier
<1>6. CASE addr = cur
  <2>1. addr' = cur
    BY <1>5, <1>6
  <2> QED
    BY <1>1, <2>1, TurnSame
<1>7. CASE addr # cur
  <2>1. ~ Heard /\ \A f \in Existing : ~ Replying(f)
    BY <1>7 DEF Heard, Replying
  <2>2. lastRecved("server")' = lastRecved("server") /\ lastWrite("server")' = lastWrite("server")
    BY <1>1 DEF lastRecved, lastWrite
  <2>3. (Noticed => Noticed') /\ (Acks => Acks')
    BY <1>1, <2>2 DEF Noticed, Acks
  <2>4. (Fresh => Fresh') /\ (Behind => Behind')
    BY <1>1, <2>2 DEF Fresh, Behind
  <2>5. ASSUME NEW f \in Existing
        PROVE  (Closing(f) => Closing(f)') /\ (Closed(f) => Closed(f)')
    <3>1. ASSUME NEW e, Carries(f, e) PROVE Carries(f, e)'
      BY <1>1, <3>1, CarriesSame
    <3> QED
      BY <1>1, <2>3, <3>1 DEF Closing, Closed
  <2> QED
    BY <2>1, <2>4, <2>5
<1> QED
  BY <1>6, <1>7

LEMMA DuringServed ==
  ASSUME TypeInv, Active, Running', NEW f \in Existing, Replying(f) \/ Closing(f) \/ Closed(f),
         ServerBody \/ ServerBlank \/ ServerCutBlank \/ ServerDrain
  PROVE  Replying(f)'
<1>1. /\ UNCHANGED <<toClient, addr, cur, lastSent, lastAcked, recvBuff, file>>
      /\ spc \in {"body", "blank", "drain"}
  BY DEF ServerBody, ServerBlank, ServerCutBlank, ServerDrain, net, client, endpoints
<1>2. Replying(f)
  BY <1>1 DEF Closing, Closed
<1>3. Acks'
  BY <1>1, <1>2 DEF Replying, Acks, Noticed, lastRecved
<1>4. Carries(f, lastSent["server"])'
  <2>1. PICK e : e = lastSent["server"]
    OBVIOUS
  <2>2. Carries(f, e)
    <3>1. Carries(f, lastSent["server"])
      BY <1>2 DEF Replying
    <3> QED
      BY <2>1, <3>1
  <2>3. Carries(f, e)'
    BY <1>1, <2>2, CarriesSame
  <2> QED
    BY <1>1, <2>1, <2>3 DEF Carries
<1>5. /\ file = Content[f] /\ lastWrite("server") = 11 + pos
      /\ Part(sendBuff["server"], Resp(f), 0) /\ (spc # "body" => pos = FileLen)
      /\ addr' = cur'
  BY <1>1, <1>2 DEF Replying
<1>6. CASE ServerBody /\ pos < Len(file)
  <2>1. /\ spc' = "body" /\ lastWrite("server")' = 11 + pos'
        /\ Part(sendBuff'["server"], Resp(f), 0)
    BY <1>5, <1>6, BodyWritten
  <2> QED
    BY <1>1, <1>3, <1>4, <1>5, <2>1 DEF Replying
<1>7. CASE ~ (ServerBody /\ pos < Len(file))
  <2>0. Len(file) = FileLen /\ pos \in 0 .. FileLen /\ FileLen \in 1 .. 9
    BY <1>5, ContentIs, ActiveIs, SessionParams DEF Typed
  <2>1. sendBuff' = sendBuff /\ pos' = pos /\ spc' \in {"blank", "drain", "lastSent"}
    BY <1>7 DEF ServerBody, ServerBlank, ServerCutBlank, ServerDrain, endpoints, Running
  <2>2. pos = FileLen
    BY <1>5, <1>7, <2>0 DEF ServerBody, ServerBlank, ServerCutBlank, ServerDrain
  <2>3. spc' = "lastSent" => lastSent'["server"] = 11 + FileLen
    <3>1. spc' = "lastSent" => lastSent["server"] = lastWrite("server")
      BY DEF ServerBody, ServerBlank, ServerCutBlank, ServerDrain, Drained
    <3> QED
      BY <1>1, <1>5, <2>2, <3>1
  <2>4. lastWrite("server")' = 11 + pos' /\ Part(sendBuff'["server"], Resp(f), 0)
    BY <1>5, <2>1 DEF lastWrite
  <2> QED
    BY <1>1, <1>3, <1>4, <1>5, <2>1, <2>2, <2>3, <2>4 DEF Replying
<1> QED
  BY <1>6, <1>7

LEMMA BeforeServed ==
  ASSUME TypeInv, Active, Running', Fresh \/ Behind \/ Heard,
         ServerBody \/ ServerBlank \/ ServerCutBlank \/ ServerDrain
  PROVE  Behind'
<1>1. /\ UNCHANGED <<toClient, addr, cur, lastSent, lastAcked, recvBuff, file>>
      /\ spc \in {"body", "blank", "drain"}
  BY DEF ServerBody, ServerBlank, ServerCutBlank, ServerDrain, net, client, endpoints
<1>2. Behind
  BY <1>1 DEF Fresh, Heard
<1>3. pos = FileLen /\ Len(file) = FileLen /\ lastSent["server"] = lastWrite("server")
  BY <1>1, <1>2 DEF Behind
<1>4. ~ (pos < Len(file))
  <2>1. FileLen \in Nat
    BY SessionParams
  <2> QED
    BY <1>3, <2>1
<1>5. sendBuff' = sendBuff /\ pos' = pos /\ spc' \in {"blank", "drain", "lastSent"}
  BY <1>1, <1>4 DEF ServerBody, ServerBlank, ServerCutBlank, ServerDrain, endpoints, Running
<1> QED
  BY <1>1, <1>2, <1>3, <1>5 DEF Behind, lastRecved, lastWrite

\* The server resets its Resf.
LEMMA ResetSteps ==
  ASSUME TypeInv, Active, InitResf
  PROVE  /\ \/ spc = "lastSent" /\ spc' = "lastAcked"
            \/ spc = "lastAcked" /\ spc' = "lastWrite"
            \/ spc = "lastWrite" /\ spc' = "lastRead"
            \/ spc = "lastRead" /\ spc' = "lastRecved"
            \/ spc = "lastRecved" /\ spc' = "sockFd"
            \/ spc = "sockFd" /\ spc' = "addr"
            \/ spc = "addr" /\ spc' = "waitTime"
            \/ spc = "waitTime" /\ spc' = "poll"
         /\ UNCHANGED <<toClient, cur, addr>>
         /\ lastSent'["client"] = lastSent["client"] /\ lastAcked'["client"] = lastAcked["client"]
         /\ recvBuff'["client"] = recvBuff["client"]
         /\ spc # "lastRecved" => recvBuff'["server"] = recvBuff["server"]
         /\ spc = "lastRecved" => recvBuff'["server"] = << >>
<1>1. \/ spc = "lastSent" /\ spc' = "lastAcked"
      \/ spc = "lastAcked" /\ spc' = "lastWrite"
      \/ spc = "lastWrite" /\ spc' = "lastRead"
      \/ spc = "lastRead" /\ spc' = "lastRecved"
      \/ spc = "lastRecved" /\ spc' = "sockFd"
      \/ spc = "sockFd" /\ spc' = "addr"
      \/ spc = "addr" /\ spc' = "waitTime"
      \/ spc = "waitTime" /\ spc' = "poll"
  BY DEF InitResf, ResetOrder
<1>2. Typed /\ "client" \in Host /\ "server" \in Host /\ "client" # "server"
  BY ActiveIs
<1>3. /\ UNCHANGED <<toClient, cur, addr>>
      /\ lastSent'["client"] = lastSent["client"] /\ lastAcked'["client"] = lastAcked["client"]
      /\ recvBuff'["client"] = recvBuff["client"]
      /\ spc # "lastRecved" => recvBuff'["server"] = recvBuff["server"]
      /\ spc = "lastRecved" => recvBuff'["server"] = << >>
  BY <1>2 DEF InitResf, Cleared, net, client, Typed
<1> QED
  BY <1>1, <1>3

LEMMA DuringReset ==
  ASSUME TypeInv, Active, InitResf, NEW f \in Existing, Replying(f) \/ Closing(f) \/ Closed(f)
  PROVE  (Closing(f) \/ Closed(f))'
<1>1. /\ \/ spc = "lastSent" /\ spc' = "lastAcked"
         \/ spc = "lastAcked" /\ spc' = "lastWrite"
         \/ spc = "lastWrite" /\ spc' = "lastRead"
         \/ spc = "lastRead" /\ spc' = "lastRecved"
         \/ spc = "lastRecved" /\ spc' = "sockFd"
         \/ spc = "sockFd" /\ spc' = "addr"
         \/ spc = "addr" /\ spc' = "waitTime"
         \/ spc = "waitTime" /\ spc' = "poll"
      /\ UNCHANGED <<toClient, cur, addr>>
      /\ lastSent'["client"] = lastSent["client"] /\ lastAcked'["client"] = lastAcked["client"]
      /\ recvBuff'["client"] = recvBuff["client"]
      /\ spc # "lastRecved" => recvBuff'["server"] = recvBuff["server"]
      /\ spc = "lastRecved" => recvBuff'["server"] = << >>
  BY ResetSteps
<1>2. PICK e : e = 11 + FileLen
  OBVIOUS
<1>3. Carries(f, 11 + FileLen)
  <2>1. CASE Replying(f)
    <3>1. spc = "lastSent"
      BY <1>1, <2>1 DEF Replying
    <3>2. lastSent["server"] = 11 + FileLen /\ Carries(f, lastSent["server"])
      BY <2>1, <3>1 DEF Replying
    <3> QED
      BY <3>2
  <2> QED
    BY <2>1 DEF Closing, Closed
<1>4. Carries(f, e)
  BY <1>2, <1>3
<1>5. Carries(f, e)'
  BY <1>1, <1>4, CarriesSame
<1>6. Carries(f, 11 + FileLen)'
  BY <1>2, <1>5 DEF Carries
<1>7. Noticed'
  <2>1. Noticed
    BY DEF Replying, Closing, Closed, Acks
  <2> QED
    BY <1>1, <2>1 DEF Noticed
<1>8. CASE spc \notin {"lastRecved", "sockFd", "addr", "waitTime"}
  <2>1. Acks
    BY <1>1, <1>8 DEF Replying, Closing, Closed
  <2>2. lastRecved("server")' = lastRecved("server")
    BY <1>1, <1>8 DEF lastRecved
  <2>3. Acks'
    BY <1>1, <1>7, <2>1, <2>2 DEF Acks
  <2>4. spc' \in {"lastAcked", "lastWrite", "lastRead", "lastRecved"}
    BY <1>1, <1>8
  <2> QED
    BY <1>6, <2>3, <2>4 DEF Closing
<1>9. CASE spc = "lastRecved"
  BY <1>1, <1>6, <1>7, <1>9 DEF Closed
<1>10. CASE spc \in {"sockFd", "addr", "waitTime"}
  <2>1. Closed(f)
    BY <1>10 DEF Replying, Closing
  <2>2. recvBuff'["server"] = << >>
    BY <1>1, <1>10, <2>1 DEF Closed
  <2> QED
    BY <1>1, <1>6, <1>7, <1>10, <2>2 DEF Closed
<1> QED
  BY <1>8, <1>9, <1>10

LEMMA BeforeReset ==
  ASSUME TypeInv, Active, InitResf, Fresh \/ Behind \/ Heard
  PROVE  (Fresh \/ Behind \/ Heard)'
<1>1. /\ \/ spc = "lastSent" /\ spc' = "lastAcked"
         \/ spc = "lastAcked" /\ spc' = "lastWrite"
         \/ spc = "lastWrite" /\ spc' = "lastRead"
         \/ spc = "lastRead" /\ spc' = "lastRecved"
         \/ spc = "lastRecved" /\ spc' = "sockFd"
         \/ spc = "sockFd" /\ spc' = "addr"
         \/ spc = "addr" /\ spc' = "waitTime"
         \/ spc = "waitTime" /\ spc' = "poll"
      /\ UNCHANGED <<toClient, cur, addr>>
      /\ lastSent'["client"] = lastSent["client"] /\ lastAcked'["client"] = lastAcked["client"]
      /\ recvBuff'["client"] = recvBuff["client"]
      /\ spc # "lastRecved" => recvBuff'["server"] = recvBuff["server"]
      /\ spc = "lastRecved" => recvBuff'["server"] = << >>
  BY ResetSteps
<1>2. CASE spc \in {"sockFd", "addr", "waitTime"}
  <2>1. Fresh => Fresh'
    BY <1>1, <1>2 DEF Fresh
  <2>2. Heard => Heard'
    <3>1. lastRecved("server")' = lastRecved("server")
      BY <1>1, <1>2 DEF lastRecved
    <3> QED
      BY <1>1, <1>2, <3>1 DEF Heard, Acks, Noticed
  <2> QED
    BY <1>2, <2>1, <2>2 DEF Behind
<1>3. CASE spc = "lastRecved"
  <2>1. Behind
    BY <1>3 DEF Fresh, Heard
  <2> QED
    BY <1>1, <1>3, <2>1 DEF Fresh, Behind
<1>4. CASE spc \notin {"lastRecved", "sockFd", "addr", "waitTime"}
  <2>1. Behind
    BY <1>1, <1>4 DEF Fresh, Heard
  <2>2. lastRecved("server")' = lastRecved("server")
    BY <1>1, <1>4 DEF lastRecved
  <2>3. spc' \in {"lastAcked", "lastWrite", "lastRead", "lastRecved"}
    BY <1>1, <1>4
  <2> QED
    BY <1>1, <2>1, <2>2, <2>3 DEF Behind
<1> QED
  BY <1>2, <1>3, <1>4

\* Without data, nothing is carried.
LEMMA ChainNone ==
  ASSUME NEW q \in Seq(Seg), \A i \in 1 .. Len(q) : q[i].data = << >>, NEW bytes
  PROVE  Chain(q, 0, 0, bytes)
<1> DEFINE n == Len(q)
           P == [i \in 1 .. n + 1 |-> 0]
<1>1. n \in Nat /\ 1 \in 1 .. n + 1 /\ n + 1 \in 1 .. n + 1
  BY LenProperties
<1>2. P \in [1 .. n + 1 -> Nat] /\ \A i \in 1 .. n + 1 : P[i] = 0
  OBVIOUS
<1>3. P[1] = 0 /\ P[n + 1] = 0
  BY <1>1, <1>2
<1>4. \A i, j \in 1 .. n + 1 : i <= j => P[i] <= P[j]
  BY <1>2
<1>5. \A i \in 1 .. n : /\ P[i + 1] = P[i] + Len(q[i].data)
                        /\ q[i].data # << >> => q[i].seqNum = P[i]
                        /\ Part(q[i].data, bytes, P[i])
  <2> TAKE i \in 1 .. n
  <2>1. i \in 1 .. n + 1 /\ i + 1 \in 1 .. n + 1
    BY <1>1
  <2>2. q[i].data = << >> /\ Len(q[i].data) = 0
    BY EmptySeq
  <2>3. Part(q[i].data, bytes, P[i])
    BY <2>2 DEF Part
  <2>4. P[i + 1] = 0 /\ P[i] = 0
    BY <1>2, <2>1
  <2> QED
    BY <2>2, <2>3, <2>4
<1> HIDE DEF P
<1> QED
  BY <1>2, <1>3, <1>4, <1>5 DEF Chain

\* The server answers what it has heard of, and takes it for the request of a file.
LEMMA TurnRequested ==
  ASSUME TypeInv, Active, Running', ServerRequest \/ ServerCutRequest
  PROVE  /\ Waits /\ (Fresh \/ Behind \/ Heard) =>
              \E f \in Existing : Gets(f)' /\ Reads(f)' /\ Replying(f)'
         /\ \A f \in Existing : ~ (Replying(f) \/ Closing(f) \/ Closed(f))
<1>1. /\ Typed /\ "server" \in Host /\ "client" \in Host /\ spc = "poll"
      /\ sendBuff["server"] = << >>
      /\ lastRead["server"] = 0 /\ lastSent["server"] \in Nat
      /\ lastSent["server"] <= lastWrite("server")
  <2>1. /\ Typed /\ "server" \in Host /\ "client" \in Host /\ spc = "poll" /\ Ordered
        /\ lastSent["server"] <= lastWrite("server")
    BY ActiveIs DEF ServerRequest, ServerCutRequest, TypeInv
  <2> QED
    BY <2>1, Lengths DEF Ordered
<1>2. lastSent["server"] = 0
  <2>1. lastWrite("server") = 0
    BY <1>1, EmptySeq DEF lastWrite
  <2> QED
    BY <1>1, <2>1
<1>3. recvBuff["server"] # << >>
  <2> SUFFICES ASSUME recvBuff["server"] = << >> PROVE FALSE
    OBVIOUS
  <2>1. lastRecved("server") = 0
    BY EmptySeq DEF lastRecved
  <2> DEFINE u == Unread("server")
  <2>2. HasLine("server") \/ u # << >>
    BY DEF ServerRequest, ServerCutRequest, TakeLine
  <2>3. /\ u \in Seq(Byte) /\ Len(u) = lastRecved("server") - lastRead["server"]
        /\ Find(LF, u, 1) \in 1 .. Len(u) + 1
        /\ HasLine("server") <=> Find(LF, u, 1) <= Len(u)
    <3>1. lastRead["server"] <= lastRecved("server")
      BY <1>1, ReadOrder
    <3> QED
      BY <1>1, <3>1, UnreadIs, LineIs
  <2> HIDE DEF u
  <2>4. Len(u) = 0
    BY <1>1, <2>1, <2>3
  <2>5. u = << >>
    BY <2>3, <2>4, EmptyIs
  <2> QED
    BY <2>2, <2>3, <2>4, <2>5
<1>4. \A f \in Existing : ~ (Replying(f) \/ Closing(f) \/ Closed(f))
  BY <1>1, <1>3 DEF Replying, Closing, Closed
<1>5. ASSUME Waits, Fresh \/ Behind \/ Heard
      PROVE  \E f \in Existing : Gets(f)' /\ Reads(f)' /\ Replying(f)'
  <2>1. Heard
    BY <1>1, <1>3, <1>5 DEF Fresh, Behind
  <2>2. PICK f \in Existing :
          /\ spc' = "body" /\ pos' = 0 /\ file' = Content[f]
          /\ sendBuff' = [sendBuff EXCEPT !["server"] = @ \o Response(FileLen)]
    <3>1. PICK line : Serve(line)
      BY DEF ServerRequest, ServerCutRequest
    <3>2. spc' # "gone"
      BY DEF Running
    <3> QED
      BY <1>1, <3>1, <3>2, ServeIs
  <2>3. /\ UNCHANGED <<toClient, addr, cur, lastSent, lastAcked, recvBuff, cpc, left, saved>>
        /\ lastRead'["client"] = lastRead["client"]
    <3>1. UNCHANGED <<toClient, addr, cur, lastSent, lastAcked, recvBuff, cpc, left, saved>>
      BY DEF ServerRequest, ServerCutRequest, net, client
    <3>2. lastRead'["client"] = lastRead["client"]
      BY <1>1 DEF ServerRequest, ServerCutRequest, TakeLine, CutLine, Typed
    <3> QED
      BY <3>1, <3>2
  <2>4. lastWrite("server")' = 11 + pos' /\ Part(sendBuff'["server"], Resp(f), 0)
    BY <1>1, <2>2, ResponseBegun
  <2>5. addr' = cur' /\ Acks'
    <3>1. addr' = cur'
      BY <2>1, <2>3 DEF Heard
    <3>2. Acks'
      BY <2>1, <2>3 DEF Heard, Acks, Noticed, lastRecved
    <3> QED
      BY <3>1, <3>2
  <2>6. recvBuff["client"] = << >> /\ lastRecved("client") = 0 /\ Len(recvBuff["client"]) = 0
    BY <1>5, EmptySeq DEF Waits, lastRecved
  <2>7. FileLen \in 1 .. 9
    BY SessionParams
  <2>8. Carries(f, lastSent["server"])'
    <3>1. toClient \in Seq(Seg) /\ \A i \in 1 .. Len(toClient) : toClient[i].data = << >>
      BY <1>1, <2>1 DEF Heard, Typed
    <3>2. Chain(toClient, 0, 0, Resp(f))
      BY <3>1, ChainNone
    <3>3. PICK e : e = 0
      OBVIOUS
    <3>4. Carries(f, e)
      BY <2>6, <2>7, <3>2, <3>3 DEF Carries
    <3>5. Carries(f, e)'
      BY <2>3, <3>4, CarriesSame
    <3> QED
      BY <1>2, <2>3, <3>3, <3>5 DEF Carries
  <2>9. Gets(f)'
    <3>1. Gets(f)
      BY <2>6, <2>7 DEF Gets, Part
    <3> QED
      BY <2>3, <3>1 DEF Gets, lastRecved
  <2>10. Reads(f)'
    <3>1. cpc = "status" /\ lastRead["client"] = 0 /\ left = -1 /\ saved[cur] = << >>
      BY <1>5 DEF Waits
    <3> QED
      BY <2>3, <3>1 DEF Reads
  <2>11. Replying(f)'
    BY <2>2, <2>4, <2>5, <2>8 DEF Replying
  <2> QED
    BY <2>9, <2>10, <2>11
<1> QED
  BY <1>4, <1>5

-----------------------------------------------------------------------------
(* Every client: every step but the start of another                       *)

\* What there is nothing of has no line.
LEMMA NoLine ==
  ASSUME TypeInv, NEW h \in Host, recvBuff[h] = << >>, lastRead[h] = 0
  PROVE  ~ HasLine(h)
<1> DEFINE u == Unread(h)
<1>1. Typed /\ lastRecved(h) = 0
  BY EmptySeq DEF TypeInv, lastRecved
<1>2. /\ u \in Seq(Byte) /\ Len(u) = lastRecved(h) - lastRead[h]
      /\ Find(LF, u, 1) \in 1 .. Len(u) + 1
      /\ HasLine(h) <=> Find(LF, u, 1) <= Len(u)
  BY <1>1, UnreadIs, LineIs
<1> HIDE DEF u
<1>3. Len(u) = 0
  BY <1>1, <1>2
<1> QED
  BY <1>2, <1>3

LEMMA WaitsNext ==
  ASSUME TypeInv, Active, Waits, Step, ~ Start, ~ ClientReceives
  PROVE  Waits'
<1>1. "client" \in Host /\ cur' = cur
  BY SameClient DEF Host
<1>2. ~ ClientStatus
  <2>1. ~ HasLine("client")
    BY <1>1, NoLine DEF Waits
  <2> QED
    BY <2>1 DEF ClientStatus, TakeLine
<1>3. ~ ClientHeader /\ ~ ClientBody /\ ~ ClientExit
  BY DEF Waits, ClientHeader, ClientBody, ClientExit
<1>4. /\ lastRead'["client"] = lastRead["client"] /\ left' = left /\ saved' = saved
      /\ cpc' = cpc
  BY <1>2, <1>3, SameReading
<1>5. recvBuff'["client"] = recvBuff["client"]
  BY SameReceived
<1> QED
  BY <1>1, <1>4, <1>5 DEF Waits

\* The client and its main function do not touch what the server has.
LEMMA TurnQuiet ==
  ASSUME TypeInv, Active, ClientMain \/ ClientResend
  PROVE  /\ Fresh \/ Behind \/ Heard => (Fresh \/ Behind \/ Heard)'
         /\ \A f \in Existing :
              Replying(f) \/ Closing(f) \/ Closed(f) => (Replying(f) \/ Closing(f) \/ Closed(f))'
<1>1. /\ UNCHANGED <<cur, addr, toClient, lastSent, lastAcked, recvBuff, spc, file, pos>>
  BY DEF ClientMain, ClientWrite, ClientExit, ClientBody, ClientStatus, ClientHeader,
         ClientResend, net, client, server, endpoints
<1>2. sendBuff'["server"] = sendBuff["server"]
  <2>1. CASE ClientWrite
    BY <2>1, ActiveIs DEF ClientWrite, Typed
  <2>2. CASE ~ ClientWrite
    BY <2>2 DEF ClientMain, ClientExit, ClientBody, ClientStatus, ClientHeader, ClientResend,
                endpoints
  <2> QED
    BY <2>1, <2>2
<1> QED
  BY <1>1, <1>2, TurnSame

LEMMA BeforeNext ==
  ASSUME TypeInv, Active, TypeInv', Running', Earlier, InTurn, Written, Before, Step, ~ Start
  PROVE  (Before \/ \E f \in Existing : During(f))'
<1>1. Waits /\ (Fresh \/ Behind \/ Heard) /\ Typed'
  BY DEF Before, TypeInv
<1>2. CASE Send("client") \/ ClientReceives
  BY <1>1, <1>2, BeforeClient DEF Before
<1>3. CASE Send("server")
  BY <1>1, <1>3, BeforeSent
<1>4. ~ ClientReceives => Waits'
  BY <1>1, WaitsNext
<1>5. CASE ServerRequest \/ ServerCutRequest
  <2>1. PICK f \in Existing : Gets(f)' /\ Reads(f)' /\ Replying(f)'
    BY <1>1, <1>5, TurnRequested
  <2>2. During(f)'
    BY <2>1 DEF During
  <2> QED
    BY <2>2
<1>6. ASSUME (Fresh \/ Behind \/ Heard)', ~ ClientReceives
      PROVE  (Before \/ \E f \in Existing : During(f))'
  BY <1>4, <1>6 DEF Before
<1>7. CASE ServerTakes /\ ~ ClientReceives
  BY <1>1, <1>6, <1>7, TurnTaken
<1>8. CASE ServerReceives /\ ~ ClientReceives
  BY <1>1, <1>6, <1>8, BeforeReceived
<1>9. CASE (ServerBody \/ ServerBlank \/ ServerCutBlank \/ ServerDrain) /\ ~ ClientReceives
  BY <1>1, <1>6, <1>9, BeforeServed
<1>10. CASE InitResf /\ ~ ClientReceives
  BY <1>1, <1>6, <1>10, BeforeReset
<1>11. CASE (ClientMain \/ ClientResend) /\ ~ ClientReceives
  BY <1>1, <1>6, <1>11, TurnQuiet
<1>12. ClientMain \/ ClientResend \/ Send("client") \/ Send("server") \/ ServerTakes
       \/ ServerReceives \/ ClientReceives \/ ServerRequest \/ ServerCutRequest \/ InitResf
       \/ ServerBody \/ ServerBlank \/ ServerCutBlank \/ ServerDrain
  BY DEF Step, Work, ServerMain, Host
<1> QED
  BY <1>2, <1>3, <1>5, <1>7, <1>8, <1>9, <1>10, <1>11, <1>12

LEMMA DuringNext ==
  ASSUME TypeInv, Active, TypeInv', Running', Earlier, InTurn, NEW f \in Existing, During(f),
         Step, ~ Start
  PROVE  During(f)'
<1>1. Gets(f) /\ Reads(f) /\ (Replying(f) \/ Closing(f) \/ Closed(f)) /\ Typed'
  BY DEF During, TypeInv
<1>2. Reads(f)'
  BY <1>1, ReadsNext
<1>3. Gets(f)'
  <2>1. PICK e : Carries(f, e)
    BY <1>1 DEF Replying, Closing, Closed
  <2> QED
    BY <1>1, <2>1, GetsNext
<1>4. (Replying(f) \/ Closing(f) \/ Closed(f))'
  <2>1. CASE Send("client") \/ ClientReceives
    BY <1>1, <2>1, DuringClient
  <2>2. CASE Send("server")
    BY <1>1, <2>2, DuringSent
  <2>3. CASE ServerTakes
    BY <1>1, <2>3, TurnTaken
  <2>4. CASE ServerReceives
    BY <1>1, <2>4, DuringReceived
  <2>5. CASE ServerRequest \/ ServerCutRequest
    BY <1>1, <2>5, TurnRequested
  <2>6. CASE ServerBody \/ ServerBlank \/ ServerCutBlank \/ ServerDrain
    BY <1>1, <2>6, DuringServed
  <2>7. CASE InitResf
    BY <1>1, <2>7, DuringReset
  <2>8. CASE ClientMain \/ ClientResend
    BY <1>1, <2>8, TurnQuiet
  <2>9. ClientMain \/ ClientResend \/ Send("client") \/ Send("server") \/ ServerTakes
        \/ ServerReceives \/ ClientReceives \/ ServerRequest \/ ServerCutRequest \/ InitResf
        \/ ServerBody \/ ServerBlank \/ ServerCutBlank \/ ServerDrain
    BY DEF Step, Work, ServerMain, Host
  <2> QED
    BY <2>1, <2>2, <2>3, <2>4, <2>5, <2>6, <2>7, <2>8, <2>9
<1> QED
  BY <1>2, <1>3, <1>4 DEF During

LEMMA TurnNext ==
  ASSUME TypeInv, Active, TypeInv', Running', Turn, Step, ~ Start
  PROVE  Turn'
<1>1. /\ Earlier /\ InTurn /\ Written /\ Typed'
      /\ Before \/ \E f \in Existing : During(f)
  BY DEF Turn, TypeInv
<1>2. Earlier' /\ InTurn' /\ Written'
  BY <1>1, EarlierNext, InTurnNext, WrittenNext
<1>3. (Before \/ \E f \in Existing : During(f))'
  <2>1. CASE Before
    BY <1>1, <2>1, BeforeNext
  <2>2. CASE \E f \in Existing : During(f)
    <3>1. PICK f \in Existing : During(f)
      BY <2>2
    <3>2. During(f)'
      BY <1>1, <3>1, DuringNext
    <3> QED
      BY <3>2
  <2> QED
    BY <1>1, <2>1, <2>2
<1> QED
  BY <1>2, <1>3 DEF Turn

-----------------------------------------------------------------------------
(* Every client: the start of another                                      *)

\* A client that exits has had the whole of a response, and the server all of
\* its request.
LEMMA DoneIs ==
  ASSUME TypeInv, Active, Written, NEW f \in Existing, During(f), cpc = "done"
  PROVE  /\ Replying(f) =>
              pos = FileLen /\ Len(file) = FileLen /\ lastSent["server"] = lastWrite("server")
         /\ Replying(f) \/ Closing(f) => lastRecved("server") >= 12
<1>1. Typed /\ "client" \in Host /\ "server" \in Host
  BY ActiveIs
<1>2. lastRead["client"] = 11 + FileLen
  <2> DEFINE n == Len(saved[cur])
  <2>1. lastRead["client"] = 11 + n /\ 0 = FileLen - n
    BY DEF During, Reads
  <2>2. n \in Nat /\ FileLen \in Nat
    <3>1. saved[cur] \in Seq(Byte)
      BY ActiveIs DEF Typed
    <3> QED
      BY <3>1, SessionParams
  <2> HIDE DEF n
  <2> QED
    BY <2>1, <2>2
<1>3. ASSUME Replying(f)
      PROVE  /\ pos = FileLen /\ Len(file) = FileLen
             /\ lastSent["server"] = lastWrite("server")
  <2>1. file = Content[f] /\ lastWrite("server") = 11 + pos /\ Carries(f, lastSent["server"])
    BY <1>3 DEF Replying
  <2>2. lastRecved("client") <= lastSent["server"]
    BY <1>1, <2>1, ChainIs DEF Carries, Typed
  <2>3. /\ lastRead["client"] <= lastRecved("client") /\ lastSent["server"] <= lastWrite("server")
        /\ lastRecved("client") \in Nat /\ lastSent["server"] \in Nat
        /\ lastWrite("server") \in Nat /\ pos \in 0 .. FileLen /\ FileLen \in Nat
    <3>1. lastRead["client"] <= lastRecved("client")
      BY <1>1, ReadOrder
    <3>2. lastSent["server"] <= lastWrite("server")
      BY ActiveIs
    <3>3. /\ lastRecved("client") \in Nat /\ lastSent["server"] \in Nat
          /\ lastWrite("server") \in Nat
      BY <1>1, Lengths
    <3>4. pos \in 0 .. FileLen
      BY <1>1, Zenon DEF Typed
    <3>5. FileLen \in Nat
      BY SessionParams
    <3> QED
      BY <3>1, <3>2, <3>3, <3>4, <3>5
  <2>4. pos = FileLen /\ lastSent["server"] = lastWrite("server")
    BY <1>2, <2>1, <2>2, <2>3
  <2> QED
    BY <2>1, <2>4, ContentIs
<1>4. ASSUME Replying(f) \/ Closing(f) PROVE lastRecved("server") >= 12
  <2>1. lastAcked["client"] = 12 /\ lastAcked["client"] <= lastRecved("server")
    BY <1>4 DEF Replying, Closing, Acks, Written
  <2>2. lastRecved("server") \in Nat
    BY <1>1, Lengths
  <2> QED
    BY <2>1, <2>2
<1> QED
  BY <1>3, <1>4

\* It leaves no data under way.
LEMMA NoneLeft ==
  ASSUME TypeInv, Active, InTurn, Written, cpc = "done"
  PROVE  \A i \in 1 .. Len(Pipe) : Pipe[i].data = << >>
<1>1. /\ Typed /\ "client" \in Host /\ lastSent["client"] <= lastWrite("client")
      /\ lastSent["client"] \in Nat /\ lastWrite("client") \in Nat /\ Pipe \in Seq(Seg)
      /\ Len(out) \in Nat
  <2>1. Typed /\ "client" \in Host /\ lastSent["client"] <= lastWrite("client")
    BY ActiveIs
  <2>2. out \in Seq(Byte)
    BY <2>1 DEF Typed
  <2> QED
    BY <2>1, <2>2, Lengths, PipeIs, LenProperties
<1>2. lastAcked["client"] = 12 /\ lastSent["client"] <= 12
  BY <1>1 DEF Written
<1> TAKE i \in 1 .. Len(Pipe)
<1>3. /\ Pipe[i].seqNum \in Nat /\ Len(Pipe[i].data) \in Nat
      /\ Pipe[i].data # << >> => Len(Pipe[i].data) > 0
  BY <1>1, SegsAre
<1>4. Pipe[i].data # << >> =>
        /\ lastAcked["client"] <= Pipe[i].seqNum
        /\ Pipe[i].seqNum + Len(Pipe[i].data) <= lastSent["client"]
  BY DEF InTurn, Turns
<1> QED
  BY <1>1, <1>2, <1>3, <1>4

LEMMA TurnStarts ==
  ASSUME TypeInv, Start, Turn, cur = 0 => Silent,
         \A c \in Clients : c > cur => saved[c] = << >>
  PROVE  Turn'
<1>1. /\ cur' = cur + 1 /\ cpc' = "status" /\ left' = -1 /\ want' = want /\ saved' = saved
      /\ lastSent' = [lastSent EXCEPT !["client"] = 0]
      /\ lastAcked' = [lastAcked EXCEPT !["client"] = 0]
      /\ lastRead' = [lastRead EXCEPT !["client"] = 0]
      /\ sendBuff' = [sendBuff EXCEPT !["client"] = << >>]
      /\ recvBuff' = [recvBuff EXCEPT !["client"] = << >>]
      /\ out' = Request(<< want[cur + 1] >>)
      /\ toClient' = << >> /\ cur < NC /\ cpc \in {"done", "failed"} /\ Running
      /\ UNCHANGED <<held, toServer, addr, spc, file, pos>>
  BY DEF Start, server
<1>2. /\ Typed /\ "client" \in Host /\ "server" \in Host /\ "client" # "server"
      /\ cur + 1 \in Clients /\ cur \in Nat
  <2>1. Typed
    BY DEF TypeInv
  <2>2. cur \in 0 .. NC /\ NC \in Nat
    BY <2>1, SessionParams DEF Typed
  <2> QED
    BY <1>1, <2>1, <2>2 DEF Host, Clients
<1>3. /\ lastSent'["client"] = 0 /\ lastAcked'["client"] = 0 /\ lastRead'["client"] = 0
      /\ sendBuff'["client"] = << >> /\ recvBuff'["client"] = << >>
      /\ lastSent'["server"] = lastSent["server"]
      /\ recvBuff'["server"] = recvBuff["server"] /\ sendBuff'["server"] = sendBuff["server"]
  BY <1>1, <1>2 DEF Typed
<1>4. Len(<< >>) = 0 /\ 1 .. 0 = {}
  BY EmptySeq
<1>5. lastRecved("server")' = lastRecved("server") /\ lastWrite("server")' = lastWrite("server")
  BY <1>3 DEF lastRecved, lastWrite
<1>6. /\ \A i \in 1 .. Len(Pipe) : Pipe[i].data = << >>
      /\ (Fresh \/ Behind)'
  <2>1. CASE cur = 0
    <3>1. Silent
      BY <2>1
    <3>2. \A i \in 1 .. Len(Pipe) : Pipe[i].data = << >>
      <4>1. Len(Pipe) = 0 + 0
        BY <1>2, <1>4, <3>1, PipeIs DEF Silent, None
      <4>2. 1 .. Len(Pipe) = {}
        BY <1>4, <4>1
      <4> QED
        BY <4>2
    <3>3. Fresh'
      BY <1>1, <1>3, <3>1 DEF Silent, Fresh
    <3> QED
      BY <3>2, <3>3
  <2>2. CASE cur # 0
    <3>1. Active
      BY <1>1, <1>2, <2>2 DEF Active
    <3>2. InTurn /\ Written /\ (Before \/ \E f \in Existing : During(f))
      BY <3>1 DEF Turn
    <3>3. ~ Before
      BY <1>1 DEF Before, Waits
    <3>4. PICK f \in Existing : During(f)
      BY <3>2, <3>3
    <3>5. cpc = "done"
      BY <1>1, <3>4 DEF During, Reads
    <3>6. \A i \in 1 .. Len(Pipe) : Pipe[i].data = << >>
      BY <3>1, <3>2, <3>5, NoneLeft
    <3>7. /\ Replying(f) =>
               pos = FileLen /\ Len(file) = FileLen /\ lastSent["server"] = lastWrite("server")
          /\ Replying(f) \/ Closing(f) => lastRecved("server") >= 12
      BY <3>1, <3>2, <3>4, <3>5, DoneIs
    <3>8. /\ toClient' = << >> /\ spc' = spc /\ file' = file /\ pos' = pos
          /\ lastAcked'["client"] = 0 /\ recvBuff'["server"] = recvBuff["server"]
          /\ lastSent'["server"] = lastSent["server"]
      BY <1>1, <1>3
    <3>9. ASSUME Replying(f) \/ Closing(f) PROVE Behind'
      <4>1. lastRecved("server")' >= 12
        BY <1>5, <3>7, <3>9
      <4>2. CASE Replying(f)
        <5>1. spc \in {"body", "blank", "drain", "lastSent"}
          BY <4>2 DEF Replying
        <5>2. pos' = FileLen /\ Len(file') = FileLen /\ lastSent'["server"] = lastWrite("server")'
          BY <1>5, <3>7, <3>8, <4>2
        <5> QED
          BY <3>8, <4>1, <5>1, <5>2 DEF Behind
      <4>3. CASE Closing(f)
        <5>1. spc \in {"lastAcked", "lastWrite", "lastRead", "lastRecved"}
          BY <4>3 DEF Closing
        <5> QED
          BY <3>8, <4>1, <5>1 DEF Behind
      <4> QED
        BY <3>9, <4>2, <4>3
    <3>10. CASE Closed(f)
      <4>1. spc \in {"sockFd", "addr", "waitTime", "poll"} /\ recvBuff["server"] = << >>
        BY <3>10 DEF Closed
      <4> QED
        BY <3>6, <3>8, <4>1 DEF Fresh
    <3> QED
      BY <3>4, <3>6, <3>9, <3>10 DEF During
  <2> QED
    BY <2>1, <2>2
<1>7. /\ Len(held) \in Nat /\ Len(toServer) \in Nat /\ Len(Pipe) = Len(held) + Len(toServer)
      /\ \A i \in 1 .. Len(held) + Len(toServer) :
           Pipe[i] = IF i <= Len(held) THEN held[i].seg ELSE toServer[i - Len(held)].seg
  BY <1>2, PipeIs
<1>8. Earlier'
  <2>1. \A i \in 1 .. Len(toServer) : toServer[i].from # cur' /\ toServer[i].seg.data = << >>
    <3> TAKE i \in 1 .. Len(toServer)
    <3>1. toServer[i].from \in 0 .. cur
      <4> DEFINE T == [from : 0 .. cur, seg : Seg]
      <4>1. toServer \in Seq(T)
        BY <1>2 DEF Typed
      <4> HIDE DEF T
      <4>2. toServer[i] \in T
        BY <4>1, ElementOfSeq
      <4> QED
        BY <4>2 DEF T
    <3>2. Len(held) + i \in 1 .. Len(held) + Len(toServer) /\ ~ (Len(held) + i <= Len(held))
          /\ (Len(held) + i) - Len(held) = i
      BY <1>7
    <3>3. Pipe[Len(held) + i] = toServer[i].seg
      BY <1>7, <3>2
    <3>4. toServer[i].seg.data = << >>
      BY <1>6, <1>7, <3>2, <3>3
    <3> QED
      BY <1>1, <1>2, <3>1, <3>4
  <2>2. held # None => held[1].seg.data = << >>
    <3> SUFFICES ASSUME held # None PROVE held[1].seg.data = << >>
      OBVIOUS
    <3>1. Len(held) = 1
      BY <1>2, HeldIs
    <3>2. 1 \in 1 .. Len(held) + Len(toServer) /\ 1 <= Len(held)
      BY <1>7, <3>1
    <3>3. Pipe[1] = held[1].seg
      BY <1>7, <3>2
    <3> QED
      BY <1>6, <1>7, <3>2, <3>3
  <2>3. addr' # cur'
    <3>1. addr \in 0 .. cur
      BY <1>2, Zenon DEF Typed
    <3> QED
      BY <1>1, <1>2, <3>1
  <2> QED
    BY <1>1, <2>1, <2>2, <2>3 DEF Earlier
<1>9. InTurn'
  <2>1. Pipe' = Pipe
    BY <1>1 DEF Pipe
  <2>2. Turns(Pipe, << >>, 0, 0)
    BY <1>4, <1>6 DEF Turns
  <2> QED
    BY <1>1, <1>3, <2>1, <2>2 DEF InTurn, Turns
<1>10. Written'
  <2> DEFINE g == want[cur + 1]
  <2>1. g \in Names /\ g \in Byte
    <3>1. g \in Names
      BY <1>2 DEF Typed
    <3> QED
      BY <3>1, SessionParams
  <2> HIDE DEF g
  <2>2. Request(<< g >>) = Req(g) /\ Len(Req(g)) = 12
    BY <2>1, RequestIs, ReqIs
  <2>3. out' = Req(g)
    BY <1>1, <2>2 DEF g
  <2>4. lastWrite("client")' + Len(out)' = 12
    <3>1. lastWrite("client")' = 0
      BY <1>3, <1>4 DEF lastWrite
    <3>2. Len(out') = 12
      BY <2>2, <2>3
    <3>3. lastWrite("client")' + Len(out') = 12
      BY <3>1, <3>2
    <3> QED
      BY <3>3
  <2> QED
    BY <1>1, <2>4 DEF Written
<1>11. Waits'
  <2>1. saved[cur + 1] = << >>
    <3>1. cur + 1 > cur
      BY <1>2
    <3> QED
      BY <1>2, <3>1
  <2> QED
    BY <1>1, <1>3, <2>1 DEF Waits
<1> QED
  BY <1>6, <1>8, <1>9, <1>10, <1>11 DEF Turn, Before

-----------------------------------------------------------------------------
(* Every client: the invariant                                             *)

TurnInv == SessionInv /\ Turn

LEMMA TurnInit == Init => TurnInv
<1> SUFFICES ASSUME Init PROVE TurnInv
  OBVIOUS
<1>1. SessionInv
  BY SessionInit
<1>2. ~ Active /\ spc = "poll"
  BY DEF Init, Active
<1> QED
  BY <1>1, <1>2 DEF TurnInv, Turn

LEMMA TurnStutters ==
  ASSUME Turn, UNCHANGED vars
  PROVE  Turn'
<1>1. /\ UNCHANGED <<lastSent, lastAcked, lastRead, sendBuff, recvBuff, out, held, toServer>>
      /\ UNCHANGED <<toClient, addr, spc, file, pos, cur, cpc, left, want, saved, ready>>
      /\ UNCHANGED <<late, torn>>
  BY DEF vars, endpoints, net, server, client
<1>2. Active' = Active /\ (Earlier => Earlier') /\ (Written => Written') /\ (Waits => Waits')
  BY <1>1 DEF Active, Running, Earlier, Written, Waits, lastWrite
<1>3. InTurn => InTurn'
  <2>1. Pipe' = Pipe
    BY <1>1 DEF Pipe
  <2> QED
    BY <1>1, <2>1 DEF InTurn
<1>4. /\ Fresh \/ Behind \/ Heard => (Fresh \/ Behind \/ Heard)'
      /\ \A f \in Existing :
           Replying(f) \/ Closing(f) \/ Closed(f) => (Replying(f) \/ Closing(f) \/ Closed(f))'
  BY <1>1, TurnSame
<1>5. Before => Before'
  BY <1>2, <1>4 DEF Before
<1>6. ASSUME NEW f \in Existing, During(f) PROVE During(f)'
  <2>1. Gets(f)' /\ Reads(f)'
    BY <1>1, <1>6 DEF During, Gets, Reads, lastRecved
  <2> QED
    BY <1>4, <1>6, <2>1 DEF During
<1> QED
  BY <1>2, <1>3, <1>5, <1>6 DEF Turn

LEMMA TurnInvNext == TurnInv /\ [Next]_vars => TurnInv'
<1> SUFFICES ASSUME TurnInv, [Next]_vars PROVE TurnInv'
  OBVIOUS
<1>1. /\ SessionInv /\ SessionInv' /\ TypeInv /\ TypeInv' /\ Turn
      /\ cur = 0 => Silent
      /\ \A c \in Clients : c > cur => saved[c] = << >>
  BY SessionInvNext, TypeInvNext DEF TurnInv, SessionInv
<1>2. CASE UNCHANGED vars
  BY <1>1, <1>2, TurnStutters DEF TurnInv
<1>3. CASE Step /\ Start
  BY <1>1, <1>3, TurnStarts DEF TurnInv
<1>4. CASE Step /\ ~ Start
  <2>1. Active /\ cur' = cur
    <3>1. Running /\ cur # 0
      BY <1>1, <1>4, NextRuns, SilentNext
    <3>2. cur \in Nat
      BY <1>1, SessionParams DEF TypeInv, Typed
    <3> QED
      BY <1>4, <3>1, <3>2, SameClient DEF Active
  <2>2. CASE Running'
    <3>1. Turn'
      BY <1>1, <1>4, <2>1, <2>2, TurnNext
    <3> QED
      BY <1>1, <3>1 DEF TurnInv
  <2>3. CASE ~ Running'
    BY <1>1, <2>3 DEF TurnInv, Turn, Active
  <2> QED
    BY <2>2, <2>3
<1>5. CASE Tears
  <2>1. ~ Running'
    BY <1>1, <1>5, TearsStops
  <2> QED
    BY <1>1, <2>1 DEF TurnInv, Turn, Active
<1> QED
  BY <1>2, <1>3, <1>4, <1>5, NextIs

-----------------------------------------------------------------------------
(* Every client: the file it saves                                         *)

\* A prefix, compared byte by byte.
LEMMA BeginsIs ==
  ASSUME NEW t \in Seq(Byte), NEW s \in Seq(Byte), Len(s) <= Len(t), s = SubSeq(t, 1, Len(s))
  PROVE  IsPrefix(s, t)
<1>1. Len(s) \in 0 .. Len(s) /\ Len(s) \in Nat
  OBVIOUS
<1> DEFINE r == SubSeq(s, 1, Len(s))
<1>2. r \in Seq(Byte) /\ Len(r) = Len(s) /\ \A i \in 1 .. Len(s) : r[i] = s[i]
  BY <1>1, PrefixIs
<1> HIDE DEF r
<1>3. r = s
  BY <1>2, SeqEqual
<1> QED
  BY <1>3 DEF IsPrefix, r

LEMMA NoneBegins == ASSUME NEW f \in Names PROVE IsPrefix(<< >>, Content[f])
<1>1. Content[f] \in Seq(Byte)
  <2>1. CASE f \in Existing
    BY <2>1, ContentIs
  <2>2. CASE f \notin Existing
    BY <2>2 DEF Content
  <2> QED
    BY <2>1, <2>2
<1>2. << >> \in Seq(Byte) /\ Len(<< >>) = 0 /\ 0 <= Len(Content[f]) /\ 0 \in 0 .. Len(Content[f])
  BY <1>1, LenProperties
<1> DEFINE t == SubSeq(Content[f], 1, 0)
<1>3. t \in Seq(Byte) /\ Len(t) = 0
  BY <1>1, <1>2, PrefixIs
<1> HIDE DEF t
<1>4. << >> = t
  BY <1>3, EmptyIs
<1> QED
  BY <1>1, <1>2, <1>4, BeginsIs DEF t

\* The client's main function has no more of the response than there is.
LEMMA ReadLen ==
  ASSUME TypeInv, Active, NEW f \in Existing, Gets(f),
         lastRead["client"] = 11 + Len(saved[cur])
  PROVE  Len(saved[cur]) <= FileLen
<1>1. /\ saved[cur] \in Seq(Byte) /\ FileLen \in Nat /\ "client" \in Host
      /\ lastRecved("client") <= 11 + FileLen /\ lastRecved("client") \in Nat
  <2>1. Typed /\ cur \in Clients /\ "client" \in Host
    BY ActiveIs
  <2>2. saved \in [Clients -> Seq(Byte)]
    BY <2>1, Zenon DEF Typed
  <2>3. FileLen \in Nat /\ lastRecved("client") \in 0 .. 11 + FileLen
    BY SessionParams DEF Gets
  <2> QED
    BY <2>1, <2>2, <2>3
<1>2. lastRead["client"] <= lastRecved("client")
  BY <1>1, ReadOrder
<1>3. Len(saved[cur]) \in Nat
  BY <1>1
<1> QED
  BY <1>1, <1>2, <1>3

\* Of the client that is there.
LEMMA CurFile ==
  ASSUME TypeInv, Active, Turn
  PROVE  \E f \in Names :
           /\ IsPrefix(saved[cur], Content[f])
           /\ cpc \in {"done", "failed"} => f \in Existing /\ saved[cur] = Content[f]
<1>1. /\ Typed /\ cur \in Clients /\ want[cur] \in Names /\ saved[cur] \in Seq(Byte)
      /\ Before \/ \E f \in Existing : During(f)
  BY ActiveIs DEF Turn, Typed, Asked
<1>2. CASE Before
  <2>1. saved[cur] = << >> /\ cpc = "status"
    BY <1>2 DEF Before, Waits
  <2> QED
    BY <1>1, <2>1, NoneBegins
<1>3. ASSUME NEW f \in Existing, During(f)
      PROVE  /\ IsPrefix(saved[cur], Content[f])
             /\ cpc \in {"done", "failed"} => saved[cur] = Content[f]
  <2>1. Gets(f) /\ Reads(f) /\ f \in Names
    BY <1>3, SessionParams DEF During
  <2>2. CASE saved[cur] = << >> /\ cpc \in {"status", "header"}
    BY <2>1, <2>2, NoneBegins
  <2>3. CASE /\ cpc \in {"body", "done"}
             /\ lastRead["client"] = 11 + Len(saved[cur]) /\ left = FileLen - Len(saved[cur])
             /\ cpc = "done" => left = 0
             /\ Part(saved[cur], Resp(f), 11)
    <3> DEFINE s == saved[cur]
    <3>1. Len(s) <= FileLen
      BY <2>1, <2>3, ReadLen
    <3>2. s = SubSeq(Content[f], 1, Len(s)) /\ Content[f] \in Seq(Byte) /\ Len(Content[f]) = FileLen
      BY <1>1, <2>3, <3>1, SavedIs, ContentIs
    <3>3. IsPrefix(s, Content[f])
      BY <1>1, <3>1, <3>2, BeginsIs
    <3>4. ASSUME cpc = "done" PROVE s = Content[f]
      <4>1. left = 0 /\ left = FileLen - Len(s) /\ Len(s) \in Nat /\ FileLen \in Nat
        BY <1>1, <2>3, <3>4, SessionParams
      <4> DEFINE n == Len(s)
                 t == SubSeq(Content[f], 1, n)
      <4>2. n = FileLen /\ n \in 0 .. Len(Content[f])
        BY <3>2, <4>1
      <4>3. t \in Seq(Byte) /\ Len(t) = n /\ \A i \in 1 .. n : t[i] = Content[f][i]
        BY <3>2, <4>2, PrefixIs
      <4> HIDE DEF t
      <4>4. t = Content[f]
        BY <3>2, <4>2, <4>3, SeqEqual
      <4> QED
        BY <3>2, <4>4 DEF t
    <3> QED
      BY <2>3, <3>3, <3>4
  <2> QED
    BY <2>1, <2>2, <2>3 DEF Reads
<1> QED
  BY <1>1, <1>2, <1>3, SessionParams

\* Those before it have each saved a file, to the end.
Saved == \A c \in Clients : c < cur => \E f \in Existing : saved[c] = Content[f]

FileInv ==
  /\ TurnInv /\ Saved
  /\ ~ Active => OneFile

LEMMA FileInvGives == FileInv => OneFile
<1> SUFFICES ASSUME TypeInv, Active, Turn, Saved PROVE OneFile
  BY DEF FileInv, TurnInv, SessionInv
<1>1. cur \in Nat /\ cur \in 0 .. NC /\ NC \in Nat
  BY SessionParams DEF TypeInv, Typed
<1> SUFFICES ASSUME NEW c \in 1 .. cur
             PROVE  \E f \in Names :
                      /\ IsPrefix(saved[c], Content[f])
                      /\ c < cur \/ cpc \in {"done", "failed"} =>
                           f \in Existing /\ saved[c] = Content[f]
  BY DEF OneFile
<1>2. CASE c < cur
  <2>1. c \in Clients
    BY <1>1 DEF Clients
  <2>2. PICK f \in Existing : saved[c] = Content[f]
    BY <1>2, <2>1 DEF Saved
  <2>3. IsPrefix(saved[c], Content[f])
    <3>1. Content[f] \in Seq(Byte)
      BY ContentIs
    <3> QED
      BY <2>2, <3>1, LenProperties DEF IsPrefix
  <2> QED
    BY <2>2, <2>3, SessionParams
<1>3. CASE c = cur
  <2>1. ~ (c < cur)
    BY <1>1, <1>3
  <2> QED
    BY <1>3, <2>1, CurFile
<1> QED
  BY <1>1, <1>2, <1>3

\* A client that starts leaves those before it what they have.
LEMMA SavedStarts ==
  ASSUME TypeInv, Turn, Saved, Start
  PROVE  Saved'
<1>1. /\ Running /\ cpc \in {"done", "failed"} /\ cur' = cur + 1 /\ saved' = saved
      /\ cur \in Nat
  BY SessionParams DEF Start, TypeInv, Typed
<1> SUFFICES ASSUME NEW c \in Clients, c < cur' PROVE \E f \in Existing : saved'[c] = Content[f]
  BY DEF Saved
<1>2. c \in Nat /\ c > 0
  BY SessionParams DEF Clients
<1>3. CASE c < cur
  BY <1>1, <1>3 DEF Saved
<1>4. CASE c = cur
  <2>1. Active
    BY <1>1, <1>2, <1>4 DEF Active
  <2> QED
    BY <1>1, <1>4, <2>1, CurFile
<1> QED
  BY <1>1, <1>2, <1>3, <1>4

LEMMA SavedNext ==
  ASSUME TypeInv, Saved, Step, ~ Start
  PROVE  Saved'
<1>1. cur' = cur /\ cur \in Nat /\ saved \in [Clients -> Seq(Byte)]
  BY SameClient, SessionParams DEF TypeInv, Typed
<1>2. \A c \in Clients : c < cur => saved'[c] = saved[c]
  <2>1. CASE ClientBody
    <3>1. PICK s : saved' = [saved EXCEPT ![cur] = s]
      BY <2>1 DEF ClientBody
    <3>2. \A c \in Clients : c < cur => c # cur
      BY <1>1, SessionParams DEF Clients
    <3> QED
      BY <1>1, <3>1, <3>2
  <2>2. CASE ClientStatus \/ ClientHeader
    BY <2>2 DEF ClientStatus, ClientHeader
  <2>3. CASE ~ (ClientBody \/ ClientStatus \/ ClientHeader)
    BY <2>3, SameReading
  <2> QED
    BY <2>1, <2>2, <2>3
<1> QED
  BY <1>1, <1>2 DEF Saved

\* The step after which the program no longer runs is not the client's.
LEMMA OneFileStops ==
  ASSUME TypeInv, OneFile, Step, ~ Start, Running, ~ Running'
  PROVE  OneFile'
<1>1. ~ (ClientStatus \/ ClientHeader \/ ClientBody \/ ClientExit)
  <2>1. ~ (spc' = spc /\ torn' = torn)
    BY DEF Running
  <2>2. ClientStatus => spc' = spc /\ torn' = torn
    BY DEF ClientStatus, server
  <2>3. ClientHeader => spc' = spc /\ torn' = torn
    BY DEF ClientHeader, server
  <2>4. ClientBody => spc' = spc /\ torn' = torn
    BY DEF ClientBody, server
  <2>5. ClientExit => spc' = spc /\ torn' = torn
    BY DEF ClientExit, server
  <2> QED
    BY <2>1, <2>2, <2>3, <2>4, <2>5
<1>2. cur' = cur /\ saved' = saved /\ cpc' = cpc
  BY <1>1, SameClient, SameReading
<1> QED
  BY <1>2 DEF OneFile

LEMMA FileInvInit == Init => FileInv
<1> SUFFICES ASSUME Init PROVE FileInv
  OBVIOUS
<1>1. TurnInv /\ cur = 0
  BY TurnInit DEF Init
<1>2. Saved
  <2>1. \A c \in Clients : ~ (c < 0)
    BY SessionParams DEF Clients
  <2> QED
    BY <1>1, <2>1 DEF Saved
<1>3. OneFile
  BY <1>1 DEF OneFile
<1> QED
  BY <1>1, <1>2, <1>3 DEF FileInv

LEMMA FileInvNext == FileInv /\ [Next]_vars => FileInv'
<1> SUFFICES ASSUME FileInv, [Next]_vars PROVE FileInv'
  OBVIOUS
<1>1. /\ TurnInv' /\ SessionInv /\ TypeInv /\ Turn /\ Saved /\ OneFile
      /\ cur = 0 => Silent
      /\ cur \in Nat
  <2>1. TurnInv /\ Saved /\ OneFile
    BY FileInvGives DEF FileInv
  <2>2. TurnInv'
    BY <2>1, TurnInvNext
  <2>3. SessionInv /\ Turn /\ TypeInv /\ (cur = 0 => Silent)
    BY <2>1 DEF TurnInv, SessionInv
  <2>4. cur \in Nat
    BY <2>3, SessionParams DEF TypeInv, Typed
  <2> QED
    BY <2>1, <2>2, <2>3, <2>4
<1>2. CASE UNCHANGED vars
  BY <1>1, <1>2 DEF FileInv, Saved, OneFile, vars, client
<1>3. CASE Step /\ Start
  <2>1. Saved'
    BY <1>1, <1>3, SavedStarts
  <2>2. Active'
    <3>1. Running /\ spc' = spc /\ torn' = torn /\ cur' = cur + 1
      BY <1>3 DEF Start, server
    <3> QED
      BY <1>1, <3>1 DEF Active, Running
  <2> QED
    BY <1>1, <2>1, <2>2 DEF FileInv
<1>4. CASE Step /\ ~ Start
  <2>1. Saved'
    BY <1>1, <1>4, SavedNext
  <2>2. CASE Running'
    <3>1. Active'
      <4>1. cur # 0 /\ cur' = cur
        BY <1>1, <1>4, SilentNext, SameClient
      <4> QED
        BY <1>1, <2>2, <4>1 DEF Active
    <3> QED
      BY <1>1, <2>1, <3>1 DEF FileInv
  <2>3. CASE ~ Running'
    <3>1. OneFile'
      BY <1>1, <1>4, <2>3, NextRuns, OneFileStops
    <3> QED
      BY <1>1, <2>1, <3>1 DEF FileInv
  <2> QED
    BY <2>2, <2>3
<1>5. CASE Tears
  <2>1. cur' = cur /\ saved' = saved /\ cpc' = cpc /\ ~ Running'
    BY <1>1, <1>5, TearsStops DEF client
  <2>2. Saved' /\ OneFile'
    BY <1>1, <2>1 DEF Saved, OneFile
  <2> QED
    BY <1>1, <2>2 DEF FileInv
<1> QED
  BY <1>2, <1>3, <1>4, <1>5, NextIs

(***************************************************************************)
(* Whenever a client starts after the one before it, what it has saved is  *)
(* the beginning of one file, and all of that file when it has exited: no  *)
(* part of a header or of another response, though the server's Resf is    *)
(* that of the client before it.  Until threads meet half way (Tears,      *)
(* Straddles).                                                             *)
(***************************************************************************)
THEOREM OneFileCorrect == Spec => []OneFile
BY FileInvInit, FileInvNext, FileInvGives, PTL DEF Spec
=============================================================================
