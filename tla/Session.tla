------------------------------ MODULE Session ------------------------------
(***************************************************************************)
(* http_server and http_client (their main functions) over Resf: clients,  *)
(* one after the other, each ask the server for one file.  The server      *)
(* keeps one Resf for all of them and resets it with initResf after each   *)
(* response, while its two threads run.                                    *)
(*                                                                         *)
(* Each endpoint has a main thread, a send thread (Send) and a receive     *)
(* thread (Receive).  A step of a thread is one datagram, one call of the  *)
(* main thread, or one store of initResf: what happens within them is in   *)
(* SendBuffer and RecvBuffer.  An exchange is shorter than the rings and   *)
(* the windows, so that the indices are plain lengths and the windows are  *)
(* left out.                                                               *)
(*                                                                         *)
(* What is bounded away: a client starts when the one before has exited;   *)
(* UDP loses and reorders nothing; timers do not expire while anything is  *)
(* under way (their start, never set, would let them: see Timers and the   *)
(* run TransferPhantom), so that the only retransmission is that of a      *)
(* request which the server has dropped.                                   *)
(*                                                                         *)
(* Where the threads meet each other half way, in the reset or because an  *)
(* acknowledgment overtakes the store of lastSent (see the run             *)
(* TransferFastAck), they may do anything the code allows: `torn' marks    *)
(* the first such step, and nothing is said of what comes after it.        *)
(***************************************************************************)
EXTENDS Segment, Http, SequencesExt

CONSTANTS NC,         \* model bound: number of clients
          Names,      \* names of files, one character each; no two users ask
                      \* for the same file (model bound)
          Existing,   \* those of the files the server has
          FileLen,    \* model bound: length of each of them
          BufLen,     \* sizeof buffer - 1, 1439
          MSS,        \* MAX_SEG_SIZE, 1440
          Pauses,     \* model bound: where sendToResf of a request may be
                      \* interrupted, once.  (The reader of a response never acts
                      \* on a part of what it waits for.)
          Junk        \* what unwritten slots of sendBuff may hold

ASSUME SessionParams ==
  /\ NC \in Nat /\ Names \subseteq Byte \ {NUL, SP, LF, CR}
  /\ Existing \subseteq Names
  /\ FileLen \in 1 .. 9 /\ BufLen \in Nat \ {0}
  /\ \A f \in Existing : f + FileLen \in Byte
  /\ MSS \in Nat \ {0}
  /\ Pauses \subseteq Nat /\ Junk \subseteq Byte

Clients == 1 .. NC
Host == {"server", "client"}

\* The bytes of the files tell the files apart and are not zero.
Content == [f \in Names |->
             IF f \in Existing THEN [i \in 1 .. FileLen |-> f + i] ELSE << >>]

VARIABLES
  lastSent, lastAcked, lastRead,  \* of each endpoint, the fields of these names
  sendBuff, recvBuff,             \* the bytes up to lastWrite and lastRecved
  out,                            \* what the client's sendToResf has still to copy
  held,                           \* server's R: the segment in hand, its ack tested
  toServer, toClient,             \* the two sockets' queues of datagrams
  addr,                           \* the server's Resf.addr: a client
  spc, file, pos,                 \* server: control, file served, bytes read of it
  cur, cpc, left,                 \* the present client: control and left
  want, saved,                    \* of every client: argv[4] and its output file
  ready,                          \* history: the server was at rest at its start
  late, torn                      \* history: a client silent for 1 s had its line
                                  \* cut short; threads met half way (Tears,
                                  \* Straddles, Send), where the model stops

endpoints == <<lastSent, lastAcked, lastRead, sendBuff, recvBuff>>
net       == <<toServer, toClient>>
server    == <<spc, file, pos>>
client    == <<cur, cpc, left, want, saved, ready>>
vars      == <<endpoints, out, held, net, addr, server, client, late, torn>>

None == << >>

Init ==
  /\ lastSent = [h \in Host |-> 0] /\ lastAcked = [h \in Host |-> 0]
  /\ lastRead = [h \in Host |-> 0]
  /\ sendBuff = [h \in Host |-> << >>] /\ recvBuff = [h \in Host |-> << >>]
  /\ out = << >> /\ held = None
  /\ toServer = << >> /\ toClient = << >> /\ addr = 0
  /\ spc = "poll" /\ file = << >> /\ pos = 0
  /\ cur = 0 /\ cpc = "done" /\ left = -1
  /\ want \in Injection(Clients, Names) /\ saved = [c \in Clients |-> << >>]
  /\ ready = [c \in Clients |-> FALSE]
  /\ late = FALSE /\ torn = FALSE

lastWrite(h)  == Len(sendBuff[h])
lastRecved(h) == Len(recvBuff[h])
Unread(h)     == SubSeq(recvBuff[h], lastRead[h] + 1, lastRecved(h))

Running == spc # "gone" /\ ~torn

-----------------------------------------------------------------------------
(* sendToResf and the two threads of an endpoint                           *)

\* sendToResf.  Of a request, the send thread may see a part before the rest:
\* the server acts on a part of a line after 1 s.  Of a response it may as
\* well, but the client goes on waiting, whatever the parts.
Write(bytes) == sendBuff' = [sendBuff EXCEPT !["server"] = @ \o bytes]

ClientWrite ==
  /\ Running
  /\ \E n \in 1 .. Len(out) :
       /\ n = Len(out) \/ (lastWrite("client") = 0 /\ n \in Pauses)
       /\ sendBuff' = [sendBuff EXCEPT !["client"] = @ \o SubSeq(out, 1, n)]
       /\ out' = SubSeq(out, n + 1, Len(out))
  /\ UNCHANGED <<lastSent, lastAcked, lastRead, recvBuff, held, net, addr, server,
                 client, late, torn>>

\* What packSegment and unpackSegment make of a segment (see SegmentProofs).
Received(seg) == [seg EXCEPT !.data = Copied(@)]

\* The queues after sendToSock.  What is sent to a client that has exited is
\* lost.
ToServer(seg) == Append(toServer, [from |-> cur, seg |-> Received(seg)])
ToClient(seg) == IF addr = cur THEN Append(toClient, Received(seg)) ELSE toClient

\* The length of the next segment of new data, and the segment.
NextLen(h) == Min({MSS, lastWrite(h) - lastSent[h]})

NewData(h, ackNum, flags) ==
  [seqNum |-> lastSent[h], ackNum |-> ackNum, flags |-> flags,
   data |-> SubSeq(sendBuff[h], lastSent[h] + 1, lastSent[h] + NextLen(h))]

\* lastSent has been reset, and lastWrite not yet.
HalfReset == spc \in {"lastAcked", "lastWrite"}

\* S: prepareAndSend
Send(h) ==
  LET seg == NewData(h, 0, 0) IN
  /\ Running /\ NextLen(h) > 0
  /\ toServer' = IF h = "client" THEN ToServer(seg) ELSE toServer
  /\ toClient' = IF h = "server" THEN ToClient(seg) ELSE toClient
  /\ lastSent' = [lastSent EXCEPT ![h] = @ + NextLen(h)]
  /\ torn' = (h = "server" /\ HalfReset)
  /\ UNCHANGED <<lastAcked, lastRead, sendBuff, recvBuff, out, held, addr, server,
                 client, late>>

\* startRecv: is this acknowledgment new?
FreshAck(h, seg) ==
  /\ seg.flags = 1 /\ seg.ackNum # lastAcked[h]
  /\ IF lastSent[h] >= lastAcked[h]
       THEN seg.ackNum > lastAcked[h] /\ seg.ackNum <= lastSent[h]
       ELSE seg.ackNum > lastAcked[h] \/ seg.ackNum <= lastSent[h]

InOrder(h, seg) == seg.data # << >> /\ seg.seqNum = lastRecved(h)

\* R: the acknowledgment, then the data.
Receive(h, seg, fresh) ==
  /\ lastAcked' = IF fresh THEN [lastAcked EXCEPT ![h] = seg.ackNum] ELSE lastAcked
  /\ IF InOrder(h, seg)
       THEN /\ recvBuff' = [recvBuff EXCEPT ![h] = @ \o seg.data]
            /\ lastSent' = [lastSent EXCEPT ![h] = @ + NextLen(h)]
       ELSE UNCHANGED <<recvBuff, lastSent>>

\* R: the answer to data in order: sendDataWithAck or a bare acknowledgment.
Answer(h, seg) ==
  LET ackNum == lastRecved(h) + Len(seg.data) IN
  IF NextLen(h) > 0
    THEN NewData(h, ackNum, 1)
    ELSE [seqNum |-> 0, ackNum |-> ackNum, flags |-> 1, data |-> << >>]

ClientReceives ==
  /\ Running /\ toClient # << >> /\ cpc \notin {"done", "failed"}
  /\ LET seg == Head(toClient) IN
     /\ Receive("client", seg, FreshAck("client", seg))
     /\ toServer' = IF InOrder("client", seg) THEN ToServer(Answer("client", seg))
                                              ELSE toServer
  /\ toClient' = Tail(toClient)
  /\ UNCHANGED <<lastRead, sendBuff, out, held, addr, server, client, late, torn>>

\* R of the server: recvFromSock also stores the sender.  While initResf has
\* set sockFd to -1 it fails (and see Tears).
ServerTakes ==
  /\ Running /\ toServer # << >> /\ held = None /\ spc # "addr"
  /\ LET seg == Head(toServer).seg IN
     held' = <<[seg |-> seg, fresh |-> FreshAck("server", seg)]>>
  /\ addr' = Head(toServer).from
  /\ toServer' = Tail(toServer)
  /\ UNCHANGED <<endpoints, out, toClient, server, client, late, torn>>

\* What R did before the stores of initResf does not fit what it does after
\* them: the acknowledgment tested is beyond lastSent by now, sendDataWithAck
\* sees half a reset, sendToSock has no address.
Straddles(seg, fresh) ==
  \/ fresh /\ seg.ackNum > lastSent["server"] /\ spc # "lastAcked"
  \/ InOrder("server", seg) /\ (HalfReset \/ spc = "addr")

ServerReceives ==
  /\ Running /\ held # None
  /\ LET seg   == held[1].seg
         fresh == held[1].fresh
     IN
     /\ Receive("server", seg, fresh)
     /\ toClient' = IF InOrder("server", seg) THEN ToClient(Answer("server", seg))
                                              ELSE toClient
     /\ torn' = Straddles(seg, fresh)
  /\ held' = None
  /\ UNCHANGED <<lastRead, sendBuff, out, toServer, addr, server, client, late>>

-----------------------------------------------------------------------------
(* recvFromResfBySep                                                       *)

LineEnds(h) == lastRead[h] + Find(LF, Unread(h), 1)
HasLine(h)  == LineEnds(h) <= lastRecved(h)
Line(h)     == SubSeq(recvBuff[h], lastRead[h] + 1, LineEnds(h))

\* A whole line is returned, and lastRead moves on over it.
TakeLine(h) ==
  /\ HasLine(h)
  /\ lastRead' = [lastRead EXCEPT ![h] = LineEnds(h)]

\* All that the client has to say has been received.
Arrived == lastRecved("server") >= lastWrite("client") + Len(out)

\* With isTimeout 0, what there is of a line is returned after 1 s, and
\* lastRead stays.
CutLine ==
  /\ ~HasLine("server")
  /\ late' = (late \/ ~Arrived)
  /\ UNCHANGED lastRead

-----------------------------------------------------------------------------
(* The server: main of http_server.c                                       *)

Parsed(line) == parseHttpRequestLine(SubSeq(line, 1, Len(line) - 2))

\* checkFileExist, of a path "./" and "/" and a name: not of a directory here.
Exists(path) == \E f \in Existing : path = <<Dot, Slash, Slash, f>>

\* A request line that cannot be parsed and a file that is not there both end
\* the server.  (A line shorter than two bytes, whose length wraps around in
\* the call, is counted among the former.)
Serve(line) ==
  IF Parsed(line).ok /\ Exists(Parsed(line).path)
    THEN /\ file' = Content[Last(Parsed(line).path)] /\ pos' = 0
         /\ Write(Response(Len(file')))
         /\ spc' = "body"
    ELSE /\ spc' = "gone"
         /\ UNCHANGED <<file, pos, sendBuff>>

ServerRequest ==
  /\ Running /\ spc = "poll" /\ TakeLine("server")
  /\ Serve(Line("server"))
  /\ UNCHANGED <<lastSent, lastAcked, recvBuff, out, held, net, addr, client,
                 late, torn>>

ServerCutRequest ==
  /\ Running /\ spc = "poll" /\ Unread("server") # << >> /\ CutLine
  /\ Serve(Unread("server"))
  /\ UNCHANGED <<lastSent, lastAcked, recvBuff, out, held, net, addr, client, torn>>

\* fread and sendToResf, until the file has been read.
ServerBody ==
  LET end == Min({pos + BufLen, Len(file)}) IN
  /\ Running /\ spc = "body"
  /\ IF pos < Len(file)
       THEN Write(SubSeq(file, pos + 1, end)) /\ pos' = end /\ UNCHANGED spc
       ELSE spc' = "blank" /\ UNCHANGED <<sendBuff, pos>>
  /\ UNCHANGED <<lastSent, lastAcked, lastRead, recvBuff, out, held, net, addr, file,
                 client, late, torn>>

\* The blank line that ends the request.
ServerBlank ==
  /\ Running /\ spc = "blank" /\ TakeLine("server")
  /\ spc' = "drain"
  /\ UNCHANGED <<lastSent, lastAcked, sendBuff, recvBuff, out, held, net, addr, file,
                 pos, client, late, torn>>

\* It does not come: an empty result ends the server.
ServerCutBlank ==
  /\ Running /\ spc = "blank" /\ CutLine
  /\ spc' = IF Unread("server") = << >> THEN "gone" ELSE "drain"
  /\ UNCHANGED <<lastSent, lastAcked, sendBuff, recvBuff, out, held, net, addr, file,
                 pos, client, torn>>

\* Mutated form of Drained: the reset does not wait for the send thread.
DrainedAlways == TRUE

Drained == lastSent["server"] = lastWrite("server")

ServerDrain ==
  /\ Running /\ spc = "drain" /\ Drained
  /\ spc' = "lastSent"
  /\ UNCHANGED <<endpoints, out, held, net, addr, file, pos, client, late, torn>>

\* Mutated form of ResetOrder: lastRecved is set before lastRead.
ResetOrderSwapped ==
  <<"lastSent", "lastAcked", "lastWrite", "lastRecved", "lastRead", "sockFd", "addr",
    "waitTime", "poll">>

\* initResf, store by store: spc is the field to be set next.  "sockFd" stands
\* for the stores of sockFd, addr and the two wait times; then main restores
\* sockFd and addr, and clears the wait times.
ResetOrder ==
  <<"lastSent", "lastAcked", "lastWrite", "lastRead", "lastRecved", "sockFd", "addr",
    "waitTime", "poll">>

Cleared(field, var, empty) ==
  IF spc = field THEN [var EXCEPT !["server"] = empty] ELSE var

InitResf ==
  /\ Running
  /\ \E i \in 1 .. Len(ResetOrder) - 1 : spc = ResetOrder[i] /\ spc' = ResetOrder[i + 1]
  /\ lastSent'  = Cleared("lastSent", lastSent, 0)
  /\ lastAcked' = Cleared("lastAcked", lastAcked, 0)
  /\ sendBuff'  = Cleared("lastWrite", sendBuff, << >>)
  /\ lastRead'  = Cleared("lastRead", lastRead, 0)
  /\ recvBuff'  = Cleared("lastRecved", recvBuff, << >>)
  /\ UNCHANGED <<out, held, net, addr, file, pos, client, late, torn>>

-----------------------------------------------------------------------------
(* The clients: main of http_client.c                                      *)

\* The next client process starts, with a Resf and a socket of its own, and
\* writes its request.
Start ==
  /\ Running /\ cpc \in {"done", "failed"} /\ cur < NC
  /\ cur' = cur + 1 /\ cpc' = "status" /\ left' = -1
  /\ lastSent'  = [lastSent EXCEPT !["client"] = 0]
  /\ lastAcked' = [lastAcked EXCEPT !["client"] = 0]
  /\ lastRead'  = [lastRead EXCEPT !["client"] = 0]
  /\ sendBuff'  = [sendBuff EXCEPT !["client"] = << >>]
  /\ recvBuff'  = [recvBuff EXCEPT !["client"] = << >>]
  /\ out' = Request(<< want[cur + 1] >>)
  /\ toClient' = << >>
  /\ ready' = [ready EXCEPT ![cur + 1] =
                 /\ spc = "poll" /\ Unread("server") = << >>
                 /\ toServer = << >> /\ held = None]
  /\ UNCHANGED <<held, toServer, addr, server, want, saved, late, torn>>

ClientStatus ==
  /\ Running /\ cpc = "status" /\ out = << >> /\ TakeLine("client")
  /\ cpc' = "header"
  /\ UNCHANGED <<lastSent, lastAcked, sendBuff, recvBuff, out, held, net, addr, server,
                 cur, left, want, saved, ready, late, torn>>

\* A header, or the blank line after the headers.
ClientHeader ==
  /\ Running /\ cpc = "header" /\ TakeLine("client")
  /\ LET header == parseHeader(Line("client")) IN
     IF Line("client")[1] = CR
       THEN /\ cpc' = IF left < 0 THEN "failed" ELSE "body"
            /\ UNCHANGED left
       ELSE /\ left' = IF header.name = << ContentLength >> THEN atoi(header.value) ELSE left
            /\ UNCHANGED cpc
  /\ UNCHANGED <<lastSent, lastAcked, sendBuff, recvBuff, out, held, net, addr, server,
                 cur, want, saved, ready, late, torn>>

\* recvFromResf fills the buffer, or gives up after 1 s with less.
ClientBody ==
  LET n == Min({left, BufLen, Len(Unread("client"))}) IN
  /\ Running /\ cpc = "body" /\ n > 0
  /\ saved' = [saved EXCEPT ![cur] = @ \o Printed(SubSeq(Unread("client"), 1, n))]
  /\ lastRead' = [lastRead EXCEPT !["client"] = @ + n]
  /\ left' = left - n
  /\ UNCHANGED <<lastSent, lastAcked, sendBuff, recvBuff, out, held, net, addr, server,
                 cur, cpc, want, ready, late, torn>>

\* All received, sent and acknowledged: the process exits.
ClientExit ==
  /\ Running /\ cpc = "body" /\ left = 0
  /\ lastAcked["client"] = lastSent["client"] /\ lastSent["client"] = lastWrite("client")
  /\ lastRead["client"] = lastRecved("client")
  /\ cpc' = "done"
  /\ UNCHANGED <<endpoints, out, held, net, addr, server, cur, left, want, saved, ready,
                 late, torn>>

\* S: timeout and retransmit, when all is quiet and the request is still not
\* acknowledged: the bytes come from after lastSent, where nothing is written.
ClientResend ==
  LET n == Min({MSS, lastSent["client"] - lastAcked["client"]}) IN
  /\ Running /\ cpc \notin {"done", "failed"} /\ n > 0 /\ out = << >>
  /\ toServer = << >> /\ toClient = << >> /\ held = None
  /\ \E junk \in Junk :
       toServer' = ToServer([seqNum |-> lastAcked["client"], ackNum |-> 0, flags |-> 0,
                             data |-> [i \in 1 .. n |-> junk]])
  /\ UNCHANGED <<endpoints, out, toClient, held, addr, server, client, late, torn>>

-----------------------------------------------------------------------------
(* Threads that meet half way                                              *)

\* With sockFd restored and addr not, recvFromSock takes a datagram whose sender
\* it cannot store; and until main clears the wait times of 60000, a receive or
\* send thread that tests its own ends.
MeetsReset == spc \in {"addr", "waitTime"}

\* The acknowledgment of the segment last sent is taken before prepareAndSend
\* has stored lastSent: it is dropped.
Overtakes(h, seg) == FreshAck(h, seg) /\ seg.ackNum = lastSent[h]

Tears ==
  /\ Running
  /\ \/ MeetsReset
     \/ toServer # << >> /\ Overtakes("server", Head(toServer).seg)
     \/ toClient # << >> /\ Overtakes("client", Head(toClient))
  /\ torn' = TRUE
  /\ UNCHANGED <<endpoints, out, held, net, addr, server, client, late>>

-----------------------------------------------------------------------------
ServerMain == ServerBody \/ ServerDrain \/ InitResf \/ ServerBlank
              \/ ServerCutBlank \/ ServerRequest \/ ServerCutRequest

ClientMain == ClientWrite \/ ClientExit \/ ClientBody \/ ClientStatus \/ ClientHeader

Work == (\E h \in Host : Send(h)) \/ ServerTakes \/ ServerReceives \/ ClientReceives
        \/ ClientMain \/ ServerMain

Next == Work \/ Start \/ ClientResend \/ Tears

Spec == Init /\ [][Next]_vars

\* As long as a thread can take a step, some thread does.  (A client that
\* starts and a timer that expires are not waited for.)
FairSpec == Spec /\ WF_vars(Work)

-----------------------------------------------------------------------------
(* Properties                                                              *)

\* The fields keep their types, and the indices their order, also while
\* initResf sets them one by one: but after its store of lastSent lastAcked is
\* ahead of it, and nothing is said of the send indices once torn.
TypeOK ==
  /\ \A h \in Host : lastSent[h] \in Nat /\ lastRead[h] \in 0 .. lastRecved(h)
  /\ ~torn => \A h \in Host :
       /\ lastSent[h] <= lastWrite(h) /\ lastAcked[h] \in Nat
       /\ lastAcked[h] <= lastSent[h] \/ (h = "server" /\ spc = "lastAcked")
  /\ \A h \in Host : sendBuff[h] \in Seq(Byte) /\ recvBuff[h] \in Seq(Byte)
  /\ out \in Seq(Byte) /\ Len(held) <= 1 /\ addr \in 0 .. cur
  /\ cur \in 0 .. NC /\ left \in -1 .. 9
  /\ spc \in {"poll", "body", "blank", "drain", "gone", "lastSent", "lastAcked",
              "lastWrite", "lastRead", "lastRecved", "sockFd", "addr", "waitTime"}
  /\ cpc \in {"status", "header", "body", "done", "failed"}
  /\ pos \in 0 .. FileLen /\ file \in Seq(Byte)
  /\ want \in [Clients -> Names] /\ saved \in [Clients -> Seq(Byte)]
  /\ ready \in [Clients -> BOOLEAN] /\ late \in BOOLEAN /\ torn \in BOOLEAN

(***************************************************************************)
(* As long as threads do not meet half way (torn), the main thread of the  *)
(* server only ever ends because a file is missing, because a client was   *)
(* silent for 1 s with some of its request still to come, or because a     *)
(* client started before the server had reset its connection: never        *)
(* because of what an earlier response or an earlier reset has left        *)
(* behind.                                                                 *)
(***************************************************************************)
ServerStays ==
  spc = "gone" => \/ late
                  \/ \E c \in 1 .. cur : want[c] \notin Existing
                  \/ \E c \in 1 .. cur : ~ready[c]

(***************************************************************************)
(* Whenever they start, one after the other, and until threads meet half   *)
(* way (torn): what a client has saved is the beginning of one file, all   *)
(* of it when it has exited, and never a part of one and a part of         *)
(* another.                                                                *)
(***************************************************************************)
OneFile ==
  \A c \in 1 .. cur : \E f \in Names :
    /\ IsPrefix(saved[c], Content[f])
    /\ c < cur \/ cpc \in {"done", "failed"} => f \in Existing /\ saved[c] = Content[f]

(***************************************************************************)
(* A client that started with the server at rest saves a growing prefix of *)
(* the file it asked for, and has all of it when it exits: no byte of      *)
(* another response, of a header, or of before the reset.  Until threads   *)
(* meet half way (torn).                                                   *)
(***************************************************************************)
Phase(c) == CASE ~ready[c] \/ c > cur -> "idle"
              [] ready[c] /\ c = cur /\ cpc # "done" -> "asked"
              [] OTHER -> "done"

Files == INSTANCE FileService WITH
           phase <- [c \in Clients |-> Phase(c)],
           saved <- [c \in Clients |-> IF ready[c] THEN saved[c] ELSE << >>]
Service == Files!Spec

(***************************************************************************)
(* And it does exit, if the server has the file, unless it was silent for  *)
(* 1 s within its request, or threads met half way (torn): a step that     *)
(* straddled a store of initResf, a datagram or a test of a wait time      *)
(* before main had restored what initResf cleared, an acknowledgment       *)
(* before lastSent.  Each of these may leave a client unserved.            *)
(***************************************************************************)
Served ==
  \A c \in Clients :
    (cur = c /\ ready[c] /\ want[c] \in Existing)
      ~> (cur = c /\ cpc = "done") \/ late \/ torn
=============================================================================
