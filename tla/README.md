# A TLA+ model of RESF

RESF (`src/`) is a C library that gives two programs a reliable byte stream over UDP, with an
HTTP-like client and server on top of it. The library (`src/src/resf.c`) runs two threads per
endpoint beside the application's own, and shares its state between the three almost without
locks. This directory holds TLA+ modules of the library, TLC configurations that check them on
small instances, and theorems checked by TLAPS for every instance.

## The system

| component | state | operations | what makes it correct |
|---|---|---|---|
| send buffer | `sendBuff`, `lastAcked`, `lastSent`, `lastWrite`, `sendNewDataMutex` | `sendToResf`, `prepareAndSend`, `retransmit`, `sendDataWithAck`, the acknowledgment part of `startRecv` | the indices keep their order around the ring; no unacknowledged byte is overwritten; what is sent is what was written; nobody is kept from the mutex for good |
| receive buffer | `recvBuff`, `lastRecved`, `lastRead` | the data part of `startRecv`, `recvFromResf`, `recvFromResfBySep` | no unread byte is overwritten; the window advertised is not more than the free space (it can be: see the run `RecvBuffer`); reads return the stream; a wait for space ends |
| ring arithmetic | none | the index, distance and room expressions written out all over `resf.c` | full and empty stay distinguishable, across the wrap |
| congestion control | `cwnd`, `ssthresh`, `cstatus`, `dupAckNum`, `rwnd` | `congestWhenDup3`, `congestWhenNDup`, `congestWhenTimeout`, `congestWhenNAck`, `duplicateAcks` | a reaction to a loss is not undone by the other thread; a duplicate counts once |
| retransmission timer | `timeoutStart`, `timeout`, `estimateRtt`, `devRtt`, `sampleSeqNum`, `sampleSentTime` | `timeout`, `timeoutWhenDup`, `calculateRtt`, `calculateNewTimeout` | samples are of bytes still outstanding; the timer backs off, and runs while something is unacknowledged |
| send thread's idle wait | `unsentDataCond`, local `timeSum` | `startSend` 238-260 | data written is noticed; the thread ends only after a whole idle period |
| connection | all of `Resf` | `initResf`, `startResf` (`reinitResf` is never called) | both ends agree on the indices before data flows |
| segment codec | none | `packSegment`, `unpackSegment` | what is packed is what is unpacked |
| sockets | the UDP socket | `sendToSock`, `recvFromSock` | a datagram may be lost, duplicated, reordered |
| HTTP server and client | files, buffers | `http_server.c`, `http_client.c` | a response is read to its end; the connection is reset only when both ends are done with it |
| HTTP parsing | none | `parseHeader`, `parseHttpRequestLine` (the rest of `httputil.c` is not called) | fields are found, bounds are kept |
| file utilities | none | `util.c`: `checkFileExist`, `getFileSize` are called | pure I/O |

How they interact. The application calls `sendToResf` and `recvFromResf` or `recvFromResfBySep`;
these touch only the two ring buffers. The send thread takes from `sendBuff` what the window
(`min(rwnd, cwnd)`) allows, then looks at the timer and at the count of duplicate
acknowledgments, and retransmits. The receive thread takes a datagram, stores the advertised
window, takes the acknowledgment in (`lastAcked`, congestion control, timer), stores data that
continues the stream (waiting, if it must, until the application has read), and answers: with
data of its own if there is some, else with a bare acknowledgment. Sequence and acknowledgment
numbers are indices of the peer's ring buffers; both buffers have 65536 slots and the header
fields are 16 bits.

What is hard here. Three threads share the indices with plain loads and stores;
`sendNewDataMutex` protects only `prepareAndSend` and `sendDataWithAck` from each other. The
build (`src/run`: `make CFLAGS+="-pthread"`) does not optimise, so that an expression that names
a field twice loads it twice, and another thread may move it in between. `sendto` may fail with
the mutex held. Datagrams are lost, timers expire early, and an answer may arrive before the
sender has recorded what it sent. `PROJECT.json` lists the hazards line by line.

## The modules

| module | models |
|---|---|
| `Ring` | ring arithmetic; the constant `N` is `SEND_BUFFER_SIZE` = `RECV_BUFFER_SIZE` |
| `RingLemmas` | lemmas about it, proved |
| `SendBuffer` | the send half of one endpoint: threads A (application), S (send thread), R (receive thread) |
| `SendBufferProofs` | its safety theorems, proved |
| `RecvBuffer` | the receive half of one endpoint: threads R, B (the reading application), S (which advertises the window) |
| `Congestion` | congestion control, the send and the receive thread on the same fields |
| `CongestionProofs` | its theorems, proved |
| `ByteStream` | abstract: what RESF promises, bytes out in the order they went in, each once |
| `RecvBufferProofs` | its theorems, proved, with the refinement of `ByteStream` |
| `Transfer` | one direction of a connection: `SendBuffer` of one end, `RecvBuffer` of the other, two UDP queues |
| `TransferProofs` | its safety and, without retransmissions, its refinement of `ByteStream`, proved from the theorems of the two halves |
| `Timers` | the retransmission timer and the round-trip estimate, the send and the receive thread on the same fields |
| `TimersProofs` | its theorems, proved |
| `Segment` | the wire format: pure functions on bytes |
| `SegmentProofs` | what `unpackSegment` gets back of what `packSegment` wrote, proved |
| `Http` | the lines of the two programs and the two parsing functions they call |
| `FileService` | abstract: what server and client promise, the file asked for and nothing else |
| `Session` | `http_server` and `http_client` over two endpoints: several clients, one server, the reset between them |
| `SessionProofs` | its safety and its refinement of `FileService`, proved |

Each module's variables carry the names of the C fields and locals. A step is what a thread does
between two points at which another thread can make a difference: typically the load of a test,
the load of the formula that follows it, a store. In `SendBuffer`, `ATestAbove`, `ATestBelow`
and `ACalcRoom` are the loop of `sendToResf` that waits for room, `AByte`, `APoll` and `AStore`
its copy loop; `SLock` to `SAdvance` are `prepareAndSend`; `STimers` to `SResend` are `timeout`,
`duplicateAcks` and `retransmit`; `RRecv` and `RCheck` take an acknowledgment in; `RLock`,
`RPiggyback` and `RAckOnly` are `sendDataWithAck` and its fallback. `RecvBuffer` has `RArrive`
to `RAckSend` for `startRecv`, `BCall` to `BReturn` for the two read functions, and `STest` to
`SAdvertise` for the window in a header, of which the send thread loads the two indices one
after the other. In `Congestion`, `STimer` is `timeout`, `SDups` and `SReset` are
`duplicateAcks`; `STest`, `SHalve`, `SThresh`, `SWindow` and `SStatus` are the loads and stores
of `congestWhenTimeout` and `congestWhenDup3`, which differ in the window and the status they
end in; `RDup` and `RCount` are the two halves of `dupAckNum++`, and `RTest` to `RStatus` are
`congestWhenNDup` and `congestWhenNAck`. In `Timers`, `SStamp` to `SSend` are a burst of
`prepareAndSend`, `STest` to `SStore` are `timeout` with the load and the store of `timeout *=
2`, `SDups` and `STimeoutWhenDup` are `duplicateAcks`; `RAck` to `RSample` are `calculateRtt`,
test by test (`RWrapped` and `RStraight` are its two branches), and `RStore`, `RStart`,
`RTimeout` what `startRecv` does next with a new acknowledgment. In `Session`, each endpoint has
a main thread (`ServerRequest` to `ServerDrain` and `InitResf`; `ClientWrite` to `ClientExit`),
a send thread (`Send`, `ClientResend`) and a receive thread (`ServerTakes`, `ServerReceives`,
`ClientReceives`). `PROJECT.json`, `map`, gives the lines of every definition.

Abstractions. A byte is its position in the stream. In `SendBuffer` acknowledgments are
arbitrary numbers, windows arbitrary 16-bit values, and a timer may be found expired at any
time: this covers every peer, every state of congestion control and every clock. Waiting on a
condition variable is modelled by its outcome: both waits have a time limit after which the
thread looks again, so that it may wake at any time, and the signal makes no difference but for
speed. The poll limit 20 is `MaxTimeNums` (in `Transfer`, that of the reads is `MaxReadPolls`);
the properties do not depend on it, except that `NoShortSend` needs it to be above 1.

`Transfer` instantiates `SendBuffer` and `RecvBuffer` and adds the two queues, which keep order
and may lose up to `MaxLost` datagrams. A failure found there needs neither reordering nor
duplication. The congestion window never limits there; the advertised window does.

`Timers` represents a stored time by its age. The age of `timeoutStart` is kept modulo `W`, the
number of values of a `uint32_t`, because `timeout` cuts a 64-bit difference to an `int`: that
is exactly what is left of it. The clock does not jump. Every load in `calculateRtt` of a field
that the send thread stores is a step of its own, and a stamp may be of any age: one older than
`MaxRtt` counts as `MaxRtt`. `sampleSeqNum` and `sampleSentTime` start as anything, because
`initResf` does not set them. `covered`, `since`, `need` and `quiet` are history: whether the
stamped byte has been acknowledged, how much has been sent since the stamp, how long the timer
has to stay silent, and how long it has.

`Session` has characters, because the server parses what happens to arrive. An exchange is
shorter than the buffers and the windows, so that indices are plain lengths; what happens within
one datagram or one call is in `SendBuffer` and `RecvBuffer`. `initResf` is taken store by
store, while both threads of the server run. Where two threads meet half way, the variable
`torn` is set and the model stops, because the code may then do anything. There are four such
places: a thread's step straddles a store of `initResf` (it has tested before it and stores
after it, or finds `sockFd` or `addr` not set: `Straddles`, `Send`); a datagram is received
between `main`'s stores of `sockFd` and `addr`, so that its sender is not stored; a thread tests
its wait time while it is the 60 s of `initResf` and not yet `main`'s 0, and may end (both
`MeetsReset`, `http_server.c:178-184`); and an acknowledgment is taken before `prepareAndSend`
has stored `lastSent`, and is dropped (`Overtakes`; the run `TransferFastAck`). `Tears` is the
step that lets any of the last three happen wherever it can. Every property of `Session` is
about what comes before: after it a client may be left without an answer, its response may go to
another, and its retransmissions may end the server. The network of `Session` loses and reorders
nothing and is faster than the timer, so that the only retransmission is of a request that the
server has thrown away by its reset, and its bytes come from after `lastSent`, as in the code.
`late` records that a client was silent for 1 s with some of its request still to come and the
server went on with what it had. Clients come one after the other, and each asks for a different
file: clients that overlap, of which one diverts the other's response (`resf.c:605`), are not
modelled.

## The runs

| run | shows |
|---|---|
| `SendBuffer` | indices in order (`RingOrder`), no unacknowledged byte lost (`UnackedIntact`), new data sent as written (`NewDataIntact`), no `sendToResf` that gives up half way (`NoShortSend`), indices only move forward (`PointersAdvance`), and an answer waiting for the mutex gets it while the send thread lives (`AnsweredWhileSending`) |
| `SendBufferLeak` | `Answered` fails: after one failed `sendto` the send thread ends with the mutex locked (finding) |
| `RecvBuffer` | `UnreadIntact`; `WindowHonest`: the receive thread advertises the free space, the send thread at most that, unless bytes are stored after its first load of the two indices; the reads implement `ByteStream` (`ReadsStream`), a wait for space ends (`WaitEnds`) |
| `RecvBufferBySep` | `ReadsStream` fails for the reads that give up: bytes are returned twice (finding) |
| `Congestion` | `DuplicatesPay`: each fast retransmission needs a duplicate acknowledgment of its own, the first one three; `AckClocked`: stale stores included, the window opens by at most a segment per acknowledgment and fast retransmission |
| `TransferClean` | without loss and retransmission the connection implements `ByteStream` (`EndToEnd`), everything written is read (`Delivered`) and acknowledged (`Acknowledged`) |
| `TransferUnreliable` | with a loss, retransmissions and fast answers, `lastAcked` is never at a later position of the stream than `lastRecved` (`AckedNotAhead`); whether the bytes at these positions are the ones written is another question, and with a retransmission they need not be (`resf.c:828`) |
| `TransferFastAck` | `Acknowledged` fails when an answer overtakes the store into `lastSent` (finding) |
| `TransferAckLost` | `Acknowledged` fails when one acknowledgment is lost (finding) |
| `TransferPhantom` | `EndToEnd` fails when a retransmission is built while the last acknowledgment comes in (finding) |
| `Timers` | `RttBounded`: estimate and deviation stay below the longest sample; `SampleFresh`: no sample is decided on for a byte acknowledged before, unless a whole lap was sent without a stamp; `BackOff`: without an acknowledgment the next retransmission waits twice as long; `Fires`: while something is unacknowledged the timer never falls silent, also after its 32 bits have wrapped |
| `Session` | `Service`: a client that found the server at rest saves a growing prefix of its file and in the end all of it (`FileService`); `Served`: it does get there; `ServerStays`: the server ends for three reasons only; `OneFile`: also a client that came too early saves one file, whole if it exits, never parts of two. All of these until threads meet half way (`torn`) |

Bounds. The rings have 3 or 4 slots: 4 with segments of 2 bytes is the smallest size at which a
segment can wrap in the middle, a burst takes two segments, and the room left can be smaller
than a segment. `MaxBytes` lets the indices go round the ring at least once. `CallSizes` of
`SendBuffer` includes calls that fill the ring and one that is refused. `TransferUnreliable`
writes as many bytes as its ring has slots, so that the third takes every index back to 0 and a
stale number can be taken for a fresh one. `Congestion` takes 7 acknowledgments in, enough for
slow start, two fast recoveries, avoidance and a wrap of the duplicate counter (of width 6; a
window of 16 bits and a `cwnd` of 32 do not wrap within the bound and are not reduced). `Rwnds`
has whole segments only and 0: with `rwnd` below a segment `AckClocked` is false, because
avoidance divides by `rwnd`. `RecvBuffer` reads at most `N - MSS` bytes at a time: a
`recvFromResfBySep` that wants more keeps what it has copied in the buffer until it is done,
while `startRecv` waits for room for a whole segment, and the two wait for each other (the
hazard at `resf.c:657`; with reads of 3 bytes and N = 4, MSS = 2, `WaitEnds` fails). `BCall`
stops after `MaxBytes` bytes returned only so that the repeated bytes of `RecvBufferBySep` stay
finite. `Timers` has a ring of 3, a `uint32_t` of 6 values and samples up to 2: the timeout of 3
doubles to 6, which is 0 in 32 bits; one of 2 doubles to 4, past the half where the sign of the
`int` turns, and then wraps to 2; and a sample followed by smaller ones moves the deviation up
and down. A lap and more may be sent without a stamp (`since` counts up to `N + 1`). `Session`
has two clients, so that the second meets the reset of the first, three names of which one is
missing, files of two bytes, sent in one call of `sendToResf`, and a request of 12 bytes that
may be interrupted at two places: once before its path is complete for the parser, once after,
so that a cut line is both refused and served. Deadlock is not checked there: both programs may
end.

Fairness. Threads are scheduled: weak fairness for each thread's steps. Strong fairness only
where a step is enabled again and again but not all the time: for the receive thread's lock of
`sendNewDataMutex`, which the send thread takes and releases in a loop (a mutex whose holder
releases it is given to a waiter in the end); in `Transfer`, for taking a datagram off the
acknowledgment queue, which the condition `SlowNetwork` disables for a moment, and for an
expiring timer. The reading application is assumed to keep reading (`WF` of `BNext`), which the
program cannot promise. In `Timers` both threads are scheduled and time passes, and the send
thread looks at the timer at least once between two ticks (`Tick`): a round of its loop takes
microseconds, a tick stands for a good part of the timeout. In `Session` fairness is as weak as
it can be: as long as some thread can take a step, one does. Clients that start and timers that
expire are not waited for. Nothing is assumed of the writer: `Delivered` and `Acknowledged` hold
whenever it pauses.

## The proofs

`SendBufferProofs` proves, for every ring size `N` > 1, segment size below `N`, set of call
lengths and poll limit above 1, and whether or not `sendto` fails and threads end:
`TypeCorrect`, `RingOrderCorrect`, `AdvanceCorrect`, `UnackedCorrect`, `NewDataCorrect` and
`NoShortCorrect`. The assumptions are `RingSize` and `SendParams`. `MaxBytes` is any number, so
that the proofs cover runs of any length.

The argument. `RingOrder` is not inductive: a thread that has tested an index and is about to
use it must have seen something that still holds. `OrderInv` adds what each thread knows.

- `AppRoom`: the room `sendToResf` has found is still there for the rest of the call, because
  acknowledgments only make room. Its formula may be the wrong one when `lastAcked` has moved
  since the test; the invariant says what remains true: with the branch "gt", `lastAcked <=
  lastWrite` still holds, because `lastAcked` cannot pass `lastWrite`, and with the branch "lt"
  a `lastAcked` that has wrapped makes the formula negative.
- `SendBudget`: what the two senders have computed is not more than what is unsent. A stale test
  `lastSent <= lastWrite` gives too small a result, never too large a one. That only one of them
  moves `lastSent` at a time is `MutexHeld`.
- `AckBranch`: in the branch `lastSent < lastAcked` of `startRecv`, that is still so when the
  acknowledgment is compared; in the other branch a `lastSent` that has wrapped only makes the
  test refuse more.

`UnackedIntact` then follows by induction with `OrderInv`: a store goes to a free slot.
`NewDataIntact` follows without induction. `NoShortSend` has an invariant of its own
(`PollInv`): the copy loop polls at most once, because `lastAcked = lastWrite` with room for the
call means that everything is acknowledged, and the next look at the three indices sees that.
Every lemma of ring arithmetic that this uses is in `RingLemmas`.

`CongestionProofs` proves `TypeCorrect` and `DuplicatesPayCorrect` for every segment size,
threshold, set of windows and counter width above 3 (`CongestionParams`). `DuplicatesPay` needs
`PayInv`, which says what `dupAckNum` and the copy of it that a `dupAckNum++` holds are worth: a
copy of 3 or more, loaded before the reset, is paid for by the duplicate that is being counted.

`AckClocked` is the harder of the two, because a window is computed from stale loads: `ClockInv`
says of `cwnd`, of `ssthresh` where it may become the window, and of every value that a thread
has computed and not yet stored that it is at most what the acknowledgments and fast
retransmissions so far have paid for, where a report that is being turned into a window does not
count yet: in whatever order the two threads overwrite each other's stores, what is left was
paid for. `GainClocked` proves this for every gain that covers one acknowledgment, whatever
windows the peer advertises; `AckClockedCorrect` is the case of one segment, for peers that
advertise 0 or at least a segment (congestion avoidance divides by `rwnd`: with `rwnd` of one
byte a single acknowledgment opens the window by `MSS * MSS`).

`RecvBufferProofs` proves `TypeCorrect`, `UnreadIntactCorrect` and `WindowHonestCorrect` for
every ring size, segment size below it and set of read lengths (`RecvParams`), and
`ReadsStreamCorrect`: the receive half implements `ByteStream`, provided that the application
does not use the mode that returns bytes twice (`RecvBufferBySep`). The argument is that of the
send half, mirrored: what the receive thread has found free stays free, because reads only make
room; what the reader has copied stays in the buffer until it moves `lastRead`; and a formula
chosen by a stale test gives too small a result, never too large a one. Both are proved for
peers that send more than `RecvBuffer`'s own: `AnySegment` is any bytes under any number (for
the safety of the buffer), `TrueSegment` any that under the number `lastRecved` carries the
bytes that come next (for the stream).

`TransferProofs` puts the halves together. Every step of `Transfer` is a step of one half, with
some acknowledgment or some segment taken in, or leaves it alone (`SenderStep`, `ReceiverStep`),
so that the invariants proved of the halves hold of it without another proof. What is new is the
numbers under way, which are taken modulo `N`. `StreamInv` says which position in the stream
each stands for: the acknowledgments never go back and lie between `lastAcked` and `lastRecved`;
a datagram is never so old that its number has come round to `lastRecved` again. This rests on
the queues, which keep order: `RingLemmas` has the lemmas that identify an index with a position
when it is known to lie within a lap (`At`, `AtUnique`, `AtDist`). `AckedNotAheadCorrect` then
holds, as a statement about positions, with retransmissions and losses, for every `N`, `MSS`,
`MaxLost` and both values of `SlowNetwork`. `EndToEndCorrect` is the refinement of `ByteStream`,
under the hypothesis `~Retransmits`: only then do the datagrams carry the bytes of their
positions (`Genuine`). With retransmissions it is false, as `TransferPhantom` shows. It covers
more than `TransferClean`, which loses nothing: what is lost leaves a hole that no later
datagram is taken for, and the stream stops.

`TimersProofs` proves `TypeCorrect`, `RttCorrect`, `BackOffCorrect` and `SampleFreshCorrect` for
every ring size, every even counter width and every bound on samples (`RingSize`,
`TimersParams`). `BackOff` needs `BackOffInv`: since the last retransmission the timer's age is
the time it has been quiet, or less, and the timeout it is compared with is what `need` asks
for, unless the receive thread has stored in between, which only an acknowledgment leads to.
`SampleFresh` needs `SampleInv`: once the stamped byte is acknowledged, less is outstanding than
was sent since the stamp, so that for a lap the stamp lies outside the outstanding part of the
ring; and it says how far the tests of `calculateRtt` get with such a stamp, while the send
thread moves `lastSent` between any two of them. After a whole lap without a stamp the old
`sampleSeqNum` lies inside again, and the code takes the sample.

`SegmentProofs` proves that `unpackSegment` gives back every field that `packSegment` wrote
(`SegmentRoundTrip`, over `Uint32RoundTrip` and `Uint16RoundTrip`), and the data as `strncpy`
copied it, which is the data itself when it has no zero byte (`TextIsCopied`). `Session` rests
on this: it passes segments whole, with their data `Copied`.

`SessionProofs` proves, for every number of clients, set of names, set of existing files,
content of unwritten slots, segment and buffer size (`SessionParams`), that `Session` keeps its
types (`TypeCorrect`), that the server ends for the three reasons of `ServerStays` only
(`ServerStaysCorrect`), that it implements `FileService` (`ServiceCorrect`), and for every
client, whenever it starts, `OneFile` (`OneFileCorrect`). `Tears` is a step like any other in
these proofs; after it, `Running` is false and nothing moves. Two assumptions bound what is
sent: the length of a file has one digit (`FileLen` in 1 .. 9), and the bytes of a file are
bytes that are not zero.

The argument. None of this is inductive by itself: that a saved byte is the right one depends on
the bytes under way, on what the server has written, and on the request having reached a server
that had forgotten everything before. `SessionInv` follows one exchange. What the client has
written, sent and the server has received are consecutive parts of one request, and the same in
the other direction of one response (`Part`, and `Chain` for the segments under way). The
exchange is in one of four parts: `Asking`, `Answering`, `Clearing` (the server's `initResf`, up
to the store into `lastRecved`) and `Rested`. In `Rested` the server could take an old segment
for new, because its `lastRecved` is 0 again: every segment with data still under way has a
number above 0, and the client does not retransmit, because the acknowledgment it needs is under
way (`Underway`). So the server is at rest for the next client, and a client that starts finds
nothing of its predecessor (`Start` establishes `Asking`). `Reading` relates how far the
client's main function has got to the three lines of the response, and `ServerStays` uses that a
part of a request line, cut off after 1 s, either cannot be parsed or has all of the path.
`Phases` and `Stored` name the refinement mapping; only `Start`, `ClientBody` and `ClientExit`
are steps of `FileService`, every other step is a stutter (`OthersStutter`).

`SessionInv` describes a client that found the server at rest. One that started earlier may have
a request whose first bytes the reset has thrown away, and which is only answered after a
retransmission with other bytes, so that even which file it is served is not known. `TurnInv`
says what is left. The data that a client has under way is in order and not acknowledged, nor is
an acknowledgment of it under way (`Turns`, `InTurn`). Earlier clients have no data under way,
because a client exits only when everything it sent has been acknowledged, and the datagrams
they have left come in before all of this one's, so that none overwrites `addr` once a request
has been heard (`Earlier`). `Before` it receives anything, the server is `Fresh`, or `Behind`
with the reset of the client before it, with nothing left to send, or has `Heard` a part of its
request; `During` the exchange some file `f` is on its way and the server is `Replying` with it,
`Closing` its Resf, or has `Closed`. `OneFile` follows from this, with the induction that a
client which exits has the whole of `f` (`CurFile`, `SavedStarts`). That `f` is the file asked
for cannot be said: what is retransmitted is what happens to lie in the buffer, and with small
segments it may name any file. The step after which the model stops, because it straddles a
store of the reset, is treated by itself (`OneFileStops`).

Only model-checked is what needs fairness: `AnsweredWhileSending`, `WaitEnds`, `Delivered`,
`Acknowledged`, `Fires` and `Served` (liveness and `ENABLED` are beyond TLAPS). Every invariant
and every action property and refinement of a passing run is a theorem.

## What the code does otherwise than it says

The runs marked "finding" are described in `PROJECT.json`, each with the line of the repository
that says otherwise. One more defect has no run: `sendToResf` admits a call of exactly
`SEND_BUFFER_SIZE` bytes (line 137), but one slot of the ring always stays empty, so that such a
call waits for ever. And `Congestion` reaches states in which both threads are between two
handlers, `cstatus` is AVOID and `cwnd` is below `ssthresh`: the receive thread ends slow start
(line 537) by a test made before a timeout cut the window. Nor can it be said that a fast
retransmission takes three duplicates (`3 * fasts <= dups` is false): the reset of
`duplicateAcks` is lost when it falls into a `dupAckNum++`.

Three more things are not as one would expect, and the properties say how far. The window that a
send thread advertises can exceed the free space: with both indices moving between its loads, a
full buffer passes for an empty one (`WindowHonest`). `calculateRtt` takes a sample of a byte
acknowledged long ago when `sendDataWithAck` has sent a whole lap since the last stamp, or when
there has been none (`SampleFresh`). And after a loss the receiver stores, and acknowledges, the
bytes of `sendBuff[lastSent + i]` (line 828) under the numbers of the lost ones, so that the
sender frees bytes that have never arrived: `AckedNotAhead` is about positions only, and
`EndToEnd` is not claimed with retransmissions.

It is worth knowing how the findings hang together. A retransmission is useful only when it
carries the lost bytes, and it does not (line 828; `TransferPhantom`); a lost or refused
acknowledgment is repaired only when a retransmission is answered, and it is not
(`TransferAckLost`, `TransferFastAck`). On a network that loses nothing, and with the timers
quiet, the stream is right (`TransferClean`).

Of the two programs, `Session` says what their users rely on without knowing it. A client that
starts before the server has reset its connection may see its request thrown away with the
buffers, and the retransmission, which carries other bytes, ends the server; a client that is
silent for 1 s in its request ends it too, or is served by half a line; a missing file ends it.
`ServerStays` lists these reasons and excludes every other, as long as no two threads meet half
way in the reset or in the store of `lastSent` (see `Session` above); `Served` and `Service`
hold for a client that found the server at rest. Any other client, if it exits, still has one
file and all of it (`OneFile`).

## Not modelled

- The count of idle time in `startSend` (251) and in `startRecv` (586-596): both programs set
  the wait times to 0, with which the counts are never tested, but for the moment in the server
  between `initResf` and `main`'s own stores. `SendBuffer` lets both threads end whenever they
  are idle, and `Session` stops where one may end (`MeetsReset`).
- What happens after two threads have met half way in the server's reset, and clients that
  overlap.
- A client that vanishes in the middle of a response: `sendToResf` then waits for room in the
  buffer without a limit (141-148), and the server with it, if the file is longer than the
  buffer.
- Data in both directions at full windows (the hazard at `resf.c:657`) and datagrams delayed by
  a whole lap of the buffer (`resf.c:648`).
- `recvFrag`, `reinitResf`, `getCongestStatus`, `main1` and `main2`, which nothing uses; what
  the programs print; errors of `socket`, `bind` and `fopen` in the two programs, which end
  them.
- `util.c` and `httputil.c` but for the four functions that are called: they belong to an
  earlier TCP program and do plain socket and file I/O.
