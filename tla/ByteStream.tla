----------------------------- MODULE ByteStream -----------------------------
(***************************************************************************)
(* What Resf promises its two applications: a byte stream.  The bytes that *)
(* one end hands over come out at the other end in the order they were     *)
(* written, each of them once, and nothing else comes out.  A byte is      *)
(* represented by its position in the stream.                              *)
(***************************************************************************)
EXTENDS Integers, Sequences

VARIABLES written,   \* how many bytes have entered the stream
          received   \* the bytes that have been returned to the reader

vars == <<written, received>>

\* The n bytes of the stream from position from on.
Run(from, n) == [i \in 1 .. n |-> from + i - 1]

Init == written = 0 /\ received = << >>

Write ==
  /\ written' \in Nat /\ written' > written
  /\ UNCHANGED received

Read ==
  /\ \E n \in 1 .. written - Len(received) :
       received' = received \o Run(Len(received), n)
  /\ UNCHANGED written

Next == Write \/ Read

Spec == Init /\ [][Next]_vars
=============================================================================
