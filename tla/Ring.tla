-------------------------------- MODULE Ring --------------------------------
(***************************************************************************)
(* Index arithmetic of the two ring buffers of a Resf connection.          *)
(*                                                                         *)
(* SEND_BUFFER_SIZE and RECV_BUFFER_SIZE are the same number (resf.h), and *)
(* sequence numbers are ring indices, so one constant N serves the two     *)
(* buffers and the sequence space.  The C code spells the same few         *)
(* expressions out at every use; each operator stands for all of them.     *)
(***************************************************************************)
EXTENDS Integers

CONSTANT N  \* SEND_BUFFER_SIZE = RECV_BUFFER_SIZE, 65536 in resf.h

ASSUME RingSize == N \in Nat /\ N > 1

Pos == 0 .. N - 1

\* Mutated form of Add: the index is not reduced modulo the ring size.
AddNoWrap(p, k) == p + k

\* The index k bytes after p:  (p + k) % SEND_BUFFER_SIZE.
Add(p, k) == (p + k) % N

(***************************************************************************)
(* Bytes from a up to b.  The code first tests "b >= a" and then subtracts *)
(* with one of two formulas, reading the fields again; another thread may  *)
(* move one of them in between.  DistBy takes the outcome of the test.     *)
(* The uint32_t result is assigned to an int, so small negative values     *)
(* stay negative.                                                          *)
(***************************************************************************)
DistBy(ge, a, b) == IF ge THEN b - a ELSE b + N - a

\* The distance when test and subtraction see the same fields.
Dist(a, b) == DistBy(b >= a, a, b)

\* Bytes that fit between the last used index b and the first used index a:
\* one slot always stays empty, so that a = b means "empty".
Room(a, b) == N - 1 - Dist(a, b)

SmallerOf(x, y) == IF x < y THEN x ELSE y
=============================================================================
