-------------------------------- MODULE Http --------------------------------
(***************************************************************************)
(* The HTTP lines of the two programs (http_client.c, http_server.c) and   *)
(* the functions that take them apart (httputil.c).  A character is its    *)
(* code.  The words whose spelling nothing depends on (the method, the     *)
(* version, the status, the name of the header) are cut to one letter or   *)
(* three, and a length is one decimal digit.                               *)
(***************************************************************************)
EXTENDS Integers, Sequences

NUL == 0
LF == 10
CR == 13
SP == 32
Slash == 47
Colon == 58
Dot == 46
Zero == 48

\* "GET", "HTTP/1.1", "HTTP/1 200 OK" and "Content-Length", cut.
Get == 71
Version == << 72, 84, 49 >>
Status == 83
ContentLength == 76

\* "GET /%s HTTP/1.1\r\n\r\n" (with the slash)
Request(path) ==
  << Get, SP, Slash >> \o path \o << SP >> \o Version \o << CR, LF, CR, LF >>

\* Mutated form of Response: a length one byte short.
ResponseShort(fileSize) ==
  << Status, CR, LF, ContentLength, Colon, SP, Zero + fileSize - 1, CR, LF, CR, LF >>

\* "HTTP/1 200 OK\r\nContent-Length: %d\r\n\r\n"
Response(fileSize) ==
  << Status, CR, LF, ContentLength, Colon, SP, Zero + fileSize, CR, LF, CR, LF >>

\* The first position from i on where c is, or the one after the last.
Find(c, str, i) ==
  CHOOSE k \in i .. Len(str) + 1 :
    /\ k <= Len(str) => str[k] = c
    /\ \A j \in i .. k - 1 : str[j] # c

\* Mutated form of Skip: c is found again.
SkipNot(c, str, i) == Find(c, str, i)

\* Where the reader goes on: c itself is skipped.
Skip(c, str, i) ==
  LET k == Find(c, str, i) IN IF k <= Len(str) THEN k + 1 ELSE k

\* The characters from i to the next c.
WordAt(c, str, i) == SubSeq(str, i, Find(c, str, i) - 1)

\* pathLen counts the "./" as well, so that an empty path passes the test.
parseHttpRequestLine(str) ==
  LET method  == WordAt(SP, str, 1)
      second  == Skip(SP, str, 1)
      path    == WordAt(SP, str, second)
      version == WordAt(SP, str, Skip(SP, str, second))
  IN  [ok   |-> method # << >> /\ version # << >>,
       path |-> << Dot, Slash >> \o path]

\* The last two characters are taken for the end of the line, and the one
\* after the colon for a space.
parseHeader(line) ==
  LET str   == SubSeq(line, 1, Len(line) - 2)
      colon == Find(Colon, str, 1)
  IN  [name  |-> SubSeq(str, 1, colon - 1),
       value |-> SubSeq(str, colon + 2, Len(str))]

\* Of what the model writes into a Content-Length.
atoi(str) == IF str # << >> /\ str[1] \in Zero .. Zero + 9 THEN str[1] - Zero ELSE 0

\* What fprintf(fp, buffer) writes of a text without conversions.
Printed(buffer) == WordAt(NUL, buffer, 1)
=============================================================================
