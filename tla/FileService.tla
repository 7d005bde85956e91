---------------------------- MODULE FileService ----------------------------
(***************************************************************************)
(* What http_server and http_client promise a user: the file saved grows   *)
(* as a prefix of the file asked for, and is all of it when the client has *)
(* finished.                                                               *)
(***************************************************************************)
EXTENDS Integers, Sequences

CONSTANTS Clients,
          Content  \* a function from the names of files to their bytes

VARIABLES phase,   \* of each client: idle, asked or done
          want,    \* the name of the file its user gave it
          saved    \* what it has saved

Init ==
  /\ phase = [c \in Clients |-> "idle"]
  /\ want \in [Clients -> DOMAIN Content]
  /\ saved = [c \in Clients |-> << >>]

Ask(c) ==
  /\ phase[c] = "idle"
  /\ phase' = [phase EXCEPT ![c] = "asked"]
  /\ UNCHANGED <<want, saved>>

Save(c) ==
  /\ phase[c] = "asked"
  /\ \E n \in Len(saved[c]) .. Len(Content[want[c]]) :
       saved' = [saved EXCEPT ![c] = SubSeq(Content[want[c]], 1, n)]
  /\ UNCHANGED <<phase, want>>

Finish(c) ==
  /\ phase[c] = "asked" /\ saved[c] = Content[want[c]]
  /\ phase' = [phase EXCEPT ![c] = "done"]
  /\ UNCHANGED <<want, saved>>

Next == \E c \in Clients : Ask(c) \/ Save(c) \/ Finish(c)

Spec == Init /\ [][Next]_<<phase, want, saved>>
=============================================================================
