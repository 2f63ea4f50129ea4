--------------------------- MODULE ReliableStream ---------------------------
(***************************************************************************)
(* What package arq promises its users, "a ... reliable transport overlay" *)
(* (src/masterdns/internal/arq/arq.go:7), and the stream bond for each     *)
(* direction of a connection (src/bond-server/bond.go:4): the chunks read  *)
(* from one local socket are written to the other one in the order they    *)
(* were read, each of them once, in runs of any length.                    *)
(***************************************************************************)
EXTENDS Integers, Sequences

VARIABLES
  sent,      \* chunks read from the local socket of the sending side
  received   \* the chunks written to the local socket of the receiving side

\* The stream is observed from a moment at which it is idle.
Init ==
  /\ sent \in Nat
  /\ received = [i \in 1..sent |-> i - 1]

Read ==
  /\ sent' = sent + 1
  /\ received' = received

Write ==
  /\ \E k \in 1..(sent - Len(received)) :
       received' = received \o [i \in 1..k |-> Len(received) + i - 1]
  /\ sent' = sent

Spec == Init /\ [][Read \/ Write]_<<sent, received>>

=============================================================================
