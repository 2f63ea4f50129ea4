---------------------------- MODULE ClosingStream ----------------------------
(***************************************************************************)
(* What package arq promises of one direction of a stream that ends: a     *)
(* reliable stream (ReliableStream) whose end is part of it.  The receiving *)
(* local connection is told the end when everything that was read at the   *)
(* other side has been acknowledged at this one; nothing is read and       *)
(* nothing is written after it.  A stream that is aborted may end early,   *)
(* and only such a stream.                                                 *)
(***************************************************************************)
EXTENDS ReliableStream

VARIABLES
  acked,    \* chunks the receiving side has acknowledged
  ended,    \* the receiving local connection was told the end of the stream
  aborted   \* the stream was reset, or its reader given up

closingVars == <<sent, acked, received, ended, aborted>>

ClosingInit == Init /\ acked = {} /\ ended = FALSE /\ aborted = FALSE

ReadOn ==
  /\ ended => aborted
  /\ Read
  /\ UNCHANGED <<acked, ended, aborted>>

Acknowledge ==
  /\ \E n \in 1 .. sent : acked' = acked \cup {n}
  /\ UNCHANGED <<sent, received, ended, aborted>>

WriteOn ==
  /\ ~ended
  /\ Write
  /\ UNCHANGED <<acked, ended, aborted>>

End ==
  /\ ~ended
  /\ acked = 1 .. sent \/ aborted
  /\ ended' = TRUE
  /\ UNCHANGED <<sent, acked, received, aborted>>

Abort ==
  /\ aborted' = TRUE
  /\ UNCHANGED <<sent, acked, received, ended>>

ClosingSpec == ClosingInit /\ [][ReadOn \/ Acknowledge \/ WriteOn \/ End \/ Abort]_closingVars

=============================================================================
