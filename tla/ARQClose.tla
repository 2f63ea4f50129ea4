------------------------------- MODULE ARQClose -------------------------------
(***************************************************************************)
(* How the two ARQ endpoints of a stream end it (package arq): the end of  *)
(* the local stream (CLOSE_READ after a drain), a local writer that broke  *)
(* (CLOSE_WRITE), resets (RST), the acknowledgements of the three, their   *)
(* retransmission and expiry, and the timeouts of retransmitLoop.          *)
(*                                                                         *)
(* An endpoint is a record; the functions of arq.go are operators from     *)
(* endpoint to endpoint and call each other as in the code.  A section of  *)
(* a.mu and the sections its goroutine enters right after it are one step, *)
(* except where what one has seen may have changed when the next acts on   *)
(* it: ioLoop tests stopLocalRead and reads later; writeLoop takes chunks  *)
(* and writes them later, and finds nothing to take, looks for the peer's  *)
(* end and half-closes in three sections; and a packet waits in rxChan     *)
(* between ReceiveData and rxLoop.  The loops end some time after the      *)
(* final close: a chunk that was read and a packet in rxChan are still     *)
(* stored.                                                                 *)
(*                                                                         *)
(* out is the set of packets an endpoint ever pushed.  A packet of it may  *)
(* be received now, later, again or never, in any order, which covers the  *)
(* retransmissions of checkRetransmits, the transmit queues, and a path    *)
(* that loses, duplicates, delays and reorders.  Times are choices: a      *)
(* deadline that is set may pass at any moment.                            *)
(***************************************************************************)
EXTENDS Naturals, FiniteSets

CONSTANTS
  ClientChunks,  \* chunks the client's application may send
  ServerChunks,  \* chunks the server's upstream may send
  Limit,         \* limit: chunks of the send window
  MayBreak,      \* endpoints whose local connection may refuse a write
  MayFail        \* endpoints whose local read may fail

Ends == {"client", "server"}

ASSUME SizesAssumption ==
  /\ ClientChunks \in Nat /\ ServerChunks \in Nat /\ Limit \in Nat \ {0}
ASSUME FaultsAssumption == MayBreak \subseteq Ends /\ MayFail \subseteq Ends

Peer(e) == IF e = "client" THEN "server" ELSE "client"
Chunks(e) == 1 .. (IF e = "client" THEN ClientChunks ELSE ServerChunks)

Terminal == {"CLOSE_READ", "CLOSE_WRITE", "RST"}
AckOf(p) == [type |-> "ACK", of |-> p]
Ctl(p) == [type |-> "CONTROL", of |-> p]
Data(n) == [type |-> "DATA", of |-> n]
DataAck(n) == [type |-> "DATA_ACK", of |-> n]

VARIABLE ep   \* the endpoints

NewARQ ==
  [ closed |-> FALSE,
    reset |-> FALSE,     \* state = StateReset; the other states are only reported
    stopLocalRead |-> FALSE, deferred |-> "none", waitingAckFor |-> "none",
    closeReadSent |-> FALSE, closeReadReceived |-> FALSE, closeReadAcked |-> FALSE,
    closeWriteSent |-> FALSE, closeWriteReceived |-> FALSE, closeWriteAcked |-> FALSE,
    rstSent |-> FALSE, rstReceived |-> FALSE,
    localWriterBroken |-> FALSE, localWriteClosed |-> FALSE,
    localWritePending |-> FALSE,
    controlSndBuf |-> {}, sndBuf |-> {}, rxChan |-> {}, rcvBuf |-> {}, rcvNxt |-> 1,
    io |-> "test",       \* ioLoop: before its test, in Read, ended by EOF or otherwise
    flushSignal |-> FALSE,
    writer |-> "wait",   \* writeLoop: blocked, at work, with nothing to take, about to
                         \* half-close, in Write, ended by a write error
    read |-> 0,          \* chunks ioLoop has read
    written |-> 0,       \* chunks the local connection has accepted
    finSent |-> FALSE,   \* CloseWrite was called on the local connection
    out |-> {} ]

-----------------------------------------------------------------------------
(* The final close.                                                        *)

IsReset(s) == s.reset \/ s.rstReceived \/ s.rstSent

\* The context is cancelled: writeLoop returns wherever it is, unless it is in Write.
Cancelled(writer) == IF writer \in {"writing", "failed"} THEN writer ELSE "wait"

\* Mutant of FinalizeClose: a close that was deferred stays armed.
MutantFinalizeClose(s) ==
  IF s.closed THEN s ELSE
  [s EXCEPT !.closed = TRUE, !.waitingAckFor = "none", !.reset = IsReset(s),
            !.sndBuf = {}, !.rcvBuf = {}, !.controlSndBuf = {},
            !.writer = Cancelled(@)]

FinalizeClose(s) ==
  IF s.closed THEN s ELSE
  [s EXCEPT !.closed = TRUE, !.deferred = "none", !.waitingAckFor = "none",
            !.reset = IsReset(s),
            !.sndBuf = {}, !.rcvBuf = {}, !.controlSndBuf = {},
            !.writer = Cancelled(@)]

TryFinalizeClientLocalDisconnect(e, s) ==
  IF /\ e = "client" /\ s.localWriterBroken
     /\ s.closeWriteAcked /\ s.closeReadSent /\ s.closeReadAcked
     /\ s.sndBuf = {} /\ s.rcvBuf = {} /\ s.rxChan = {}
     /\ ~s.localWritePending /\ s.waitingAckFor = "none" /\ s.deferred = "none"
  THEN FinalizeClose(s) ELSE s

ReceiveDrained(s) == (s.rcvBuf = {} /\ s.rxChan = {}) \/ s.localWriterBroken

WriteSideSettled(s) ==
  IF s.localWriterBroken THEN s.closeWriteAcked \/ s.closeWriteReceived
                         ELSE s.closeWriteSent => s.closeWriteAcked

\* Mutant of TryFinalizeRemoteEOF: a write in progress is not waited for.
MutantTryFinalizeRemoteEOF(e, s) ==
  IF /\ s.closeReadReceived
     /\ ReceiveDrained(s)
     /\ s.closeReadAcked \/ (s.closeReadSent /\ s.waitingAckFor # "CLOSE_READ")
     /\ WriteSideSettled(s)
  THEN FinalizeClose(s)
  ELSE TryFinalizeClientLocalDisconnect(e, s)

TryFinalizeRemoteEOF(e, s) ==
  IF /\ s.closeReadReceived
     /\ ReceiveDrained(s)
     /\ ~s.localWritePending \/ s.localWriterBroken
     /\ s.closeReadAcked \/ (s.closeReadSent /\ s.waitingAckFor # "CLOSE_READ")
     /\ WriteSideSettled(s)
  THEN FinalizeClose(s)
  ELSE TryFinalizeClientLocalDisconnect(e, s)

-----------------------------------------------------------------------------
(* Sending a terminal packet.                                              *)

\* SendControlPacketWithTTL with trackForAck: nothing if it is tracked already.
SendControlPacket(s, p) ==
  IF p \in s.controlSndBuf THEN s
  ELSE [s EXCEPT !.out = @ \cup {Ctl(p)}, !.controlSndBuf = @ \cup {p}]

MarkCloseReadSent(e, s) ==
  TryFinalizeRemoteEOF(e,
    [s EXCEPT !.closeReadSent = TRUE, !.reset = FALSE])

MarkCloseWriteSent(s) ==
  [s EXCEPT !.closeWriteSent = TRUE, !.localWriterBroken = TRUE,
            !.localWriteClosed = TRUE, !.rcvBuf = {},
            !.reset = @ /\ ~s.closeReadReceived]

MarkRstSent(s) ==
  [s EXCEPT !.rstSent = TRUE, !.reset = TRUE,
            !.sndBuf = {}, !.rcvBuf = {}, !.controlSndBuf = {}]

EmitTerminalPacket(e, s, p) ==
  LET t == [s EXCEPT !.stopLocalRead = TRUE, !.deferred = "none"]
      w == [t EXCEPT !.waitingAckFor = p]
      done == \/ t.waitingAckFor = p \/ t.rstSent \/ t.rstReceived
              \/ p = "CLOSE_READ" /\ t.closeReadSent
              \/ p = "CLOSE_WRITE" /\ t.closeWriteSent
      marked == CASE p = "CLOSE_READ" -> MarkCloseReadSent(e, w)
                  [] p = "CLOSE_WRITE" -> MarkCloseWriteSent(w)
                  [] p = "RST" -> MarkRstSent(w)
  IN IF s.closed THEN s ELSE IF done THEN t
     ELSE SendControlPacket(marked, p)

\* Close with SendRST and without AfterDrain
CloseRST(e, s) ==
  IF \/ s.closed \/ s.rstSent \/ s.rstReceived
     \/ s.waitingAckFor = "RST" \/ s.deferred = "RST"
  THEN s
  ELSE EmitTerminalPacket(e, [s EXCEPT !.reset = TRUE, !.deferred = "none"], "RST")

\* Mutant of SettleTerminalDrain: at the deadline the deferred packet is sent all the same.
MutantSettleTerminalDrain(e, s, expired) ==
  LET t == [s EXCEPT !.deferred = "none"]
  IN IF s.closed \/ s.deferred = "none" THEN s
     ELSE IF s.sndBuf = {} \/ expired
     THEN IF s.deferred = "RST" THEN CloseRST(e, t)
                                ELSE EmitTerminalPacket(e, t, s.deferred)
     ELSE s

\* settleTerminalDrain; expired: its deadline has passed
SettleTerminalDrain(e, s, expired) ==
  LET t == [s EXCEPT !.deferred = "none"]
  IN IF s.closed \/ s.deferred = "none" THEN s
     ELSE IF s.sndBuf = {}
     THEN IF s.deferred = "RST" THEN CloseRST(e, t)
                                ELSE EmitTerminalPacket(e, t, s.deferred)
     ELSE IF expired THEN CloseRST(e, t) ELSE s

\* Mutant of DeferTerminalPacket: the packet is sent at once.
MutantDeferTerminalPacket(e, s, p) ==
  IF s.closed THEN s ELSE EmitTerminalPacket(e, [s EXCEPT !.stopLocalRead = TRUE], p)

DeferTerminalPacket(e, s, p) ==
  LET t == [s EXCEPT !.stopLocalRead = TRUE, !.deferred = p]
  IN IF s.closed THEN s
     ELSE IF t.sndBuf = {} THEN SettleTerminalDrain(e, t, FALSE) ELSE t

\* Close with SendRST and AfterDrain
CloseRSTAfterDrain(e, s) ==
  IF \/ s.closed \/ s.rstSent \/ s.rstReceived
     \/ s.waitingAckFor = "RST" \/ s.deferred = "RST" \/ s.sndBuf = {}
  THEN CloseRST(e, s)
  ELSE DeferTerminalPacket(e, [s EXCEPT !.reset = TRUE, !.deferred = "none"], "RST")

Init == ep = [e \in Ends |-> NewARQ]

Becomes(e, s) == ep' = [ep EXCEPT ![e] = s]

-----------------------------------------------------------------------------
(* ioLoop.                                                                 *)

\* The top of the loop: waitWindowNotFull, then the test of stopLocalRead.
IoTest(e) ==
  LET s == ep[e]
  IN /\ s.io = "test"
     /\ Cardinality(s.sndBuf) < Limit \/ s.closed
     /\ Becomes(e, [s EXCEPT !.io = IF s.stopLocalRead \/ s.closed THEN "done" ELSE "read"])

\* Read returned a chunk: it is numbered, buffered and pushed whatever has
\* happened since the test, the final close included.
Queued(s) ==
  LET n == s.read + 1
  IN [s EXCEPT !.read = n, !.sndBuf = @ \cup {n}, !.out = @ \cup {Data(n)}]

IoChunk(e) ==
  /\ ep[e].io = "read" /\ ep[e].read + 1 \in Chunks(e)
  /\ Becomes(e, [Queued(ep[e]) EXCEPT !.io = "test"])

\* The 500 ms deadline of Read.
IoTimeout(e) ==
  /\ ep[e].io = "read"
  /\ Becomes(e, [ep[e] EXCEPT !.io = "test"])

\* EOF: Close with SendCloseRead and AfterDrain.
IoEOF(e) ==
  LET s == [ep[e] EXCEPT !.io = "eof"]
  IN /\ ep[e].io = "read"
     /\ Becomes(e, DeferTerminalPacket(e, s, "CLOSE_READ"))

\* A read error: Close with SendRST, after a drain if bytes came with it.
IoError(e) ==
  /\ e \in MayFail /\ ep[e].io = "read"
  /\ \/ Becomes(e, CloseRST(e, [ep[e] EXCEPT !.io = "done"]))
     \/ /\ ep[e].read + 1 \in Chunks(e)
        /\ Becomes(e, CloseRSTAfterDrain(e, [Queued(ep[e]) EXCEPT !.io = "done"]))

-----------------------------------------------------------------------------
(* Receiving.                                                              *)

\* A packet or a copy of it arrives.  A reset also comes as the answer to data
\* for a stream that is gone.
Incoming(e, p) == p \in ep[Peer(e)].out

Answer(s, p) == [s EXCEPT !.out = @ \cup {p}]

\* A closed stream is gone from the session: preprocessInboundPacket answers for it.
\* The server refuses data on a stream that is resetting; the client passes it on.
NeedCloseWrite(s) ==
  /\ s.localWriterBroken /\ ~s.closeWriteSent /\ s.waitingAckFor # "CLOSE_WRITE"
  /\ ~s.closed /\ ~s.rstReceived /\ ~s.rstSent

CloseWriteIfNeeded(e, s) ==
  IF NeedCloseWrite(s) THEN EmitTerminalPacket(e, s, "CLOSE_WRITE") ELSE s

ReceiveData(e, n) ==
  LET s == ep[e]
  IN /\ Incoming(e, Data(n))
     /\ Becomes(e,
          IF s.closed \/ (e = "server" /\ IsReset(s)) THEN Answer(s, Ctl("RST"))
          ELSE IF s.rstReceived \/ s.rstSent THEN s
          ELSE IF s.localWriterBroken THEN CloseWriteIfNeeded(e, s)
          ELSE [s EXCEPT !.rxChan = @ \cup {n}])

\* rxLoop: processReceivedData, which acknowledges what it stores or has stored, also
\* when the stream was closed after the packet was queued.
ProcessReceivedData(e, n) ==
  LET s == [ep[e] EXCEPT !.rxChan = @ \ {n}]
  IN /\ n \in ep[e].rxChan
     /\ Becomes(e,
          IF s.localWriterBroken \/ s.closeWriteSent \/ s.closeWriteAcked
          THEN CloseWriteIfNeeded(e, s)
          ELSE IF n < s.rcvNxt THEN Answer(s, DataAck(n))
          ELSE [Answer(s, DataAck(n)) EXCEPT !.rcvBuf = @ \cup {n}, !.flushSignal = TRUE])

\* rxLoop notices that the stream is closed: what is in rxChan is thrown away.
RxDrain(e) ==
  /\ ep[e].closed /\ ep[e].rxChan # {}
  /\ Becomes(e, [ep[e] EXCEPT !.rxChan = {}])

ReceiveAck(e, n) ==
  LET s == [ep[e] EXCEPT !.sndBuf = @ \ {n}]
      t == IF s.closeReadReceived THEN TryFinalizeRemoteEOF(e, s) ELSE s
  IN /\ DataAck(n) \in ep[Peer(e)].out /\ n \in ep[e].sndBuf
     /\ Becomes(e, SettleTerminalDrain(e, t, FALSE))

MarkCloseReadReceived(e, s) ==
  TryFinalizeRemoteEOF(e,
    [s EXCEPT !.closeReadReceived = TRUE, !.flushSignal = TRUE, !.reset = FALSE])

MarkCloseWriteReceived(e, s) ==
  TryFinalizeRemoteEOF(e,
    SettleTerminalDrain(e,
      [s EXCEPT !.closeWriteReceived = TRUE, !.stopLocalRead = TRUE, !.sndBuf = {}],
      FALSE))

\* Mutant of MarkRstReceived: nobody closes the stream.
MutantMarkRstReceived(s) ==
  [s EXCEPT !.rstReceived = TRUE, !.stopLocalRead = TRUE,
            !.reset = TRUE, !.sndBuf = {}, !.controlSndBuf = {}]

\* MarkRstReceived and the Close with Force that follows it
MarkRstReceived(s) ==
  FinalizeClose([s EXCEPT !.rstReceived = TRUE, !.stopLocalRead = TRUE,
                          !.reset = TRUE, !.sndBuf = {}, !.controlSndBuf = {}])

\* queueImmediateControlAck, then the handler; a stream that is gone is only acknowledged.
ReceiveTerminal(e, p) ==
  LET s == Answer(ep[e], AckOf(p))
  IN /\ Incoming(e, Ctl(p))
     /\ Becomes(e,
          IF s.closed THEN s
          ELSE CASE p = "CLOSE_READ" -> MarkCloseReadReceived(e, s)
                 [] p = "CLOSE_WRITE" -> MarkCloseWriteReceived(e, s)
                 [] p = "RST" -> MarkRstReceived(s))

ClearWaitingAck(s, p) ==
  IF s.waitingAckFor = p THEN [s EXCEPT !.waitingAckFor = "none"] ELSE s

MarkCloseReadAcked(s) ==
  [s EXCEPT !.closeReadAcked = TRUE, !.reset = @ /\ ~s.closeReadReceived]

MarkCloseWriteAcked(s) ==
  [s EXCEPT !.closeWriteAcked = TRUE, !.localWriterBroken = TRUE, !.localWriteClosed = TRUE]

MaybeInitiateClientCloseReadAfterWriterBreak(e, s) ==
  IF /\ e = "client" /\ s.localWriterBroken /\ ~s.closed
     /\ ~s.rstSent /\ ~s.rstReceived /\ ~s.closeReadSent /\ ~s.closeReadReceived
  THEN IF s.sndBuf # {} \/ s.localWritePending
       THEN DeferTerminalPacket(e, s, "CLOSE_READ")
       ELSE EmitTerminalPacket(e, s, "CLOSE_READ")
  ELSE s

\* Mutant of ReceiveControlAck: the end of the stream is not tried when CLOSE_READ is
\* acknowledged.
MutantReceiveControlAck(e, p) ==
  LET s == [ep[e] EXCEPT !.controlSndBuf = @ \ {p}]
  IN /\ AckOf(p) \in ep[Peer(e)].out /\ ~ep[e].closed
     /\ p \in ep[e].controlSndBuf \/ ep[e].waitingAckFor = p
     /\ Becomes(e,
          CASE p = "CLOSE_READ" -> ClearWaitingAck(MarkCloseReadAcked(s), p)
            [] p = "CLOSE_WRITE" ->
                 TryFinalizeRemoteEOF(e,
                   MaybeInitiateClientCloseReadAfterWriterBreak(e,
                     ClearWaitingAck(MarkCloseWriteAcked(s), p)))
            [] p = "RST" -> FinalizeClose([s EXCEPT !.reset = TRUE]))

\* ReceiveControlAck: counts if the packet is tracked or waited for.
ReceiveControlAck(e, p) ==
  LET s == [ep[e] EXCEPT !.controlSndBuf = @ \ {p}]
  IN /\ AckOf(p) \in ep[Peer(e)].out /\ ~ep[e].closed
     /\ p \in ep[e].controlSndBuf \/ ep[e].waitingAckFor = p
     /\ Becomes(e,
          CASE p = "CLOSE_READ" ->
                 TryFinalizeRemoteEOF(e, ClearWaitingAck(MarkCloseReadAcked(s), p))
            [] p = "CLOSE_WRITE" ->
                 TryFinalizeRemoteEOF(e,
                   MaybeInitiateClientCloseReadAfterWriterBreak(e,
                     ClearWaitingAck(MarkCloseWriteAcked(s), p)))
            [] p = "RST" -> FinalizeClose([s EXCEPT !.reset = TRUE]))

-----------------------------------------------------------------------------
(* writeLoop.                                                              *)

\* It blocks on flushSignal unless the next chunk is there already.
WriteWake(e) ==
  LET s == ep[e]
      hasReady == s.rcvNxt \in s.rcvBuf
  IN /\ s.writer = "wait" /\ ~s.closed /\ (hasReady \/ s.flushSignal)
     /\ Becomes(e, [s EXCEPT !.writer = "run", !.flushSignal = @ /\ hasReady])

\* The contiguous chunks leave rcvBuf under a.mu; the write comes after.
WriteTake(e) ==
  LET s == ep[e]
  IN /\ s.writer = "run" /\ ~s.closed /\ s.rcvNxt \in s.rcvBuf
     /\ \E end \in s.rcvNxt .. s.rcvNxt + Cardinality(s.rcvBuf) :
          /\ end \notin s.rcvBuf /\ s.rcvNxt .. end - 1 \subseteq s.rcvBuf
          /\ Becomes(e, [s EXCEPT !.writer = "writing", !.localWritePending = TRUE,
                                  !.rcvBuf = @ \ (s.rcvNxt .. end - 1), !.rcvNxt = end])

HalfCloseLocalWriter(s) ==
  IF s.localWriteClosed \/ s.closed THEN s
  ELSE [s EXCEPT !.localWriteClosed = TRUE, !.finSent = TRUE]

\* Nothing to write: this is seen under a.mu, the rest comes later.
WriteIdle(e) ==
  LET s == ep[e]
  IN /\ s.writer = "run" /\ ~s.closed /\ s.rcvNxt \notin s.rcvBuf
     /\ Becomes(e, [s EXCEPT !.writer = "empty", !.localWritePending = FALSE])

\* Has CLOSE_READ come, and is rxChan empty?  rcvBuf is not looked at again.
WriteLook(e) ==
  LET s == ep[e]
  IN /\ s.writer = "empty"
     /\ Becomes(e, IF s.closeReadReceived /\ s.rxChan = {}
                   THEN [s EXCEPT !.writer = "halfclose"]
                   ELSE TryFinalizeRemoteEOF(e, [s EXCEPT !.writer = "wait"]))

\* The half-close, then the attempt to finish.
WriteEOF(e) ==
  LET s == [ep[e] EXCEPT !.writer = "wait"]
  IN /\ ep[e].writer = "halfclose"
     /\ Becomes(e, TryFinalizeRemoteEOF(e, HalfCloseLocalWriter(s)))

\* The local connection accepts everything; one that is closed accepts nothing.
WriteDone(e) ==
  LET s == [ep[e] EXCEPT !.writer = "run", !.written = ep[e].rcvNxt - 1,
                         !.localWritePending = FALSE]
  IN /\ ep[e].writer = "writing" /\ ~ep[e].closed /\ ~ep[e].finSent
     /\ Becomes(e, TryFinalizeRemoteEOF(e, s))

\* A write error after k of the chunks: markLocalWriterBroken, then CLOSE_WRITE.
WriteFail(e) ==
  LET s == [ep[e] EXCEPT !.writer = "failed", !.localWritePending = FALSE,
                         !.localWriterBroken = TRUE, !.rcvBuf = {}]
  IN /\ ep[e].writer = "writing"
     /\ e \in MayBreak \/ ep[e].closed \/ ep[e].finSent
     /\ \E k \in ep[e].written .. ep[e].rcvNxt - 1 :
          /\ ep[e].finSent => k = ep[e].written
          /\ Becomes(e, EmitTerminalPacket(e, [s EXCEPT !.written = k], "CLOSE_WRITE"))

-----------------------------------------------------------------------------
(* retransmitLoop.                                                         *)

\* The deadline of a deferred close has passed, or its drain is stalled.
DrainTimeout(e) ==
  LET s == ep[e]
  IN /\ ~s.closed /\ s.deferred # "none"
     /\ Becomes(e, SettleTerminalDrain(e, s, TRUE))

\* ackWaitDeadline has passed; it is not looked at during a drain.
AckWaitTimeout(e) ==
  LET s == ep[e]
  IN /\ ~s.closed /\ s.deferred = "none" /\ s.waitingAckFor # "none"
     /\ Becomes(e, IF s.waitingAckFor = "RST" THEN FinalizeClose(s) ELSE CloseRST(e, s))

\* Two seconds after the client's end of stream or its acknowledgement.
CloseWriteAfterGrace(e) ==
  LET s == ep[e]
  IN /\ e = "client" /\ ~s.closed /\ s.deferred = "none"
     /\ ~s.rstSent /\ ~s.rstReceived
     /\ s.closeReadSent /\ s.closeReadAcked
     /\ ~s.closeWriteSent /\ ~s.closeWriteAcked /\ ~s.closeWriteReceived
     /\ s.waitingAckFor # "CLOSE_WRITE"
     /\ s.rcvBuf = {} /\ s.rxChan = {} /\ ~s.localWritePending
     /\ s.closeReadReceived \/ s.localWriterBroken
     /\ Becomes(e, EmitTerminalPacket(e, s, "CLOSE_WRITE"))

\* inactivityTimeout with nothing to send
InactivityTimeout(e) ==
  LET s == ep[e]
  IN /\ ~s.closed /\ s.deferred = "none" /\ ~s.rstReceived
     /\ s.sndBuf = {} /\ s.controlSndBuf = {}
     /\ Becomes(e, CloseRST(e, s))

\* A chunk has used up its retries or its time to live.
DataExpires(e) ==
  LET s == ep[e]
  IN /\ ~s.closed /\ s.sndBuf # {}
     /\ Becomes(e, CloseRST(e, s))

\* A control packet has used up its retries or its time to live.
ControlExpires(e, p) ==
  LET s == [ep[e] EXCEPT !.controlSndBuf = @ \ {p}]
  IN /\ ~ep[e].closed /\ p \in ep[e].controlSndBuf
     /\ Becomes(e, IF p = "RST" THEN FinalizeClose(s) ELSE CloseRST(e, s))

-----------------------------------------------------------------------------
IoLoop(e) == IoTest(e) \/ IoChunk(e) \/ IoTimeout(e) \/ IoEOF(e) \/ IoError(e)

WriteLoop(e) ==
  \/ WriteWake(e) \/ WriteTake(e) \/ WriteDone(e) \/ WriteFail(e)
  \/ WriteIdle(e) \/ WriteLook(e) \/ WriteEOF(e)

Network(e) ==
  \/ \E n \in Chunks(Peer(e)) : ReceiveData(e, n) \/ ProcessReceivedData(e, n)
  \/ RxDrain(e)
  \/ \E n \in Chunks(e) : ReceiveAck(e, n)
  \/ \E p \in Terminal : ReceiveTerminal(e, p) \/ ReceiveControlAck(e, p)

Timer(e) ==
  \/ DrainTimeout(e) \/ AckWaitTimeout(e) \/ CloseWriteAfterGrace(e)
  \/ InactivityTimeout(e) \/ DataExpires(e)
  \/ \E p \in Terminal : ControlExpires(e, p)

Next == \E e \in Ends : IoLoop(e) \/ WriteLoop(e) \/ Network(e) \/ Timer(e)

Spec == Init /\ [][Next]_ep

\* What the retransmission timers send again.
Retransmitted(e, p) ==
  /\ ~ep[e].closed
  /\ \/ p.type = "DATA" /\ p.of \in ep[e].sndBuf
     \/ p.type = "CONTROL" /\ p.of \in ep[e].controlSndBuf

\* What an endpoint keeps retransmitting reaches its peer over a path that is fair
\* to it, and so does the answer; the goroutines run; a write ends one way or the other.
Fairness ==
  \A e \in Ends :
    /\ WF_ep(WriteLoop(e))
    /\ WF_ep(\E n \in Chunks(Peer(e)) : Retransmitted(Peer(e), Data(n)) /\ ReceiveData(e, n))
    /\ WF_ep(\E n \in Chunks(Peer(e)) : ProcessReceivedData(e, n))
    /\ WF_ep(\E n \in Chunks(e) : ReceiveAck(e, n))
    /\ WF_ep(\E p \in Terminal : Retransmitted(Peer(e), Ctl(p)) /\ ReceiveTerminal(e, p))
    /\ WF_ep(\E p \in Terminal : Retransmitted(e, Ctl(p)) /\ ReceiveControlAck(e, p))
    /\ WF_ep(/\ ~ep[e].closed /\ ep[e].sndBuf # {} /\ ep[Peer(e)].closed
             /\ ReceiveTerminal(e, "RST"))

\* No path delivers copies of a packet for ever after its sender has dropped it.
CopiesEnd ==
  <>[][\A e \in Ends : \A n \in Chunks(Peer(e)) :
         ReceiveData(e, n) => Retransmitted(Peer(e), Data(n))]_ep

FairSpec == Spec /\ Fairness /\ CopiesEnd

\* The deadlines of retransmitLoop pass, and so does the inactivity of an endpoint
\* whose peer is gone.
TimersRun ==
  \A e \in Ends : WF_ep(\/ AckWaitTimeout(e) \/ DrainTimeout(e)
                        \/ ep[Peer(e)].closed /\ InactivityTimeout(e))

-----------------------------------------------------------------------------
(* Properties.                                                             *)

Packet == [type : {"CONTROL", "ACK"}, of : Terminal]
            \cup [type : {"DATA", "DATA_ACK"}, of : Nat \ {0}]

Endpoint ==
  [ closed : BOOLEAN, reset : BOOLEAN,
    stopLocalRead : BOOLEAN, deferred : {"none", "CLOSE_READ", "RST"},
    waitingAckFor : Terminal \cup {"none"},
    closeReadSent : BOOLEAN, closeReadReceived : BOOLEAN, closeReadAcked : BOOLEAN,
    closeWriteSent : BOOLEAN, closeWriteReceived : BOOLEAN, closeWriteAcked : BOOLEAN,
    rstSent : BOOLEAN, rstReceived : BOOLEAN,
    localWriterBroken : BOOLEAN, localWriteClosed : BOOLEAN, localWritePending : BOOLEAN,
    controlSndBuf : SUBSET Terminal, sndBuf : SUBSET (Nat \ {0}), rxChan : SUBSET (Nat \ {0}),
    rcvBuf : SUBSET (Nat \ {0}), rcvNxt : Nat \ {0},
    io : {"test", "read", "eof", "done"}, flushSignal : BOOLEAN,
    writer : {"wait", "run", "empty", "halfclose", "writing", "failed"},
    read : Nat, written : Nat,
    finSent : BOOLEAN,
    out : SUBSET Packet ]

\* Type invariant; and an endpoint that is closed has no close in progress: neither a
\* deferred one nor one that waits for its acknowledgement.
TypeOK ==
  /\ ep \in [Ends -> Endpoint]
  /\ \A e \in Ends : ep[e].closed => ep[e].deferred = "none" /\ ep[e].waitingAckFor = "none"

Resetting(e) == ep[e].rstSent \/ ep[e].rstReceived

\* Closed without a reset
Graceful(e) == ep[e].closed /\ ~ep[e].reset

\* The client announces the end of its stream when its writer has failed although
\* ioLoop may be in a read that still returns a chunk.
ClientGaveUp == ep["client"].writer = "failed"

\* When the local connection is half-closed, every chunk the other side has read is here,
\* written, taken by writeLoop or in rcvBuf, and none is still to come: CLOSE_READ is sent
\* after the drain, by whichever of ioLoop, ReceiveAck and retransmitLoop finds it drained,
\* and no read is under way then.  (Not every chunk need be written: writeLoop looks for the
\* next chunk, and for CLOSE_READ and an empty rxChan, in two sections, and a chunk stored
\* between them is still in rcvBuf at the half-close.)
EofHeld ==
  \A e \in Ends :
    /\ ep[e].finSent /\ ~ep[e].closed /\ ~Resetting(e)
    /\ ep[e].writer # "failed" /\ ~(e = "server" /\ ClientGaveUp)
    => \A n \in 1 .. ep[Peer(e)].read : n < ep[e].rcvNxt \/ n \in ep[e].rcvBuf

\* The chunks that the local connection of e was given, from the peer's connection.
Received(e) == [i \in 1 .. ep[e].written |-> i - 1]
Aborted(e) == Resetting(e) \/ (e = "server" /\ ClientGaveUp)

Acked(e) == {n \in 1 .. ep[Peer(e)].read : DataAck(n) \in ep[e].out}

ToServer == INSTANCE ClosingStream
  WITH sent <- ep["client"].read, acked <- Acked("server"), received <- Received("server"),
       ended <- ep["server"].finSent, aborted <- Aborted("server")
ToClient == INSTANCE ClosingStream
  WITH sent <- ep["server"].read, acked <- Acked("client"), received <- Received("client"),
       ended <- ep["client"].finSent, aborted <- Aborted("client")

\* Through all the ways to close, each direction is a reliable stream with an end: writeLoop
\* gives the local connection what the peer read, in order and once; it half-closes the
\* connection only when every chunk the peer has read is acknowledged; afterwards the peer
\* reads and writeLoop writes no more; only a stream that is being reset, or that the client
\* gave up, ends early.  (What is acknowledged may be unwritten at the half-close.)
ClosesReliably == ToServer!ClosingSpec /\ ToClient!ClosingSpec

\* An endpoint that ends without a reset, and whose local connection took what it was
\* given, has written everything the peer has read: none of the calls of
\* tryFinalizeRemoteEOF closes the connection while writeLoop holds chunks.
EndComplete ==
  \A e \in Ends :
    Graceful(e) /\ ep[e].writer # "failed" /\ ~(e = "server" /\ ClientGaveUp)
      => ep[e].written = ep[Peer(e)].read

\* An endpoint that ends without a reset has had every chunk it read acknowledged,
\* unless the peer said it would take no more (CLOSE_WRITE).
EndAcked ==
  \A e \in Ends :
    Graceful(e) /\ ~(e = "client" /\ ClientGaveUp) /\ ~ep[e].closeWriteReceived
      => \A n \in 1 .. ep[e].read : DataAck(n) \in ep[Peer(e)].out

BothClosed == \A e \in Ends : ep[e].closed

Troubled == \E e \in Ends : ep[e].writer = "failed" \/ ep[e].rstSent

\* writeLoop sleeps although everything is there for it to close the local
\* connection or to finish: it was woken while a copy of an old chunk was in rxChan,
\* and processReceivedData drops such a copy without a signal.
WakeLost(e) ==
  LET s == ep[e] IN
  /\ ~s.closed /\ s.closeReadReceived /\ s.rcvBuf = {} /\ s.rxChan = {}
  /\ s.writer = "wait" /\ ~s.flushSignal /\ s.rcvNxt > 1
  /\ ~s.localWriteClosed \/ TryFinalizeRemoteEOF(e, s).closed

\* When both local streams have ended, both endpoints close: neither waits for ever
\* for an acknowledgement the other gave before it closed, unless a wake-up of
\* writeLoop is lost.  (A write error or a reset ends the stream the other way.)
GracefulEnds ==
  (\A e \in Ends : ep[e].io = "eof") ~> BothClosed \/ Troubled \/ (\E e \in Ends : WakeLost(e))

\* No endpoint outlives its peer: data for a stream that is gone is answered by RST,
\* closes are acknowledged for it, and the deadlines end the rest.
NoHalfOpen == TimersRun => ((\E e \in Ends : ep[e].closed) ~> BothClosed)

=============================================================================
