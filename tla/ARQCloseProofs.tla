--------------------------- MODULE ARQCloseProofs ---------------------------
(***************************************************************************)
(* The safety of ARQClose for every number of chunks, every window and     *)
(* every choice of the endpoints whose local connections fail.             *)
(*                                                                         *)
(* The invariant relates an endpoint s to its peer q.  Its core is a chain *)
(* through both of them: whoever sent CLOSE_READ had no chunk left that    *)
(* was not acknowledged (Closing); an acknowledgement says that the chunk  *)
(* was written or is in rcvBuf (Heard); so an endpoint that has received   *)
(* CLOSE_READ has everything (AfterEnd), and if it holds nothing in order  *)
(* it has written everything (AllHere).  A read that was under way when    *)
(* CLOSE_READ was sent would break the chain: CLOSE_READ is sent after     *)
(* ioLoop has ended, except by a client whose writer has failed (Flags).   *)
(*                                                                         *)
(* There is a lemma for each function of arq.go that maps an endpoint to   *)
(* an endpoint (it keeps Pair), and one for each action, which composes    *)
(* them the way the action does.                                           *)
(*                                                                         *)
(* With the invariant before and after a step, each direction of the       *)
(* stream implements ClosingStream (the last section).                     *)
(***************************************************************************)
EXTENDS ARQClose, Integers, SequenceTheorems, TLAPS

\* The client sends CLOSE_READ although ioLoop may still be reading.
GaveUp(e, s) == e = "client" /\ s.writer = "failed"

\* ioLoop reads no more.
Ended(s) == s.io \in {"eof", "done"}

\* The stream has thrown its chunks away.
Lost(s) == s.closed \/ s.rstSent \/ s.rstReceived

AllAcked(s, q) == \A n \in 1 .. s.read : DataAck(n) \in q.out

\* What the flags of one endpoint say of each other.
Flags(e, s) ==
  /\ s.closed => s.deferred = "none" /\ s.waitingAckFor = "none"
  /\ Ctl("CLOSE_READ") \in s.out \/ "CLOSE_READ" \in s.controlSndBuf
       \/ s.waitingAckFor = "CLOSE_READ" \/ s.closeReadAcked => s.closeReadSent
  /\ Ctl("CLOSE_WRITE") \in s.out \/ "CLOSE_WRITE" \in s.controlSndBuf
       \/ s.waitingAckFor = "CLOSE_WRITE" => s.closeWriteSent
  /\ "RST" \in s.controlSndBuf \/ s.waitingAckFor = "RST" => s.rstSent
  /\ s.closeWriteSent => s.localWriteClosed /\ s.localWriterBroken
  /\ s.writer = "halfclose" \/ s.finSent => s.closeReadReceived
  /\ s.finSent => s.localWriteClosed
  /\ s.deferred = "CLOSE_READ" \/ s.closeReadSent => Ended(s) \/ GaveUp(e, s)

\* The chunks of one endpoint: what it sends it has read, what is written is below
\* rcvNxt, and outside of a write everything below rcvNxt is written.
Chunking(s) ==
  /\ \A n \in Nat : Data(n) \in s.out => n \in 1 .. s.read
  /\ s.sndBuf \subseteq 1 .. s.read
  /\ s.written <= s.rcvNxt - 1
  /\ s.writer \notin {"writing", "failed"} => s.written = s.rcvNxt - 1
  /\ s.writer = "writing" => s.localWritePending

\* What an endpoint holds or has heard comes from its peer; what it acknowledged it has;
\* what it read is tracked until it is acknowledged.
Heard(e, s, q) ==
  /\ s.rxChan \subseteq 1 .. q.read /\ s.rcvBuf \subseteq 1 .. q.read
  /\ s.rcvNxt - 1 <= q.read
  /\ \A n \in Nat : DataAck(n) \in s.out => n \in 1 .. q.read
  /\ \A n \in Nat : DataAck(n) \in s.out =>
       n < s.rcvNxt \/ n \in s.rcvBuf \/ s.localWriterBroken \/ Lost(s)
  /\ \A n \in 1 .. s.read :
       n \in s.sndBuf \/ DataAck(n) \in q.out \/ Lost(s) \/ s.closeWriteReceived
  /\ s.closeWriteReceived => Ctl("CLOSE_WRITE") \in q.out
  /\ s.closeReadReceived => Ctl("CLOSE_READ") \in q.out

\* What the ends of the streams mean: a writer is given up without an error only by a
\* client that has everything; CLOSE_READ comes after the last acknowledgement, or after
\* the peer's writer failed; a graceful end comes after the last write.
Closing(e, s, q) ==
  /\ s.localWriterBroken /\ s.writer # "failed" =>
       /\ e = "client" /\ s.localWriteClosed /\ s.closeReadSent /\ s.closeReadReceived
       /\ s.rcvBuf = {} /\ s.written = q.read /\ s.rcvNxt - 1 = q.read
  /\ s.closeReadSent /\ ~GaveUp(e, s) =>
       AllAcked(s, q) \/ (s.closeWriteReceived /\ q.writer = "failed" /\ ~q.finSent)
  /\ s.closed /\ ~s.reset =>
       /\ s.closeReadSent
       /\ s.writer # "failed" => s.closeReadReceived
       /\ s.writer # "failed" /\ ~GaveUp(Peer(e), q) => s.written = q.read

Half(e, s, q) == Flags(e, s) /\ Chunking(s) /\ Heard(e, s, q) /\ Closing(e, s, q)

\* An endpoint and its peer
Pair(e, s, q) == /\ s \in Endpoint /\ q \in Endpoint
                 /\ Half(e, s, q) /\ Half(Peer(e), q, s)

\* The inductive invariant
IInv == ep \in [Ends -> Endpoint] /\ \A e \in Ends : Half(e, ep[e], ep[Peer(e)])

-----------------------------------------------------------------------------
\* Packets of different kinds, or with different contents, are different.
LEMMA Kinds ==
  \A m, n : /\ DataAck(m) = DataAck(n) => m = n
            /\ Data(m) = Data(n) => m = n
            /\ Ctl(m) = Ctl(n) => m = n
            /\ Data(m) # DataAck(n) /\ Data(m) # Ctl(n) /\ DataAck(m) # Ctl(n)
            /\ AckOf(m) # Data(n) /\ AckOf(m) # DataAck(n) /\ AckOf(m) # Ctl(n)
BY DEF DataAck, Data, Ctl, AckOf

\* What an endpoint sends are packets.
LEMMA Packets ==
  /\ \A p \in Terminal : Ctl(p) \in Packet /\ AckOf(p) \in Packet
  /\ \A n \in Nat \ {0} : Data(n) \in Packet /\ DataAck(n) \in Packet
BY DEF Ctl, AckOf, Data, DataAck, Packet

\* Each endpoint is the peer of its peer.
LEMMA Peers == \A e \in Ends : Peer(e) \in Ends /\ Peer(Peer(e)) = e /\ Peer(e) # e
BY DEF Ends, Peer

\* What a graceful end needs.
MayEnd(e, s, q) ==
  /\ s.closeReadSent
  /\ s.writer # "failed" => s.closeReadReceived
  /\ s.writer # "failed" /\ ~GaveUp(Peer(e), q) => s.written = q.read

\* The final close leaves an endpoint.
LEMMA FinalizeType ==
  ASSUME NEW s \in Endpoint
  PROVE  FinalizeClose(s) \in Endpoint
<1>1. CASE s.closed  BY <1>1 DEF FinalizeClose
<1>2. CASE ~s.closed
  <2> DEFINE r == IsReset(s)
             w == Cancelled(s.writer)
             t == [s EXCEPT !.closed = TRUE, !.deferred = "none", !.waitingAckFor = "none",
                            !.reset = r, !.sndBuf = {}, !.rcvBuf = {},
                            !.controlSndBuf = {}, !.writer = w]
  <2>1. FinalizeClose(s) = t  BY <1>2 DEF FinalizeClose, Endpoint
  <2>2. /\ r \in BOOLEAN
        /\ w \in {"wait", "run", "empty", "halfclose", "writing", "failed"}
    BY DEF IsReset, Cancelled, Endpoint
  <2> HIDE DEF r, w
  <2>3. t \in Endpoint  BY <2>2 DEF Endpoint
  <2>4. QED BY <2>1, <2>3
<1>3. QED BY <1>1, <1>2

\* The final close keeps the invariant if the stream was reset or is complete.
LEMMA FinalizePair ==
  ASSUME NEW e \in Ends, NEW s, NEW q, Pair(e, s, q),
         s.reset \/ s.rstSent \/ s.rstReceived \/ MayEnd(e, s, q)
  PROVE  Pair(e, FinalizeClose(s), q)
<1>1. CASE s.closed  BY <1>1 DEF FinalizeClose
<1>2. CASE ~s.closed
  <2> DEFINE t == FinalizeClose(s)
  <2>1. t \in Endpoint  BY FinalizeType DEF Pair
  <2>2. Half(e, t, q)
    BY <1>2 DEF MayEnd, FinalizeClose, Cancelled, IsReset, Pair, Half, Flags, Chunking, Heard,
         Closing, Lost, Ended, GaveUp, AllAcked, Endpoint
  <2>3. Half(Peer(e), q, t)
    BY <1>2 DEF FinalizeClose, Cancelled, IsReset, Pair, Half, Flags, Chunking, Heard,
         Closing, Lost, Ended, GaveUp, AllAcked, Endpoint
  <2>4. QED BY <2>1, <2>2, <2>3 DEF Pair
<1>3. QED BY <1>1, <1>2

\* Once the peer has said that its stream is over, and every chunk it said to be delivered
\* has left rcvBuf, nothing is missing.
LEMMA AllHere ==
  ASSUME NEW e \in Ends, NEW s, NEW q, Pair(e, s, q), s.closeReadReceived, ~Lost(s),
         s.writer # "failed", ~s.localWriterBroken, s.rcvNxt \notin s.rcvBuf,
         ~GaveUp(Peer(e), q)
  PROVE  s.rcvNxt - 1 = q.read
<1>1. q.closeReadSent  BY DEF Pair, Half, Heard, Flags
<1>2. AllAcked(q, s)  BY <1>1 DEF Pair, Half, Closing
<1>3. s.rcvNxt \in Nat \ {0} /\ q.read \in Nat /\ s.rcvNxt - 1 <= q.read
  BY DEF Pair, Half, Heard, Endpoint
<1>4. SUFFICES ASSUME s.rcvNxt \in 1 .. q.read PROVE FALSE  BY <1>3
<1>5. DataAck(s.rcvNxt) \in s.out  BY <1>2, <1>4 DEF AllAcked
<1>6. QED BY <1>3, <1>5 DEF Pair, Half, Heard

\* tryFinalizeRemoteEOF.
LEMMA TryPair ==
  ASSUME NEW e \in Ends, NEW s, NEW q, Pair(e, s, q)
  PROVE  Pair(e, TryFinalizeRemoteEOF(e, s), q)
<1>1. CASE s.closed
  BY <1>1 DEF TryFinalizeRemoteEOF, TryFinalizeClientLocalDisconnect, FinalizeClose
<1>2. CASE s.reset \/ s.rstSent \/ s.rstReceived
  BY <1>2, FinalizePair DEF TryFinalizeRemoteEOF, TryFinalizeClientLocalDisconnect
<1>3. CASE ~s.closed /\ ~s.reset /\ ~s.rstSent /\ ~s.rstReceived
  <2>1. ASSUME s.localWriterBroken, s.closeReadSent PROVE MayEnd(e, s, q)
    BY <2>1 DEF MayEnd, Pair, Half, Closing
  <2>2. ASSUME ~s.localWriterBroken, s.closeReadSent, s.closeReadReceived, s.rcvBuf = {},
               ~s.localWritePending
        PROVE  MayEnd(e, s, q)
    <3>1. SUFFICES ASSUME s.writer # "failed", ~GaveUp(Peer(e), q) PROVE s.written = q.read
      BY <2>2 DEF MayEnd
    <3>2. s.rcvNxt - 1 = q.read  BY <1>3, <2>2, <3>1, AllHere DEF Lost
    <3>3. s.writer \notin {"writing", "failed"}  BY <2>2, <3>1 DEF Pair, Half, Chunking
    <3>4. QED BY <3>2, <3>3 DEF Pair, Half, Chunking
  <2>3. s.closeReadAcked => s.closeReadSent  BY DEF Pair, Half, Flags
  <2>4. CASE /\ s.closeReadReceived
             /\ ReceiveDrained(s)
             /\ ~s.localWritePending \/ s.localWriterBroken
             /\ s.closeReadAcked \/ (s.closeReadSent /\ s.waitingAckFor # "CLOSE_READ")
             /\ WriteSideSettled(s)
    <3>1. MayEnd(e, s, q)  BY <2>1, <2>2, <2>3, <2>4 DEF ReceiveDrained
    <3>2. QED BY <2>4, <3>1, FinalizePair DEF TryFinalizeRemoteEOF
  <2>5. Pair(e, TryFinalizeClientLocalDisconnect(e, s), q)
    BY <2>1, FinalizePair DEF TryFinalizeClientLocalDisconnect
  <2>6. QED BY <2>4, <2>5 DEF TryFinalizeRemoteEOF
<1>4. QED BY <1>1, <1>2, <1>3

-----------------------------------------------------------------------------
(* Sending a terminal packet.                                              *)

\* Whoever sends CLOSE_READ has nothing left to send.
MayCloseRead(e, s) == (s.sndBuf = {} /\ Ended(s)) \/ GaveUp(e, s)

\* Whoever sends CLOSE_WRITE has a broken writer or has everything.
MayCloseWrite(e, s, q) ==
  \/ s.writer = "failed"
  \/ /\ e = "client" /\ s.closeReadSent /\ s.closeReadReceived
     /\ s.rcvBuf = {} /\ s.written = q.read /\ s.rcvNxt - 1 = q.read

\* The deferred packet is dropped, and reading stops.
LEMMA StopPair ==
  ASSUME NEW e \in Ends, NEW s, NEW q, Pair(e, s, q)
  PROVE  Pair(e, [s EXCEPT !.stopLocalRead = TRUE, !.deferred = "none"], q)
<1> DEFINE t == [s EXCEPT !.stopLocalRead = TRUE, !.deferred = "none"]
<1>1. t \in Endpoint
  BY Kinds DEF Pair, Half, Flags, Chunking, Heard, Closing, Lost, Ended, GaveUp, AllAcked,
       Endpoint
<1>2. Half(e, t, q)
  BY Kinds DEF Pair, Half, Flags, Chunking, Heard, Closing, Lost, Ended, GaveUp, AllAcked,
       Endpoint
<1>3. Half(Peer(e), q, t)
  BY Kinds DEF Pair, Half, Flags, Chunking, Heard, Closing, Lost, Ended, GaveUp, AllAcked,
       Endpoint
<1>4. QED BY <1>1, <1>2, <1>3 DEF Pair

\* CLOSE_READ is sent.
LEMMA CloseReadPair ==
  ASSUME NEW e \in Ends, NEW s, NEW q, Pair(e, s, q),
         ~s.closed, ~s.rstSent, ~s.rstReceived, ~s.closeReadSent, MayCloseRead(e, s)
  PROVE  LET w == [s EXCEPT !.waitingAckFor = "CLOSE_READ"]
         IN Pair(e, SendControlPacket(MarkCloseReadSent(e, w), "CLOSE_READ"), q)
<1> DEFINE m == [s EXCEPT !.waitingAckFor = "CLOSE_READ", !.closeReadSent = TRUE,
                          !.reset = FALSE]
           t == [m EXCEPT !.out = @ \cup {Ctl("CLOSE_READ")},
                          !.controlSndBuf = @ \cup {"CLOSE_READ"}]
<1>1. ~s.closeReadAcked /\ "CLOSE_READ" \notin s.controlSndBuf  BY DEF Pair, Half, Flags
<1>2. MarkCloseReadSent(e, [s EXCEPT !.waitingAckFor = "CLOSE_READ"]) = m
  BY <1>1 DEF MarkCloseReadSent, TryFinalizeRemoteEOF, TryFinalizeClientLocalDisconnect,
       Pair,
       Endpoint
<1>3. SendControlPacket(m, "CLOSE_READ") = t  BY <1>1 DEF SendControlPacket, Pair, Endpoint
<1>4. t \in Endpoint
  <2>1. s \in Endpoint  BY DEF Pair
  <2>2. "CLOSE_READ" \in Terminal  BY DEF Terminal
  <2>3. Ctl("CLOSE_READ") \in Packet  BY <2>2, Packets
  <2>4. m \in Endpoint  BY <2>1, <2>2 DEF Endpoint
  <2> HIDE DEF m
  <2>5. QED BY <2>2, <2>3, <2>4 DEF Endpoint
<1>5. \/ AllAcked(s, q) \/ GaveUp(e, s)
      \/ s.closeWriteReceived /\ q.writer = "failed" /\ ~q.finSent
  <2>1. ~q.closeReadReceived /\ ~q.finSent  BY DEF Pair, Half, Heard, Flags
  <2>2. CASE s.closeWriteReceived
    BY <2>1, <2>2 DEF Pair, Half, Heard, Flags, Closing
  <2>3. CASE ~s.closeWriteReceived
    BY <2>3 DEF MayCloseRead, Pair, Half, Heard, Lost, AllAcked
  <2>4. QED BY <2>2, <2>3
<1>6. /\ t.out = s.out \cup {Ctl("CLOSE_READ")}
      /\ \A n : /\ Data(n) \in t.out <=> Data(n) \in s.out
                /\ DataAck(n) \in t.out <=> DataAck(n) \in s.out
  <2>1. t.out = s.out \cup {Ctl("CLOSE_READ")}  BY DEF Pair, Endpoint
  <2>2. QED BY <2>1, Kinds
<1>7. Half(e, t, q)
  <2>1. Flags(e, t)
    BY <1>5, Kinds DEF Flags, MayCloseRead, Pair, Half, Ended, GaveUp, Endpoint
  <2>2. Chunking(t)  BY <1>6 DEF Chunking, Pair, Half, Endpoint
  <2>3. Heard(e, t, q)  BY <1>5, <1>6 DEF Heard, Pair, Half, Lost, Endpoint
  <2>4. Closing(e, t, q)
    BY <1>5, Kinds DEF Closing, MayCloseRead, Pair, Half, GaveUp, AllAcked, Endpoint
  <2>5. QED BY <2>1, <2>2, <2>3, <2>4 DEF Half
<1>8. Half(Peer(e), q, t)
  BY Kinds DEF Pair, Half, Flags, Chunking, Heard, Closing, Lost, Ended, GaveUp, AllAcked,
       Endpoint
<1>9. QED BY <1>2, <1>3, <1>4, <1>7, <1>8 DEF Pair

\* CLOSE_WRITE is sent.
LEMMA CloseWritePair ==
  ASSUME NEW e \in Ends, NEW s, NEW q, Pair(e, s, q),
         ~s.closed, ~s.rstSent, ~s.rstReceived, ~s.closeWriteSent, MayCloseWrite(e, s, q)
  PROVE  LET w == [s EXCEPT !.waitingAckFor = "CLOSE_WRITE"]
         IN Pair(e, SendControlPacket(MarkCloseWriteSent(w), "CLOSE_WRITE"), q)
<1> DEFINE r == s.reset /\ ~s.closeReadReceived
           m == [s EXCEPT !.waitingAckFor = "CLOSE_WRITE", !.closeWriteSent = TRUE,
                          !.localWriterBroken = TRUE, !.localWriteClosed = TRUE,
                          !.rcvBuf = {}, !.reset = r]
           t == [m EXCEPT !.out = @ \cup {Ctl("CLOSE_WRITE")},
                          !.controlSndBuf = @ \cup {"CLOSE_WRITE"}]
<1>1. "CLOSE_WRITE" \notin s.controlSndBuf  BY DEF Pair, Half, Flags
<1>2. MarkCloseWriteSent([s EXCEPT !.waitingAckFor = "CLOSE_WRITE"]) = m
  BY DEF MarkCloseWriteSent, Pair, Endpoint
<1>3. SendControlPacket(m, "CLOSE_WRITE") = t  BY <1>1 DEF SendControlPacket, Pair, Endpoint
<1>4. r \in BOOLEAN  OBVIOUS
<1> HIDE DEF r
<1>5. t \in Endpoint
  <2>1. s \in Endpoint  BY DEF Pair
  <2>2. "CLOSE_WRITE" \in Terminal  BY DEF Terminal
  <2>3. Ctl("CLOSE_WRITE") \in Packet  BY <2>2, Packets
  <2>4. m \in Endpoint  BY <1>4, <2>1, <2>2 DEF Endpoint
  <2> HIDE DEF m
  <2>5. QED BY <2>2, <2>3, <2>4 DEF Endpoint
<1>6. /\ t.out = s.out \cup {Ctl("CLOSE_WRITE")}
      /\ \A n : /\ Data(n) \in t.out <=> Data(n) \in s.out
                /\ DataAck(n) \in t.out <=> DataAck(n) \in s.out
  <2>1. t.out = s.out \cup {Ctl("CLOSE_WRITE")}  BY DEF Pair, Endpoint
  <2>2. QED BY <2>1, Kinds
<1>7. Half(e, t, q)
  <2>1. Flags(e, t)  BY Kinds DEF Flags, MayCloseWrite, Pair, Half, Ended, GaveUp, Endpoint
  <2>2. Chunking(t)  BY <1>6 DEF Chunking, Pair, Half, Endpoint
  <2>3. Heard(e, t, q)  BY <1>6 DEF Heard, Pair, Half, Lost, Endpoint
  <2>4. Closing(e, t, q)
    BY Kinds DEF Closing, MayCloseWrite, Pair, Half, GaveUp, AllAcked, Endpoint
  <2>5. QED BY <2>1, <2>2, <2>3, <2>4 DEF Half
<1>8. Half(Peer(e), q, t)
  BY Kinds DEF Pair, Half, Flags, Chunking, Heard, Closing, Lost, Ended, GaveUp, AllAcked,
       Endpoint
<1>9. QED BY <1>2, <1>3, <1>5, <1>7, <1>8 DEF Pair

\* RST is sent.
LEMMA RstPair ==
  ASSUME NEW e \in Ends, NEW s, NEW q, Pair(e, s, q), ~s.closed
  PROVE  LET w == [s EXCEPT !.waitingAckFor = "RST"]
         IN Pair(e, SendControlPacket(MarkRstSent(w), "RST"), q)
<1> DEFINE m == [s EXCEPT !.waitingAckFor = "RST", !.rstSent = TRUE, !.reset = TRUE,
                          !.sndBuf = {}, !.rcvBuf = {}, !.controlSndBuf = {}]
           t == [m EXCEPT !.out = @ \cup {Ctl("RST")}, !.controlSndBuf = {"RST"}]
<1>1. MarkRstSent([s EXCEPT !.waitingAckFor = "RST"]) = m
  BY DEF MarkRstSent, Pair, Endpoint
<1>2. SendControlPacket(m, "RST") = t  BY DEF SendControlPacket, Pair, Endpoint
<1>3. t \in Endpoint
  <2>1. s \in Endpoint  BY DEF Pair
  <2>2. "RST" \in Terminal  BY DEF Terminal
  <2>3. Ctl("RST") \in Packet  BY <2>2, Packets
  <2>4. m \in Endpoint  BY <2>1, <2>2 DEF Endpoint
  <2> HIDE DEF m
  <2>5. QED BY <2>2, <2>3, <2>4 DEF Endpoint
<1>4. Half(e, t, q)
  <2>1. Flags(e, t)  BY Kinds DEF Flags, Pair, Half, Ended, GaveUp, Endpoint
  <2>2. Chunking(t)
    <3>1. \A n : Data(n) \in t.out <=> Data(n) \in s.out  BY Kinds DEF Pair, Endpoint
    <3> QED BY <3>1 DEF Chunking, Pair, Half, Endpoint
  <2>3. Heard(e, t, q)
    <3>1. \A n : DataAck(n) \in t.out <=> DataAck(n) \in s.out  BY Kinds DEF Pair, Endpoint
    <3> QED BY <3>1 DEF Heard, Pair, Half, Lost, Endpoint
  <2>4. Closing(e, t, q)  BY Kinds DEF Closing, Pair, Half, GaveUp, AllAcked, Endpoint
  <2>5. QED BY <2>1, <2>2, <2>3, <2>4 DEF Half
<1>5. Half(Peer(e), q, t)
  BY Kinds DEF Pair, Half, Flags, Chunking, Heard, Closing, Lost, Ended, GaveUp, AllAcked,
       Endpoint
<1>6. QED BY <1>1, <1>2, <1>3, <1>4, <1>5 DEF Pair

\* emitTerminalPacketWithTTL.
LEMMA EmitPair ==
  ASSUME NEW e \in Ends, NEW s, NEW q, Pair(e, s, q), NEW p \in Terminal,
         p = "CLOSE_READ" => MayCloseRead(e, s),
         p = "CLOSE_WRITE" => MayCloseWrite(e, s, q)
  PROVE  Pair(e, EmitTerminalPacket(e, s, p), q)
<1> DEFINE t == [s EXCEPT !.stopLocalRead = TRUE, !.deferred = "none"]
           w == [t EXCEPT !.waitingAckFor = p]
<1>1. Pair(e, t, q)  BY StopPair
<1>2. /\ t.closed = s.closed /\ t.rstSent = s.rstSent /\ t.rstReceived = s.rstReceived
      /\ t.closeReadSent = s.closeReadSent /\ t.closeWriteSent = s.closeWriteSent
      /\ t.waitingAckFor = s.waitingAckFor
  BY DEF Pair, Endpoint
<1>3. MayCloseRead(e, s) => MayCloseRead(e, t)
  BY DEF MayCloseRead, Ended, GaveUp, Pair, Endpoint
<1>4. MayCloseWrite(e, s, q) => MayCloseWrite(e, t, q)  BY DEF MayCloseWrite, Pair, Endpoint
<1>5. CASE s.closed  BY <1>5 DEF EmitTerminalPacket
<1>6. CASE /\ ~s.closed
           /\ \/ t.waitingAckFor = p \/ t.rstSent \/ t.rstReceived
              \/ p = "CLOSE_READ" /\ t.closeReadSent
              \/ p = "CLOSE_WRITE" /\ t.closeWriteSent
  <2>1. EmitTerminalPacket(e, s, p) = t  BY <1>6 DEF EmitTerminalPacket
  <2>2. QED BY <1>1, <2>1
<1>7. CASE /\ ~s.closed
           /\ ~(\/ t.waitingAckFor = p \/ t.rstSent \/ t.rstReceived
                \/ p = "CLOSE_READ" /\ t.closeReadSent
                \/ p = "CLOSE_WRITE" /\ t.closeWriteSent)
  <2> HIDE DEF t
  <2>1. CASE p = "CLOSE_READ"
    <3>1. EmitTerminalPacket(e, s, p) = SendControlPacket(MarkCloseReadSent(e, w), p)
      BY <1>7, <2>1 DEF EmitTerminalPacket, t
    <3>2. QED BY <1>1, <1>2, <1>3, <1>7, <2>1, <3>1, CloseReadPair
  <2>2. CASE p = "CLOSE_WRITE"
    <3>1. EmitTerminalPacket(e, s, p) = SendControlPacket(MarkCloseWriteSent(w), p)
      BY <1>7, <2>2 DEF EmitTerminalPacket, t
    <3>2. QED BY <1>1, <1>2, <1>4, <1>7, <2>2, <3>1, CloseWritePair
  <2>3. CASE p = "RST"
    <3>1. EmitTerminalPacket(e, s, p) = SendControlPacket(MarkRstSent(w), p)
      BY <1>7, <2>3 DEF EmitTerminalPacket, t
    <3>2. QED BY <1>1, <1>2, <1>7, <2>3, <3>1, RstPair
  <2>4. QED BY <2>1, <2>2, <2>3 DEF Terminal
<1>8. QED BY <1>5, <1>6, <1>7

\* Close with SendRST.
LEMMA CloseRSTPair ==
  ASSUME NEW e \in Ends, NEW s, NEW q, Pair(e, s, q)
  PROVE  Pair(e, CloseRST(e, s), q)
<1> DEFINE t == [s EXCEPT !.reset = TRUE, !.deferred = "none"]
<1>1. CASE \/ s.closed \/ s.rstSent \/ s.rstReceived
           \/ s.waitingAckFor = "RST" \/ s.deferred = "RST"
  BY <1>1 DEF CloseRST
<1>2. CASE ~(\/ s.closed \/ s.rstSent \/ s.rstReceived
             \/ s.waitingAckFor = "RST" \/ s.deferred = "RST")
  <2>1. t \in Endpoint  BY DEF Pair, Endpoint
  <2>2. Half(e, t, q)
    BY <1>2 DEF Pair, Half, Flags, Chunking, Heard, Closing, Lost, Ended, GaveUp, AllAcked,
         Endpoint
  <2>3. Half(Peer(e), q, t)
    BY <1>2 DEF Pair, Half, Flags, Chunking, Heard, Closing, Lost, Ended, GaveUp, AllAcked,
         Endpoint
  <2>4. Pair(e, t, q)  BY <2>1, <2>2, <2>3 DEF Pair
  <2>5. CloseRST(e, s) = EmitTerminalPacket(e, t, "RST")  BY <1>2 DEF CloseRST
  <2> HIDE DEF t
  <2>6. QED BY <2>4, <2>5, EmitPair DEF Terminal
<1>3. QED BY <1>1, <1>2

\* settleTerminalDrain.
LEMMA SettlePair ==
  ASSUME NEW e \in Ends, NEW s, NEW q, Pair(e, s, q), NEW expired \in BOOLEAN
  PROVE  Pair(e, SettleTerminalDrain(e, s, expired), q)
<1> DEFINE t == [s EXCEPT !.deferred = "none"]
<1>1. Pair(e, t, q)
  <2>1. t \in Endpoint  BY DEF Pair, Endpoint
  <2>2. Half(e, t, q)
    BY DEF Pair, Half, Flags, Chunking, Heard, Closing, Lost, Ended, GaveUp, AllAcked,
         Endpoint
  <2>3. Half(Peer(e), q, t)
    BY DEF Pair, Half, Flags, Chunking, Heard, Closing, Lost, Ended, GaveUp, AllAcked,
         Endpoint
  <2>4. QED BY <2>1, <2>2, <2>3 DEF Pair
<1>2. t.sndBuf = s.sndBuf /\ t.io = s.io /\ t.writer = s.writer  BY DEF Pair, Endpoint
<1>3. s.deferred \in {"none", "CLOSE_READ", "RST"}  BY DEF Pair, Endpoint
<1>4. s.deferred = "CLOSE_READ" => Ended(s) \/ GaveUp(e, s)  BY DEF Pair, Half, Flags
<1>5. ASSUME s.deferred = "CLOSE_READ", s.sndBuf = {} PROVE MayCloseRead(e, t)
  BY <1>2, <1>4, <1>5 DEF MayCloseRead, Ended, GaveUp
<1> HIDE DEF t
<1>6. Pair(e, CloseRST(e, t), q)  BY <1>1, CloseRSTPair
<1>7. ASSUME s.deferred = "CLOSE_READ", s.sndBuf = {}
      PROVE  Pair(e, EmitTerminalPacket(e, t, s.deferred), q)
  BY <1>1, <1>5, <1>7, EmitPair DEF Terminal
<1>8. CASE s.closed \/ s.deferred = "none"  BY <1>8 DEF SettleTerminalDrain
<1>9. CASE ~s.closed /\ s.deferred # "none" /\ s.sndBuf = {}
  BY <1>3, <1>6, <1>7, <1>9 DEF SettleTerminalDrain, t
<1>10. CASE ~s.closed /\ s.deferred # "none" /\ s.sndBuf # {}
  BY <1>6, <1>10 DEF SettleTerminalDrain, t
<1>11. QED BY <1>8, <1>9, <1>10

\* deferTerminalPacket.
LEMMA DeferPair ==
  ASSUME NEW e \in Ends, NEW s, NEW q, Pair(e, s, q), NEW p \in {"CLOSE_READ", "RST"},
         p = "CLOSE_READ" => Ended(s) \/ GaveUp(e, s)
  PROVE  Pair(e, DeferTerminalPacket(e, s, p), q)
<1> DEFINE t == [s EXCEPT !.stopLocalRead = TRUE, !.deferred = p]
<1>1. CASE s.closed  BY <1>1 DEF DeferTerminalPacket
<1>2. CASE ~s.closed
  <2>1. t \in Endpoint  BY DEF Pair, Endpoint
  <2>2. Half(e, t, q)
    BY <1>2 DEF Pair, Half, Flags, Chunking, Heard, Closing, Lost, Ended, GaveUp, AllAcked,
         Endpoint
  <2>3. Half(Peer(e), q, t)
    BY <1>2 DEF Pair, Half, Flags, Chunking, Heard, Closing, Lost, Ended, GaveUp, AllAcked,
         Endpoint
  <2>4. Pair(e, t, q)  BY <2>1, <2>2, <2>3 DEF Pair
  <2> HIDE DEF t
  <2>5. Pair(e, SettleTerminalDrain(e, t, FALSE), q)  BY <2>4, SettlePair
  <2>6. QED BY <1>2, <2>4, <2>5 DEF DeferTerminalPacket, t
<1>3. QED BY <1>1, <1>2

\* Close with SendRST and AfterDrain.
LEMMA AfterDrainPair ==
  ASSUME NEW e \in Ends, NEW s, NEW q, Pair(e, s, q)
  PROVE  Pair(e, CloseRSTAfterDrain(e, s), q)
<1> DEFINE t == [s EXCEPT !.reset = TRUE, !.deferred = "none"]
<1>1. CASE \/ s.closed \/ s.rstSent \/ s.rstReceived
           \/ s.waitingAckFor = "RST" \/ s.deferred = "RST" \/ s.sndBuf = {}
  BY <1>1, CloseRSTPair DEF CloseRSTAfterDrain
<1>2. CASE ~(\/ s.closed \/ s.rstSent \/ s.rstReceived
             \/ s.waitingAckFor = "RST" \/ s.deferred = "RST" \/ s.sndBuf = {})
  <2>1. t \in Endpoint  BY DEF Pair, Endpoint
  <2>2. Half(e, t, q)
    BY <1>2 DEF Pair, Half, Flags, Chunking, Heard, Closing, Lost, Ended, GaveUp, AllAcked,
         Endpoint
  <2>3. Half(Peer(e), q, t)
    BY <1>2 DEF Pair, Half, Flags, Chunking, Heard, Closing, Lost, Ended, GaveUp, AllAcked,
         Endpoint
  <2>4. Pair(e, t, q)  BY <2>1, <2>2, <2>3 DEF Pair
  <2>5. CloseRSTAfterDrain(e, s) = DeferTerminalPacket(e, t, "RST")
    BY <1>2 DEF CloseRSTAfterDrain
  <2> HIDE DEF t
  <2>6. QED BY <2>4, <2>5, DeferPair
<1>3. QED BY <1>1, <1>2

\* A broken writer sends CLOSE_WRITE.
LEMMA IfNeededPair ==
  ASSUME NEW e \in Ends, NEW s, NEW q, Pair(e, s, q)
  PROVE  Pair(e, CloseWriteIfNeeded(e, s), q)
<1>1. s.localWriterBroken => MayCloseWrite(e, s, q)
  BY DEF MayCloseWrite, Pair, Half, Closing
<1>2. "CLOSE_WRITE" \in Terminal  BY DEF Terminal
<1>3. QED BY <1>1, <1>2, EmitPair DEF CloseWriteIfNeeded, NeedCloseWrite

\* A terminal packet is answered by its acknowledgement.
LEMMA AnswerPair ==
  ASSUME NEW e \in Ends, NEW s, NEW q, Pair(e, s, q), NEW p \in Terminal
  PROVE  Pair(e, Answer(s, AckOf(p)), q)
<1> DEFINE t == Answer(s, AckOf(p))
<1>1. t = [s EXCEPT !.out = s.out \cup {AckOf(p)}]  BY DEF Answer
<1>2. AckOf(p) \in Packet  BY Packets
<1>3. t \in Endpoint  BY <1>1, <1>2 DEF Pair, Endpoint
<1>4. \A n : /\ Data(n) \in t.out <=> Data(n) \in s.out
             /\ DataAck(n) \in t.out <=> DataAck(n) \in s.out
             /\ Ctl(n) \in t.out <=> Ctl(n) \in s.out
  <2>1. t.out = s.out \cup {AckOf(p)}  BY <1>1 DEF Pair, Endpoint
  <2>2. QED BY <2>1, Kinds
<1>5. Half(e, t, q)
  BY <1>1, <1>4 DEF Pair, Half, Flags, Chunking, Heard, Closing, Lost, Ended, GaveUp,
       AllAcked, Endpoint
<1>6. Half(Peer(e), q, t)
  BY <1>1, <1>4 DEF Pair, Half, Flags, Chunking, Heard, Closing, Lost, Ended, GaveUp,
       AllAcked, Endpoint
<1>7. QED BY <1>3, <1>5, <1>6 DEF Pair

\* An RST for a stream that is gone.
LEMMA AnswerRstPair ==
  ASSUME NEW e \in Ends, NEW s, NEW q, Pair(e, s, q)
  PROVE  Pair(e, Answer(s, Ctl("RST")), q)
<1> DEFINE t == Answer(s, Ctl("RST"))
<1>1. t = [s EXCEPT !.out = s.out \cup {Ctl("RST")}]  BY DEF Answer
<1>2. Ctl("RST") \in Packet  BY Packets DEF Terminal
<1>3. t \in Endpoint  BY <1>1, <1>2 DEF Pair, Endpoint
<1>4. /\ \A n : /\ Data(n) \in t.out <=> Data(n) \in s.out
                /\ DataAck(n) \in t.out <=> DataAck(n) \in s.out
      /\ Ctl("CLOSE_READ") \in t.out <=> Ctl("CLOSE_READ") \in s.out
      /\ Ctl("CLOSE_WRITE") \in t.out <=> Ctl("CLOSE_WRITE") \in s.out
  <2>1. t.out = s.out \cup {Ctl("RST")}  BY <1>1 DEF Pair, Endpoint
  <2>2. Ctl("RST") # Ctl("CLOSE_READ") /\ Ctl("RST") # Ctl("CLOSE_WRITE")  BY Kinds
  <2>3. QED BY <2>1, <2>2, Kinds
<1>5. Half(e, t, q)
  BY <1>1, <1>4 DEF Pair, Half, Flags, Chunking, Heard, Closing, Lost, Ended, GaveUp,
       AllAcked, Endpoint
<1>6. Half(Peer(e), q, t)
  BY <1>1, <1>4 DEF Pair, Half, Flags, Chunking, Heard, Closing, Lost, Ended, GaveUp,
       AllAcked, Endpoint
<1>7. QED BY <1>3, <1>5, <1>6 DEF Pair

-----------------------------------------------------------------------------
(* The steps.                                                              *)

\* The invariant gives the pair of an endpoint and its peer.
LEMMA Start == ASSUME IInv, NEW e \in Ends PROVE Pair(e, ep[e], ep[Peer(e)])
BY Peers DEF IInv, Pair

\* A step of one endpoint that keeps the pair keeps the invariant.
LEMMA Step ==
  ASSUME IInv, NEW e \in Ends, NEW t, Becomes(e, t), Pair(e, t, ep[Peer(e)])
  PROVE  IInv'
<1>1. ep' = [ep EXCEPT ![e] = t]  BY DEF Becomes
<1>2. ep \in [Ends -> Endpoint] /\ t \in Endpoint  BY DEF IInv, Pair
<1>3. ep'[e] = t /\ ep'[Peer(e)] = ep[Peer(e)]  BY <1>1, <1>2, Peers
<1>4. \A f \in Ends : f = e \/ f = Peer(e)  BY DEF Ends, Peer
<1>5. ep' \in [Ends -> Endpoint]  BY <1>1, <1>2
<1>6. Half(e, ep'[e], ep'[Peer(e)])  BY <1>3 DEF Pair
<1>7. Half(Peer(e), ep'[Peer(e)], ep'[Peer(Peer(e))])  BY <1>3, Peers DEF Pair
<1>8. QED BY <1>4, <1>5, <1>6, <1>7 DEF IInv

\* ioLoop's test.
LEMMA IoTestStep == ASSUME IInv, NEW e \in Ends, IoTest(e) PROVE IInv'
<1> DEFINE s == ep[e]  q == ep[Peer(e)]
           i == IF s.stopLocalRead \/ s.closed THEN "done" ELSE "read"
           t == [s EXCEPT !.io = i]
<1>1. Pair(e, s, q) /\ s.io = "test" /\ Becomes(e, t)  BY Start DEF IoTest
<1>2. i \in {"done", "read"}  OBVIOUS
<1> HIDE DEF s, q, i
<1>3. t \in Endpoint  BY <1>1, <1>2 DEF Pair, Endpoint
<1>4. Half(e, t, q)
  BY <1>1, <1>2 DEF Pair, Half, Flags, Chunking, Heard, Closing, Lost, Ended, GaveUp,
       AllAcked, Endpoint
<1>5. Half(Peer(e), q, t)
  BY <1>1, <1>2 DEF Pair, Half, Flags, Chunking, Heard, Closing, Lost, Ended, GaveUp,
       AllAcked, Endpoint
<1>6. Pair(e, t, q)  BY <1>1, <1>2, <1>3, <1>4, <1>5 DEF Pair
<1> HIDE DEF t
<1>7. QED BY <1>1, <1>6, Step DEF q

\* A read that times out.
LEMMA IoTimeoutStep == ASSUME IInv, NEW e \in Ends, IoTimeout(e) PROVE IInv'
<1> DEFINE s == ep[e]  q == ep[Peer(e)]
           t == [s EXCEPT !.io = "test"]
<1>1. Pair(e, s, q) /\ s.io = "read" /\ Becomes(e, t)  BY Start DEF IoTimeout
<1> HIDE DEF s, q
<1>2. t \in Endpoint  BY <1>1 DEF Pair, Endpoint
<1>3. Half(e, t, q)
  BY <1>1 DEF Pair, Half, Flags, Chunking, Heard, Closing, Lost, Ended, GaveUp, AllAcked,
       Endpoint
<1>4. Half(Peer(e), q, t)
  BY <1>1 DEF Pair, Half, Flags, Chunking, Heard, Closing, Lost, Ended, GaveUp, AllAcked,
       Endpoint
<1>5. Pair(e, t, q)  BY <1>1, <1>2, <1>3, <1>4 DEF Pair
<1> HIDE DEF t
<1>6. QED BY <1>1, <1>5, Step DEF q

\* A chunk read: ioLoop has not ended, so neither endpoint has counted on its end.
LEMMA QueuedPair ==
  ASSUME NEW e \in Ends, NEW s, NEW q, Pair(e, s, q), s.io = "read",
         NEW i \in {"test", "done"}
  PROVE  Pair(e, [Queued(s) EXCEPT !.io = i], q)
<1> DEFINE n == s.read + 1
           t == [Queued(s) EXCEPT !.io = i]
<1>1. n \in Nat \ {0} /\ s.read \in Nat  BY DEF Pair, Endpoint
<1>2. s.closeReadSent => GaveUp(e, s)  BY DEF Pair, Half, Flags, Ended
<1>3. q.closeReadReceived => s.closeReadSent  BY DEF Pair, Half, Heard, Flags
<1>4. t = [s EXCEPT !.read = n, !.io = i, !.sndBuf = s.sndBuf \cup {n},
                    !.out = s.out \cup {Data(n)}]
  BY DEF Queued, Pair, Endpoint
<1>5. Data(n) \in Packet  BY <1>1, Packets
<1>6. 1 .. n = (1 .. s.read) \cup {n}  BY <1>1
<1> HIDE DEF n, t
<1>7. t \in Endpoint  BY <1>1, <1>4, <1>5 DEF Pair, Endpoint
<1>8. /\ t.out = s.out \cup {Data(n)} /\ t.read = n
      /\ \A m : /\ Data(m) \in t.out <=> Data(m) \in s.out \/ m = n
                /\ DataAck(m) \in t.out <=> DataAck(m) \in s.out
                /\ Ctl(m) \in t.out <=> Ctl(m) \in s.out
  <2>1. t.out = s.out \cup {Data(n)} /\ t.read = n  BY <1>4 DEF Pair, Endpoint
  <2>2. QED BY <2>1, Kinds
<1>9. Half(e, t, q)
  <2>1. Flags(e, t)  BY <1>2, <1>4, <1>8 DEF Pair, Half, Flags, Ended, GaveUp, Endpoint
  <2>2. Chunking(t)  BY <1>4, <1>6, <1>8 DEF Pair, Half, Chunking, Endpoint
  <2>3. Heard(e, t, q)  BY <1>4, <1>6, <1>8 DEF Pair, Half, Heard, Lost, Endpoint
  <2>4. Closing(e, t, q)  BY <1>2, <1>4 DEF Pair, Half, Closing, GaveUp, Endpoint
  <2>5. QED BY <2>1, <2>2, <2>3, <2>4 DEF Half
<1>10. Half(Peer(e), q, t)
  <2>1. Flags(Peer(e), q) /\ Chunking(q)  BY DEF Pair, Half
  <2>2. Heard(Peer(e), q, t)
    BY <1>1, <1>4, <1>6, <1>8 DEF n, Pair, Half, Heard, Lost, Endpoint
  <2>3. Closing(Peer(e), q, t)
    BY <1>2, <1>3, <1>4, <1>8, Peers DEF Pair, Half, Flags, Closing, GaveUp, AllAcked,
         Peer, Ends, Endpoint
  <2>4. QED BY <2>1, <2>2, <2>3 DEF Half
<1>11. QED BY <1>7, <1>9, <1>10 DEF Pair, t

\* ioLoop reads a chunk.
LEMMA IoChunkStep == ASSUME IInv, NEW e \in Ends, IoChunk(e) PROVE IInv'
<1>1. Pair(e, ep[e], ep[Peer(e)])  BY Start
<1>2. ep[e].io = "read" /\ Becomes(e, [Queued(ep[e]) EXCEPT !.io = "test"])  BY DEF IoChunk
<1>3. Pair(e, [Queued(ep[e]) EXCEPT !.io = "test"], ep[Peer(e)])  BY <1>1, <1>2, QueuedPair
<1>4. QED BY <1>2, <1>3, Step

\* ioLoop ends by itself.
LEMMA IoEndPair ==
  ASSUME NEW e \in Ends, NEW s, NEW q, Pair(e, s, q), NEW i \in {"eof", "done"}
  PROVE  Pair(e, [s EXCEPT !.io = i], q) /\ Ended([s EXCEPT !.io = i])
<1> DEFINE t == [s EXCEPT !.io = i]
<1>1. t \in Endpoint  BY DEF Pair, Endpoint
<1>2. Half(e, t, q)
  BY DEF Pair, Half, Flags, Chunking, Heard, Closing, Lost, Ended, GaveUp, AllAcked,
       Endpoint
<1>3. Half(Peer(e), q, t)
  BY DEF Pair, Half, Flags, Chunking, Heard, Closing, Lost, Ended, GaveUp, AllAcked,
       Endpoint
<1>4. Pair(e, t, q)  BY <1>1, <1>2, <1>3 DEF Pair
<1>5. Ended(t)  BY DEF Pair, Endpoint, Ended
<1>6. QED BY <1>4, <1>5

\* ioLoop meets the end of the local stream.
LEMMA IoEOFStep == ASSUME IInv, NEW e \in Ends, IoEOF(e) PROVE IInv'
<1> DEFINE s == [ep[e] EXCEPT !.io = "eof"]
<1>1. Pair(e, ep[e], ep[Peer(e)])  BY Start
<1>2. Becomes(e, DeferTerminalPacket(e, s, "CLOSE_READ"))  BY DEF IoEOF
<1>3. Pair(e, s, ep[Peer(e)]) /\ Ended(s)  BY <1>1, IoEndPair
<1> HIDE DEF s
<1>4. Pair(e, DeferTerminalPacket(e, s, "CLOSE_READ"), ep[Peer(e)])  BY <1>3, DeferPair
<1>5. QED BY <1>2, <1>4, Step

\* A read error.
LEMMA IoErrorStep == ASSUME IInv, NEW e \in Ends, IoError(e) PROVE IInv'
<1>1. Pair(e, ep[e], ep[Peer(e)])  BY Start
<1>2. CASE Becomes(e, CloseRST(e, [ep[e] EXCEPT !.io = "done"]))
  <2>1. Pair(e, [ep[e] EXCEPT !.io = "done"], ep[Peer(e)])  BY <1>1, IoEndPair
  <2>2. Pair(e, CloseRST(e, [ep[e] EXCEPT !.io = "done"]), ep[Peer(e)])
    BY <2>1, CloseRSTPair
  <2>3. QED BY <1>2, <2>2, Step
<1>3. CASE Becomes(e, CloseRSTAfterDrain(e, [Queued(ep[e]) EXCEPT !.io = "done"]))
  <2>1. ep[e].io = "read"  BY DEF IoError
  <2>2. Pair(e, [Queued(ep[e]) EXCEPT !.io = "done"], ep[Peer(e)])
    BY <1>1, <2>1, QueuedPair
  <2>3. Pair(e, CloseRSTAfterDrain(e, [Queued(ep[e]) EXCEPT !.io = "done"]), ep[Peer(e)])
    BY <2>2, AfterDrainPair
  <2>4. QED BY <1>3, <2>3, Step
<1>4. QED BY <1>2, <1>3 DEF IoError

-----------------------------------------------------------------------------
(* Receiving.                                                              *)

\* Chunks are numbered from 1.
LEMMA ChunkNumbers == \A e \in Ends : Chunks(e) \subseteq Nat \ {0}
BY SizesAssumption DEF Chunks, Ends

\* A chunk enters rxChan.
LEMMA RxChanPair ==
  ASSUME NEW e \in Ends, NEW s, NEW q, Pair(e, s, q), NEW n \in Nat \ {0},
         Data(n) \in q.out
  PROVE  Pair(e, [s EXCEPT !.rxChan = @ \cup {n}], q)
<1> DEFINE t == [s EXCEPT !.rxChan = @ \cup {n}]
<1>1. n \in 1 .. q.read  BY DEF Pair, Half, Chunking
<1>2. t \in Endpoint  BY <1>1 DEF Pair, Endpoint
<1>3. Half(e, t, q)
  BY <1>1 DEF Pair, Half, Flags, Chunking, Heard, Closing, Lost, Ended, GaveUp, AllAcked,
       Endpoint
<1>4. Half(Peer(e), q, t)
  BY <1>1 DEF Pair, Half, Flags, Chunking, Heard, Closing, Lost, Ended, GaveUp, AllAcked,
       Endpoint
<1>5. Pair(e, t, q)  BY <1>1, <1>2, <1>3, <1>4 DEF Pair
<1>6. QED BY <1>5

\* A chunk arrives, or a copy of it.
LEMMA ReceiveDataStep ==
  ASSUME IInv, NEW e \in Ends, NEW n \in Chunks(Peer(e)), ReceiveData(e, n)
  PROVE  IInv'
<1> DEFINE s == ep[e]  q == ep[Peer(e)]
           t == IF s.closed \/ (e = "server" /\ IsReset(s)) THEN Answer(s, Ctl("RST"))
                ELSE IF s.rstReceived \/ s.rstSent THEN s
                ELSE IF s.localWriterBroken THEN CloseWriteIfNeeded(e, s)
                ELSE [s EXCEPT !.rxChan = @ \cup {n}]
<1>1. Pair(e, s, q)  BY Start
<1>2. Becomes(e, t) /\ Data(n) \in q.out  BY DEF ReceiveData, Incoming
<1>3. n \in Nat \ {0}  BY ChunkNumbers, Peers
<1> HIDE DEF s, q
<1>4. Pair(e, Answer(s, Ctl("RST")), q)  BY <1>1, AnswerRstPair
<1>5. Pair(e, CloseWriteIfNeeded(e, s), q)  BY <1>1, IfNeededPair
<1>6. Pair(e, [s EXCEPT !.rxChan = @ \cup {n}], q)  BY <1>1, <1>2, <1>3, RxChanPair
<1>7. Pair(e, t, q)  BY <1>1, <1>4, <1>5, <1>6
<1> HIDE DEF t
<1>8. QED BY <1>2, <1>7, Step DEF q

\* Chunks leave rxChan.
LEMMA RxTakenPair ==
  ASSUME NEW e \in Ends, NEW s, NEW q, Pair(e, s, q), NEW X \in SUBSET s.rxChan
  PROVE  Pair(e, [s EXCEPT !.rxChan = X], q)
<1> DEFINE t == [s EXCEPT !.rxChan = X]
<1>1. t \in Endpoint  BY DEF Pair, Endpoint
<1>2. Half(e, t, q)
  BY DEF Pair, Half, Flags, Chunking, Heard, Closing, Lost, Ended, GaveUp, AllAcked,
       Endpoint
<1>3. Half(Peer(e), q, t)
  BY DEF Pair, Half, Flags, Chunking, Heard, Closing, Lost, Ended, GaveUp, AllAcked,
       Endpoint
<1>4. Pair(e, t, q)  BY <1>1, <1>2, <1>3 DEF Pair
<1>5. QED BY <1>4

\* A chunk that was written before is acknowledged again.
LEMMA OldChunkPair ==
  ASSUME NEW e \in Ends, NEW s, NEW q, Pair(e, s, q), NEW n \in Nat \ {0}, n < s.rcvNxt
  PROVE  Pair(e, Answer(s, DataAck(n)), q)
<1> DEFINE t == Answer(s, DataAck(n))
<1>1. t = [s EXCEPT !.out = s.out \cup {DataAck(n)}]  BY DEF Answer
<1>2. DataAck(n) \in Packet  BY Packets
<1>3. /\ t.out = s.out \cup {DataAck(n)}
      /\ \A m : /\ Data(m) \in t.out <=> Data(m) \in s.out
                /\ DataAck(m) \in t.out <=> DataAck(m) \in s.out \/ m = n
                /\ Ctl(m) \in t.out <=> Ctl(m) \in s.out
  <2>1. t.out = s.out \cup {DataAck(n)}  BY <1>1 DEF Pair, Endpoint
  <2>2. QED BY <2>1, Kinds
<1> HIDE DEF t
<1>4. t \in Endpoint  BY <1>1, <1>2 DEF Pair, Endpoint
<1>5. Half(e, t, q)
  BY <1>1, <1>3 DEF Pair, Half, Flags, Chunking, Heard, Closing, Lost, Ended, GaveUp,
       AllAcked, Endpoint
<1>6. Half(Peer(e), q, t)
  BY <1>1, <1>3 DEF Pair, Half, Flags, Chunking, Heard, Closing, Lost, Ended, GaveUp,
       AllAcked, Endpoint
<1>7. QED BY <1>4, <1>5, <1>6 DEF Pair, t

\* A chunk is acknowledged and enters rcvBuf.
LEMMA NewChunkPair ==
  ASSUME NEW e \in Ends, NEW s, NEW q, Pair(e, s, q), NEW n \in 1 .. q.read,
         ~s.localWriterBroken
  PROVE  Pair(e, [Answer(s, DataAck(n)) EXCEPT !.rcvBuf = @ \cup {n},
                                               !.flushSignal = TRUE], q)
<1> DEFINE t == [Answer(s, DataAck(n)) EXCEPT !.rcvBuf = @ \cup {n}, !.flushSignal = TRUE]
<1>1. t = [s EXCEPT !.out = s.out \cup {DataAck(n)}, !.rcvBuf = s.rcvBuf \cup {n},
                    !.flushSignal = TRUE]
  BY DEF Answer, Pair, Endpoint
<1>2. n \in Nat \ {0}  BY DEF Pair, Endpoint
<1>3. DataAck(n) \in Packet  BY <1>2, Packets
<1>4. /\ t.out = s.out \cup {DataAck(n)}
      /\ \A m : /\ Data(m) \in t.out <=> Data(m) \in s.out
                /\ DataAck(m) \in t.out <=> DataAck(m) \in s.out \/ m = n
                /\ Ctl(m) \in t.out <=> Ctl(m) \in s.out
  <2>1. t.out = s.out \cup {DataAck(n)}  BY <1>1 DEF Pair, Endpoint
  <2>2. QED BY <2>1, Kinds
<1> HIDE DEF t
<1>5. t \in Endpoint  BY <1>1, <1>2, <1>3 DEF Pair, Endpoint
<1>6. Half(e, t, q)
  BY <1>1, <1>4 DEF Pair, Half, Flags, Chunking, Heard, Closing, Lost, Ended, GaveUp,
       AllAcked, Endpoint
<1>7. Half(Peer(e), q, t)
  BY <1>1, <1>4 DEF Pair, Half, Flags, Chunking, Heard, Closing, Lost, Ended, GaveUp,
       AllAcked, Endpoint
<1>8. QED BY <1>5, <1>6, <1>7 DEF Pair, t

\* rxLoop stores a chunk, drops it or refuses it.
LEMMA ProcessReceivedDataStep ==
  ASSUME IInv, NEW e \in Ends, NEW n \in Chunks(Peer(e)), ProcessReceivedData(e, n)
  PROVE  IInv'
<1> DEFINE a == ep[e]  q == ep[Peer(e)]
           s == [a EXCEPT !.rxChan = @ \ {n}]
           t == IF s.localWriterBroken \/ s.closeWriteSent \/ s.closeWriteAcked
                THEN CloseWriteIfNeeded(e, s)
                ELSE IF n < s.rcvNxt THEN Answer(s, DataAck(n))
                ELSE [Answer(s, DataAck(n)) EXCEPT !.rcvBuf = @ \cup {n},
                                                   !.flushSignal = TRUE]
<1>1. Pair(e, a, q)  BY Start
<1>2. Becomes(e, t) /\ n \in a.rxChan  BY DEF ProcessReceivedData
<1> HIDE DEF a, q
<1>3. Pair(e, s, q)
  <2>1. s = [a EXCEPT !.rxChan = a.rxChan \ {n}]  BY <1>1 DEF Pair, Endpoint
  <2>2. QED BY <1>1, <2>1, RxTakenPair
<1>4. n \in 1 .. q.read /\ n \in Nat \ {0}  BY <1>1, <1>2 DEF Pair, Half, Heard, Endpoint
<1> HIDE DEF s
<1>6. Pair(e, CloseWriteIfNeeded(e, s), q)  BY <1>3, IfNeededPair
<1>7. ASSUME n < s.rcvNxt PROVE Pair(e, Answer(s, DataAck(n)), q)
  BY <1>3, <1>4, <1>7, OldChunkPair
<1>8. ASSUME ~s.localWriterBroken
      PROVE  Pair(e, [Answer(s, DataAck(n)) EXCEPT !.rcvBuf = @ \cup {n},
                                                   !.flushSignal = TRUE], q)
  BY <1>3, <1>4, <1>8, NewChunkPair
<1>9. Pair(e, t, q)  BY <1>6, <1>7, <1>8
<1> HIDE DEF t
<1>10. QED BY <1>2, <1>9, Step DEF q

\* rxLoop throws away what is left.
LEMMA RxDrainStep == ASSUME IInv, NEW e \in Ends, RxDrain(e) PROVE IInv'
<1>1. Pair(e, ep[e], ep[Peer(e)])  BY Start
<1>2. Pair(e, [ep[e] EXCEPT !.rxChan = {}], ep[Peer(e)])  BY <1>1, RxTakenPair
<1>3. QED BY <1>2, Step DEF RxDrain

\* A chunk is acknowledged.
LEMMA ReceiveAckStep ==
  ASSUME IInv, NEW e \in Ends, NEW n \in Chunks(e), ReceiveAck(e, n)
  PROVE  IInv'
<1> DEFINE a == ep[e]  q == ep[Peer(e)]
           s == [a EXCEPT !.sndBuf = @ \ {n}]
           t == IF s.closeReadReceived THEN TryFinalizeRemoteEOF(e, s) ELSE s
<1>1. Pair(e, a, q)  BY Start
<1>2. Becomes(e, SettleTerminalDrain(e, t, FALSE)) /\ DataAck(n) \in q.out
  BY DEF ReceiveAck
<1> HIDE DEF a, q
<1>3. s \in Endpoint  BY <1>1, <1>2 DEF Pair, Endpoint
<1>4. Half(e, s, q)
  BY <1>1, <1>2 DEF Pair, Half, Flags, Chunking, Heard, Closing, Lost, Ended, GaveUp,
       AllAcked, Endpoint
<1>5. Half(Peer(e), q, s)
  BY <1>1, <1>2 DEF Pair, Half, Flags, Chunking, Heard, Closing, Lost, Ended, GaveUp,
       AllAcked, Endpoint
<1>6. Pair(e, s, q)  BY <1>1, <1>2, <1>3, <1>4, <1>5 DEF Pair
<1> HIDE DEF s
<1>7. Pair(e, t, q)  BY <1>6, TryPair
<1> HIDE DEF t
<1>8. Pair(e, SettleTerminalDrain(e, t, FALSE), q)  BY <1>7, SettlePair
<1>9. QED BY <1>2, <1>8, Step DEF q

\* CLOSE_READ arrives.
LEMMA CloseReadReceivedPair ==
  ASSUME NEW e \in Ends, NEW s, NEW q, Pair(e, s, q), ~s.closed,
         Ctl("CLOSE_READ") \in q.out
  PROVE  Pair(e, MarkCloseReadReceived(e, s), q)
<1> DEFINE t == [s EXCEPT !.closeReadReceived = TRUE, !.flushSignal = TRUE, !.reset = FALSE]
<1>1. t \in Endpoint  BY DEF Pair, Endpoint
<1>2. Half(e, t, q)
  BY DEF Pair, Half, Flags, Chunking, Heard, Closing, Lost, Ended, GaveUp, AllAcked,
       Endpoint
<1>3. Half(Peer(e), q, t)
  BY DEF Pair, Half, Flags, Chunking, Heard, Closing, Lost, Ended, GaveUp, AllAcked,
       Endpoint
<1>4. Pair(e, t, q)  BY <1>1, <1>2, <1>3 DEF Pair
<1> HIDE DEF t
<1>5. Pair(e, TryFinalizeRemoteEOF(e, t), q)  BY <1>4, TryPair
<1>6. QED BY <1>5 DEF MarkCloseReadReceived, t

\* CLOSE_WRITE arrives.
LEMMA CloseWriteReceivedPair ==
  ASSUME NEW e \in Ends, NEW s, NEW q, Pair(e, s, q), ~s.closed,
         Ctl("CLOSE_WRITE") \in q.out
  PROVE  Pair(e, MarkCloseWriteReceived(e, s), q)
<1> DEFINE t == [s EXCEPT !.closeWriteReceived = TRUE, !.stopLocalRead = TRUE,
                          !.sndBuf = {}]
           u == SettleTerminalDrain(e, t, FALSE)
<1>1. t \in Endpoint  BY DEF Pair, Endpoint
<1>2. Half(e, t, q)
  BY DEF Pair, Half, Flags, Chunking, Heard, Closing, Lost, Ended, GaveUp, AllAcked,
       Endpoint
<1>3. Half(Peer(e), q, t)
  BY DEF Pair, Half, Flags, Chunking, Heard, Closing, Lost, Ended, GaveUp, AllAcked,
       Endpoint
<1>4. Pair(e, t, q)  BY <1>1, <1>2, <1>3 DEF Pair
<1> HIDE DEF t
<1>5. Pair(e, u, q)  BY <1>4, SettlePair
<1> HIDE DEF u
<1>6. Pair(e, TryFinalizeRemoteEOF(e, u), q)  BY <1>5, TryPair
<1>7. QED BY <1>6 DEF MarkCloseWriteReceived, u, t

\* RST arrives.
LEMMA RstReceivedPair ==
  ASSUME NEW e \in Ends, NEW s, NEW q, Pair(e, s, q), ~s.closed
  PROVE  Pair(e, MarkRstReceived(s), q)
<1> DEFINE t == [s EXCEPT !.rstReceived = TRUE, !.stopLocalRead = TRUE,
                          !.reset = TRUE, !.sndBuf = {}, !.controlSndBuf = {}]
<1>1. t \in Endpoint  BY DEF Pair, Endpoint
<1>2. Half(e, t, q)
  BY DEF Pair, Half, Flags, Chunking, Heard, Closing, Lost, Ended, GaveUp, AllAcked,
       Endpoint
<1>3. Half(Peer(e), q, t)
  BY DEF Pair, Half, Flags, Chunking, Heard, Closing, Lost, Ended, GaveUp, AllAcked,
       Endpoint
<1>4. Pair(e, t, q)  BY <1>1, <1>2, <1>3 DEF Pair
<1>5. t.reset  BY DEF Pair, Endpoint
<1> HIDE DEF t
<1>6. Pair(e, FinalizeClose(t), q)  BY <1>4, <1>5, FinalizePair
<1>7. QED BY <1>6 DEF MarkRstReceived, t

\* A terminal packet arrives, or a copy of it.
LEMMA ReceiveTerminalStep ==
  ASSUME IInv, NEW e \in Ends, NEW p \in Terminal, ReceiveTerminal(e, p)
  PROVE  IInv'
<1> DEFINE s == Answer(ep[e], AckOf(p))  q == ep[Peer(e)]
           t == IF s.closed THEN s
                ELSE CASE p = "CLOSE_READ" -> MarkCloseReadReceived(e, s)
                       [] p = "CLOSE_WRITE" -> MarkCloseWriteReceived(e, s)
                       [] p = "RST" -> MarkRstReceived(s)
<1>1. Pair(e, s, q)  BY Start, AnswerPair
<1>2. Becomes(e, t) /\ Ctl(p) \in q.out  BY DEF ReceiveTerminal, Incoming
<1> HIDE DEF s, q
<1>3. CASE s.closed  BY <1>1, <1>2, <1>3, Step DEF q
<1>4. CASE ~s.closed /\ p = "CLOSE_READ"
  <2>1. t = MarkCloseReadReceived(e, s)  BY <1>4
  <2>2. Pair(e, t, q)  BY <1>1, <1>2, <1>4, <2>1, CloseReadReceivedPair
  <2> HIDE DEF t
  <2>3. QED BY <1>2, <2>2, Step DEF q
<1>5. CASE ~s.closed /\ p = "CLOSE_WRITE"
  <2>1. t = MarkCloseWriteReceived(e, s)  BY <1>5
  <2>2. Pair(e, t, q)  BY <1>1, <1>2, <1>5, <2>1, CloseWriteReceivedPair
  <2> HIDE DEF t
  <2>3. QED BY <1>2, <2>2, Step DEF q
<1>6. CASE ~s.closed /\ p = "RST"
  <2>1. t = MarkRstReceived(s)  BY <1>6
  <2>2. Pair(e, t, q)  BY <1>1, <1>6, <2>1, RstReceivedPair
  <2> HIDE DEF t
  <2>3. QED BY <1>2, <2>2, Step DEF q
<1>7. QED BY <1>3, <1>4, <1>5, <1>6 DEF Terminal

-----------------------------------------------------------------------------
(* Acknowledgements of the terminal packets.                               *)

\* A control packet is no longer tracked.
LEMMA UntrackPair ==
  ASSUME NEW e \in Ends, NEW s, NEW q, Pair(e, s, q), NEW p
  PROVE  Pair(e, [s EXCEPT !.controlSndBuf = @ \ {p}], q)
<1> DEFINE t == [s EXCEPT !.controlSndBuf = @ \ {p}]
<1>1. t \in Endpoint  BY DEF Pair, Endpoint
<1>2. Half(e, t, q)
  BY DEF Pair, Half, Flags, Chunking, Heard, Closing, Lost, Ended, GaveUp, AllAcked,
       Endpoint
<1>3. Half(Peer(e), q, t)
  BY DEF Pair, Half, Flags, Chunking, Heard, Closing, Lost, Ended, GaveUp, AllAcked,
       Endpoint
<1>4. Pair(e, t, q)  BY <1>1, <1>2, <1>3 DEF Pair
<1>5. QED BY <1>4

\* clearWaitingAck.
LEMMA ClearPair ==
  ASSUME NEW e \in Ends, NEW s, NEW q, Pair(e, s, q), NEW p
  PROVE  Pair(e, ClearWaitingAck(s, p), q)
<1> DEFINE t == [s EXCEPT !.waitingAckFor = "none"]
<1>1. t \in Endpoint  BY DEF Pair, Endpoint
<1>2. Half(e, t, q)
  BY DEF Pair, Half, Flags, Chunking, Heard, Closing, Lost, Ended, GaveUp, AllAcked,
       Endpoint
<1>3. Half(Peer(e), q, t)
  BY DEF Pair, Half, Flags, Chunking, Heard, Closing, Lost, Ended, GaveUp, AllAcked,
       Endpoint
<1>4. Pair(e, t, q)  BY <1>1, <1>2, <1>3 DEF Pair
<1>5. QED BY <1>4 DEF ClearWaitingAck

\* CLOSE_READ is acknowledged.
LEMMA CloseReadAckedPair ==
  ASSUME NEW e \in Ends, NEW s, NEW q, Pair(e, s, q), ~s.closed, s.closeReadSent
  PROVE  Pair(e, MarkCloseReadAcked(s), q)
<1> DEFINE r == s.reset /\ ~s.closeReadReceived
           t == [s EXCEPT !.closeReadAcked = TRUE, !.reset = r]
<1>1. MarkCloseReadAcked(s) = t  BY DEF MarkCloseReadAcked, Pair, Endpoint
<1>2. r \in BOOLEAN  OBVIOUS
<1> HIDE DEF r
<1>3. t \in Endpoint  BY <1>2 DEF Pair, Endpoint
<1>4. Half(e, t, q)
  BY <1>2 DEF Pair, Half, Flags, Chunking, Heard, Closing, Lost, Ended, GaveUp, AllAcked,
       Endpoint
<1>5. Half(Peer(e), q, t)
  BY <1>2 DEF Pair, Half, Flags, Chunking, Heard, Closing, Lost, Ended, GaveUp, AllAcked,
       Endpoint
<1>6. Pair(e, t, q)  BY <1>2, <1>3, <1>4, <1>5 DEF Pair
<1>7. QED BY <1>1, <1>6

\* CLOSE_WRITE is acknowledged.
LEMMA CloseWriteAckedPair ==
  ASSUME NEW e \in Ends, NEW s, NEW q, Pair(e, s, q), s.closeWriteSent
  PROVE  Pair(e, MarkCloseWriteAcked(s), q)
<1> DEFINE t == [s EXCEPT !.closeWriteAcked = TRUE, !.localWriterBroken = TRUE,
                          !.localWriteClosed = TRUE]
<1>1. s.localWriterBroken /\ s.localWriteClosed  BY DEF Pair, Half, Flags
<1>2. t \in Endpoint  BY <1>1 DEF Pair, Endpoint
<1>3. Half(e, t, q)
  BY <1>1 DEF Pair, Half, Flags, Chunking, Heard, Closing, Lost, Ended, GaveUp, AllAcked,
       Endpoint
<1>4. Half(Peer(e), q, t)
  BY <1>1 DEF Pair, Half, Flags, Chunking, Heard, Closing, Lost, Ended, GaveUp, AllAcked,
       Endpoint
<1>5. Pair(e, t, q)  BY <1>1, <1>2, <1>3, <1>4 DEF Pair
<1>6. QED BY <1>5 DEF MarkCloseWriteAcked

\* The client whose writer broke announces the end of its stream.
LEMMA AfterWriterBreakPair ==
  ASSUME NEW e \in Ends, NEW s, NEW q, Pair(e, s, q)
  PROVE  Pair(e, MaybeInitiateClientCloseReadAfterWriterBreak(e, s), q)
<1>1. CASE ~(/\ e = "client" /\ s.localWriterBroken /\ ~s.closed
             /\ ~s.rstSent /\ ~s.rstReceived /\ ~s.closeReadSent /\ ~s.closeReadReceived)
  BY <1>1 DEF MaybeInitiateClientCloseReadAfterWriterBreak
<1>2. CASE /\ e = "client" /\ s.localWriterBroken /\ ~s.closed
           /\ ~s.rstSent /\ ~s.rstReceived /\ ~s.closeReadSent /\ ~s.closeReadReceived
  <2>1. GaveUp(e, s)  BY <1>2 DEF Pair, Half, Closing, GaveUp
  <2>2. Pair(e, DeferTerminalPacket(e, s, "CLOSE_READ"), q)  BY <2>1, DeferPair
  <2>3. Pair(e, EmitTerminalPacket(e, s, "CLOSE_READ"), q)
    BY <2>1, EmitPair DEF MayCloseRead, Terminal
  <2>4. QED BY <1>2, <2>2, <2>3 DEF MaybeInitiateClientCloseReadAfterWriterBreak
<1>3. QED BY <1>1, <1>2

\* A terminal packet is acknowledged.
LEMMA ReceiveControlAckStep ==
  ASSUME IInv, NEW e \in Ends, NEW p \in Terminal, ReceiveControlAck(e, p)
  PROVE  IInv'
<1> DEFINE a == ep[e]  q == ep[Peer(e)]
           s == [a EXCEPT !.controlSndBuf = @ \ {p}]
           t == CASE p = "CLOSE_READ" ->
                       TryFinalizeRemoteEOF(e, ClearWaitingAck(MarkCloseReadAcked(s), p))
                  [] p = "CLOSE_WRITE" ->
                       TryFinalizeRemoteEOF(e,
                         MaybeInitiateClientCloseReadAfterWriterBreak(e,
                           ClearWaitingAck(MarkCloseWriteAcked(s), p)))
                  [] p = "RST" -> FinalizeClose([s EXCEPT !.reset = TRUE])
<1>1. Pair(e, a, q)  BY Start
<1>2. Becomes(e, t) /\ ~a.closed /\ (p \in a.controlSndBuf \/ a.waitingAckFor = p)
  BY DEF ReceiveControlAck
<1> HIDE DEF a, q
<1>3. Pair(e, s, q)  BY <1>1, UntrackPair
<1>4. /\ ~s.closed
      /\ p = "CLOSE_READ" => s.closeReadSent
      /\ p = "CLOSE_WRITE" => s.closeWriteSent
  BY <1>1, <1>2 DEF Pair, Half, Flags, Endpoint
<1> HIDE DEF s
<1>5. CASE p = "CLOSE_READ"
  <2>1. Pair(e, MarkCloseReadAcked(s), q)  BY <1>3, <1>4, <1>5, CloseReadAckedPair
  <2>2. Pair(e, ClearWaitingAck(MarkCloseReadAcked(s), p), q)  BY <2>1, ClearPair
  <2>3. Pair(e, TryFinalizeRemoteEOF(e, ClearWaitingAck(MarkCloseReadAcked(s), p)), q)
    BY <2>2, TryPair
  <2>4. t = TryFinalizeRemoteEOF(e, ClearWaitingAck(MarkCloseReadAcked(s), p))  BY <1>5
  <2> HIDE DEF t
  <2>5. QED BY <1>2, <2>3, <2>4, Step DEF q
<1>6. CASE p = "CLOSE_WRITE"
  <2> DEFINE u == ClearWaitingAck(MarkCloseWriteAcked(s), p)
             v == MaybeInitiateClientCloseReadAfterWriterBreak(e, u)
  <2>1. t = TryFinalizeRemoteEOF(e, v)  BY <1>6
  <2>2. Pair(e, MarkCloseWriteAcked(s), q)  BY <1>3, <1>4, <1>6, CloseWriteAckedPair
  <2>3. Pair(e, u, q)  BY <2>2, ClearPair
  <2> HIDE DEF t, u
  <2>4. Pair(e, v, q)  BY <2>3, AfterWriterBreakPair
  <2> HIDE DEF v
  <2>5. Pair(e, TryFinalizeRemoteEOF(e, v), q)  BY <2>4, TryPair
  <2>6. QED BY <1>2, <2>1, <2>5, Step DEF q
<1>7. CASE p = "RST"
  <2> DEFINE u == [s EXCEPT !.reset = TRUE]
  <2>1. t = FinalizeClose(u)  BY <1>7
  <2>2. u \in Endpoint  BY <1>3, <1>4 DEF Pair, Endpoint
  <2>3. Half(e, u, q)
    BY <1>3, <1>4 DEF Pair, Half, Flags, Chunking, Heard, Closing, Lost, Ended, GaveUp,
         AllAcked, Endpoint
  <2>4. Half(Peer(e), q, u)
    BY <1>3, <1>4 DEF Pair, Half, Flags, Chunking, Heard, Closing, Lost, Ended, GaveUp,
         AllAcked, Endpoint
  <2>5. Pair(e, u, q)  BY <1>3, <1>4, <2>2, <2>3, <2>4 DEF Pair
  <2>6. u.reset  BY <1>3 DEF Pair, Endpoint
  <2> HIDE DEF t, u
  <2>7. Pair(e, FinalizeClose(u), q)  BY <2>5, <2>6, FinalizePair
  <2>8. QED BY <1>2, <2>1, <2>7, Step DEF q
<1>8. QED BY <1>5, <1>6, <1>7 DEF Terminal

-----------------------------------------------------------------------------
(* writeLoop.                                                              *)

\* writeLoop wakes up.
LEMMA WriteWakeStep == ASSUME IInv, NEW e \in Ends, WriteWake(e) PROVE IInv'
<1> DEFINE s == ep[e]  q == ep[Peer(e)]
           f == s.flushSignal /\ s.rcvNxt \in s.rcvBuf
           t == [s EXCEPT !.writer = "run", !.flushSignal = f]
<1>1. Pair(e, s, q)  BY Start
<1>2. /\ s.writer = "wait"
      /\ ep' = [ep EXCEPT ![e] = [s EXCEPT !.writer = "run",
                                  !.flushSignal = @ /\ s.rcvNxt \in s.rcvBuf]]
  BY DEF WriteWake, Becomes
<1>3. Becomes(e, t)  BY <1>1, <1>2 DEF Becomes, Pair, Endpoint
<1>4. f \in BOOLEAN  OBVIOUS
<1> HIDE DEF s, q, f
<1>5. t \in Endpoint  BY <1>1, <1>2, <1>4 DEF Pair, Endpoint
<1>6. Half(e, t, q)
  BY <1>1, <1>2, <1>4 DEF Pair, Half, Flags, Chunking, Heard, Closing, Lost, Ended, GaveUp,
       AllAcked, Endpoint
<1>7. Half(Peer(e), q, t)
  BY <1>1, <1>2, <1>4 DEF Pair, Half, Flags, Chunking, Heard, Closing, Lost, Ended, GaveUp,
       AllAcked, Endpoint
<1>8. Pair(e, t, q)  BY <1>1, <1>2, <1>4, <1>5, <1>6, <1>7 DEF Pair
<1> HIDE DEF t
<1>9. QED BY <1>3, <1>8, Step DEF q

\* writeLoop takes the chunks that are in order.
LEMMA WriteTakeStep == ASSUME IInv, NEW e \in Ends, WriteTake(e) PROVE IInv'
<1> DEFINE s == ep[e]  q == ep[Peer(e)]
<1>1. Pair(e, s, q)  BY Start
<1>2. s.writer = "run" /\ ~s.closed /\ s.rcvNxt \in s.rcvBuf  BY DEF WriteTake
<1>3. PICK end \in s.rcvNxt .. s.rcvNxt + Cardinality(s.rcvBuf) :
        /\ end \notin s.rcvBuf /\ s.rcvNxt .. end - 1 \subseteq s.rcvBuf
        /\ Becomes(e, [s EXCEPT !.writer = "writing", !.localWritePending = TRUE,
                                !.rcvBuf = @ \ (s.rcvNxt .. end - 1), !.rcvNxt = end])
  BY DEF WriteTake
<1> DEFINE t == [s EXCEPT !.writer = "writing", !.localWritePending = TRUE,
                          !.rcvBuf = @ \ (s.rcvNxt .. end - 1), !.rcvNxt = end]
<1> HIDE DEF s, q
<1>4. s.rcvNxt \in Nat \ {0} /\ q.read \in Nat /\ s.rcvBuf \subseteq 1 .. q.read
  BY <1>1 DEF Pair, Half, Heard, Endpoint
<1>5. end \in Nat \ {0} /\ s.rcvNxt < end
  BY <1>2, <1>3, <1>4
<1>6. end - 1 <= q.read
  <2>1. end - 1 \in s.rcvNxt .. end - 1  BY <1>4, <1>5
  <2>2. QED BY <1>3, <1>4, <2>1
<1>7. ~s.localWriterBroken  BY <1>1, <1>2 DEF Pair, Half, Closing
<1>8. t \in Endpoint  BY <1>1, <1>5 DEF Pair, Endpoint
<1>9. Half(e, t, q)
  <2>1. Flags(e, t)  BY <1>1, <1>2 DEF Pair, Half, Flags, Ended, GaveUp, Endpoint
  <2>2. Chunking(t)  BY <1>1 DEF Pair, Half, Chunking, Endpoint
  <2>3. Heard(e, t, q)
    BY <1>1, <1>2, <1>4, <1>5, <1>6, <1>7 DEF Pair, Half, Heard, Lost, Endpoint
  <2>4. Closing(e, t, q)
    BY <1>1, <1>2, <1>7 DEF Pair, Half, Closing, GaveUp, AllAcked, Endpoint
  <2>5. QED BY <2>1, <2>2, <2>3, <2>4 DEF Half
<1>10. Half(Peer(e), q, t)
  BY <1>1, <1>2 DEF Pair, Half, Flags, Chunking, Heard, Closing, Lost, Ended, GaveUp,
       AllAcked, Endpoint
<1>11. Pair(e, t, q)  BY <1>1, <1>8, <1>9, <1>10 DEF Pair
<1>12. Becomes(e, t)  BY <1>3
<1> HIDE DEF t
<1>13. QED BY <1>11, <1>12, Step DEF q

\* writeLoop finds nothing to write.
LEMMA WriteIdleStep == ASSUME IInv, NEW e \in Ends, WriteIdle(e) PROVE IInv'
<1> DEFINE s == ep[e]  q == ep[Peer(e)]
           t == [s EXCEPT !.writer = "empty", !.localWritePending = FALSE]
<1>1. Pair(e, s, q) /\ s.writer = "run" /\ Becomes(e, t)  BY Start DEF WriteIdle
<1> HIDE DEF s, q
<1>2. t \in Endpoint  BY <1>1 DEF Pair, Endpoint
<1>3. Half(e, t, q)
  BY <1>1 DEF Pair, Half, Flags, Chunking, Heard, Closing, Lost, Ended, GaveUp, AllAcked,
       Endpoint
<1>4. Half(Peer(e), q, t)
  BY <1>1 DEF Pair, Half, Flags, Chunking, Heard, Closing, Lost, Ended, GaveUp, AllAcked,
       Endpoint
<1>5. Pair(e, t, q)  BY <1>1, <1>2, <1>3, <1>4 DEF Pair
<1> HIDE DEF t
<1>6. QED BY <1>1, <1>5, Step DEF q

\* Between its sections writeLoop may go back to sleep, and after CLOSE_READ half-close.
LEMMA WriterPair ==
  ASSUME NEW e \in Ends, NEW s, NEW q, Pair(e, s, q), s.writer \in {"empty", "halfclose"},
         NEW w \in {"wait", "halfclose"}, w = "halfclose" => s.closeReadReceived
  PROVE  Pair(e, [s EXCEPT !.writer = w], q)
<1> DEFINE t == [s EXCEPT !.writer = w]
<1>1. t \in Endpoint  BY DEF Pair, Endpoint
<1>2. Half(e, t, q)
  BY DEF Pair, Half, Flags, Chunking, Heard, Closing, Lost, Ended, GaveUp, AllAcked,
       Endpoint
<1>3. Half(Peer(e), q, t)
  BY DEF Pair, Half, Flags, Chunking, Heard, Closing, Lost, Ended, GaveUp, AllAcked,
       Endpoint
<1>4. QED BY <1>1, <1>2, <1>3 DEF Pair

\* writeLoop looks whether the peer's stream is over.
LEMMA WriteLookStep == ASSUME IInv, NEW e \in Ends, WriteLook(e) PROVE IInv'
<1> DEFINE s == ep[e]  q == ep[Peer(e)]
           w == [s EXCEPT !.writer = "wait"]
           h == [s EXCEPT !.writer = "halfclose"]
           t == IF s.closeReadReceived /\ s.rxChan = {} THEN h ELSE TryFinalizeRemoteEOF(e, w)
<1>1. Pair(e, s, q) /\ s.writer = "empty" /\ Becomes(e, t)  BY Start DEF WriteLook
<1> HIDE DEF s, q
<1>2. Pair(e, w, q)  BY <1>1, WriterPair
<1>3. s.closeReadReceived => Pair(e, h, q)  BY <1>1, WriterPair
<1> HIDE DEF w, h
<1>4. Pair(e, TryFinalizeRemoteEOF(e, w), q)  BY <1>2, TryPair
<1>5. Pair(e, t, q)  BY <1>3, <1>4
<1> HIDE DEF t
<1>6. QED BY <1>1, <1>5, Step DEF q

\* halfCloseLocalWriter: the peer's chunks are acknowledged when its end has come.
LEMMA HalfClosePair ==
  ASSUME NEW e \in Ends, NEW s, NEW q, Pair(e, s, q), s.closeReadReceived, s.writer # "failed"
  PROVE  Pair(e, HalfCloseLocalWriter(s), q)
<1> DEFINE h == [s EXCEPT !.localWriteClosed = TRUE, !.finSent = TRUE]
<1>1. h \in Endpoint  BY DEF Pair, Endpoint
<1>2. Half(e, h, q)
  BY DEF Pair, Half, Flags, Chunking, Heard, Closing, Lost, Ended, GaveUp, AllAcked,
       Endpoint
<1>3. Half(Peer(e), q, h)
  BY DEF Pair, Half, Flags, Chunking, Heard, Closing, Lost, Ended, GaveUp, AllAcked,
       Endpoint
<1>4. Pair(e, h, q)  BY <1>1, <1>2, <1>3 DEF Pair
<1>5. QED BY <1>4 DEF HalfCloseLocalWriter

\* writeLoop half-closes and tries to finish.
LEMMA WriteEOFStep == ASSUME IInv, NEW e \in Ends, WriteEOF(e) PROVE IInv'
<1> DEFINE a == ep[e]  q == ep[Peer(e)]
           s == [a EXCEPT !.writer = "wait"]
<1>1. Pair(e, a, q) /\ a.writer = "halfclose"  BY Start DEF WriteEOF
<1>2. Becomes(e, TryFinalizeRemoteEOF(e, HalfCloseLocalWriter(s)))  BY DEF WriteEOF
<1> HIDE DEF a, q
<1>3. Pair(e, s, q)  BY <1>1, WriterPair
<1>4. s.closeReadReceived /\ s.writer # "failed"  BY <1>1 DEF Pair, Half, Flags, Endpoint
<1> HIDE DEF s
<1>5. Pair(e, HalfCloseLocalWriter(s), q)  BY <1>3, <1>4, HalfClosePair
<1>6. Pair(e, TryFinalizeRemoteEOF(e, HalfCloseLocalWriter(s)), q)  BY <1>5, TryPair
<1>7. QED BY <1>2, <1>6, Step DEF q

\* The local connection takes the chunks.
LEMMA WriteDoneStep == ASSUME IInv, NEW e \in Ends, WriteDone(e) PROVE IInv'
<1> DEFINE a == ep[e]  q == ep[Peer(e)]
           s == [a EXCEPT !.writer = "run", !.written = a.rcvNxt - 1,
                          !.localWritePending = FALSE]
<1>1. Pair(e, a, q)  BY Start
<1>2. /\ Becomes(e, TryFinalizeRemoteEOF(e, s))
      /\ a.writer = "writing" /\ ~a.closed /\ ~a.finSent
  BY DEF WriteDone
<1> HIDE DEF a, q
<1>3. a.rcvNxt - 1 \in Nat  BY <1>1 DEF Pair, Endpoint
<1>4. s \in Endpoint  BY <1>1, <1>2, <1>3 DEF Pair, Endpoint
<1>5. Half(e, s, q)
  BY <1>1, <1>2, <1>3 DEF Pair, Half, Flags, Chunking, Heard, Closing, Lost, Ended, GaveUp,
       AllAcked, Endpoint
<1>6. Half(Peer(e), q, s)
  BY <1>1, <1>2, <1>3 DEF Pair, Half, Flags, Chunking, Heard, Closing, Lost, Ended, GaveUp,
       AllAcked, Endpoint
<1>7. Pair(e, s, q)  BY <1>1, <1>2, <1>3, <1>4, <1>5, <1>6 DEF Pair
<1> HIDE DEF s
<1>8. Pair(e, TryFinalizeRemoteEOF(e, s), q)  BY <1>7, TryPair
<1>9. QED BY <1>2, <1>8, Step DEF q

\* A write fails.
LEMMA WriteFailStep == ASSUME IInv, NEW e \in Ends, WriteFail(e) PROVE IInv'
<1> DEFINE a == ep[e]  q == ep[Peer(e)]
           b == [a EXCEPT !.writer = "failed", !.localWritePending = FALSE,
                          !.localWriterBroken = TRUE, !.rcvBuf = {}]
<1>1. Pair(e, a, q)  BY Start
<1>2. PICK k \in a.written .. a.rcvNxt - 1 :
        /\ a.finSent => k = a.written
        /\ Becomes(e, EmitTerminalPacket(e, [b EXCEPT !.written = k], "CLOSE_WRITE"))
  BY DEF WriteFail
<1>3. a.writer = "writing"  BY DEF WriteFail
<1> DEFINE s == [b EXCEPT !.written = k]
<1>4. Becomes(e, EmitTerminalPacket(e, s, "CLOSE_WRITE"))  BY <1>2
<1> HIDE DEF a, q
<1>5. k \in Nat  BY <1>1, <1>2 DEF Pair, Endpoint
<1>6. s \in Endpoint  BY <1>1, <1>2, <1>3, <1>5 DEF Pair, Endpoint
<1>7. Half(e, s, q)
  BY <1>1, <1>2, <1>3, <1>5 DEF Pair, Half, Flags, Chunking, Heard, Closing, Lost, Ended,
       GaveUp, AllAcked, Endpoint
<1>8. Half(Peer(e), q, s)
  BY <1>1, <1>2, <1>3, <1>5 DEF Pair, Half, Flags, Chunking, Heard, Closing, Lost, Ended,
       GaveUp, AllAcked, Endpoint
<1>9. Pair(e, s, q)  BY <1>1, <1>2, <1>3, <1>5, <1>6, <1>7, <1>8 DEF Pair
<1>10. MayCloseWrite(e, s, q)  BY <1>1 DEF MayCloseWrite, Pair, Endpoint
<1> HIDE DEF s
<1>11. Pair(e, EmitTerminalPacket(e, s, "CLOSE_WRITE"), q)
  BY <1>9, <1>10, EmitPair DEF Terminal
<1>12. QED BY <1>4, <1>11, Step DEF q

-----------------------------------------------------------------------------
(* retransmitLoop.                                                         *)

\* A deferred close runs into its deadline.
LEMMA DrainTimeoutStep == ASSUME IInv, NEW e \in Ends, DrainTimeout(e) PROVE IInv'
<1>1. Becomes(e, SettleTerminalDrain(e, ep[e], TRUE))  BY DEF DrainTimeout
<1>2. Pair(e, SettleTerminalDrain(e, ep[e], TRUE), ep[Peer(e)])  BY Start, SettlePair
<1>3. QED BY <1>1, <1>2, Step

\* The wait for an acknowledgement runs into its deadline.
LEMMA AckWaitTimeoutStep == ASSUME IInv, NEW e \in Ends, AckWaitTimeout(e) PROVE IInv'
<1> DEFINE s == ep[e]  q == ep[Peer(e)]
           t == IF s.waitingAckFor = "RST" THEN FinalizeClose(s) ELSE CloseRST(e, s)
<1>1. Pair(e, s, q)  BY Start
<1>2. Becomes(e, t)  BY DEF AckWaitTimeout
<1> HIDE DEF s, q
<1>3. s.waitingAckFor = "RST" => s.rstSent  BY <1>1 DEF Pair, Half, Flags
<1>4. Pair(e, t, q)  BY <1>1, <1>3, FinalizePair, CloseRSTPair
<1> HIDE DEF t
<1>5. QED BY <1>2, <1>4, Step DEF q

\* The client sends CLOSE_WRITE when both streams are over.
LEMMA CloseWriteAfterGraceStep ==
  ASSUME IInv, NEW e \in Ends, CloseWriteAfterGrace(e)
  PROVE  IInv'
<1> DEFINE s == ep[e]  q == ep[Peer(e)]
<1>1. Pair(e, s, q)  BY Start
<1>2. /\ Becomes(e, EmitTerminalPacket(e, s, "CLOSE_WRITE"))
      /\ e = "client" /\ ~s.closed /\ ~s.rstSent /\ ~s.rstReceived /\ s.closeReadSent
      /\ s.rcvBuf = {} /\ ~s.localWritePending
      /\ s.closeReadReceived \/ s.localWriterBroken
  BY DEF CloseWriteAfterGrace
<1> HIDE DEF s, q
<1>3. MayCloseWrite(e, s, q)
  <2>1. CASE s.localWriterBroken \/ s.writer = "failed"
    BY <1>1, <1>2, <2>1 DEF MayCloseWrite, Pair, Half, Closing
  <2>2. CASE ~s.localWriterBroken /\ s.writer # "failed"
    <3>1. ~GaveUp(Peer(e), q)  BY <1>2 DEF GaveUp, Peer
    <3>2. s.rcvNxt - 1 = q.read  BY <1>1, <1>2, <2>2, <3>1, AllHere DEF Lost
    <3>3. s.writer \notin {"writing", "failed"}
      BY <1>1, <1>2, <2>2 DEF Pair, Half, Chunking
    <3>4. s.written = q.read  BY <1>1, <3>2, <3>3 DEF Pair, Half, Chunking
    <3>5. QED BY <1>2, <2>2, <3>2, <3>4 DEF MayCloseWrite
  <2>3. QED BY <2>1, <2>2
<1>4. Pair(e, EmitTerminalPacket(e, s, "CLOSE_WRITE"), q)
  BY <1>1, <1>3, EmitPair DEF Terminal
<1>5. QED BY <1>2, <1>4, Step DEF q

\* An idle stream and one whose chunk expires are reset.
LEMMA ResetStep ==
  ASSUME IInv, NEW e \in Ends, InactivityTimeout(e) \/ DataExpires(e)
  PROVE  IInv'
<1>1. Becomes(e, CloseRST(e, ep[e]))  BY DEF InactivityTimeout, DataExpires
<1>2. Pair(e, CloseRST(e, ep[e]), ep[Peer(e)])  BY Start, CloseRSTPair
<1>3. QED BY <1>1, <1>2, Step

\* A control packet expires.
LEMMA ControlExpiresStep ==
  ASSUME IInv, NEW e \in Ends, NEW p \in Terminal, ControlExpires(e, p)
  PROVE  IInv'
<1> DEFINE a == ep[e]  q == ep[Peer(e)]
           s == [a EXCEPT !.controlSndBuf = @ \ {p}]
           t == IF p = "RST" THEN FinalizeClose(s) ELSE CloseRST(e, s)
<1>1. Pair(e, a, q)  BY Start
<1>2. Becomes(e, t) /\ p \in a.controlSndBuf  BY DEF ControlExpires
<1> HIDE DEF a, q
<1>3. Pair(e, s, q)  BY <1>1, UntrackPair
<1>4. p = "RST" => s.rstSent  BY <1>1, <1>2 DEF Pair, Half, Flags, Endpoint
<1> HIDE DEF s
<1>5. Pair(e, t, q)  BY <1>3, <1>4, FinalizePair, CloseRSTPair
<1> HIDE DEF t
<1>6. QED BY <1>2, <1>5, Step DEF q

-----------------------------------------------------------------------------
(* The theorems.                                                           *)

\* The invariant holds of two new endpoints.
LEMMA InitIInv == Init => IInv
<1> SUFFICES ASSUME Init PROVE IInv  OBVIOUS
<1>1. NewARQ \in Endpoint  BY DEF NewARQ, Endpoint
<1>2. \A e \in Ends : ep[e] = NewARQ  BY DEF Init
<1>3. \A e \in Ends : Half(e, NewARQ, NewARQ)
  BY DEF NewARQ, Half, Flags, Chunking, Heard, Closing, Lost, Ended, GaveUp, AllAcked
<1>4. QED BY <1>1, <1>2, <1>3, Peers DEF IInv, Init

\* Every step keeps the invariant.
LEMMA NextIInv == IInv /\ [Next]_ep => IInv'
<1> SUFFICES ASSUME IInv, [Next]_ep PROVE IInv'  OBVIOUS
<1>1. CASE UNCHANGED ep  BY <1>1 DEF IInv
<1>2. ASSUME NEW e \in Ends, IoLoop(e) PROVE IInv'
  BY <1>2, IoTestStep, IoChunkStep, IoTimeoutStep, IoEOFStep, IoErrorStep DEF IoLoop
<1>3. ASSUME NEW e \in Ends, WriteLoop(e) PROVE IInv'
  BY <1>3, WriteWakeStep, WriteTakeStep, WriteDoneStep, WriteFailStep, WriteIdleStep,
     WriteLookStep, WriteEOFStep DEF WriteLoop
<1>4. ASSUME NEW e \in Ends, Network(e) PROVE IInv'
  BY <1>4, ReceiveDataStep, ProcessReceivedDataStep, RxDrainStep, ReceiveAckStep,
     ReceiveTerminalStep, ReceiveControlAckStep DEF Network
<1>5. ASSUME NEW e \in Ends, Timer(e) PROVE IInv'
  BY <1>5, DrainTimeoutStep, AckWaitTimeoutStep, CloseWriteAfterGraceStep, ResetStep,
     ControlExpiresStep DEF Timer
<1>6. QED BY <1>1, <1>2, <1>3, <1>4, <1>5 DEF Next

\* The inductive invariant holds throughout every behaviour of two endpoints over a path
\* that loses, duplicates, delays and reorders, with every timeout.
THEOREM Invariance == Spec => []IInv
BY InitIInv, NextIInv, PTL DEF Spec

\* The fields have their types, and an endpoint that is closed has no close in progress,
\* whatever its loops were doing when finalizeClose ran and whatever they still do after it.
THEOREM TypeCorrect == Spec => []TypeOK
<1>1. IInv => TypeOK  BY DEF IInv, TypeOK, Half, Flags
<1>2. QED BY <1>1, Invariance, PTL

\* After the half-close of an endpoint s the peer q has had every chunk acknowledged: s had
\* CLOSE_READ, and had not refused a write before it.
LEMMA AfterEnd ==
  ASSUME NEW e \in Ends, NEW s, NEW q, Half(e, s, q), Half(Peer(e), q, s), s.finSent,
         ~GaveUp(Peer(e), q)
  PROVE  AllAcked(q, s)
<1>1. q.closeReadSent  BY DEF Half, Flags, Heard
<1> QED BY <1>1 DEF Half, Closing

\* When writeLoop has half-closed the local connection, every chunk the peer read is written,
\* taken or in rcvBuf, unless the stream is being reset, the connection refused a write or
\* the client gave up.
THEOREM EofIsHeld == Spec => []EofHeld
<1>1. ASSUME IInv, NEW e \in Ends, ep[e].finSent, ~ep[e].closed, ~Resetting(e),
             ep[e].writer # "failed", ~(e = "server" /\ ClientGaveUp),
             NEW n \in 1 .. ep[Peer(e)].read
      PROVE  n < ep[e].rcvNxt \/ n \in ep[e].rcvBuf
  <2> DEFINE s == ep[e]
             q == ep[Peer(e)]
  <2>1. s \in Endpoint /\ q \in Endpoint /\ Half(e, s, q) /\ Half(Peer(e), q, s)
    BY <1>1, Peers DEF IInv
  <2>2. ~GaveUp(Peer(e), q)
    BY <1>1 DEF GaveUp, ClientGaveUp, Peer, Ends
  <2>3. AllAcked(q, s)
    BY <1>1, <2>1, <2>2, AfterEnd
  <2>5. DataAck(n) \in s.out /\ n \in Nat
    BY <1>1, <2>1, <2>3 DEF AllAcked, Endpoint
  <2>6. ~Lost(s)
    BY <1>1 DEF Lost, Resetting
  <2>7. CASE s.localWriterBroken
    BY <1>1, <2>1, <2>7 DEF Half, Closing, Endpoint
  <2>8. CASE ~s.localWriterBroken
    BY <2>1, <2>5, <2>6, <2>8 DEF Half, Heard
  <2>9. QED BY <2>7, <2>8
<1>2. IInv => EofHeld  BY <1>1 DEF EofHeld
<1>3. QED BY <1>2, Invariance, PTL

\* An endpoint that ends without a reset has written everything the peer read, unless its
\* local connection refused it or the client gave up.
THEOREM EndIsComplete == Spec => []EndComplete
<1>1. IInv => EndComplete
  BY Peers DEF IInv, EndComplete, Half, Closing, Graceful, ClientGaveUp, GaveUp, Ends, Peer
<1>2. QED BY <1>1, Invariance, PTL

\* An endpoint that ends without a reset has had every chunk acknowledged, unless the peer
\* sent CLOSE_WRITE.
THEOREM EndIsAcked == Spec => []EndAcked
<1>1. IInv => EndAcked
  BY Peers DEF IInv, EndAcked, Half, Closing, Graceful, ClientGaveUp, GaveUp, AllAcked, Ends
<1>2. QED BY <1>1, Invariance, PTL

-----------------------------------------------------------------------------
(* Each direction is a reliable stream with an end.                        *)

\* What the local connections see of an endpoint.
Seen == {"read", "written", "finSent", "writer", "rstSent", "rstReceived", "out"}

\* The chunks an endpoint has acknowledged.
Acks(out) == {n \in Nat : DataAck(n) \in out}

\* No other packet acknowledges a chunk.
LEMMA AcksOf ==
  ASSUME NEW out, NEW m
  PROVE  /\ Acks(out \cup {Ctl(m)}) = Acks(out) /\ Acks(out \cup {AckOf(m)}) = Acks(out)
         /\ Acks(out \cup {Data(m)}) = Acks(out)
         /\ m \in Nat => Acks(out \cup {DataAck(m)}) = Acks(out) \cup {m}
<1>1. Acks(out \cup {Ctl(m)}) = Acks(out)  BY Kinds DEF Acks
<1>2. Acks(out \cup {AckOf(m)}) = Acks(out)  BY Kinds DEF Acks
<1>3. Acks(out \cup {Data(m)}) = Acks(out)  BY Kinds DEF Acks
<1>4. m \in Nat => Acks(out \cup {DataAck(m)}) = Acks(out) \cup {m}  BY Kinds DEF Acks
<1> QED BY <1>1, <1>2, <1>3, <1>4

\* t is s after something the local connections do not see, ...
Same(s, t) ==
  /\ DOMAIN t = DOMAIN s
  /\ t.read = s.read /\ t.written = s.written /\ t.finSent = s.finSent
  /\ t.writer = "failed" <=> s.writer = "failed"
  /\ Acks(t.out) = Acks(s.out)
  /\ t.rstSent = s.rstSent /\ t.rstReceived = s.rstReceived

\* ... or after a reset.
Kept(s, t) ==
  /\ DOMAIN t = DOMAIN s
  /\ t.read = s.read /\ t.written = s.written /\ t.finSent = s.finSent
  /\ t.writer = "failed" <=> s.writer = "failed"
  /\ Acks(t.out) = Acks(s.out)
  /\ s.rstSent => t.rstSent
  /\ s.rstReceived => t.rstReceived

\* What is the same is kept, and both go on from step to step.
LEMMA SameKept ==
  ASSUME NEW s, NEW t, NEW u
  PROVE  /\ Same(s, s) /\ Kept(s, s)
         /\ Same(s, t) => Kept(s, t)
         /\ Same(s, t) /\ Same(t, u) => Same(s, u)
         /\ Kept(s, t) /\ Kept(t, u) => Kept(s, u)
BY DEF Same, Kept

\* The final close changes nothing that is seen.
LEMMA FinalizeSame ==
  ASSUME NEW s, Seen \subseteq DOMAIN s
  PROVE  Same(s, FinalizeClose(s))
BY DEF Same, Seen, FinalizeClose, Cancelled

\* tryFinalizeRemoteEOF closes or does nothing.
LEMMA TrySame ==
  ASSUME NEW e, NEW s, Seen \subseteq DOMAIN s
  PROVE  Same(s, TryFinalizeRemoteEOF(e, s))
BY FinalizeSame, SameKept DEF TryFinalizeRemoteEOF, TryFinalizeClientLocalDisconnect

\* Nor does queueing a terminal packet.
LEMMA SendSame ==
  ASSUME NEW s, NEW p, Seen \subseteq DOMAIN s
  PROVE  Same(s, SendControlPacket(s, p))
BY AcksOf DEF Same, Seen, SendControlPacket

\* A terminal packet that is no reset changes nothing that is seen either.
LEMMA EmitKept ==
  ASSUME NEW e, NEW s, NEW p \in Terminal, Seen \subseteq DOMAIN s
  PROVE  /\ Kept(s, EmitTerminalPacket(e, s, p))
         /\ p # "RST" => Same(s, EmitTerminalPacket(e, s, p))
<1>1. PICK t : t = [s EXCEPT !.stopLocalRead = TRUE, !.deferred = "none"]  OBVIOUS
<1>2. PICK w : w = [t EXCEPT !.waitingAckFor = p]  OBVIOUS
<1>3. Same(s, t) /\ Same(t, w) /\ Seen \subseteq DOMAIN w  BY <1>1, <1>2 DEF Same, Seen
<1>4. Same(s, w)  BY <1>3, SameKept
<1>5. PICK m : m = CASE p = "CLOSE_READ" -> MarkCloseReadSent(e, w)
                     [] p = "CLOSE_WRITE" -> MarkCloseWriteSent(w)
                     [] p = "RST" -> MarkRstSent(w)
  OBVIOUS
<1>6. Kept(w, m) /\ (p # "RST" => Same(w, m))
  <2>1. CASE p = "CLOSE_READ"
    <3>1. PICK u : u = [w EXCEPT !.closeReadSent = TRUE, !.reset = FALSE]  OBVIOUS
    <3>2. Same(w, u) /\ Seen \subseteq DOMAIN u  BY <1>3, <3>1 DEF Same, Seen
    <3>3. m = TryFinalizeRemoteEOF(e, u)  BY <1>5, <2>1, <3>1 DEF MarkCloseReadSent
    <3> QED BY <3>2, <3>3, TrySame, SameKept
  <2>2. CASE p = "CLOSE_WRITE"
    <3>1. m = MarkCloseWriteSent(w)  BY <1>5, <2>2
    <3>2. Same(w, m)  BY <1>3, <3>1 DEF MarkCloseWriteSent, Same, Seen
    <3> QED BY <3>2, SameKept
  <2>3. CASE p = "RST"
    <3>1. m = MarkRstSent(w)  BY <1>5, <2>3
    <3> QED BY <1>3, <2>3, <3>1 DEF MarkRstSent, Kept, Seen
  <2> QED BY <2>1, <2>2, <2>3 DEF Terminal
<1>7. Same(m, SendControlPacket(m, p))
  <2>1. Seen \subseteq DOMAIN m  BY <1>3, <1>6 DEF Kept
  <2> QED BY <2>1, SendSame
<1>8. Kept(s, SendControlPacket(m, p)) /\ (p # "RST" => Same(s, SendControlPacket(m, p)))
  BY <1>4, <1>6, <1>7, SameKept
<1>9. \/ EmitTerminalPacket(e, s, p) = s
      \/ EmitTerminalPacket(e, s, p) = t
      \/ EmitTerminalPacket(e, s, p) = SendControlPacket(m, p)
  BY <1>1, <1>2, <1>5 DEF EmitTerminalPacket
<1> QED BY <1>3, <1>8, <1>9, SameKept

\* Close with SendRST keeps what is seen, but for the reset, ...
LEMMA CloseRSTKept ==
  ASSUME NEW e, NEW s, Seen \subseteq DOMAIN s
  PROVE  Kept(s, CloseRST(e, s))
<1>1. PICK t : t = [s EXCEPT !.reset = TRUE, !.deferred = "none"]  OBVIOUS
<1>2. Same(s, t) /\ Seen \subseteq DOMAIN t  BY <1>1 DEF Same, Seen
<1>3. "RST" \in Terminal  BY DEF Terminal
<1>4. Kept(t, EmitTerminalPacket(e, t, "RST"))  BY <1>2, <1>3, EmitKept
<1>5. CloseRST(e, s) = s \/ CloseRST(e, s) = EmitTerminalPacket(e, t, "RST")
  BY <1>1 DEF CloseRST
<1> QED BY <1>2, <1>4, <1>5, SameKept

\* ... so does the end of a drain, ...
LEMMA SettleKept ==
  ASSUME NEW e, NEW s, NEW expired, Seen \subseteq DOMAIN s,
         s.deferred \in {"none", "CLOSE_READ", "RST"}
  PROVE  Kept(s, SettleTerminalDrain(e, s, expired))
<1>1. PICK t : t = [s EXCEPT !.deferred = "none"]  OBVIOUS
<1>2. Same(s, t) /\ Seen \subseteq DOMAIN t  BY <1>1 DEF Same, Seen
<1>3. "CLOSE_READ" \in Terminal  BY DEF Terminal
<1>4. Kept(t, CloseRST(e, t)) /\ Kept(t, EmitTerminalPacket(e, t, "CLOSE_READ"))
  BY <1>2, <1>3, CloseRSTKept, EmitKept
<1>5. \/ SettleTerminalDrain(e, s, expired) = s
      \/ SettleTerminalDrain(e, s, expired) = CloseRST(e, t)
      \/ SettleTerminalDrain(e, s, expired) = EmitTerminalPacket(e, t, "CLOSE_READ")
  BY <1>1 DEF SettleTerminalDrain
<1> QED BY <1>2, <1>4, <1>5, SameKept

\* ... a close that is deferred ...
LEMMA DeferKept ==
  ASSUME NEW e, NEW s, NEW p \in {"CLOSE_READ", "RST"}, Seen \subseteq DOMAIN s,
         "deferred" \in DOMAIN s
  PROVE  Kept(s, DeferTerminalPacket(e, s, p))
<1>1. PICK t : t = [s EXCEPT !.stopLocalRead = TRUE, !.deferred = p]  OBVIOUS
<1>2. Same(s, t) /\ Seen \subseteq DOMAIN t /\ t.deferred = p  BY <1>1 DEF Same, Seen
<1>3. Kept(s, s) /\ Kept(s, t)  BY <1>2, SameKept
<1>4. Kept(s, SettleTerminalDrain(e, t, FALSE))
  <2>1. PICK u : u = SettleTerminalDrain(e, t, FALSE)  OBVIOUS
  <2>2. Kept(t, u)  BY <1>2, <2>1, SettleKept
  <2> QED BY <1>3, <2>1, <2>2, SameKept
<1>5. \/ DeferTerminalPacket(e, s, p) = s
      \/ DeferTerminalPacket(e, s, p) = t
      \/ DeferTerminalPacket(e, s, p) = SettleTerminalDrain(e, t, FALSE)
  BY <1>1 DEF DeferTerminalPacket
<1> QED BY <1>3, <1>4, <1>5

\* ... and Close with SendRST and AfterDrain.
LEMMA AfterDrainKept ==
  ASSUME NEW e, NEW s, Seen \subseteq DOMAIN s, "deferred" \in DOMAIN s
  PROVE  Kept(s, CloseRSTAfterDrain(e, s))
<1>1. PICK t : t = [s EXCEPT !.reset = TRUE, !.deferred = "none"]  OBVIOUS
<1>2. Same(s, t) /\ Seen \subseteq DOMAIN t /\ "deferred" \in DOMAIN t  BY <1>1 DEF Same, Seen
<1>3. Kept(s, CloseRST(e, s)) /\ Kept(t, DeferTerminalPacket(e, t, "RST"))
  BY <1>2, CloseRSTKept, DeferKept
<1>4. \/ CloseRSTAfterDrain(e, s) = CloseRST(e, s)
      \/ CloseRSTAfterDrain(e, s) = DeferTerminalPacket(e, t, "RST")
  BY <1>1 DEF CloseRSTAfterDrain
<1> QED BY <1>2, <1>3, <1>4, SameKept

\* An endpoint has what is seen.
LEMMA EndpointSeen ==
  ASSUME NEW s \in Endpoint
  PROVE  /\ Seen \subseteq DOMAIN s /\ "deferred" \in DOMAIN s
         /\ s.deferred \in {"none", "CLOSE_READ", "RST"} /\ s.read \in Nat /\ s.written \in Nat
         /\ s.rcvNxt \in Nat \ {0}
BY DEF Endpoint, Seen

\* An endpoint stays one when the end is tried.
LEMMA TryType ==
  ASSUME NEW e, NEW s \in Endpoint
  PROVE  TryFinalizeRemoteEOF(e, s) \in Endpoint
BY FinalizeType DEF TryFinalizeRemoteEOF, TryFinalizeClientLocalDisconnect

\* An answer that acknowledges no chunk, and CLOSE_WRITE where it is needed, are not seen.
LEMMA AnswerSame ==
  ASSUME NEW e, NEW s \in Endpoint, NEW p
  PROVE  /\ Same(s, Answer(s, Ctl(p))) /\ Same(s, Answer(s, AckOf(p)))
         /\ Kept(s, CloseWriteIfNeeded(e, s))
<1>1. Seen \subseteq DOMAIN s  BY EndpointSeen
<1>2. "CLOSE_WRITE" \in Terminal  BY DEF Terminal
<1>3. Kept(s, s) /\ Kept(s, EmitTerminalPacket(e, s, "CLOSE_WRITE"))
  BY <1>1, <1>2, EmitKept, SameKept
<1>4. Same(s, Answer(s, Ctl(p))) /\ Same(s, Answer(s, AckOf(p)))
  BY <1>1, AcksOf DEF Answer, Same, Seen
<1>5. Kept(s, CloseWriteIfNeeded(e, s))  BY <1>3 DEF CloseWriteIfNeeded
<1> QED BY <1>4, <1>5

\* The receiver: nothing but a reset, an acknowledgement, a write, or the end.
Receiving(s, t) ==
  \/ /\ t.written = s.written /\ t.finSent = s.finSent /\ Acks(t.out) = Acks(s.out)
     /\ s.rstSent => t.rstSent
     /\ s.rstReceived => t.rstReceived
  \/ /\ t.written = s.written /\ t.finSent = s.finSent
     /\ \E n \in Nat : Acks(t.out) = Acks(s.out) \cup {n}
     /\ t.rstSent = s.rstSent /\ t.rstReceived = s.rstReceived
  \/ /\ ~s.finSent /\ ~t.finSent /\ t.written \in s.written .. s.rcvNxt - 1
     /\ Acks(t.out) = Acks(s.out)
     /\ t.rstSent = s.rstSent /\ t.rstReceived = s.rstReceived
  \/ /\ ~s.finSent /\ t.finSent /\ t.written = s.written /\ Acks(t.out) = Acks(s.out)
     /\ t.rstSent = s.rstSent /\ t.rstReceived = s.rstReceived

\* The local connection of the sender: it gives a chunk, or its writer fails, or neither.
Sending(s, t) ==
  \/ t.read = s.read /\ (s.writer = "failed" => t.writer = "failed")
  \/ t.read = s.read + 1 /\ (s.writer = "failed" <=> t.writer = "failed")

\* What a step of e does to both.
Observed(e) ==
  \E t : Becomes(e, t) /\ Receiving(ep[e], t) /\ Sending(ep[e], t)

\* A step that keeps what is seen.
LEMMA KeptStep ==
  ASSUME NEW e, NEW t, Becomes(e, t), Kept(ep[e], t)
  PROVE  Observed(e)
<1>1. Receiving(ep[e], t) /\ Sending(ep[e], t)  BY DEF Kept, Receiving, Sending
<1> QED BY <1>1 DEF Observed

\* The same in two parts, the first of which is not seen.
LEMMA SameKeptStep ==
  ASSUME NEW e, NEW s, NEW t, Becomes(e, t), Same(ep[e], s), Kept(s, t)
  PROVE  Observed(e)
<1>1. Kept(ep[e], t)  BY SameKept
<1> QED BY <1>1, KeptStep

-----------------------------------------------------------------------------
\* ioLoop: a chunk, an end of stream, an error.
LEMMA IoObserved ==
  ASSUME IInv, NEW e \in Ends, IoTest(e) \/ IoChunk(e) \/ IoTimeout(e) \/ IoEOF(e) \/ IoError(e)
  PROVE  Observed(e)
<1>1. PICK s : s = ep[e]  OBVIOUS
<1>2. s \in Endpoint  BY <1>1 DEF IInv
<1>3. Seen \subseteq DOMAIN s /\ "deferred" \in DOMAIN s  BY <1>2, EndpointSeen
<1>4. CASE IoTest(e) \/ IoTimeout(e)
  <2>1. PICK i : Becomes(e, [s EXCEPT !.io = i])  BY <1>1, <1>4 DEF IoTest, IoTimeout
  <2>2. Kept(s, [s EXCEPT !.io = i])  BY <1>3 DEF Kept, Seen
  <2> QED BY <1>1, <2>1, <2>2, KeptStep
<1>5. CASE IoEOF(e)
  <2>1. PICK u : u = [s EXCEPT !.io = "eof"]  OBVIOUS
  <2>2. Same(s, u) /\ Seen \subseteq DOMAIN u /\ "deferred" \in DOMAIN u
    BY <1>3, <2>1 DEF Same, Seen
  <2>3. Becomes(e, DeferTerminalPacket(e, u, "CLOSE_READ"))  BY <1>1, <1>5, <2>1 DEF IoEOF
  <2>4. Kept(u, DeferTerminalPacket(e, u, "CLOSE_READ"))  BY <2>2, DeferKept
  <2> QED BY <1>1, <2>2, <2>3, <2>4, SameKeptStep
<1>6. CASE IoError(e) /\ Becomes(e, CloseRST(e, [ep[e] EXCEPT !.io = "done"]))
  <2>1. PICK u : u = [s EXCEPT !.io = "done"]  OBVIOUS
  <2>2. Same(s, u) /\ Seen \subseteq DOMAIN u  BY <1>3, <2>1 DEF Same, Seen
  <2>3. Becomes(e, CloseRST(e, u))  BY <1>1, <1>6, <2>1
  <2>4. Kept(u, CloseRST(e, u))  BY <2>2, CloseRSTKept
  <2> QED BY <1>1, <2>2, <2>3, <2>4, SameKeptStep
<1>7. ASSUME NEW i, NEW u, u = [Queued(s) EXCEPT !.io = i]
      PROVE  /\ Seen \subseteq DOMAIN u /\ "deferred" \in DOMAIN u
             /\ u.read = s.read + 1
             /\ u.written = s.written /\ u.finSent = s.finSent /\ u.writer = s.writer
             /\ Acks(u.out) = Acks(s.out)
             /\ u.rstSent = s.rstSent /\ u.rstReceived = s.rstReceived
  BY <1>3, <1>7, AcksOf DEF Queued, Seen
<1>8. CASE IoChunk(e)
  <2>1. PICK u : u = [Queued(s) EXCEPT !.io = "test"]  OBVIOUS
  <2>2. Becomes(e, u)  BY <1>1, <1>8, <2>1 DEF IoChunk
  <2>3. Receiving(s, u) /\ Sending(s, u)  BY <1>7, <2>1 DEF Receiving, Sending
  <2> QED BY <1>1, <2>2, <2>3 DEF Observed
<1>9. CASE IoError(e)
           /\ Becomes(e, CloseRSTAfterDrain(e, [Queued(ep[e]) EXCEPT !.io = "done"]))
  <2>1. PICK u : u = [Queued(s) EXCEPT !.io = "done"]  OBVIOUS
  <2>2. PICK t : t = CloseRSTAfterDrain(e, u)  OBVIOUS
  <2>3. Becomes(e, t)  BY <1>1, <1>9, <2>1, <2>2
  <2>4. Kept(u, t)
    <3>1. Seen \subseteq DOMAIN u /\ "deferred" \in DOMAIN u  BY <1>7, <2>1
    <3> QED BY <2>2, <3>1, AfterDrainKept
  <2>5. Receiving(s, t) /\ Sending(s, t)  BY <1>7, <2>1, <2>4 DEF Kept, Receiving, Sending
  <2> QED BY <1>1, <2>3, <2>5 DEF Observed
<1> QED BY <1>4, <1>5, <1>6, <1>8, <1>9 DEF IoError

\* Data and its acknowledgements.
LEMMA DataObserved ==
  ASSUME IInv, NEW e \in Ends, NEW n, ReceiveData(e, n) \/ ProcessReceivedData(e, n) \/ RxDrain(e)
  PROVE  Observed(e)
<1>1. PICK s : s = ep[e]  OBVIOUS
<1>2. s \in Endpoint  BY <1>1 DEF IInv
<1>3. Seen \subseteq DOMAIN s  BY <1>2, EndpointSeen
<1>4. CASE ReceiveData(e, n)
  <2>1. PICK r : r = [s EXCEPT !.rxChan = @ \cup {n}]  OBVIOUS
  <2>2. Same(s, r)  BY <1>3, <2>1 DEF Same, Seen
  <2>3. /\ Kept(s, s) /\ Kept(s, r) /\ Kept(s, CloseWriteIfNeeded(e, s))
        /\ Kept(s, Answer(s, Ctl("RST")))
    BY <1>2, <2>2, AnswerSame, SameKept
  <2>4. \/ Becomes(e, s) \/ Becomes(e, r) \/ Becomes(e, CloseWriteIfNeeded(e, s))
        \/ Becomes(e, Answer(s, Ctl("RST")))
    BY <1>1, <1>4, <2>1 DEF ReceiveData
  <2> QED BY <1>1, <2>3, <2>4, KeptStep
<1>5. CASE ProcessReceivedData(e, n)
  <2>1. PICK u : u = [s EXCEPT !.rxChan = @ \ {n}]  OBVIOUS
  <2>2. Same(s, u)  BY <1>3, <2>1 DEF Same, Seen
  <2>3. u \in Endpoint  BY <1>2, <2>1 DEF Endpoint
  <2>4. PICK a : a = Answer(u, DataAck(n))  OBVIOUS
  <2>5. PICK b : b = [a EXCEPT !.rcvBuf = @ \cup {n}, !.flushSignal = TRUE]  OBVIOUS
  <2>6. n \in Nat  BY <1>1, <1>2, <1>5 DEF ProcessReceivedData, Endpoint
  <2>7. ASSUME NEW t, t = a \/ t = b
        PROVE  Receiving(s, t) /\ Sending(s, t)
    <3>1. Acks(u.out \cup {DataAck(n)}) = Acks(u.out) \cup {n}  BY <2>6, AcksOf
    <3>2. Seen \subseteq DOMAIN u  BY <1>3, <2>2 DEF Same
    <3>3. /\ t.written = u.written /\ t.finSent = u.finSent /\ t.out = u.out \cup {DataAck(n)}
          /\ t.rstSent = u.rstSent /\ t.rstReceived = u.rstReceived
          /\ t.read = u.read /\ t.writer = u.writer
      BY <2>4, <2>5, <2>7, <3>2 DEF Answer, Seen
    <3>4. Acks(t.out) = Acks(s.out) \cup {n}  BY <2>2, <3>1, <3>3 DEF Same
    <3> QED BY <2>2, <2>6, <3>3, <3>4 DEF Same, Receiving, Sending
  <2>8. Kept(u, CloseWriteIfNeeded(e, u))  BY <2>3, AnswerSame
  <2>9. Becomes(e, a) \/ Becomes(e, b) \/ Becomes(e, CloseWriteIfNeeded(e, u))
    BY <1>1, <1>5, <2>1, <2>4, <2>5 DEF ProcessReceivedData
  <2>10. CASE Becomes(e, a) \/ Becomes(e, b)
    BY <1>1, <2>7, <2>10 DEF Observed
  <2> QED BY <1>1, <2>2, <2>8, <2>9, <2>10, SameKeptStep
<1>6. CASE RxDrain(e)
  <2>1. Same(s, [s EXCEPT !.rxChan = {}])  BY <1>3 DEF Same, Seen
  <2>2. Becomes(e, [s EXCEPT !.rxChan = {}])  BY <1>1, <1>6 DEF RxDrain
  <2> QED BY <1>1, <2>1, <2>2, KeptStep, SameKept
<1> QED BY <1>4, <1>5, <1>6

\* An acknowledgement may end a drain.
LEMMA AckObserved ==
  ASSUME IInv, NEW e \in Ends, NEW n, ReceiveAck(e, n)
  PROVE  Observed(e)
<1>1. PICK s : s = [ep[e] EXCEPT !.sndBuf = @ \ {n}]  OBVIOUS
<1>2. ep[e] \in Endpoint  BY DEF IInv
<1>3. s \in Endpoint  BY <1>1, <1>2 DEF Endpoint
<1>4. Same(ep[e], s)
  <2>1. Seen \subseteq DOMAIN ep[e]  BY <1>2, EndpointSeen
  <2> QED BY <1>1, <2>1 DEF Same, Seen
<1>5. PICK t : t = IF s.closeReadReceived THEN TryFinalizeRemoteEOF(e, s) ELSE s  OBVIOUS
<1>6. Same(s, t) /\ t \in Endpoint
  <2>1. Seen \subseteq DOMAIN s  BY <1>3, EndpointSeen
  <2> QED BY <1>3, <1>5, <2>1, TrySame, TryType, SameKept
<1>7. Same(ep[e], t)  BY <1>4, <1>6, SameKept
<1>8. Kept(t, SettleTerminalDrain(e, t, FALSE))  BY <1>6, EndpointSeen, SettleKept
<1>9. Becomes(e, SettleTerminalDrain(e, t, FALSE))  BY <1>1, <1>5 DEF ReceiveAck
<1> QED BY <1>7, <1>8, <1>9, SameKeptStep

\* What the handler of a terminal packet makes of an endpoint.
LEMMA TerminalObserved ==
  ASSUME IInv, NEW e \in Ends, NEW p \in Terminal, ReceiveTerminal(e, p)
  PROVE  Observed(e)
<1>1. PICK s : s = Answer(ep[e], AckOf(p))  OBVIOUS
<1>2. ep[e] \in Endpoint  BY DEF IInv
<1>3. Same(ep[e], s)  BY <1>1, <1>2, AnswerSame
<1>4. Seen \subseteq DOMAIN s /\ "deferred" \in DOMAIN s
  <2>1. Seen \subseteq DOMAIN ep[e] /\ "deferred" \in DOMAIN ep[e]  BY <1>2, EndpointSeen
  <2> QED BY <1>3, <2>1 DEF Same
<1>5. Kept(s, s)  BY SameKept
<1>6. Kept(s, MarkCloseReadReceived(e, s))
  <2>1. PICK u : u = [s EXCEPT !.closeReadReceived = TRUE, !.flushSignal = TRUE,
                               !.reset = FALSE]
    OBVIOUS
  <2>2. PICK t : t = TryFinalizeRemoteEOF(e, u)  OBVIOUS
  <2>3. Same(s, u) /\ Seen \subseteq DOMAIN u  BY <1>4, <2>1 DEF Same, Seen
  <2>4. Same(u, t)  BY <2>2, <2>3, TrySame
  <2>5. Kept(s, t)  BY <2>3, <2>4, SameKept
  <2> QED BY <2>1, <2>2, <2>5 DEF MarkCloseReadReceived
<1>7. Kept(s, MarkCloseWriteReceived(e, s))
  <2>1. PICK u : u = [s EXCEPT !.closeWriteReceived = TRUE, !.stopLocalRead = TRUE,
                               !.sndBuf = {}]
    OBVIOUS
  <2>2. PICK v : v = SettleTerminalDrain(e, u, FALSE)  OBVIOUS
  <2>3. PICK t : t = TryFinalizeRemoteEOF(e, v)  OBVIOUS
  <2>4. Same(s, u) /\ Seen \subseteq DOMAIN u /\ u.deferred = s.deferred
    BY <1>4, <2>1 DEF Same, Seen
  <2>5. s.deferred \in {"none", "CLOSE_READ", "RST"}
    <3>1. s.deferred = ep[e].deferred  BY <1>1, <1>2 DEF Answer, Endpoint
    <3> QED BY <1>2, <3>1, EndpointSeen
  <2>6. Kept(u, v)  BY <2>2, <2>4, <2>5, SettleKept
  <2>7. Same(v, t)
    <3>1. Seen \subseteq DOMAIN v  BY <2>4, <2>6 DEF Kept
    <3> QED BY <2>3, <3>1, TrySame
  <2>8. Kept(s, v) /\ Kept(v, t)  BY <2>4, <2>6, <2>7, SameKept
  <2>9. Kept(s, t)  BY <2>8, SameKept
  <2> QED BY <2>1, <2>2, <2>3, <2>9 DEF MarkCloseWriteReceived
<1>8. Kept(s, MarkRstReceived(s))
  <2>1. PICK u : u = [s EXCEPT !.rstReceived = TRUE, !.stopLocalRead = TRUE,
                               !.reset = TRUE, !.sndBuf = {}, !.controlSndBuf = {}]
    OBVIOUS
  <2>2. Kept(s, u) /\ Seen \subseteq DOMAIN u  BY <1>4, <2>1 DEF Kept, Seen
  <2>3. PICK t : t = FinalizeClose(u)  OBVIOUS
  <2>4. Kept(u, t)  BY <2>2, <2>3, FinalizeSame, SameKept
  <2>5. Kept(s, t)  BY <2>2, <2>4, SameKept
  <2> QED BY <2>1, <2>3, <2>5 DEF MarkRstReceived
<1>9. \/ Becomes(e, s) \/ Becomes(e, MarkCloseReadReceived(e, s))
      \/ Becomes(e, MarkCloseWriteReceived(e, s)) \/ Becomes(e, MarkRstReceived(s))
  <2>1. CASE s.closed  BY <1>1, <2>1 DEF ReceiveTerminal
  <2>2. CASE ~s.closed /\ p = "CLOSE_READ"  BY <1>1, <2>2 DEF ReceiveTerminal
  <2>3. CASE ~s.closed /\ p = "CLOSE_WRITE"  BY <1>1, <2>3 DEF ReceiveTerminal
  <2>4. CASE ~s.closed /\ p = "RST"  BY <1>1, <2>4 DEF ReceiveTerminal
  <2> QED BY <2>1, <2>2, <2>3, <2>4 DEF Terminal
<1> QED BY <1>3, <1>5, <1>6, <1>7, <1>8, <1>9, SameKeptStep

\* An acknowledgement of a terminal packet.
LEMMA ControlAckObserved ==
  ASSUME IInv, NEW e \in Ends, NEW p \in Terminal, ReceiveControlAck(e, p)
  PROVE  Observed(e)
<1>1. PICK s : s = [ep[e] EXCEPT !.controlSndBuf = @ \ {p}]  OBVIOUS
<1>2. ep[e] \in Endpoint  BY DEF IInv
<1>3. Seen \subseteq DOMAIN ep[e] /\ "deferred" \in DOMAIN ep[e]  BY <1>2, EndpointSeen
<1>4. Same(ep[e], s)  BY <1>1, <1>3 DEF Same, Seen
<1>5. Seen \subseteq DOMAIN s /\ "deferred" \in DOMAIN s  BY <1>3, <1>4 DEF Same
<1>6. CASE p = "CLOSE_READ"
  <2>1. PICK u : u = MarkCloseReadAcked(s)  OBVIOUS
  <2>2. PICK v : v = ClearWaitingAck(u, p)  OBVIOUS
  <2>3. PICK t : t = TryFinalizeRemoteEOF(e, v)  OBVIOUS
  <2>4. Same(s, u) /\ Seen \subseteq DOMAIN u  BY <1>5, <2>1 DEF MarkCloseReadAcked, Same, Seen
  <2>5. Same(u, v) /\ Seen \subseteq DOMAIN v  BY <2>2, <2>4 DEF ClearWaitingAck, Same, Seen
  <2>6. Same(v, t)  BY <2>3, <2>5, TrySame
  <2>7. Same(s, v)  BY <2>4, <2>5, SameKept
  <2>8. Kept(s, t)  BY <2>6, <2>7, SameKept
  <2>9. Becomes(e, t)  BY <1>1, <1>6, <2>1, <2>2, <2>3 DEF ReceiveControlAck
  <2> QED BY <1>4, <2>8, <2>9, SameKeptStep
<1>7. CASE p = "CLOSE_WRITE"
  <2>1. PICK u : u = MarkCloseWriteAcked(s)  OBVIOUS
  <2>2. PICK v : v = ClearWaitingAck(u, p)  OBVIOUS
  <2>3. PICK w : w = MaybeInitiateClientCloseReadAfterWriterBreak(e, v)  OBVIOUS
  <2>4. PICK t : t = TryFinalizeRemoteEOF(e, w)  OBVIOUS
  <2>5. Same(s, u) /\ Seen \subseteq DOMAIN u /\ "deferred" \in DOMAIN u
    BY <1>5, <2>1 DEF MarkCloseWriteAcked, Same, Seen
  <2>6. Same(u, v) /\ Seen \subseteq DOMAIN v /\ "deferred" \in DOMAIN v
    BY <2>2, <2>5 DEF ClearWaitingAck, Same, Seen
  <2>7. Kept(v, w)
    <3>1. "CLOSE_READ" \in Terminal  BY DEF Terminal
    <3>2. /\ Kept(v, v) /\ Kept(v, DeferTerminalPacket(e, v, "CLOSE_READ"))
          /\ Kept(v, EmitTerminalPacket(e, v, "CLOSE_READ"))
      BY <2>6, <3>1, DeferKept, EmitKept, SameKept
    <3> QED BY <2>3, <3>2 DEF MaybeInitiateClientCloseReadAfterWriterBreak
  <2>8. Same(w, t)
    <3>1. Seen \subseteq DOMAIN w  BY <2>6, <2>7 DEF Kept
    <3> QED BY <2>4, <3>1, TrySame
  <2>9. Kept(v, t)  BY <2>7, <2>8, SameKept
  <2>10. Kept(s, v)  BY <2>5, <2>6, SameKept
  <2>11. Kept(s, t)  BY <2>9, <2>10, SameKept
  <2>12. Becomes(e, t)  BY <1>1, <1>7, <2>1, <2>2, <2>3, <2>4 DEF ReceiveControlAck
  <2> QED BY <1>4, <2>11, <2>12, SameKeptStep
<1>8. CASE p = "RST"
  <2>1. PICK u : u = [s EXCEPT !.reset = TRUE]  OBVIOUS
  <2>2. PICK t : t = FinalizeClose(u)  OBVIOUS
  <2>3. Same(s, u) /\ Seen \subseteq DOMAIN u  BY <1>5, <2>1 DEF Same, Seen
  <2>4. Same(u, t)  BY <2>2, <2>3, FinalizeSame
  <2>5. Kept(s, t)  BY <2>3, <2>4, SameKept
  <2>6. Becomes(e, t)  BY <1>1, <1>8, <2>1, <2>2 DEF ReceiveControlAck
  <2> QED BY <1>4, <2>5, <2>6, SameKeptStep
<1> QED BY <1>6, <1>7, <1>8 DEF Terminal

\* The timers of retransmitLoop.
LEMMA TimerObserved ==
  ASSUME IInv, NEW e \in Ends, Timer(e)
  PROVE  Observed(e)
<1>1. PICK s : s = ep[e]  OBVIOUS
<1>2. s \in Endpoint  BY <1>1 DEF IInv
<1>3. /\ Seen \subseteq DOMAIN s /\ "deferred" \in DOMAIN s
      /\ s.deferred \in {"none", "CLOSE_READ", "RST"}
  BY <1>2, EndpointSeen
<1>4. "CLOSE_WRITE" \in Terminal  BY DEF Terminal
<1>5. /\ Kept(s, SettleTerminalDrain(e, s, TRUE))
      /\ Kept(s, FinalizeClose(s)) /\ Kept(s, CloseRST(e, s))
      /\ Kept(s, EmitTerminalPacket(e, s, "CLOSE_WRITE"))
  <2>1. Kept(s, SettleTerminalDrain(e, s, TRUE))  BY <1>3, SettleKept
  <2>2. Kept(s, FinalizeClose(s))  BY <1>3, FinalizeSame, SameKept
  <2>3. Kept(s, CloseRST(e, s))  BY <1>3, CloseRSTKept
  <2>4. Kept(s, EmitTerminalPacket(e, s, "CLOSE_WRITE"))  BY <1>3, <1>4, EmitKept
  <2> QED BY <2>1, <2>2, <2>3, <2>4
<1>6. ASSUME NEW p \in Terminal, ControlExpires(e, p) PROVE Observed(e)
  <2>1. PICK u : u = [s EXCEPT !.controlSndBuf = @ \ {p}]  OBVIOUS
  <2>2. Same(s, u) /\ Seen \subseteq DOMAIN u  BY <1>3, <2>1 DEF Same, Seen
  <2>3. Kept(u, FinalizeClose(u)) /\ Kept(u, CloseRST(e, u))
    BY <2>2, FinalizeSame, CloseRSTKept, SameKept
  <2>4. Becomes(e, FinalizeClose(u)) \/ Becomes(e, CloseRST(e, u))
    BY <1>1, <1>6, <2>1 DEF ControlExpires
  <2> QED BY <1>1, <2>2, <2>3, <2>4, SameKeptStep
<1>7. ASSUME ~(\E p \in Terminal : ControlExpires(e, p))
      PROVE  \/ Becomes(e, SettleTerminalDrain(e, s, TRUE))
             \/ Becomes(e, FinalizeClose(s)) \/ Becomes(e, CloseRST(e, s))
             \/ Becomes(e, EmitTerminalPacket(e, s, "CLOSE_WRITE"))
  BY <1>1, <1>7 DEF Timer, DrainTimeout, AckWaitTimeout, CloseWriteAfterGrace,
     InactivityTimeout, DataExpires
<1> QED BY <1>1, <1>5, <1>6, <1>7, KeptStep

\* writeLoop: the only steps that write, or end, the local connection.
LEMMA WriterObserved ==
  ASSUME IInv, NEW e \in Ends, WriteLoop(e)
  PROVE  Observed(e)
<1>1. PICK s : s = ep[e]  OBVIOUS
<1>2. s \in Endpoint /\ Half(e, s, ep[Peer(e)])  BY <1>1 DEF IInv
<1>3. Seen \subseteq DOMAIN s  BY <1>2, EndpointSeen
<1>4. s.written \in Nat /\ s.rcvNxt \in Nat \ {0} /\ s.finSent \in BOOLEAN
  BY <1>2 DEF Endpoint
<1>5. CASE WriteWake(e) \/ WriteTake(e) \/ WriteIdle(e)
  <2>1. PICK t : /\ Becomes(e, t) /\ t.writer # "failed" /\ s.writer # "failed"
                 /\ t.read = s.read /\ t.written = s.written /\ t.finSent = s.finSent
                 /\ t.out = s.out /\ t.rstSent = s.rstSent /\ t.rstReceived = s.rstReceived
    <3>1. CASE WriteWake(e)
      <4>1. PICK f : Becomes(e, [s EXCEPT !.writer = "run", !.flushSignal = f])
        BY <1>1, <3>1 DEF WriteWake
      <4>2. PICK t : t = [s EXCEPT !.writer = "run", !.flushSignal = f]  OBVIOUS
      <4>3. s.writer # "failed"  BY <1>1, <3>1 DEF WriteWake
      <4>4. /\ t.writer # "failed" /\ t.read = s.read /\ t.written = s.written /\ t.out = s.out
            /\ t.finSent = s.finSent /\ t.rstSent = s.rstSent /\ t.rstReceived = s.rstReceived
        BY <1>3, <4>2 DEF Seen
      <4>5. Becomes(e, t)  BY <4>1, <4>2
      <4> QED BY <4>3, <4>4, <4>5
    <3>2. CASE WriteTake(e)
      <4>1. PICK b, end : Becomes(e, [s EXCEPT !.writer = "writing", !.localWritePending = TRUE,
                                               !.rcvBuf = b, !.rcvNxt = end])
        BY <1>1, <3>2 DEF WriteTake
      <4>2. PICK t : t = [s EXCEPT !.writer = "writing", !.localWritePending = TRUE,
                                   !.rcvBuf = b, !.rcvNxt = end]
        OBVIOUS
      <4>3. s.writer # "failed"  BY <1>1, <3>2 DEF WriteTake
      <4>4. /\ t.writer # "failed" /\ t.read = s.read /\ t.written = s.written /\ t.out = s.out
            /\ t.finSent = s.finSent /\ t.rstSent = s.rstSent /\ t.rstReceived = s.rstReceived
        BY <1>3, <4>2 DEF Seen
      <4>5. Becomes(e, t)  BY <4>1, <4>2
      <4> QED BY <4>3, <4>4, <4>5
    <3>3. CASE WriteIdle(e)
      <4>1. PICK t : t = [s EXCEPT !.writer = "empty", !.localWritePending = FALSE]  OBVIOUS
      <4>2. Becomes(e, t) /\ s.writer # "failed"  BY <1>1, <3>3, <4>1 DEF WriteIdle
      <4>3. /\ t.writer # "failed" /\ t.read = s.read /\ t.written = s.written /\ t.out = s.out
            /\ t.finSent = s.finSent /\ t.rstSent = s.rstSent /\ t.rstReceived = s.rstReceived
        BY <1>3, <4>1 DEF Seen
      <4> QED BY <4>2, <4>3
    <3> QED BY <1>5, <3>1, <3>2, <3>3
  <2>2. Receiving(s, t) /\ Sending(s, t)  BY <2>1 DEF Receiving, Sending
  <2> QED BY <1>1, <2>1, <2>2 DEF Observed
<1>6. CASE WriteLook(e) \/ WriteEOF(e)
  <2>1. PICK u : u = [s EXCEPT !.writer = "wait"]  OBVIOUS
  <2>2. PICK h : h = [s EXCEPT !.writer = "halfclose"]  OBVIOUS
  <2>3. PICK v : v = HalfCloseLocalWriter(u)  OBVIOUS
  <2>4. /\ s.writer # "failed"
        /\ \/ Becomes(e, h) \/ Becomes(e, TryFinalizeRemoteEOF(e, u))
           \/ Becomes(e, TryFinalizeRemoteEOF(e, v))
    BY <1>1, <1>6, <2>1, <2>2, <2>3 DEF WriteLook, WriteEOF
  <2>5. Same(s, u) /\ Same(s, h) /\ DOMAIN u = DOMAIN s /\ u.writer = "wait"
    BY <1>3, <2>1, <2>2, <2>4 DEF Same, Seen
  <2>6. /\ DOMAIN v = DOMAIN s /\ v.writer = "wait" /\ v.out = s.out
        /\ v.read = s.read /\ v.written = s.written
        /\ v.rstSent = s.rstSent /\ v.rstReceived = s.rstReceived
        /\ v.finSent = s.finSent \/ v.finSent = TRUE
    BY <1>3, <2>1, <2>3 DEF HalfCloseLocalWriter, Seen
  <2>7. Same(u, TryFinalizeRemoteEOF(e, u)) /\ Same(v, TryFinalizeRemoteEOF(e, v))
    BY <1>3, <2>5, <2>6, TrySame
  <2>8. CASE Becomes(e, h)  BY <1>1, <2>5, <2>8, KeptStep, SameKept
  <2>9. CASE Becomes(e, TryFinalizeRemoteEOF(e, u))
    BY <1>1, <2>5, <2>7, <2>9, SameKeptStep, SameKept
  <2>10. CASE Becomes(e, TryFinalizeRemoteEOF(e, v))
    <3>1. PICK t : t = TryFinalizeRemoteEOF(e, v)  OBVIOUS
    <3>2. Receiving(s, t) /\ Sending(s, t)
      BY <1>4, <2>4, <2>6, <2>7, <3>1 DEF Same, Receiving, Sending
    <3> QED BY <1>1, <2>10, <3>1, <3>2 DEF Observed
  <2> QED BY <2>4, <2>8, <2>9, <2>10
<1>7. CASE WriteDone(e)
  <2>1. PICK u : u = [s EXCEPT !.writer = "run", !.written = s.rcvNxt - 1,
                               !.localWritePending = FALSE]
    OBVIOUS
  <2>2. PICK t : t = TryFinalizeRemoteEOF(e, u)  OBVIOUS
  <2>3. Becomes(e, t) /\ s.writer = "writing" /\ ~s.finSent
    BY <1>1, <1>7, <2>1, <2>2 DEF WriteDone
  <2>4. /\ DOMAIN u = DOMAIN s /\ u.writer = "run"
        /\ u.read = s.read /\ u.written = s.rcvNxt - 1 /\ u.finSent = s.finSent /\ u.out = s.out
        /\ u.rstSent = s.rstSent /\ u.rstReceived = s.rstReceived
    BY <1>3, <2>1 DEF Seen
  <2>5. Same(u, t)  BY <1>3, <2>2, <2>4, TrySame
  <2>6. s.written <= s.rcvNxt - 1  BY <1>2 DEF Half, Chunking
  <2>7. Receiving(s, t) /\ Sending(s, t)
    BY <1>4, <2>3, <2>4, <2>5, <2>6 DEF Same, Receiving, Sending
  <2> QED BY <1>1, <2>3, <2>7 DEF Observed
<1>8. CASE WriteFail(e)
  <2>1. PICK k \in s.written .. s.rcvNxt - 1 :
          /\ s.finSent => k = s.written
          /\ Becomes(e, EmitTerminalPacket(e,
               [[s EXCEPT !.writer = "failed", !.localWritePending = FALSE,
                          !.localWriterBroken = TRUE, !.rcvBuf = {}] EXCEPT !.written = k],
               "CLOSE_WRITE"))
    BY <1>1, <1>8 DEF WriteFail
  <2>2. PICK u : u = [[s EXCEPT !.writer = "failed", !.localWritePending = FALSE,
                          !.localWriterBroken = TRUE, !.rcvBuf = {}] EXCEPT !.written = k]
    OBVIOUS
  <2>3. PICK t : t = EmitTerminalPacket(e, u, "CLOSE_WRITE")  OBVIOUS
  <2>4. Becomes(e, t)  BY <2>1, <2>2, <2>3
  <2>5. /\ DOMAIN u = DOMAIN s /\ u.writer = "failed"
        /\ u.read = s.read /\ u.written = k /\ u.finSent = s.finSent /\ u.out = s.out
        /\ u.rstSent = s.rstSent /\ u.rstReceived = s.rstReceived
    BY <1>3, <2>2 DEF Seen
  <2>6. Same(u, t)
    <3>1. "CLOSE_WRITE" \in Terminal /\ "CLOSE_WRITE" # "RST"  BY DEF Terminal
    <3> QED BY <1>3, <2>3, <2>5, <3>1, EmitKept
  <2>7. Receiving(s, t) /\ Sending(s, t)
    BY <1>4, <2>1, <2>5, <2>6 DEF Same, Receiving, Sending
  <2> QED BY <1>1, <2>4, <2>7 DEF Observed
<1> QED BY <1>5, <1>6, <1>7, <1>8 DEF WriteLoop

\* Every step is one of an endpoint, seen that way.
LEMMA NextObserved ==
  ASSUME IInv, Next
  PROVE  \E e \in Ends : Observed(e)
<1>1. PICK e \in Ends : IoLoop(e) \/ WriteLoop(e) \/ Network(e) \/ Timer(e)  BY DEF Next
<1>2. CASE IoLoop(e) \/ WriteLoop(e)  BY <1>2, IoObserved, WriterObserved DEF IoLoop
<1>3. CASE Network(e)
  BY <1>3, DataObserved, AckObserved, TerminalObserved, ControlAckObserved DEF Network
<1>4. CASE Timer(e)  BY <1>4, TimerObserved
<1> QED BY <1>1, <1>2, <1>3, <1>4

\* The first m chunks, and the next k of them.
LEMMA Appended ==
  ASSUME NEW m \in Nat, NEW k \in Nat
  PROVE  /\ Len([i \in 1 .. m |-> i - 1]) = m
         /\ [i \in 1 .. m + k |-> i - 1]
              = [i \in 1 .. m |-> i - 1] \o [i \in 1 .. k |-> m + i - 1]
<1>1. PICK a : a = [i \in 1 .. m |-> i - 1]  OBVIOUS
<1>2. PICK b : b = [i \in 1 .. k |-> m + i - 1]  OBVIOUS
<1>3. PICK c : c = [i \in 1 .. m + k |-> i - 1]  OBVIOUS
<1>4. a \in Seq(Int) /\ b \in Seq(Int) /\ c \in Seq(Int)  BY <1>1, <1>2, <1>3
<1>5. Len(a) = m /\ Len(b) = k /\ Len(c) = m + k  BY <1>1, <1>2, <1>3, <1>4
<1>6. /\ a \o b \in Seq(Int) /\ Len(a \o b) = m + k
      /\ \A i \in 1 .. m + k : (a \o b)[i] = IF i <= m THEN a[i] ELSE b[i - m]
  BY <1>4, <1>5, ConcatProperties
<1>7. ASSUME NEW i \in 1 .. m + k PROVE c[i] = (a \o b)[i]
  <2>1. c[i] = i - 1  BY <1>3
  <2>2. CASE i <= m  BY <1>1, <1>6, <2>1, <2>2
  <2>3. CASE i > m
    <3>1. i - m \in 1 .. k  BY <2>3
    <3>2. b[i - m] = m + (i - m) - 1  BY <1>2, <3>1
    <3> QED BY <1>6, <2>1, <2>3, <3>2
  <2>4. i <= m \/ i > m  OBVIOUS
  <2> QED BY <2>2, <2>3, <2>4
<1>8. c = a \o b  BY <1>4, <1>5, <1>6, <1>7, SeqEqual
<1> QED BY <1>1, <1>2, <1>3, <1>5, <1>8

\* A direction is aborted at its receiver or at a client that sends it.
LEMMA AbortedIs ==
  ASSUME NEW x \in Ends
  PROVE  /\ Aborted(x) <=> \/ ep[x].rstSent \/ ep[x].rstReceived
                           \/ GaveUp(Peer(x), ep[Peer(x)])
         /\ Aborted(x)' <=> \/ ep'[x].rstSent \/ ep'[x].rstReceived
                            \/ GaveUp(Peer(x), ep'[Peer(x)])
         /\ Aborted(x) \in BOOLEAN /\ Aborted(x)' \in BOOLEAN
BY DEF Aborted, Resetting, ClientGaveUp, GaveUp, Peer, Ends

\* What is acknowledged has been read.
LEMMA AckedIs ==
  ASSUME IInv, NEW x \in Ends
  PROVE  Acked(x) = Acks(ep[x].out)
BY DEF IInv, Half, Heard, Acked, Acks

\* The same of the state after a step.
LEMMA AckedIsNext ==
  ASSUME IInv', NEW x \in Ends
  PROVE  Acked(x)' = Acks(ep'[x].out)
BY DEF IInv, Half, Heard, Acked, Acks

\* The direction to x, as ClosingStream sees it.
StreamReads(x) ==
  /\ ep[x].finSent => Aborted(x)
  /\ Acked(x)' = Acked(x)
  /\ ep'[Peer(x)].read = ep[Peer(x)].read + 1
  /\ Received(x)' = Received(x) /\ ep'[x].finSent = ep[x].finSent /\ Aborted(x)' = Aborted(x)

StreamAcknowledges(x) ==
  /\ \E n \in 1 .. ep[Peer(x)].read : Acked(x)' = Acked(x) \cup {n}
  /\ ep'[Peer(x)].read = ep[Peer(x)].read
  /\ Received(x)' = Received(x) /\ ep'[x].finSent = ep[x].finSent /\ Aborted(x)' = Aborted(x)

StreamWrites(x) ==
  /\ ~ep[x].finSent
  /\ Acked(x)' = Acked(x)
  /\ \E k \in 1 .. (ep[Peer(x)].read - Len(Received(x))) :
       Received(x)' = Received(x) \o [i \in 1 .. k |-> Len(Received(x)) + i - 1]
  /\ ep'[Peer(x)].read = ep[Peer(x)].read
  /\ ep'[x].finSent = ep[x].finSent /\ Aborted(x)' = Aborted(x)

StreamEnds(x) ==
  /\ ~ep[x].finSent
  /\ Acked(x) = 1 .. ep[Peer(x)].read \/ Aborted(x)
  /\ Acked(x)' = Acked(x)
  /\ ep'[x].finSent = TRUE
  /\ ep'[Peer(x)].read = ep[Peer(x)].read
  /\ Received(x)' = Received(x) /\ Aborted(x)' = Aborted(x)

StreamAborts(x) ==
  /\ Aborted(x)' = TRUE
  /\ Acked(x)' = Acked(x)
  /\ ep'[Peer(x)].read = ep[Peer(x)].read
  /\ Received(x)' = Received(x) /\ ep'[x].finSent = ep[x].finSent

StreamRests(x) ==
  /\ Acked(x)' = Acked(x)
  /\ ep'[Peer(x)].read = ep[Peer(x)].read
  /\ Received(x)' = Received(x) /\ ep'[x].finSent = ep[x].finSent /\ Aborted(x)' = Aborted(x)

StreamMoves(x) ==
  \/ StreamReads(x) \/ StreamAcknowledges(x) \/ StreamWrites(x)
  \/ StreamEnds(x) \/ StreamAborts(x) \/ StreamRests(x)

\* A step of the receiver: a write goes no further than what the peer read, and the end comes
\* where the invariant says so of the state after the step.
LEMMA ReceiverMoves ==
  ASSUME IInv, IInv', NEW x \in Ends, Observed(x)
  PROVE  StreamMoves(x)
<1>1. PICK t : Becomes(x, t) /\ Receiving(ep[x], t)  BY DEF Observed
<1>2. PICK s, q : s = ep[x] /\ q = ep[Peer(x)]  OBVIOUS
<1>3. Peer(x) \in Ends /\ Peer(x) # x  BY Peers
<1>4. ep'[x] = t /\ ep'[Peer(x)] = q  BY <1>1, <1>2, <1>3 DEF Becomes, IInv
<1>5. /\ s.written \in Nat /\ t.written \in Nat /\ s.rcvNxt \in Nat \ {0} /\ q.read \in Nat
      /\ t.finSent \in BOOLEAN /\ s.finSent \in BOOLEAN
      /\ t.rstSent \in BOOLEAN /\ s.rstSent \in BOOLEAN
      /\ t.rstReceived \in BOOLEAN /\ s.rstReceived \in BOOLEAN
  BY <1>2, <1>3, <1>4 DEF IInv, Endpoint
<1>6. s.rcvNxt - 1 <= q.read  BY <1>2 DEF IInv, Half, Heard
<1>7. t.finSent /\ ~GaveUp(Peer(x), q) => 1 .. q.read \subseteq Acks(t.out)
  <2>1. Half(x, t, q) /\ Half(Peer(x), q, t)  BY <1>3, <1>4, Peers DEF IInv
  <2>2. t.finSent /\ ~GaveUp(Peer(x), q) => AllAcked(q, t)  BY <2>1, AfterEnd
  <2> QED BY <1>5, <2>2 DEF AllAcked, Acks
<1>8. /\ Aborted(x) <=> s.rstSent \/ s.rstReceived \/ GaveUp(Peer(x), q)
      /\ Aborted(x)' <=> t.rstSent \/ t.rstReceived \/ GaveUp(Peer(x), q)
      /\ Aborted(x) \in BOOLEAN /\ Aborted(x)' \in BOOLEAN
  BY <1>2, <1>4, AbortedIs
<1>9. /\ Received(x) = [i \in 1 .. s.written |-> i - 1]
      /\ Received(x)' = [i \in 1 .. t.written |-> i - 1]
      /\ Len(Received(x)) = s.written
  <2>1. /\ Received(x) = [i \in 1 .. s.written |-> i - 1]
        /\ Received(x)' = [i \in 1 .. t.written |-> i - 1]
    BY <1>2, <1>4 DEF Received
  <2>2. s.written \in Nat /\ 0 \in Nat  BY <1>5
  <2>3. Len([i \in 1 .. s.written |-> i - 1]) = s.written  BY <2>2, Appended
  <2> QED BY <2>1, <2>3
<1>a. Acked(x) = Acks(s.out) /\ Acked(x)' = Acks(t.out)
  BY <1>2, <1>4, AckedIs, AckedIsNext
<1>b. CASE /\ t.written = s.written /\ t.finSent = s.finSent
           /\ \E n \in Nat : Acks(t.out) = Acks(s.out) \cup {n}
           /\ t.rstSent = s.rstSent /\ t.rstReceived = s.rstReceived
  <2>1. PICK n \in Nat : Acks(t.out) = Acks(s.out) \cup {n}  BY <1>b
  <2>2. n \in 1 .. q.read
    <3>1. Acked(x)' \subseteq 1 .. q.read  BY <1>4 DEF Acked
    <3> QED BY <1>a, <2>1, <3>1
  <2>3. Received(x)' = Received(x)  BY <1>9, <1>b
  <2>4. Aborted(x)' = Aborted(x)  BY <1>8, <1>b
  <2>5. StreamAcknowledges(x)
    BY <1>2, <1>4, <1>a, <1>b, <2>1, <2>2, <2>3, <2>4 DEF StreamAcknowledges
  <2> QED BY <2>5 DEF StreamMoves
<1>10. CASE /\ t.written = s.written /\ t.finSent = s.finSent /\ Acks(t.out) = Acks(s.out)
            /\ s.rstSent => t.rstSent
            /\ s.rstReceived => t.rstReceived
  <2>1. Received(x)' = Received(x)  BY <1>9, <1>10
  <2>2. Aborted(x)' = Aborted(x) \/ Aborted(x)' = TRUE  BY <1>8, <1>10
  <2> QED BY <1>2, <1>4, <1>a, <1>10, <2>1, <2>2 DEF StreamMoves, StreamAborts, StreamRests
<1>11. CASE /\ ~s.finSent /\ ~t.finSent /\ t.written \in s.written .. s.rcvNxt - 1
            /\ Acks(t.out) = Acks(s.out)
            /\ t.rstSent = s.rstSent /\ t.rstReceived = s.rstReceived
  <2>1. Aborted(x)' = Aborted(x)  BY <1>8, <1>11
  <2>2. t.finSent = s.finSent  BY <1>5, <1>11
  <2>3. CASE t.written = s.written
    <3>1. Received(x)' = Received(x)  BY <1>9, <2>3
    <3> QED BY <1>2, <1>4, <1>a, <1>11, <2>1, <2>2, <3>1 DEF StreamMoves, StreamRests
  <2>4. CASE t.written # s.written
    <3>1. PICK k : k = t.written - s.written  OBVIOUS
    <3>2. k \in Nat /\ k \in 1 .. (q.read - s.written) /\ t.written = s.written + k
      BY <1>5, <1>6, <1>11, <2>4, <3>1
    <3>3. [i \in 1 .. s.written + k |-> i - 1]
            = [i \in 1 .. s.written |-> i - 1] \o [i \in 1 .. k |-> s.written + i - 1]
      BY <1>5, <3>2, Appended
    <3>4. Received(x)' = Received(x) \o [i \in 1 .. k |-> Len(Received(x)) + i - 1]
      BY <1>9, <3>2, <3>3
    <3>5. k \in 1 .. (ep[Peer(x)].read - Len(Received(x)))  BY <1>2, <1>9, <3>2
    <3>6. StreamWrites(x)  BY <1>2, <1>4, <1>a, <1>11, <2>1, <2>2, <3>4, <3>5 DEF StreamWrites
    <3> QED BY <3>6 DEF StreamMoves
  <2> QED BY <2>3, <2>4
<1>12. CASE /\ ~s.finSent /\ t.finSent /\ t.written = s.written /\ Acks(t.out) = Acks(s.out)
            /\ t.rstSent = s.rstSent /\ t.rstReceived = s.rstReceived
  <2>1. Aborted(x)' = Aborted(x)  BY <1>8, <1>12
  <2>2. Acked(x) = 1 .. q.read \/ Aborted(x)
    <3>1. Acked(x) \subseteq 1 .. q.read  BY <1>2 DEF Acked
    <3>2. 1 .. q.read \subseteq Acks(t.out) \/ Aborted(x)  BY <1>7, <1>8, <1>12
    <3> QED BY <1>a, <1>12, <3>1, <3>2
  <2>3. Received(x)' = Received(x)  BY <1>9, <1>12
  <2>4. t.finSent = TRUE  BY <1>5, <1>12
  <2>5. StreamEnds(x)  BY <1>2, <1>4, <1>a, <1>12, <2>1, <2>2, <2>3, <2>4 DEF StreamEnds
  <2> QED BY <2>5 DEF StreamMoves
<1> QED BY <1>1, <1>2, <1>b, <1>10, <1>11, <1>12 DEF Receiving

\* A step of the sender: nothing is read after the end, because the invariant would then say of
\* a chunk that was not read before that it was acknowledged.
LEMMA SenderMoves ==
  ASSUME IInv, IInv', NEW x \in Ends, Observed(Peer(x))
  PROVE  StreamMoves(x)
<1>1. PICK t : Becomes(Peer(x), t) /\ Sending(ep[Peer(x)], t)  BY DEF Observed
<1>2. PICK s, q : s = ep[x] /\ q = ep[Peer(x)]  OBVIOUS
<1>3. Peer(x) \in Ends /\ Peer(x) # x  BY Peers
<1>4. ep'[x] = s /\ ep'[Peer(x)] = t  BY <1>1, <1>2, <1>3 DEF Becomes, IInv
<1>5. q.read \in Nat /\ s.written \in Nat  BY <1>2, <1>3 DEF IInv, Endpoint
<1>6. s.finSent /\ ~GaveUp(Peer(x), t) => \A n \in 1 .. t.read : DataAck(n) \in s.out
  <2>1. Half(x, s, t) /\ Half(Peer(x), t, s)  BY <1>3, <1>4, Peers DEF IInv
  <2>2. s.finSent /\ ~GaveUp(Peer(x), t) => AllAcked(t, s)  BY <2>1, AfterEnd
  <2> QED BY <2>2 DEF AllAcked
<1>a. Acked(x)' = Acked(x)  BY <1>2, <1>4, AckedIs, AckedIsNext
<1>7. /\ Aborted(x) <=> s.rstSent \/ s.rstReceived \/ GaveUp(Peer(x), q)
      /\ Aborted(x)' <=> s.rstSent \/ s.rstReceived \/ GaveUp(Peer(x), t)
      /\ Aborted(x) \in BOOLEAN /\ Aborted(x)' \in BOOLEAN
  BY <1>2, <1>4, AbortedIs
<1>8. Received(x)' = Received(x) /\ ep'[x].finSent = ep[x].finSent
  BY <1>2, <1>4 DEF Received
<1>9. CASE t.read = q.read /\ (q.writer = "failed" => t.writer = "failed")
  <2>1. GaveUp(Peer(x), q) => GaveUp(Peer(x), t)  BY <1>9 DEF GaveUp
  <2>2. Aborted(x)' = Aborted(x) \/ Aborted(x)' = TRUE  BY <1>7, <2>1
  <2> QED BY <1>2, <1>4, <1>a, <1>8, <1>9, <2>2 DEF StreamMoves, StreamAborts, StreamRests
<1>10. CASE t.read = q.read + 1 /\ (q.writer = "failed" <=> t.writer = "failed")
  <2>1. GaveUp(Peer(x), q) <=> GaveUp(Peer(x), t)  BY <1>10 DEF GaveUp
  <2>2. Aborted(x)' = Aborted(x)  BY <1>7, <2>1
  <2>3. DataAck(t.read) \notin s.out  BY <1>2, <1>5, <1>10 DEF IInv, Half, Heard
  <2>4. s.finSent => Aborted(x)  BY <1>5, <1>6, <1>7, <1>10, <2>1, <2>3
  <2>5. StreamReads(x)  BY <1>2, <1>4, <1>a, <1>8, <1>10, <2>2, <2>4 DEF StreamReads
  <2> QED BY <2>5 DEF StreamMoves
<1> QED BY <1>1, <1>2, <1>9, <1>10 DEF Sending

\* Every step is one of each direction.
LEMMA StreamStep ==
  ASSUME IInv, IInv', [Next]_ep, NEW x \in Ends
  PROVE  StreamMoves(x)
<1>1. CASE UNCHANGED ep
  <2>1. StreamRests(x)
    BY <1>1 DEF StreamRests, Acked, Received, Aborted, Resetting, ClientGaveUp
  <2> QED BY <2>1 DEF StreamMoves
<1>2. CASE Next
  <2>1. PICK e \in Ends : Observed(e)  BY <1>2, NextObserved
  <2>2. e = x \/ e = Peer(x)  BY DEF Ends, Peer
  <2> QED BY <2>1, <2>2, ReceiverMoves, SenderMoves
<1> QED BY <1>1, <1>2

\* Through every way to close, each direction of a stream is a reliable stream with an end: a
\* read of ioLoop is ReadOn, an acknowledgement of processReceivedData is Acknowledge, a write
\* of writeLoop is WriteOn, its half-close is End, a reset or a client that gives up is Abort,
\* and every other step of the endpoints stutters.
THEOREM ClosesLikeAStream == Spec => ClosesReliably
<1>1. Init => ToServer!ClosingInit /\ ToClient!ClosingInit
  <2> SUFFICES ASSUME Init PROVE ToServer!ClosingInit /\ ToClient!ClosingInit  OBVIOUS
  <2>1. \A x \in Ends : ep[x] = NewARQ  BY DEF Init
  <2>2. "client" \in Ends /\ "server" \in Ends  BY DEF Ends
  <2>3. \A x \in Ends : /\ ep[x].read = 0 /\ ep[x].written = 0 /\ ep[x].finSent = FALSE
                        /\ ep[x].rstSent = FALSE /\ ep[x].rstReceived = FALSE
                        /\ ep[x].writer = "wait" /\ ep[x].out = {}
    BY <2>1 DEF NewARQ
  <2>4. /\ Received("server") = [i \in 1 .. 0 |-> i - 1]
        /\ Received("client") = [i \in 1 .. 0 |-> i - 1]
    BY <2>2, <2>3 DEF Received
  <2>5. Aborted("server") = FALSE /\ Aborted("client") = FALSE
    BY <2>2, <2>3 DEF Aborted, Resetting, ClientGaveUp
  <2>6. /\ ep["client"].read = 0 /\ ep["server"].finSent = FALSE
        /\ ep["server"].read = 0 /\ ep["client"].finSent = FALSE
    BY <2>2, <2>3
  <2>a. Acked("server") = {} /\ Acked("client") = {}
    BY <2>2, <2>3 DEF Acked
  <2>7. ToServer!Init  BY <2>4, <2>6 DEF ToServer!Init
  <2>8. ToClient!Init  BY <2>4, <2>6 DEF ToClient!Init
  <2> QED BY <2>5, <2>6, <2>a, <2>7, <2>8 DEF ToServer!ClosingInit, ToClient!ClosingInit
<1>2. IInv /\ IInv' /\ [Next]_ep =>
        [\/ ToServer!ReadOn \/ ToServer!Acknowledge \/ ToServer!WriteOn \/ ToServer!End
         \/ ToServer!Abort]_<<ep["client"].read, Acked("server"), Received("server"),
                          ep["server"].finSent, Aborted("server")>>
  <2> SUFFICES ASSUME IInv, IInv', [Next]_ep
               PROVE
        [\/ ToServer!ReadOn \/ ToServer!Acknowledge \/ ToServer!WriteOn \/ ToServer!End
         \/ ToServer!Abort]_<<ep["client"].read, Acked("server"), Received("server"),
                          ep["server"].finSent, Aborted("server")>>
    OBVIOUS
  <2>1. "server" \in Ends /\ Peer("server") = "client"  BY DEF Ends, Peer
  <2>2. StreamMoves("server")  BY <2>1, StreamStep
  <2> QED BY <2>1, <2>2 DEF StreamMoves, StreamReads, StreamAcknowledges, StreamWrites,
        StreamEnds, StreamAborts, StreamRests, ToServer!ReadOn, ToServer!Acknowledge,
        ToServer!WriteOn, ToServer!End, ToServer!Abort,
        ToServer!Read, ToServer!Write
<1>3. IInv /\ IInv' /\ [Next]_ep =>
        [\/ ToClient!ReadOn \/ ToClient!Acknowledge \/ ToClient!WriteOn \/ ToClient!End
         \/ ToClient!Abort]_<<ep["server"].read, Acked("client"), Received("client"),
                          ep["client"].finSent, Aborted("client")>>
  <2> SUFFICES ASSUME IInv, IInv', [Next]_ep
               PROVE
        [\/ ToClient!ReadOn \/ ToClient!Acknowledge \/ ToClient!WriteOn \/ ToClient!End
         \/ ToClient!Abort]_<<ep["server"].read, Acked("client"), Received("client"),
                          ep["client"].finSent, Aborted("client")>>
    OBVIOUS
  <2>1. "client" \in Ends /\ Peer("client") = "server"  BY DEF Ends, Peer
  <2>2. StreamMoves("client")  BY <2>1, StreamStep
  <2> QED BY <2>1, <2>2 DEF StreamMoves, StreamReads, StreamAcknowledges, StreamWrites,
        StreamEnds, StreamAborts, StreamRests, ToClient!ReadOn, ToClient!Acknowledge,
        ToClient!WriteOn, ToClient!End, ToClient!Abort,
        ToClient!Read, ToClient!Write
<1> QED BY <1>1, <1>2, <1>3, Invariance, PTL
      DEF Spec, ClosesReliably, ToServer!ClosingSpec, ToClient!ClosingSpec,
          ToServer!closingVars, ToClient!closingVars

=============================================================================
