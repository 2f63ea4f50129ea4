-------------------------------- MODULE Bond --------------------------------
(***************************************************************************)
(* One bonded connection: the Android client (runBondSession of            *)
(* OlcrtcRoomManager.kt) and the bond server (bondPair of                  *)
(* bond-server/bond.go with serveSession of main.go) split the stream of   *)
(* their local socket over several lanes, each a TCP connection through an *)
(* olcRTC room, and put the peer's stream together again by the sequence   *)
(* numbers of its frames.                                                  *)
(*                                                                         *)
(* The i-th chunk read from a local socket is the number i, counted from   *)
(* 0.  One action is one system call or channel operation of a goroutine   *)
(* or coroutine.  The lanes are up and their Hellos read; BondRegistry     *)
(* models how a connection gets its lanes.                                 *)
(***************************************************************************)
EXTENDS Integers, Sequences, FiniteSets

CONSTANTS
  N,           \* lanes of the connection
  Breakable,   \* lanes whose room may fail
  MayEnd,      \* ends whose application may close the connection
  LaneCap,     \* frames a lane holds before a write blocks
  RecvCap,     \* recvBuf, the capacity of the fan-in channel
  PendingCap,  \* pendingCap, where the server's reorder gives up
  MaxUp,       \* bound: chunks the client reads from its local socket
  MaxDown      \* bound: chunks the server reads from its local socket

Lanes == 1..N
Ends == {"client", "server"}
Peer(e) == IF e = "client" THEN "server" ELSE "client"

ASSUME BondAssumption ==
  /\ N \in Nat \ {0}
  /\ Breakable \subseteq Lanes /\ MayEnd \subseteq Ends
  /\ LaneCap \in Nat \ {0} /\ RecvCap \in Nat \ {0} /\ PendingCap \in Nat \ {0}
  /\ MaxUp \in Nat /\ MaxDown \in Nat

VARIABLES
  app,       \* the socket behind each end: open, eof (sends no more), gone
  nRead,     \* chunks read from it
  split,     \* splitToLanes / stripe: read, write, fin, done
  seq,       \* its seq
  laneIdx,   \* its lane index (mod N)
  tries,     \* lanes it has tried in the loop it is in
  dead,      \* the flag of each lane that makes the splitter skip it
  net,       \* frames written by this end, not yet read by the other
  broken,    \* lanes whose room has failed
  reader,    \* the reader of each lane: read, send, stuck, done
  hand,      \* the frame a reader is sending to the channel (at most one)
  recv,      \* recvCh / recv
  reorder,   \* reorder: recv, flush, fin (ended at the FIN), stop (otherwise)
  expect,    \* its expect
  pending,   \* its pending
  finSeq,    \* its finSeq (at most one)
  written,   \* chunks written to the local socket
  eof,       \* the local socket was told that the stream is complete
  cancelled, \* server: the context of bondPair is cancelled
  deadlines, \* server: what its AfterFunc has set: the socket's (1), lane l's (l + 1)
  srvClose,  \* server: serveSession has cancelled (1) and closed lane l (l + 1)
  cliClose   \* client: runBondSession has closed its lanes and its channel

splitVars == <<app, nRead, split, seq, laneIdx, tries>>
laneVars == <<dead, net, broken>>
readerVars == <<reader, hand, recv>>
reorderVars == <<reorder, expect, pending, finSeq, written, eof>>
endVars == <<cancelled, deadlines, srvClose, cliClose>>
vars == <<splitVars, laneVars, readerVars, reorderVars, endVars>>

Data(s, d) == [type |-> "DATA", seq |-> s, data |-> d]

\* Mutant of Fin: it counts the FIN itself.
MutantFin(s) == [type |-> "FIN", seq |-> s + 1, data |-> 0]

Fin(s) == [type |-> "FIN", seq |-> s, data |-> 0]

Init ==
  /\ app = [e \in Ends |-> "open"]
  /\ nRead = [e \in Ends |-> 0]
  /\ split = [e \in Ends |-> "read"]
  /\ seq = [e \in Ends |-> 0]
  /\ laneIdx = [e \in Ends |-> 0]
  /\ tries = [e \in Ends |-> 0]
  /\ dead = [e \in Ends |-> [l \in Lanes |-> FALSE]]
  /\ net = [e \in Ends |-> [l \in Lanes |-> <<>>]]
  /\ broken = [l \in Lanes |-> FALSE]
  /\ reader = [e \in Ends |-> [l \in Lanes |-> "read"]]
  /\ hand = [e \in Ends |-> [l \in Lanes |-> {}]]
  /\ recv = [e \in Ends |-> <<>>]
  /\ reorder = [e \in Ends |-> "recv"]
  /\ expect = [e \in Ends |-> 0]
  /\ pending = [e \in Ends |-> <<>>]
  /\ finSeq = [e \in Ends |-> {}]
  /\ written = [e \in Ends |-> <<>>]
  /\ eof = [e \in Ends |-> FALSE]
  /\ cancelled = FALSE /\ deadlines = 0 /\ srvClose = 0 /\ cliClose = FALSE

-----------------------------------------------------------------------------
(* The local sockets.  The server's is a pipe to the inner SOCKS session,  *)
(* whose pipe() ends both directions as soon as one of them ends.          *)

AppEof ==
  /\ "client" \in MayEnd /\ app["client"] = "open"
  /\ app' = [app EXCEPT !["client"] = "eof"]
  /\ UNCHANGED <<nRead, split, seq, laneIdx, tries, laneVars, readerVars, reorderVars, endVars>>

AppGone(e) ==
  /\ e \in MayEnd /\ app[e] # "gone"
  /\ app' = [app EXCEPT ![e] = "gone"]
  /\ UNCHANGED <<nRead, split, seq, laneIdx, tries, laneVars, readerVars, reorderVars, endVars>>

SocketExpired(e) == e = "server" /\ deadlines >= 1

\* A room fails: what it has not delivered is lost from some point on.
LaneBreak(l) ==
  /\ ~broken[l]
  /\ broken' = [broken EXCEPT ![l] = TRUE]
  /\ \E i \in 0..Len(net["client"][l]), j \in 0..Len(net["server"][l]) :
       net' = [net EXCEPT !["client"][l] = SubSeq(@, 1, i), !["server"][l] = SubSeq(@, 1, j)]
  /\ UNCHANGED <<dead, splitVars, readerVars, reorderVars, endVars>>

\* Reads and writes of lane l fail at e: e closed it or its deadline has passed.
LaneFails(e, l) ==
  IF e = "client" THEN cliClose ELSE deadlines >= l + 1 \/ srvClose >= l + 1

\* The other end of lane l is no longer there.
LaneCut(e, l) ==
  broken[l] \/ (IF e = "client" THEN srvClose >= l + 1 ELSE cliClose)

\* writeFrame: it may fail once the lane has, and until the error comes back
\* what is written is lost.
WriteFails(e, l) == LaneFails(e, l) \/ LaneCut(e, l)
WriteFrame(e, l, f) ==
  /\ ~LaneFails(e, l)
  /\ Len(net[e][l]) < LaneCap
  /\ net' = IF LaneCut(e, l) THEN net ELSE [net EXCEPT ![e][l] = Append(@, f)]

-----------------------------------------------------------------------------
(* splitToLanes, and the coroutine stripe of the client.                   *)

SplitRead(e) ==
  /\ split[e] = "read" /\ app[e] = "open" /\ ~SocketExpired(e)
  /\ nRead[e] < IF e = "client" THEN MaxUp ELSE MaxDown
  /\ nRead' = [nRead EXCEPT ![e] = @ + 1]
  /\ split' = [split EXCEPT ![e] = "write"]
  /\ tries' = [tries EXCEPT ![e] = 0]
  /\ UNCHANGED <<app, seq, laneIdx, laneVars, readerVars, reorderVars, endVars>>

\* Every error of the read, the end of the stream or an expired deadline,
\* leads to the FIN loop.
SplitReadErr(e) ==
  /\ split[e] = "read" /\ (app[e] # "open" \/ SocketExpired(e))
  /\ split' = [split EXCEPT ![e] = "fin"]
  /\ tries' = [tries EXCEPT ![e] = 0]
  /\ UNCHANGED <<app, nRead, seq, laneIdx, laneVars, readerVars, reorderVars, endVars>>

\* Mutant of NextLane: the counter is not reduced modulo the number of lanes.
MutantNextLane(i) == i + 1

NextLane(i) == (i + 1) % N

\* Mutant of CancelIf: the deferred cancel() is missing.
MutantNoCancel(e, done) == cancelled' = cancelled

\* The server's goroutine defers cancel().
CancelIf(e, done) == cancelled' = (cancelled \/ (e = "server" /\ done))

\* writeNextLane: a lane that is dead, or whose write fails, is skipped.
SplitSkip(e) ==
  LET l == laneIdx[e] + 1 IN
  /\ split[e] = "write"
  /\ dead[e][l] \/ WriteFails(e, l)
  /\ dead' = [dead EXCEPT ![e][l] = TRUE]
  /\ laneIdx' = [laneIdx EXCEPT ![e] = NextLane(@)]
  /\ tries' = [tries EXCEPT ![e] = @ + 1]
  /\ split' = [split EXCEPT ![e] = IF tries[e] + 1 = N THEN "done" ELSE "write"]
  /\ CancelIf(e, tries[e] + 1 = N)
  /\ UNCHANGED <<app, nRead, seq, net, broken, readerVars, reorderVars,
                 deadlines, srvClose, cliClose>>

\* Mutant of SplitWrite: seq is not advanced.
MutantSplitWriteSameSeq(e) ==
  LET l == laneIdx[e] + 1 IN
  /\ split[e] = "write" /\ ~dead[e][l]
  /\ WriteFrame(e, l, Data(seq[e], nRead[e] - 1))
  /\ laneIdx' = [laneIdx EXCEPT ![e] = NextLane(@)]
  /\ split' = [split EXCEPT ![e] = IF e = "server" /\ cancelled THEN "done" ELSE "read"]
  /\ UNCHANGED <<app, nRead, seq, tries, dead, broken, readerVars, reorderVars, endVars>>

\* writeNextLane: the frame goes out, and the server looks at its context.
SplitWrite(e) ==
  LET l == laneIdx[e] + 1 IN
  /\ split[e] = "write" /\ ~dead[e][l]
  /\ WriteFrame(e, l, Data(seq[e], nRead[e] - 1))
  /\ seq' = [seq EXCEPT ![e] = @ + 1]
  /\ laneIdx' = [laneIdx EXCEPT ![e] = NextLane(@)]
  /\ split' = [split EXCEPT ![e] = IF e = "server" /\ cancelled THEN "done" ELSE "read"]
  /\ UNCHANGED <<app, nRead, tries, dead, broken, readerVars, reorderVars, endVars>>

\* The FIN goes to every live lane; errors are ignored.
SplitFin(e) ==
  LET l == tries[e] + 1 IN
  /\ split[e] = "fin"
  /\ \/ dead[e][l] /\ net' = net
     \/ ~dead[e][l] /\ WriteFails(e, l) /\ net' = net
     \/ ~dead[e][l] /\ WriteFrame(e, l, Fin(seq[e]))
  /\ tries' = [tries EXCEPT ![e] = @ + 1]
  /\ split' = [split EXCEPT ![e] = IF l = N THEN "done" ELSE "fin"]
  /\ CancelIf(e, l = N)
  /\ UNCHANGED <<app, nRead, seq, laneIdx, dead, broken, readerVars, reorderVars,
                 deadlines, srvClose, cliClose>>

-----------------------------------------------------------------------------
(* The readers of the lanes.                                               *)

\* Mutant of LaneRead: a full channel drops the frame.
MutantLaneReadDrops(e, l) ==
  LET q == net[Peer(e)][l] IN
  /\ reader[e][l] = "read" /\ ~LaneFails(e, l) /\ q # <<>>
  /\ net' = [net EXCEPT ![Peer(e)][l] = Tail(q)]
  /\ recv' = IF Len(recv[e]) < RecvCap THEN [recv EXCEPT ![e] = Append(@, Head(q))] ELSE recv
  /\ UNCHANGED <<hand, reader, splitVars, dead, broken, reorderVars, endVars>>

\* readFrame, then the channel: a reader waits with a frame only if it is full.
LaneRead(e, l) ==
  LET q == net[Peer(e)][l] IN
  /\ reader[e][l] = "read" /\ ~LaneFails(e, l) /\ q # <<>>
  /\ net' = [net EXCEPT ![Peer(e)][l] = Tail(q)]
  /\ \/ /\ Len(recv[e]) < RecvCap
        /\ recv' = [recv EXCEPT ![e] = Append(@, Head(q))]
        /\ UNCHANGED <<hand, reader>>
     \/ /\ Len(recv[e]) = RecvCap
        /\ hand' = [hand EXCEPT ![e][l] = {Head(q)}]
        /\ reader' = [reader EXCEPT ![e][l] = "send"]
        /\ recv' = recv
  /\ UNCHANGED <<splitVars, dead, broken, reorderVars, endVars>>

\* readFrame fails: the lane is dead for the splitter too.
LaneReadErr(e, l) ==
  /\ reader[e][l] = "read"
  /\ LaneFails(e, l) \/ (LaneCut(e, l) /\ net[Peer(e)][l] = <<>>)
  /\ reader' = [reader EXCEPT ![e][l] = "done"]
  /\ dead' = [dead EXCEPT ![e][l] = TRUE]
  /\ UNCHANGED <<splitVars, net, broken, hand, recv, reorderVars, endVars>>

LaneSend(e, l) ==
  /\ reader[e][l] = "send" /\ Len(recv[e]) < RecvCap
  /\ ~(e = "client" /\ cliClose)
  /\ \E f \in hand[e][l] : recv' = [recv EXCEPT ![e] = Append(@, f)]
  /\ hand' = [hand EXCEPT ![e][l] = {}]
  /\ reader' = [reader EXCEPT ![e][l] = "read"]
  /\ UNCHANGED <<splitVars, laneVars, reorderVars, endVars>>

\* The server's reader sees ctx.Done; the client's finds the channel closed, and
\* its finally marks the lane.
LaneDrop(e, l) ==
  /\ reader[e][l] = "send"
  /\ IF e = "server" THEN cancelled ELSE cliClose
  /\ hand' = [hand EXCEPT ![e][l] = {}]
  /\ reader' = [reader EXCEPT ![e][l] = "done"]
  /\ dead' = [dead EXCEPT ![e][l] = @ \/ e = "client"]
  /\ UNCHANGED <<splitVars, net, broken, recv, reorderVars, endVars>>

\* The server's reader has a frame and the channel has room, but select takes
\* ctx.Done.
LaneLeave(l) ==
  /\ reader["server"][l] = "read" /\ cancelled
  /\ ~LaneFails("server", l) /\ net["client"][l] # <<>>
  /\ net' = [net EXCEPT !["client"][l] = Tail(@)]
  /\ reader' = [reader EXCEPT !["server"][l] = "done"]
  /\ UNCHANGED <<splitVars, dead, broken, hand, recv, reorderVars, endVars>>

ReadersDone(e) == \A l \in Lanes : reader[e][l] = "done"

-----------------------------------------------------------------------------
(* reorder.                                                                *)

\* Mutant of FinReached: the FIN ends the stream whatever is still missing.
MutantFinReached(e) == finSeq[e] # {}

FinReached(e) ==
  \E v \in finSeq[e] : IF e = "client" THEN expect[e] >= v ELSE expect[e] = v

\* What a frame leaves in pending: the last payload under its number.
Put(p, f) == [s \in DOMAIN p \cup {f.seq} |-> IF s = f.seq THEN f.data ELSE p[s]]

\* The server bounds pending; the client does not.
Overflows(e, f) ==
  e = "server" /\ f.type = "DATA" /\ Cardinality(DOMAIN pending[e]) >= PendingCap

\* One frame.  "flush" means that there is something to write.
ReorderRecv(e) ==
  LET f == Head(recv[e]) IN
  /\ reorder[e] = "recv" /\ ~FinReached(e) /\ recv[e] # <<>>
  /\ ~Overflows(e, f)
  /\ recv' = [recv EXCEPT ![e] = Tail(@)]
  /\ \/ /\ f.type = "DATA"
        /\ pending' = [pending EXCEPT ![e] = Put(@, f)]
        /\ reorder' = [reorder EXCEPT ![e] = IF f.seq = expect[e] THEN "flush" ELSE "recv"]
        /\ finSeq' = finSeq
     \/ /\ f.type = "FIN"
        /\ finSeq' = IF \A v \in finSeq[e] : f.seq < v
                     THEN [finSeq EXCEPT ![e] = {f.seq}] ELSE finSeq
        /\ UNCHANGED <<pending, reorder>>
  /\ UNCHANGED <<splitVars, laneVars, reader, hand, expect, written, eof, endVars>>

\* The server gives up.
ReorderOverflow(e) ==
  /\ reorder[e] = "recv" /\ ~FinReached(e) /\ recv[e] # <<>>
  /\ Overflows(e, Head(recv[e]))
  /\ recv' = [recv EXCEPT ![e] = Tail(@)]
  /\ reorder' = [reorder EXCEPT ![e] = "stop"]
  /\ CancelIf(e, TRUE)
  /\ UNCHANGED <<splitVars, laneVars, reader, hand, expect, pending, finSeq, written, eof,
                 deadlines, srvClose, cliClose>>

\* One turn of the loop that writes what is next.
ReorderFlush(e) ==
  /\ reorder[e] = "flush" /\ app[e] # "gone" /\ ~SocketExpired(e)
  /\ written' = [written EXCEPT ![e] = Append(@, pending[e][expect[e]])]
  /\ expect' = [expect EXCEPT ![e] = @ + 1]
  /\ pending' = [pending EXCEPT ![e] = [s \in DOMAIN @ \ {expect[e]} |-> @[s]]]
  /\ reorder' = [reorder EXCEPT ![e] =
                   IF expect[e] + 1 \in DOMAIN pending[e] THEN "flush" ELSE "recv"]
  /\ UNCHANGED <<splitVars, laneVars, readerVars, finSeq, eof, endVars>>

\* The client's finally: shutdownOutput.  The server's closeWrite does nothing
\* to a net.Pipe; the SOCKS session sees the end when serveSession closes it.
Shutdown(e) == eof' = [eof EXCEPT ![e] = @ \/ e = "client"]

\* The write of a chunk fails.
ReorderWriteErr(e) ==
  /\ reorder[e] = "flush"
  /\ app[e] = "gone" \/ SocketExpired(e)
  /\ reorder' = [reorder EXCEPT ![e] = "stop"]
  /\ Shutdown(e) /\ CancelIf(e, TRUE)
  /\ UNCHANGED <<splitVars, laneVars, readerVars, expect, pending, finSeq, written,
                 deadlines, srvClose, cliClose>>

ReorderFin(e) ==
  /\ reorder[e] = "recv" /\ FinReached(e)
  /\ reorder' = [reorder EXCEPT ![e] = "fin"]
  /\ Shutdown(e) /\ CancelIf(e, TRUE)
  /\ UNCHANGED <<splitVars, laneVars, readerVars, expect, pending, finSeq, written,
                 deadlines, srvClose, cliClose>>

\* The channel is closed and empty, or the server's context is cancelled.
ReorderStop(e) ==
  /\ reorder[e] = "recv" /\ ~FinReached(e)
  /\ (recv[e] = <<>> /\ ReadersDone(e)) \/ (e = "server" /\ cancelled)
  /\ reorder' = [reorder EXCEPT ![e] = "stop"]
  /\ Shutdown(e) /\ CancelIf(e, TRUE)
  /\ UNCHANGED <<splitVars, laneVars, readerVars, expect, pending, finSeq, written,
                 deadlines, srvClose, cliClose>>

-----------------------------------------------------------------------------
(* The end of a session.                                                   *)

Joined(e) == split[e] = "done" /\ reorder[e] \in {"fin", "stop"}

\* The server's AfterFunc: the socket first, then lane after lane.
AfterFunc ==
  /\ cancelled /\ deadlines <= N
  /\ deadlines' = deadlines + 1
  /\ UNCHANGED <<splitVars, laneVars, readerVars, reorderVars, cancelled, srvClose, cliClose>>

\* Reassemble returns and its pipe is closed: the SOCKS session reads the end of
\* the stream and is over.
ReassembleReturns ==
  /\ Joined("server") /\ app["server"] = "open"
  /\ app' = [app EXCEPT !["server"] = "gone"]
  /\ eof' = [eof EXCEPT !["server"] = TRUE]
  /\ UNCHANGED <<nRead, split, seq, laneIdx, tries, laneVars, readerVars,
                 reorder, expect, pending, finSeq, written, endVars>>

\* serveSession, once the SOCKS session is over: cancel, then close each lane.
ServeClose ==
  /\ app["server"] = "gone" /\ srvClose <= N
  /\ srvClose' = srvClose + 1
  /\ cancelled' = TRUE
  /\ net' = [net EXCEPT !["client"] = [l \in Lanes |-> IF srvClose = l THEN <<>> ELSE @[l]]]
  /\ UNCHANGED <<splitVars, dead, broken, readerVars, reorderVars, deadlines, cliClose>>

\* runBondSession, once stripe and reorder are joined: it closes the sockets and
\* the channel.  A sender suspended on a full channel stays suspended.
ClientFinish ==
  /\ Joined("client") /\ ~cliClose
  /\ cliClose' = TRUE
  /\ app' = [app EXCEPT !["client"] = "gone"]
  /\ net' = [net EXCEPT !["server"] = [l \in Lanes |-> <<>>]]
  /\ \E S \in SUBSET {l \in Lanes : reader["client"][l] = "send" /\ Len(recv["client"]) = RecvCap} :
       reader' = [reader EXCEPT !["client"] =
                    [l \in Lanes |-> IF l \in S THEN "stuck" ELSE @[l]]]
  /\ UNCHANGED <<nRead, split, seq, laneIdx, tries, dead, broken, hand, recv, reorderVars,
                 cancelled, deadlines, srvClose>>

-----------------------------------------------------------------------------

Splitter(e) == SplitReadErr(e) \/ SplitSkip(e) \/ SplitWrite(e) \/ SplitFin(e)
LaneReader(e, l) ==
  \/ LaneRead(e, l) \/ LaneReadErr(e, l) \/ LaneSend(e, l) \/ LaneDrop(e, l)
  \/ (e = "server" /\ LaneLeave(l))
Reorderer(e) ==
  \/ ReorderRecv(e) \/ ReorderOverflow(e) \/ ReorderFlush(e)
  \/ ReorderWriteErr(e) \/ ReorderFin(e) \/ ReorderStop(e)

Next ==
  \/ AppEof
  \/ \E l \in Breakable : LaneBreak(l)
  \/ \E e \in Ends :
       \/ AppGone(e) \/ SplitRead(e) \/ Splitter(e)
       \/ \E l \in Lanes : LaneReader(e, l)
       \/ Reorderer(e)
  \/ AfterFunc \/ ReassembleReturns \/ ServeClose \/ ClientFinish

Spec == Init /\ [][Next]_vars

\* Every goroutine and coroutine runs; the applications and the rooms need not
\* do anything.
FairSpec ==
  /\ Spec
  /\ \A e \in Ends : WF_vars(Splitter(e)) /\ WF_vars(Reorderer(e))
  /\ \A e \in Ends : \A l \in Lanes : WF_vars(LaneReader(e, l))
  /\ WF_vars(AfterFunc) /\ WF_vars(ReassembleReturns)
  /\ WF_vars(ServeClose) /\ WF_vars(ClientFinish)

-----------------------------------------------------------------------------
(* Properties.                                                             *)

Frame == [type : {"DATA", "FIN"}, seq : Nat, data : Nat]

SplitTypes ==
  /\ app \in [Ends -> {"open", "eof", "gone"}]
  /\ nRead \in [Ends -> Nat]
  /\ split \in [Ends -> {"read", "write", "fin", "done"}]
  /\ seq \in [Ends -> Nat]
  /\ laneIdx \in [Ends -> 0..(N - 1)]
  /\ tries \in [Ends -> 0..N]
  /\ \A e \in Ends : split[e] \in {"write", "fin"} => tries[e] < N

LaneTypes ==
  /\ dead \in [Ends -> [Lanes -> BOOLEAN]]
  /\ net \in [Ends -> [Lanes -> Seq(Frame)]]
  /\ broken \in [Lanes -> BOOLEAN]

ReaderTypes ==
  /\ reader \in [Ends -> [Lanes -> {"read", "send", "stuck", "done"}]]
  /\ hand \in [Ends -> [Lanes -> SUBSET Frame]]
  /\ recv \in [Ends -> Seq(Frame)]

ReorderTypes ==
  /\ reorder \in [Ends -> {"recv", "flush", "fin", "stop"}]
  /\ expect \in [Ends -> Nat]
  /\ DOMAIN pending = Ends
  /\ \A e \in Ends : /\ DOMAIN pending[e] \subseteq Nat
                     /\ \A s \in DOMAIN pending[e] : pending[e][s] \in Nat
  /\ finSeq \in [Ends -> SUBSET Nat]
  /\ written \in [Ends -> Seq(Nat)]
  /\ eof \in [Ends -> BOOLEAN]

EndTypes ==
  /\ cancelled \in BOOLEAN /\ cliClose \in BOOLEAN
  /\ deadlines \in 0..(N + 1) /\ srvClose \in 0..(N + 1)

\* Type invariant: among others, a lane index always names a lane and the loops
\* over the lanes end.
TypeOK == SplitTypes /\ LaneTypes /\ ReaderTypes /\ ReorderTypes /\ EndTypes

\* "Reassembled strictly IN ORDER" (bond.go:4): whatever order the lanes deliver
\* in and whichever of them fail, each local socket is given the chunks that
\* were read at the other end in their order, none twice and none left out.
Up == INSTANCE ReliableStream WITH sent <- nRead["client"], received <- written["server"]
Down == INSTANCE ReliableStream WITH sent <- nRead["server"], received <- written["client"]
ReliableSpec == Up!Spec /\ Down!Spec

\* A reorder that ends at the FIN has written everything the other end's
\* splitter ever read: no chunk is behind the FIN, on another lane or in
\* writeNextLane.
FinComplete ==
  \A e \in Ends : reorder[e] = "fin" => Len(written[e]) = nRead[Peer(e)]

\* The frames the splitter of e can have written: a chunk under its number, or
\* the FIN after the last one.
GoodFrames(e) ==
  {f \in Frame :
     \/ f.type = "DATA" /\ f.data = f.seq /\ f.seq < seq[e]
     \/ f.type = "FIN" /\ f.seq = seq[e] /\ seq[e] = nRead[e] /\ split[e] \in {"fin", "done"}}

SplitterOK(e) ==
  /\ seq[e] <= nRead[e]
  /\ split[e] \in {"read", "fin"} => nRead[e] = seq[e]
  /\ split[e] = "write" => nRead[e] = seq[e] + 1

FramesOK(e) ==
  /\ \A l \in Lanes : /\ net[e][l] \in Seq(GoodFrames(e))
                      /\ hand[Peer(e)][l] \subseteq GoodFrames(e)
  /\ recv[Peer(e)] \in Seq(GoodFrames(e))

\* The state of reorder at r, for the frames of e.
ReorderOK(e, r) ==
  /\ \A s \in DOMAIN pending[r] : pending[r][s] = s /\ s < seq[e]
  /\ \A v \in finSeq[r] : v = seq[e] /\ seq[e] = nRead[e] /\ split[e] \in {"fin", "done"}
  /\ reorder[r] = "flush" => expect[r] \in DOMAIN pending[r]
  /\ reorder[r] = "fin" => expect[r] = nRead[e] /\ split[e] \in {"fin", "done"}
  /\ expect[r] <= seq[e]
  /\ Len(written[r]) = expect[r]
  /\ \A i \in 1..Len(written[r]) : written[r][i] = i - 1

\* The inductive invariant: frames keep their chunks on every lane, a FIN
\* exists only when the splitter has read its last chunk and written it, and
\* expect counts what was written.
BondInv ==
  /\ TypeOK
  /\ \A e \in Ends : SplitterOK(e) /\ FramesOK(e) /\ ReorderOK(e, Peer(e))

\* The client's coroutine closes the application's read side "at the FIN seq"
\* (OlcrtcRoomManager.kt:421), that is, once the response is complete.
EofComplete == eof["client"] /\ app["client"] # "gone"
                 => Len(written["client"]) = nRead["server"]

\* No goroutine and no coroutine can take a step: all of them are blocked or have
\* returned.  Every step uses up a chunk, a frame, a lane or a deadline, so a session
\* whose applications and rooms do nothing comes to this.
Quiet ==
  ~ENABLED (\/ \E e \in Ends : \/ Splitter(e) \/ Reorderer(e)
                               \/ \E l \in Lanes : LaneReader(e, l)
            \/ AfterFunc \/ ReassembleReturns \/ ServeClose \/ ClientFinish)

\* The backpressure of the lanes and the channels is no deadlock: while no room fails and
\* nobody has ended the connection, the goroutines come to rest only when every chunk
\* that was read is written at the other end.
Delivers ==
  Quiet => \/ \E e \in Ends : app[e] # "open"
           \/ \E l \in Lanes : broken[l]
           \/ \A e \in Ends : Len(written[Peer(e)]) = nRead[e]

\* Nothing of a session stays behind at the server when the client has closed
\* its lanes or the SOCKS session is over: cancel, the deadlines and the closed
\* lanes free both goroutines and every reader, wherever they are blocked.
ServerCleansUp ==
  Quiet /\ (cliClose \/ app["server"] = "gone")
    => Joined("server") /\ ReadersDone("server") /\ srvClose = N + 1

\* "Unblock any lingering lane readers and release sockets"
\* (OlcrtcRoomManager.kt:450): once stripe and reorder are joined every reader
\* of the client's session ends.
ClientCleansUp == Joined("client") ~> ReadersDone("client")

=============================================================================
