----------------------------- MODULE BondProofs -----------------------------
(***************************************************************************)
(* Proofs about Bond, for any number of lanes and any capacities: the type *)
(* invariant, in-order delivery in both directions as an implementation of *)
(* ReliableStream, and that a stream that ends at its FIN is complete.     *)
(***************************************************************************)
EXTENDS Bond, SequenceTheorems, TLAPS

\* The two ends are each other's peers.
LEMMA Peers ==
  /\ \A e \in Ends : Peer(e) \in Ends /\ Peer(e) # e /\ Peer(Peer(e)) = e
  /\ \A e, x \in Ends : e = x \/ e = Peer(x)
BY DEF Ends, Peer

\* The index of a lane names a lane, and so does its successor.
LEMMA NextLaneType == \A i \in 0..(N - 1) : i + 1 \in Lanes /\ NextLane(i) \in 0..(N - 1)
<1> SUFFICES ASSUME NEW i \in 0..(N - 1)
             PROVE  i + 1 \in Lanes /\ NextLane(i) \in 0..(N - 1)
  OBVIOUS
<1>1. N \in Nat \ {0} /\ i \in Nat /\ i + 1 <= N
  BY BondAssumption
<1>2. (i + 1) % N \in 0..(N - 1)
  BY <1>1
<1> QED BY <1>1, <1>2 DEF Lanes, NextLane

\* The frames that are written are frames.
LEMMA FrameType ==
  /\ \A s, d \in Nat : Data(s, d) \in Frame
  /\ \A s \in Nat : Fin(s) \in Frame
BY DEF Data, Fin, Frame

-----------------------------------------------------------------------------
(* Type correctness.                                                       *)

\* The initial state has its types.
LEMMA TypeInit == Init => TypeOK
<1> SUFFICES ASSUME Init PROVE TypeOK
  OBVIOUS
<1>1. SplitTypes
  BY BondAssumption DEF Init, SplitTypes
<1>2. LaneTypes
  BY DEF Init, LaneTypes
<1>3. ReaderTypes
  BY DEF Init, ReaderTypes
<1>4. ReorderTypes
  <2>1. pending = [e \in Ends |-> <<>>] /\ DOMAIN << >> = {}
    BY DEF Init
  <2>2. DOMAIN pending = Ends /\ \A e \in Ends : DOMAIN pending[e] = {}
    BY <2>1
  <2>3. eof \in [Ends -> BOOLEAN]
    BY DEF Init
  <2>4. /\ reorder \in [Ends -> {"recv", "flush", "fin", "stop"}]
        /\ expect \in [Ends -> Nat]
        /\ finSeq \in [Ends -> SUBSET Nat]
    BY DEF Init
  <2>5. written \in [Ends -> Seq(Nat)]
    BY DEF Init
  <2>6. \A e \in Ends : /\ DOMAIN pending[e] \subseteq Nat
                       /\ \A s \in DOMAIN pending[e] : pending[e][s] \in Nat
    BY <2>2
  <2> QED BY <2>2, <2>3, <2>4, <2>5, <2>6, Zenon DEF ReorderTypes
<1>5. EndTypes
  <2>1. deadlines \in 0..(N + 1) /\ srvClose \in 0..(N + 1)
    BY BondAssumption DEF Init
  <2>2. cancelled \in BOOLEAN /\ cliClose \in BOOLEAN
    BY DEF Init
  <2> QED BY <2>1, <2>2 DEF EndTypes
<1> QED BY <1>1, <1>2, <1>3, <1>4, <1>5 DEF TypeOK

\* What a step leaves alone keeps its type.
LEMMA TypeSame ==
  ASSUME TypeOK
  PROVE  /\ UNCHANGED splitVars => SplitTypes'
         /\ UNCHANGED laneVars => LaneTypes'
         /\ UNCHANGED readerVars => ReaderTypes'
         /\ UNCHANGED reorderVars => ReorderTypes'
         /\ UNCHANGED endVars => EndTypes'
<1>1. UNCHANGED splitVars => SplitTypes'
  BY DEF TypeOK, splitVars, SplitTypes
<1>2. UNCHANGED laneVars => LaneTypes'
  BY DEF TypeOK, laneVars, LaneTypes
<1>3. UNCHANGED readerVars => ReaderTypes'
  BY DEF TypeOK, readerVars, ReaderTypes
<1>4. UNCHANGED reorderVars => ReorderTypes'
  BY DEF TypeOK, reorderVars, ReorderTypes
<1>5. UNCHANGED endVars => EndTypes'
  BY DEF TypeOK, endVars, EndTypes
<1> QED BY <1>1, <1>2, <1>3, <1>4, <1>5

\* A write keeps the lanes' contents sequences of frames.
LEMMA WriteFrameType ==
  ASSUME TypeOK, NEW e \in Ends, NEW l \in Lanes, NEW f \in Frame, WriteFrame(e, l, f)
  PROVE  net' \in [Ends -> [Lanes -> Seq(Frame)]]
<1>1. net[e][l] \in Seq(Frame)
  BY DEF TypeOK, LaneTypes
<1>2. Append(net[e][l], f) \in Seq(Frame)
  BY <1>1
<1> QED BY <1>2 DEF TypeOK, LaneTypes, WriteFrame

\* The deferred cancel() leaves a Boolean.
LEMMA CancelType ==
  ASSUME TypeOK, NEW e, NEW done, CancelIf(e, done), UNCHANGED <<deadlines, srvClose, cliClose>>
  PROVE  EndTypes'
BY DEF TypeOK, EndTypes, CancelIf

\* A step preserves the types.  TypeOK alone is not inductive: that the chunk of
\* a DATA frame is a number needs SplitterOK, that the entry reorder flushes
\* exists needs ReorderOK.
LEMMA TypeStep == BondInv /\ [Next]_vars => TypeOK'
<1> SUFFICES ASSUME BondInv, [Next]_vars PROVE TypeOK'
  OBVIOUS
<1>0. TypeOK
  BY DEF BondInv
<1> USE <1>0
<1> USE TypeSame DEF splitVars, laneVars, readerVars, reorderVars, endVars
<1>1. CASE UNCHANGED vars
  BY <1>1 DEF vars, TypeOK
<1>2. CASE AppEof
  <2>1. SplitTypes'
    BY <1>2 DEF AppEof, TypeOK, SplitTypes, Ends
  <2> QED BY <1>2, <2>1 DEF AppEof, TypeOK
<1>3. ASSUME NEW l \in Breakable, LaneBreak(l) PROVE TypeOK'
  <2>1. l \in Lanes
    BY BondAssumption
  <2>2. PICK i \in 0..Len(net["client"][l]), j \in 0..Len(net["server"][l]) :
          net' = [net EXCEPT !["client"][l] = SubSeq(@, 1, i),
                             !["server"][l] = SubSeq(@, 1, j)]
    BY <1>3 DEF LaneBreak
  <2>3. net["client"][l] \in Seq(Frame) /\ net["server"][l] \in Seq(Frame)
    BY <2>1 DEF TypeOK, LaneTypes, Ends
  <2>4. /\ SubSeq(net["client"][l], 1, i) \in Seq(Frame)
        /\ SubSeq(net["server"][l], 1, j) \in Seq(Frame)
    BY <2>2, <2>3
  <2>5. net' \in [Ends -> [Lanes -> Seq(Frame)]]
    BY <2>1, <2>2, <2>4 DEF TypeOK, LaneTypes, Ends
  <2>6. broken' \in [Lanes -> BOOLEAN]
    BY <1>3 DEF LaneBreak, TypeOK, LaneTypes
  <2>7. LaneTypes'
    BY <1>3, <2>5, <2>6 DEF LaneBreak, TypeOK, LaneTypes
  <2> QED BY <1>3, <2>7 DEF LaneBreak, TypeOK
<1>4. ASSUME NEW e \in Ends, AppGone(e) PROVE TypeOK'
  <2>1. SplitTypes'
    BY <1>4 DEF AppGone, TypeOK, SplitTypes
  <2> QED BY <1>4, <2>1 DEF AppGone, TypeOK
<1>5. ASSUME NEW e \in Ends, SplitRead(e) PROVE TypeOK'
  <2>1. SplitTypes'
    BY <1>5, BondAssumption DEF SplitRead, TypeOK, SplitTypes
  <2> QED BY <1>5, <2>1 DEF SplitRead, TypeOK
<1>6. ASSUME NEW e \in Ends, SplitReadErr(e) PROVE TypeOK'
  <2>1. SplitTypes'
    BY <1>6, BondAssumption DEF SplitReadErr, TypeOK, SplitTypes
  <2> QED BY <1>6, <2>1 DEF SplitReadErr, TypeOK
<1>7. ASSUME NEW e \in Ends, SplitSkip(e) PROVE TypeOK'
  <2>1. laneIdx[e] + 1 \in Lanes /\ NextLane(laneIdx[e]) \in 0..(N - 1)
    BY NextLaneType DEF TypeOK, SplitTypes
  <2>2. SplitTypes'
    BY <1>7, <2>1, BondAssumption DEF SplitSkip, TypeOK, SplitTypes
  <2>3. LaneTypes'
    BY <1>7, <2>1 DEF SplitSkip, TypeOK, LaneTypes
  <2>4. EndTypes'
    BY <1>7, CancelType DEF SplitSkip
  <2> QED BY <1>7, <2>2, <2>3, <2>4 DEF SplitSkip, TypeOK
<1>8. ASSUME NEW e \in Ends, SplitWrite(e) PROVE TypeOK'
  <2>1. laneIdx[e] + 1 \in Lanes /\ NextLane(laneIdx[e]) \in 0..(N - 1)
    BY NextLaneType DEF TypeOK, SplitTypes
  <2>2. SplitTypes'
    BY <1>8, <2>1 DEF SplitWrite, TypeOK, SplitTypes
  <2>3. Data(seq[e], nRead[e] - 1) \in Frame
    <3>1. nRead[e] = seq[e] + 1 /\ seq[e] \in Nat
      BY <1>8 DEF SplitWrite, BondInv, SplitterOK, TypeOK, SplitTypes
    <3> QED BY <3>1, FrameType
  <2>4. net' \in [Ends -> [Lanes -> Seq(Frame)]]
    BY <1>8, <2>1, <2>3, WriteFrameType DEF SplitWrite
  <2>5. LaneTypes'
    BY <1>8, <2>4 DEF SplitWrite, TypeOK, LaneTypes
  <2> QED BY <1>8, <2>2, <2>5 DEF SplitWrite, TypeOK
<1>9. ASSUME NEW e \in Ends, SplitFin(e) PROVE TypeOK'
  <2>1. tries[e] + 1 \in Lanes
    BY <1>9, BondAssumption DEF SplitFin, TypeOK, SplitTypes, Lanes
  <2>2. SplitTypes'
    BY <1>9, BondAssumption DEF SplitFin, TypeOK, SplitTypes
  <2>3. Fin(seq[e]) \in Frame
    BY FrameType DEF TypeOK, SplitTypes
  <2>4. net' \in [Ends -> [Lanes -> Seq(Frame)]]
    BY <1>9, <2>1, <2>3, WriteFrameType DEF SplitFin, TypeOK, LaneTypes
  <2>5. LaneTypes'
    BY <1>9, <2>4 DEF SplitFin, TypeOK, LaneTypes
  <2>6. EndTypes'
    BY <1>9, CancelType DEF SplitFin
  <2> QED BY <1>9, <2>2, <2>5, <2>6 DEF SplitFin, TypeOK
<1>10. ASSUME NEW e \in Ends, NEW l \in Lanes, LaneRead(e, l) PROVE TypeOK'
  <2> DEFINE q == net[Peer(e)][l]
  <2>1. q \in Seq(Frame) /\ q # <<>>
    BY <1>10, Peers DEF LaneRead, TypeOK, LaneTypes
  <2>2. Head(q) \in Frame /\ Tail(q) \in Seq(Frame)
    BY <2>1
  <2>3. net' = [net EXCEPT ![Peer(e)][l] = Tail(q)]
    BY <1>10 DEF LaneRead
  <2>4. net' \in [Ends -> [Lanes -> Seq(Frame)]]
    BY <2>2, <2>3 DEF TypeOK, LaneTypes
  <2>5. LaneTypes'
    BY <1>10, <2>4 DEF LaneRead, TypeOK, LaneTypes
  <2>6. CASE recv' = [recv EXCEPT ![e] = Append(@, Head(q))] /\ UNCHANGED <<hand, reader>>
    <3>1. Append(recv[e], Head(q)) \in Seq(Frame)
      BY <2>2 DEF TypeOK, ReaderTypes
    <3>2. ReaderTypes'
      BY <2>6, <3>1 DEF TypeOK, ReaderTypes
    <3> QED BY <1>10, <2>5, <3>2 DEF LaneRead, TypeOK
  <2>7. CASE /\ hand' = [hand EXCEPT ![e][l] = {Head(q)}]
             /\ reader' = [reader EXCEPT ![e][l] = "send"]
             /\ recv' = recv
    <3>1. ReaderTypes'
      BY <2>7, <2>2 DEF TypeOK, ReaderTypes
    <3> QED BY <1>10, <2>5, <3>1 DEF LaneRead, TypeOK
  <2> QED BY <1>10, <2>6, <2>7 DEF LaneRead
<1>11. ASSUME NEW e \in Ends, NEW l \in Lanes, LaneReadErr(e, l) PROVE TypeOK'
  <2>1. LaneTypes'
    BY <1>11 DEF LaneReadErr, TypeOK, LaneTypes
  <2>2. ReaderTypes'
    BY <1>11 DEF LaneReadErr, TypeOK, ReaderTypes
  <2> QED BY <1>11, <2>1, <2>2 DEF LaneReadErr, TypeOK
<1>12. ASSUME NEW e \in Ends, NEW l \in Lanes, LaneSend(e, l) PROVE TypeOK'
  <2>1. PICK f \in hand[e][l] : recv' = [recv EXCEPT ![e] = Append(@, f)]
    BY <1>12 DEF LaneSend
  <2>2. f \in Frame /\ recv[e] \in Seq(Frame)
    BY DEF TypeOK, ReaderTypes
  <2>3. Append(recv[e], f) \in Seq(Frame)
    BY <2>2
  <2>4. ReaderTypes'
    BY <1>12, <2>1, <2>3 DEF LaneSend, TypeOK, ReaderTypes
  <2> QED BY <1>12, <2>4 DEF LaneSend, TypeOK
<1>13. ASSUME NEW e \in Ends, NEW l \in Lanes, LaneDrop(e, l) PROVE TypeOK'
  <2>1. LaneTypes'
    BY <1>13 DEF LaneDrop, TypeOK, LaneTypes
  <2>2. ReaderTypes'
    BY <1>13 DEF LaneDrop, TypeOK, ReaderTypes
  <2> QED BY <1>13, <2>1, <2>2 DEF LaneDrop, TypeOK
<1>14. ASSUME NEW l \in Lanes, LaneLeave(l) PROVE TypeOK'
  <2>1. net["client"][l] \in Seq(Frame) /\ net["client"][l] # <<>>
    BY <1>14 DEF LaneLeave, TypeOK, LaneTypes, Ends
  <2>2. Tail(net["client"][l]) \in Seq(Frame)
    BY <2>1
  <2>3. LaneTypes'
    BY <1>14, <2>2 DEF LaneLeave, TypeOK, LaneTypes, Ends
  <2>4. ReaderTypes'
    BY <1>14 DEF LaneLeave, TypeOK, ReaderTypes, Ends
  <2> QED BY <1>14, <2>3, <2>4 DEF LaneLeave, TypeOK
<1>15. ASSUME NEW e \in Ends, ReorderRecv(e) PROVE TypeOK'
  <2> DEFINE f == Head(recv[e])
  <2>1. f \in Frame /\ Tail(recv[e]) \in Seq(Frame)
    BY <1>15 DEF ReorderRecv, TypeOK, ReaderTypes
  <2>2. f.seq \in Nat /\ f.data \in Nat
    BY <2>1 DEF Frame
  <2>3. ReaderTypes'
    BY <1>15, <2>1 DEF ReorderRecv, TypeOK, ReaderTypes
  <2>4. CASE f.type = "DATA"
    <3>1. /\ pending' = [pending EXCEPT ![e] = Put(@, f)]
          /\ reorder' = [reorder EXCEPT ![e] = IF f.seq = expect[e] THEN "flush" ELSE "recv"]
          /\ finSeq' = finSeq
      BY <1>15, <2>4 DEF ReorderRecv
    <3>2. /\ DOMAIN Put(pending[e], f) = DOMAIN pending[e] \cup {f.seq}
          /\ \A s \in DOMAIN pending[e] \cup {f.seq} :
               Put(pending[e], f)[s] = IF s = f.seq THEN f.data ELSE pending[e][s]
      BY DEF Put
    <3>3. ReorderTypes'
      BY <1>15, <2>2, <3>1, <3>2 DEF ReorderRecv, TypeOK, ReorderTypes
    <3> QED BY <1>15, <2>3, <3>3 DEF ReorderRecv, TypeOK
  <2>5. CASE f.type = "FIN"
    <3>1. /\ finSeq' = (IF \A v \in finSeq[e] : f.seq < v
                        THEN [finSeq EXCEPT ![e] = {f.seq}] ELSE finSeq)
          /\ UNCHANGED <<pending, reorder>>
      BY <1>15, <2>5 DEF ReorderRecv
    <3>2. finSeq' \in [Ends -> SUBSET Nat]
      BY <2>2, <3>1 DEF TypeOK, ReorderTypes
    <3>3. ReorderTypes'
      BY <1>15, <3>1, <3>2 DEF ReorderRecv, TypeOK, ReorderTypes
    <3> QED BY <1>15, <2>3, <3>3 DEF ReorderRecv, TypeOK
  <2> QED BY <2>1, <2>4, <2>5 DEF Frame
<1>16. ASSUME NEW e \in Ends, ReorderOverflow(e) PROVE TypeOK'
  <2>1. Head(recv[e]) \in Frame /\ Tail(recv[e]) \in Seq(Frame)
    BY <1>16 DEF ReorderOverflow, TypeOK, ReaderTypes
  <2>2. Head(recv[e]).seq \in Nat
    BY <2>1 DEF Frame
  <2>3. ReaderTypes'
    BY <1>16, <2>1 DEF ReorderOverflow, TypeOK, ReaderTypes
  <2>4. ReorderTypes'
    BY <1>16, <2>2 DEF ReorderOverflow, TypeOK, ReorderTypes
  <2>5. EndTypes'
    BY <1>16, CancelType DEF ReorderOverflow
  <2> QED BY <1>16, <2>3, <2>4, <2>5 DEF ReorderOverflow, TypeOK
<1>17. ASSUME NEW e \in Ends, ReorderFlush(e) PROVE TypeOK'
  <2>1. pending[e][expect[e]] \in Nat
    <3>1. ReorderOK(Peer(e), e)
      BY Peers DEF BondInv
    <3>2. expect[e] \in DOMAIN pending[e]
      BY <1>17, <3>1 DEF ReorderFlush, ReorderOK
    <3> QED BY <3>2 DEF TypeOK, ReorderTypes
  <2>2. pending' = [pending EXCEPT ![e] = [s \in DOMAIN pending[e] \ {expect[e]} |-> pending[e][s]]]
    BY <1>17 DEF ReorderFlush
  <2>3. /\ DOMAIN pending' = Ends
        /\ \A x \in Ends : /\ DOMAIN pending'[x] \subseteq Nat
                           /\ \A s \in DOMAIN pending'[x] : pending'[x][s] \in Nat
    BY <2>2 DEF TypeOK, ReorderTypes
  <2>4. written' \in [Ends -> Seq(Nat)]
    BY <1>17, <2>1 DEF ReorderFlush, TypeOK, ReorderTypes
  <2>5. ReorderTypes'
    BY <1>17, <2>3, <2>4 DEF ReorderFlush, TypeOK, ReorderTypes
  <2> QED BY <1>17, <2>5 DEF ReorderFlush, TypeOK
<1>18. ASSUME NEW e \in Ends, ReorderWriteErr(e) PROVE TypeOK'
  <2>1. ReorderTypes'
    BY <1>18 DEF ReorderWriteErr, Shutdown, TypeOK, ReorderTypes
  <2>2. EndTypes'
    BY <1>18, CancelType DEF ReorderWriteErr
  <2> QED BY <1>18, <2>1, <2>2 DEF ReorderWriteErr, TypeOK
<1>19. ASSUME NEW e \in Ends, ReorderFin(e) PROVE TypeOK'
  <2>1. ReorderTypes'
    BY <1>19 DEF ReorderFin, Shutdown, TypeOK, ReorderTypes
  <2>2. EndTypes'
    BY <1>19, CancelType DEF ReorderFin
  <2> QED BY <1>19, <2>1, <2>2 DEF ReorderFin, TypeOK
<1>20. ASSUME NEW e \in Ends, ReorderStop(e) PROVE TypeOK'
  <2>1. ReorderTypes'
    BY <1>20 DEF ReorderStop, Shutdown, TypeOK, ReorderTypes
  <2>2. EndTypes'
    BY <1>20, CancelType DEF ReorderStop
  <2> QED BY <1>20, <2>1, <2>2 DEF ReorderStop, TypeOK
<1>21. CASE AfterFunc
  <2>1. deadlines' \in 0..(N + 1)
    BY <1>21, BondAssumption DEF AfterFunc, TypeOK, EndTypes
  <2>2. EndTypes'
    BY <1>21, <2>1 DEF AfterFunc, TypeOK, EndTypes
  <2> QED BY <1>21, <2>2 DEF AfterFunc, TypeOK
<1>22. CASE ReassembleReturns
  <2>1. SplitTypes'
    BY <1>22 DEF ReassembleReturns, TypeOK, SplitTypes, Ends
  <2>2. ReorderTypes'
    BY <1>22 DEF ReassembleReturns, TypeOK, ReorderTypes, Ends
  <2> QED BY <1>22, <2>1, <2>2 DEF ReassembleReturns, TypeOK
<1>23. CASE ServeClose
  <2>1. srvClose' \in 0..(N + 1)
    BY <1>23, BondAssumption DEF ServeClose, TypeOK, EndTypes
  <2>2. EndTypes'
    BY <1>23, <2>1 DEF ServeClose, TypeOK, EndTypes
  <2>3. net' \in [Ends -> [Lanes -> Seq(Frame)]]
    BY <1>23, EmptySeq DEF ServeClose, TypeOK, LaneTypes, Ends
  <2>4. LaneTypes'
    BY <1>23, <2>3 DEF ServeClose, TypeOK, LaneTypes
  <2> QED BY <1>23, <2>2, <2>4 DEF ServeClose, TypeOK
<1>24. CASE ClientFinish
  <2>1. SplitTypes'
    BY <1>24 DEF ClientFinish, TypeOK, SplitTypes, Ends
  <2>2. EndTypes'
    BY <1>24 DEF ClientFinish, TypeOK, EndTypes
  <2>3. net' \in [Ends -> [Lanes -> Seq(Frame)]]
    BY <1>24, EmptySeq DEF ClientFinish, TypeOK, LaneTypes, Ends
  <2>4. LaneTypes'
    BY <1>24, <2>3 DEF ClientFinish, TypeOK, LaneTypes
  <2>5. ReaderTypes'
    BY <1>24 DEF ClientFinish, TypeOK, ReaderTypes, Ends
  <2> QED BY <1>24, <2>1, <2>2, <2>4, <2>5 DEF ClientFinish, TypeOK
<1> QED
  BY <1>1, <1>2, <1>3, <1>4, <1>5, <1>6, <1>7, <1>8, <1>9, <1>10, <1>11, <1>12, <1>13,
     <1>14, <1>15, <1>16, <1>17, <1>18, <1>19, <1>20, <1>21, <1>22, <1>23, <1>24
  DEF Next, Splitter, LaneReader, Reorderer

-----------------------------------------------------------------------------
(* The splitters.                                                          *)

\* How a step moves the splitter of e: seq only grows, and once the FIN loop is
\* reached nothing is read or numbered any more.
Progress(e) ==
  /\ seq[e] <= seq'[e]
  /\ split[e] \in {"fin", "done"} =>
       /\ split'[e] \in {"fin", "done"}
       /\ nRead'[e] = nRead[e] /\ seq'[e] = seq[e]

\* Every step keeps SplitterOK and is Progress, at both ends.
LEMMA SplitterStep ==
  ASSUME BondInv, [Next]_vars, NEW x \in Ends
  PROVE  SplitterOK(x)' /\ Progress(x)
<1>1. /\ seq \in [Ends -> Nat] /\ nRead \in [Ends -> Nat]
      /\ split \in [Ends -> {"read", "write", "fin", "done"}]
      /\ \A e \in Ends : SplitterOK(e)
  BY DEF BondInv, TypeOK, SplitTypes
<1> USE <1>1 DEF splitVars, Progress, SplitterOK
<1>2. CASE UNCHANGED <<seq, nRead, split>>
  BY <1>2
<1>3. ASSUME NEW e \in Ends, SplitRead(e) PROVE SplitterOK(x)' /\ Progress(x)
  BY <1>3 DEF SplitRead
<1>4. ASSUME NEW e \in Ends, SplitReadErr(e) PROVE SplitterOK(x)' /\ Progress(x)
  BY <1>4 DEF SplitReadErr
<1>5. ASSUME NEW e \in Ends, SplitSkip(e) PROVE SplitterOK(x)' /\ Progress(x)
  BY <1>5 DEF SplitSkip
<1>6. ASSUME NEW e \in Ends, SplitWrite(e) PROVE SplitterOK(x)' /\ Progress(x)
  BY <1>6 DEF SplitWrite
<1>7. ASSUME NEW e \in Ends, SplitFin(e) PROVE SplitterOK(x)' /\ Progress(x)
  BY <1>7 DEF SplitFin
<1>8. \/ UNCHANGED <<seq, nRead, split>>
      \/ \E e \in Ends : SplitRead(e) \/ Splitter(e)
  <2> USE DEF splitVars
  <2>1. UNCHANGED vars => UNCHANGED <<seq, nRead, split>>
    BY DEF vars
  <2>2. AppEof \/ AfterFunc \/ ReassembleReturns \/ ServeClose \/ ClientFinish
          => UNCHANGED <<seq, nRead, split>>
    BY DEF AppEof, AfterFunc, ReassembleReturns, ServeClose, ClientFinish
  <2>3. \A e \in Ends : AppGone(e) => UNCHANGED <<seq, nRead, split>>
    BY DEF AppGone
  <2>4. \A l \in Breakable : LaneBreak(l) => UNCHANGED <<seq, nRead, split>>
    BY DEF LaneBreak
  <2>5. \A e \in Ends, l \in Lanes : LaneReader(e, l) => UNCHANGED <<seq, nRead, split>>
    BY DEF LaneReader, LaneRead, LaneReadErr, LaneSend, LaneDrop, LaneLeave
  <2>6. \A e \in Ends : Reorderer(e) => UNCHANGED <<seq, nRead, split>>
    BY DEF Reorderer, ReorderRecv, ReorderOverflow, ReorderFlush, ReorderWriteErr,
           ReorderFin, ReorderStop
  <2> QED BY <2>1, <2>2, <2>3, <2>4, <2>5, <2>6, Zenon DEF Next
<1> QED BY <1>2, <1>3, <1>4, <1>5, <1>6, <1>7, <1>8 DEF Splitter

\* A good frame stays good.
LEMMA GoodStays ==
  ASSUME BondInv, [Next]_vars, NEW e \in Ends
  PROVE  GoodFrames(e) \subseteq GoodFrames(e)'
<1>1. seq[e] \in Nat /\ seq'[e] \in Nat
  BY TypeStep DEF BondInv, TypeOK, SplitTypes
<1>2. Progress(e)
  BY SplitterStep
<1> SUFFICES ASSUME NEW f \in GoodFrames(e) PROVE f \in GoodFrames(e)'
  OBVIOUS
<1>3. f \in Frame /\ f.seq \in Nat
  BY DEF GoodFrames, Frame
<1> QED BY <1>1, <1>2, <1>3 DEF GoodFrames, Progress

-----------------------------------------------------------------------------
(* The frames on their way.                                                *)

\* A sequence over a set is one over a larger set.
LEMMA SeqMono ==
  ASSUME NEW S, NEW T, S \subseteq T, NEW q \in Seq(S)
  PROVE  q \in Seq(T)
<1>1. \A i \in 1..Len(q) : q[i] \in T
  OBVIOUS
<1> QED BY <1>1

\* Every frame on its way stays one the splitter can have written.
LEMMA FramesStep ==
  ASSUME BondInv, [Next]_vars, NEW x \in Ends
  PROVE  FramesOK(x)'
<1> DEFINE H == GoodFrames(x)'
           y == Peer(x)
           Goal == /\ \A l \in Lanes : net'[x][l] \in Seq(H) /\ hand'[y][l] \subseteq H
                   /\ recv'[y] \in Seq(H)
<1>1. /\ y \in Ends /\ y # x /\ Peer(y) = x
      /\ \A e \in Ends : e = x \/ e = y
  BY Peers
<1>2. /\ net \in [Ends -> [Lanes -> Seq(Frame)]]
      /\ hand \in [Ends -> [Lanes -> SUBSET Frame]]
      /\ recv \in [Ends -> Seq(Frame)]
  BY DEF BondInv, TypeOK, LaneTypes, ReaderTypes
<1>3. /\ \A l \in Lanes : net[x][l] \in Seq(H) /\ hand[y][l] \subseteq H
      /\ recv[y] \in Seq(H)
  <2>1. FramesOK(x) /\ GoodFrames(x) \subseteq H
    BY GoodStays DEF BondInv
  <2>2. \A q \in Seq(GoodFrames(x)) : q \in Seq(H)
    BY <2>1, SeqMono
  <2> QED BY <2>1, <2>2 DEF FramesOK
<1>4. SUFFICES Goal
  BY DEF FramesOK
<1> HIDE DEF H, y
<1> USE DEF laneVars, readerVars
<1>5. CASE UNCHANGED <<net, hand, recv>>
  BY <1>3, <1>5
<1>6. ASSUME NEW l \in Breakable, LaneBreak(l) PROVE Goal
  <2>1. l \in Lanes
    BY BondAssumption
  <2>2. PICK i \in 0..Len(net["client"][l]), j \in 0..Len(net["server"][l]) :
          net' = [net EXCEPT !["client"][l] = SubSeq(@, 1, i),
                             !["server"][l] = SubSeq(@, 1, j)]
    BY <1>6 DEF LaneBreak
  <2>3. \A k \in 0..Len(net[x][l]) : SubSeq(net[x][l], 1, k) \in Seq(H)
    BY <1>3, <2>1
  <2>4. \A m \in Lanes : net'[x][m] \in Seq(H)
    BY <1>2, <1>3, <2>1, <2>2, <2>3 DEF Ends
  <2> QED BY <1>3, <1>6, <2>4 DEF LaneBreak
<1>7. ASSUME NEW e \in Ends, SplitWrite(e) PROVE Goal
  <2> DEFINE l == laneIdx[e] + 1
             f == Data(seq[e], nRead[e] - 1)
  <2>1. l \in Lanes
    BY NextLaneType DEF BondInv, TypeOK, SplitTypes
  <2>2. CASE e = x
    <3>1. nRead[x] = seq[x] + 1 /\ seq[x] \in Nat /\ seq'[x] = seq[x] + 1
      BY <1>7, <2>2 DEF SplitWrite, BondInv, SplitterOK, TypeOK, SplitTypes
    <3>2. f \in H
      BY <2>2, <3>1, FrameType DEF H, GoodFrames, Data
    <3>3. Append(net[x][l], f) \in Seq(H)
      BY <1>3, <2>1, <3>2
    <3>4. \A m \in Lanes : net'[x][m] \in Seq(H)
      BY <1>2, <1>3, <1>7, <2>1, <2>2, <3>3 DEF SplitWrite, WriteFrame
    <3> QED BY <1>3, <1>7, <3>4 DEF SplitWrite
  <2>3. CASE e # x
    <3>1. net'[x] = net[x]
      BY <1>2, <1>7, <2>3 DEF SplitWrite, WriteFrame
    <3> QED BY <1>3, <1>7, <3>1 DEF SplitWrite
  <2> QED BY <2>2, <2>3
<1>8. ASSUME NEW e \in Ends, SplitFin(e) PROVE Goal
  <2> DEFINE l == tries[e] + 1
             f == Fin(seq[e])
  <2>1. l \in Lanes
    BY <1>8, BondAssumption DEF SplitFin, BondInv, TypeOK, SplitTypes, Lanes
  <2>2. CASE net' = net
    BY <1>3, <1>8, <2>2 DEF SplitFin
  <2>3. CASE WriteFrame(e, l, f) /\ e = x
    <3>1. /\ nRead[x] = seq[x] /\ seq[x] \in Nat
          /\ UNCHANGED <<seq, nRead>> /\ split'[x] \in {"fin", "done"}
      BY <1>8, <2>3 DEF SplitFin, BondInv, SplitterOK, TypeOK, SplitTypes
    <3>2. f \in H
      BY <2>3, <3>1, FrameType DEF H, GoodFrames, Fin
    <3>3. Append(net[x][l], f) \in Seq(H)
      BY <1>3, <2>1, <3>2
    <3>4. \A m \in Lanes : net'[x][m] \in Seq(H)
      BY <1>2, <1>3, <2>1, <2>3, <3>3 DEF WriteFrame
    <3> QED BY <1>3, <1>8, <3>4 DEF SplitFin
  <2>4. CASE WriteFrame(e, l, f) /\ e # x
    <3>1. net'[x] = net[x]
      BY <1>2, <2>4 DEF WriteFrame
    <3> QED BY <1>3, <1>8, <3>1 DEF SplitFin
  <2> QED BY <1>8, <2>2, <2>3, <2>4 DEF SplitFin
<1>9. ASSUME NEW e \in Ends, NEW l \in Lanes, LaneRead(e, l) PROVE Goal
  <2>1. CASE e = y
    <3> DEFINE q == net[x][l]
    <3>1. q \in Seq(H) /\ q # <<>> /\ net' = [net EXCEPT ![x][l] = Tail(q)]
      BY <1>1, <1>3, <1>9, <2>1 DEF LaneRead
    <3>2. Head(q) \in H /\ Tail(q) \in Seq(H)
      BY <3>1
    <3>3. \A m \in Lanes : net'[x][m] \in Seq(H)
      BY <1>2, <1>3, <3>1, <3>2
    <3>4. CASE recv' = [recv EXCEPT ![e] = Append(@, Head(q))] /\ hand' = hand
      BY <1>2, <1>3, <2>1, <3>2, <3>3, <3>4
    <3>5. CASE hand' = [hand EXCEPT ![e][l] = {Head(q)}] /\ recv' = recv
      BY <1>2, <1>3, <2>1, <3>2, <3>3, <3>5
    <3> QED BY <1>1, <1>9, <2>1, <3>4, <3>5 DEF LaneRead
  <2>2. CASE e = x
    <3>1. net'[x] = net[x]
      BY <1>1, <1>2, <1>9, <2>2, Peers DEF LaneRead
    <3>2. recv'[y] = recv[y] /\ hand'[y] = hand[y]
      BY <1>1, <1>2, <1>9, <2>2 DEF LaneRead
    <3> QED BY <1>3, <3>1, <3>2
  <2> QED BY <1>1, <2>1, <2>2
<1>10. ASSUME NEW e \in Ends, NEW l \in Lanes, LaneSend(e, l) PROVE Goal
  <2>1. PICK f \in hand[e][l] : recv' = [recv EXCEPT ![e] = Append(@, f)]
    BY <1>10 DEF LaneSend
  <2>2. \A m \in Lanes : hand'[y][m] \subseteq H
    BY <1>1, <1>2, <1>3, <1>10 DEF LaneSend
  <2>3. recv'[y] \in Seq(H)
    BY <1>1, <1>2, <1>3, <2>1
  <2> QED BY <1>3, <1>10, <2>2, <2>3 DEF LaneSend
<1>11. ASSUME NEW e \in Ends, NEW l \in Lanes, LaneDrop(e, l) PROVE Goal
  <2>1. \A m \in Lanes : hand'[y][m] \subseteq H
    BY <1>1, <1>2, <1>3, <1>11 DEF LaneDrop
  <2> QED BY <1>3, <1>11, <2>1 DEF LaneDrop
<1>12. ASSUME NEW l \in Lanes, LaneLeave(l) PROVE Goal
  <2>1. net["client"][l] # <<>> /\ net' = [net EXCEPT !["client"][l] = Tail(@)]
    BY <1>12 DEF LaneLeave
  <2>2. x = "client" => Tail(net[x][l]) \in Seq(H)
    BY <1>3, <2>1
  <2>3. \A m \in Lanes : net'[x][m] \in Seq(H)
    BY <1>2, <1>3, <2>1, <2>2 DEF Ends
  <2> QED BY <1>3, <1>12, <2>3 DEF LaneLeave
<1>13. ASSUME NEW e \in Ends, ReorderRecv(e) \/ ReorderOverflow(e) PROVE Goal
  <2>1. recv[e] # <<>> /\ recv' = [recv EXCEPT ![e] = Tail(@)] /\ UNCHANGED <<net, hand>>
    BY <1>13 DEF ReorderRecv, ReorderOverflow
  <2>2. recv'[y] \in Seq(H)
    BY <1>1, <1>2, <1>3, <2>1
  <2> QED BY <1>3, <2>1, <2>2
<1>14. CASE ServeClose \/ ClientFinish
  <2>1. \A m \in Lanes : net'[x][m] = net[x][m] \/ net'[x][m] = <<>>
    BY <1>2, <1>14 DEF ServeClose, ClientFinish, Ends
  <2>2. \A m \in Lanes : net'[x][m] \in Seq(H)
    BY <1>3, <2>1, EmptySeq
  <2> QED BY <1>3, <1>14, <2>2 DEF ServeClose, ClientFinish
<1>15. UNCHANGED vars => UNCHANGED <<net, hand, recv>>
  BY DEF vars
<1>16. AppEof \/ AfterFunc \/ ReassembleReturns => UNCHANGED <<net, hand, recv>>
  BY DEF AppEof, AfterFunc, ReassembleReturns
<1>17. \A e \in Ends :
         AppGone(e) \/ SplitRead(e) \/ SplitReadErr(e) \/ SplitSkip(e)
           => UNCHANGED <<net, hand, recv>>
  BY DEF AppGone, SplitRead, SplitReadErr, SplitSkip
<1>18. \A e \in Ends :
         ReorderFlush(e) \/ ReorderWriteErr(e) \/ ReorderFin(e) \/ ReorderStop(e)
           => UNCHANGED <<net, hand, recv>>
  BY DEF ReorderFlush, ReorderWriteErr, ReorderFin, ReorderStop
<1>19. \A e \in Ends, l \in Lanes : LaneReadErr(e, l) => UNCHANGED <<net, hand, recv>>
  BY DEF LaneReadErr
<1> QED
  BY <1>5, <1>6, <1>7, <1>8, <1>9, <1>10, <1>11, <1>12, <1>13, <1>14, <1>15, <1>16, <1>17,
     <1>18, <1>19, Zenon
  DEF Next, Splitter, LaneReader, Reorderer

-----------------------------------------------------------------------------
(* Reassembly.                                                             *)

\* The reorder of an end keeps track of the other end's stream.
LEMMA ReorderStep ==
  ASSUME BondInv, [Next]_vars, NEW x \in Ends
  PROVE  ReorderOK(x, Peer(x))'
<1> DEFINE y == Peer(x)
<1>1. /\ y \in Ends /\ y # x /\ Peer(y) = x
      /\ \A e \in Ends : e = x \/ e = y
  BY Peers
<1>2. /\ seq[x] \in Nat /\ nRead[x] \in Nat /\ seq'[x] \in Nat /\ nRead'[x] \in Nat
      /\ expect \in [Ends -> Nat] /\ finSeq \in [Ends -> SUBSET Nat]
      /\ reorder \in [Ends -> {"recv", "flush", "fin", "stop"}]
      /\ written \in [Ends -> Seq(Nat)]
      /\ DOMAIN pending = Ends /\ DOMAIN pending[y] \subseteq Nat
  BY <1>1, TypeStep DEF BondInv, TypeOK, SplitTypes, ReorderTypes
<1>3. Progress(x) /\ SplitterOK(x) /\ FramesOK(x) /\ ReorderOK(x, y)
  BY SplitterStep DEF BondInv
<1> SUFFICES ReorderOK(x, y)'
  OBVIOUS
<1> HIDE DEF y
\* Progress of the other end's splitter does no harm.
<1>4. ASSUME UNCHANGED <<expect, pending, finSeq, written>>,
             reorder'[y] = reorder[y] \/ reorder'[y] = "stop"
      PROVE  ReorderOK(x, y)'
  BY <1>2, <1>3, <1>4 DEF ReorderOK, Progress
<1>5. ASSUME NEW e \in Ends, ReorderRecv(e) \/ ReorderFlush(e) \/ ReorderFin(e)
      PROVE  UNCHANGED <<seq, nRead, split>>
  BY <1>5 DEF ReorderRecv, ReorderFlush, ReorderFin, splitVars
<1>6. ASSUME NEW e \in Ends, e # y, ReorderRecv(e) \/ ReorderFlush(e) \/ ReorderFin(e)
      PROVE  ReorderOK(x, y)'
  <2>1. /\ expect'[y] = expect[y] /\ pending'[y] = pending[y] /\ finSeq'[y] = finSeq[y]
        /\ written'[y] = written[y] /\ reorder'[y] = reorder[y]
    BY <1>1, <1>2, <1>6 DEF ReorderRecv, ReorderFlush, ReorderFin
  <2> QED BY <1>3, <1>5, <1>6, <2>1 DEF ReorderOK
<1>7. CASE ReorderRecv(y)
  <2> DEFINE f == Head(recv[y])
  <2>1. recv[y] \in Seq(GoodFrames(x)) /\ recv[y] # <<>>
    BY <1>3, <1>7 DEF FramesOK, ReorderRecv, y
  <2>2. f \in GoodFrames(x)
    BY <2>1
  <2>3. UNCHANGED <<seq, nRead, split, expect, written>> /\ reorder[y] = "recv"
    BY <1>1, <1>5, <1>7 DEF ReorderRecv
  <2>4. CASE f.type = "DATA"
    <3>1. /\ pending' = [pending EXCEPT ![y] = Put(@, f)]
          /\ reorder' = [reorder EXCEPT ![y] = IF f.seq = expect[y] THEN "flush" ELSE "recv"]
          /\ finSeq' = finSeq
      BY <1>7, <2>4 DEF ReorderRecv
    <3>2. f.data = f.seq /\ f.seq < seq[x]
      BY <2>2, <2>4 DEF GoodFrames
    <3>3. /\ DOMAIN pending'[y] = DOMAIN pending[y] \cup {f.seq}
          /\ \A s \in DOMAIN pending'[y] :
               pending'[y][s] = IF s = f.seq THEN f.data ELSE pending[y][s]
      BY <1>1, <1>2, <3>1 DEF Put
    <3>4. reorder'[y] = IF f.seq = expect[y] THEN "flush" ELSE "recv"
      BY <1>1, <1>2, <3>1
    <3> QED BY <1>2, <1>3, <2>3, <3>1, <3>2, <3>3, <3>4 DEF ReorderOK
  <2>5. CASE f.type = "FIN"
    <3>1. /\ finSeq' = (IF \A v \in finSeq[y] : f.seq < v
                        THEN [finSeq EXCEPT ![y] = {f.seq}] ELSE finSeq)
          /\ UNCHANGED <<pending, reorder>>
      BY <1>7, <2>5 DEF ReorderRecv
    <3>2. f.seq = seq[x] /\ seq[x] = nRead[x] /\ split[x] \in {"fin", "done"}
      BY <2>2, <2>5 DEF GoodFrames
    <3>3. \A v \in finSeq'[y] : v = f.seq \/ v \in finSeq[y]
      BY <1>1, <1>2, <3>1
    <3> QED BY <1>2, <1>3, <2>3, <3>1, <3>2, <3>3 DEF ReorderOK
  <2> QED BY <2>2, <2>4, <2>5 DEF GoodFrames, Frame
<1>8. CASE ReorderFlush(y)
  <2>1. /\ expect[y] \in DOMAIN pending[y] /\ pending[y][expect[y]] = expect[y]
        /\ expect[y] < seq[x] /\ reorder[y] = "flush"
    BY <1>3, <1>8 DEF ReorderFlush, ReorderOK
  <2>2. /\ expect'[y] = expect[y] + 1 /\ finSeq' = finSeq
        /\ written'[y] = Append(written[y], expect[y])
        /\ reorder'[y] = IF expect[y] + 1 \in DOMAIN pending[y] THEN "flush" ELSE "recv"
    BY <1>1, <1>2, <1>8, <2>1 DEF ReorderFlush
  <2>3. /\ DOMAIN pending'[y] = DOMAIN pending[y] \ {expect[y]}
        /\ \A s \in DOMAIN pending'[y] : pending'[y][s] = pending[y][s]
    BY <1>1, <1>2, <1>8 DEF ReorderFlush
  <2>4. /\ Len(written'[y]) = expect'[y]
        /\ \A i \in 1..Len(written'[y]) : written'[y][i] = i - 1
    <3>1. /\ Len(written[y]) = expect[y] /\ written[y] \in Seq(Nat) /\ expect[y] \in Nat
          /\ \A i \in 1..Len(written[y]) : written[y][i] = i - 1
      BY <1>1, <1>2, <1>3 DEF ReorderOK
    <3> QED BY <2>2, <3>1
  <2>5. UNCHANGED <<seq, nRead, split>>
    BY <1>1, <1>5, <1>8
  <2>6. \A s \in DOMAIN pending'[y] : pending'[y][s] = s /\ s < seq'[x]
    BY <1>3, <2>3, <2>5 DEF ReorderOK
  <2>7. expect[y] + 1 \in DOMAIN pending[y] => expect'[y] \in DOMAIN pending'[y]
    BY <1>1, <1>2, <2>2, <2>3
  <2>8. expect'[y] <= seq'[x]
    BY <1>1, <1>2, <2>1, <2>2, <2>5
  <2> QED BY <1>3, <2>2, <2>4, <2>5, <2>6, <2>7, <2>8 DEF ReorderOK
<1>9. CASE ReorderFin(y)
  <2>1. PICK v \in finSeq[y] : IF y = "client" THEN expect[y] >= v ELSE expect[y] = v
    BY <1>9 DEF ReorderFin, FinReached
  <2>2. /\ v = seq[x] /\ seq[x] = nRead[x] /\ split[x] \in {"fin", "done"}
        /\ expect[y] <= seq[x] /\ expect[y] \in Nat
    BY <1>1, <1>2, <1>3 DEF ReorderOK
  <2>3. expect[y] = nRead[x]
    BY <1>2, <2>1, <2>2
  <2>4. reorder'[y] = "fin" /\ UNCHANGED <<expect, pending, finSeq, written>>
    BY <1>1, <1>2, <1>9 DEF ReorderFin
  <2>5. UNCHANGED <<seq, nRead, split>>
    BY <1>1, <1>5, <1>9
  <2> QED BY <1>3, <2>2, <2>3, <2>4, <2>5 DEF ReorderOK
<1>10. ASSUME NEW e \in Ends, ReorderOverflow(e) \/ ReorderWriteErr(e) \/ ReorderStop(e)
       PROVE  ReorderOK(x, y)'
  <2>1. UNCHANGED <<expect, pending, finSeq, written>>
    BY <1>10 DEF ReorderOverflow, ReorderWriteErr, ReorderStop
  <2>2. reorder'[y] = reorder[y] \/ reorder'[y] = "stop"
    BY <1>1, <1>2, <1>10 DEF ReorderOverflow, ReorderWriteErr, ReorderStop
  <2> QED BY <1>4, <2>1, <2>2
<1> USE DEF reorderVars
<1> DEFINE Same == UNCHANGED <<expect, pending, finSeq, written, reorder>>
<1>11. UNCHANGED vars => Same
  BY DEF vars
<1>12. AppEof \/ AfterFunc \/ ReassembleReturns \/ ServeClose \/ ClientFinish => Same
  BY DEF AppEof, AfterFunc, ReassembleReturns, ServeClose, ClientFinish
<1>13. \A e \in Ends : AppGone(e) \/ SplitRead(e) \/ Splitter(e) => Same
  BY DEF AppGone, SplitRead, Splitter, SplitReadErr, SplitSkip, SplitWrite, SplitFin
<1>14. \A l \in Breakable : LaneBreak(l) => Same
  BY DEF LaneBreak
<1>15. \A e \in Ends, l \in Lanes : LaneReader(e, l) => Same
  BY DEF LaneReader, LaneRead, LaneReadErr, LaneSend, LaneDrop, LaneLeave
<1>16. CASE Same
  BY <1>4, <1>16
<1> HIDE DEF Same
<1> QED
  BY <1>1, <1>6, <1>7, <1>8, <1>9, <1>10, <1>11, <1>12, <1>13, <1>14, <1>15, <1>16, Zenon
  DEF Next, Reorderer

-----------------------------------------------------------------------------
(* The theorems.                                                           *)

\* The invariant holds at the start and every step keeps it.
LEMMA InvInit == Init => BondInv
<1> SUFFICES ASSUME Init PROVE BondInv
  OBVIOUS
<1>1. TypeOK
  BY TypeInit
<1>2. ASSUME NEW e \in Ends
      PROVE  SplitterOK(e) /\ FramesOK(e) /\ ReorderOK(e, Peer(e))
  <2>1. SplitterOK(e)
    BY <1>2 DEF Init, SplitterOK
  <2>2. FramesOK(e)
    BY <1>2, Peers, EmptySeq DEF Init, FramesOK
  <2>3. pending[Peer(e)] = <<>> /\ finSeq[Peer(e)] = {} /\ written[Peer(e)] = <<>>
    BY <1>2, Peers DEF Init
  <2>4. reorder[Peer(e)] = "recv" /\ expect[Peer(e)] = 0 /\ seq[e] = 0
    BY <1>2, Peers DEF Init
  <2> QED BY <2>1, <2>2, <2>3, <2>4 DEF ReorderOK
<1> QED BY <1>1, <1>2 DEF BondInv

LEMMA InvStep == BondInv /\ [Next]_vars => BondInv'
BY TypeStep, SplitterStep, FramesStep, ReorderStep DEF BondInv

\* The inductive invariant holds for every number of lanes, every capacity and
\* any number of chunks: the numbers splitToLanes gives tie each frame to its chunk
\* until reorder has written it.
THEOREM BondInvariance == Spec => []BondInv
<1>1. Init => BondInv
  BY InvInit
<1>2. BondInv /\ [Next]_vars => BondInv'
  BY InvStep
<1> QED BY <1>1, <1>2, PTL DEF Spec

\* The variables of both ends keep their types: writeNextLane always indexes a
\* lane, and its loops and the FIN loop try each lane at most once.
THEOREM TypeCorrect == Spec => []TypeOK
<1>1. BondInv => TypeOK
  BY DEF BondInv
<1> QED BY <1>1, BondInvariance, PTL

\* A reorder that ended at the FIN has written the whole stream, however the lanes
\* were scheduled and whichever of them failed.
THEOREM FinMeansComplete == Spec => []FinComplete
<1>1. BondInv => FinComplete
  BY Peers DEF BondInv, ReorderOK, FinComplete
<1> QED BY <1>1, BondInvariance, PTL

\* What a step does to the stream of x, as the two local sockets see it.
LEMMA StreamStep ==
  ASSUME BondInv, [Next]_vars, NEW x \in Ends, NEW y \in Ends, y = Peer(x)
  PROVE  \/ nRead'[x] = nRead[x] /\ written'[y] = written[y]
         \/ nRead'[x] = nRead[x] + 1 /\ written'[y] = written[y]
         \/ /\ nRead'[x] = nRead[x]
            /\ \E k \in 1..(nRead[x] - Len(written[y])) :
                 written'[y] = written[y] \o [i \in 1..k |-> Len(written[y]) + i - 1]
<1> DEFINE Goal == \/ nRead'[x] = nRead[x] /\ written'[y] = written[y]
                   \/ nRead'[x] = nRead[x] + 1 /\ written'[y] = written[y]
                   \/ /\ nRead'[x] = nRead[x]
                      /\ \E k \in 1..(nRead[x] - Len(written[y])) :
                           written'[y] = written[y] \o [i \in 1..k |-> Len(written[y]) + i - 1]
<1>1. nRead \in [Ends -> Nat] /\ written \in [Ends -> Seq(Nat)] /\ expect[y] \in Nat
  BY DEF BondInv, TypeOK, SplitTypes, ReorderTypes
<1>2. SplitterOK(x) /\ ReorderOK(x, y)
  BY DEF BondInv
<1> USE DEF splitVars, reorderVars
<1>3. ASSUME UNCHANGED <<nRead, written>> PROVE Goal
  BY <1>3
<1>4. ASSUME NEW e \in Ends, SplitRead(e) PROVE Goal
  BY <1>1, <1>4 DEF SplitRead
<1>5. ASSUME NEW e \in Ends, ReorderFlush(e) PROVE Goal
  <2>1. nRead' = nRead
    BY <1>5 DEF ReorderFlush
  <2>2. CASE e # y
    BY <1>1, <1>5, <2>1, <2>2 DEF ReorderFlush
  <2>3. CASE e = y
    <3>1. /\ pending[y][expect[y]] = expect[y] /\ expect[y] < seq[x]
          /\ Len(written[y]) = expect[y] /\ seq[x] <= nRead[x]
      BY <1>2, <1>5, <2>3 DEF ReorderFlush, ReorderOK, SplitterOK
    <3>2. written'[y] = Append(written[y], Len(written[y]))
      BY <1>1, <1>5, <2>3, <3>1 DEF ReorderFlush
    <3>3. 1 \in 1..(nRead[x] - Len(written[y]))
      BY <1>1, <3>1 DEF BondInv, TypeOK, SplitTypes
    <3>4. Append(written[y], Len(written[y]))
            = written[y] \o [i \in 1..1 |-> Len(written[y]) + i - 1]
      <4>1. written[y] \in Seq(Nat) /\ Len(written[y]) \in Nat
        BY <1>1
      <4> QED BY <4>1
    <3> QED BY <2>1, <3>2, <3>3, <3>4
  <2> QED BY <2>2, <2>3
<1>6. UNCHANGED vars => UNCHANGED <<nRead, written>>
  BY DEF vars
<1>7. AppEof \/ AfterFunc \/ ReassembleReturns \/ ServeClose \/ ClientFinish
        => UNCHANGED <<nRead, written>>
  BY DEF AppEof, AfterFunc, ReassembleReturns, ServeClose, ClientFinish
<1>8. \A e \in Ends : AppGone(e) \/ Splitter(e) => UNCHANGED <<nRead, written>>
  BY DEF AppGone, Splitter, SplitReadErr, SplitSkip, SplitWrite, SplitFin
<1>9. \A l \in Breakable : LaneBreak(l) => UNCHANGED <<nRead, written>>
  BY DEF LaneBreak
<1>10. \A e \in Ends, l \in Lanes : LaneReader(e, l) => UNCHANGED <<nRead, written>>
  BY DEF LaneReader, LaneRead, LaneReadErr, LaneSend, LaneDrop, LaneLeave
<1>11. \A e \in Ends :
         ReorderRecv(e) \/ ReorderOverflow(e) \/ ReorderWriteErr(e) \/ ReorderFin(e)
           \/ ReorderStop(e) => UNCHANGED <<nRead, written>>
  BY DEF ReorderRecv, ReorderOverflow, ReorderWriteErr, ReorderFin, ReorderStop
<1> HIDE DEF Goal
<1>12. Goal
  BY <1>3, <1>4, <1>5, <1>6, <1>7, <1>8, <1>9, <1>10, <1>11, Zenon DEF Next, Reorderer
<1> QED BY <1>12 DEF Goal

\* Seen from the two local sockets a bonded connection is a reliable stream in
\* each direction: a read of the splitter is Read, a write of reorder is Write,
\* and every other step stutters.
THEOREM Implements == Spec => ReliableSpec
<1>1. Init => Up!Init /\ Down!Init
  <2>1. <<>> = [i \in 1..0 |-> i - 1]
    OBVIOUS
  <2>2. ASSUME Init PROVE /\ nRead["client"] = 0 /\ written["server"] = <<>>
                          /\ nRead["server"] = 0 /\ written["client"] = <<>>
    BY <2>2 DEF Init, Ends
  <2> QED BY <2>1, <2>2 DEF Up!Init, Down!Init
<1>2. BondInv /\ [Next]_vars => [Up!Read \/ Up!Write]_<<nRead["client"], written["server"]>>
  <2> SUFFICES ASSUME BondInv, [Next]_vars
               PROVE  [Up!Read \/ Up!Write]_<<nRead["client"], written["server"]>>
    OBVIOUS
  <2>1. "client" \in Ends /\ "server" \in Ends /\ "server" = Peer("client")
    BY DEF Ends, Peer
  <2> QED BY <2>1, StreamStep DEF Up!Read, Up!Write
<1>3. BondInv /\ [Next]_vars => [Down!Read \/ Down!Write]_<<nRead["server"], written["client"]>>
  <2> SUFFICES ASSUME BondInv, [Next]_vars
               PROVE  [Down!Read \/ Down!Write]_<<nRead["server"], written["client"]>>
    OBVIOUS
  <2>1. "server" \in Ends /\ "client" \in Ends /\ "client" = Peer("server")
    BY DEF Ends, Peer
  <2> QED BY <2>1, StreamStep DEF Down!Read, Down!Write
<1> QED BY <1>1, <1>2, <1>3, BondInvariance, PTL DEF Spec, ReliableSpec, Up!Spec, Down!Spec

=============================================================================
