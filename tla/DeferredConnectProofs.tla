----------------------- MODULE DeferredConnectProofs -----------------------
(***************************************************************************)
(* NoLeak for any number of streams, fragments, request workers and        *)
(* workers of the processor, any limits, and any number of late copies,    *)
(* resets and closes.  The queues of the processor do not matter for it:   *)
(* what matters is that a stream leaves the session only after its         *)
(* connection was taken from it (CloserInv), and that a new stream can     *)
(* take its ID only after that.                                            *)
(***************************************************************************)
EXTENDS DeferredConnect, TLAPS

Stream == [gen : Nat, there : BOOLEAN, closed : BOOLEAN, conn : 0 .. NWorkers]
Closing == {"idle", "close", "remove", "note", "clear", "lane"}
Task == [pc : WorkerPCs, pkt : Packets \cup {NoPacket}, gen : Nat]
Request == [pc : {"idle", "enqueue", "ack"}, pkt : Packets \cup {NoPacket}]

\* The types of what the property is about; a goroutine that is at work has a packet.
Types ==
  /\ strm \in [Streams -> Stream] /\ closer \in [Streams -> Closing]
  /\ sess \in {"active", "closed", "cleared", "swept", "done"}
  /\ worker \in [Workers -> Task] /\ \A w \in Workers : ~At(w, "idle") => worker[w].pkt \in Packets
  /\ handler \in [Handlers -> Request]
  /\ \A h \in Handlers : handler[h].pc # "idle" => handler[h].pkt \in Packets
  /\ open \subseteq Streams \X Nat \X Workers

\* A stream that is being closed is in the session until it is removed, and has lost its
\* connection by then.
CloserInv ==
  \A s \in Streams :
    /\ closer[s] \in {"close", "remove"} => strm[s].there \/ RecordClosed
    /\ closer[s] = "remove" => strm[s].closed

IInv == Types /\ CloserInv /\ NoLeak

-----------------------------------------------------------------------------
(* The goroutines.                                                         *)

\* The workers, and what they work on.
WorkersOK ==
  worker \in [Workers -> Task] /\ \A w \in Workers : ~At(w, "idle") => worker[w].pkt \in Packets
HandlersOK ==
  /\ handler \in [Handlers -> Request]
  /\ \A h \in Handlers : handler[h].pc # "idle" => handler[h].pkt \in Packets

\* A worker that is at a task goes on with it.
LEMMA GotoTyped ==
  ASSUME Types, NEW w \in Workers, ~At(w, "idle"), NEW pc \in WorkerPCs, Goto(w, pc)
  PROVE  WorkersOK'
BY DEF Types, WorkersOK, Goto, At, Task

\* A worker becomes idle, or takes a task.
LEMMA TaskTyped ==
  ASSUME Types, NEW w \in Workers, NEW t \in Task, worker' = [worker EXCEPT ![w] = t],
         t.pc # "idle" => t.pkt \in Packets
  PROVE  WorkersOK'
BY DEF Types, WorkersOK, At

\* A request worker takes a packet, or is done with it.
LEMMA RequestTyped ==
  ASSUME Types, NEW h \in Handlers, NEW r \in Request, handler' = [handler EXCEPT ![h] = r],
         r.pc # "idle" => r.pkt \in Packets
  PROVE  HandlersOK'
BY DEF Types, HandlersOK

\* The lane of a task is a stream.
LEMMA LaneOf ==
  ASSUME Types, NEW w \in Workers, ~At(w, "idle")
  PROVE  /\ Lane(w) \in Streams /\ worker[w].gen \in Nat /\ worker[w] \in Task
         /\ Held(w) = <<Lane(w), worker[w].gen, w>> /\ Held(w) \in Streams \X Nat \X Workers
<1>1. worker[w].pkt \in Packets /\ worker[w] \in Task  BY DEF Types
<1>2. Lane(w) \in Streams /\ worker[w].gen \in Nat  BY <1>1 DEF Lane, Packets, Task
<1> QED BY <1>1, <1>2 DEF Held, Conn

-----------------------------------------------------------------------------
(* The streams.                                                            *)

\* The steps of the processor and of the request workers that touch no stream.
LEMMA Quiet ==
  ASSUME IInv, UNCHANGED <<strm, closer, sess, open>>, WorkersOK', HandlersOK'
  PROVE  IInv'
BY DEF IInv, Types, CloserInv, NoLeak, WorkersOK, HandlersOK, RecordClosed

\* A closer moves on without touching its stream.
LEMMA CloserMoves ==
  ASSUME IInv, UNCHANGED <<strm, sess, open, worker, handler>>, NEW s \in Streams,
         NEW pc \in Closing, closer' = [closer EXCEPT ![s] = pc],
         pc # "remove", pc = "close" => strm[s].there
  PROVE  IInv'
BY DEF IInv, Types, CloserInv, NoLeak, RecordClosed, At

\* A stream is created: there was none with its ID, so no connection belongs to it.
LEMMA StreamMade ==
  ASSUME IInv, NEW s \in Streams, GetOrCreateStream(s), UNCHANGED <<closer, sess, open>>,
         WorkersOK', HandlersOK'
  PROVE  IInv'
<1>1. CASE strm' = strm  BY <1>1, Quiet
<1>2. CASE /\ ~strm[s].there /\ ~RecordClosed
           /\ strm' = [strm EXCEPT ![s] = [gen |-> @.gen + 1, there |-> TRUE,
                                           closed |-> FALSE, conn |-> 0]]
  <2>1. strm[s] \in Stream  BY DEF IInv, Types
  <2>2. PICK n : n = [gen |-> strm[s].gen + 1, there |-> TRUE, closed |-> FALSE, conn |-> 0]
    OBVIOUS
  <2>3. NWorkers \in Nat  BY DeferredAssumption
  <2>4. n \in Stream  BY <2>1, <2>2, <2>3 DEF Stream
  <2>5. strm' = [strm EXCEPT ![s] = n]  BY <1>2, <2>2
  <2>6. Types'  BY <2>4, <2>5 DEF IInv, Types, WorkersOK, HandlersOK
  <2>7. CloserInv'
    <3>1. closer[s] \notin {"close", "remove"}  BY <1>2 DEF IInv, CloserInv
    <3> QED BY <2>5, <3>1 DEF IInv, Types, CloserInv, RecordClosed
  <2>8. NoLeak'
    <3>1. \A c \in open : c[1] \in Streams /\ c[1] # s  BY <1>2 DEF IInv, Types, NoLeak
    <3> QED BY <2>5, <3>1 DEF IInv, Types, NoLeak
  <2> QED BY <2>6, <2>7, <2>8 DEF IInv
<1> QED BY <1>1, <1>2 DEF GetOrCreateStream, StreamFor

\* A dial ends: the connection goes to the stream the task has, which is there and open.
LEMMA DialEnds ==
  ASSUME IInv, NEW w \in Workers, DialOK(w)
  PROVE  IInv'
<1>0. ~At(w, "idle") /\ UNCHANGED <<closer, sess, handler>>  BY DEF DialOK, At
<1>1. HandlersOK'  BY <1>0 DEF IInv, Types, HandlersOK
<1>2. WorkersOK'
  <2>1. \E pc \in WorkerPCs : Goto(w, pc)  BY DEF DialOK, WorkerPCs
  <2> QED BY <1>0, <2>1, GotoTyped DEF IInv
<1>3. CASE UNCHANGED <<strm, open>>  BY <1>0, <1>1, <1>2, <1>3, Quiet
<1>4. CASE /\ Attachable(w) /\ strm' = [strm EXCEPT ![Lane(w)].conn = w]
           /\ open' = open \cup {Held(w)}
  <2>0. PICK s : s = Lane(w)  OBVIOUS
  <2>1. /\ s \in Streams /\ Held(w) = <<s, worker[w].gen, w>>
        /\ Held(w) \in Streams \X Nat \X Workers
    BY <1>0, <2>0, LaneOf DEF IInv
  <2>2. /\ sess = "active" /\ strm[s].there /\ strm[s].gen = worker[w].gen /\ ~strm[s].closed
        /\ strm[s].conn = 0
    BY <1>4, <2>0 DEF Attachable, RecordClosed
  <2>3. strm[s] \in Stream /\ w \in 0 .. NWorkers
    <3>1. NWorkers \in Nat  BY DeferredAssumption
    <3> QED BY <2>1, <3>1 DEF IInv, Types, Workers
  <2>4. PICK n : n = [strm[s] EXCEPT !.conn = w]  OBVIOUS
  <2>5. /\ n \in Stream /\ n.gen = strm[s].gen /\ n.there = strm[s].there
        /\ n.closed = strm[s].closed /\ n.conn = w
    BY <2>3, <2>4 DEF Stream
  <2>6. strm' = [strm EXCEPT ![s] = n]  BY <1>4, <2>0, <2>4
  <2>7. Types'
    <3>1. strm' \in [Streams -> Stream]  BY <2>5, <2>6 DEF IInv, Types
    <3>2. open' \subseteq Streams \X Nat \X Workers  BY <1>4, <2>1 DEF IInv, Types
    <3> QED BY <1>0, <1>1, <1>2, <3>1, <3>2 DEF IInv, Types, WorkersOK, HandlersOK
  <2>8. CloserInv'  BY <1>0, <2>1, <2>5, <2>6 DEF IInv, Types, CloserInv, RecordClosed
  <2>9. NoLeak'
    <3>1. \A c \in open : c[1] \in Streams /\ c[3] \in Workers  BY DEF IInv, Types
    <3>2. \A c \in open : c[1] # s
      <4>1. 0 \notin Workers  BY DeferredAssumption DEF Workers
      <4> QED BY <2>2, <3>1, <4>1 DEF IInv, NoLeak
    <3>3. \A c \in open : strm'[c[1]] = strm[c[1]]  BY <2>6, <3>1, <3>2 DEF IInv, Types
    <3>4. strm'[s] = n /\ Held(w)[1] = s /\ Held(w)[2] = worker[w].gen /\ Held(w)[3] = w
      BY <2>1, <2>6 DEF IInv, Types
    <3>5. sess' = "active"  BY <1>0, <2>2
    <3>6. ASSUME NEW c \in open'
          PROVE  /\ strm'[c[1]].there /\ ~strm'[c[1]].closed
                 /\ strm'[c[1]].gen = c[2] /\ strm'[c[1]].conn = c[3]
      <4>1. CASE c \in open  BY <3>3, <4>1 DEF IInv, NoLeak
      <4>2. CASE c = Held(w)  BY <2>2, <2>5, <3>4, <4>2
      <4> QED BY <1>4, <4>1, <4>2
    <3> QED BY <3>5, <3>6 DEF NoLeak
  <2> QED BY <2>7, <2>8, <2>9 DEF IInv
<1> QED BY <1>3, <1>4 DEF DialOK

\* A connection is closed by the task that dialled it, or stays.
LEMMA Served ==
  ASSUME IInv, NEW w \in Workers, Serve(w)
  PROVE  IInv'
<1>0. ~At(w, "idle") /\ UNCHANGED <<strm, closer, sess, handler>> /\ open' \subseteq open
  BY DEF Serve, At, streamVars
<1>1. WorkersOK'
  <2>1. Goto(w, "finalize") /\ "finalize" \in WorkerPCs  BY DEF Serve, WorkerPCs
  <2> QED BY <1>0, <2>1, GotoTyped DEF IInv
<1> QED BY <1>0, <1>1 DEF IInv, Types, CloserInv, NoLeak, WorkersOK, RecordClosed

\* cleanupResources takes the connection from the stream and closes it.
LEMMA Cleaned ==
  ASSUME IInv, NEW s \in Streams, CleanupResources(s)
  PROVE  IInv'
<1>0. /\ strm' = [strm EXCEPT ![s].closed = TRUE, ![s].conn = 0] /\ open' = open \ {ConnOf(s)}
      /\ closer[s] = "close" /\ closer' = [closer EXCEPT ![s] = "remove"]
      /\ UNCHANGED <<sess, worker, handler>>
  BY DEF CleanupResources, CloserVars
<1>1. strm[s] \in Stream /\ 0 \in 0 .. NWorkers
  <2>1. NWorkers \in Nat  BY DeferredAssumption
  <2> QED BY <2>1 DEF IInv, Types
<1>2. PICK n : n = [strm[s] EXCEPT !.closed = TRUE, !.conn = 0]  OBVIOUS
<1>3. n \in Stream /\ n.there = strm[s].there /\ n.closed  BY <1>1, <1>2 DEF Stream
<1>4. strm' = [strm EXCEPT ![s] = n]  BY <1>0, <1>2 DEF IInv, Types
<1>5. Types'
  <2>1. strm' \in [Streams -> Stream]  BY <1>3, <1>4 DEF IInv, Types
  <2>2. closer' \in [Streams -> Closing]  BY <1>0 DEF IInv, Types, Closing
  <2> QED BY <1>0, <2>1, <2>2 DEF IInv, Types, At
<1>6. CloserInv'  BY <1>0, <1>3, <1>4 DEF IInv, Types, CloserInv, RecordClosed
<1>7. NoLeak'
  <2>1. \A c \in open : c = <<c[1], c[2], c[3]>> /\ c[1] \in Streams  BY DEF IInv, Types
  <2>2. \A c \in open : c[1] = s => c = ConnOf(s)  BY <2>1 DEF IInv, NoLeak, ConnOf, Conn
  <2>3. \A c \in open' : c \in open /\ c[1] \in Streams /\ c[1] # s  BY <1>0, <2>1, <2>2
  <2>4. \A c \in open' : strm'[c[1]] = strm[c[1]]  BY <1>4, <2>3 DEF IInv, Types
  <2> QED BY <1>0, <2>3, <2>4 DEF IInv, NoLeak
<1> QED BY <1>5, <1>6, <1>7 DEF IInv

\* A stream that is removed has no connection any more.
LEMMA Removed ==
  ASSUME IInv, NEW s \in Streams, RemoveStream(s)
  PROVE  IInv'
<1>0. /\ closer[s] = "remove" /\ UNCHANGED <<open, sess, worker, handler>>
      /\ strm[s].closed /\ strm[s] \in Stream
  BY DEF RemoveStream, CloserVars, IInv, CloserInv, Types
<1>1. PICK pc \in {"note", "clear"} : closer' = [closer EXCEPT ![s] = pc]  BY DEF RemoveStream
<1>2. CASE strm' = strm  BY <1>0, <1>1, <1>2, CloserMoves DEF Closing
<1>3. CASE strm' = [strm EXCEPT ![s].there = FALSE]
  <2>1. PICK n : n = [strm[s] EXCEPT !.there = FALSE]  OBVIOUS
  <2>2. n \in Stream  BY <1>0, <2>1 DEF Stream
  <2>3. strm' = [strm EXCEPT ![s] = n]  BY <1>3, <2>1 DEF IInv, Types
  <2>4. Types'
    <3>1. strm' \in [Streams -> Stream]  BY <2>2, <2>3 DEF IInv, Types
    <3>2. closer' \in [Streams -> Closing]  BY <1>1 DEF IInv, Types, Closing
    <3> QED BY <1>0, <3>1, <3>2 DEF IInv, Types, At
  <2>5. CloserInv'  BY <1>0, <1>1, <2>3 DEF IInv, Types, CloserInv, RecordClosed
  <2>6. NoLeak'
    <3>1. \A c \in open : c[1] \in Streams /\ c[1] # s  BY <1>0 DEF IInv, Types, NoLeak
    <3>2. \A c \in open : strm'[c[1]] = strm[c[1]]  BY <2>3, <3>1 DEF IInv, Types
    <3> QED BY <1>0, <3>2 DEF IInv, NoLeak
  <2> QED BY <2>4, <2>5, <2>6 DEF IInv
<1> QED BY <1>2, <1>3 DEF RemoveStream

\* The teardown of the session.
LEMMA Teardown ==
  ASSUME IInv, CloseSession \/ TeardownStep
  PROVE  IInv'
<1>0. UNCHANGED <<closer, worker, handler>>
  BY DEF CloseSession, TeardownStep, ClearSession, CloseAllStreams, CleanupDeferredSession,
         streamVars
<1>1. CASE CloseSession
  BY <1>0, <1>1 DEF CloseSession, streamVars, IInv, Types, CloserInv, NoLeak, RecordClosed, At
<1>2. CASE ClearSession
  BY <1>0, <1>2 DEF ClearSession, streamVars, IInv, Types, CloserInv, NoLeak, RecordClosed, At
<1>3. CASE CloseAllStreams
  <2>1. /\ sess = "cleared" /\ sess' = "swept" /\ open' = open \ {ConnOf(s) : s \in There}
        /\ strm' = [s \in Streams |-> IF s \in There
                                        THEN [strm[s] EXCEPT !.closed = TRUE, !.conn = 0]
                                        ELSE strm[s]]
    BY <1>3 DEF CloseAllStreams
  <2>2. \A x \in Stream : [x EXCEPT !.closed = TRUE, !.conn = 0] \in Stream
    <3>1. 0 \in 0 .. NWorkers  BY DeferredAssumption
    <3> QED BY <3>1 DEF Stream
  <2>3. strm' \in [Streams -> Stream]  BY <2>1, <2>2 DEF IInv, Types
  <2>4. \A s \in Streams : strm[s].closed => strm'[s].closed
    <3>1. \A x \in Stream : [x EXCEPT !.closed = TRUE, !.conn = 0].closed  BY DEF Stream
    <3> QED BY <2>1, <3>1 DEF IInv, Types
  <2>5. open' = {}
    <3>1. \A c \in open : c = <<c[1], c[2], c[3]>> /\ c[1] \in Streams  BY DEF IInv, Types
    <3>2. \A c \in open : c[1] \in There /\ c = ConnOf(c[1])
      BY <3>1 DEF IInv, NoLeak, There, ConnOf, Conn
    <3> QED BY <2>1, <3>2
  <2>6. Types'  BY <1>0, <2>1, <2>3, <2>5 DEF IInv, Types, At
  <2>7. CloserInv'  BY <1>0, <2>1, <2>4 DEF IInv, CloserInv, RecordClosed
  <2> QED BY <2>5, <2>6, <2>7 DEF IInv, NoLeak
<1>4. CASE CleanupDeferredSession
  <2>1. /\ sess = "swept" /\ sess' = "done" /\ open' = open
        /\ strm' = [s \in Streams |-> [strm[s] EXCEPT !.there = FALSE]]
    BY <1>4 DEF CleanupDeferredSession
  <2>2. \A x \in Stream : /\ [x EXCEPT !.there = FALSE] \in Stream
                          /\ [x EXCEPT !.there = FALSE].closed = x.closed
    BY DEF Stream
  <2>3. strm' \in [Streams -> Stream] /\ \A s \in Streams : strm'[s].closed = strm[s].closed
    BY <2>1, <2>2 DEF IInv, Types
  <2>4. open = {}  BY <2>1 DEF IInv, NoLeak
  <2>5. Types'  BY <1>0, <2>1, <2>3, <2>4 DEF IInv, Types, At
  <2>6. CloserInv'  BY <1>0, <2>1, <2>3 DEF IInv, CloserInv, RecordClosed
  <2> QED BY <2>1, <2>4, <2>5, <2>6 DEF IInv, NoLeak
<1> QED BY <1>1, <1>2, <1>3, <1>4 DEF TeardownStep

-----------------------------------------------------------------------------
(* The steps.                                                              *)

\* The client, and the resets.
LEMMA ClientStep ==
  ASSUME IInv, NEW s \in Streams, OpenStream(s) \/ ResetStream(s) \/ ReceiveRst(s) \/ ARQFails(s)
  PROVE  IInv'
<1>0. UNCHANGED <<strm, sess, open, worker, handler>>
  BY DEF OpenStream, ResetStream, ReceiveRst, ARQFails, streamVars, CloserVars
<1>1. CASE closer' = closer
  <2>1. WorkersOK' /\ HandlersOK'  BY <1>0 DEF IInv, Types, WorkersOK, HandlersOK, At
  <2> QED BY <1>0, <1>1, <2>1, Quiet
<1>2. CASE strm[s].there /\ closer' = [closer EXCEPT ![s] = "close"]
  BY <1>0, <1>2, CloserMoves DEF Closing
<1> QED BY <1>1, <1>2 DEF OpenStream, ResetStream, ReceiveRst, ARQFails, streamVars

\* The request workers.
LEMMA RequestStep ==
  ASSUME IInv, NEW h \in Handlers, (\E p \in Packets : ReceiveSyn(h, p)) \/ HandlerStep(h)
  PROVE  IInv'
<1>0. UNCHANGED <<closer, sess, open, worker>>
  BY DEF ReceiveSyn, HandlerStep, EnqueueDeferred, QueueAck, streamVars
<1>1. WorkersOK'  BY <1>0 DEF IInv, Types, WorkersOK, At
<1>2. CASE \E p \in Packets : ReceiveSyn(h, p)
  <2>1. PICK p \in Packets : ReceiveSyn(h, p)  BY <1>2
  <2>2. /\ strm' = strm
        /\ \/ handler' = handler
           \/ \E pc \in {"ack", "enqueue"} : handler' = [handler EXCEPT ![h] = [pc |-> pc, pkt |-> p]]
    BY <2>1 DEF ReceiveSyn, streamVars
  <2>3. HandlersOK'
    <3>1. CASE handler' = handler  BY <3>1 DEF IInv, Types, HandlersOK
    <3>2. ASSUME NEW pc \in {"ack", "enqueue"}, handler' = [handler EXCEPT ![h] = [pc |-> pc, pkt |-> p]]
          PROVE  HandlersOK'
      <4>1. PICK r : r = [pc |-> pc, pkt |-> p]  OBVIOUS
      <4>2. r \in Request /\ r.pkt \in Packets  BY <4>1 DEF Request
      <4> QED BY <3>2, <4>1, <4>2, RequestTyped DEF IInv
    <3> QED BY <2>2, <3>1, <3>2
  <2> QED BY <1>0, <1>1, <2>2, <2>3, Quiet
<1>3. CASE EnqueueDeferred(h)
  <2>1. /\ strm' = strm /\ handler[h].pc = "enqueue"
        /\ \/ handler' = [handler EXCEPT ![h] = [@ EXCEPT !.pc = "ack"]]
           \/ handler' = [handler EXCEPT ![h] = [pc |-> "idle", pkt |-> NoPacket]]
    BY <1>3 DEF EnqueueDeferred, streamVars
  <2>2. handler[h] \in Request /\ handler[h].pkt \in Packets  BY <2>1 DEF IInv, Types
  <2>3. /\ [handler[h] EXCEPT !.pc = "ack"] \in Request
        /\ [handler[h] EXCEPT !.pc = "ack"].pkt \in Packets
    BY <2>2 DEF Request
  <2>4. [pc |-> "idle", pkt |-> NoPacket] \in Request  BY DEF Request
  <2>5. HandlersOK'
    <3>1. CASE handler' = [handler EXCEPT ![h] = [@ EXCEPT !.pc = "ack"]]
      <4>1. PICK r : r = [handler[h] EXCEPT !.pc = "ack"]  OBVIOUS
      <4>2. handler' = [handler EXCEPT ![h] = r]  BY <3>1, <4>1
      <4> QED BY <2>3, <4>1, <4>2, RequestTyped DEF IInv
    <3>2. CASE handler' = [handler EXCEPT ![h] = [pc |-> "idle", pkt |-> NoPacket]]
      <4>1. PICK r : r = [pc |-> "idle", pkt |-> NoPacket]  OBVIOUS
      <4> QED BY <2>4, <3>2, <4>1, RequestTyped DEF IInv
    <3> QED BY <2>1, <3>1, <3>2
  <2> QED BY <1>0, <1>1, <2>1, <2>5, Quiet
<1>4. CASE QueueAck(h)
  <2>1. PICK r : r = [pc |-> "idle", pkt |-> NoPacket]  OBVIOUS
  <2>2. r \in Request /\ r.pc = "idle"  BY <2>1 DEF Request
  <2>3. handler' = [handler EXCEPT ![h] = r]  BY <1>4, <2>1 DEF QueueAck
  <2>4. HandlersOK'  BY <2>2, <2>3, RequestTyped DEF IInv
  <2>5. PICK s : s = handler[h].pkt[1]  OBVIOUS
  <2>6. GetOrCreateStream(s)  BY <1>4, <2>5 DEF QueueAck
  <2>7. s \in Streams
    <3>1. handler[h].pkt \in Packets  BY <1>4 DEF QueueAck, IInv, Types
    <3> QED BY <2>5, <3>1 DEF Packets
  <2> QED BY <1>0, <1>1, <2>4, <2>6, <2>7, StreamMade
<1> QED BY <1>2, <1>3, <1>4 DEF HandlerStep

\* The workers of the processor.
LEMMA WorkStep ==
  ASSUME IInv, NEW w \in Workers, WorkerStep(w)
  PROVE  IInv'
<1>0. UNCHANGED <<closer, sess, handler>>
  BY DEF WorkerStep, Take, Begin, Execute, GetStream, DialOK, DialFails, Serve,
         FinalizeTracked, FinalizeQueued, FinishDeferred, Finish, streamVars
<1>1. HandlersOK'  BY <1>0 DEF IInv, Types, HandlersOK
<1>2. CASE \E p \in Packets : Take(w, p)
  <2>1. PICK p \in Packets : Take(w, p)  BY <1>2
  <2>2. PICK t : t = [pc |-> "begin", pkt |-> p, gen |-> 0]  OBVIOUS
  <2>3. t \in Task /\ t.pkt \in Packets  BY <2>2 DEF Task, WorkerPCs
  <2>4. worker' = [worker EXCEPT ![w] = t] /\ UNCHANGED <<strm, open>>
    BY <2>1, <2>2 DEF Take, streamVars
  <2> QED BY <1>0, <1>1, <2>3, <2>4, TaskTyped, Quiet DEF IInv
<1>3. CASE \/ Begin(w) \/ Execute(w) \/ DialFails(w)
           \/ FinalizeTracked(w) \/ FinalizeQueued(w) \/ FinishDeferred(w)
  <2>1. ~At(w, "idle") /\ UNCHANGED <<strm, open>>
    BY <1>3 DEF Begin, Execute, DialFails, FinalizeTracked, FinalizeQueued, FinishDeferred, At,
       streamVars
  <2>2. \E pc \in WorkerPCs : Goto(w, pc)
    BY <1>3 DEF Begin, Execute, DialFails, FinalizeTracked, FinalizeQueued, FinishDeferred,
       WorkerPCs
  <2> QED BY <1>0, <1>1, <2>1, <2>2, GotoTyped, Quiet DEF IInv
<1>4. CASE GetStream(w)
  <2>1. ~At(w, "idle") /\ open' = open /\ GetOrCreateStream(Lane(w))  BY <1>4 DEF GetStream, At
  <2>2. CASE \E pc \in WorkerPCs : Goto(w, pc)
    <3>1. WorkersOK'  BY <2>1, <2>2, GotoTyped DEF IInv
    <3>2. Lane(w) \in Streams  BY <2>1, LaneOf DEF IInv, Types
    <3> QED BY <1>0, <1>1, <2>1, <3>1, <3>2, StreamMade
  <2>3. CASE worker' = [worker EXCEPT ![w].pc = "dial", ![w].gen = strm'[Lane(w)].gen]
    <3>1. PICK s : s = Lane(w)  OBVIOUS
    <3>2. s \in Streams /\ worker[w] \in Task /\ worker[w].pkt \in Packets
      BY <2>1, <3>1, LaneOf DEF IInv, Types
    <3>3. GetOrCreateStream(s)  BY <2>1, <3>1
    <3>4. strm'[s].gen \in Nat
      <4>1. strm \in [Streams -> Stream]  BY DEF IInv, Types
      <4>2. strm[s].gen \in Nat  BY <3>2, <4>1 DEF Stream
      <4> QED BY <3>2, <3>3, <4>1, <4>2 DEF GetOrCreateStream
    <3>5. PICK t : t = [worker[w] EXCEPT !.pc = "dial", !.gen = strm'[s].gen]  OBVIOUS
    <3>6. t \in Task /\ t.pkt \in Packets  BY <3>2, <3>4, <3>5 DEF Task, WorkerPCs
    <3>7. worker' = [worker EXCEPT ![w] = t]  BY <2>3, <3>1, <3>5 DEF IInv, Types
    <3>8. WorkersOK'  BY <3>6, <3>7, TaskTyped DEF IInv
    <3> QED BY <1>0, <1>1, <2>1, <3>2, <3>3, <3>8, StreamMade
  <2> QED BY <1>4, <2>2, <2>3 DEF GetStream, WorkerPCs
<1>5. CASE DialOK(w)  BY <1>5, DialEnds
<1>6. CASE Serve(w)  BY <1>6, Served
<1>7. CASE Finish(w)
  <2>1. PICK t : t = [pc |-> "idle", pkt |-> NoPacket, gen |-> 0]  OBVIOUS
  <2>2. t \in Task /\ t.pc = "idle"  BY <2>1 DEF Task, WorkerPCs
  <2>3. worker' = [worker EXCEPT ![w] = t] /\ UNCHANGED <<strm, open>>
    BY <1>7, <2>1 DEF Finish, streamVars
  <2> QED BY <1>0, <1>1, <2>2, <2>3, TaskTyped, Quiet DEF IInv
<1> QED BY <1>2, <1>3, <1>4, <1>5, <1>6, <1>7 DEF WorkerStep

\* The goroutine that closes a stream.
LEMMA ClosingStep ==
  ASSUME IInv, NEW s \in Streams, CloserStep(s)
  PROVE  IInv'
<1>1. CASE CleanupResources(s)  BY <1>1, Cleaned
<1>2. CASE RemoveStream(s)  BY <1>2, Removed
<1>3. CASE NoteStreamClosed(s) \/ ClearTracked(s) \/ ClearLane(s)
  <2>1. UNCHANGED <<strm, sess, open, worker, handler>>
    BY <1>3 DEF NoteStreamClosed, ClearTracked, ClearLane, CloserVars
  <2>2. PICK pc \in {"clear", "lane", "idle"} : closer' = [closer EXCEPT ![s] = pc]
    BY <1>3 DEF NoteStreamClosed, ClearTracked, ClearLane
  <2> QED BY <2>1, <2>2, CloserMoves DEF Closing
<1> QED BY <1>1, <1>2, <1>3 DEF CloserStep

\* The server starts with a session without streams and without tasks.
LEMMA InitIInv == Init => IInv
<1> SUFFICES ASSUME Init  PROVE IInv
  OBVIOUS
<1>1. strm \in [Streams -> Stream]  BY DeferredAssumption DEF Init, Stream
<1>2. worker \in [Workers -> Task] /\ \A w \in Workers : At(w, "idle")
  BY DEF Init, Task, WorkerPCs, At
<1>3. handler \in [Handlers -> Request] /\ \A h \in Handlers : handler[h].pc = "idle"
  BY DEF Init, Request
<1>4. closer \in [Streams -> Closing] /\ \A s \in Streams : closer[s] = "idle"
  BY DEF Init, Closing
<1>5. sess = "active" /\ open = {}  BY DEF Init
<1> QED BY <1>1, <1>2, <1>3, <1>4, <1>5 DEF IInv, Types, CloserInv, NoLeak

-----------------------------------------------------------------------------
(* The table of recently closed streams.                                   *)

RecentOK == recentlyClosed \subseteq Streams

\* Only streams are in it (noteStreamClosed).
LEMMA RecentTyped == Spec => []RecentOK
<1>1. Init => RecentOK  BY DEF Init, RecentOK
<1>2. RecentOK /\ [Next]_vars => RecentOK'
  <2> SUFFICES ASSUME RecentOK, [Next]_vars  PROVE RecentOK'
    OBVIOUS
  <2>1. CASE UNCHANGED recentlyClosed  BY <2>1 DEF RecentOK
  <2>2. CASE \E s \in Streams : NoteStreamClosed(s)  BY <2>2 DEF RecentOK, NoteStreamClosed
  <2>3. CASE \E h \in Handlers : QueueAck(h)
    BY <2>3 DEF RecentOK, QueueAck, GetOrCreateStream
  <2>4. CASE \E w \in Workers : GetStream(w)
    BY <2>4 DEF RecentOK, GetStream, GetOrCreateStream
  <2>5. CASE \E s \in Streams : OpenStream(s) \/ ResetStream(s) \/ ReceiveRst(s) \/ ARQFails(s)
    BY <2>1, <2>5 DEF OpenStream, ResetStream, ReceiveRst, ARQFails, streamVars
  <2>6. CASE \E h \in Handlers, p \in Packets : ReceiveSyn(h, p)
    BY <2>1, <2>6 DEF ReceiveSyn, streamVars
  <2>7. CASE \E h \in Handlers : HandlerStep(h)
    BY <2>1, <2>3, <2>7 DEF HandlerStep, EnqueueDeferred, streamVars
  <2>8. CASE \E w \in Workers : WorkerStep(w)
    BY <2>1, <2>4, <2>8 DEF WorkerStep, Take, Begin, Execute, DialOK, DialFails, Serve,
       FinalizeTracked, FinalizeQueued, FinishDeferred, Finish, streamVars
  <2>9. CASE \E s \in Streams : CloserStep(s)
    BY <2>1, <2>2, <2>9 DEF CloserStep, CleanupResources, RemoveStream, ClearTracked, ClearLane
  <2>10. CASE CloseSession \/ TeardownStep
    BY <2>1, <2>10 DEF CloseSession, TeardownStep, ClearSession, CloseAllStreams,
       CleanupDeferredSession, streamVars
  <2>11. CASE UNCHANGED vars  BY <2>1, <2>11 DEF vars, streamVars
  <2> QED BY <2>5, <2>6, <2>7, <2>8, <2>9, <2>10, <2>11 DEF Next
<1> QED BY <1>1, <1>2, PTL DEF Spec

-----------------------------------------------------------------------------
(* The theorems.                                                           *)

\* The strengthened invariant: the streams, the goroutines that close them and the open
\* connections belong together in every reachable state.
THEOREM Invariance == Spec => []IInv
<1>1. IInv /\ [Next]_vars => IInv'
  <2> SUFFICES ASSUME IInv, [Next]_vars  PROVE IInv'
    OBVIOUS
  <2>1. CASE \E s \in Streams : OpenStream(s) \/ ResetStream(s) \/ ReceiveRst(s) \/ ARQFails(s)
    BY <2>1, ClientStep
  <2>2. CASE \/ \E h \in Handlers, p \in Packets : ReceiveSyn(h, p)
             \/ \E h \in Handlers : HandlerStep(h)
    BY <2>2, RequestStep
  <2>3. CASE \E w \in Workers : WorkerStep(w)  BY <2>3, WorkStep
  <2>4. CASE \E s \in Streams : CloserStep(s)  BY <2>4, ClosingStep
  <2>5. CASE CloseSession \/ TeardownStep  BY <2>5, Teardown
  <2>6. CASE UNCHANGED vars
    <3>1. UNCHANGED <<strm, closer, sess, open, worker, handler>>  BY <2>6 DEF vars, streamVars
    <3>2. WorkersOK' /\ HandlersOK'  BY <3>1 DEF IInv, Types, WorkersOK, HandlersOK, At
    <3> QED BY <3>1, <3>2, Quiet
  <2> QED BY <2>1, <2>2, <2>3, <2>4, <2>5, <2>6 DEF Next
<1> QED BY <1>1, InitIInv, PTL DEF Spec

\* No upstream connection is ever lost, whatever reset, close or teardown its dial raced
\* with (attachUpstreamConn, cleanupResources, closeAllStreams).
THEOREM ConnectionsKept == Spec => []NoLeak
<1>1. IInv => NoLeak  BY DEF IInv
<1> QED BY <1>1, Invariance, PTL

=============================================================================
