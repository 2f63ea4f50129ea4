------------------------ MODULE DeferredMarkProofs -------------------------
(***************************************************************************)
(* MarkedHasTask for any number of streams, fragments, request workers and *)
(* workers, any limits, and any number of late copies, resets and closes.  *)
(* Marks are removed and queued tasks dropped in separate steps, so a SYN  *)
(* may be marked again in between and lose its task.  The proof shows that *)
(* this happens only to a client that has had its answer: a task drops the *)
(* lane of its stream after it answered (Answered), which rests on there   *)
(* being one dial at a time for a client that waits (Dialling), and a      *)
(* stream is closed only after its client has left or was told             *)
(* (Untouched).                                                            *)
(***************************************************************************)
EXTENDS DeferredQueueProofs

Told == {"connected", "failed", "reset"}
Waits(s) == client[s].status = "syn"
Opened(s) == client[s].status # "idle"

\* Whatever the server has of a stream comes from a SYN of its client.
FromClient ==
  /\ \A h \in Handlers : handler[h].pc # "idle" => Opened(handler[h].pkt[1])
  /\ \A w \in Workers : ~At(w, "idle") => Opened(Lane(w))
  /\ \A w \in Workers, t \in Packets : Queued(proc, w, t) => Opened(t[1])
  /\ \A s \in Streams : strm[s].there => Opened(s)
  /\ \A p \in tracked : Opened(p[1])

\* Nothing closes the stream of a client that waits: neither a reset, nor its ARQ, nor the
\* end of the session.
Untouched ==
  \A s \in Streams :
    client[s].status \in {"idle", "syn"} =>
      /\ sess = "active" /\ closer[s] = "idle" /\ ~strm[s].closed /\ s \notin recentlyClosed
      /\ ~client[s].rst

\* No task of a cancelled lane is queued.
NoneCancelled ==
  \A w \in Workers, t \in Packets : Queued(proc, w, t) => t[1] \notin proc.cancelled

\* A worker that gets the stream, dials, or has the connection, for a client that waits is
\* the only one: the SYN is marked complete, and once it has the stream, that is still the
\* session's and has no other connection.
Dials(w) == worker[w].pc \in {"stream", "dial", "attached"}
Dialling ==
  \A w \in Workers :
    Dials(w) /\ Waits(Lane(w)) =>
      /\ Lane(w) \in store.completed
      /\ ~At(w, "stream") => strm[Lane(w)].there /\ strm[Lane(w)].gen = worker[w].gen
      /\ At(w, "dial") => strm[Lane(w)].conn = 0
      /\ \A v \in Workers : Dials(v) /\ Lane(v) = Lane(w) => v = w

\* A worker that is about to drop the lane of its stream has answered the client.
Answered == \A w \in Workers : worker[w].pc \in {"finalize", "lane"} => ~Waits(Lane(w))

\* A worker that is idle has no packet.
IdleEmpty == \A w \in Workers : At(w, "idle") => worker[w].pkt = NoPacket

MarkInv ==
  /\ FromClient /\ Untouched /\ NoneCancelled /\ Dialling /\ Answered /\ IdleEmpty
  /\ MarkedHasTask

\* What is known already.
Known == IInv /\ RecentOK /\ ProcInv /\ RestOK

-----------------------------------------------------------------------------
(* The client only goes forward.                                           *)

\* A status changes to one the client was told, or chose.
Forward ==
  \A s \in Streams : /\ client'[s].status = client[s].status \/ client'[s].status \in Told
                     /\ client'[s].rst => client[s].rst \/ client'[s].status \in Told

\* An answer is such a change, and ends the wait.
LEMMA AnswerForward ==
  ASSUME RestOK, NEW s \in Streams, NEW x \in Told, client' = Answer(client, s, x)
  PROVE  Forward /\ ~Waits(s)'
<1>1. client \in [Streams -> Client]  BY DEF RestOK
<1>2. CASE client[s].status # "syn"  BY <1>2 DEF Answer, Forward, Waits
<1>3. CASE client[s].status = "syn"
  <2>1. client' = [client EXCEPT ![s].status = x]  BY <1>3 DEF Answer
  <2>2. /\ client'[s].status = x /\ client'[s].rst = client[s].rst
        /\ \A t \in Streams : t # s => client'[t] = client[t]
    BY <1>1, <2>1 DEF Client
  <2> QED BY <2>2 DEF Forward, Waits, Told
<1> QED BY <1>2, <1>3

\* The client that does not change goes forward.
LEMMA SameForward ==
  ASSUME client' = client
  PROVE  Forward
BY DEF Forward

\* Every step but the opening of a stream is forward.
LEMMA NextForward ==
  ASSUME Known, Next, ~\E s \in Streams : OpenStream(s)
  PROVE  Forward
<1>0. client \in [Streams -> Client] /\ RestOK /\ IInv  BY DEF Known, RestOK
<1>1. ASSUME NEW s \in Streams, ResetStream(s)  PROVE Forward
  <2>1. client' = [client EXCEPT ![s].status = "reset", ![s].rst = TRUE]
    BY <1>1 DEF ResetStream
  <2>2. client'[s].status = "reset" /\ \A t \in Streams : t # s => client'[t] = client[t]
    BY <1>0, <2>1 DEF Client
  <2> QED BY <2>2 DEF Forward, Told
<1>2. ASSUME NEW s \in Streams, ReceiveRst(s)  PROVE Forward
  <2>1. client' = [client EXCEPT ![s].rst = FALSE]  BY <1>2 DEF ReceiveRst
  <2>2. /\ client'[s].status = client[s].status /\ ~client'[s].rst
        /\ \A t \in Streams : t # s => client'[t] = client[t]
    BY <1>0, <2>1 DEF Client
  <2> QED BY <2>2 DEF Forward
<1>3. ASSUME NEW s \in Streams, ARQFails(s)  PROVE Forward
  BY <1>0, <1>3, AnswerForward DEF ARQFails, Told
<1>4. ASSUME NEW h \in Handlers, NEW p \in Packets, ReceiveSyn(h, p)  PROVE Forward
  <2>1. PICK s \in Streams : s = p[1]  BY DEF Packets
  <2>2. client' = client \/ \E x \in Told : client' = Answer(client, s, x)
    BY <1>4, <2>1 DEF ReceiveSyn, Told
  <2> QED BY <1>0, <2>2, AnswerForward, SameForward
<1>5. ASSUME NEW h \in Handlers, HandlerStep(h)  PROVE Forward
  <2>1. CASE EnqueueDeferred(h)  BY <2>1, SameForward DEF EnqueueDeferred
  <2>2. CASE QueueAck(h)
    <3>1. handler[h].pkt \in Packets  BY <1>0, <2>2 DEF QueueAck, IInv, Types
    <3>2. PICK s \in Streams, f \in Fragments : s = handler[h].pkt[1] /\ f = handler[h].pkt[2]
      BY <3>1 DEF Packets
    <3>3. client' = client \/ client' = [client EXCEPT ![s].acked = @ \cup {f}]
      BY <2>2, <3>2 DEF QueueAck
    <3>4. \A t \in Streams : client'[t].status = client[t].status /\ client'[t].rst = client[t].rst
      BY <1>0, <3>3 DEF Client
    <3> QED BY <3>4 DEF Forward
  <2> QED BY <1>5, <2>1, <2>2 DEF HandlerStep
<1>6. ASSUME NEW w \in Workers, WorkerStep(w)  PROVE Forward
  <2>1. CASE client' = client  BY <2>1, SameForward
  <2>2. CASE ~At(w, "idle") /\ \E x \in Told : client' = Answer(client, Lane(w), x)
    <3>1. PICK s \in Streams : s = Lane(w)  BY <1>0, <2>2, LaneOf DEF IInv
    <3> QED BY <1>0, <2>2, <3>1, AnswerForward
  <2>3. CASE GetStream(w) \/ DialFails(w) \/ Serve(w)
    <3>1. ~At(w, "idle")  BY <2>3 DEF GetStream, DialFails, Serve, At
    <3>2. client' = client \/ \E x \in Told : client' = Answer(client, Lane(w), x)
      BY <2>3 DEF GetStream, DialFails, Serve, Told
    <3> QED BY <2>1, <2>2, <3>1, <3>2
  <2> QED BY <1>6, <2>1, <2>3
          DEF WorkerStep, Take, Begin, Execute, DialOK, FinalizeTracked, FinalizeQueued,
              FinishDeferred, Finish
<1>7. CASE CloseSession
  <2>1. \A s \in Streams : client'[s].status = "reset"  BY <1>7 DEF CloseSession
  <2> QED BY <2>1 DEF Forward, Told
<1>8. CASE TeardownStep \/ \E s \in Streams : CloserStep(s)
  BY <1>8, SameForward DEF TeardownStep, ClearSession, CloseAllStreams, CleanupDeferredSession,
     CloserStep, CleanupResources, RemoveStream, NoteStreamClosed, ClearTracked, ClearLane
<1> QED BY <1>1, <1>2, <1>3, <1>4, <1>5, <1>6, <1>7, <1>8 DEF Next

\* A stream that was opened stays opened, and a client that does not wait never waits again.
LEMMA ForwardStays ==
  ASSUME Forward
  PROVE  /\ \A s \in Streams : Opened(s) => Opened(s)'
         /\ \A s \in Streams : Opened(s) /\ ~Waits(s) => ~Waits(s)'
         /\ \A s \in Streams : Waits(s)' => Waits(s)
BY DEF Forward, Opened, Waits, Told

-----------------------------------------------------------------------------
(* Who changes what.                                                       *)

\* A step of worker w: it takes the first task of its queue, goes on with the task it has, or
\* is done with it.
LEMMA WorkerMoves ==
  ASSUME Known, NEW w \in Workers, WorkerStep(w)
  PROVE  /\ \A v \in Workers : v # w => worker'[v] = worker[v]
         /\ \/ \E p \in Packets : /\ Take(w, p) /\ Queued(proc, w, p) /\ worker'[w].pkt = p
                                  /\ worker'[w].pc = "begin"
            \/ /\ ~At(w, "idle") /\ worker'[w].pkt = worker[w].pkt
               /\ worker'[w].pc \notin {"idle", "begin"}
            \/ ~At(w, "idle") /\ Finish(w) /\ worker'[w].pc = "idle"
<1>0. worker \in [Workers -> Task]  BY DEF Known, IInv, Types
<1>1. CASE \E p \in Packets : Take(w, p)
  <2>1. PICK p \in Packets : Take(w, p)  BY <1>1
  <2>2. PICK t : t = [pc |-> "begin", pkt |-> p, gen |-> 0]  OBVIOUS
  <2>3. worker' = [worker EXCEPT ![w] = t] /\ t.pkt = p /\ t.pc = "begin"  BY <2>1, <2>2 DEF Take
  <2>4. Queued(proc, w, p)
    <3>1. proc.jobs[w] \in Seq(Packets) /\ proc.jobs[w] # <<>> /\ Head(proc.jobs[w]) = p
      BY <2>1 DEF Take, Known, ProcInv, Processor
    <3>2. 1 \in DOMAIN proc.jobs[w] /\ proc.jobs[w][1] = p  BY <3>1
    <3> QED BY <3>2 DEF Queued
  <2> QED BY <1>0, <2>1, <2>3, <2>4
<1>2. CASE Finish(w)
  <2>1. PICK t : t = [pc |-> "idle", pkt |-> NoPacket, gen |-> 0]  OBVIOUS
  <2>2. worker' = [worker EXCEPT ![w] = t] /\ t.pc = "idle" /\ ~At(w, "idle")
    BY <1>2, <2>1 DEF Finish, At
  <2> QED BY <1>0, <1>2, <2>2
<1>3. CASE \E pc : Goto(w, pc) /\ ~At(w, "idle") /\ pc \notin {"idle", "begin"}
  BY <1>0, <1>3 DEF Goto, Task
<1>4. CASE /\ worker' = [worker EXCEPT ![w].pc = "dial", ![w].gen = strm'[Lane(w)].gen]
           /\ ~At(w, "idle")
  BY <1>0, <1>4 DEF Task
<1>5. CASE \/ Begin(w) \/ Execute(w) \/ GetStream(w) \/ DialOK(w) \/ DialFails(w) \/ Serve(w)
           \/ FinalizeTracked(w) \/ FinalizeQueued(w) \/ FinishDeferred(w)
  <2>1. ~At(w, "idle")
    BY <1>5 DEF Begin, Execute, GetStream, DialOK, DialFails, Serve, FinalizeTracked,
       FinalizeQueued, FinishDeferred, At
  <2>2. \/ \E pc \in {"execute", "stream", "untrack", "finalize", "attached", "lane", "finish"} :
             Goto(w, pc)
        \/ worker' = [worker EXCEPT ![w].pc = "dial", ![w].gen = strm'[Lane(w)].gen]
    BY <1>5 DEF Begin, Execute, GetStream, DialOK, DialFails, Serve, FinalizeTracked,
       FinalizeQueued, FinishDeferred
  <2> QED BY <1>3, <1>4, <2>1, <2>2
<1> QED BY <1>1, <1>2, <1>5 DEF WorkerStep

\* No other step changes a worker.
LEMMA OthersMove ==
  ASSUME Next, ~\E w \in Workers : WorkerStep(w)
  PROVE  worker' = worker
BY DEF Next, OpenStream, ResetStream, ReceiveRst, ARQFails, ReceiveSyn, HandlerStep,
   EnqueueDeferred, QueueAck, CloserStep, CleanupResources, RemoveStream, NoteStreamClosed,
   ClearTracked, ClearLane, CloserVars, CloseSession, TeardownStep, ClearSession,
   CloseAllStreams, CleanupDeferredSession

\* The steps that change a request worker.
LEMMA HandlerSteps ==
  ASSUME Next
  PROVE  \/ handler' = handler
         \/ \E h \in Handlers : HandlerStep(h)
         \/ \E h \in Handlers, p \in Packets : ReceiveSyn(h, p)
BY DEF Next, OpenStream, ResetStream, ReceiveRst, ARQFails, WorkerStep, Take, Begin, Execute,
   GetStream, DialOK, DialFails, Serve, FinalizeTracked, FinalizeQueued, FinishDeferred, Finish,
   CloserStep, CleanupResources, RemoveStream, NoteStreamClosed,
   ClearTracked, ClearLane, CloserVars, CloseSession, TeardownStep, ClearSession,
   CloseAllStreams, CleanupDeferredSession

\* The request workers: each keeps its packet, gives it up, or takes that of an open stream.
LEMMA HandlersFrom ==
  ASSUME Known, MarkInv, Next
  PROVE  \A h \in Handlers : handler'[h].pc # "idle" => /\ handler'[h].pkt[1] \in Streams
                                                        /\ Opened(handler'[h].pkt[1])
<1>0. /\ handler \in [Handlers -> Request]
      /\ \A h \in Handlers : handler[h].pc # "idle" =>
           handler[h].pkt[1] \in Streams /\ Opened(handler[h].pkt[1])
  <2>1. \A h \in Handlers : handler[h].pc # "idle" => handler[h].pkt \in Packets
    BY DEF Known, IInv, Types
  <2>2. \A p \in Packets : p[1] \in Streams  BY DEF Packets
  <2> QED BY <2>1, <2>2 DEF Known, IInv, Types, MarkInv, FromClient
<1>1. CASE handler' = handler  BY <1>0, <1>1
<1>2. ASSUME NEW h \in Handlers, NEW p \in Packets, ReceiveSyn(h, p), handler' # handler
      PROVE  \A k \in Handlers : handler'[k].pc # "idle" => /\ handler'[k].pkt[1] \in Streams
                                                            /\ Opened(handler'[k].pkt[1])
  <2>1. p[1] \in Streams /\ Opened(p[1])  BY <1>2 DEF Packets, ReceiveSyn, Opened
  <2>2. \E pc : handler' = [handler EXCEPT ![h] = [pc |-> pc, pkt |-> p]]
    BY <1>2 DEF ReceiveSyn
  <2>3. handler'[h].pkt = p /\ \A k \in Handlers : k # h => handler'[k] = handler[k]
    BY <1>0, <2>2
  <2> QED BY <1>0, <2>1, <2>3
<1>3. ASSUME NEW h \in Handlers, HandlerStep(h)
      PROVE  \A k \in Handlers : handler'[k].pc # "idle" => /\ handler'[k].pkt[1] \in Streams
                                                            /\ Opened(handler'[k].pkt[1])
  <2>1. /\ handler[h].pc # "idle"
        /\ \/ handler' = [handler EXCEPT ![h] = [handler[h] EXCEPT !.pc = "ack"]]
           \/ handler' = [handler EXCEPT ![h] = [pc |-> "idle", pkt |-> NoPacket]]
    BY <1>3 DEF HandlerStep, EnqueueDeferred, QueueAck
  <2>2. \A k \in Handlers : k # h => handler'[k] = handler[k]  BY <1>0, <2>1
  <2>3. handler'[h].pc = "idle" \/ handler'[h].pkt = handler[h].pkt
    BY <1>0, <2>1 DEF Request
  <2> QED BY <1>0, <2>1, <2>2, <2>3
<1> QED BY <1>1, <1>2, <1>3, HandlerSteps

\* The workers: each keeps its packet, gives it up, or takes a queued one.
LEMMA WorkersFrom ==
  ASSUME Known, MarkInv, Next
  PROVE  \A w \in Workers : ~At(w, "idle")' => Lane(w)' \in Streams /\ Opened(Lane(w)')
<1>0. /\ \A w \in Workers : ~At(w, "idle") => Lane(w) \in Streams /\ Opened(Lane(w))
      /\ \A p \in Packets : p[1] \in Streams
  <2>1. \A p \in Packets : p[1] \in Streams  BY DEF Packets
  <2> QED BY <2>1, LaneOf DEF Known, IInv, MarkInv, FromClient
<1>1. CASE worker' = worker  BY <1>0, <1>1 DEF At, Lane
<1>2. ASSUME NEW w \in Workers, WorkerStep(w)
      PROVE  \A v \in Workers : ~At(v, "idle")' => Lane(v)' \in Streams /\ Opened(Lane(v)')
  <2>1. \A v \in Workers : v # w => worker'[v] = worker[v]  BY <1>2, WorkerMoves
  <2>2. \A v \in Workers : v # w => (At(v, "idle")' <=> At(v, "idle")) /\ Lane(v)' = Lane(v)
    BY <2>1 DEF At, Lane
  <2>3. ~At(w, "idle")' => Lane(w)' \in Streams /\ Opened(Lane(w)')
    <3>1. CASE \E p \in Packets : Queued(proc, w, p) /\ worker'[w].pkt = p
      BY <1>0, <3>1 DEF MarkInv, FromClient, Lane
    <3>2. CASE ~At(w, "idle") /\ worker'[w].pkt = worker[w].pkt  BY <1>0, <3>2 DEF Lane
    <3>3. CASE worker'[w].pc = "idle"  BY <3>3 DEF At
    <3> QED BY <1>2, <3>1, <3>2, <3>3, WorkerMoves
  <2> QED BY <1>0, <2>2, <2>3
<1> QED BY <1>1, <1>2, OthersMove

-----------------------------------------------------------------------------
(* What is dropped.                                                        *)

\* The lanes D may be dropped: after the step no SYN of theirs is in flight, or their clients
\* do not wait.
MayDrop(D) == \A s \in D : ~Waits(s)' \/ \A p \in tracked' : p[1] # s

\* The marks of s are gone.
LEMMA UntrackedDrop ==
  ASSUME NEW s, tracked' = Untracked(s)
  PROVE  MayDrop({s})
BY DEF MayDrop, Untracked

\* A client waits only while nothing closes its stream.
LEMMA WaitingUntouched ==
  ASSUME MarkInv, NEW s \in Streams, Waits(s)
  PROVE  /\ sess = "active" /\ closer[s] = "idle" /\ ~strm[s].closed /\ s \notin recentlyClosed
         /\ ~client[s].rst
BY DEF MarkInv, Untouched, Waits

\* The processor keeps its tasks, takes one out of its queue, gets a new one, or drops lanes
\* that may be dropped.
LEMMA ProcMoves ==
  ASSUME Known, MarkInv, Next, Forward
  PROVE  \/ /\ proc'.jobs = proc.jobs /\ proc'.cancelled \subseteq proc.cancelled
            /\ ~\E h \in Handlers : EnqueueDeferred(h) /\ Enqueue(proc, handler[h].pkt).ok
         \/ \E h \in Handlers : EnqueueDeferred(h) /\ Enqueue(proc, handler[h].pkt).ok
         \/ \E w \in Workers, p \in Packets : Take(w, p)
         \/ \E D \in SUBSET Streams : Shrinks(proc, proc', D) /\ MayDrop(D)
<1>0. proc \in Processor /\ IInv /\ RestOK /\ Types  BY DEF Known, ProcInv, IInv
<1>1. CASE \E h \in Handlers : EnqueueDeferred(h)
  <2>1. PICK h \in Handlers : EnqueueDeferred(h)  BY <1>1
  <2>2. PICK t \in Packets : t = handler[h].pkt  BY <1>0, <2>1 DEF EnqueueDeferred, Types
  <2>3. CASE ~Enqueue(proc, t).ok
    <3>1. /\ Enqueue(proc, t).p.jobs = proc.jobs
          /\ Enqueue(proc, t).p.cancelled = proc.cancelled \ {t[1]}
      BY <1>0, <2>3, RunningCount, EnqueueOf DEF Known, ProcInv
    <3>2. proc' = Enqueue(proc, t).p  BY <2>1, <2>2 DEF EnqueueDeferred
    <3> QED BY <3>1, <3>2
  <2> QED BY <2>1, <2>2, <2>3
<1>2. CASE \E w \in Workers, p \in Packets : Take(w, p)  BY <1>2
<1>3. CASE \E w \in Workers : Begin(w)
  <2>1. PICK w \in Workers : Begin(w)  BY <1>3
  <2>2. PICK s \in Streams : s = Lane(w)  BY <1>0, <2>1, LaneOf DEF Begin, At
  <2>3. proc' = BeginTaskContext(proc, s, w)  BY <2>1, <2>2 DEF Begin
  <2>4. proc'.jobs = proc.jobs /\ proc'.cancelled = proc.cancelled
    BY <1>0, <2>3, BeginOf DEF SameTasks
  <2> QED BY <2>4
<1>4. CASE \E w \in Workers : Finish(w)
  <2>1. PICK w \in Workers : Finish(w)  BY <1>4
  <2>2. PICK s \in Streams : s = Lane(w)  BY <1>0, <2>1, LaneOf DEF Finish, At
  <2>3. proc' = FinishLane(proc, s, w)  BY <2>1, <2>2 DEF Finish
  <2>4. proc'.jobs = proc.jobs /\ proc'.cancelled = proc.cancelled \ {s}
    BY <1>0, <2>3, FinishOf
  <2> QED BY <2>4
<1>5. CASE \E w \in Workers : FinalizeQueued(w)
  <2>1. PICK w \in Workers : FinalizeQueued(w)  BY <1>5
  <2>2. PICK s \in Streams : s = Lane(w)  BY <1>0, <2>1, LaneOf DEF FinalizeQueued, At
  <2>3. Shrinks(proc, proc', {s})  BY <1>0, <2>1, <2>2, FinalizeShrinks DEF FinalizeQueued
  <2>4. ~Waits(s) /\ Opened(s)
    BY <2>1, <2>2 DEF FinalizeQueued, MarkInv, Answered, FromClient, At
  <2>5. MayDrop({s})  BY <2>4, ForwardStays DEF MayDrop
  <2> QED BY <2>3, <2>5
<1>6. CASE \E s \in Streams : ClearLane(s)
  <2>1. PICK s \in Streams : ClearLane(s)  BY <1>6
  <2>2. Shrinks(proc, proc', {s})  BY <1>0, <2>1, RemoveShrinks DEF ClearLane
  <2>3. ~Waits(s)  BY <2>1, WaitingUntouched DEF ClearLane
  <2>4. MayDrop({s})  BY <2>3, ForwardStays DEF MayDrop
  <2> QED BY <2>2, <2>4
<1>7. CASE CloseAllStreams \/ CleanupDeferredSession
  <2>1. \A s \in Streams : ~Waits(s)
    BY <1>7, WaitingUntouched DEF CloseAllStreams, CleanupDeferredSession
  <2>2. \A D \in SUBSET Streams : MayDrop(D)  BY <2>1, ForwardStays DEF MayDrop
  <2>3. There \in SUBSET Streams  BY DEF There
  <2>4. Shrinks(proc, proc', There) \/ Shrinks(proc, proc', Streams)
    BY <1>0, <1>7, <2>3, RemoveShrinks, RemoveSessionShrinks
       DEF CloseAllStreams, CleanupDeferredSession
  <2> QED BY <2>2, <2>3, <2>4
<1>8. CASE \E s \in Streams : tracked' = Untracked(s) /\ proc' = RemoveLane(proc, {s})
  BY <1>0, <1>8, RemoveShrinks, UntrackedDrop
<1>9. CASE UNCHANGED proc /\ ~\E h \in Handlers : EnqueueDeferred(h)  BY <1>9
<1>10. CASE \E s \in Streams : OpenStream(s) \/ ResetStream(s) \/ ReceiveRst(s) \/ ARQFails(s)
  <2>1. UNCHANGED proc \/ \E s \in Streams : tracked' = Untracked(s) /\ proc' = RemoveLane(proc, {s})
    BY <1>10 DEF OpenStream, ResetStream, ReceiveRst, ARQFails
  <2> QED BY <1>1, <1>8, <1>9, <2>1
<1>11. CASE \E h \in Handlers, p \in Packets : ReceiveSyn(h, p)
  <2>1. PICK h \in Handlers, p \in Packets : ReceiveSyn(h, p)  BY <1>11
  <2>2. p[1] \in Streams  BY <2>1 DEF Packets
  <2>3. UNCHANGED proc \/ (tracked' = Untracked(p[1]) /\ proc' = RemoveLane(proc, {p[1]}))
    BY <2>1 DEF ReceiveSyn
  <2> QED BY <1>1, <1>8, <1>9, <2>2, <2>3
<1>12. CASE \E h \in Handlers : HandlerStep(h)
  <2>1. UNCHANGED proc \/ \E h \in Handlers : EnqueueDeferred(h)
    BY <1>12 DEF HandlerStep, QueueAck
  <2> QED BY <1>1, <1>9, <2>1
<1>13. CASE \E w \in Workers : WorkerStep(w)
  <2>1. \/ UNCHANGED proc
        \/ \E w \in Workers, p \in Packets : Take(w, p)
        \/ \E w \in Workers : Begin(w) \/ FinalizeQueued(w) \/ Finish(w)
    BY <1>13 DEF WorkerStep, Execute, GetStream, DialOK, DialFails, Serve, FinalizeTracked,
       FinishDeferred
  <2> QED BY <1>1, <1>2, <1>3, <1>4, <1>5, <1>9, <2>1
<1>14. CASE \E s \in Streams : CloserStep(s)
  <2>1. UNCHANGED proc \/ \E s \in Streams : ClearLane(s)
    BY <1>14 DEF CloserStep, CleanupResources, RemoveStream, NoteStreamClosed, ClearTracked
  <2> QED BY <1>1, <1>6, <1>9, <2>1
<1>15. CASE CloseSession \/ TeardownStep
  <2>1. UNCHANGED proc \/ CloseAllStreams \/ CleanupDeferredSession
    BY <1>15 DEF CloseSession, TeardownStep, ClearSession
  <2> QED BY <1>1, <1>7, <1>9, <2>1
<1> QED BY <1>10, <1>11, <1>12, <1>13, <1>14, <1>15 DEF Next

-----------------------------------------------------------------------------
(* The parts of the invariant.                                             *)

\* A task is put in the queue of one worker.
LEMMA EnqueuedOf ==
  ASSUME Known, NEW h \in Handlers, EnqueueDeferred(h), Enqueue(proc, handler[h].pkt).ok
  PROVE  /\ handler[h].pkt \in Packets /\ proc'.cancelled = proc.cancelled \ {handler[h].pkt[1]}
         /\ \E w \in Workers : \A v \in Workers, u \in Packets :
              Queued(proc', v, u) <=> Queued(proc, v, u) \/ (v = w /\ u = handler[h].pkt)
<1>1. PICK t \in Packets : t = handler[h].pkt  BY DEF EnqueueDeferred, Known, IInv, Types
<1>2. proc' = Enqueue(proc, t).p  BY <1>1 DEF EnqueueDeferred
<1>3. /\ Enqueue(proc, t).p.cancelled = proc.cancelled \ {t[1]}
      /\ \E w \in Workers : \A v \in Workers, u \in Packets :
           Queued(Enqueue(proc, t).p, v, u) <=> Queued(proc, v, u) \/ (v = w /\ u = t)
  BY <1>1, RunningCount, EnqueueOf DEF Known, ProcInv
<1> QED BY <1>1, <1>2, <1>3

\* A task is taken from the queue of one worker.
LEMMA TakenOf ==
  ASSUME Known, NEW w \in Workers, NEW p \in Packets, Take(w, p)
  PROVE  /\ proc'.cancelled = proc.cancelled
         /\ \A v \in Workers, u \in Packets :
              /\ Queued(proc', v, u) => Queued(proc, v, u)
              /\ Queued(proc, v, u) => Queued(proc', v, u) \/ (v = w /\ u = p)
<1>1. /\ proc \in Processor /\ proc.jobs[w] # <<>> /\ proc' = [proc EXCEPT !.jobs[w] = Tail(@)]
      /\ Head(proc.jobs[w]) = p
  BY DEF Take, Known, ProcInv
<1> QED BY <1>1, TakeOf

\* What is queued is of an open stream whose lane is not cancelled.
LEMMA JobsStep ==
  ASSUME Known, MarkInv, Next, Forward
  PROVE  /\ NoneCancelled'
         /\ \A w \in Workers, t \in Packets : Queued(proc', w, t) => Opened(t[1])
<1>0. /\ \A w \in Workers, t \in Packets : Queued(proc, w, t) => Opened(t[1])
      /\ \A w \in Workers, t \in Packets : Queued(proc, w, t) => t[1] \notin proc.cancelled
  BY DEF MarkInv, FromClient, NoneCancelled
<1>1. CASE proc'.jobs = proc.jobs /\ proc'.cancelled \subseteq proc.cancelled
  BY <1>0, <1>1 DEF NoneCancelled, Queued
<1>2. ASSUME NEW h \in Handlers, EnqueueDeferred(h), Enqueue(proc, handler[h].pkt).ok
      PROVE  /\ NoneCancelled'
             /\ \A w \in Workers, t \in Packets : Queued(proc', w, t) => Opened(t[1])
  <2>1. Opened(handler[h].pkt[1])  BY <1>2 DEF EnqueueDeferred, MarkInv, FromClient
  <2> QED BY <1>0, <1>2, <2>1, EnqueuedOf DEF NoneCancelled
<1>3. ASSUME NEW w \in Workers, NEW p \in Packets, Take(w, p)
      PROVE  /\ NoneCancelled'
             /\ \A v \in Workers, t \in Packets : Queued(proc', v, t) => Opened(t[1])
  BY <1>0, <1>3, TakenOf DEF NoneCancelled
<1>4. ASSUME NEW D \in SUBSET Streams, Shrinks(proc, proc', D)
      PROVE  /\ NoneCancelled'
             /\ \A w \in Workers, t \in Packets : Queued(proc', w, t) => Opened(t[1])
  <2>1. \A w \in Workers, t \in Packets :
          Queued(proc', w, t) => Queued(proc, w, t) /\ t[1] \notin D \cup proc.cancelled
    BY <1>4 DEF Shrinks
  <2>2. proc'.cancelled \subseteq proc.cancelled \cup D  BY <1>4 DEF Shrinks
  <2> QED BY <1>0, <2>1, <2>2 DEF NoneCancelled
<1> QED BY <1>1, <1>2, <1>3, <1>4, ProcMoves

\* The steps that change a stream.
LEMMA StreamSteps ==
  ASSUME Next
  PROVE  \/ strm' = strm
         \/ \E h \in Handlers : QueueAck(h)
         \/ \E w \in Workers : GetStream(w) \/ DialOK(w)
         \/ \E t \in Streams : CleanupResources(t) \/ RemoveStream(t)
         \/ CloseAllStreams \/ CleanupDeferredSession
BY DEF Next, OpenStream, ResetStream, ReceiveRst, ARQFails, ReceiveSyn, HandlerStep,
   EnqueueDeferred, WorkerStep, Take, Begin, Execute, DialFails, Serve, FinalizeTracked,
   FinalizeQueued, FinishDeferred, Finish, CloserStep, NoteStreamClosed, ClearTracked, ClearLane,
   streamVars, CloseSession, TeardownStep, ClearSession

\* A stream is created for a SYN that a request worker or a worker has.
LEMMA StreamsFrom ==
  ASSUME Known, MarkInv, Next
  PROVE  \A s \in Streams : strm'[s].there => Opened(s)
<1>0. /\ strm \in [Streams -> Stream]
      /\ \A s \in Streams : strm[s].there => Opened(s)
  BY DEF Known, IInv, Types, MarkInv, FromClient
<1>1. CASE strm' = strm  BY <1>0, <1>1
<1>2. ASSUME NEW s \in Streams, Opened(s), GetOrCreateStream(s)
      PROVE  \A t \in Streams : strm'[t].there => Opened(t)
  BY <1>0, <1>2 DEF GetOrCreateStream
<1>3. CASE \E h \in Handlers : QueueAck(h)
  <2>1. PICK h \in Handlers : QueueAck(h)  BY <1>3
  <2>2. handler[h].pkt \in Packets /\ Opened(handler[h].pkt[1])
    BY <2>1 DEF QueueAck, Known, IInv, Types, MarkInv, FromClient
  <2>3. handler[h].pkt[1] \in Streams  BY <2>2 DEF Packets
  <2> QED BY <1>2, <2>1, <2>2, <2>3 DEF QueueAck
<1>4. CASE \E w \in Workers : GetStream(w)
  <2>1. PICK w \in Workers : GetStream(w)  BY <1>4
  <2>2. Lane(w) \in Streams /\ Opened(Lane(w))
    BY <2>1, LaneOf DEF GetStream, At, Known, IInv, MarkInv, FromClient
  <2>3. GetOrCreateStream(Lane(w))  BY <2>1 DEF GetStream
  <2> QED BY <1>2, <2>2, <2>3
<1>5. CASE \E w \in Workers : DialOK(w)
  <2>1. PICK w \in Workers : DialOK(w)  BY <1>5
  <2>2. strm' = strm \/ strm' = [strm EXCEPT ![Lane(w)].conn = w]  BY <2>1 DEF DialOK
  <2>3. \A s \in Streams : strm'[s].there = strm[s].there  BY <1>0, <2>2 DEF Stream
  <2> QED BY <1>0, <2>3
<1>6. CASE \E t \in Streams : CleanupResources(t) \/ RemoveStream(t)
  <2>1. PICK t \in Streams : CleanupResources(t) \/ RemoveStream(t)  BY <1>6
  <2>2. \/ strm' = strm
        \/ strm' = [strm EXCEPT ![t].closed = TRUE, ![t].conn = 0]
        \/ strm' = [strm EXCEPT ![t].there = FALSE]
    BY <2>1 DEF CleanupResources, RemoveStream
  <2>3. \A s \in Streams : strm'[s].there => strm[s].there  BY <1>0, <2>2 DEF Stream
  <2> QED BY <1>0, <2>3
<1>7. CASE CloseAllStreams \/ CleanupDeferredSession
  <2>1. \A x \in Stream : /\ [x EXCEPT !.closed = TRUE, !.conn = 0].there = x.there
                          /\ ~[x EXCEPT !.there = FALSE].there
    BY DEF Stream
  <2>2. \A s \in Streams : strm[s] \in Stream  BY <1>0
  <2>3. CASE CloseAllStreams
    <3>1. strm' = [s \in Streams |-> IF s \in There
                                       THEN [strm[s] EXCEPT !.closed = TRUE, !.conn = 0]
                                       ELSE strm[s]]
      BY <2>3 DEF CloseAllStreams
    <3>2. \A s \in Streams : \/ strm'[s] = strm[s]
                             \/ strm'[s] = [strm[s] EXCEPT !.closed = TRUE, !.conn = 0]
      BY <3>1
    <3> QED BY <1>0, <2>1, <2>2, <3>2
  <2>4. CASE CleanupDeferredSession
    <3>1. strm' = [s \in Streams |-> [strm[s] EXCEPT !.there = FALSE]]
      BY <2>4 DEF CleanupDeferredSession
    <3>2. \A s \in Streams : ~strm'[s].there
      <4> SUFFICES ASSUME NEW s \in Streams  PROVE ~strm'[s].there
        OBVIOUS
      <4>1. PICK x \in Stream : x = strm[s]  BY <2>2
      <4>2. strm'[s] = [x EXCEPT !.there = FALSE]  BY <3>1, <4>1
      <4> QED BY <2>1, <4>2, Zenon
    <3> QED BY <3>2
  <2> QED BY <1>7, <2>3, <2>4
<1> QED BY <1>1, <1>3, <1>4, <1>5, <1>6, <1>7, StreamSteps

\* Only a SYN that arrives is marked.
LEMMA TrackedSteps ==
  ASSUME Next
  PROVE  tracked' \subseteq tracked \/ \E h \in Handlers, p \in Packets : ReceiveSyn(h, p)
BY DEF Next, OpenStream, ResetStream, ReceiveRst, ARQFails, HandlerStep, QueueAck,
   EnqueueDeferred, WorkerStep, Take, Begin, Execute, GetStream, DialOK, DialFails, Serve,
   FinalizeTracked, FinalizeQueued, FinishDeferred, Finish, CloserStep, CleanupResources,
   RemoveStream, NoteStreamClosed, ClearTracked, ClearLane, CloseSession, TeardownStep,
   ClearSession, CloseAllStreams, CleanupDeferredSession, Untracked

\* A SYN is marked when it arrives.
LEMMA TrackedFrom ==
  ASSUME Known, MarkInv, Next
  PROVE  \A p \in tracked' : p[1] \in Streams /\ Opened(p[1])
<1>0. \A p \in tracked : p[1] \in Streams /\ Opened(p[1])
  BY DEF Known, RestOK, Packets, MarkInv, FromClient
<1>1. CASE tracked' \subseteq tracked  BY <1>0, <1>1
<1>2. ASSUME NEW h \in Handlers, NEW p \in Packets, ReceiveSyn(h, p)
      PROVE  \A q \in tracked' : q[1] \in Streams /\ Opened(q[1])
  <2>1. p[1] \in Streams /\ Opened(p[1])  BY <1>2 DEF Packets, ReceiveSyn, Opened
  <2>2. tracked' \subseteq tracked \cup {p}  BY <1>2 DEF ReceiveSyn, Untracked
  <2> QED BY <1>0, <2>1, <2>2
<1> QED BY <1>1, <1>2, TrackedSteps

\* Whatever the server has of a stream still comes from its client.
LEMMA FromClientStep ==
  ASSUME Known, MarkInv, Next, Forward
  PROVE  FromClient'
<1>1. \A s \in Streams : Opened(s) => Opened(s)'  BY ForwardStays
<1>2. \A h \in Handlers : handler'[h].pc # "idle" => Opened(handler[h].pkt[1])'
  BY <1>1, HandlersFrom DEF Opened
<1>3. \A w \in Workers : ~At(w, "idle")' => Opened(Lane(w))'  BY <1>1, WorkersFrom DEF Opened
<1>4. \A w \in Workers, t \in Packets : Queued(proc, w, t)' => Opened(t[1])'
  <2>1. \A t \in Packets : t[1] \in Streams  BY DEF Packets
  <2> QED BY <1>1, <2>1, JobsStep DEF Opened, Queued
<1>5. \A s \in Streams : strm'[s].there => Opened(s)'  BY <1>1, StreamsFrom
<1>6. \A p \in tracked' : Opened(p[1])'  BY <1>1, TrackedFrom
<1> QED BY <1>2, <1>3, <1>4, <1>5, <1>6 DEF FromClient

\* What the steps of one stream's closer do, and who starts it.
LEMMA ClosersFrom ==
  ASSUME Known, MarkInv, Next, NEW s \in Streams, Waits(s)' \/ ~Opened(s)', Forward
  PROVE  closer'[s] = "idle" /\ s \notin recentlyClosed' /\ sess' = "active"
<1>0. /\ closer \in [Streams -> Closing] /\ RestOK
      /\ client'[s].status \in {"idle", "syn"} /\ client[s].status = client'[s].status
  BY DEF Known, IInv, Types, Waits, Opened, Forward, Told
<1>1. sess = "active" /\ closer[s] = "idle" /\ s \notin recentlyClosed /\ ~client[s].rst
  BY <1>0 DEF MarkInv, Untouched
<1>2. sess' = "active"
  <2>1. CASE sess' = sess  BY <1>1, <2>1
  <2>2. ~CloseSession  BY <1>0 DEF CloseSession
  <2>3. ~TeardownStep
    BY <1>1 DEF TeardownStep, ClearSession, CloseAllStreams, CleanupDeferredSession
  <2> QED BY <2>1, <2>2, <2>3
          DEF Next, OpenStream, ResetStream, ReceiveRst, ARQFails, ReceiveSyn, HandlerStep,
              EnqueueDeferred, QueueAck, WorkerStep, Take, Begin, Execute, GetStream, DialOK,
              DialFails, Serve, FinalizeTracked, FinalizeQueued, FinishDeferred, Finish,
       CloserStep,
              CleanupResources, RemoveStream, NoteStreamClosed, ClearTracked, ClearLane, CloserVars
<1> DEFINE Elsewhere == \E t \in Streams : t # s /\ \E pc : closer' = [closer EXCEPT ![t] = pc]
<1>3. closer' = closer \/ Elsewhere
  <2>1. ASSUME NEW t \in Streams, ReceiveRst(t)  PROVE closer' = closer \/ Elsewhere
    BY <1>1, <2>1 DEF ReceiveRst
  <2>2. ASSUME NEW t \in Streams, ARQFails(t)  PROVE Elsewhere
    <3>1. Opened(t)  BY <2>2 DEF ARQFails, MarkInv, FromClient
    <3>2. client' = Answer(client, t, "reset")  BY <2>2 DEF ARQFails
    <3>3. t # s
      <4>1. ~Waits(t)'  BY <1>0, <3>2, AnswerForward DEF Told
      <4> QED BY <1>0, <3>1, <4>1 DEF Opened, Waits
    <3> QED BY <2>2, <3>3 DEF ARQFails
  <2>3. ASSUME NEW t \in Streams, CloserStep(t)  PROVE Elsewhere
    BY <1>1, <2>3 DEF CloserStep, CleanupResources, RemoveStream, NoteStreamClosed, ClearTracked,
                      ClearLane
  <2>4. \/ closer' = closer
        \/ \E t \in Streams : ReceiveRst(t) \/ ARQFails(t) \/ CloserStep(t)
    BY DEF Next, OpenStream, ResetStream, ReceiveSyn, HandlerStep, EnqueueDeferred, QueueAck,
       WorkerStep, Take, Begin, Execute, GetStream, DialOK, DialFails, Serve, FinalizeTracked,
       FinalizeQueued, FinishDeferred, Finish, streamVars, CloseSession, TeardownStep,
       ClearSession, CloseAllStreams, CleanupDeferredSession
  <2> QED BY <2>1, <2>2, <2>3, <2>4
<1>4. closer'[s] = "idle"  BY <1>0, <1>1, <1>3
<1>5. s \notin recentlyClosed'
  <2>1. ASSUME NEW t \in Streams, NoteStreamClosed(t)  PROVE s \notin recentlyClosed'
    BY <1>1, <2>1 DEF NoteStreamClosed
  <2>2. recentlyClosed' \subseteq recentlyClosed \/ \E t \in Streams : NoteStreamClosed(t)
    BY DEF Next, OpenStream, ResetStream, ReceiveRst, ARQFails, ReceiveSyn, HandlerStep,
       EnqueueDeferred, QueueAck, GetOrCreateStream, WorkerStep, Take, Begin, Execute,
       GetStream, DialOK, DialFails, Serve, FinalizeTracked, FinalizeQueued, FinishDeferred, Finish,
       CloserStep, CleanupResources, RemoveStream, ClearTracked, ClearLane, streamVars,
       CloseSession, TeardownStep, ClearSession, CloseAllStreams, CleanupDeferredSession
  <2> QED BY <1>1, <2>1, <2>2
<1> QED BY <1>2, <1>4, <1>5

\* The stream of a client that waits, or has not opened it yet, is not closed, and stays
\* what it is: a new one is created only where there is none, and a connection is set only
\* by the worker that dialled it.
LEMMA StreamStays ==
  ASSUME Known, MarkInv, Next, NEW s \in Streams, Waits(s)' \/ ~Opened(s)', Forward
  PROVE  /\ ~strm'[s].closed
         /\ \/ strm'[s] = strm[s]
            \/ ~strm[s].there /\ strm'[s].there /\ strm'[s].conn = 0
            \/ \E w \in Workers : /\ DialOK(w) /\ Attachable(w) /\ Lane(w) = s
                                  /\ strm'[s].there = strm[s].there
                                  /\ strm'[s].gen = strm[s].gen
<1>0. /\ strm \in [Streams -> Stream] /\ strm[s] \in Stream
      /\ client'[s].status \in {"idle", "syn"} /\ client[s].status = client'[s].status
  BY DEF Known, IInv, Types, Waits, Opened, Forward, Told
<1>1. sess = "active" /\ closer[s] = "idle" /\ ~strm[s].closed
  BY <1>0 DEF MarkInv, Untouched
<1>2. CASE strm'[s] = strm[s]  BY <1>1, <1>2
<1>3. ASSUME NEW t \in Streams, GetOrCreateStream(t)
      PROVE  \/ strm'[s] = strm[s]
             \/ ~strm[s].there /\ strm'[s].there /\ strm'[s].conn = 0 /\ ~strm'[s].closed
  <2>1. CASE strm' = strm  BY <2>1
  <2>2. CASE /\ ~strm[t].there
             /\ strm' = [strm EXCEPT ![t] = [gen |-> @.gen + 1, there |-> TRUE,
                                             closed |-> FALSE, conn |-> 0]]
    BY <1>0, <2>2
  <2> QED BY <1>3, <2>1, <2>2 DEF GetOrCreateStream
<1>4. CASE \E h \in Handlers : QueueAck(h)
  <2>1. PICK h \in Handlers : QueueAck(h)  BY <1>4
  <2>2. handler[h].pkt[1] \in Streams  BY <2>1 DEF QueueAck, Known, IInv, Types, Packets
  <2> QED BY <1>1, <1>3, <2>1, <2>2 DEF QueueAck
<1>5. CASE \E w \in Workers : GetStream(w)
  <2>1. PICK w \in Workers : GetStream(w)  BY <1>5
  <2>2. Lane(w) \in Streams  BY <2>1, LaneOf DEF GetStream, At, Known, IInv
  <2>3. GetOrCreateStream(Lane(w))  BY <2>1 DEF GetStream
  <2> QED BY <1>1, <1>3, <2>2, <2>3
<1>6. CASE \E w \in Workers : DialOK(w)
  <2>1. PICK w \in Workers : DialOK(w)  BY <1>6
  <2>2. CASE strm' = strm  BY <1>2, <2>2
  <2>3. CASE Attachable(w) /\ strm' = [strm EXCEPT ![Lane(w)].conn = w]
    <3>1. CASE Lane(w) # s  BY <1>0, <1>2, <2>3, <3>1
    <3>2. CASE Lane(w) = s
      <4>1. PICK n : n = [strm[s] EXCEPT !.conn = w]  OBVIOUS
      <4>2. n.there = strm[s].there /\ n.gen = strm[s].gen /\ n.closed = strm[s].closed
        BY <1>0, <4>1 DEF Stream
      <4>3. strm'[s] = n  BY <1>0, <2>3, <3>2, <4>1
      <4> QED BY <1>1, <2>1, <2>3, <3>2, <4>2, <4>3
    <3> QED BY <3>1, <3>2
  <2> QED BY <2>1, <2>2, <2>3 DEF DialOK
<1>7. CASE \E t \in Streams : CleanupResources(t) \/ RemoveStream(t)
  <2>1. PICK t \in Streams : CleanupResources(t) \/ RemoveStream(t)  BY <1>7
  <2>2. t # s  BY <1>1, <2>1 DEF CleanupResources, RemoveStream
  <2>3. strm'[s] = strm[s]  BY <1>0, <2>1, <2>2 DEF CleanupResources, RemoveStream
  <2> QED BY <1>2, <2>3
<1>8. ~CloseAllStreams /\ ~CleanupDeferredSession
  BY <1>1 DEF CloseAllStreams, CleanupDeferredSession
<1> QED BY <1>2, <1>4, <1>5, <1>6, <1>7, <1>8, StreamSteps

\* Nothing closes the stream of a client that waits.
LEMMA UntouchedStep ==
  ASSUME Known, MarkInv, Next, Forward
  PROVE  Untouched'
<1> SUFFICES ASSUME NEW s \in Streams, client'[s].status \in {"idle", "syn"}
             PROVE  /\ sess' = "active" /\ closer'[s] = "idle" /\ ~strm'[s].closed
                    /\ s \notin recentlyClosed' /\ ~client'[s].rst
  BY DEF Untouched
<1>1. Waits(s)' \/ ~Opened(s)'  BY DEF Waits, Opened
<1>2. closer'[s] = "idle" /\ s \notin recentlyClosed' /\ sess' = "active"  BY <1>1, ClosersFrom
<1>3. ~strm'[s].closed  BY <1>1, StreamStays
<1>4. client[s].status \in {"idle", "syn"}  BY DEF Forward, Told
<1>5. ~client'[s].rst  BY <1>4 DEF Forward, Told, MarkInv, Untouched
<1> QED BY <1>2, <1>3, <1>5

\* The SYN of a client that waits stays complete.
LEMMA CompletedStays ==
  ASSUME Known, MarkInv, Next, Forward, NEW s \in Streams, Waits(s)', s \in store.completed
  PROVE  s \in store'.completed
<1>0. Waits(s) /\ RestOK /\ IInv  BY ForwardStays DEF Known
<1>1. sess = "active" /\ closer[s] = "idle" /\ ~client[s].rst  BY <1>0, WaitingUntouched
<1>2. ASSUME NEW D, store' = FragmentsRemoved(D), s \notin D  PROVE s \in store'.completed
  BY <1>2 DEF FragmentsRemoved
<1>3. CASE store' = store  BY <1>3
<1>4. ASSUME NEW h \in Handlers, NEW p \in Packets, ReceiveSyn(h, p)  PROVE s \in store'.completed
  <2>1. PICK t \in Streams : t = p[1]  BY <1>4 DEF Packets
  <2>2. CASE client' = Answer(client, t, "connected") /\ store' = FragmentsRemoved({t})
    <3>1. ~Waits(t)'  BY <1>0, <2>2, AnswerForward DEF Told
    <3> QED BY <1>2, <2>2, <3>1
  <2> QED BY <1>3, <1>4, <2>1, <2>2 DEF ReceiveSyn
<1>5. ASSUME NEW t \in Streams, ReceiveRst(t)  PROVE s \in store'.completed
  BY <1>1, <1>2, <1>3, <1>5 DEF ReceiveRst
<1>6. ASSUME NEW w \in Workers, Execute(w)  PROVE s \in store'.completed
  <2>1. store \in [items : [Streams -> SUBSET Fragments], completed : SUBSET Streams]
    BY <1>0 DEF RestOK, Fragmented
  <2>2. PICK t, n, i : /\ \/ store' = store
                          \/ store' = [items |-> n, completed |-> store.completed \cup {t}]
                          \/ store' = [store EXCEPT !.items[t] = i]
    BY <1>6 DEF Execute
  <2> QED BY <2>1, <2>2
<1>7. ASSUME NEW w \in Workers, FinalizeQueued(w)  PROVE s \in store'.completed
  <2>1. ~Waits(Lane(w))  BY <1>7 DEF FinalizeQueued, At, MarkInv, Answered
  <2> QED BY <1>0, <1>2, <1>7, <2>1 DEF FinalizeQueued
<1>8. ASSUME NEW t \in Streams, ClearLane(t)  PROVE s \in store'.completed
  BY <1>1, <1>2, <1>8 DEF ClearLane
<1>9. ~TeardownStep  BY <1>1 DEF TeardownStep, ClearSession, CloseAllStreams, CleanupDeferredSession
<1>10. \/ store' = store \/ TeardownStep
       \/ \E h \in Handlers, p \in Packets : ReceiveSyn(h, p)
       \/ \E t \in Streams : ReceiveRst(t) \/ ClearLane(t)
       \/ \E w \in Workers : Execute(w) \/ FinalizeQueued(w)
  BY DEF Next, OpenStream, ResetStream, ARQFails, HandlerStep, EnqueueDeferred, QueueAck,
     WorkerStep, Take, Begin, GetStream, DialOK, DialFails, Serve, FinalizeTracked,
     FinishDeferred, Finish,
     CloserStep, CleanupResources, RemoveStream, NoteStreamClosed, ClearTracked, CloseSession
<1> QED BY <1>3, <1>4, <1>5, <1>6, <1>7, <1>8, <1>9, <1>10

\* A worker completes the SYN of its stream, ...
Starts(w) ==
  Execute(w) /\ Lane(w) \notin store.completed /\ Lane(w) \in store'.completed /\ At(w, "stream")'

\* ... and gets the stream, which has no connection.
Finds(w) ==
  /\ GetStream(w) /\ strm'[Lane(w)].there /\ strm'[Lane(w)].conn = 0
  /\ worker'[w].gen = strm'[Lane(w)].gen

\* The task that completes the SYN.
LEMMA ExecuteStarts ==
  ASSUME Known, NEW w \in Workers, Execute(w), Dials(w)'
  PROVE  Starts(w)
<1>0. worker \in [Workers -> Task] /\ worker[w] \in Task  BY DEF Known, IInv, Types
<1>1. ~Goto(w, "untrack")  BY <1>0 DEF Goto, Task, Dials
<1>2. /\ Lane(w) \notin store.completed /\ Goto(w, "stream")
      /\ \E n : store' = [items |-> n, completed |-> store.completed \cup {Lane(w)}]
  BY <1>1 DEF Execute
<1>3. Lane(w) \in store'.completed  BY <1>2
<1>4. At(w, "stream")'  BY <1>0, <1>2 DEF Goto, At, Task
<1> QED BY <1>2, <1>3, <1>4 DEF Starts

\* The task that has the stream.
LEMMA StreamFound ==
  ASSUME Known, NEW w \in Workers, GetStream(w), Dials(w)'
  PROVE  Finds(w)
<1>0. /\ Lane(w) \in Streams /\ worker \in [Workers -> Task] /\ worker[w] \in Task
      /\ strm \in [Streams -> Stream]
  BY LaneOf DEF GetStream, At, Known, IInv, Types
<1>1. PICK s \in Streams : s = Lane(w)  BY <1>0
<1>2. ~\E pc \in {"untrack", "finalize"} : Goto(w, pc)  BY <1>0 DEF Goto, Task, Dials
<1>3. /\ StreamFor(s) /\ ~Connected(s) /\ GetOrCreateStream(s)
      /\ worker' = [worker EXCEPT ![w].pc = "dial", ![w].gen = strm'[s].gen]
  BY <1>1, <1>2 DEF GetStream
<1>4. worker'[w].gen = strm'[s].gen  BY <1>0, <1>3 DEF Task
<1>5. strm'[s].there /\ strm'[s].conn = 0
  <2>1. CASE strm[s].there  BY <1>3, <2>1 DEF Connected, GetOrCreateStream
  <2>2. CASE ~strm[s].there  BY <1>0, <1>3, <2>2 DEF GetOrCreateStream
  <2> QED BY <2>1, <2>2
<1> QED BY <1>1, <1>4, <1>5 DEF Finds

\* A worker that dials did so before, or starts.
LEMMA DialsFrom ==
  ASSUME Known, Next, NEW w \in Workers, Dials(w)'
  PROVE  /\ ~At(w, "idle") /\ Lane(w)' = Lane(w)
         /\ \/ Starts(w)
            \/ Dials(w) /\ Finds(w)
            \/ /\ Dials(w) /\ worker'[w].gen = worker[w].gen
               /\ At(w, "stream") => At(w, "stream")'
               /\ At(w, "dial")' => At(w, "dial") /\ ~DialOK(w)
<1>0. worker \in [Workers -> Task] /\ worker[w] \in Task  BY DEF Known, IInv, Types
<1>1. CASE worker'[w] = worker[w]
  <2>1. ~DialOK(w)
    <3>1. ~\E pc \in {"untrack", "finalize", "attached"} : At(w, "dial") /\ Goto(w, pc)
      BY <1>0, <1>1 DEF Goto, At, Task
    <3> QED BY <3>1 DEF DialOK
  <2> QED BY <1>1, <2>1 DEF Dials, At, Lane
<1>2. CASE WorkerStep(w)
  <2>1. ~At(w, "idle") /\ worker'[w].pkt = worker[w].pkt
    BY <1>2, WorkerMoves DEF Dials
  <2>2. CASE Execute(w)  BY <2>1, <2>2, ExecuteStarts DEF Lane
  <2>3. CASE GetStream(w)
    <3>1. Dials(w)  BY <2>3 DEF GetStream, At, Dials
    <3> QED BY <2>1, <2>3, <3>1, StreamFound DEF Lane
  <2>4. CASE DialOK(w)
    <3>1. \E pc \in {"untrack", "finalize", "attached"} : Goto(w, pc)  BY <2>4 DEF DialOK
    <3>2. worker'[w].pc # "dial" /\ worker'[w].gen = worker[w].gen
      BY <1>0, <3>1 DEF Goto, Task
    <3>3. Dials(w) /\ ~At(w, "stream")  BY <2>4 DEF DialOK, At, Dials
    <3> QED BY <2>1, <3>2, <3>3 DEF Lane, At
  <2>5. CASE \E pc \in {"begin", "execute", "untrack", "finalize", "lane", "finish", "idle"} :
               worker'[w].pc = pc
    BY <2>5 DEF Dials
  <2>6. CASE \E pc \in {"execute", "untrack", "finalize", "lane", "finish"} : Goto(w, pc)
    BY <1>0, <2>5, <2>6 DEF Goto, Task
  <2>7. CASE (\E p \in Packets : Take(w, p)) \/ Finish(w)
    BY <1>0, <2>5, <2>7 DEF Take, Finish, Task
  <2> QED BY <1>2, <2>2, <2>3, <2>4, <2>6, <2>7
          DEF WorkerStep, Begin, DialFails, Serve, FinalizeTracked, FinalizeQueued, FinishDeferred
<1>3. worker'[w] = worker[w] \/ WorkerStep(w)
  BY OthersMove, WorkerMoves
<1> QED BY <1>1, <1>2, <1>3

\* There is one dial at a time for a client that waits.
LEMMA DiallingStep ==
  ASSUME Known, MarkInv, Next, Forward
  PROVE  Dialling'
<1> SUFFICES ASSUME NEW w \in Workers, Dials(w)', Waits(Lane(w))'
             PROVE  /\ Lane(w)' \in store'.completed
                    /\ ~At(w, "stream")' =>
                         strm'[Lane(w)'].there /\ strm'[Lane(w)'].gen = worker'[w].gen
                    /\ At(w, "dial")' => strm'[Lane(w)'].conn = 0
                    /\ \A v \in Workers : Dials(v)' /\ Lane(v)' = Lane(w)' => v = w
  BY DEF Dialling
<1>1. ~At(w, "idle") /\ Lane(w)' = Lane(w)  BY DialsFrom
<1>2. PICK s \in Streams : s = Lane(w)  BY <1>1, LaneOf DEF Known, IInv
<1>3. Waits(s)' /\ Waits(s)  BY <1>1, <1>2, ForwardStays DEF Waits
<1>4. CASE Starts(w)
  <2>1. s \notin store.completed /\ s \in store'.completed /\ At(w, "stream")'
    BY <1>2, <1>4 DEF Starts
  <2>2. WorkerStep(w)  BY <1>4 DEF Starts, WorkerStep
  <2>3. ASSUME NEW v \in Workers, Dials(v)', Lane(v)' = s, v # w  PROVE FALSE
    <3>1. worker'[v] = worker[v]  BY <2>2, <2>3, WorkerMoves
    <3>2. Dials(v) /\ Lane(v) = s  BY <2>3, <3>1 DEF Dials, Lane
    <3> QED BY <1>3, <2>1, <3>2 DEF MarkInv, Dialling
  <2> QED BY <1>1, <1>2, <2>1, <2>3 DEF At
<1>5. ASSUME Dials(w)
      PROVE  /\ s \in store.completed /\ s \in store'.completed
             /\ ~At(w, "stream") => strm[s].there /\ strm[s].gen = worker[w].gen
             /\ At(w, "dial") => strm[s].conn = 0
             /\ \A v \in Workers : Dials(v) /\ Lane(v) = s => v = w
             /\ \A v \in Workers : Dials(v)' /\ Lane(v)' = s => v = w
  <2>1. /\ s \in store.completed
        /\ ~At(w, "stream") => strm[s].there /\ strm[s].gen = worker[w].gen
        /\ At(w, "dial") => strm[s].conn = 0
        /\ \A v \in Workers : Dials(v) /\ Lane(v) = s => v = w
    BY <1>2, <1>3, <1>5 DEF MarkInv, Dialling
  <2>2. s \in store'.completed  BY <1>3, <2>1, CompletedStays
  <2>3. ASSUME NEW v \in Workers, Dials(v)', Lane(v)' = s  PROVE v = w
    <3>1. Lane(v) = s /\ (Starts(v) \/ Dials(v))  BY <2>3, DialsFrom
    <3>2. ~Starts(v)  BY <2>1, <3>1 DEF Starts
    <3> QED BY <2>1, <3>1, <3>2
  <2> QED BY <2>1, <2>2, <2>3
<1>6. CASE Dials(w) /\ Finds(w)
  <2>1. strm'[s].there /\ strm'[s].conn = 0 /\ worker'[w].gen = strm'[s].gen
    BY <1>2, <1>6 DEF Finds
  <2> QED BY <1>1, <1>2, <1>5, <1>6, <2>1
<1>7. CASE /\ Dials(w) /\ worker'[w].gen = worker[w].gen
           /\ At(w, "stream") => At(w, "stream")'
           /\ At(w, "dial")' => At(w, "dial") /\ ~DialOK(w)
  <2>1. CASE At(w, "stream")'
    <3>1. ~At(w, "dial")'  BY <2>1 DEF At
    <3> QED BY <1>1, <1>2, <1>5, <1>7, <2>1, <3>1
  <2>2. CASE ~At(w, "stream")'
    <3>1. strm[s].there /\ strm[s].gen = worker[w].gen  BY <1>5, <1>7, <2>2
    <3>2. \/ strm'[s] = strm[s]
          \/ \E v \in Workers : /\ DialOK(v) /\ Lane(v) = s
                                /\ strm'[s].there = strm[s].there /\ strm'[s].gen = strm[s].gen
      BY <1>3, <3>1, StreamStays
    <3>3. strm'[s].there /\ strm'[s].gen = worker'[w].gen  BY <1>7, <3>1, <3>2
    <3>4. ASSUME At(w, "dial")'  PROVE strm'[s].conn = 0
      <4>1. ASSUME NEW v \in Workers, DialOK(v), Lane(v) = s  PROVE FALSE
        <5>1. Dials(v)  BY <4>1 DEF DialOK, At, Dials
        <5> QED BY <1>5, <1>7, <3>4, <4>1, <5>1
      <4> QED BY <1>5, <1>7, <3>2, <3>4, <4>1
    <3> QED BY <1>1, <1>2, <1>5, <1>7, <3>3, <3>4
  <2> QED BY <2>1, <2>2
<1> QED BY <1>4, <1>6, <1>7, DialsFrom

\* A worker drops the lane of its stream after it answered, or when the client does not wait.
LEMMA FinalizesFrom ==
  ASSUME Known, Next, NEW w \in Workers, worker'[w].pc \in {"finalize", "lane"}
  PROVE  /\ ~At(w, "idle") /\ Lane(w)' = Lane(w)
         /\ \/ worker[w].pc \in {"finalize", "lane"}
            \/ \E x \in Told : client' = Answer(client, Lane(w), x)
            \/ At(w, "dial") /\ ~Attachable(w)
            \/ ~ShouldExecute(Lane(w))
<1>0. worker \in [Workers -> Task] /\ worker[w] \in Task  BY DEF Known, IInv, Types
<1>1. CASE worker'[w] = worker[w]  BY <1>1 DEF At, Lane
<1>2. CASE WorkerStep(w)
  <2>1. ~At(w, "idle") /\ worker'[w].pkt = worker[w].pkt
    BY <1>2, WorkerMoves
  <2>2. ASSUME NEW pc, Goto(w, pc)  PROVE worker'[w].pc = pc
    BY <1>0, <2>2 DEF Goto, Task
  <2>3. CASE GetStream(w)
    <3>1. worker' # [worker EXCEPT ![w].pc = "dial", ![w].gen = strm'[Lane(w)].gen]
      BY <1>0 DEF Task
    <3>2. ~Goto(w, "untrack")  BY <2>2
    <3>3. \E x \in Told : client' = Answer(client, Lane(w), x)
      BY <2>3, <3>1, <3>2 DEF GetStream, Told
    <3> QED BY <2>1, <3>3 DEF Lane
  <2>4. CASE DialOK(w)
    <3>1. ~Goto(w, "untrack") /\ ~Goto(w, "attached")  BY <2>2
    <3>2. At(w, "dial") /\ ~Attachable(w)  BY <2>4, <3>1 DEF DialOK
    <3> QED BY <2>1, <3>2 DEF Lane
  <2>5. CASE DialFails(w)
    <3>1. ~Goto(w, "untrack")  BY <2>2
    <3>2. client' = Answer(client, Lane(w), "failed")  BY <2>5, <3>1 DEF DialFails
    <3> QED BY <2>1, <3>2 DEF Lane, Told
  <2>6. CASE Serve(w)  BY <2>1, <2>6 DEF Serve, Lane, Told
  <2>7. CASE FinalizeTracked(w)  BY <2>1, <2>7 DEF FinalizeTracked, Lane, At
  <2>8. CASE \E pc \in {"execute", "stream", "untrack", "finish"} : Goto(w, pc)  BY <2>2, <2>8
  <2>9. CASE (\E p \in Packets : Take(w, p)) \/ Finish(w)
    BY <1>0, <2>9 DEF Take, Finish, Task
  <2> QED BY <1>2, <2>3, <2>4, <2>5, <2>6, <2>7, <2>8, <2>9
          DEF WorkerStep, Begin, Execute, FinalizeQueued, FinishDeferred
<1>3. worker'[w] = worker[w] \/ WorkerStep(w)  BY OthersMove, WorkerMoves
<1> QED BY <1>1, <1>2, <1>3

\* A worker that is about to drop the lane of its stream has answered the client.
LEMMA AnsweredStep ==
  ASSUME Known, MarkInv, Next, Forward
  PROVE  Answered'
<1> SUFFICES ASSUME NEW w \in Workers, worker'[w].pc \in {"finalize", "lane"}, Waits(Lane(w))'
             PROVE  FALSE
  BY DEF Answered
<1>1. /\ ~At(w, "idle") /\ Lane(w)' = Lane(w)
      /\ \/ worker[w].pc \in {"finalize", "lane"}
         \/ \E x \in Told : client' = Answer(client, Lane(w), x)
         \/ At(w, "dial") /\ ~Attachable(w)
         \/ ~ShouldExecute(Lane(w))
  BY FinalizesFrom
<1>2. PICK s \in Streams : s = Lane(w)  BY <1>1, LaneOf DEF Known, IInv
<1>3. Waits(s)' /\ Waits(s)  BY <1>1, <1>2, ForwardStays DEF Waits
<1>4. sess = "active" /\ ~strm[s].closed /\ s \notin recentlyClosed  BY <1>3, WaitingUntouched
<1>5. ShouldExecute(s)  BY <1>4 DEF ShouldExecute, LookupActive
<1>6. ~(worker[w].pc \in {"finalize", "lane"})  BY <1>2, <1>3 DEF MarkInv, Answered
<1>7. ~\E x \in Told : client' = Answer(client, s, x)  BY <1>3, AnswerForward DEF Known
<1>8. At(w, "dial") => Attachable(w)
  <2>1. SUFFICES ASSUME At(w, "dial")  PROVE Attachable(w)
    OBVIOUS
  <2>2. strm[s].there /\ strm[s].gen = worker[w].gen /\ strm[s].conn = 0
    BY <1>2, <1>3, <2>1 DEF MarkInv, Dialling, Dials, At
  <2> QED BY <1>2, <1>4, <2>2 DEF Attachable, RecordClosed
<1> QED BY <1>1, <1>2, <1>5, <1>6, <1>7, <1>8

\* A worker becomes idle when it gives its packet up.
LEMMA IdleEmptyStep ==
  ASSUME Known, MarkInv, Next
  PROVE  IdleEmpty'
<1> SUFFICES ASSUME NEW w \in Workers, worker'[w].pc = "idle"  PROVE worker'[w].pkt = NoPacket
  BY DEF IdleEmpty, At
<1>0. worker \in [Workers -> Task]  BY DEF Known, IInv, Types
<1>1. CASE worker'[w] = worker[w]  BY <1>1 DEF MarkInv, IdleEmpty, At
<1>2. CASE WorkerStep(w)
  <2>1. Finish(w)  BY <1>2, WorkerMoves
  <2>2. PICK t : t = [pc |-> "idle", pkt |-> NoPacket, gen |-> 0]  OBVIOUS
  <2>3. worker' = [worker EXCEPT ![w] = t] /\ t.pkt = NoPacket  BY <2>1, <2>2 DEF Finish
  <2> QED BY <1>0, <2>3
<1>3. worker'[w] = worker[w] \/ WorkerStep(w)  BY OthersMove, WorkerMoves
<1> QED BY <1>1, <1>2, <1>3

\* A packet is no longer in flight when its worker is about to finish.
LEMMA FinishFrom ==
  ASSUME Known, NEW w \in Workers, WorkerStep(w), worker'[w].pc = "finish"
  PROVE  tracked' = tracked \ {worker[w].pkt}
<1>0. worker \in [Workers -> Task] /\ worker[w] \in Task  BY DEF Known, IInv, Types
<1>1. ASSUME NEW pc, Goto(w, pc)  PROVE pc = "finish"  BY <1>0, <1>1 DEF Goto, Task
<1>2. CASE FinishDeferred(w)  BY <1>2 DEF FinishDeferred
<1>3. ~\E p \in Packets : Take(w, p)  BY <1>0 DEF Take, Task
<1>4. ~Finish(w)  BY <1>0 DEF Finish, Task
<1>5. worker' # [worker EXCEPT ![w].pc = "dial", ![w].gen = strm'[Lane(w)].gen]
  BY <1>0 DEF Task
<1>6. /\ ~Goto(w, "execute") /\ ~Goto(w, "stream") /\ ~Goto(w, "untrack")
      /\ ~Goto(w, "finalize") /\ ~Goto(w, "attached") /\ ~Goto(w, "lane")
  BY <1>1
<1> QED BY <1>2, <1>3, <1>4, <1>5, <1>6
        DEF WorkerStep, Begin, Execute, GetStream, DialOK, DialFails, Serve, FinalizeTracked,
            FinalizeQueued

\* A request worker that is about to queue its packet keeps it until it does.
LEMMA EnqueueKept ==
  ASSUME Known, Next, NEW h \in Handlers, handler[h].pc = "enqueue"
  PROVE  handler'[h] = handler[h] \/ EnqueueDeferred(h)
<1>0. handler \in [Handlers -> Request]  BY DEF Known, IInv, Types
<1>1. CASE handler' = handler  BY <1>1
<1>2. ASSUME NEW k \in Handlers, NEW p \in Packets, ReceiveSyn(k, p)  PROVE handler'[h] = handler[h]
  BY <1>0, <1>2 DEF ReceiveSyn
<1>3. ASSUME NEW k \in Handlers, HandlerStep(k)  PROVE handler'[h] = handler[h] \/ EnqueueDeferred(h)
  BY <1>0, <1>3 DEF HandlerStep, EnqueueDeferred, QueueAck
<1> QED BY <1>1, <1>2, <1>3, HandlerSteps

\* What MarkedHasTask promises of a packet.
HasTask(p) ==
  \/ \E h \in Handlers : handler[h].pc = "enqueue" /\ handler[h].pkt = p
  \/ \E w \in Workers : worker[w].pkt = p /\ worker[w].pc # "finish"
  \/ \E w \in Workers : Queued(proc, w, p)

\* The packet of a request worker, ...
LEMMA TaskOfRequest ==
  ASSUME Known, Next, NEW p \in tracked', NEW h \in Handlers, handler[h].pc = "enqueue",
         handler[h].pkt = p
  PROVE  HasTask(p)'
<1>0. p \in Packets  BY DEF Known, IInv, Types
<1>1. CASE handler'[h] = handler[h]  BY <1>1 DEF HasTask
<1>2. CASE EnqueueDeferred(h)
  <2>1. Enqueue(proc, p).ok  BY <1>2 DEF EnqueueDeferred
  <2>2. \E w \in Workers : Queued(proc', w, p)  BY <1>0, <1>2, <2>1, EnqueuedOf
  <2> QED BY <2>2 DEF HasTask, Queued
<1> QED BY <1>1, <1>2, EnqueueKept

\* ... of a worker, ...
LEMMA TaskOfWorker ==
  ASSUME Known, MarkInv, Next, NEW p \in tracked', p \in Packets, NEW w \in Workers,
         worker[w].pkt = p, worker[w].pc # "finish"
  PROVE  HasTask(p)'
<1>0. ~At(w, "idle")
  <2>1. p # NoPacket  BY DEF Packets, NoPacket
  <2> QED BY <2>1 DEF MarkInv, IdleEmpty
<1>1. CASE worker'[w] = worker[w]  BY <1>1 DEF HasTask
<1>2. CASE WorkerStep(w)
  <2>1. ~Finish(w) /\ ~\E q \in Packets : Take(w, q)  BY <1>0 DEF Finish, Take, At
  <2>2. worker'[w].pkt = p  BY <1>2, <2>1, WorkerMoves
  <2>3. worker'[w].pc # "finish"  BY <1>2, FinishFrom
  <2> QED BY <2>2, <2>3 DEF HasTask
<1>3. worker'[w] = worker[w] \/ WorkerStep(w)  BY OthersMove, WorkerMoves
<1> QED BY <1>1, <1>2, <1>3

\* ... and one that is queued.
LEMMA TaskOfQueue ==
  ASSUME Known, MarkInv, Next, Forward, NEW p \in tracked', p \in Packets, Waits(p[1])',
         NEW w \in Workers, Queued(proc, w, p)
  PROVE  HasTask(p)'
<1>1. ASSUME Queued(proc', w, p)  PROVE HasTask(p)'  BY <1>1 DEF HasTask, Queued
<1>2. CASE proc'.jobs = proc.jobs  BY <1>1, <1>2 DEF Queued
<1>3. ASSUME NEW h \in Handlers, EnqueueDeferred(h), Enqueue(proc, handler[h].pkt).ok
      PROVE  HasTask(p)'
  BY <1>1, <1>3, EnqueuedOf
<1>4. ASSUME NEW v \in Workers, NEW q \in Packets, Take(v, q)  PROVE HasTask(p)'
  <2>1. CASE Queued(proc', w, p)  BY <1>1, <2>1
  <2>2. CASE p = q
    <3>1. worker \in [Workers -> Task]  BY DEF Known, IInv, Types
    <3>2. PICK t : t = [pc |-> "begin", pkt |-> p, gen |-> 0]  OBVIOUS
    <3>3. worker' = [worker EXCEPT ![v] = t] /\ t.pkt = p /\ t.pc = "begin"
      BY <1>4, <2>2, <3>2 DEF Take
    <3>4. worker'[v].pkt = p /\ worker'[v].pc # "finish"  BY <3>1, <3>3
    <3> QED BY <3>4 DEF HasTask
  <2> QED BY <1>4, <2>1, <2>2, TakenOf
<1>5. ASSUME NEW D \in SUBSET Streams, Shrinks(proc, proc', D), MayDrop(D)  PROVE HasTask(p)'
  <2>1. p[1] \notin D  BY <1>5 DEF MayDrop, Waits
  <2>2. p[1] \notin proc.cancelled  BY DEF MarkInv, NoneCancelled
  <2>3. Queued(proc', w, p)  BY <1>5, <2>1, <2>2 DEF Shrinks
  <2> QED BY <1>1, <2>3
<1> QED BY <1>2, <1>3, <1>4, <1>5, ProcMoves

\* Of a client that waits every packet in flight has a task.
LEMMA MarkedStep ==
  ASSUME Known, MarkInv, Next, Forward
  PROVE  MarkedHasTask'
<1> SUFFICES ASSUME NEW p \in tracked', Waits(p[1])'  PROVE HasTask(p)'
  BY DEF MarkedHasTask, HasTask, Queued, Waits
<1>1. ASSUME p \notin tracked  PROVE HasTask(p)'
  <2>1. PICK h \in Handlers, q \in Packets : ReceiveSyn(h, q)  BY <1>1, TrackedSteps
  <2>2. q = p  BY <1>1, <2>1 DEF ReceiveSyn, Untracked
  <2>3. handler' = [handler EXCEPT ![h] = [pc |-> "enqueue", pkt |-> p]]
    BY <1>1, <2>1, <2>2 DEF ReceiveSyn, Untracked
  <2>4. handler'[h].pc = "enqueue" /\ handler'[h].pkt = p
    BY <2>3 DEF Known, IInv, Types
  <2> QED BY <2>4 DEF HasTask
<1>2. ASSUME p \in tracked  PROVE HasTask(p)'
  <2>1. p \in Packets /\ p[1] \in Streams  BY <1>2 DEF Known, RestOK, Packets
  <2>2. Waits(p[1])  BY <2>1, ForwardStays DEF Waits
  <2>3. HasTask(p)  BY <1>2, <2>2 DEF MarkInv, MarkedHasTask, HasTask, Queued, Waits
  <2> QED BY <2>1, <2>3, TaskOfRequest, TaskOfWorker, TaskOfQueue DEF HasTask
<1> QED BY <1>1, <1>2

-----------------------------------------------------------------------------
(* The theorems.                                                           *)

\* A stream is opened: the server has nothing of it yet.
LEMMA OpenStep ==
  ASSUME Known, MarkInv, NEW s \in Streams, OpenStream(s)
  PROVE  MarkInv'
<1>0. /\ client \in [Streams -> Client] /\ client[s].status = "idle"
      /\ client' = [client EXCEPT ![s].status = "syn"]
      /\ UNCHANGED <<strm, recentlyClosed, closer, sess, handler, worker, proc, tracked, store>>
  BY DEF OpenStream, streamVars, Known, RestOK
<1>1. /\ client'[s].status = "syn" /\ client'[s].rst = client[s].rst
      /\ \A t \in Streams : t # s => client'[t] = client[t]
  BY <1>0 DEF Client
<1>2. /\ \A t \in Streams : Opened(t) => Opened(t)' /\ t # s
      /\ \A t \in Streams : t # s => (Waits(t)' <=> Waits(t))
  BY <1>0, <1>1 DEF Opened, Waits
<1>3. /\ \A p \in Packets : p[1] \in Streams
      /\ \A w \in Workers : ~At(w, "idle") => Lane(w) \in Streams /\ Opened(Lane(w))
      /\ \A h \in Handlers : handler[h].pc # "idle" => handler[h].pkt[1] \in Streams
      /\ \A p \in tracked : p \in Packets /\ Opened(p[1])
  <2>1. \A p \in Packets : p[1] \in Streams  BY DEF Packets
  <2>2. \A w \in Workers : ~At(w, "idle") => Lane(w) \in Streams /\ Opened(Lane(w))
    BY LaneOf DEF Known, IInv, MarkInv, FromClient
  <2>3. \A h \in Handlers : handler[h].pc # "idle" => handler[h].pkt \in Packets
    BY DEF Known, IInv, Types
  <2>4. \A p \in tracked : p \in Packets /\ Opened(p[1])
    BY DEF Known, RestOK, MarkInv, FromClient
  <2> QED BY <2>1, <2>2, <2>3, <2>4
<1>4. FromClient'
  <2>1. \A h \in Handlers : handler'[h].pc # "idle" => Opened(handler[h].pkt[1])'
    BY <1>0, <1>2, <1>3 DEF MarkInv, FromClient, Opened
  <2>2. \A w \in Workers : ~At(w, "idle")' => Opened(Lane(w))'
    BY <1>0, <1>2, <1>3 DEF At, Lane, Opened
  <2>3. \A w \in Workers, t \in Packets : Queued(proc, w, t)' => Opened(t[1])'
    BY <1>0, <1>2, <1>3 DEF MarkInv, FromClient, Opened, Queued
  <2>4. \A t \in Streams : strm'[t].there => Opened(t)'
    BY <1>0, <1>2 DEF MarkInv, FromClient
  <2>5. \A p \in tracked' : Opened(p[1])'  BY <1>0, <1>2, <1>3 DEF Opened
  <2> QED BY <2>1, <2>2, <2>3, <2>4, <2>5 DEF FromClient
<1>5. Untouched'  BY <1>0, <1>1 DEF MarkInv, Untouched
<1>6. NoneCancelled'  BY <1>0 DEF MarkInv, NoneCancelled, Queued
<1>7. \A w \in Workers : ~At(w, "idle") => (Waits(Lane(w))' <=> Waits(Lane(w)))
  BY <1>0, <1>2, <1>3 DEF Waits, Lane
<1>8. Dialling'
  <2>1. \A w \in Workers : Dials(w) => ~At(w, "idle")  BY DEF Dials, At
  <2> QED BY <1>0, <1>7, <2>1 DEF MarkInv, Dialling, Dials, Lane, At
<1>9. Answered'
  <2>1. \A w \in Workers : worker[w].pc \in {"finalize", "lane"} => ~At(w, "idle")  BY DEF At
  <2> QED BY <1>0, <1>7, <2>1 DEF MarkInv, Answered, Lane
<1>10. IdleEmpty'  BY <1>0 DEF MarkInv, IdleEmpty, At
<1>11. MarkedHasTask'
  <2>1. \A p \in tracked : Waits(p[1])' => Waits(p[1])  BY <1>2, <1>3
  <2> QED BY <1>0, <2>1 DEF MarkInv, MarkedHasTask, Waits
<1> QED BY <1>4, <1>5, <1>6, <1>8, <1>9, <1>10, <1>11 DEF MarkInv

\* Nothing is marked, queued or running at first.
LEMMA MarkInit ==
  Init => MarkInv
<1> SUFFICES ASSUME Init  PROVE MarkInv
  OBVIOUS
<1>1. /\ \A s \in Streams : client[s].status = "idle" /\ ~client[s].rst
      /\ \A s \in Streams : ~strm[s].there /\ ~strm[s].closed /\ closer[s] = "idle"
      /\ \A h \in Handlers : handler[h].pc = "idle"
      /\ \A w \in Workers : worker[w].pc = "idle" /\ worker[w].pkt = NoPacket
      /\ \A w \in Workers : proc.jobs[w] = <<>>
      /\ recentlyClosed = {} /\ sess = "active" /\ tracked = {}
  BY DEF Init
<1>2. \A w \in Workers, t \in Packets : ~Queued(proc, w, t)  BY <1>1 DEF Queued
<1> QED BY <1>1, <1>2
        DEF MarkInv, FromClient, Untouched, NoneCancelled, Dialling, Dials, Answered, IdleEmpty,
            MarkedHasTask, At

\* MarkInv is inductive, on top of the invariants of the streams and of the processor.
THEOREM MarkInvariance == Spec => []MarkInv
<1>1. Known /\ MarkInv /\ [Next]_vars => MarkInv'
  <2> SUFFICES ASSUME Known, MarkInv, [Next]_vars  PROVE MarkInv'
    OBVIOUS
  <2>1. CASE UNCHANGED vars
    BY <2>1 DEF vars, streamVars, MarkInv, FromClient, Untouched, NoneCancelled, Dialling, Dials,
       Answered, IdleEmpty, MarkedHasTask, At, Lane, Opened, Waits, Queued
  <2>2. CASE \E s \in Streams : OpenStream(s)  BY <2>2, OpenStep
  <2>3. CASE Next /\ ~\E s \in Streams : OpenStream(s)
    <3>1. Forward  BY <2>3, NextForward
    <3> QED BY <2>3, <3>1, FromClientStep, UntouchedStep, JobsStep, DiallingStep, AnsweredStep,
               IdleEmptyStep, MarkedStep
            DEF MarkInv
  <2> QED BY <2>1, <2>2, <2>3
<1>2. IInv /\ RecentOK /\ ProcInv /\ RestOK => Known  BY DEF Known
<1> QED BY <1>1, <1>2, MarkInit, Invariance, RecentTyped, ProcInvariance, RestInvariance, PTL
        DEF Spec

\* A SYN that is marked as in flight has a task, or a request worker about to queue one, as
\* long as its client waits, whatever was reset, closed, dropped or answered meanwhile.
THEOREM MarksHaveTasks == Spec => []MarkedHasTask
<1>1. MarkInv => MarkedHasTask  BY DEF MarkInv
<1> QED BY <1>1, MarkInvariance, PTL

=============================================================================
