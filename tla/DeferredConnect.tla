-------------------------- MODULE DeferredConnect --------------------------
(***************************************************************************)
(* How the MasterDNS server sets a stream up (src/masterdns/internal/      *)
(* udpserver).  A request worker that receives a SYN marks it in flight,   *)
(* queues it with the deferred processor and acknowledges it; a worker of  *)
(* the processor assembles its fragments, dials the target, attaches the   *)
(* connection to the stream and answers the client.  Meanwhile copies of   *)
(* the SYN arrive, the client resets the stream, the stream's ARQ closes,  *)
(* or the session is closed and torn down.                                 *)
(*                                                                         *)
(* One session with its streams.  The steps of the request workers, of the *)
(* workers of the processor, of the goroutine that closes a stream and of  *)
(* the one that tears the session down interleave.  A step is what a       *)
(* goroutine does under one lock, with three exceptions: a request worker  *)
(* that answers by itself cleans up in the same step, a task tests and     *)
(* collects its fragment in one step, and the queues of all workers are    *)
(* compacted at once.                                                      *)
(***************************************************************************)
EXTENDS Integers, Sequences, FiniteSets, FiniteSetsExt

CONSTANTS
  Streams,      \* the stream IDs the client uses
  Fragments,    \* the fragments of a SYN
  Handlers,     \* request workers (DNS_REQUEST_WORKERS)
  NWorkers,     \* workers of the deferred processor (DEFERRED_SESSION_WORKERS)
  QueueLimit,   \* capacity of a worker's queue (DEFERRED_SESSION_QUEUE_LIMIT)
  SessionCap,   \* sessionPendingCap
  MaxStreams,   \* MaxActiveStreamsPerSession
  MaxDups,      \* bound: late copies of acknowledged SYNs
  Resets,       \* bound: the streams that may be closed
  MaxFailures,  \* bound: how often the ARQ of a stream may fail
  MayClose      \* whether the session may be closed

ASSUME DeferredAssumption ==
  /\ NWorkers \in Nat \ {0} /\ QueueLimit \in Nat \ {0} /\ SessionCap \in Nat \ {0}
  /\ MaxStreams \in Nat \ {0} /\ MaxDups \in Nat /\ MayClose \in BOOLEAN
  /\ Resets \subseteq Streams /\ MaxFailures \in Nat

VARIABLES
  client,          \* the client's side of each stream: [status, acked, rst]
  dups,            \* late copies delivered so far
  strm,            \* record.Streams: [gen, there, closed, conn]
  recentlyClosed,  \* record.RecentlyClosed
  closer,          \* the goroutine that closes a stream
  sess,            \* the session, and how far its teardown is
  handler,         \* the request workers: [pc, pkt]
  worker,          \* the workers of the processor: [pc, pkt, gen]
  proc,            \* the deferred processor
  tracked,         \* deferredInflight
  store,           \* socks5Fragments: [items, completed]
  open,            \* the upstream connections that are open
  orphaned         \* the streams with an acknowledged SYN whose task was lost

streamVars == <<strm, recentlyClosed, closer>>
vars == <<client, dups, streamVars, sess, handler, worker, proc, tracked, store, open, orphaned>>

Workers == 1 .. NWorkers
Packets == Streams \X Fragments
NoPacket == <<>>

\* The connection that worker w dials for generation g of stream s.
Conn(s, g, w) == <<s, g, w>>

Init ==
  /\ client = [s \in Streams |-> [status |-> "idle", acked |-> {}, rst |-> FALSE]]
  /\ dups = 0
  /\ strm = [s \in Streams |-> [gen |-> 0, there |-> FALSE, closed |-> FALSE, conn |-> 0]]
  /\ recentlyClosed = {}
  /\ closer = [s \in Streams |-> "idle"]
  /\ sess = "active"
  /\ handler = [h \in Handlers |-> [pc |-> "idle", pkt |-> NoPacket]]
  /\ worker = [w \in Workers |-> [pc |-> "idle", pkt |-> NoPacket, gen |-> 0]]
  /\ proc = [jobs |-> [w \in Workers |-> <<>>], pending |-> [w \in Workers |-> 0],
             sessionPending |-> 0, laneWorker |-> [s \in Streams |-> 0],
             cancelled |-> {}, running |-> [s \in Streams |-> 0], done |-> {}, nextWorker |-> 1]
  /\ tracked = {}
  /\ store = [items |-> [s \in Streams |-> {}], completed |-> {}]
  /\ open = {} /\ orphaned = {}

-----------------------------------------------------------------------------
(* The deferred processor: operations under p.mu on its state p.           *)

\* The session's count after n tasks are gone: it never goes below zero.
Decrement(count, n) == IF count > n THEN count - n ELSE 0

\* The tasks of queue q whose lane is not in D, in their order.
Without(q, D) ==
  LET queued[i \in 0 .. Len(q)] ==
        IF i = 0 THEN <<>>
        ELSE IF q[i][1] \in D THEN queued[i - 1] ELSE Append(queued[i - 1], q[i])
  IN queued[Len(q)]

\* The sum of a count over the workers.
Total(count) == MapThenSumSet(LAMBDA w : count[w], Workers)

\* Mutant: the tasks that compaction drops stay in the session's count.
MutantCompact(p, D) ==
  LET drop == D \cup p.cancelled
      kept == [w \in Workers |-> Without(p.jobs[w], drop)]
      lanes == {s \in drop : \E w \in Workers : \E i \in DOMAIN p.jobs[w] : p.jobs[w][i][1] = s}
  IN [p EXCEPT !.jobs = kept,
               !.pending = [w \in Workers |-> @[w] - (Len(p.jobs[w]) - Len(kept[w]))],
               !.laneWorker = [s \in Streams |-> IF s \in lanes THEN 0 ELSE @[s]]]

\* compactQueuesLocked: the queued tasks of the lanes D, and of cancelled lanes,
\* are taken out of every queue.
Compact(p, D) ==
  LET drop == D \cup p.cancelled
      kept == [w \in Workers |-> Without(p.jobs[w], drop)]
      dropped == [w \in Workers |-> Len(p.jobs[w]) - Len(kept[w])]
      lanes == {s \in drop : \E w \in Workers : \E i \in DOMAIN p.jobs[w] : p.jobs[w][i][1] = s}
  IN [p EXCEPT !.jobs = kept,
               !.pending = [w \in Workers |-> @[w] - dropped[w]],
               !.sessionPending = Decrement(@, Total(dropped)),
               !.laneWorker = [s \in Streams |-> IF s \in lanes THEN 0 ELSE @[s]]]

\* The contexts of the tasks running for the lanes D are cancelled.
CancelRunning(p, D) ==
  [p EXCEPT !.done = @ \cup {p.running[s] : s \in {t \in D : p.running[t] # 0}},
            !.running = [s \in Streams |-> IF s \in D THEN 0 ELSE @[s]]]

\* FinalizeLane: the lanes are forgotten and their queued tasks are dropped.
FinalizeLane(p, D) ==
  Compact([p EXCEPT !.laneWorker = [s \in Streams |-> IF s \in D THEN 0 ELSE @[s]],
                    !.cancelled = @ \cup D], D)

\* RemoveLane: and the tasks that run for them are cancelled.
RemoveLane(p, D) == FinalizeLane(CancelRunning(p, D), D)

\* RemoveSession: every task that runs is cancelled, every queued one dropped.
RemoveSession(p) ==
  LET q == CancelRunning(p, Streams) IN
  Compact([q EXCEPT !.cancelled = @ \cup {s \in Streams : q.laneWorker[s] # 0},
                    !.laneWorker = [s \in Streams |-> 0]], Streams)

\* selectLeastLoadedWorkerLocked: the first of the least loaded, from nextWorker on.
SelectLeastLoaded(p) ==
  LET Offset(w) == (w - p.nextWorker) % NWorkers
      least == {w \in Workers : \A v \in Workers : p.pending[w] <= p.pending[v]}
  IN CHOOSE w \in least : \A v \in least : Offset(w) <= Offset(v)

\* The worker the search starts from next.
\* Mutant: it does not wrap around.
MutantNextWorker(w) == w + 1
NextWorker(w) == (w % NWorkers) + 1

\* enqueueToExistingWorkerLocked, tryEnqueueLocked.
Push(p, w, t) ==
  [p EXCEPT !.jobs[w] = Append(@, t), !.pending[w] = @ + 1, !.sessionPending = @ + 1]

\* Enqueue: the lane is no longer cancelled; the task goes to the lane's worker, or
\* to the least loaded one; [ok, p].
Enqueue(p0, t) ==
  LET p == [p0 EXCEPT !.cancelled = @ \ {t[1]}]
      mapped == p.laneWorker[t[1]] # 0
      w == IF mapped THEN p.laneWorker[t[1]] ELSE SelectLeastLoaded(p)
      q == IF mapped THEN p ELSE [p EXCEPT !.nextWorker = NextWorker(w)]
      fits == Len(p.jobs[w]) < QueueLimit
  IN IF p.sessionPending >= SessionCap THEN [ok |-> FALSE, p |-> p]
     ELSE IF ~fits THEN [ok |-> FALSE, p |-> q]
     ELSE [ok |-> TRUE, p |-> [Push(q, w, t) EXCEPT !.laneWorker[t[1]] = w]]

\* beginTaskContext: the context of a cancelled lane is cancelled at once.
BeginTaskContext(p, s, w) ==
  IF s \in p.cancelled THEN [p EXCEPT !.done = @ \cup {w}]
  ELSE [p EXCEPT !.done = @ \ {w}, !.running[s] = w]

\* worker.pending.Add(-1) and finishLane: whatever task runs for the lane is cancelled.
FinishLane(p, s, w) ==
  [CancelRunning(p, {s}) EXCEPT
     !.pending[w] = @ - 1,
     !.laneWorker[s] = IF @ = w THEN 0 ELSE @,
     !.cancelled = @ \ {s},
     !.sessionPending = Decrement(@, 1)]

-----------------------------------------------------------------------------
(* Sessions and streams.                                                   *)

LookupActive == sess = "active"
RecordClosed == sess # "active"
Connected(s) == strm[s].there /\ strm[s].conn # 0

\* shouldExecuteDeferredPacket.
ShouldExecute(s) ==
  LookupActive /\ s \notin recentlyClosed /\ (strm[s].there => ~strm[s].closed)

\* canCreateAdditionalStreamLocked.
CanCreate(s) ==
  strm[s].there \/ Cardinality({t \in Streams : strm[t].there}) < MaxStreams

\* getOrCreateStream: whether it returns a stream, and the stream it leaves.
StreamFor(s) == ~RecordClosed /\ CanCreate(s)
GetOrCreateStream(s) ==
  IF ~StreamFor(s) \/ strm[s].there THEN UNCHANGED <<strm, recentlyClosed>>
  ELSE /\ strm' = [strm EXCEPT ![s] = [gen |-> @.gen + 1, there |-> TRUE,
                                       closed |-> FALSE, conn |-> 0]]
       /\ recentlyClosed' = recentlyClosed \ {s}

\* What the server tells the client: a result that comes after the client has left
\* the stream changes nothing.
Answer(cl, s, status) ==
  IF cl[s].status = "syn" THEN [cl EXCEPT ![s].status = status] ELSE cl

Untracked(s) == {p \in tracked : p[1] # s}
FragmentsRemoved(D) ==
  [items |-> [s \in Streams |-> IF s \in D THEN {} ELSE store.items[s]],
   completed |-> store.completed \ D]

-----------------------------------------------------------------------------
(* The client.                                                             *)

\* A new stream: its SYN is sent, and retransmitted until it is acknowledged.
OpenStream(s) ==
  /\ LookupActive /\ client[s].status = "idle"
  /\ client' = [client EXCEPT ![s].status = "syn"]
  /\ UNCHANGED <<dups, streamVars, sess, handler, worker, proc, tracked, store, open, orphaned>>

\* The application leaves, or the client gives up: it resets the stream.
ResetStream(s) ==
  /\ s \in Resets /\ client[s].status \in {"syn", "connected"}
  /\ client' = [client EXCEPT ![s].status = "reset", ![s].rst = TRUE]
  /\ UNCHANGED <<dups, streamVars, sess, handler, worker, proc, tracked, store, open, orphaned>>

-----------------------------------------------------------------------------
(* The request workers.                                                    *)

\* A SYN arrives, or a late copy of one: preprocessInboundPacket and
\* handleSOCKS5SynRequest answer it, or tryBeginDeferredPacket marks it as in flight; one
\* that is in flight already is only acknowledged.
ReceiveSyn(h, p) ==
  LET s == p[1]
      late == p[2] \in client[s].acked \/ client[s].status # "syn"
      immediate == Connected(s) /\ Cardinality(Fragments) = 1
      Hand(pc) == handler' = [handler EXCEPT ![h] = [pc |-> pc, pkt |-> p]] IN
  /\ handler[h].pc = "idle" /\ LookupActive
  /\ client[s].status # "idle" /\ (late => dups < MaxDups)
  /\ dups' = IF late THEN dups + 1 ELSE dups
  /\ \/ /\ ~strm[s].there /\ s \in recentlyClosed
        /\ client' = Answer(client, s, "reset")
        /\ UNCHANGED <<handler, proc, tracked, store>>
     \/ /\ s \notin recentlyClosed /\ ~CanCreate(s)
        /\ client' = Answer(client, s, "failed")
        /\ Hand("ack")
        /\ UNCHANGED <<proc, tracked, store>>
     \/ /\ immediate
        /\ client' = Answer(client, s, "connected")
        /\ tracked' = Untracked(s)
        /\ proc' = RemoveLane(proc, {s})
        /\ store' = FragmentsRemoved({s})
        /\ Hand("ack")
     \/ /\ strm[s].there \/ s \notin recentlyClosed
        /\ CanCreate(s) /\ ~immediate
        /\ tracked' = tracked \cup {p}
        /\ Hand(IF p \in tracked THEN "ack" ELSE "enqueue")
        /\ UNCHANGED <<client, proc, store>>
  /\ UNCHANGED <<streamVars, sess, worker, open, orphaned>>

\* A copy of the SYN found it in flight, and was or will be acknowledged.
Acknowledging(p) ==
  p[2] \in client[p[1]].acked \/ \E h \in Handlers : handler[h].pc = "ack" /\ handler[h].pkt = p

\* Mutant: a SYN that finds no room stays marked as in flight.
MutantEnqueueDeferred(h) ==
  LET r == Enqueue(proc, handler[h].pkt) IN
  /\ handler[h].pc = "enqueue"
  /\ proc' = r.p
  /\ handler' = [handler EXCEPT ![h] = IF r.ok THEN [@ EXCEPT !.pc = "ack"]
                                       ELSE [pc |-> "idle", pkt |-> NoPacket]]
  /\ UNCHANGED <<client, dups, streamVars, sess, worker, tracked, store, open, orphaned>>

\* dispatchDeferredSessionPacket: a SYN that finds no room is dropped.
EnqueueDeferred(h) ==
  LET r == Enqueue(proc, handler[h].pkt) IN
  /\ handler[h].pc = "enqueue"
  /\ proc' = r.p
  /\ tracked' = IF r.ok THEN tracked ELSE tracked \ {handler[h].pkt}
  /\ handler' = [handler EXCEPT ![h] = IF r.ok THEN [@ EXCEPT !.pc = "ack"]
                                       ELSE [pc |-> "idle", pkt |-> NoPacket]]
  /\ orphaned' = IF ~r.ok /\ Acknowledging(handler[h].pkt) THEN orphaned \cup {handler[h].pkt[1]}
                 ELSE orphaned
  /\ UNCHANGED <<client, dups, streamVars, sess, worker, store, open>>

\* queueImmediateControlAck, which creates the stream if the worker has not.
QueueAck(h) ==
  LET p == handler[h].pkt IN
  /\ handler[h].pc = "ack"
  /\ GetOrCreateStream(p[1])
  /\ client' = IF StreamFor(p[1]) THEN [client EXCEPT ![p[1]].acked = @ \cup {p[2]}] ELSE client
  /\ handler' = [handler EXCEPT ![h] = [pc |-> "idle", pkt |-> NoPacket]]
  /\ UNCHANGED <<dups, closer, sess, worker, proc, tracked, store, open, orphaned>>

\* handleStreamRSTRequest; a reset for a stream that is not there is acknowledged,
\* and that is all.
ReceiveRst(s) ==
  /\ client[s].rst /\ LookupActive /\ closer[s] = "idle"
  /\ client' = [client EXCEPT ![s].rst = FALSE]
  /\ IF strm[s].there
       THEN /\ tracked' = Untracked(s)
            /\ proc' = RemoveLane(proc, {s})
            /\ store' = FragmentsRemoved({s})
            /\ closer' = [closer EXCEPT ![s] = "close"]
       ELSE UNCHANGED <<tracked, proc, store, closer>>
  /\ UNCHANGED <<dups, strm, recentlyClosed, sess, handler, worker, open, orphaned>>

-----------------------------------------------------------------------------
(* The workers of the processor: runDeferredWorker, wrappedRun,            *)
(* processDeferredSOCKS5Syn.                                               *)

At(w, pc) == worker[w].pc = pc
Lane(w) == worker[w].pkt[1]
Goto(w, pc) == worker' = [worker EXCEPT ![w].pc = pc]
Cancelled(w) == w \in proc.done
Held(w) == Conn(Lane(w), worker[w].gen, w)

Take(w, p) ==
  /\ At(w, "idle") /\ proc.jobs[w] # <<>> /\ Head(proc.jobs[w]) = p
  /\ proc' = [proc EXCEPT !.jobs[w] = Tail(@)]
  /\ worker' = [worker EXCEPT ![w] = [pc |-> "begin", pkt |-> p, gen |-> 0]]
  /\ UNCHANGED <<client, dups, streamVars, sess, handler, tracked, store, open, orphaned>>

Begin(w) ==
  /\ At(w, "begin")
  /\ proc' = BeginTaskContext(proc, Lane(w), w)
  /\ Goto(w, "execute")
  /\ UNCHANGED <<client, dups, streamVars, sess, handler, tracked, store, open, orphaned>>

\* wrappedRun, and processDeferredSOCKS5Syn up to its second test.  A task that is
\* cancelled, no longer tracked or stale does nothing, nor does one whose SYN is complete
\* already or still lacks fragments.
Execute(w) ==
  LET s == Lane(w)
      items == store.items[s] \cup {worker[w].pkt[2]}
      skip == Cancelled(w) \/ worker[w].pkt \notin tracked \/ ~ShouldExecute(s)
                \/ s \in store.completed
      ready == ~skip /\ items = Fragments IN
  /\ At(w, "execute")
  /\ store' = IF skip THEN store
              ELSE IF ready THEN [items |-> [store.items EXCEPT ![s] = {}],
                                  completed |-> store.completed \cup {s}]
              ELSE [store EXCEPT !.items[s] = items]
  /\ Goto(w, IF ready THEN "stream" ELSE "untrack")
  /\ UNCHANGED <<client, dups, streamVars, sess, handler, proc, tracked, open, orphaned>>

\* The task with the last fragment gets the stream, which getOrCreateStream creates again
\* if it was closed since the test: none can be had, it is connected already, it is
\* stale, or its target is dialled.
GetStream(w) ==
  LET s == Lane(w) IN
  /\ At(w, "stream")
  /\ GetOrCreateStream(s)
  /\ \/ /\ ~StreamFor(s) \/ Connected(s)
        /\ client' = Answer(client, s, IF StreamFor(s) THEN "connected" ELSE "reset")
        /\ Goto(w, "finalize")
     \/ /\ StreamFor(s) /\ ~Connected(s)
        /\ IF strm[s].there /\ ~ShouldExecute(s)
             THEN Goto(w, "untrack")
             ELSE worker' = [worker EXCEPT ![w].pc = "dial", ![w].gen = strm'[s].gen]
        /\ UNCHANGED client
  /\ UNCHANGED <<dups, closer, sess, handler, proc, tracked, store, open, orphaned>>

\* Mutant: a connection is attached to a stream that was closed during the dial.
MutantAttachable(w) ==
  ~RecordClosed /\ strm[Lane(w)].gen = worker[w].gen /\ strm[Lane(w)].conn = 0

\* attachUpstreamConn accepts a connection for the stream the task created or found.
Attachable(w) ==
  LET s == Lane(w) IN
  /\ ~RecordClosed
  /\ strm[s].there /\ strm[s].gen = worker[w].gen /\ ~strm[s].closed /\ strm[s].conn = 0

\* The dial succeeds: the connection is attached to the stream, or closed again because
\* the task was cancelled or the stream does not take it.
DialOK(w) ==
  /\ At(w, "dial")
  /\ \/ /\ Cancelled(w)
        /\ Goto(w, "untrack") /\ UNCHANGED <<strm, open>>
     \/ /\ ~Cancelled(w) /\ ~Attachable(w)
        /\ Goto(w, "finalize") /\ UNCHANGED <<strm, open>>
     \/ /\ ~Cancelled(w) /\ Attachable(w)
        /\ strm' = [strm EXCEPT ![Lane(w)].conn = w]
        /\ open' = open \cup {Held(w)}
        /\ Goto(w, "attached")
  /\ UNCHANGED <<client, dups, recentlyClosed, closer, sess, handler, proc, tracked, store, orphaned>>

\* It fails, or the target is refused: only a task that is neither cancelled nor
\* stale says so.
DialFails(w) ==
  LET silent == Cancelled(w) \/ ~ShouldExecute(Lane(w)) IN
  /\ At(w, "dial")
  /\ client' = IF silent THEN client ELSE Answer(client, Lane(w), "failed")
  /\ Goto(w, IF silent THEN "untrack" ELSE "finalize")
  /\ UNCHANGED <<dups, streamVars, sess, handler, proc, tracked, store, open, orphaned>>

\* A stream that went stale meanwhile loses the connection again; the others are
\* given to the ARQ, and the client is told.
Serve(w) ==
  LET s == Lane(w) IN
  /\ At(w, "attached")
  /\ open' = IF ShouldExecute(s) THEN open ELSE open \ {Held(w)}
  /\ client' = IF ShouldExecute(s) THEN Answer(client, s, "connected") ELSE client
  /\ Goto(w, "finalize")
  /\ UNCHANGED <<dups, streamVars, sess, handler, proc, tracked, store, orphaned>>

\* finalizeStreamArtifacts: the stream's SYNs are no longer in flight, ...
FinalizeTracked(w) ==
  /\ At(w, "finalize")
  /\ tracked' = Untracked(Lane(w))
  /\ Goto(w, "lane")
  /\ UNCHANGED <<client, dups, streamVars, sess, handler, proc, store, open, orphaned>>

\* ... those that are queued are dropped, and its fragments.
FinalizeQueued(w) ==
  /\ At(w, "lane")
  /\ proc' = FinalizeLane(proc, {Lane(w)})
  /\ store' = FragmentsRemoved({Lane(w)})
  /\ Goto(w, "untrack")
  /\ UNCHANGED <<client, dups, streamVars, sess, handler, tracked, open, orphaned>>

\* finishDeferredPacket, deferred by wrappedRun.
FinishDeferred(w) ==
  /\ At(w, "untrack")
  /\ tracked' = tracked \ {worker[w].pkt}
  /\ Goto(w, "finish")
  /\ UNCHANGED <<client, dups, streamVars, sess, handler, proc, store, open, orphaned>>

Finish(w) ==
  /\ At(w, "finish")
  /\ proc' = FinishLane(proc, Lane(w), w)
  /\ worker' = [worker EXCEPT ![w] = [pc |-> "idle", pkt |-> NoPacket, gen |-> 0]]
  /\ orphaned' = IF proc.running[Lane(w)] \in {0, w} THEN orphaned ELSE orphaned \cup {Lane(w)}
  /\ UNCHANGED <<client, dups, streamVars, sess, handler, tracked, store, open>>

WorkerStep(w) ==
  \/ \E p \in Packets : Take(w, p)
  \/ Begin(w) \/ Execute(w) \/ GetStream(w) \/ DialOK(w) \/ DialFails(w) \/ Serve(w)
  \/ FinalizeTracked(w) \/ FinalizeQueued(w)
  \/ FinishDeferred(w) \/ Finish(w)

-----------------------------------------------------------------------------
(* A stream closes: finalizeAfterARQClose and onStreamClosed.              *)

CloserVars == <<dups, sess, handler, worker, orphaned>>
ConnOf(s) == Conn(s, strm[s].gen, strm[s].conn)

\* The stream's ARQ gives up by itself and resets the client.
ARQFails(s) ==
  /\ s \in Resets /\ strm[s].gen <= MaxFailures
  /\ strm[s].there /\ ~strm[s].closed /\ closer[s] = "idle"
  /\ closer' = [closer EXCEPT ![s] = "close"]
  /\ client' = Answer(client, s, "reset")
  /\ UNCHANGED <<strm, recentlyClosed, CloserVars, proc, tracked, store, open>>

\* cleanupResources.
CleanupResources(s) ==
  /\ closer[s] = "close"
  /\ strm' = [strm EXCEPT ![s].closed = TRUE, ![s].conn = 0]
  /\ open' = open \ {ConnOf(s)}
  /\ closer' = [closer EXCEPT ![s] = "remove"]
  /\ UNCHANGED <<client, recentlyClosed, CloserVars, proc, tracked, store>>

\* removeStream: the stream leaves record.Streams, ...
RemoveStream(s) ==
  /\ closer[s] = "remove"
  /\ strm' = IF RecordClosed THEN strm ELSE [strm EXCEPT ![s].there = FALSE]
  /\ closer' = [closer EXCEPT ![s] = IF RecordClosed THEN "clear" ELSE "note"]
  /\ UNCHANGED <<client, recentlyClosed, CloserVars, proc, tracked, store, open>>

\* ... and noteStreamClosed remembers its ID, under a lock of its own.
NoteStreamClosed(s) ==
  /\ closer[s] = "note"
  /\ recentlyClosed' = IF RecordClosed THEN recentlyClosed ELSE recentlyClosed \cup {s}
  /\ closer' = [closer EXCEPT ![s] = "clear"]
  /\ UNCHANGED <<client, strm, CloserVars, proc, tracked, store, open>>

\* cleanupStreamArtifacts: clearDeferredPacketsForStream, and the fragments.
ClearTracked(s) ==
  /\ closer[s] = "clear"
  /\ tracked' = Untracked(s)
  /\ closer' = [closer EXCEPT ![s] = "lane"]
  /\ UNCHANGED <<client, strm, recentlyClosed, CloserVars, proc, store, open>>

ClearLane(s) ==
  /\ closer[s] = "lane"
  /\ proc' = RemoveLane(proc, {s})
  /\ store' = FragmentsRemoved({s})
  /\ closer' = [closer EXCEPT ![s] = "idle"]
  /\ UNCHANGED <<client, strm, recentlyClosed, CloserVars, tracked, open>>

CloserStep(s) ==
  \/ CleanupResources(s) \/ RemoveStream(s) \/ NoteStreamClosed(s)
  \/ ClearTracked(s) \/ ClearLane(s)

-----------------------------------------------------------------------------
(* The session is closed: sessionStore.Close and cleanupClosedSession.     *)

\* Close marks the record and frees the session's slot: no packet of it is accepted any
\* more, and the client, which closed it or was silent for too long, has left its streams.
CloseSession ==
  /\ MayClose /\ sess = "active"
  /\ sess' = "closed"
  /\ client' = [s \in Streams |-> [status |-> "reset", acked |-> {}, rst |-> FALSE]]
  /\ dups' = MaxDups /\ orphaned' = {}
  /\ UNCHANGED <<streamVars, handler, worker, proc, tracked, store, open>>

\* Its SYNs are no longer in flight, and its fragments are removed.
ClearSession ==
  /\ sess = "closed"
  /\ sess' = "cleared" /\ tracked' = {} /\ store' = FragmentsRemoved(Streams)
  /\ UNCHANGED <<client, dups, streamVars, handler, worker, proc, open, orphaned>>

There == {s \in Streams : strm[s].there}

\* Mutant: the streams are closed, their connections are not.
MutantCloseAllStreams ==
  /\ sess = "cleared" /\ \A s \in There : closer[s] = "idle"
  /\ sess' = "swept"
  /\ strm' = [s \in Streams |-> [strm[s] EXCEPT !.closed = strm[s].there \/ @]]
  /\ tracked' = {p \in tracked : p[1] \notin There}
  /\ proc' = RemoveLane(proc, There) /\ store' = FragmentsRemoved(There)
  /\ UNCHANGED <<client, dups, recentlyClosed, closer, handler, worker, open, orphaned>>

\* closeAllStreams: every stream is closed (finalizeAfterARQClose waits for one that is
\* being closed), each with cleanupStreamArtifacts, ...
CloseAllStreams ==
  /\ sess = "cleared" /\ \A s \in There : closer[s] = "idle"
  /\ sess' = "swept"
  /\ strm' = [s \in Streams |-> IF s \in There THEN [strm[s] EXCEPT !.closed = TRUE, !.conn = 0]
                                ELSE strm[s]]
  /\ open' = open \ {ConnOf(s) : s \in There}
  /\ tracked' = {p \in tracked : p[1] \notin There}
  /\ proc' = RemoveLane(proc, There) /\ store' = FragmentsRemoved(There)
  /\ UNCHANGED <<client, dups, recentlyClosed, closer, handler, worker, orphaned>>

\* ... the streams are forgotten, and the processor drops the session's tasks.
CleanupDeferredSession ==
  /\ sess = "swept"
  /\ sess' = "done"
  /\ strm' = [s \in Streams |-> [strm[s] EXCEPT !.there = FALSE]]
  /\ proc' = RemoveSession(proc)
  /\ UNCHANGED <<client, dups, recentlyClosed, closer, handler, worker, tracked, store, open, orphaned>>

TeardownStep ==
  ClearSession \/ CloseAllStreams \/ CleanupDeferredSession

-----------------------------------------------------------------------------
HandlerStep(h) == EnqueueDeferred(h) \/ QueueAck(h)

Next ==
  \/ \E s \in Streams : OpenStream(s) \/ ResetStream(s) \/ ReceiveRst(s) \/ ARQFails(s)
  \/ \E h \in Handlers, p \in Packets : ReceiveSyn(h, p)
  \/ \E h \in Handlers : HandlerStep(h)
  \/ \E w \in Workers : WorkerStep(w)
  \/ \E s \in Streams : CloserStep(s)
  \/ CloseSession \/ TeardownStep

Spec == Init /\ [][Next]_vars

(***************************************************************************)
(* Every goroutine runs on, a dial ends (deferredConnectAttemptTimeout),   *)
(* and a client that waits gets its SYN and its reset through in the end:  *)
(* the ARQ retransmits them.                                               *)
(***************************************************************************)
Fairness ==
  /\ \A h \in Handlers : WF_vars(HandlerStep(h))
  /\ \A w \in Workers : WF_vars(WorkerStep(w))
  /\ \A s \in Streams : WF_vars(CloserStep(s)) /\ WF_vars(ReceiveRst(s))
  /\ \A p \in Packets : SF_vars(/\ p[2] \notin client[p[1]].acked /\ client[p[1]].status = "syn"
                                /\ \E h \in Handlers : ReceiveSyn(h, p))
  /\ WF_vars(TeardownStep)

FairSpec == Spec /\ Fairness

-----------------------------------------------------------------------------
WorkerPCs == {"idle", "begin", "execute", "stream", "dial", "attached", "finalize", "lane",
              "untrack", "finish"}

\* Every variable keeps its type: the state of the client, the streams, the handlers,
\* the workers and the processor.
TypeOK ==
  /\ client \in [Streams -> [status : {"idle", "syn", "connected", "failed", "reset"},
                             acked : SUBSET Fragments, rst : BOOLEAN]]
  /\ dups \in 0 .. MaxDups
  /\ strm \in [Streams -> [gen : Nat, there : BOOLEAN, closed : BOOLEAN, conn : 0 .. NWorkers]]
  /\ recentlyClosed \subseteq Streams
  /\ closer \in [Streams -> {"idle", "close", "remove", "note", "clear", "lane"}]
  /\ sess \in {"active", "closed", "cleared", "swept", "done"}
  /\ handler \in [Handlers -> [pc : {"idle", "enqueue", "ack"},
                               pkt : Packets \cup {NoPacket}]]
  /\ worker \in [Workers -> [pc : WorkerPCs, pkt : Packets \cup {NoPacket}, gen : Nat]]
  /\ proc.laneWorker \in [Streams -> 0 .. NWorkers] /\ proc.running \in [Streams -> 0 .. NWorkers]
  /\ proc.cancelled \subseteq Streams /\ proc.done \subseteq Workers /\ proc.nextWorker \in Workers
  /\ tracked \subseteq Packets
  /\ store \in [items : [Streams -> SUBSET Fragments], completed : SUBSET Streams]
  /\ open \subseteq Streams \X Nat \X Workers
  /\ orphaned \subseteq Streams

\* The counters that bound the queues are exact whatever was dropped, cancelled or
\* finished in between: a worker's pending counts its queue and the task it runs, and
\* the session's count is their sum, so no task that is gone holds the session at its cap
\* (compactWorkerLocked, finishLane, decrementSessionPendingLocked).
PendingExact ==
  LET tasks == [w \in Workers |-> Len(proc.jobs[w]) + (IF At(w, "idle") THEN 0 ELSE 1)] IN
  /\ \A w \in Workers : proc.pending[w] = tasks[w] /\ Len(proc.jobs[w]) <= QueueLimit
  /\ proc.sessionPending = Total(tasks)
  /\ proc.sessionPending <= SessionCap

\* No upstream connection is lost: one that is open belongs to a stream that is in the
\* session and not closed, so that whatever ends the stream closes it, whatever reset,
\* close or teardown the dial raced with; and none is left when closeAllStreams is through
\* (attachUpstreamConn, cleanupResources, closeAllStreams).
NoLeak ==
  \A c \in open :
    /\ strm[c[1]].there /\ ~strm[c[1]].closed /\ strm[c[1]].gen = c[2] /\ strm[c[1]].conn = c[3]
    /\ sess \notin {"swept", "done"}

\* A SYN marked as in flight has a task, or a request worker about to queue one, as long as
\* its client waits: copies of it are acknowledged and dropped, so a mark without a task
\* would leave the client without an answer (tryBeginDeferredPacket, finishDeferredPacket).
MarkedHasTask ==
  \A p \in tracked :
    \/ client[p[1]].status # "syn"
    \/ \E h \in Handlers : handler[h].pc = "enqueue" /\ handler[h].pkt = p
    \/ \E w \in Workers : \/ worker[w].pkt = p /\ worker[w].pc # "finish"
                          \/ \E i \in DOMAIN proc.jobs[w] : proc.jobs[w][i] = p

\* A client that opened a stream is told in the end, connected, failed or reset, also when
\* its SYN was dropped because a queue or the session was full, except in two races that
\* lose an acknowledged SYN: a copy is acknowledged while the first one is about to find no
\* room, or a task that ends cancels the one another worker runs for the same stream
\* (dispatchDeferredSessionPacketTracked, finishLane).
SynAnswered ==
  \A s \in Streams : client[s].status = "syn" ~> client[s].status # "syn" \/ s \in orphaned

\* After its session was closed nothing is left of it: no connection, no task
\* (cleanupClosedSession).
SessionDrains ==
  sess # "active" ~> /\ sess = "done" /\ open = {}
                     /\ \A w \in Workers : At(w, "idle") /\ proc.jobs[w] = <<>>

=============================================================================
