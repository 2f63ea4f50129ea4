------------------------------ MODULE ARQData ------------------------------
(***************************************************************************)
(* One direction of the data plane of a MasterDNS stream                   *)
(* (src/masterdns/internal/arq/arq.go): the ARQ object that reads the      *)
(* local socket on one side, the stream's transmit queue, the dispatcher,  *)
(* a DNS path that loses, duplicates and reorders packets, and the ARQ     *)
(* object that reassembles the stream and writes it out on the other side. *)
(* The stream stays open throughout.                                       *)
(*                                                                         *)
(* One action is one critical section of a.mu (or of the queue's lock)     *)
(* together with the thread-local code around it, so that every            *)
(* interleaving of ioLoop, retransmitLoop, the dispatcher, the packet      *)
(* handlers, rxLoop and writeLoop is a behaviour.  Timers are abstracted   *)
(* to "may fire whenever the code would let them".                         *)
(*                                                                         *)
(* The i-th chunk that ioLoop reads is the number i, counted from 0; its   *)
(* wire number is what a uint16 counter gives it.                          *)
(***************************************************************************)
EXTENDS Integers, Sequences, FiniteSets

CONSTANTS
  Half,            \* 32768: what processReceivedData compares diff with
  Limit,           \* a.limit: unacknowledged chunks at which ioLoop stops
  RecvWindow,      \* a.receiveWindowSize of the receiving side
  RxChanCap,       \* capacity of a.rxChan
  FrontBudget,     \* retransmissions per tick sent as RESEND
  DataNackMaxGap,  \* a.dataNackMaxGap (0: no NACKs)
  MaxTransit,      \* chunks the receiver may advance while a packet travels
  MaxUnackedAge,   \* chunks the receiver may be past a copy that still gets through
  Base,            \* chunks delivered before the model starts
  Unacked,         \* those of them whose acknowledgements were all lost
  MaxChunks,       \* bound on the chunks read from the local socket
  NetCap           \* bound on the packets of one kind the path holds

ASSUME HalfAssumption == Half \in Nat \ {0}
ASSUME SizesAssumption ==
  /\ Limit \in Nat \ {0}
  /\ RecvWindow \in Nat \ {0}
  /\ RxChanCap \in Nat \ {0}
  /\ FrontBudget \in Nat \ {0}
  /\ DataNackMaxGap \in Nat
  /\ MaxTransit \in Nat
  /\ MaxUnackedAge \in Nat
  /\ Base \in Nat
  /\ Unacked \subseteq 0..(Base - 1) /\ Cardinality(Unacked) <= Limit
  /\ \A i, j \in Unacked : i - j < 2 * Half
  /\ MaxChunks \in Nat
  /\ NetCap \in Nat \ {0}

VARIABLES
  sndNxt,    \* a.sndNxt: next wire number to assign
  sndBuf,    \* a.sndBuf: wire number -> unacknowledged chunk, Dispatched flag
  ioPush,    \* ioLoop: the packet it is about to push (at most one)
  ioMark,    \* ioLoop: the wire number whose push was refused (at most one)
  rtxJobs,   \* checkRetransmits: the jobs collected and not pushed yet
  rtxMark,   \* checkRetransmits: the wire number pushed, not yet re-armed
  nackJob,   \* HandleDataNack: the packet it is about to push
  txQueue,   \* the stream's transmit queue, keyed by packet type and number
  popped,    \* the dispatcher: the packet taken from the queue
  ackRemove, \* ReceiveAck: the wire number whose queued copies it will remove
  dataNet,   \* STREAM_DATA / STREAM_RESEND packets on the DNS path
  ackNet,    \* STREAM_DATA_ACK packets on the DNS path back
  nackNet,   \* STREAM_DATA_NACK packets on the DNS path back
  rxChan,    \* a.rxChan
  rcvNxt,    \* a.rcvNxt
  rcvBuf,    \* a.rcvBuf: wire number -> chunk
  rxNack,    \* rxLoop: the wire number stored, its gaps not yet reported
  toWrite,   \* writeLoop: the chunks taken from rcvBuf, being written
  nSent,     \* history: chunks read from the local socket so far
  nRcvd,     \* history: chunks writeLoop has taken so far
  out        \* history: what the receiving side's local socket was given

sndVars == <<sndNxt, sndBuf, ioPush, ioMark, rtxJobs, rtxMark, nackJob,
             txQueue, popped, ackRemove, nSent>>
netVars == <<dataNet, ackNet, nackNet>>
rcvVars == <<rxChan, rcvNxt, rcvBuf, rxNack, toWrite, nRcvd, out>>
vars == <<sndVars, netVars, rcvVars>>

-----------------------------------------------------------------------------
(* uint16 arithmetic, scaled down to SeqMod wire numbers.                  *)

SeqMod == 2 * Half
SeqNums == 0..(SeqMod - 1)

\* Mutants of Inc and Sub: the counter kept in an int, not in a uint16.
MutantIncInt(s) == s + 1
MutantSubInt(a, b) == a - b

Inc(s) == IF s = SeqMod - 1 THEN 0 ELSE s + 1
Sub(a, b) == IF a >= b THEN a - b ELSE a - b + SeqMod
Add(a, k) == IF a + k < SeqMod THEN a + k ELSE a + k - SeqMod

\* The wire number of chunk i.
Wire(i) == i % SeqMod

-----------------------------------------------------------------------------
(* The stream's transmit queue: PushTXPacket of Stream_client and          *)
(* Stream_server.  Its priorities order packets of one stream only; which  *)
(* packet is popped first is left open.                                    *)

Queued(q, type, sn) == \E p \in q : p.type = type /\ p.sn = sn

PushAccepted(q, p) ==
  /\ ~Queued(q, "RESEND", p.sn)
  /\ p.type = "DATA" => ~Queued(q, "DATA", p.sn)

PushTXPacket(q, p) ==
  IF p.type = "RESEND"
  THEN {x \in q : ~(x.type = "DATA" /\ x.sn = p.sn)} \cup {p}
  ELSE q \cup {p}

RemoveQueuedData(q, sn) == {x \in q : x.sn # sn}

-----------------------------------------------------------------------------
(* The DNS path: a set of packets, any of which may arrive next.           *)

\* A path that is full loses what is sent.
Send(net, msgs) == IF Cardinality(net \cup msgs) <= NetCap THEN net \cup msgs ELSE net

\* A received packet leaves the path, unless the path duplicates it.
Consume(net, m, net2) == net2 = net \/ net2 = net \ {m}

\* Packets still on the path once the receiver has taken n chunks.
Alive(net, n) == {m \in net : n - m.at <= MaxTransit}

Lose ==
  /\ \/ \E m \in dataNet : dataNet' = dataNet \ {m} /\ UNCHANGED <<ackNet, nackNet>>
     \/ \E m \in ackNet : ackNet' = ackNet \ {m} /\ UNCHANGED <<dataNet, nackNet>>
     \/ \E m \in nackNet : nackNet' = nackNet \ {m} /\ UNCHANGED <<dataNet, ackNet>>
  /\ UNCHANGED <<sndVars, rcvVars>>

-----------------------------------------------------------------------------
(* The sending side.                                                       *)

\* Base chunks have been delivered, all acknowledged but those in Unacked, and
\* everything is idle; with Base = 0 this is what NewARQ returns.
Init ==
  /\ sndNxt = Wire(Base) /\ nSent = Base
  /\ sndBuf = [s \in {Wire(i) : i \in Unacked} |->
                 [pay |-> CHOOSE i \in Unacked : Wire(i) = s, disp |-> TRUE]]
  /\ ioPush = {} /\ ioMark = {} /\ rtxJobs = {} /\ rtxMark = {} /\ nackJob = {}
  /\ txQueue = {} /\ popped = {} /\ ackRemove = {}
  /\ dataNet = {} /\ ackNet = {} /\ nackNet = {}
  /\ rxChan = <<>> /\ rcvNxt = Wire(Base) /\ rcvBuf = <<>> /\ rxNack = {} /\ toWrite = <<>>
  /\ nRcvd = Base /\ out = [i \in 1..Base |-> i - 1]

\* sndBuf with the Dispatched flag of wire number sn set to d, if it is there.
SetDispatched(sn, d) ==
  [s \in DOMAIN sndBuf |->
     IF s = sn THEN [pay |-> sndBuf[s].pay, disp |-> d] ELSE sndBuf[s]]

WindowNotFull == Cardinality(DOMAIN sndBuf) < Limit

\* Mutant of IORead: an entry already under the number is kept.
MutantIOReadKeep ==
  /\ ioPush = {} /\ ioMark = {}
  /\ WindowNotFull
  /\ nSent < MaxChunks
  /\ sndBuf' = [s \in DOMAIN sndBuf \cup {sndNxt} |->
                  IF s \in DOMAIN sndBuf THEN sndBuf[s]
                                         ELSE [pay |-> nSent, disp |-> FALSE]]
  /\ ioPush' = {[type |-> "DATA", sn |-> sndNxt, pay |-> nSent]}
  /\ sndNxt' = Inc(sndNxt)
  /\ nSent' = nSent + 1
  /\ UNCHANGED <<ioMark, rtxJobs, rtxMark, nackJob, txQueue, popped, ackRemove,
                 netVars, rcvVars>>

\* ioLoop: waitWindowNotFull, Read, then the section that numbers the chunk.
IORead ==
  /\ ioPush = {} /\ ioMark = {}
  /\ WindowNotFull
  /\ nSent < MaxChunks
  /\ sndBuf' = [s \in DOMAIN sndBuf \cup {sndNxt} |->
                  IF s = sndNxt THEN [pay |-> nSent, disp |-> FALSE]
                                ELSE sndBuf[s]]
  /\ ioPush' = {[type |-> "DATA", sn |-> sndNxt, pay |-> nSent]}
  /\ sndNxt' = Inc(sndNxt)
  /\ nSent' = nSent + 1
  /\ UNCHANGED <<ioMark, rtxJobs, rtxMark, nackJob, txQueue, popped, ackRemove,
                 netVars, rcvVars>>

\* ioLoop: PushTXPacket, outside a.mu.
IOPush ==
  \E p \in ioPush :
    /\ ioPush' = {}
    /\ \/ /\ PushAccepted(txQueue, p)
          /\ txQueue' = PushTXPacket(txQueue, p)
          /\ ioMark' = ioMark
       \/ /\ ~PushAccepted(txQueue, p)
          /\ txQueue' = txQueue
          /\ ioMark' = {p.sn}
    /\ UNCHANGED <<sndNxt, sndBuf, rtxJobs, rtxMark, nackJob, popped,
                   ackRemove, nSent, netVars, rcvVars>>

\* ioLoop: a refused chunk is marked as sent one RTO ago.
IOMark ==
  \E sn \in ioMark :
    /\ sndBuf' = SetDispatched(sn, TRUE)
    /\ ioMark' = {}
    /\ UNCHANGED <<sndNxt, ioPush, rtxJobs, rtxMark, nackJob, txQueue, popped,
                   ackRemove, nSent, netVars, rcvVars>>

\* retransmitPriorityKinds: one job alone, or the FrontBudget ones furthest
\* behind sndNxt, go out as RESEND.
IsFront(S, sn) ==
  \/ Cardinality(S) = 1
  \/ Cardinality({s \in S : Sub(sndNxt, s) > Sub(sndNxt, sn)}) < FrontBudget

\* checkRetransmits: the jobs whose timer has expired, among those Dispatched.
RtxCollect(S) ==
  /\ rtxJobs = {} /\ rtxMark = {}
  /\ S # {} /\ \A sn \in S : sndBuf[sn].disp
  /\ rtxJobs' = {[type |-> IF IsFront(S, sn) THEN "RESEND" ELSE "DATA",
                  sn |-> sn, pay |-> sndBuf[sn].pay] : sn \in S}
  /\ UNCHANGED <<sndNxt, sndBuf, ioPush, ioMark, rtxMark, nackJob, txQueue, popped,
                 ackRemove, nSent, netVars, rcvVars>>

\* checkRetransmits: PushTXPacket of one job, outside a.mu.
RtxPush(j) ==
  /\ rtxMark = {}
  /\ rtxJobs' = rtxJobs \ {j}
  /\ \/ /\ PushAccepted(txQueue, j)
        /\ txQueue' = PushTXPacket(txQueue, j)
        /\ rtxMark' = {j.sn}
     \/ /\ ~PushAccepted(txQueue, j)
        /\ UNCHANGED <<txQueue, rtxMark>>
  /\ UNCHANGED <<sndNxt, sndBuf, ioPush, ioMark, nackJob, popped, ackRemove,
                 nSent, netVars, rcvVars>>

\* checkRetransmits: the section after the push that clears Dispatched.
RtxMark ==
  \E sn \in rtxMark :
    /\ sndBuf' = SetDispatched(sn, FALSE)
    /\ rtxMark' = {}
    /\ UNCHANGED <<sndNxt, ioPush, ioMark, rtxJobs, nackJob, txQueue, popped,
                   ackRemove, nSent, netVars, rcvVars>>

\* The dispatcher takes a packet from the queue (the queue's lock only).
Pop(p) ==
  /\ popped = {}
  /\ popped' = {p}
  /\ txQueue' = txQueue \ {p}
  /\ UNCHANGED <<sndNxt, sndBuf, ioPush, ioMark, rtxJobs, rtxMark, nackJob,
                 ackRemove, nSent, netVars, rcvVars>>

\* NoteTXPacketDequeued, then the HasPendingSequence test, then the wire.  The
\* first two are sections of a.mu of their own; an acknowledgement between
\* them has the effect of one before both.  A copy of a chunk the receiver is
\* more than MaxUnackedAge past is lost.
Dispatch ==
  \E p \in popped :
    /\ popped' = {}
    /\ sndBuf' = SetDispatched(p.sn, TRUE)
    /\ dataNet' = Send(dataNet,
         {m \in {[sn |-> p.sn, pay |-> p.pay, at |-> nRcvd]} :
            p.sn \in DOMAIN sndBuf /\ nRcvd - p.pay <= MaxUnackedAge})
    /\ UNCHANGED <<sndNxt, ioPush, ioMark, rtxJobs, rtxMark, nackJob, txQueue,
                   ackRemove, nSent, ackNet, nackNet, rcvVars>>

\* ReceiveAck: the section that forgets the chunk.
ReceiveAck(m) ==
  /\ ackRemove = {}
  /\ Consume(ackNet, m, ackNet')
  /\ sndBuf' = [s \in DOMAIN sndBuf \ {m.sn} |-> sndBuf[s]]
  /\ ackRemove' = {m.sn} \cap DOMAIN sndBuf
  /\ UNCHANGED <<sndNxt, ioPush, ioMark, rtxJobs, rtxMark, nackJob, txQueue, popped,
                 nSent, dataNet, nackNet, rcvVars>>

\* ReceiveAck: RemoveQueuedData, outside a.mu.
AckRemove ==
  \E sn \in ackRemove :
    /\ ackRemove' = {}
    /\ txQueue' = RemoveQueuedData(txQueue, sn)
    /\ UNCHANGED <<sndNxt, sndBuf, ioPush, ioMark, rtxJobs, rtxMark, nackJob, popped,
                   nSent, netVars, rcvVars>>

\* HandleDataNack: the section that looks the chunk up.  The repeat interval
\* may suppress it.
HandleDataNack(m) ==
  /\ nackJob = {}
  /\ nackNet' = nackNet \ {m}
  /\ \/ /\ m.sn \in DOMAIN sndBuf
        /\ nackJob' = {[type |-> "RESEND", sn |-> m.sn, pay |-> sndBuf[m.sn].pay]}
     \/ nackJob' = {}
  /\ UNCHANGED <<sndNxt, sndBuf, ioPush, ioMark, rtxJobs, rtxMark, txQueue, popped,
                 ackRemove, nSent, dataNet, ackNet, rcvVars>>

\* HandleDataNack: PushTXPacket, outside a.mu.
NackPush ==
  \E p \in nackJob :
    /\ nackJob' = {}
    /\ txQueue' = IF PushAccepted(txQueue, p) THEN PushTXPacket(txQueue, p) ELSE txQueue
    /\ UNCHANGED <<sndNxt, sndBuf, ioPush, ioMark, rtxJobs, rtxMark, popped,
                   ackRemove, nSent, netVars, rcvVars>>

-----------------------------------------------------------------------------
(* The receiving side.                                                     *)

\* Mutant of ReceiveData: the channel takes one packet too many.
MutantReceiveData(m) ==
  /\ Consume(dataNet, m, dataNet')
  /\ rxChan' = IF Len(rxChan) <= RxChanCap THEN Append(rxChan, [sn |-> m.sn, pay |-> m.pay])
                                           ELSE rxChan
  /\ UNCHANGED <<sndVars, ackNet, nackNet, rcvNxt, rcvBuf, rxNack, toWrite, nRcvd, out>>

\* ReceiveData: into rxChan, or dropped without an acknowledgement.
ReceiveData(m) ==
  /\ Consume(dataNet, m, dataNet')
  /\ \/ /\ Len(rxChan) < RxChanCap
        /\ rxChan' = Append(rxChan, [sn |-> m.sn, pay |-> m.pay])
     \/ /\ Len(rxChan) = RxChanCap
        /\ rxChan' = rxChan
  /\ UNCHANGED <<sndVars, ackNet, nackNet, rcvNxt, rcvBuf, rxNack, toWrite, nRcvd, out>>

Ack(h) == [sn |-> h.sn, pay |-> h.pay, at |-> nRcvd]
Nacks(S) == {[sn |-> s, at |-> nRcvd] : s \in S}

\* Mutant of RxOld: an old packet is dropped silently.
MutantRxOldSilent(h) ==
  /\ Sub(h.sn, rcvNxt) >= Half
  /\ UNCHANGED <<rcvBuf, ackNet, rxNack>>

\* processReceivedData: a number behind rcvNxt is acknowledged again.
RxOld(h) ==
  /\ Sub(h.sn, rcvNxt) >= Half
  /\ ackNet' = Send(ackNet, {Ack(h)})
  /\ UNCHANGED <<rcvBuf, rxNack>>

\* processReceivedData: outside the receive window, or no room for it.
RxDrop(h) ==
  /\ Sub(h.sn, rcvNxt) < Half
  /\ \/ Sub(h.sn, rcvNxt) > RecvWindow
     \/ /\ h.sn \notin DOMAIN rcvBuf
        /\ Cardinality(DOMAIN rcvBuf) >= RecvWindow
        /\ h.sn # rcvNxt
  /\ UNCHANGED <<rcvBuf, ackNet, rxNack>>

\* processReceivedData: store it (or keep the copy already there), and
\* acknowledge.  Nothing is missing before rcvNxt.
RxStore(h) ==
  /\ Sub(h.sn, rcvNxt) < Half
  /\ Sub(h.sn, rcvNxt) <= RecvWindow
  /\ \/ h.sn \in DOMAIN rcvBuf
     \/ Cardinality(DOMAIN rcvBuf) < RecvWindow
     \/ h.sn = rcvNxt
  /\ rcvBuf' = [s \in DOMAIN rcvBuf \cup {h.sn} |->
                  IF s \in DOMAIN rcvBuf THEN rcvBuf[s] ELSE h.pay]
  /\ ackNet' = Send(ackNet, {Ack(h)})
  /\ rxNack' = IF DataNackMaxGap = 0 \/ h.sn = rcvNxt THEN {} ELSE {h.sn}

RxProcess ==
  /\ rxChan # <<>> /\ rxNack = {}
  /\ rxChan' = Tail(rxChan)
  /\ RxOld(Head(rxChan)) \/ RxDrop(Head(rxChan)) \/ RxStore(Head(rxChan))
  /\ UNCHANGED <<sndVars, dataNet, nackNet, rcvNxt, toWrite, nRcvd, out>>

\* maybeSendDataNacks(sn), after processReceivedData has released a.mu.  It reads
\* rcvNxt in one section and looks for gaps in a later one, so a number that
\* writeLoop took in between counts as missing too; none is further behind sn
\* than RecvWindow, or sn would not have been stored.
Missing(sn) ==
  {s \in SeqNums \ DOMAIN rcvBuf : s # sn /\ Sub(sn, s) <= RecvWindow}

\* Which of them are reported (all within dataNackMaxGap, else a sample) and
\* are due is left open.
MaybeSendDataNacks ==
  \E sn \in rxNack :
    /\ rxNack' = {}
    /\ \E S \in SUBSET Missing(sn) : nackNet' = Send(nackNet, Nacks(S))
    /\ UNCHANGED <<sndVars, dataNet, ackNet, rxChan, rcvNxt, rcvBuf, toWrite, nRcvd, out>>

\* runGapRecoveryWatchdog: nothing is ready, something later is buffered.
GapRecovery ==
  /\ DOMAIN rcvBuf # {} /\ rcvNxt \notin DOMAIN rcvBuf
  /\ \E s \in SeqNums \ DOMAIN rcvBuf :
       /\ Sub(s, rcvNxt) < DataNackMaxGap
       /\ nackNet' = Send(nackNet, Nacks({s}))
  /\ UNCHANGED <<sndVars, dataNet, ackNet, rcvVars>>

\* runFinalAckWatchdog: a client that is idle after its own CLOSE_READ was
\* acknowledged repeats the acknowledgement of the last chunk it took (nRcvd > 0
\* follows from rcvNxt > 0).
FinalAckWatchdog ==
  /\ rcvNxt > 0 /\ nRcvd > 0
  /\ DOMAIN rcvBuf = {} /\ rxChan = <<>> /\ toWrite = <<>>
  /\ ackNet' = Send(ackNet, {[sn |-> rcvNxt - 1, pay |-> nRcvd - 1, at |-> nRcvd]})
  /\ UNCHANGED <<sndVars, dataNet, nackNet, rcvVars>>

\* The number of chunks ready from rcvNxt on is k.
ReadyIs(k) ==
  /\ \A i \in 0..(k - 1) : Add(rcvNxt, i) \in DOMAIN rcvBuf
  /\ Add(rcvNxt, k) \notin DOMAIN rcvBuf

\* Mutants of WriteTake: the run is taken, but only its first chunk is removed;
\* a second run is taken while the first is still being written.
MutantWriteTakeHead ==
  /\ toWrite = <<>>
  /\ \E k \in 1..(RecvWindow + 1) :
       /\ ReadyIs(k)
       /\ toWrite' = [i \in 1..k |-> rcvBuf[Add(rcvNxt, i - 1)]]
  /\ rcvBuf' = [s \in DOMAIN rcvBuf \ {rcvNxt} |-> rcvBuf[s]]
  /\ rcvNxt' = Inc(rcvNxt)
  /\ nRcvd' = nRcvd + 1
  /\ UNCHANGED <<sndVars, netVars, rxChan, rxNack, out>>

MutantWriteTakeTwice ==
  /\ \E k \in 1..(RecvWindow + 1) :
       /\ ReadyIs(k)
       /\ toWrite' = [i \in 1..k |-> rcvBuf[Add(rcvNxt, i - 1)]]
       /\ rcvBuf' = [s \in {t \in DOMAIN rcvBuf : Sub(t, rcvNxt) >= k} |-> rcvBuf[s]]
       /\ rcvNxt' = Add(rcvNxt, k)
       /\ nRcvd' = nRcvd + k
  /\ UNCHANGED <<sndVars, netVars, rxChan, rxNack, out>>

\* writeLoop: the section that takes the contiguous run out of rcvBuf.
WriteTake ==
  /\ toWrite = <<>>
  /\ \E k \in 1..(RecvWindow + 1) :
       /\ ReadyIs(k)
       /\ toWrite' = [i \in 1..k |-> rcvBuf[Add(rcvNxt, i - 1)]]
       /\ rcvBuf' = [s \in {t \in DOMAIN rcvBuf : Sub(t, rcvNxt) >= k} |-> rcvBuf[s]]
       /\ rcvNxt' = Add(rcvNxt, k)
       /\ nRcvd' = nRcvd + k
       /\ dataNet' = Alive(dataNet, nRcvd + k)
       /\ ackNet' = Alive(ackNet, nRcvd + k)
       /\ nackNet' = Alive(nackNet, nRcvd + k)
  /\ UNCHANGED <<sndVars, rxChan, rxNack, out>>

\* writeLoop: the write to the local socket, outside a.mu.
WriteDone ==
  /\ toWrite # <<>>
  /\ out' = out \o toWrite
  /\ toWrite' = <<>>
  /\ UNCHANGED <<sndVars, netVars, rxChan, rcvNxt, rcvBuf, rxNack, nRcvd>>

-----------------------------------------------------------------------------

Next ==
  \/ IORead \/ IOPush \/ IOMark
  \/ \E S \in SUBSET DOMAIN sndBuf : RtxCollect(S)
  \/ \E j \in rtxJobs : RtxPush(j)
  \/ RtxMark
  \/ \E p \in txQueue : Pop(p)
  \/ Dispatch
  \/ \E m \in ackNet : ReceiveAck(m)
  \/ AckRemove
  \/ \E m \in nackNet : HandleDataNack(m)
  \/ NackPush
  \/ Lose
  \/ \E m \in dataNet : ReceiveData(m)
  \/ RxProcess \/ MaybeSendDataNacks
  \/ GapRecovery \/ FinalAckWatchdog
  \/ WriteTake \/ WriteDone

Spec == Init /\ [][Next]_vars

-----------------------------------------------------------------------------
(* Fairness.  The goroutines run (weak fairness of their next section).    *)
(* Per chunk: an expired timer is noticed, a queued packet is popped, and  *)
(* the path lets a chunk through, and an acknowledgement back, if it is    *)
(* sent often enough, and does not duplicate one packet for ever.          *)

Chunks == Unacked \cup Base..(MaxChunks - 1)

GoroutinesRun ==
  /\ WF_vars(IOPush \/ IOMark)
  /\ WF_vars((\E j \in rtxJobs : RtxPush(j)) \/ RtxMark)
  /\ WF_vars(Dispatch) /\ WF_vars(AckRemove) /\ WF_vars(NackPush)
  /\ WF_vars(RxProcess \/ MaybeSendDataNacks) /\ WF_vars(WriteTake \/ WriteDone)

TimerNoticed(i) == \E S \in SUBSET DOMAIN sndBuf : Wire(i) \in S /\ RtxCollect(S)
PopChunk(i) == \E p \in txQueue : p.pay = i /\ Pop(p)
Arrives(i) ==
  \E m \in dataNet : /\ m.pay = i /\ Len(rxChan) < RxChanCap
                     /\ ReceiveData(m) /\ m \notin dataNet'
AckArrives(i) == \E m \in ackNet : m.pay = i /\ ReceiveAck(m) /\ m \notin ackNet'

FairLossyPath(i) ==
  /\ SF_vars(TimerNoticed(i)) /\ SF_vars(PopChunk(i))
  /\ SF_vars(Arrives(i)) /\ SF_vars(AckArrives(i))

FairSpec == Spec /\ GoroutinesRun /\ \A i \in Chunks : FairLossyPath(i)

-----------------------------------------------------------------------------
(* Properties.                                                             *)

Packet == [type : {"DATA", "RESEND"}, sn : SeqNums, pay : Nat]
Flight == [sn : SeqNums, pay : Nat, at : Nat]

\* Type invariant: the sets and functions above hold what their declarations say, and
\* wire numbers are numbers of the modelled width.
TypeOK ==
  /\ sndNxt \in SeqNums /\ rcvNxt \in SeqNums
  /\ DOMAIN sndBuf \subseteq SeqNums
  /\ \A s \in DOMAIN sndBuf : sndBuf[s] \in [pay : Nat, disp : BOOLEAN]
  /\ ioPush \subseteq Packet /\ rtxJobs \subseteq Packet
  /\ nackJob \subseteq Packet /\ txQueue \subseteq Packet
  /\ popped \subseteq Packet
  /\ ioMark \subseteq SeqNums /\ rtxMark \subseteq SeqNums
  /\ ackRemove \subseteq SeqNums /\ rxNack \subseteq SeqNums
  /\ dataNet \subseteq Flight /\ ackNet \subseteq Flight
  /\ nackNet \subseteq [sn : SeqNums, at : Nat]
  /\ rxChan \in Seq([sn : SeqNums, pay : Nat])
  /\ DOMAIN rcvBuf \subseteq SeqNums
  /\ \A s \in DOMAIN rcvBuf : rcvBuf[s] \in Nat
  /\ toWrite \in Seq(Nat) /\ out \in Seq(Nat)
  /\ nSent \in Nat /\ nRcvd \in Nat

\* Chunk i is in the receiver's reassembly buffer, where rcvNxt will find it.
Stored(i) == Wire(i) \in DOMAIN rcvBuf /\ rcvBuf[Wire(i)] = i

\* Chunk i is still tracked by the sender, who will retransmit it.
Tracked(i) == Wire(i) \in DOMAIN sndBuf /\ sndBuf[Wire(i)].pay = i

\* The local socket of the receiving side is given the chunks in the order
\* they were read, none twice and none missing (writeLoop with
\* processReceivedData, under loss, duplication, reordering and wraparound).
InOrder == \A i \in DOMAIN out : out[i] = i - 1

\* No acknowledgement removes a chunk from sndBuf that the receiver does not
\* hold: every chunk writeLoop has not taken yet is in rcvBuf or in sndBuf
\* (ReceiveAck, the drops of ReceiveData and processReceivedData, and a wire
\* number reused by ioLoop while an old chunk still sits under it).
NoLoss == \A i \in nRcvd..(nSent - 1) : Stored(i) \/ Tracked(i)

\* processReceivedData's comparison of sn - rcvNxt with 32768 tells a chunk
\* that was already taken from one that was not, for every packet that waits
\* in rxChan, although the window limits the number of unacknowledged chunks
\* and not the distance between them.
ClassifiedRight ==
  \A k \in DOMAIN rxChan :
    Sub(rxChan[k].sn, rcvNxt) >= Half <=> rxChan[k].pay < nRcvd

\* The chunks and the local sockets alone behave like a reliable stream.
Reliable == INSTANCE ReliableStream WITH sent <- nSent, received <- out
ReliableSpec == Reliable!Spec

\* The sender waits for the dispatcher to send chunk i, and nobody is going to:
\* its flag says it is queued, and no thread and no queue holds it.
Forgotten(i) ==
  /\ Tracked(i) /\ ~sndBuf[Wire(i)].disp
  /\ \A p \in ioPush \cup txQueue \cup popped \cup nackJob \cup rtxJobs : p.pay # i
  /\ Wire(i) \notin ioMark

\* Everything read so far is written on the other side and acknowledged.
Idle == Len(out) = nSent /\ DOMAIN sndBuf = {}

\* Everything read from the local socket is eventually written on the other
\* side and acknowledged, unless a chunk is forgotten: ioLoop, the timers of
\* checkRetransmits and the acknowledgements leave no other way to stall.
DrainsOrForgets == []<>(Idle \/ \E i \in Chunks : Forgotten(i))

\* Everything read from the local socket is eventually written on the other
\* side ("ioLoop reads from local socket data and enqueues reliable outbound
\* packets", arq.go:1098).
Delivers == []<>(Len(out) = nSent)

=============================================================================
