---------------------------- MODULE ARQDataInv ----------------------------
(***************************************************************************)
(* Why ARQData delivers in order, for every window and every length of the *)
(* stream: what the sizes must satisfy for 16-bit serial numbers to be     *)
(* unambiguous, and the inductive invariant.  ARQDataProofs proves it; the *)
(* runs of this module let TLC check it first.                             *)
(***************************************************************************)
EXTENDS ARQData

\* How far behind rcvNxt a packet can be when rxLoop gets to it: it was sent
\* MaxUnackedAge late, travelled MaxTransit, and waited in rxChan while the
\* writer drained rcvBuf and what was queued before it.
MaxAge == MaxTransit + MaxUnackedAge + RecvWindow + RxChanCap

\* The sizes fit the serial numbers.  NewARQ with the largest window the
\* configuration allows (8000, config/client.go:399) has RecvWindow = 16000,
\* Limit = 6400 and RxChanCap = 12000 against Half = 32768, which leaves
\* MaxTransit + MaxUnackedAge <= 4768.
ASSUME WindowAssumption ==
  /\ MaxAge <= Half
  /\ MaxTransit + RecvWindow + Limit < Half

\* A packet carries a chunk that was read, under that chunk's wire number.
Genuine(p) == p.pay < nSent /\ p.sn = Wire(p.pay)

Counters ==
  /\ sndNxt = Wire(nSent) /\ rcvNxt = Wire(nRcvd)
  /\ nRcvd <= nSent

SndBufOK ==
  /\ \A s \in DOMAIN sndBuf : sndBuf[s].pay < nSent /\ s = Wire(sndBuf[s].pay)
  /\ Cardinality(DOMAIN sndBuf) <= Limit

CarriedOK == \A p \in ioPush \cup rtxJobs \cup nackJob \cup txQueue \cup popped : Genuine(p)

\* m was put on the path at most MaxTransit chunks of progress ago.
InTransit(m) == m.at <= nRcvd /\ nRcvd - m.at <= MaxTransit

DataOK == \A m \in dataNet : Genuine(m) /\ InTransit(m) /\ m.at - m.pay <= MaxUnackedAge

\* The age a packet in rxChan may still reach is bounded: what writeLoop can
\* take before rxLoop gets to it is in rcvBuf or ahead of it in the channel.
RxOK ==
  /\ Len(rxChan) <= RxChanCap
  /\ \A k \in 1..Len(rxChan) :
       /\ Genuine(rxChan[k])
       /\ nRcvd + Cardinality(DOMAIN rcvBuf) + k - rxChan[k].pay <= MaxAge + 1

RcvBufOK ==
  /\ \A s \in DOMAIN rcvBuf :
       /\ nRcvd <= rcvBuf[s] /\ rcvBuf[s] <= nRcvd + RecvWindow
       /\ rcvBuf[s] < nSent /\ s = Wire(rcvBuf[s])
  /\ Cardinality(DOMAIN rcvBuf \ {rcvNxt}) <= RecvWindow

\* Only what the receiver holds is acknowledged.
AckOK ==
  \A m \in ackNet :
    /\ Genuine(m) /\ InTransit(m) /\ m.at - m.pay <= MaxAge
    /\ m.pay < nRcvd \/ Stored(m.pay)

WriterOK ==
  /\ Len(out) + Len(toWrite) = nRcvd
  /\ \A i \in 1..Len(out) : out[i] = i - 1
  /\ \A i \in 1..Len(toWrite) : toWrite[i] = Len(out) + i - 1

\* The inductive invariant: wire numbers are those of their chunks, nothing
\* is acknowledged that is not held, and nothing on its way is too old.
IInv ==
  /\ TypeOK
  /\ Counters /\ SndBufOK /\ CarriedOK /\ DataOK /\ RxOK /\ RcvBufOK
  /\ NoLoss /\ AckOK /\ WriterOK

=============================================================================
