--------------------------- MODULE ARQDataProofs ---------------------------
(***************************************************************************)
(* Theorems about ARQData: its type invariant, the inductive invariant of  *)
(* ARQDataInv, and from it in-order delivery, that nothing acknowledged is *)
(* lost, that serial numbers are classified correctly, and that ARQData    *)
(* implements ReliableStream, for every value of the constants that        *)
(* satisfies the assumptions.                                              *)
(***************************************************************************)
EXTENDS ARQDataInv, FiniteSetTheorems, TLAPS

-----------------------------------------------------------------------------
(* Serial number arithmetic.                                               *)

LEMMA SeqModType == SeqMod \in Nat /\ SeqMod > 0 /\ Half \in Nat /\ Half > 0 /\ SeqMod = 2 * Half
  BY HalfAssumption DEF SeqMod

\* The wire number of a chunk is a uint16 value.
LEMMA WireRange == \A i \in Nat : Wire(i) \in SeqNums
  BY SeqModType DEF Wire, SeqNums

\* The quotient that goes with a wire number.
LEMMA WireQuotient == \A i \in Nat : \E q \in Nat : i = q * SeqMod + Wire(i)
<1> TAKE i \in Nat
<1>1. i \div SeqMod \in Nat /\ i = (i \div SeqMod) * SeqMod + (i % SeqMod)
  BY SeqModType
<1> QED BY <1>1 DEF Wire

\* Two chunks less than SeqMod apart have different wire numbers.
LEMMA WireInjective ==
  ASSUME NEW i \in Nat, NEW j \in Nat, Wire(i) = Wire(j),
         i - j < SeqMod, j - i < SeqMod
  PROVE  i = j
<1>1. PICK q \in Nat : i = q * SeqMod + Wire(i)
  BY WireQuotient
<1>2. PICK r \in Nat : j = r * SeqMod + Wire(j)
  BY WireQuotient
<1>3. i - j = (q - r) * SeqMod
  BY <1>1, <1>2, SeqModType, WireRange DEF SeqNums
<1>4. q - r >= 1 => (q - r) * SeqMod >= SeqMod
  BY SeqModType
<1>5. q - r <= -1 => (q - r) * SeqMod <= -SeqMod
  BY SeqModType
<1> QED BY <1>3, <1>4, <1>5, SeqModType

\* The uint16 difference of a later and an earlier wire number is the number
\* of chunks between them.
LEMMA WireSub ==
  ASSUME NEW i \in Nat, NEW j \in Nat, j <= i, i - j < SeqMod
  PROVE  Sub(Wire(i), Wire(j)) = i - j
<1>1. PICK q \in Nat : i = q * SeqMod + Wire(i)
  BY WireQuotient
<1>2. PICK r \in Nat : j = r * SeqMod + Wire(j)
  BY WireQuotient
<1>3. Wire(i) \in 0..(SeqMod - 1) /\ Wire(j) \in 0..(SeqMod - 1)
  BY WireRange DEF SeqNums
<1>4. i - j = (q - r) * SeqMod + (Wire(i) - Wire(j))
  BY <1>1, <1>2, <1>3, SeqModType
<1>5. q - r >= 2 => (q - r) * SeqMod >= 2 * SeqMod
  BY SeqModType
<1>6. q - r <= -1 => (q - r) * SeqMod <= -SeqMod
  BY SeqModType
<1>7. q - r = 0 \/ q - r = 1
  BY <1>3, <1>4, <1>5, <1>6, SeqModType
<1> QED BY <1>3, <1>4, <1>7, SeqModType DEF Sub

\* ... and of an earlier and a later one, SeqMod less that number.
LEMMA WireSubBehind ==
  ASSUME NEW i \in Nat, NEW j \in Nat, i < j, j - i <= SeqMod
  PROVE  Sub(Wire(i), Wire(j)) = SeqMod - (j - i)
<1>1. Wire(i) \in 0..(SeqMod - 1) /\ Wire(j) \in 0..(SeqMod - 1)
  BY WireRange DEF SeqNums
<1>2. CASE j - i = SeqMod
  <2>1. PICK q \in Nat : i = q * SeqMod + Wire(i)
    BY WireQuotient
  <2>2. PICK r \in Nat : j = r * SeqMod + Wire(j)
    BY WireQuotient
  <2>3. (r - q - 1) * SeqMod = Wire(i) - Wire(j)
    BY <2>1, <2>2, <1>1, <1>2, SeqModType
  <2>4. r - q - 1 >= 1 => (r - q - 1) * SeqMod >= SeqMod
    BY SeqModType
  <2>5. r - q - 1 <= -1 => (r - q - 1) * SeqMod <= -SeqMod
    BY SeqModType
  <2>6. Wire(i) = Wire(j)
    BY <1>1, <2>3, <2>4, <2>5, SeqModType
  <2> QED BY <1>1, <1>2, <2>6, SeqModType DEF Sub
<1>3. CASE j - i < SeqMod
  <2>1. Sub(Wire(j), Wire(i)) = j - i
    BY <1>3, WireSub
  <2> QED BY <1>1, <1>3, <2>1, SeqModType DEF Sub
<1> QED BY <1>2, <1>3, SeqModType

\* Advancing a wire number is advancing the chunk.
LEMMA WireAdd ==
  ASSUME NEW i \in Nat, NEW k \in Nat, k < SeqMod
  PROVE  Add(Wire(i), k) = Wire(i + k)
<1>1. Sub(Wire(i + k), Wire(i)) = k
  BY WireSub, SeqModType
<1>2. Wire(i) \in 0..(SeqMod - 1) /\ Wire(i + k) \in 0..(SeqMod - 1)
  BY WireRange DEF SeqNums
<1> QED BY <1>1, <1>2, SeqModType DEF Sub, Add

LEMMA WireInc == \A i \in Nat : Inc(Wire(i)) = Wire(i + 1)
<1> TAKE i \in Nat
<1>1. SeqMod > 1
  BY SeqModType
<1>2. Add(Wire(i), 1) = Wire(i + 1)
  BY <1>1, WireAdd
<1> QED BY <1>2, WireRange, SeqModType DEF Add, Inc, SeqNums

\* The sizes, with what WindowAssumption makes of them.
LEMMA Sizes ==
  /\ Limit \in Nat /\ Limit > 0 /\ RecvWindow \in Nat /\ RxChanCap \in Nat
  /\ MaxTransit \in Nat /\ MaxUnackedAge \in Nat /\ MaxAge \in Nat
  /\ MaxAge = MaxTransit + MaxUnackedAge + RecvWindow + RxChanCap
  /\ MaxAge <= Half /\ MaxTransit + RecvWindow + Limit < Half
  /\ Base \in Nat /\ MaxChunks \in Nat
  BY SizesAssumption, WindowAssumption DEF MaxAge

\* Two chunks of the receive window under one wire number are one chunk.
LEMMA WireInWindow ==
  ASSUME NEW i \in Nat, NEW j \in Nat, NEW r \in Nat, Wire(i) = Wire(j),
         r <= i, i <= r + RecvWindow, r <= j, j <= r + RecvWindow
  PROVE  i = j
<1>1. RecvWindow \in Nat /\ RecvWindow < SeqMod
  BY Sizes, SeqModType
<1>2. i - j < SeqMod /\ j - i < SeqMod
  BY <1>1, SeqModType
<1> QED BY <1>2, WireInjective

\* The age a packet may reach that enters rxChan as its k-th one.
LEMMA AgeOnArrival ==
  ASSUME NEW r \in Nat, NEW at \in Nat, NEW p \in Nat, NEW c \in Nat, NEW k \in Nat,
         r - at <= MaxTransit, at - p <= MaxUnackedAge, c <= RecvWindow + 1, k <= RxChanCap
  PROVE  r + c + k - p <= MaxAge + 1
<1>1. r - p <= MaxTransit + MaxUnackedAge
  BY Sizes
<1>2. c + k <= RecvWindow + 1 + RxChanCap
  BY Sizes
<1> QED BY <1>1, <1>2, Sizes

-----------------------------------------------------------------------------
(* Type correctness.                                                       *)

LEMMA SetDispatchedType ==
  ASSUME TypeOK, NEW sn, NEW d \in BOOLEAN
  PROVE  /\ DOMAIN SetDispatched(sn, d) = DOMAIN sndBuf
         /\ \A s \in DOMAIN sndBuf :
              /\ SetDispatched(sn, d)[s] \in [pay : Nat, disp : BOOLEAN]
              /\ SetDispatched(sn, d)[s].pay = sndBuf[s].pay
  BY DEF TypeOK, SetDispatched

LEMMA PushType ==
  ASSUME NEW q, NEW p
  PROVE  /\ PushTXPacket(q, p) \subseteq q \cup {p}
         /\ \A sn : RemoveQueuedData(q, sn) \subseteq q
  BY DEF PushTXPacket, RemoveQueuedData

LEMMA SendSubset == \A net, msgs : Send(net, msgs) \subseteq net \cup msgs
  BY DEF Send

LEMMA AliveSubset == \A net, n : Alive(net, n) \subseteq net
  BY DEF Alive

LEMMA QueueTypes ==
  ASSUME NEW T, NEW q \in Seq(T)
  PROVE  /\ q # <<>> => Head(q) \in T /\ Tail(q) \in Seq(T)
         /\ \A x \in T : Append(q, x) \in Seq(T)
  OBVIOUS

LEMMA QueueElement ==
  ASSUME NEW T, NEW q \in Seq(T), NEW k \in 1..Len(q)
  PROVE  q[k] \in T /\ k \in Nat
  OBVIOUS

LEMMA TypeInit == Init => TypeOK
<1> SUFFICES ASSUME Init PROVE TypeOK
  OBVIOUS
<1>1. Unacked \subseteq Nat
  BY SizesAssumption
<1>2. DOMAIN sndBuf \subseteq SeqNums
  BY <1>1, WireRange DEF Init
<1>3. \A s \in DOMAIN sndBuf : sndBuf[s] \in [pay : Nat, disp : BOOLEAN]
  <2> SUFFICES ASSUME NEW s \in DOMAIN sndBuf
               PROVE  sndBuf[s] \in [pay : Nat, disp : BOOLEAN]
    OBVIOUS
  <2>1. \E i \in Unacked : Wire(i) = s
    BY DEF Init
  <2>2. (CHOOSE i \in Unacked : Wire(i) = s) \in Unacked
    BY <2>1
  <2> QED BY <1>1, <2>2 DEF Init
<1>4. out \in Seq(Nat)
  BY Sizes DEF Init
<1>5. DOMAIN rcvBuf = {} /\ rxChan \in Seq([sn : SeqNums, pay : Nat]) /\ toWrite \in Seq(Nat)
  BY DEF Init
<1>6. sndNxt \in SeqNums /\ rcvNxt \in SeqNums /\ nSent \in Nat /\ nRcvd \in Nat
  BY WireRange, Sizes DEF Init
<1>7. /\ ioPush = {} /\ rtxJobs = {} /\ nackJob = {} /\ txQueue = {} /\ popped = {}
      /\ ioMark = {} /\ rtxMark = {} /\ dataNet = {} /\ ackNet = {} /\ nackNet = {}
      /\ ackRemove = {} /\ rxNack = {}
  BY DEF Init
<1> QED BY <1>2, <1>3, <1>4, <1>5, <1>6, <1>7 DEF TypeOK

LEMMA TypeStep == TypeOK /\ [Next]_vars => TypeOK'
<1> SUFFICES ASSUME TypeOK, [Next]_vars PROVE TypeOK'
  OBVIOUS
<1> USE DEF Packet, Flight
<1>1. CASE IORead
  <2>1. sndBuf' = [s \in DOMAIN sndBuf \cup {sndNxt} |->
                  IF s = sndNxt THEN [pay |-> nSent, disp |-> FALSE] ELSE sndBuf[s]]
    BY <1>1 DEF IORead
  <2>2. DOMAIN sndBuf' \subseteq SeqNums
        /\ \A s \in DOMAIN sndBuf' : sndBuf'[s] \in [pay : Nat, disp : BOOLEAN]
    BY <2>1 DEF TypeOK
  <2>3. sndNxt' \in SeqNums /\ nSent' \in Nat
    <3>1. sndNxt \in 0..(SeqMod - 1) /\ nSent \in Nat
      BY DEF TypeOK, SeqNums
    <3>2. sndNxt' = IF sndNxt = SeqMod - 1 THEN 0 ELSE sndNxt + 1
      BY <1>1 DEF IORead, Inc
    <3>3. nSent' = nSent + 1
      BY <1>1 DEF IORead
    <3> QED BY <3>1, <3>2, <3>3, SeqModType DEF SeqNums
  <2>4. ioPush' \subseteq Packet
    BY <1>1 DEF IORead, TypeOK
  <2> QED BY <1>1, <2>2, <2>3, <2>4 DEF IORead, TypeOK, netVars, rcvVars
<1>2. CASE IOPush
  BY <1>2, PushType DEF IOPush, TypeOK, netVars, rcvVars
<1>3. CASE IOMark
  BY <1>3, SetDispatchedType DEF IOMark, TypeOK, netVars, rcvVars
<1>4. ASSUME NEW S \in SUBSET DOMAIN sndBuf, RtxCollect(S) PROVE TypeOK'
  BY <1>4 DEF RtxCollect, TypeOK, netVars, rcvVars
<1>5. ASSUME NEW j \in rtxJobs, RtxPush(j) PROVE TypeOK'
  BY <1>5, PushType DEF RtxPush, TypeOK, netVars, rcvVars
<1>6. CASE RtxMark
  BY <1>6, SetDispatchedType DEF RtxMark, TypeOK, netVars, rcvVars
<1>7. ASSUME NEW p \in txQueue, Pop(p) PROVE TypeOK'
  BY <1>7 DEF Pop, TypeOK, netVars, rcvVars
<1>8. CASE Dispatch
  <2>1. PICK p \in popped :
          dataNet' = Send(dataNet,
            {m \in {[sn |-> p.sn, pay |-> p.pay, at |-> nRcvd]} :
               p.sn \in DOMAIN sndBuf /\ nRcvd - p.pay <= MaxUnackedAge})
    BY <1>8 DEF Dispatch
  <2>2. dataNet' \subseteq dataNet \cup {[sn |-> p.sn, pay |-> p.pay, at |-> nRcvd]}
    BY <2>1, SendSubset
  <2>3. dataNet' \subseteq Flight
    BY <2>2 DEF TypeOK
  <2> QED BY <1>8, <2>3, SetDispatchedType DEF Dispatch, TypeOK, netVars, rcvVars
<1>9. ASSUME NEW m \in ackNet, ReceiveAck(m) PROVE TypeOK'
  BY <1>9, PushType DEF ReceiveAck, Consume, TypeOK, netVars, rcvVars
<1>10. ASSUME NEW m \in nackNet, HandleDataNack(m) PROVE TypeOK'
  BY <1>10 DEF HandleDataNack, TypeOK, netVars, rcvVars
<1>11. CASE NackPush
  BY <1>11, PushType DEF NackPush, TypeOK, netVars, rcvVars
<1>12. CASE Lose
  BY <1>12 DEF Lose, TypeOK, sndVars, rcvVars
<1>13. ASSUME NEW m \in dataNet, ReceiveData(m) PROVE TypeOK'
  <2>1. rxChan' \in Seq([sn : SeqNums, pay : Nat])
    <3>1. rxChan \in Seq([sn : SeqNums, pay : Nat])
          /\ [sn |-> m.sn, pay |-> m.pay] \in [sn : SeqNums, pay : Nat]
      BY DEF TypeOK
    <3>2. rxChan' = rxChan \/ rxChan' = Append(rxChan, [sn |-> m.sn, pay |-> m.pay])
      BY <1>13 DEF ReceiveData
    <3> QED BY <3>1, <3>2, QueueTypes
  <2>2. dataNet' \subseteq dataNet
    BY <1>13 DEF ReceiveData, Consume
  <2> QED BY <1>13, <2>1, <2>2 DEF ReceiveData, TypeOK, sndVars
<1>14. CASE RxProcess
  <2>1. Head(rxChan) \in [sn : SeqNums, pay : Nat] /\ rxChan' \in Seq([sn : SeqNums, pay : Nat])
    <3>1. rxChan \in Seq([sn : SeqNums, pay : Nat]) /\ rxChan # <<>> /\ rxChan' = Tail(rxChan)
      BY <1>14 DEF RxProcess, TypeOK
    <3> QED BY <3>1, QueueTypes
  <2>2. /\ DOMAIN rcvBuf' \subseteq SeqNums /\ \A s \in DOMAIN rcvBuf' : rcvBuf'[s] \in Nat
    BY <1>14, <2>1 DEF RxProcess, RxOld, RxDrop, RxStore, TypeOK
  <2>3. ackNet' \subseteq Flight
    <3>1. ackNet' = ackNet \/ ackNet' = Send(ackNet, {Ack(Head(rxChan))})
      BY <1>14 DEF RxProcess, RxOld, RxDrop, RxStore
    <3>2. Ack(Head(rxChan)) \in Flight
      BY <2>1 DEF Ack, TypeOK
    <3> QED BY <3>1, <3>2, SendSubset DEF TypeOK
  <2>4. rxNack' \subseteq SeqNums
    BY <1>14, <2>1 DEF RxProcess, RxOld, RxDrop, RxStore, TypeOK
  <2> QED BY <1>14, <2>1, <2>2, <2>3, <2>4 DEF RxProcess, TypeOK, sndVars
<1>15. CASE GapRecovery
  <2>1. nackNet' \subseteq [sn : SeqNums, at : Nat]
    <3>1. \E s \in SeqNums : nackNet' = Send(nackNet, Nacks({s}))
      BY <1>15 DEF GapRecovery
    <3>2. \A s \in SeqNums : Nacks({s}) \subseteq [sn : SeqNums, at : Nat]
      BY DEF Nacks, TypeOK
    <3> QED BY <3>1, <3>2, SendSubset DEF TypeOK
  <2> QED BY <1>15, <2>1 DEF GapRecovery, TypeOK, sndVars, rcvVars
<1>16. CASE WriteTake
  <2>1. PICK k \in 1..(RecvWindow + 1) :
       /\ ReadyIs(k)
       /\ toWrite' = [i \in 1..k |-> rcvBuf[Add(rcvNxt, i - 1)]]
       /\ rcvBuf' = [s \in {t \in DOMAIN rcvBuf : Sub(t, rcvNxt) >= k} |-> rcvBuf[s]]
       /\ rcvNxt' = Add(rcvNxt, k)
       /\ nRcvd' = nRcvd + k
       /\ dataNet' = Alive(dataNet, nRcvd + k)
       /\ ackNet' = Alive(ackNet, nRcvd + k)
       /\ nackNet' = Alive(nackNet, nRcvd + k)
    BY <1>16 DEF WriteTake
  <2>2. k \in Nat /\ k < SeqMod
    BY Sizes, SeqModType
  <2>3. rcvNxt' \in SeqNums
    BY <2>1, <2>2, SeqModType DEF TypeOK, Add, SeqNums
  <2>4. toWrite' \in Seq(Nat)
    <3>1. \A i \in 1..k : rcvBuf[Add(rcvNxt, i - 1)] \in Nat
      BY <2>1, <2>2 DEF ReadyIs, TypeOK
    <3> QED BY <2>1, <2>2, <3>1
  <2>5. DOMAIN rcvBuf' \subseteq SeqNums /\ \A s \in DOMAIN rcvBuf' : rcvBuf'[s] \in Nat
    BY <2>1 DEF TypeOK
  <2>6. dataNet' \subseteq Flight /\ ackNet' \subseteq Flight
        /\ nackNet' \subseteq [sn : SeqNums, at : Nat]
    BY <2>1, AliveSubset DEF TypeOK
  <2> QED BY <1>16, <2>1, <2>2, <2>3, <2>4, <2>5, <2>6 DEF WriteTake, TypeOK, sndVars
<1>17. CASE WriteDone
  BY <1>17 DEF WriteDone, TypeOK, sndVars, netVars
<1>18. CASE AckRemove
  BY <1>18, PushType DEF AckRemove, TypeOK, netVars, rcvVars
<1>19. CASE MaybeSendDataNacks
  <2>1. nackNet' \subseteq [sn : SeqNums, at : Nat]
    <3>1. \E S \in SUBSET SeqNums : nackNet' = Send(nackNet, Nacks(S))
      BY <1>19 DEF MaybeSendDataNacks, Missing
    <3>2. \A S \in SUBSET SeqNums : Nacks(S) \subseteq [sn : SeqNums, at : Nat]
      BY DEF Nacks, TypeOK
    <3> QED BY <3>1, <3>2, SendSubset DEF TypeOK
  <2> QED BY <1>19, <2>1 DEF MaybeSendDataNacks, TypeOK, sndVars
<1>20. CASE FinalAckWatchdog
  <2>1. [sn |-> rcvNxt - 1, pay |-> nRcvd - 1, at |-> nRcvd] \in Flight
    BY <1>20, SeqModType DEF TypeOK, SeqNums, FinalAckWatchdog
  <2>2. ackNet' \subseteq Flight
    BY <1>20, <2>1, SendSubset DEF FinalAckWatchdog, TypeOK
  <2> QED BY <1>20, <2>2 DEF FinalAckWatchdog, TypeOK, sndVars, rcvVars
<1>21. CASE UNCHANGED vars
  BY <1>21 DEF vars, sndVars, netVars, rcvVars, TypeOK
<1> QED BY <1>1, <1>2, <1>3, <1>4, <1>5, <1>6, <1>7, <1>8, <1>9, <1>10, <1>11, <1>12,
           <1>13, <1>14, <1>15, <1>16, <1>17, <1>18, <1>19, <1>20, <1>21 DEF Next

\* Every reachable state is well typed: wire numbers never leave the uint16
\* range, whatever the interleaving of the goroutines.
THEOREM TypeCorrect == Spec => []TypeOK
<1> QED BY TypeInit, TypeStep, PTL DEF Spec

-----------------------------------------------------------------------------
(* What the inductive invariant says about distances.                      *)

LEMMA FiniteBuffers ==
  ASSUME TypeOK
  PROVE  /\ IsFiniteSet(DOMAIN sndBuf) /\ Cardinality(DOMAIN sndBuf) \in Nat
         /\ IsFiniteSet(DOMAIN rcvBuf) /\ Cardinality(DOMAIN rcvBuf) \in Nat
<1>1. IsFiniteSet(SeqNums)
  BY FS_Interval, SeqModType DEF SeqNums
<1>2. DOMAIN sndBuf \subseteq SeqNums /\ DOMAIN rcvBuf \subseteq SeqNums
  BY DEF TypeOK
<1>3. IsFiniteSet(DOMAIN sndBuf) /\ IsFiniteSet(DOMAIN rcvBuf)
  BY <1>1, <1>2, FS_Subset
<1> QED BY <1>3, FS_CardinalityType

\* ioLoop limits the number of unacknowledged chunks; the distance between
\* what it reads and what the writer takes is limited only because whatever
\* is acknowledged is within the receive window.
LEMMA Span ==
  ASSUME IInv
  PROVE  /\ nSent - nRcvd <= RecvWindow + 1 + Cardinality(DOMAIN sndBuf)
         /\ nSent - nRcvd <= RecvWindow + 1 + Limit
         /\ nSent - nRcvd < SeqMod
<1> DEFINE Far == (nRcvd + RecvWindow + 1)..(nSent - 1)
           f == [i \in Far |-> Wire(i)]
<1>1. nSent \in Nat /\ nRcvd \in Nat
  BY DEF IInv, TypeOK
<1>2. \A i \in Far : i \in Nat /\ Tracked(i)
  <2> SUFFICES ASSUME NEW i \in Far PROVE i \in Nat /\ Tracked(i)
    OBVIOUS
  <2>1. i \in Nat /\ i \in nRcvd..(nSent - 1) /\ i > nRcvd + RecvWindow
    BY <1>1, Sizes
  <2>2. ~Stored(i)
    BY <2>1, <1>1, Sizes DEF IInv, RcvBufOK, Stored
  <2> QED BY <2>1, <2>2 DEF IInv, NoLoss
<1>3. f \in Injection(Far, DOMAIN sndBuf)
  BY <1>2 DEF Injection, IsInjective, Tracked
<1>4. Cardinality(Far) <= Cardinality(DOMAIN sndBuf)
  BY <1>3, FiniteBuffers, FS_Injection DEF IInv
<1>5. Cardinality(Far) = IF nRcvd + RecvWindow + 1 > nSent - 1 THEN 0
                         ELSE nSent - 1 - (nRcvd + RecvWindow + 1) + 1
  BY <1>1, Sizes, FS_Interval
<1>6. Cardinality(DOMAIN sndBuf) \in Nat /\ Cardinality(DOMAIN sndBuf) <= Limit
  BY FiniteBuffers DEF IInv, SndBufOK
<1> HIDE DEF Far, f
<1> QED BY <1>1, <1>4, <1>5, <1>6, Sizes, SeqModType

\* rcvBuf holds at most one chunk more than the receive window.
LEMMA RcvBufSize ==
  ASSUME IInv
  PROVE  Cardinality(DOMAIN rcvBuf) <= RecvWindow + 1
<1>1. Cardinality(DOMAIN rcvBuf \ {rcvNxt}) <= RecvWindow
  BY DEF IInv, RcvBufOK
<1>2. Cardinality(DOMAIN rcvBuf \ {rcvNxt}) =
        IF rcvNxt \in DOMAIN rcvBuf THEN Cardinality(DOMAIN rcvBuf) - 1
                                    ELSE Cardinality(DOMAIN rcvBuf)
  BY FiniteBuffers, FS_RemoveElement DEF IInv
<1> QED BY <1>1, <1>2, FiniteBuffers, Sizes DEF IInv

\* A packet in rxChan is at most MaxAge behind and less than Half ahead, so
\* comparing its serial distance with Half tells which of the two it is.
LEMMA Classification ==
  ASSUME IInv, NEW k \in 1..Len(rxChan)
  PROVE  LET h == rxChan[k] IN
         /\ h.pay \in Nat /\ h.sn = Wire(h.pay) /\ h.pay < nSent
         /\ nRcvd - h.pay <= MaxAge
         /\ Sub(h.sn, rcvNxt) >= Half <=> h.pay < nRcvd
         /\ h.pay >= nRcvd => Sub(h.sn, rcvNxt) = h.pay - nRcvd
<1> DEFINE h == rxChan[k]
<1>1. h.pay \in Nat /\ h.sn = Wire(h.pay) /\ h.pay < nSent /\ nRcvd \in Nat /\ nSent \in Nat
      /\ k \in Nat
  <2>1. rxChan \in Seq([sn : SeqNums, pay : Nat]) /\ nRcvd \in Nat /\ nSent \in Nat
    BY DEF IInv, TypeOK
  <2>2. h \in [sn : SeqNums, pay : Nat] /\ k \in Nat
    BY <2>1, QueueElement
  <2>3. Genuine(h)
    BY DEF IInv, RxOK
  <2> QED BY <2>1, <2>2, <2>3 DEF Genuine
<1>2. nRcvd - h.pay <= MaxAge
  <2>1. nRcvd + Cardinality(DOMAIN rcvBuf) + k - h.pay <= MaxAge + 1
    BY DEF IInv, RxOK
  <2>2. Cardinality(DOMAIN rcvBuf) \in Nat /\ k >= 1
    BY FiniteBuffers DEF IInv
  <2> HIDE DEF h
  <2> QED BY <1>1, <2>1, <2>2, Sizes
<1>3. rcvNxt = Wire(nRcvd)
  BY DEF IInv, Counters
<1> HIDE DEF h
<1>4. CASE h.pay < nRcvd
  <2>1. nRcvd - h.pay <= SeqMod
    BY <1>1, <1>2, Sizes, SeqModType
  <2>2. Sub(Wire(h.pay), Wire(nRcvd)) = SeqMod - (nRcvd - h.pay)
    BY <1>1, <1>4, <2>1, WireSubBehind
  <2>3. Sub(h.sn, rcvNxt) >= Half
    BY <1>1, <1>2, <1>3, <2>2, Sizes, SeqModType
  <2> QED BY <1>1, <1>2, <1>4, <2>3 DEF h
<1>5. CASE h.pay >= nRcvd
  <2>1. h.pay - nRcvd <= RecvWindow + Limit
    BY <1>1, <1>5, Span, Sizes
  <2>2. Sub(Wire(h.pay), Wire(nRcvd)) = h.pay - nRcvd
    BY <1>1, <1>5, <2>1, WireSub, Sizes, SeqModType
  <2>3. Sub(h.sn, rcvNxt) = h.pay - nRcvd /\ ~(Sub(h.sn, rcvNxt) >= Half)
    BY <1>1, <1>3, <2>1, <2>2, Sizes, SeqModType
  <2> QED BY <1>1, <1>2, <1>5, <2>3 DEF h
<1> QED BY <1>1, <1>4, <1>5

-----------------------------------------------------------------------------
(* The invariant is inductive.                                             *)

LEMMA InitIInv == Init => IInv
<1> SUFFICES ASSUME Init PROVE IInv
  OBVIOUS
<1>1. TypeOK
  BY TypeInit
<1>2. Counters
  BY Sizes DEF Init, Counters
<1>3. SndBufOK
  <2>1. Unacked \subseteq 0..(Base - 1) /\ Cardinality(Unacked) <= Limit
    BY SizesAssumption
  <2>0. IsFiniteSet(Unacked)
    <3>1. IsFiniteSet(0..(Base - 1))
      BY FS_Interval, Sizes
    <3> QED BY <2>1, <3>1, FS_Subset
  <2>2. ASSUME NEW s \in DOMAIN sndBuf
        PROVE  sndBuf[s].pay < nSent /\ s = Wire(sndBuf[s].pay)
    <3>1. \E i \in Unacked : Wire(i) = s
      BY DEF Init
    <3>2. LET c == CHOOSE i \in Unacked : Wire(i) = s IN c \in Unacked /\ Wire(c) = s
      BY <3>1
    <3> QED BY <3>2, <2>1, Sizes DEF Init
  <2>3. Cardinality(DOMAIN sndBuf) <= Cardinality(Unacked)
    <3> DEFINE f == [s \in DOMAIN sndBuf |-> sndBuf[s].pay]
    <3>2. \A s \in DOMAIN sndBuf : f[s] \in Unacked /\ Wire(f[s]) = s
      <4> SUFFICES ASSUME NEW s \in DOMAIN sndBuf PROVE f[s] \in Unacked /\ Wire(f[s]) = s
        OBVIOUS
      <4>1. \E i \in Unacked : Wire(i) = s
        BY DEF Init
      <4>2. LET c == CHOOSE i \in Unacked : Wire(i) = s IN c \in Unacked /\ Wire(c) = s
        BY <4>1
      <4> QED BY <4>2 DEF Init
    <3>3. f \in [DOMAIN sndBuf -> Unacked]
      BY <3>2
    <3>4. \A a, b \in DOMAIN sndBuf : f[a] = f[b] => a = b
      BY <3>2
    <3>5. f \in Injection(DOMAIN sndBuf, Unacked)
      BY <3>3, <3>4 DEF Injection, IsInjective
    <3> QED BY <2>0, <3>5, FS_Injection
  <2>4. Cardinality(DOMAIN sndBuf) \in Nat /\ Cardinality(Unacked) \in Nat
    BY <2>0, <1>1, FiniteBuffers, FS_CardinalityType
  <2> QED BY <2>1, <2>2, <2>3, <2>4, Sizes DEF SndBufOK
<1>4. CarriedOK /\ DataOK /\ AckOK
  BY DEF Init, CarriedOK, DataOK, AckOK
<1>5. RxOK
  BY Sizes DEF Init, RxOK
<1>6. RcvBufOK
  <2>1. DOMAIN rcvBuf = {}
    BY DEF Init
  <2>2. Cardinality(DOMAIN rcvBuf \ {rcvNxt}) = 0
    BY <2>1, FS_EmptySet
  <2> QED BY <2>1, <2>2, Sizes DEF RcvBufOK
<1>7. NoLoss
  BY Sizes DEF Init, NoLoss
<1>8. WriterOK
  BY Sizes DEF Init, WriterOK
<1> QED BY <1>1, <1>2, <1>3, <1>4, <1>5, <1>6, <1>7, <1>8 DEF IInv

\* The part of the state that the receiver and the path own.
LEMMA ReceiverUnchanged ==
  ASSUME IInv, UNCHANGED <<rcvVars, netVars, sndNxt, nSent>>
  PROVE  Counters' /\ DataOK' /\ RxOK' /\ RcvBufOK' /\ AckOK' /\ WriterOK'
  BY DEF IInv, rcvVars, netVars, Counters, DataOK, RxOK, RcvBufOK, AckOK, WriterOK,
         Genuine, InTransit, Stored

\* Changing Dispatched flags affects neither what is tracked nor how much.
LEMMA FlagsOnly ==
  ASSUME IInv, UNCHANGED <<rcvBuf, nRcvd, nSent>>,
         DOMAIN sndBuf' = DOMAIN sndBuf,
         \A s \in DOMAIN sndBuf : sndBuf'[s].pay = sndBuf[s].pay
  PROVE  SndBufOK' /\ NoLoss'
<1>1. \A i : (Tracked(i) <=> Tracked(i)') /\ (Stored(i) <=> Stored(i)')
  BY DEF Tracked, Stored
<1>2. NoLoss'
  BY <1>1 DEF IInv, NoLoss
<1> QED BY <1>2 DEF IInv, SndBufOK

LEMMA SenderStep ==
  ASSUME IInv, TypeOK',
         \/ IOPush \/ IOMark \/ RtxMark \/ AckRemove \/ NackPush
         \/ \E S \in SUBSET DOMAIN sndBuf : RtxCollect(S)
         \/ \E j \in rtxJobs : RtxPush(j)
         \/ \E p \in txQueue : Pop(p)
  PROVE  IInv'
<1>1. UNCHANGED <<rcvVars, netVars, sndNxt, nSent>>
  BY DEF IOPush, IOMark, RtxMark, AckRemove, NackPush, RtxCollect, RtxPush, Pop
<1>2. /\ DOMAIN sndBuf' = DOMAIN sndBuf
      /\ \A s \in DOMAIN sndBuf : sndBuf'[s].pay = sndBuf[s].pay
  <2>1. \/ sndBuf' = sndBuf
        \/ \E sn : sndBuf' = SetDispatched(sn, TRUE)
        \/ \E sn : sndBuf' = SetDispatched(sn, FALSE)
    BY DEF IOPush, IOMark, RtxMark, AckRemove, NackPush, RtxCollect, RtxPush, Pop
  <2>2. \A sn, d : d \in BOOLEAN =>
          /\ DOMAIN SetDispatched(sn, d) = DOMAIN sndBuf
          /\ \A s \in DOMAIN sndBuf : SetDispatched(sn, d)[s].pay = sndBuf[s].pay
    BY SetDispatchedType DEF IInv
  <2>3. TRUE \in BOOLEAN /\ FALSE \in BOOLEAN
    OBVIOUS
  <2> QED BY <2>1, <2>2, <2>3
<1>3. CarriedOK'
  <2>1. \A p : Genuine(p)' <=> Genuine(p)
    BY <1>1 DEF Genuine
  <2>2. \A p \in ioPush \cup rtxJobs \cup nackJob \cup txQueue \cup popped : Genuine(p)
    BY DEF IInv, CarriedOK
  <2>4. CASE IOPush
    BY <2>1, <2>2, <2>4, PushType DEF CarriedOK, IOPush
  <2>5. CASE IOMark \/ RtxMark
    BY <2>1, <2>2, <2>5 DEF CarriedOK, IOMark, RtxMark
  <2>6. CASE NackPush
    BY <2>1, <2>2, <2>6, PushType DEF CarriedOK, NackPush
  <2>7. ASSUME NEW j \in rtxJobs, RtxPush(j) PROVE CarriedOK'
    BY <2>1, <2>2, <2>7, PushType DEF CarriedOK, RtxPush
  <2>8. ASSUME NEW p \in txQueue, Pop(p) PROVE CarriedOK'
    BY <2>1, <2>2, <2>8 DEF CarriedOK, Pop
  <2>3. ASSUME NEW S \in SUBSET DOMAIN sndBuf, RtxCollect(S) PROVE CarriedOK'
    BY <2>1, <2>3 DEF IInv, CarriedOK, RtxCollect, SndBufOK, Genuine
  <2>9. CASE AckRemove
    BY <2>1, <2>2, <2>9, PushType DEF CarriedOK, AckRemove
  <2> QED BY <2>3, <2>4, <2>5, <2>6, <2>7, <2>8, <2>9
<1>4. rcvBuf' = rcvBuf /\ nRcvd' = nRcvd /\ nSent' = nSent
  BY <1>1 DEF rcvVars
<1> QED BY <1>1, <1>2, <1>3, <1>4, ReceiverUnchanged, FlagsOnly DEF IInv

LEMMA DispatchStep ==
  ASSUME IInv, TypeOK', Dispatch
  PROVE  IInv'
<1>1. PICK p \in popped :
        /\ popped' = {} /\ sndBuf' = SetDispatched(p.sn, TRUE)
        /\ dataNet' = Send(dataNet,
             {m \in {[sn |-> p.sn, pay |-> p.pay, at |-> nRcvd]} :
                p.sn \in DOMAIN sndBuf /\ nRcvd - p.pay <= MaxUnackedAge})
        /\ UNCHANGED <<sndNxt, ioPush, ioMark, rtxJobs, rtxMark, nackJob, txQueue, nSent,
                       ackNet, nackNet, rcvVars>>
  BY DEF Dispatch
<1>2. UNCHANGED rcvVars /\ UNCHANGED <<rcvBuf, nRcvd, rxChan, rcvNxt, toWrite, out>>
  BY <1>1 DEF rcvVars
<1>3. SndBufOK' /\ NoLoss'
  <2>1. /\ DOMAIN sndBuf' = DOMAIN sndBuf
        /\ \A s \in DOMAIN sndBuf : sndBuf'[s].pay = sndBuf[s].pay
    BY <1>1, SetDispatchedType DEF IInv
  <2> QED BY <1>1, <1>2, <2>1, FlagsOnly
<1>4. CarriedOK'
  BY <1>1 DEF IInv, CarriedOK, Genuine
<1>5. DataOK'
  <2> SUFFICES ASSUME NEW m \in dataNet'
               PROVE  Genuine(m) /\ InTransit(m) /\ m.at - m.pay <= MaxUnackedAge
    BY <1>1, <1>2 DEF DataOK, Genuine, InTransit
  <2>1. CASE m \in dataNet
    BY <2>1 DEF IInv, DataOK
  <2>2. CASE m \notin dataNet
    <3>1. m = [sn |-> p.sn, pay |-> p.pay, at |-> nRcvd] /\ nRcvd - p.pay <= MaxUnackedAge
      BY <1>1, <2>2, SendSubset
    <3>2. Genuine(p) /\ nRcvd \in Nat
      BY DEF IInv, CarriedOK, TypeOK
    <3> QED BY <3>1, <3>2, Sizes DEF Genuine, InTransit
  <2> QED BY <2>1, <2>2
<1>6. Counters' /\ RxOK' /\ RcvBufOK' /\ AckOK' /\ WriterOK'
  BY <1>1, <1>2 DEF IInv, Counters, RxOK, RcvBufOK, AckOK, WriterOK, Genuine, InTransit, Stored
<1> QED BY <1>3, <1>4, <1>5, <1>6 DEF IInv

LEMMA ReadStep ==
  ASSUME IInv, TypeOK', IORead
  PROVE  IInv'
<1>1. /\ nSent' = nSent + 1 /\ sndNxt' = Inc(sndNxt)
      /\ sndBuf' = [s \in DOMAIN sndBuf \cup {sndNxt} |->
                      IF s = sndNxt THEN [pay |-> nSent, disp |-> FALSE] ELSE sndBuf[s]]
      /\ ioPush' = {[type |-> "DATA", sn |-> sndNxt, pay |-> nSent]}
      /\ Cardinality(DOMAIN sndBuf) < Limit
      /\ UNCHANGED <<rtxJobs, nackJob, txQueue, popped>>
      /\ UNCHANGED <<dataNet, ackNet, nackNet>>
      /\ UNCHANGED <<rxChan, rcvNxt, rcvBuf, toWrite, nRcvd, out>>
  BY DEF IORead, WindowNotFull, netVars, rcvVars
<1>2. nSent \in Nat /\ nRcvd \in Nat /\ sndNxt = Wire(nSent) /\ nSent - nRcvd < SeqMod
      /\ nRcvd <= nSent
  BY Span DEF IInv, TypeOK, Counters
<1>3. Counters'
  BY <1>1, <1>2, WireInc DEF Counters, IInv
<1>4. SndBufOK'
  <2>1. \A s \in DOMAIN sndBuf' : sndBuf'[s].pay < nSent' /\ s = Wire(sndBuf'[s].pay)
    BY <1>1, <1>2 DEF IInv, SndBufOK, TypeOK
  <2>2. Cardinality(DOMAIN sndBuf') <= Limit
    <3>1. DOMAIN sndBuf' = DOMAIN sndBuf \cup {sndNxt}
      BY <1>1
    <3>2. Cardinality(DOMAIN sndBuf \cup {sndNxt}) =
            IF sndNxt \in DOMAIN sndBuf THEN Cardinality(DOMAIN sndBuf)
                                        ELSE Cardinality(DOMAIN sndBuf) + 1
      BY FiniteBuffers, FS_AddElement DEF IInv
    <3> QED BY <1>1, <3>1, <3>2, FiniteBuffers, Sizes DEF IInv
  <2> QED BY <2>1, <2>2 DEF SndBufOK
<1>5. \A p : p.pay \in Nat /\ Genuine(p) => Genuine(p)'
  BY <1>1, <1>2 DEF Genuine
<1>6. CarriedOK'
  <2> SUFFICES ASSUME NEW p \in (ioPush \cup rtxJobs \cup nackJob \cup txQueue \cup popped)'
               PROVE  Genuine(p)'
    BY DEF CarriedOK
  <2>1. CASE p \in ioPush'
    BY <1>1, <1>2, <2>1 DEF Genuine
  <2>2. CASE p \in rtxJobs \cup nackJob \cup txQueue \cup popped
    BY <1>5, <2>2 DEF IInv, CarriedOK, TypeOK, Packet
  <2> QED BY <1>1, <2>1, <2>2
<1>7. DataOK'
  <2>1. \A m \in dataNet : m.pay \in Nat
    BY DEF IInv, TypeOK, Flight
  <2> QED BY <1>1, <1>5, <2>1 DEF IInv, DataOK, InTransit
<1>8. RxOK'
  <2>1. \A k \in 1..Len(rxChan) : rxChan[k].pay \in Nat /\ Genuine(rxChan[k])
    BY Classification DEF IInv, RxOK
  <2>2. \A k \in 1..Len(rxChan) : Genuine(rxChan[k])'
    BY <1>1, <1>2, <2>1 DEF Genuine
  <2> QED BY <1>1, <2>2 DEF IInv, RxOK
<1>9. RcvBufOK'
  BY <1>1, <1>2 DEF IInv, RcvBufOK, TypeOK
<1>10. NoLoss'
  <2> SUFFICES ASSUME NEW i \in nRcvd..nSent PROVE Stored(i)' \/ Tracked(i)'
    BY <1>1, <1>2 DEF NoLoss
  <2>1. CASE i = nSent
    BY <1>1, <1>2, <2>1 DEF Tracked
  <2>2. CASE i # nSent
    <3>1. i \in Nat /\ i < nSent /\ nSent - i < SeqMod /\ (Stored(i) \/ Tracked(i))
      <4>1. i \in Nat /\ i < nSent /\ nSent - i < SeqMod /\ i \in nRcvd..(nSent - 1)
        BY <1>2, <2>2, SeqModType
      <4> QED BY <4>1 DEF IInv, NoLoss
    <3>2. Wire(i) # sndNxt
      BY <1>2, <3>1, WireInjective, SeqModType
    <3> QED BY <1>1, <3>1, <3>2 DEF Stored, Tracked
  <2> QED BY <2>1, <2>2
<1>11. AckOK'
  <2>1. \A m \in ackNet : m.pay \in Nat
    BY DEF IInv, TypeOK, Flight
  <2> QED BY <1>1, <1>5, <2>1 DEF IInv, AckOK, InTransit, Stored
<1>12. WriterOK'
  BY <1>1 DEF IInv, WriterOK
<1> QED BY <1>3, <1>4, <1>6, <1>7, <1>8, <1>9, <1>10, <1>11, <1>12 DEF IInv

LEMMA AckStep ==
  ASSUME IInv, TypeOK', NEW m \in ackNet, ReceiveAck(m)
  PROVE  IInv'
<1>1. /\ ackNet' \subseteq ackNet /\ txQueue' \subseteq txQueue
      /\ UNCHANGED <<sndNxt, ioPush, rtxJobs, nackJob, popped, nSent, dataNet, nackNet>>
      /\ UNCHANGED <<rxChan, rcvNxt, rcvBuf, toWrite, nRcvd, out>>
  BY PushType DEF ReceiveAck, Consume, rcvVars
<1>2. sndBuf' = [s \in DOMAIN sndBuf \ {m.sn} |-> sndBuf[s]]
  BY DEF ReceiveAck
<1>3. Counters' /\ CarriedOK' /\ DataOK' /\ RxOK' /\ RcvBufOK' /\ AckOK' /\ WriterOK'
  BY <1>1 DEF IInv, Counters, CarriedOK, DataOK, RxOK, RcvBufOK, AckOK, WriterOK,
              Genuine, InTransit, Stored
<1>4. SndBufOK'
  <2>1. DOMAIN sndBuf' \subseteq DOMAIN sndBuf
    BY <1>2
  <2>2. Cardinality(DOMAIN sndBuf') <= Cardinality(DOMAIN sndBuf)
        /\ Cardinality(DOMAIN sndBuf') \in Nat
    BY <2>1, FiniteBuffers, FS_Subset, FS_CardinalityType DEF IInv
  <2> QED BY <1>1, <1>2, <2>2, FiniteBuffers, Sizes DEF IInv, SndBufOK
<1>5. NoLoss'
  <2> SUFFICES ASSUME NEW i \in nRcvd..(nSent - 1) PROVE Stored(i)' \/ Tracked(i)'
    BY <1>1 DEF NoLoss
  <2>1. nRcvd \in Nat /\ nSent \in Nat /\ m.pay \in Nat /\ m.at \in Nat /\ i \in Nat
    BY DEF IInv, TypeOK, Flight
  <2>2. /\ m.pay < nSent /\ m.sn = Wire(m.pay)
        /\ nRcvd - m.at <= MaxTransit /\ m.at - m.pay <= MaxAge
        /\ m.pay < nRcvd \/ Stored(m.pay)
    BY DEF IInv, AckOK, Genuine, InTransit
  <2>3. Stored(i) \/ Tracked(i)
    BY DEF IInv, NoLoss
  <2>4. i - m.pay < SeqMod /\ m.pay - i < SeqMod
    BY <2>1, <2>2, Span, Sizes, SeqModType
  <2>5. Wire(i) = m.sn => i = m.pay
    BY <2>1, <2>2, <2>4, WireInjective
  <2>6. Stored(i) => Stored(i)'
    BY <1>1 DEF Stored
  <2>7. Tracked(i) /\ Wire(i) # m.sn => Tracked(i)'
    BY <1>2 DEF Tracked
  <2> QED BY <2>1, <2>2, <2>3, <2>5, <2>6, <2>7
<1> QED BY <1>3, <1>4, <1>5 DEF IInv

LEMMA NackStep ==
  ASSUME IInv, TypeOK', NEW m \in nackNet, HandleDataNack(m)
  PROVE  IInv'
<1>1. /\ UNCHANGED <<sndNxt, sndBuf, ioPush, rtxJobs, txQueue, popped, nSent, dataNet, ackNet>>
      /\ UNCHANGED <<rxChan, rcvNxt, rcvBuf, toWrite, nRcvd, out>>
  BY DEF HandleDataNack, rcvVars
<1>2. CarriedOK'
  <2>1. \A p \in nackJob' : Genuine(p)
    BY DEF HandleDataNack, IInv, SndBufOK, Genuine
  <2> QED BY <1>1, <2>1 DEF IInv, CarriedOK, Genuine
<1> QED BY <1>1, <1>2 DEF IInv, Counters, SndBufOK, DataOK, RxOK, RcvBufOK, NoLoss, AckOK,
                          WriterOK, Genuine, InTransit, Stored, Tracked

LEMMA PathStep ==
  ASSUME IInv, TypeOK', Lose \/ GapRecovery \/ MaybeSendDataNacks
  PROVE  IInv'
<1>1. dataNet' \subseteq dataNet /\ ackNet' \subseteq ackNet
  BY DEF Lose, GapRecovery, MaybeSendDataNacks
<1>2. UNCHANGED <<sndNxt, sndBuf, ioPush, rtxJobs, nackJob, txQueue, popped, nSent,
                  rxChan, rcvNxt, rcvBuf, toWrite, nRcvd, out>>
  BY DEF Lose, GapRecovery, MaybeSendDataNacks, sndVars, rcvVars
<1> QED BY <1>1, <1>2 DEF IInv, Counters, SndBufOK, CarriedOK, DataOK, RxOK, RcvBufOK, NoLoss,
                          AckOK, WriterOK, Genuine, InTransit, Stored, Tracked

LEMMA FinalAckStep ==
  ASSUME IInv, TypeOK', FinalAckWatchdog
  PROVE  IInv'
<1>1. /\ ackNet' = Send(ackNet, {[sn |-> rcvNxt - 1, pay |-> nRcvd - 1, at |-> nRcvd]})
      /\ rcvNxt > 0 /\ nRcvd > 0
      /\ UNCHANGED <<sndNxt, sndBuf, ioPush, rtxJobs, nackJob, txQueue, popped, nSent,
                     dataNet, rxChan, rcvNxt, rcvBuf, toWrite, nRcvd, out>>
  BY DEF FinalAckWatchdog, sndVars, rcvVars
<1> DEFINE m == [sn |-> rcvNxt - 1, pay |-> nRcvd - 1, at |-> nRcvd]
<1>2. nRcvd \in Nat /\ nSent \in Nat /\ nRcvd <= nSent /\ rcvNxt = Wire(nRcvd)
  BY DEF IInv, TypeOK, Counters
<1>3. Wire(nRcvd - 1) = rcvNxt - 1
  <2>1. nRcvd - 1 \in Nat /\ (nRcvd - 1) + 1 = nRcvd
    BY <1>1, <1>2
  <2>2. Inc(Wire(nRcvd - 1)) = rcvNxt
    BY <1>2, <2>1, WireInc
  <2>3. Wire(nRcvd - 1) \in SeqNums
    BY <2>1, WireRange
  <2> QED BY <1>1, <2>2, <2>3, SeqModType DEF Inc, SeqNums
<1>4. Genuine(m) /\ InTransit(m) /\ m.at - m.pay <= MaxAge /\ m.pay < nRcvd
  BY <1>1, <1>2, <1>3, Sizes, SizesAssumption DEF Genuine, InTransit
<1>5. AckOK'
  <2>1. \A x \in ackNet' : x \in ackNet \/ x = m
    BY <1>1, SendSubset
  <2> HIDE DEF m
  <2> QED BY <1>1, <1>4, <2>1 DEF IInv, AckOK, Genuine, InTransit, Stored
<1> QED BY <1>1, <1>5 DEF IInv, Counters, SndBufOK, CarriedOK, DataOK, RxOK, RcvBufOK,
                          NoLoss, WriterOK, Genuine, InTransit, Stored, Tracked

LEMMA ReceiveDataStep ==
  ASSUME IInv, TypeOK', NEW m \in dataNet, ReceiveData(m)
  PROVE  IInv'
<1>1. /\ dataNet' \subseteq dataNet
      /\ UNCHANGED <<sndNxt, sndBuf, ioPush, rtxJobs, nackJob, txQueue, popped, nSent,
                     ackNet, rcvNxt, rcvBuf, toWrite, nRcvd, out>>
  BY DEF ReceiveData, Consume, sndVars
<1>2. RxOK'
  <2>1. CASE rxChan' = rxChan
    BY <1>1, <2>1 DEF IInv, RxOK, Genuine
  <2>2. CASE Len(rxChan) < RxChanCap /\ rxChan' = Append(rxChan, [sn |-> m.sn, pay |-> m.pay])
    <3> DEFINE x == [sn |-> m.sn, pay |-> m.pay]
               n == Len(rxChan)
    <3>1. rxChan \in Seq([sn : SeqNums, pay : Nat]) /\ n \in Nat /\ nRcvd \in Nat
      BY DEF IInv, TypeOK
    <3>2. Len(rxChan') = n + 1 /\ rxChan'[n + 1] = x
          /\ \A k \in 1..n : rxChan'[k] = rxChan[k]
      BY <2>2, <3>1
    <3>3. Len(rxChan') <= RxChanCap
      BY <2>2, <3>1, <3>2, Sizes
    <3>4. Genuine(x) /\ nRcvd + Cardinality(DOMAIN rcvBuf) + (n + 1) - x.pay <= MaxAge + 1
      <4>1. Genuine(m) /\ nRcvd - m.at <= MaxTransit /\ m.at - m.pay <= MaxUnackedAge
        BY DEF IInv, DataOK, InTransit
      <4>2. m.pay \in Nat /\ m.at \in Nat
        BY DEF IInv, TypeOK, Flight
      <4>3. Cardinality(DOMAIN rcvBuf) \in Nat /\ Cardinality(DOMAIN rcvBuf) <= RecvWindow + 1
        BY FiniteBuffers, RcvBufSize DEF IInv
      <4>4. n + 1 <= RxChanCap
        BY <2>2, <3>1, Sizes
      <4>5. nRcvd + Cardinality(DOMAIN rcvBuf) + (n + 1) - m.pay <= MaxAge + 1
        <5>1. nRcvd \in Nat /\ n + 1 \in Nat
          BY <3>1
        <5> HIDE DEF n
        <5> QED BY <4>1, <4>2, <4>3, <4>4, <5>1, AgeOnArrival
      <4> QED BY <4>1, <4>5 DEF Genuine
    <3>5. ASSUME NEW k \in 1..(n + 1)
          PROVE  /\ Genuine(rxChan'[k])
                 /\ nRcvd + Cardinality(DOMAIN rcvBuf) + k - rxChan'[k].pay <= MaxAge + 1
      <4>1. CASE k = n + 1
        BY <3>2, <3>4, <4>1
      <4>2. CASE k \in 1..n
        BY <3>2, <4>2 DEF IInv, RxOK
      <4> QED BY <3>1, <4>1, <4>2
    <3> QED BY <1>1, <3>2, <3>3, <3>5 DEF RxOK, Genuine
  <2> QED BY <2>1, <2>2 DEF ReceiveData
<1> QED BY <1>1, <1>2 DEF IInv, Counters, SndBufOK, CarriedOK, DataOK, RcvBufOK, NoLoss,
                          AckOK, WriterOK, Genuine, InTransit, Stored, Tracked

LEMMA WriteDoneStep ==
  ASSUME IInv, TypeOK', WriteDone
  PROVE  IInv'
<1>1. /\ out' = out \o toWrite /\ toWrite' = <<>>
      /\ UNCHANGED <<sndNxt, sndBuf, ioPush, rtxJobs, nackJob, txQueue, popped, nSent,
                     dataNet, ackNet, nackNet, rxChan, rcvNxt, rcvBuf, nRcvd>>
  BY DEF WriteDone, sndVars, netVars
<1>2. WriterOK'
  <2>1. out \in Seq(Nat) /\ toWrite \in Seq(Nat)
    BY DEF IInv, TypeOK
  <2>2. /\ Len(out) + Len(toWrite) = nRcvd
        /\ \A i \in 1..Len(out) : out[i] = i - 1
        /\ \A i \in 1..Len(toWrite) : toWrite[i] = Len(out) + i - 1
    BY DEF IInv, WriterOK
  <2>3. Len(out \o toWrite) = Len(out) + Len(toWrite)
    BY <2>1
  <2>4. \A i \in 1..(Len(out) + Len(toWrite)) : (out \o toWrite)[i] = i - 1
    <3> SUFFICES ASSUME NEW i \in 1..(Len(out) + Len(toWrite))
                 PROVE  (out \o toWrite)[i] = i - 1
      OBVIOUS
    <3>1. CASE i <= Len(out)
      BY <2>1, <2>2, <3>1
    <3>2. CASE i > Len(out)
      <4>1. (out \o toWrite)[i] = toWrite[i - Len(out)] /\ i - Len(out) \in 1..Len(toWrite)
        BY <2>1, <3>2
      <4> QED BY <2>1, <2>2, <4>1
    <3> QED BY <2>1, <3>1, <3>2
  <2> QED BY <1>1, <2>1, <2>2, <2>3, <2>4 DEF WriterOK
<1> QED BY <1>1, <1>2 DEF IInv, Counters, SndBufOK, CarriedOK, DataOK, RxOK, RcvBufOK, NoLoss,
                          AckOK, Genuine, InTransit, Stored, Tracked

\* Moving on by k chunks (d of them kept out of c buffered) makes a packet at
\* most as old as before.
LEMMA AgeArithmetic ==
  ASSUME NEW x \in Int, NEW k \in Int, NEW c \in Int, NEW d \in Int,
         NEW j \in Int, NEW p \in Int, NEW a \in Int,
         d + k <= c, x + c + j - p <= a
  PROVE  (x + k) + d + j - p <= a
OBVIOUS

LEMMA RxProcessStep ==
  ASSUME IInv, TypeOK', RxProcess
  PROVE  IInv'
<1> DEFINE h == Head(rxChan)
           n == Len(rxChan)
<1>1. /\ rxChan # <<>> /\ rxChan' = Tail(rxChan)
      /\ UNCHANGED <<sndNxt, sndBuf, ioPush, rtxJobs, nackJob, txQueue, popped, nSent,
                     dataNet, rcvNxt, toWrite, nRcvd, out>>
  BY DEF RxProcess, sndVars
<1>2. /\ rxChan \in Seq([sn : SeqNums, pay : Nat]) /\ nRcvd \in Nat /\ nSent \in Nat
      /\ n \in Nat /\ n >= 1 /\ h = rxChan[1]
      /\ Len(rxChan') = n - 1 /\ \A k \in 1..(n - 1) : rxChan'[k] = rxChan[k + 1]
  <2>1. rxChan \in Seq([sn : SeqNums, pay : Nat]) /\ nRcvd \in Nat /\ nSent \in Nat
    BY DEF IInv, TypeOK
  <2> QED BY <1>1, <2>1
<1>3. /\ h.pay \in Nat /\ h.sn = Wire(h.pay) /\ h.pay < nSent
      /\ nRcvd - h.pay <= MaxAge
      /\ Sub(h.sn, rcvNxt) >= Half <=> h.pay < nRcvd
      /\ h.pay >= nRcvd => Sub(h.sn, rcvNxt) = h.pay - nRcvd
  <2>1. 1 \in 1..Len(rxChan)
    BY <1>2
  <2> QED BY <1>2, <2>1, Classification
\* What the head of the channel does to rcvBuf, and what it acknowledges.
<1>4. /\ DOMAIN rcvBuf \subseteq DOMAIN rcvBuf'
      /\ \A s \in DOMAIN rcvBuf : rcvBuf'[s] = rcvBuf[s]
      /\ \A s \in DOMAIN rcvBuf' \ DOMAIN rcvBuf :
           s = h.sn /\ rcvBuf'[s] = h.pay /\ nRcvd <= h.pay /\ h.pay <= nRcvd + RecvWindow
      /\ Cardinality(DOMAIN rcvBuf') <= Cardinality(DOMAIN rcvBuf) + 1
      /\ Cardinality(DOMAIN rcvBuf') \in Nat
      /\ Cardinality(DOMAIN rcvBuf' \ {rcvNxt}) <= RecvWindow
  <2>1. CASE rcvBuf' = rcvBuf
    BY <2>1, FiniteBuffers DEF IInv, RcvBufOK
  <2>2. CASE RxStore(h)
    <3>1. /\ Sub(h.sn, rcvNxt) < Half /\ Sub(h.sn, rcvNxt) <= RecvWindow
          /\ \/ h.sn \in DOMAIN rcvBuf
             \/ Cardinality(DOMAIN rcvBuf) < RecvWindow
             \/ h.sn = rcvNxt
          /\ rcvBuf' = [s \in DOMAIN rcvBuf \cup {h.sn} |->
                          IF s \in DOMAIN rcvBuf THEN rcvBuf[s] ELSE h.pay]
      BY <2>2 DEF RxStore
    <3>2. nRcvd <= h.pay /\ h.pay <= nRcvd + RecvWindow
      <4>1. rcvNxt \in 0..(SeqMod - 1) /\ h.sn \in 0..(SeqMod - 1)
        BY <1>3, WireRange DEF IInv, TypeOK, SeqNums
      <4>2. Sub(h.sn, rcvNxt) \in Int
        BY <4>1, SeqModType DEF Sub
      <4>3. ~(h.pay < nRcvd)
        BY <1>3, <3>1, <4>2, SeqModType
      <4> QED BY <1>2, <1>3, <3>1, <4>3, Sizes
    <3>3. Cardinality(DOMAIN rcvBuf') <= Cardinality(DOMAIN rcvBuf) + 1
          /\ Cardinality(DOMAIN rcvBuf') \in Nat
      <4>1. DOMAIN rcvBuf' = DOMAIN rcvBuf \cup {h.sn}
        BY <3>1
      <4> HIDE DEF h
      <4> QED BY <4>1, FiniteBuffers, FS_AddElement DEF IInv
    <3>4. Cardinality(DOMAIN rcvBuf' \ {rcvNxt}) <= RecvWindow
      <4>1. CASE h.sn \in DOMAIN rcvBuf \/ h.sn = rcvNxt
        <5>1. DOMAIN rcvBuf' \ {rcvNxt} = DOMAIN rcvBuf \ {rcvNxt}
          BY <3>1, <4>1
        <5> QED BY <5>1 DEF IInv, RcvBufOK
      <4>2. CASE Cardinality(DOMAIN rcvBuf) < RecvWindow
        <5>1. IsFiniteSet(DOMAIN rcvBuf')
          BY FiniteBuffers, FS_AddElement, <3>1 DEF IInv
        <5>2. Cardinality(DOMAIN rcvBuf' \ {rcvNxt}) <= Cardinality(DOMAIN rcvBuf')
              /\ Cardinality(DOMAIN rcvBuf' \ {rcvNxt}) \in Nat
          BY <5>1, FS_Subset, FS_CardinalityType
        <5> QED BY <3>3, <4>2, <5>2, FiniteBuffers, Sizes DEF IInv
      <4> QED BY <3>1, <4>1, <4>2
    <3> HIDE DEF h
    <3> QED BY <3>1, <3>2, <3>3, <3>4
  <2> QED BY <2>1, <2>2 DEF RxProcess, RxOld, RxDrop
<1>5. \A i : Stored(i) => Stored(i)'
  BY <1>4 DEF Stored
<1>6. Counters' /\ SndBufOK' /\ CarriedOK' /\ DataOK' /\ WriterOK'
  BY <1>1 DEF IInv, Counters, SndBufOK, CarriedOK, DataOK, WriterOK, Genuine, InTransit
<1>7. RxOK'
  <2>1. Len(rxChan') <= RxChanCap
    BY <1>2, Sizes DEF IInv, RxOK
  <2>2. ASSUME NEW k \in 1..(n - 1)
        PROVE  /\ Genuine(rxChan'[k])
               /\ nRcvd + Cardinality(DOMAIN rcvBuf') + k - rxChan'[k].pay <= MaxAge + 1
    <3>1. k + 1 \in 1..n /\ k \in Nat
      BY <1>2
    <3>2. Genuine(rxChan[k + 1]) /\ rxChan[k + 1].pay \in Nat
          /\ nRcvd + Cardinality(DOMAIN rcvBuf) + (k + 1) - rxChan[k + 1].pay <= MaxAge + 1
      BY <3>1, Classification DEF IInv, RxOK
    <3>3. Cardinality(DOMAIN rcvBuf) \in Nat /\ Cardinality(DOMAIN rcvBuf') \in Nat
      BY FiniteBuffers, <1>4 DEF IInv
    <3>4. rxChan'[k] = rxChan[k + 1]
      BY <1>2, <3>1
    <3>5. /\ Cardinality(DOMAIN rcvBuf') + (-1) <= Cardinality(DOMAIN rcvBuf)
          /\ nRcvd \in Int /\ MaxAge + 1 \in Int /\ k + 1 \in Int
      BY <1>2, <1>4, <3>1, <3>3, Sizes
    <3>6. (nRcvd + (-1)) + Cardinality(DOMAIN rcvBuf') + (k + 1) - rxChan[k + 1].pay
            <= MaxAge + 1
      BY <3>2, <3>3, <3>5, AgeArithmetic
    <3> HIDE DEF h, n
    <3> QED BY <3>1, <3>2, <3>3, <3>4, <3>5, <3>6
  <2> QED BY <1>1, <1>2, <2>1, <2>2 DEF RxOK, Genuine
<1>8. RcvBufOK'
  BY <1>1, <1>3, <1>4 DEF IInv, RcvBufOK
<1>9. NoLoss'
  BY <1>1, <1>5 DEF IInv, NoLoss, Tracked
<1>10. AckOK'
  <2> SUFFICES ASSUME NEW m \in ackNet'
               PROVE  /\ Genuine(m) /\ InTransit(m) /\ m.at - m.pay <= MaxAge
                      /\ m.pay < nRcvd \/ Stored(m.pay)'
    BY <1>1 DEF AckOK, Genuine, InTransit
  <2>1. CASE m \in ackNet
    BY <1>5, <2>1 DEF IInv, AckOK
  <2>2. CASE m \notin ackNet
    <3>1. m = [sn |-> h.sn, pay |-> h.pay, at |-> nRcvd] /\ (RxOld(h) \/ RxStore(h))
      BY <2>2, SendSubset DEF RxProcess, RxOld, RxDrop, RxStore, Ack
    <3>2. Genuine(m) /\ InTransit(m) /\ m.at - m.pay <= MaxAge /\ m.pay = h.pay
      <4>1. m.sn = h.sn /\ m.pay = h.pay /\ m.at = nRcvd
        BY <3>1
      <4>2. MaxTransit \in Nat /\ nRcvd \in Nat
        BY <1>2, Sizes
      <4> HIDE DEF h
      <4> QED BY <1>3, <4>1, <4>2 DEF Genuine, InTransit
    <3>3. CASE RxOld(h)
      BY <1>3, <3>2, <3>3 DEF RxOld
    <3>4. CASE RxStore(h)
      <4>1. Wire(h.pay) \in DOMAIN rcvBuf'
        BY <1>3, <3>4 DEF RxStore
      <4>2. CASE h.sn \notin DOMAIN rcvBuf
        BY <1>3, <1>4, <3>2, <4>1, <4>2 DEF Stored
      <4>3. CASE h.sn \in DOMAIN rcvBuf
        <5>1. /\ rcvBuf[h.sn] \in Nat /\ Wire(rcvBuf[h.sn]) = Wire(h.pay)
              /\ nRcvd <= rcvBuf[h.sn] /\ rcvBuf[h.sn] <= nRcvd + RecvWindow
          BY <1>3, <4>3 DEF IInv, TypeOK, RcvBufOK
        <5>2. h.pay < nRcvd \/ h.pay <= nRcvd + RecvWindow
          <6>1. Sub(h.sn, rcvNxt) < Half /\ Sub(h.sn, rcvNxt) <= RecvWindow
            BY <3>4 DEF RxStore
          <6>2. RecvWindow \in Nat /\ nRcvd \in Nat /\ h.pay \in Nat
            BY <1>2, <1>3, Sizes
          <6> HIDE DEF h
          <6> QED BY <1>3, <6>1, <6>2
        <5>3. CASE h.pay < nRcvd
          BY <3>2, <5>3
        <5>4. CASE ~(h.pay < nRcvd)
          <6>1. rcvBuf[h.sn] = h.pay
            <7>1. nRcvd \in Nat /\ h.pay \in Nat /\ nRcvd <= h.pay /\ h.pay <= nRcvd + RecvWindow
              <8>1. nRcvd \in Nat /\ h.pay \in Nat
                BY <1>2, <1>3
              <8> HIDE DEF h
              <8> QED BY <5>2, <5>4, <8>1
            <7> HIDE DEF h
            <7> QED BY <5>1, <7>1, WireInWindow
          <6> QED BY <1>3, <1>4, <3>2, <4>3, <6>1 DEF Stored
        <5> QED BY <5>3, <5>4
      <4> QED BY <3>2, <4>2, <4>3
    <3> QED BY <3>1, <3>2, <3>3, <3>4
  <2> QED BY <2>1, <2>2
<1> QED BY <1>6, <1>7, <1>8, <1>9, <1>10 DEF IInv

LEMMA WriteTakeStep ==
  ASSUME IInv, TypeOK', WriteTake
  PROVE  IInv'
<1>1. PICK k \in 1..(RecvWindow + 1) :
       /\ ReadyIs(k)
       /\ toWrite' = [i \in 1..k |-> rcvBuf[Add(rcvNxt, i - 1)]]
       /\ rcvBuf' = [s \in {t \in DOMAIN rcvBuf : Sub(t, rcvNxt) >= k} |-> rcvBuf[s]]
       /\ rcvNxt' = Add(rcvNxt, k)
       /\ nRcvd' = nRcvd + k
       /\ dataNet' = Alive(dataNet, nRcvd + k)
       /\ ackNet' = Alive(ackNet, nRcvd + k)
       /\ nackNet' = Alive(nackNet, nRcvd + k)
  BY DEF WriteTake
<1>2. /\ toWrite = <<>>
      /\ UNCHANGED <<sndNxt, sndBuf, ioPush, rtxJobs, nackJob, txQueue, popped, nSent,
                     rxChan, out>>
  BY DEF WriteTake, sndVars
<1>3. /\ k \in Nat /\ k >= 1 /\ k <= RecvWindow + 1 /\ k < SeqMod
      /\ nRcvd \in Nat /\ nSent \in Nat /\ rcvNxt = Wire(nRcvd)
  <2>1. nRcvd \in Nat /\ nSent \in Nat /\ rcvNxt = Wire(nRcvd)
    BY DEF IInv, TypeOK, Counters
  <2> QED BY <2>1, Sizes, SeqModType
\* The run that is taken is the next k chunks.
<1>4. ASSUME NEW i \in 0..(k - 1)
      PROVE  /\ Add(rcvNxt, i) = Wire(nRcvd + i)
             /\ Wire(nRcvd + i) \in DOMAIN rcvBuf
             /\ rcvBuf[Wire(nRcvd + i)] = nRcvd + i
  <2>1. i \in Nat /\ i < SeqMod /\ Add(rcvNxt, i) = Wire(nRcvd + i)
    BY <1>3, WireAdd, SeqModType
  <2>2. Wire(nRcvd + i) \in DOMAIN rcvBuf
    BY <1>1, <2>1 DEF ReadyIs
  <2> DEFINE p == rcvBuf[Wire(nRcvd + i)]
  <2>3. p \in Nat /\ nRcvd <= p /\ p <= nRcvd + RecvWindow /\ Wire(nRcvd + i) = Wire(p)
    BY <2>2 DEF IInv, TypeOK, RcvBufOK
  <2>4. nRcvd + i \in Nat /\ p - (nRcvd + i) < SeqMod /\ (nRcvd + i) - p < SeqMod
    <3> HIDE DEF p
    <3> QED BY <1>3, <2>1, <2>3, Sizes, SeqModType
  <2>5. p = nRcvd + i
    <3> HIDE DEF p
    <3> QED BY <2>3, <2>4, WireInjective
  <2> QED BY <2>1, <2>2, <2>5
\* What is left in rcvBuf is what lies k or more ahead.
<1>5. ASSUME NEW s \in DOMAIN rcvBuf
      PROVE  /\ Sub(s, rcvNxt) = rcvBuf[s] - nRcvd /\ rcvBuf[s] \in Nat
             /\ s \in DOMAIN rcvBuf' <=> rcvBuf[s] >= nRcvd + k
  <2>1. /\ rcvBuf[s] \in Nat /\ nRcvd <= rcvBuf[s] /\ rcvBuf[s] <= nRcvd + RecvWindow
        /\ s = Wire(rcvBuf[s])
    BY DEF IInv, TypeOK, RcvBufOK
  <2>2. Sub(Wire(rcvBuf[s]), Wire(nRcvd)) = rcvBuf[s] - nRcvd
    BY <1>3, <2>1, WireSub, Sizes, SeqModType
  <2>3. Sub(s, rcvNxt) = rcvBuf[s] - nRcvd
    BY <1>3, <2>1, <2>2
  <2>4. s \in DOMAIN rcvBuf' <=> Sub(s, rcvNxt) >= k
    BY <1>1
  <2> QED BY <1>3, <2>1, <2>3, <2>4
<1>6. DOMAIN rcvBuf' \subseteq DOMAIN rcvBuf /\ \A s \in DOMAIN rcvBuf' : rcvBuf'[s] = rcvBuf[s]
  BY <1>1
<1>7. nRcvd + k <= nSent
  <2>1. k - 1 \in 0..(k - 1)
    BY <1>3
  <2>2. rcvBuf[Wire(nRcvd + (k - 1))] = nRcvd + (k - 1) /\ Wire(nRcvd + (k - 1)) \in DOMAIN rcvBuf
    BY <1>4, <2>1
  <2>3. nRcvd + (k - 1) < nSent
    BY <2>2 DEF IInv, RcvBufOK
  <2> QED BY <1>3, <2>3
<1>8. Counters'
  <2>1. Add(rcvNxt, k) = Wire(nRcvd + k)
    BY <1>3, WireAdd
  <2> QED BY <1>1, <1>2, <1>7, <2>1 DEF IInv, Counters
<1>9. SndBufOK' /\ CarriedOK'
  BY <1>2 DEF IInv, SndBufOK, CarriedOK, Genuine
<1>10. DataOK'
  <2>1. \A m \in dataNet' : m \in dataNet /\ (nRcvd + k) - m.at <= MaxTransit /\ m.at \in Nat
    BY <1>1 DEF Alive, IInv, TypeOK, Flight
  <2> QED BY <1>1, <1>2, <1>3, <2>1 DEF IInv, DataOK, Genuine, InTransit
\* Taking k chunks removes k of them from rcvBuf.
<1>11. /\ Cardinality(DOMAIN rcvBuf') + k <= Cardinality(DOMAIN rcvBuf)
       /\ Cardinality(DOMAIN rcvBuf') \in Nat /\ Cardinality(DOMAIN rcvBuf) \in Nat
  <2> DEFINE R == DOMAIN rcvBuf \ DOMAIN rcvBuf'
             f == [i \in 0..(k - 1) |-> Wire(nRcvd + i)]
  <2>1. IsFiniteSet(DOMAIN rcvBuf) /\ IsFiniteSet(DOMAIN rcvBuf') /\ IsFiniteSet(R)
    BY FiniteBuffers, <1>6, FS_Subset, FS_Difference DEF IInv
  <2>2. \A i \in 0..(k - 1) : f[i] \in R /\ rcvBuf[f[i]] = nRcvd + i
    BY <1>3, <1>4, <1>5
  <2>3. f \in Injection(0..(k - 1), R)
    <3>1. f \in [0..(k - 1) -> R]
      BY <2>2
    <3>2. \A a, b \in 0..(k - 1) : f[a] = f[b] => a = b
      BY <1>3, <2>2
    <3> QED BY <3>1, <3>2 DEF Injection, IsInjective
  <2>4. Cardinality(0..(k - 1)) <= Cardinality(R)
    BY <2>1, <2>3, FS_Injection
  <2>5. Cardinality(0..(k - 1)) = k
    BY <1>3, FS_Interval
  <2>6. DOMAIN rcvBuf \ R = DOMAIN rcvBuf' /\ DOMAIN rcvBuf \cap R = R
    BY <1>6
  <2>7. Cardinality(DOMAIN rcvBuf') = Cardinality(DOMAIN rcvBuf) - Cardinality(R)
    BY <2>1, <2>6, FS_Difference
  <2>8. Cardinality(DOMAIN rcvBuf) \in Nat /\ Cardinality(DOMAIN rcvBuf') \in Nat
        /\ Cardinality(R) \in Nat
    BY <2>1, FS_CardinalityType
  <2> HIDE DEF R, f
  <2> QED BY <1>3, <2>4, <2>5, <2>7, <2>8
<1>12. RxOK'
  <2>1. ASSUME NEW j \in 1..Len(rxChan)
        PROVE  (nRcvd + k) + Cardinality(DOMAIN rcvBuf') + j - rxChan[j].pay <= MaxAge + 1
    <3>1. nRcvd + Cardinality(DOMAIN rcvBuf) + j - rxChan[j].pay <= MaxAge + 1
          /\ rxChan[j].pay \in Nat /\ j \in Nat
      BY Classification DEF IInv, RxOK
    <3>2. MaxAge + 1 \in Int
      BY Sizes
    <3> QED BY <1>3, <1>11, <3>1, <3>2, AgeArithmetic
  <2> QED BY <1>1, <1>2, <2>1 DEF IInv, RxOK, Genuine
<1>13. RcvBufOK'
  <2>1. ASSUME NEW s \in DOMAIN rcvBuf'
        PROVE  /\ nRcvd + k <= rcvBuf'[s] /\ rcvBuf'[s] <= nRcvd + k + RecvWindow
               /\ rcvBuf'[s] < nSent /\ s = Wire(rcvBuf'[s])
    <3>1. s \in DOMAIN rcvBuf /\ rcvBuf'[s] = rcvBuf[s] /\ rcvBuf[s] >= nRcvd + k
          /\ rcvBuf[s] \in Nat
      BY <1>5, <1>6
    <3>2. rcvBuf[s] <= nRcvd + RecvWindow /\ rcvBuf[s] < nSent /\ s = Wire(rcvBuf[s])
      BY <3>1 DEF IInv, RcvBufOK
    <3> QED BY <1>3, <3>1, <3>2, Sizes
  <2>2. Cardinality(DOMAIN rcvBuf' \ {rcvNxt'}) <= RecvWindow
    <3>1. rcvNxt \notin DOMAIN rcvBuf'
      <4>1. 0 \in 0..(k - 1) /\ nRcvd + 0 = nRcvd
        BY <1>3
      <4>2. rcvNxt \in DOMAIN rcvBuf /\ rcvBuf[rcvNxt] = nRcvd
        BY <1>3, <1>4, <4>1
      <4> QED BY <1>3, <1>5, <4>2
    <3>2. DOMAIN rcvBuf' \ {rcvNxt'} \subseteq DOMAIN rcvBuf \ {rcvNxt}
      BY <1>6, <3>1
    <3>3. IsFiniteSet(DOMAIN rcvBuf \ {rcvNxt})
      BY FiniteBuffers, FS_RemoveElement DEF IInv
    <3>4. /\ Cardinality(DOMAIN rcvBuf' \ {rcvNxt'}) <= Cardinality(DOMAIN rcvBuf \ {rcvNxt})
          /\ Cardinality(DOMAIN rcvBuf' \ {rcvNxt'}) \in Nat
          /\ Cardinality(DOMAIN rcvBuf \ {rcvNxt}) \in Nat
      BY <3>2, <3>3, FS_Subset, FS_CardinalityType
    <3>5. Cardinality(DOMAIN rcvBuf \ {rcvNxt}) <= RecvWindow
      BY DEF IInv, RcvBufOK
    <3> QED BY <3>4, <3>5, Sizes
  <2> QED BY <1>1, <1>2, <2>1, <2>2 DEF RcvBufOK
<1>14. ASSUME NEW i \in Nat, i >= nRcvd + k, Stored(i) PROVE Stored(i)'
  BY <1>5, <1>6, <1>14 DEF Stored
<1>15. NoLoss'
  <2> SUFFICES ASSUME NEW i \in (nRcvd + k)..(nSent - 1) PROVE Stored(i)' \/ Tracked(i)'
    BY <1>1, <1>2 DEF NoLoss
  <2>1. i \in nRcvd..(nSent - 1) /\ i \in Nat /\ i >= nRcvd + k
    BY <1>3
  <2>2. Stored(i) \/ Tracked(i)
    BY <2>1 DEF IInv, NoLoss
  <2> QED BY <1>2, <1>14, <2>1, <2>2 DEF Tracked
<1>16. AckOK'
  <2> SUFFICES ASSUME NEW m \in ackNet'
               PROVE  /\ Genuine(m) /\ m.at <= nRcvd + k /\ (nRcvd + k) - m.at <= MaxTransit
                      /\ m.at - m.pay <= MaxAge
                      /\ m.pay < nRcvd + k \/ Stored(m.pay)'
    BY <1>1, <1>2 DEF AckOK, Genuine, InTransit
  <2>1. m \in ackNet /\ (nRcvd + k) - m.at <= MaxTransit /\ m.at \in Nat /\ m.pay \in Nat
    BY <1>1 DEF Alive, IInv, TypeOK, Flight
  <2>2. Genuine(m) /\ m.at <= nRcvd /\ m.at - m.pay <= MaxAge
        /\ (m.pay < nRcvd \/ Stored(m.pay))
    BY <2>1 DEF IInv, AckOK, InTransit
  <2> QED BY <1>3, <1>14, <2>1, <2>2
<1>17. WriterOK'
  <2>1. Len(out) = nRcvd /\ out \in Seq(Nat) /\ \A i \in 1..Len(out) : out[i] = i - 1
    BY <1>2, <1>3 DEF IInv, WriterOK, TypeOK
  <2>2. Len(toWrite') = k
    BY <1>1, <1>3
  <2>3. \A i \in 1..k : toWrite'[i] = nRcvd + i - 1
    <3> SUFFICES ASSUME NEW i \in 1..k PROVE toWrite'[i] = nRcvd + i - 1
      OBVIOUS
    <3>1. i - 1 \in 0..(k - 1) /\ toWrite'[i] = rcvBuf[Add(rcvNxt, i - 1)]
      BY <1>1, <1>3
    <3>2. toWrite'[i] = nRcvd + (i - 1)
      BY <1>4, <3>1
    <3> QED BY <1>3, <3>2
  <2> QED BY <1>1, <1>2, <1>3, <2>1, <2>2, <2>3 DEF WriterOK
<1> QED BY <1>8, <1>9, <1>10, <1>12, <1>13, <1>15, <1>16, <1>17 DEF IInv

-----------------------------------------------------------------------------
(* The theorems.                                                           *)

\* Every step preserves the inductive invariant.
LEMMA StepIInv == IInv /\ [Next]_vars => IInv'
<1> SUFFICES ASSUME IInv, [Next]_vars PROVE IInv'
  OBVIOUS
<1>1. TypeOK'
  BY TypeStep DEF IInv
<1>2. CASE IORead
  BY <1>1, <1>2, ReadStep
<1>3. CASE \/ IOPush \/ IOMark \/ RtxMark \/ AckRemove \/ NackPush
           \/ \E S \in SUBSET DOMAIN sndBuf : RtxCollect(S)
           \/ \E j \in rtxJobs : RtxPush(j)
           \/ \E p \in txQueue : Pop(p)
  BY <1>1, <1>3, SenderStep
<1>4. CASE Dispatch
  BY <1>1, <1>4, DispatchStep
<1>5. CASE \E m \in ackNet : ReceiveAck(m)
  BY <1>1, <1>5, AckStep
<1>6. CASE \E m \in nackNet : HandleDataNack(m)
  BY <1>1, <1>6, NackStep
<1>7. CASE Lose \/ GapRecovery \/ MaybeSendDataNacks
  BY <1>1, <1>7, PathStep
<1>8. CASE \E m \in dataNet : ReceiveData(m)
  BY <1>1, <1>8, ReceiveDataStep
<1>9. CASE RxProcess
  BY <1>1, <1>9, RxProcessStep
<1>10. CASE WriteTake
  BY <1>1, <1>10, WriteTakeStep
<1>11. CASE WriteDone
  BY <1>1, <1>11, WriteDoneStep
<1>12. CASE FinalAckWatchdog
  BY <1>1, <1>12, FinalAckStep
<1>13. CASE UNCHANGED vars
  BY <1>1, <1>13 DEF vars, sndVars, netVars, rcvVars, IInv, Counters, SndBufOK,
       CarriedOK, DataOK, RxOK, RcvBufOK, NoLoss, AckOK, WriterOK, Genuine,
       InTransit, Stored, Tracked
<1> QED BY <1>2, <1>3, <1>4, <1>5, <1>6, <1>7, <1>8, <1>9, <1>10, <1>11, <1>12,
           <1>13 DEF Next

\* The inductive invariant holds in every reachable state: wire numbers are
\* those of their chunks, only what the receiver holds is acknowledged, and
\* no packet rxLoop meets is too old to be told from a new one.
THEOREM Invariance == Spec => []IInv
<1> QED BY InitIInv, StepIInv, PTL DEF Spec

\* writeLoop gives the local socket the chunks in the order ioLoop read them,
\* none twice and none missing, for streams of any length.
THEOREM InOrderDelivery == Spec => []InOrder
<1>1. IInv => InOrder
  <2> SUFFICES ASSUME IInv, NEW i \in DOMAIN out PROVE out[i] = i - 1
    BY DEF InOrder
  <2>1. DOMAIN out = 1..Len(out)
    BY DEF IInv, TypeOK
  <2> QED BY <2>1 DEF IInv, WriterOK
<1> QED BY <1>1, Invariance, PTL

\* ReceiveAck never removes from sndBuf a chunk that the receiver does not
\* hold, although acknowledgements are duplicated, delayed and carry numbers
\* that ioLoop uses again.
THEOREM NothingLost == Spec => []NoLoss
<1>1. IInv => NoLoss
  BY DEF IInv
<1> QED BY <1>1, Invariance, PTL

\* processReceivedData's test of sn - rcvNxt against 32768 never mistakes an
\* old packet for a new one or a new one for an old one.
THEOREM SerialNumbersUnambiguous == Spec => []ClassifiedRight
<1>1. IInv => ClassifiedRight
  <2> SUFFICES ASSUME IInv, NEW k \in DOMAIN rxChan
               PROVE  Sub(rxChan[k].sn, rcvNxt) >= Half <=> rxChan[k].pay < nRcvd
    BY DEF ClassifiedRight
  <2>1. k \in 1..Len(rxChan)
    BY DEF IInv, TypeOK
  <2> QED BY <2>1, Classification
<1> QED BY <1>1, Invariance, PTL

\* Seen from the two local sockets, the data plane is a reliable stream: a
\* step of ioLoop that reads is Read, the write of writeLoop is Write, and
\* every other step stutters.
THEOREM Implements == Spec => ReliableSpec
<1>1. Init => Reliable!Init
  BY Sizes DEF Init, Reliable!Init
<1>2. IInv /\ [Next]_vars => [Reliable!Read \/ Reliable!Write]_<<nSent, out>>
  <2> SUFFICES ASSUME IInv, [Next]_vars
               PROVE  [Reliable!Read \/ Reliable!Write]_<<nSent, out>>
    OBVIOUS
  <2>1. CASE IORead
    BY <2>1 DEF IORead, rcvVars, Reliable!Read
  <2>2. CASE WriteDone
    <3> DEFINE k == Len(toWrite)
    <3>1. /\ out \in Seq(Nat) /\ toWrite \in Seq(Nat) /\ k \in Nat
          /\ nRcvd \in Nat /\ nSent \in Nat /\ Len(out) \in Nat
      BY DEF IInv, TypeOK
    <3>2. k # 0
      BY <2>2, <3>1 DEF WriteDone
    <3>3. k \in 1..(nSent - Len(out))
      <4> HIDE DEF k
      <4>1. Len(out) + k = nRcvd /\ nRcvd <= nSent
        BY DEF IInv, WriterOK, Counters, k
      <4> QED BY <3>1, <3>2, <4>1
    <3>4. toWrite = [i \in 1..k |-> Len(out) + i - 1]
      <4>1. toWrite = [i \in 1..k |-> toWrite[i]]
        BY <3>1
      <4>2. \A i \in 1..k : toWrite[i] = Len(out) + i - 1
        BY DEF IInv, WriterOK
      <4> QED BY <4>1, <4>2
    <3>5. out' = out \o [i \in 1..k |-> Len(out) + i - 1] /\ nSent' = nSent
      BY <2>2, <3>4 DEF WriteDone, sndVars
    <3> HIDE DEF k
    <3> QED BY <3>3, <3>5 DEF Reliable!Write
  <2>3. CASE ~IORead /\ ~WriteDone
    <3>1. UNCHANGED <<nSent, out>>
      BY <2>3 DEF Next, vars, sndVars, netVars, rcvVars, IOPush, IOMark, RtxCollect,
           RtxPush, RtxMark, Pop, Dispatch, ReceiveAck, AckRemove, HandleDataNack, NackPush,
           Lose, ReceiveData, RxProcess, MaybeSendDataNacks, GapRecovery,
           FinalAckWatchdog, WriteTake
    <3> QED BY <3>1
  <2> QED BY <2>1, <2>2, <2>3
<1>3. QED
  BY <1>1, <1>2, Invariance, PTL DEF Spec, ReliableSpec, Reliable!Spec

=============================================================================
