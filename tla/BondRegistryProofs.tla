------------------------- MODULE BondRegistryProofs -------------------------
(***************************************************************************)
(* RegistryOK and ServedWhole for any clients, rooms, limits and numbers   *)
(* of connections.  What makes them inductive is what a group of lanes     *)
(* has in common (Group): lanes that are all different, of connections     *)
(* with one connID that have dialled all their rooms, so that the list of  *)
(* rooms they announced no longer changes.                                 *)
(***************************************************************************)
EXTENDS BondRegistry, FiniteSetTheorems, SequenceTheorems, TLAPS

Conn == [client : Clients, id : Nat, phase : {"dial", "hello", "session", "over"},
         at : Nat, up : Seq(Nat)]

LaneId == Nat \X Nat

\* The connections, and the lanes the server has accepted of them: a room that has not
\* been dialled yet has no lane.
ConnInv ==
  /\ conns \in Seq(Conn) /\ bondConnSeq \in [Clients -> Nat]
  /\ \A k \in DOMAIN conns : conns[k].phase = "hello" => conns[k].at \in DOMAIN conns[k].up
  /\ lane \in [DOMAIN lane -> {"hello", "registered", "served", "closed"}]
  /\ \A l \in DOMAIN lane :
       /\ l \in (DOMAIN conns) \X Nat
       /\ conns[l[1]].phase = "dial" => l[2] < conns[l[1]].at

\* A lane of a connection that has announced its lanes.
Announced(l) ==
  /\ l[1] \in DOMAIN conns /\ conns[l[1]].phase # "dial"
  /\ l[2] \in ToSet(conns[l[1]].up)

\* What a Hello says is what its connection will keep to.
HelloInv ==
  /\ hello \in [DOMAIN hello -> [id : Nat, count : Nat]]
  /\ \A l \in DOMAIN hello :
       /\ Announced(l) /\ hello[l].id = conns[l[1]].id
       /\ hello[l].count = Len(conns[l[1]].up)

\* Lanes that were grouped together under a connID.
Group(q, id) ==
  /\ q \in Seq(LaneId) /\ q # <<>>
  /\ \A i, j \in DOMAIN q : q[i] = q[j] => i = j
  /\ \A i \in DOMAIN q : q[i] \in DOMAIN lane /\ Announced(q[i]) /\ conns[q[i][1]].id = id

GroupInv ==
  /\ \A id \in DOMAIN sessions :
       /\ sessions[id] \in [want : Nat, lanes : Seq(LaneId), timer : Nat]
       /\ Group(sessions[id].lanes, id)
       /\ sessions[id].want = Len(conns[sessions[id].lanes[1][1]].up)
  /\ \A g \in served : /\ Group(g, conns[g[1][1]].id)
                       /\ Len(g) >= Len(conns[g[1][1]].up)
  /\ nTimers \in Nat

IInv == ConnInv /\ HelloInv /\ GroupInv /\ RegistryOK

-----------------------------------------------------------------------------
(* Sequences and their elements.                                           *)

\* Appending adds one element.
LEMMA ToSetAppend ==
  ASSUME NEW T, NEW q \in Seq(T), NEW e \in T
  PROVE  ToSet(Append(q, e)) = ToSet(q) \cup {e}
<1> DEFINE a == Append(q, e)
<1>1. DOMAIN a = 1..(Len(q) + 1) /\ DOMAIN q = 1..Len(q) /\ Len(q) \in Nat  OBVIOUS
<1>2. \A i \in 1..Len(q) : a[i] = q[i]  OBVIOUS
<1>3. a[Len(q) + 1] = e  OBVIOUS
<1> HIDE DEF a
<1>4. {a[i] : i \in DOMAIN a} = {q[i] : i \in DOMAIN q} \cup {e}  BY <1>1, <1>2, <1>3
<1> QED BY <1>4 DEF a, ToSet

\* A sequence of one lane.
LEMMA OneLane ==
  ASSUME NEW e \in LaneId, NEW a, a = <<e>>
  PROVE  /\ a \in Seq(LaneId) /\ a # <<>> /\ DOMAIN a = {1} /\ a[1] = e /\ Len(a) = 1
         /\ ToSet(a) = {e}
<1>1. a \in Seq(LaneId) /\ a # <<>> /\ DOMAIN a = {1} /\ a[1] = e /\ Len(a) = 1  OBVIOUS
<1> QED BY <1>1 DEF ToSet

\* What Append leaves.
Appended(a, q, e) ==
  /\ a \in Seq(LaneId) /\ a # <<>> /\ ToSet(a) = {e} \cup ToSet(q)
  /\ DOMAIN a = 1..(Len(q) + 1) /\ DOMAIN q = 1..Len(q) /\ Len(q) \in Nat
  /\ \A i \in 1..Len(q) : a[i] = q[i]
  /\ a[Len(q) + 1] = e

\* Append leaves the lanes in their places and adds one behind them.
LEMMA AppendIs ==
  ASSUME NEW q \in Seq(LaneId), NEW e \in LaneId
  PROVE  Appended(Append(q, e), q, e)
<1>1. ToSet(Append(q, e)) = {e} \cup ToSet(q)  BY ToSetAppend
<1> QED BY <1>1 DEF Appended

\* An interval that starts at 1 has as many elements as its end says.
LEMMA IntervalSize ==
  ASSUME NEW n \in Nat
  PROVE  IsFiniteSet(1..n) /\ Cardinality(1..n) = n
<1>1. 1 \in Int /\ n \in Int  OBVIOUS
<1>2. IsFiniteSet(1..n) /\ Cardinality(1..n) = IF 1 > n THEN 0 ELSE n - 1 + 1
  BY <1>1, FS_Interval
<1> QED BY <1>2

\* A sequence whose elements are all different and among those of a sequence that is not
\* longer has all of them.
LEMMA Pigeonhole ==
  ASSUME NEW g \in Seq(LaneId), NEW u \in Seq(Nat), NEW k \in Nat, Len(g) >= Len(u),
         \A i, j \in DOMAIN g : g[i] = g[j] => i = j,
         \A i \in DOMAIN g : g[i][1] = k /\ g[i][2] \in ToSet(u)
  PROVE  ToSet(g) = {Lane(k, r) : r \in ToSet(u)}
<1> DEFINE U == {Lane(k, r) : r \in ToSet(u)}
           f == [i \in 1..Len(u) |-> Lane(k, u[i])]
<1>1. /\ IsFiniteSet(1..Len(u)) /\ Cardinality(1..Len(u)) = Len(u)
      /\ IsFiniteSet(1..Len(g)) /\ Cardinality(1..Len(g)) = Len(g)
  <2>1. Len(u) \in Nat /\ Len(g) \in Nat  OBVIOUS
  <2> QED BY <2>1, IntervalSize
<1>2. f \in Surjection(1..Len(u), U)
  <2>1. \A i \in 1..Len(u) : u[i] \in ToSet(u)  BY DEF ToSet
  <2>2. f \in [1..Len(u) -> U]  BY <2>1
  <2>3. \A r \in ToSet(u) : \E i \in 1..Len(u) : u[i] = r  BY DEF ToSet
  <2>4. ASSUME NEW x \in U  PROVE \E i \in 1..Len(u) : f[i] = x
    <3>1. PICK r \in ToSet(u) : x = Lane(k, r)  OBVIOUS
    <3>2. PICK i \in 1..Len(u) : u[i] = r  BY <2>3
    <3>3. f[i] = x  BY <3>1, <3>2
    <3> QED BY <3>3
  <2> QED BY <2>2, <2>4 DEF Surjection
<1>3. IsFiniteSet(U) /\ Cardinality(U) <= Len(u)
  BY <1>1, <1>2, FS_Surjection
<1>4. g \in [1..Len(g) -> U]
  <2>1. \A i \in 1..Len(g) : g[i] = Lane(k, g[i][2]) /\ g[i][2] \in ToSet(u)
    BY DEF Lane, LaneId
  <2> QED BY <2>1
<1>5. g \in Injection(1..Len(g), U)
  BY <1>4 DEF Injection, IsInjective
<1>6. Cardinality(U) \in Nat  BY <1>3, FS_CardinalityType
<1>7. Len(g) <= Cardinality(U) /\ (Len(g) = Cardinality(U) => g \in Surjection(1..Len(g), U))
  BY <1>1, <1>3, <1>5, FS_Injection
<1>8. g \in Surjection(1..Len(g), U)  BY <1>3, <1>6, <1>7
<1>9. \A x \in U : \E i \in 1..Len(g) : g[i] = x  BY <1>8 DEF Surjection
<1>10. DOMAIN g = 1..Len(g)  OBVIOUS
<1> QED
  <2> HIDE DEF U
  <2>1. {g[i] : i \in DOMAIN g} = U  BY <1>4, <1>9, <1>10
  <2> QED BY <2>1 DEF ToSet, U

-----------------------------------------------------------------------------
(* The connections.                                                        *)

\* What a step keeps of a connection: its connID, and its rooms once they are dialled.
Keeps ==
  \A k \in DOMAIN conns :
    /\ k \in DOMAIN conns' /\ conns'[k].id = conns[k].id
    /\ conns[k].phase # "dial" => conns'[k].phase # "dial" /\ conns'[k].up = conns[k].up

\* A connection is replaced by another value of its type.
LEMMA ConnReplaced ==
  ASSUME conns \in Seq(Conn), NEW k \in DOMAIN conns, NEW c \in Conn,
         conns' = [conns EXCEPT ![k] = c]
  PROVE  /\ conns' \in Seq(Conn) /\ DOMAIN conns' = DOMAIN conns
         /\ conns'[k] = c /\ \A j \in DOMAIN conns : j # k => conns'[j] = conns[j]
  BY ExceptSeq

\* A connection is opened, or a client starts over.
LEMMA OpenStep ==
  ASSUME ConnInv, NEW c \in Clients, Open(c) \/ Reconnect(c)
  PROVE  ConnInv' /\ Keeps
<1> USE DEF Keeps
<1>0. conns \in Seq(Conn)  BY DEF ConnInv
<1>1. CASE Open(c)
  <2> DEFINE new == [client |-> c, id |-> bondConnSeq[c] + 1, phase |-> "dial",
                     at |-> 1, up |-> <<>>]
  <2>1. new \in Conn  BY DEF Conn, ConnInv
  <2>2. conns' = Append(conns, new)  BY <1>1 DEF Open
  <2>3. /\ conns' \in Seq(Conn) /\ DOMAIN conns' = 1..(Len(conns) + 1)
        /\ \A j \in DOMAIN conns : conns'[j] = conns[j]
        /\ conns'[Len(conns) + 1] = new /\ DOMAIN conns = 1..Len(conns)
    BY <1>0, <2>1, <2>2
  <2> HIDE DEF new
  <2>4. new.phase = "dial"  BY DEF new
  <2>5. \A j \in DOMAIN conns' : j \in DOMAIN conns \/ j = Len(conns) + 1  BY <1>0, <2>3
  <2> QED BY <1>0, <1>1, <2>3, <2>4, <2>5 DEF ConnInv, Open
<1>2. CASE Reconnect(c)
  <2>1. /\ conns' \in Seq(Conn) /\ DOMAIN conns' = DOMAIN conns
    <3>1. Len(conns) \in Nat /\ DOMAIN conns = 1..Len(conns)  BY <1>0
    <3>2. \A j \in DOMAIN conns : conns[j] \in Conn  BY <1>0
    <3>3. \A d \in Conn : [d EXCEPT !.phase = "over"] \in Conn  BY DEF Conn
    <3>4. conns' \in [1..Len(conns) -> Conn]
      BY <1>2, <3>1, <3>2, <3>3 DEF Reconnect
    <3> QED BY <3>1, <3>4, IsASeq
  <2>2. \A j \in DOMAIN conns :
          conns'[j] = conns[j] \/ conns'[j] = [conns[j] EXCEPT !.phase = "over"]
    BY <1>2 DEF Reconnect
  <2>3. \A j \in DOMAIN conns : conns[j] \in Conn  BY <1>0
  <2>4. \A j \in DOMAIN conns :
          /\ conns'[j].id = conns[j].id /\ conns'[j].up = conns[j].up
          /\ conns'[j].at = conns[j].at /\ conns'[j].phase \in {conns[j].phase, "over"}
    BY <2>2, <2>3 DEF Conn
  <2> QED BY <1>2, <2>1, <2>4 DEF ConnInv, Reconnect
<1> QED BY <1>1, <1>2

\* The steps of a connection other than Dial change no lane.
LEMMA ClientStep ==
  ASSUME ConnInv, NEW k \in DOMAIN conns, DialDone(k) \/ WriteHello(k) \/ Close(k)
  PROVE  ConnInv' /\ Keeps
<1> USE DEF Keeps
<1>0. conns \in Seq(Conn) /\ conns[k] \in Conn  BY DEF ConnInv
<1>3. CASE DialDone(k)
  <2> DEFINE d == [conns[k] EXCEPT !.phase = IF conns[k].up = <<>> THEN "over" ELSE "hello",
                                   !.at = 1]
  <2>1. d \in Conn /\ d.id = conns[k].id /\ d.up = conns[k].up /\ d.at = 1
    BY <1>0 DEF Conn
  <2>2. d.phase = "over" \/ (d.phase = "hello" /\ d.up # <<>>)  BY <1>0 DEF Conn
  <2>3. d.phase = "hello" => d.at \in DOMAIN d.up  BY <2>1, <2>2 DEF Conn
  <2>4. conns' = [conns EXCEPT ![k] = d]  BY <1>0, <1>3 DEF DialDone
  <2> HIDE DEF d
  <2>5. conns[k].phase = "dial"  BY <1>3 DEF DialDone
  <2> QED BY <1>0, <1>3, <2>1, <2>2, <2>3, <2>4, <2>5, ConnReplaced DEF ConnInv, DialDone
<1>4. CASE WriteHello(k)
  <2> DEFINE d == [conns[k] EXCEPT !.at = @ + 1,
                      !.phase = IF conns[k].at = Len(conns[k].up) THEN "session" ELSE @]
  <2>1. d \in Conn /\ d.id = conns[k].id /\ d.up = conns[k].up /\ d.at = conns[k].at + 1
    <3>1. conns[k].at + 1 \in Nat  BY <1>0 DEF Conn
    <3>2. (IF conns[k].at = Len(conns[k].up) THEN "session" ELSE conns[k].phase)
            \in {"dial", "hello", "session", "over"}
      BY <1>0 DEF Conn
    <3> QED BY <1>0, <3>1, <3>2 DEF Conn
  <2>2. conns[k].phase = "hello" /\ conns[k].at \in DOMAIN conns[k].up
    BY <1>4 DEF WriteHello, ConnInv
  <2>3. d.phase # "dial" /\ (d.phase = "hello" => d.at \in DOMAIN d.up)
    BY <1>0, <2>1, <2>2 DEF Conn
  <2>4. conns' = [conns EXCEPT ![k] = d]  BY <1>0, <1>4 DEF WriteHello
  <2> HIDE DEF d
  <2> QED BY <1>0, <1>4, <2>1, <2>2, <2>3, <2>4, ConnReplaced DEF ConnInv, WriteHello
<1>5. CASE Close(k)
  <2> DEFINE d == [conns[k] EXCEPT !.phase = "over"]
  <2>1. d \in Conn /\ d.id = conns[k].id /\ d.up = conns[k].up /\ d.phase = "over"
    BY <1>0 DEF Conn
  <2>2. conns' = [conns EXCEPT ![k] = d]  BY <1>0, <1>5 DEF Close
  <2> HIDE DEF d
  <2> QED BY <1>0, <1>5, <2>1, <2>2, ConnReplaced DEF ConnInv, Close
<1> QED BY <1>3, <1>4, <1>5

\* Dial accepts a lane through a room that had none.
LEMMA DialStep ==
  ASSUME ConnInv, NEW k \in DOMAIN conns, Dial(k)
  PROVE  /\ ConnInv' /\ Keeps /\ DOMAIN lane \subseteq DOMAIN lane'
         /\ \A l \in DOMAIN lane : lane'[l] = lane[l]
         /\ \A l \in DOMAIN lane' \ DOMAIN lane : lane'[l] = "hello"
<1> DEFINE l0 == Lane(k, conns[k].at)
<1>0. /\ conns \in Seq(Conn) /\ conns[k] \in Conn /\ conns[k].at \in Nat
      /\ conns[k].phase = "dial" /\ k \in Nat
  <2>1. conns \in Seq(Conn)  BY DEF ConnInv
  <2>2. conns[k] \in Conn /\ k \in Nat  BY <2>1
  <2> QED BY <2>1, <2>2 DEF Conn, Dial
<1>1. l0 \notin DOMAIN lane  BY <1>0 DEF ConnInv, Lane
<1>2. ASSUME NEW d \in Conn, d.id = conns[k].id, d.at = conns[k].at + 1, d.phase = "dial",
             conns' = [conns EXCEPT ![k] = d]
      PROVE  /\ conns' \in Seq(Conn) /\ DOMAIN conns' = DOMAIN conns /\ Keeps
             /\ \A j \in DOMAIN conns :
                  conns'[j].phase = "hello" => conns'[j].at \in DOMAIN conns'[j].up
             /\ \A l \in DOMAIN lane \cup {l0} :
                  /\ l \in (DOMAIN conns') \X Nat
                  /\ conns'[l[1]].phase = "dial" => l[2] < conns'[l[1]].at
  <2>1. /\ conns' \in Seq(Conn) /\ DOMAIN conns' = DOMAIN conns
        /\ conns'[k] = d /\ \A j \in DOMAIN conns : j # k => conns'[j] = conns[j]
    BY <1>0, <1>2, ConnReplaced
  <2>2. \A l \in DOMAIN lane \cup {l0} :
          /\ l \in (DOMAIN conns') \X Nat
          /\ conns'[l[1]].phase = "dial" => l[2] < conns'[l[1]].at
    <3>1. l0 \in (DOMAIN conns') \X Nat /\ l0[1] = k /\ l0[2] = conns[k].at
      BY <1>0, <2>1 DEF Lane
    <3>2. l0[2] < conns'[l0[1]].at  BY <1>0, <1>2, <2>1, <3>1
    <3>3. ASSUME NEW l \in DOMAIN lane
          PROVE  /\ l \in (DOMAIN conns') \X Nat
                 /\ conns'[l[1]].phase = "dial" => l[2] < conns'[l[1]].at
      <4>1. l \in (DOMAIN conns) \X Nat /\ (conns[l[1]].phase = "dial" => l[2] < conns[l[1]].at)
        BY DEF ConnInv
      <4>2. CASE l[1] = k  BY <1>0, <1>2, <2>1, <4>1, <4>2
      <4>3. CASE l[1] # k  BY <2>1, <4>1, <4>3
      <4> QED BY <4>2, <4>3
    <3> QED BY <3>1, <3>2, <3>3
  <2> QED BY <1>0, <1>2, <2>1, <2>2 DEF ConnInv, Keeps
<1>3. CASE /\ conns' = [conns EXCEPT ![k].at = @ + 1, ![k].up = Append(@, conns[k].at)]
           /\ lane' = With(lane, l0, "hello")
  <2> DEFINE d == [conns[k] EXCEPT !.at = @ + 1, !.up = Append(@, conns[k].at)]
  <2>1. /\ d \in Conn /\ d.id = conns[k].id /\ d.at = conns[k].at + 1 /\ d.phase = "dial"
    <3>1. conns[k].at + 1 \in Nat /\ Append(conns[k].up, conns[k].at) \in Seq(Nat)
      BY <1>0 DEF Conn
    <3> QED BY <1>0, <3>1 DEF Conn
  <2>2. conns' = [conns EXCEPT ![k] = d]  BY <1>0, <1>3
  <2>3. /\ DOMAIN lane' = DOMAIN lane \cup {l0}
        /\ lane' = [y \in DOMAIN lane \cup {l0} |-> IF y = l0 THEN "hello" ELSE lane[y]]
    BY <1>3 DEF With
  <2> HIDE DEF d, l0
  <2>4. lane' \in [DOMAIN lane' -> {"hello", "registered", "served", "closed"}]
    BY <2>3 DEF ConnInv
  <2>5. bondConnSeq' = bondConnSeq  BY DEF Dial
  <2> QED BY <1>1, <1>2, <2>1, <2>2, <2>3, <2>4, <2>5 DEF ConnInv
<1>4. CASE conns' = [conns EXCEPT ![k].at = @ + 1] /\ lane' = lane
  <2> DEFINE d == [conns[k] EXCEPT !.at = @ + 1]
  <2>1. /\ d \in Conn /\ d.id = conns[k].id /\ d.at = conns[k].at + 1 /\ d.phase = "dial"
    <3>1. conns[k].at + 1 \in Nat  BY <1>0
    <3> QED BY <1>0, <3>1 DEF Conn
  <2>2. conns' = [conns EXCEPT ![k] = d]  BY <1>0, <1>4
  <2> HIDE DEF d, l0
  <2>3. bondConnSeq' = bondConnSeq  BY DEF Dial
  <2> QED BY <1>1, <1>2, <1>4, <2>1, <2>2, <2>3 DEF ConnInv
<1> QED BY <1>3, <1>4 DEF Dial

\* The server's steps change the state of lanes, not the lanes there are.
LEMMA ServerConn ==
  ASSUME ConnInv, UNCHANGED connVars, DOMAIN lane' = DOMAIN lane,
         lane' \in [DOMAIN lane -> {"hello", "registered", "served", "closed"}]
  PROVE  ConnInv' /\ Keeps
BY DEF ConnInv, Keeps, connVars

-----------------------------------------------------------------------------
(* Announced lanes and groups stay what they are.                          *)

\* What a step keeps of the connections keeps what they announced and how they were grouped.
LEMMA GroupKept ==
  ASSUME Keeps, DOMAIN lane \subseteq DOMAIN lane'
  PROVE  /\ \A l : Announced(l) =>
              /\ Announced(l)'
              /\ conns'[l[1]].id = conns[l[1]].id /\ conns'[l[1]].up = conns[l[1]].up
         /\ \A q, id : Group(q, id) =>
              /\ Group(q, id)' /\ 1 \in DOMAIN q
              /\ conns'[q[1][1]].id = conns[q[1][1]].id
              /\ conns'[q[1][1]].up = conns[q[1][1]].up
<1>1. ASSUME NEW l, Announced(l)
      PROVE  /\ Announced(l)'
             /\ conns'[l[1]].id = conns[l[1]].id /\ conns'[l[1]].up = conns[l[1]].up
  BY <1>1 DEF Announced, Keeps
<1>2. ASSUME NEW q, NEW id, Group(q, id)
      PROVE  /\ Group(q, id)' /\ 1 \in DOMAIN q
             /\ conns'[q[1][1]].id = conns[q[1][1]].id
             /\ conns'[q[1][1]].up = conns[q[1][1]].up
  <2>1. 1 \in DOMAIN q  BY <1>2 DEF Group
  <2> QED BY <1>1, <1>2, <2>1 DEF Group
<1> QED BY <1>1, <1>2

\* A Hello that is on its way stays true, and so do those that are left.
LEMMA HelloKept ==
  ASSUME HelloInv, Keeps, DOMAIN lane \subseteq DOMAIN lane',
         DOMAIN hello' \subseteq DOMAIN hello, hello' = [x \in DOMAIN hello' |-> hello[x]]
  PROVE  HelloInv'
<1>1. \A l \in DOMAIN hello' : l \in DOMAIN hello /\ hello'[l] = hello[l]  OBVIOUS
<1>2. \A l \in DOMAIN hello' :
        /\ Announced(l)' /\ conns'[l[1]].id = conns[l[1]].id /\ conns'[l[1]].up = conns[l[1]].up
  BY <1>1, GroupKept DEF HelloInv
<1>3. hello' \in [DOMAIN hello' -> [id : Nat, count : Nat]]  BY <1>1 DEF HelloInv
<1> QED BY <1>1, <1>2, <1>3 DEF HelloInv

\* A step that leaves the registry alone leaves its groups alone.
LEMMA GroupsKept ==
  ASSUME GroupInv, Keeps, DOMAIN lane \subseteq DOMAIN lane', UNCHANGED <<sessions, served, nTimers>>
  PROVE  GroupInv'
<1>1. ASSUME NEW id \in DOMAIN sessions
      PROVE  /\ Group(sessions[id].lanes, id)'
             /\ (sessions[id].want = Len(conns[sessions[id].lanes[1][1]].up))'
  <2>1. PICK q : q = sessions[id].lanes  OBVIOUS
  <2>2. Group(q, id) /\ sessions[id].want = Len(conns[q[1][1]].up)  BY <2>1 DEF GroupInv
  <2>3. Group(q, id)' /\ conns'[q[1][1]].up = conns[q[1][1]].up  BY <2>2, GroupKept
  <2>4. q = sessions'[id].lanes /\ sessions'[id] = sessions[id]  BY <2>1
  <2> QED BY <2>2, <2>3, <2>4
<1>2. ASSUME NEW g \in served
      PROVE  Group(g, conns[g[1][1]].id)' /\ Len(g) >= Len(conns'[g[1][1]].up)
  <2>1. PICK id : id = conns[g[1][1]].id  OBVIOUS
  <2>2. Group(g, id) /\ Len(g) >= Len(conns[g[1][1]].up)  BY <2>1 DEF GroupInv
  <2>3. /\ Group(g, id)' /\ conns'[g[1][1]].up = conns[g[1][1]].up
        /\ conns'[g[1][1]].id = id
    BY <2>1, <2>2, GroupKept
  <2> QED BY <2>2, <2>3
<1>3. sessions' = sessions /\ served' = served /\ nTimers' = nTimers  OBVIOUS
<1> QED BY <1>1, <1>2, <1>3 DEF GroupInv

-----------------------------------------------------------------------------
(* The registry.                                                           *)

\* The lanes of a set of sessions.
InSession(l) == \E id \in DOMAIN sessions : l \in ToSet(sessions[id].lanes)
InServed(l) == \E g \in served : l \in ToSet(g)

\* Waiting, as a predicate, in this state and the next.
LEMMA WaitingIs ==
  (\A l : l \in Waiting <=> InSession(l)) /\ (\A l : l \in Waiting' <=> InSession(l)')
BY DEF Waiting, InSession

\* Every lane of a session or a served group was accepted, and is in the state that
\* says so.
LEMMA LaneStates ==
  ASSUME GroupInv, RegistryOK
  PROVE  /\ \A id \in DOMAIN sessions : \A l \in ToSet(sessions[id].lanes) :
              l \in DOMAIN lane /\ lane[l] = "registered"
         /\ \A g \in served : \A l \in ToSet(g) : l \in DOMAIN lane /\ lane[l] = "served"
<1>1. ASSUME NEW id \in DOMAIN sessions, NEW l \in ToSet(sessions[id].lanes)
      PROVE  l \in DOMAIN lane /\ lane[l] = "registered"
  <2>1. l \in DOMAIN lane  BY DEF GroupInv, Group, ToSet
  <2>2. l \in Waiting  BY WaitingIs DEF InSession
  <2> QED BY <2>1, <2>2 DEF RegistryOK
<1>2. ASSUME NEW g \in served, NEW l \in ToSet(g)
      PROVE  l \in DOMAIN lane /\ lane[l] = "served"
  <2>1. l \in DOMAIN lane  BY DEF GroupInv, Group, ToSet
  <2> QED BY <2>1 DEF RegistryOK
<1> QED BY <1>1, <1>2

\* The session a lane joins is a group with that lane.
JoinedOK(s, l, id) ==
  /\ s \in [want : Nat, lanes : Seq(LaneId), timer : Nat]
  /\ Group(s.lanes, id) /\ s.want = Len(conns[s.lanes[1][1]].up)
  /\ l \in ToSet(s.lanes)
  /\ id \in DOMAIN sessions => /\ ToSet(s.lanes) = {l} \cup ToSet(sessions[id].lanes)
                               /\ s.timer = sessions[id].timer
  /\ id \notin DOMAIN sessions => ToSet(s.lanes) = {l}

\* The lane that a Hello announces may join the session of its connID.
LEMMA JoinedIs ==
  ASSUME IInv, NEW l \in DOMAIN lane, lane[l] = "hello", l \in DOMAIN hello,
         NEW id, id = hello[l].id, NEW s, s = Joined(l, id, hello[l].count)
  PROVE  JoinedOK(s, l, id)
<1>0. /\ l \in LaneId /\ Announced(l) /\ hello[l].id = conns[l[1]].id
      /\ hello[l].count = Len(conns[l[1]].up) /\ hello[l].count \in Nat /\ nTimers \in Nat
  <2>1. l \in (DOMAIN conns) \X Nat /\ conns \in Seq(Conn)  BY DEF IInv, ConnInv
  <2>2. hello[l] \in [id : Nat, count : Nat]  BY DEF IInv, HelloInv
  <2>3. DOMAIN conns \subseteq Nat  BY <2>1
  <2>4. l \in LaneId  BY <2>1, <2>3 DEF LaneId
  <2> QED BY <2>2, <2>4 DEF IInv, HelloInv, GroupInv
<1>1. CASE id \in DOMAIN sessions
  <2>1. PICK q : q = sessions[id].lanes  OBVIOUS
  <2>2. /\ sessions[id] \in [want : Nat, lanes : Seq(LaneId), timer : Nat]
        /\ Group(q, id) /\ sessions[id].want = Len(conns[q[1][1]].up)
    BY <1>1, <2>1 DEF IInv, GroupInv
  <2>3. s = [sessions[id] EXCEPT !.lanes = Append(q, l)]  BY <1>1, <2>1 DEF Joined
  <2>4. /\ s.lanes = Append(q, l) /\ s.want = sessions[id].want
        /\ s.timer = sessions[id].timer /\ q \in Seq(LaneId)
    BY <2>1, <2>2, <2>3
  <2>a. PICK a : a = Append(q, l)  OBVIOUS
  <2>b. q \in Seq(LaneId) /\ l \in LaneId /\ a = s.lanes  BY <1>0, <2>4, <2>a
  <2>c. Appended(a, q, l)  BY <2>a, <2>b, AppendIs
  <2>5. s \in [want : Nat, lanes : Seq(LaneId), timer : Nat]
    BY <2>2, <2>3, <2>a, <2>c DEF Appended
  <2>6. ToSet(s.lanes) = {l} \cup ToSet(q)  BY <2>b, <2>c DEF Appended
  <2>7. l \notin ToSet(q)  BY <1>1, <2>1, LaneStates DEF IInv
  <2>8. \A i \in DOMAIN q : q[i] # l  BY <2>7 DEF ToSet
  <2>9. /\ DOMAIN s.lanes = 1..(Len(q) + 1) /\ DOMAIN q = 1..Len(q) /\ Len(q) \in Nat
        /\ \A i \in 1..Len(q) : s.lanes[i] = q[i]
        /\ s.lanes[Len(q) + 1] = l
    BY <2>b, <2>c DEF Appended
  <2>10. 1 \in DOMAIN q /\ s.lanes[1] = q[1]  BY <2>2, <2>9 DEF Group
  <2>11. Group(s.lanes, id)
    <3>1. s.lanes \in Seq(LaneId) /\ s.lanes # <<>>  BY <2>b, <2>c DEF Appended
    <3>2. \A i, j \in DOMAIN s.lanes : s.lanes[i] = s.lanes[j] => i = j
      <4>1. \A i, j \in DOMAIN q : q[i] = q[j] => i = j  BY <2>2 DEF Group
      <4>2. \A i \in DOMAIN s.lanes : i \in 1..Len(q) \/ i = Len(q) + 1  BY <2>9
      <4> QED BY <2>8, <2>9, <4>1, <4>2
    <3>3. \A i \in DOMAIN s.lanes :
            /\ s.lanes[i] \in DOMAIN lane /\ Announced(s.lanes[i])
            /\ conns[s.lanes[i][1]].id = id
      <4> SUFFICES ASSUME NEW i \in 1..(Len(q) + 1)
                   PROVE  /\ s.lanes[i] \in DOMAIN lane /\ Announced(s.lanes[i])
                          /\ conns[s.lanes[i][1]].id = id
        BY <2>9
      <4>1. CASE i \in 1..Len(q)  BY <2>2, <2>9, <4>1 DEF Group
      <4>2. CASE i = Len(q) + 1  BY <1>0, <2>9, <4>2
      <4> QED BY <2>9, <4>1, <4>2
    <3> QED BY <3>1, <3>2, <3>3 DEF Group
  <2> QED BY <1>1, <2>1, <2>2, <2>4, <2>5, <2>6, <2>10, <2>11 DEF JoinedOK
<1>2. CASE id \notin DOMAIN sessions
  <2>1. s = [want |-> hello[l].count, lanes |-> <<l>>, timer |-> nTimers + 1]
    BY <1>2 DEF Joined
  <2>2. s.lanes = <<l>> /\ s.timer = nTimers + 1 /\ s.want = hello[l].count  BY <2>1
  <2>3. /\ s.lanes \in Seq(LaneId) /\ s.lanes # <<>> /\ DOMAIN s.lanes = {1}
        /\ s.lanes[1] = l /\ ToSet(s.lanes) = {l}
    BY <1>0, <2>2, OneLane
  <2>4. s \in [want : Nat, lanes : Seq(LaneId), timer : Nat]
    <3>1. nTimers + 1 \in Nat  BY <1>0
    <3> QED BY <1>0, <2>1, <2>2, <2>3, <3>1
  <2>5. Group(s.lanes, id)  BY <1>0, <2>3 DEF Group
  <2>6. s.want = Len(conns[l[1]].up)  BY <1>0, <2>1
  <2> QED BY <1>2, <2>2, <2>3, <2>4, <2>5, <2>6 DEF JoinedOK
<1> QED BY <1>1, <1>2

\* The client's steps: a lane that Dial adds is in no session and in no served group.
LEMMA RegistryClient ==
  ASSUME GroupInv, RegistryOK, UNCHANGED regVars, DOMAIN lane \subseteq DOMAIN lane',
         \A l \in DOMAIN lane : lane'[l] = lane[l],
         \A l \in DOMAIN lane' \ DOMAIN lane : lane'[l] = "hello"
  PROVE  RegistryOK'
<1>1. /\ sessions' = sessions /\ served' = served /\ timers' = timers /\ firing' = firing
  BY DEF regVars
<1>2. \A l \in DOMAIN lane' : /\ lane'[l] = "registered" <=> InSession(l)
                              /\ lane'[l] = "served" <=> InServed(l)
  <2> SUFFICES ASSUME NEW l \in DOMAIN lane'
               PROVE  /\ lane'[l] = "registered" <=> InSession(l)
                      /\ lane'[l] = "served" <=> InServed(l)
    OBVIOUS
  <2>1. CASE l \in DOMAIN lane  BY <2>1, WaitingIs DEF RegistryOK, InServed
  <2>2. CASE l \notin DOMAIN lane
    <3>1. ~InSession(l) /\ ~InServed(l)  BY <2>2, LaneStates DEF InSession, InServed
    <3> QED BY <2>2, <3>1
  <2> QED BY <2>1, <2>2
<1>3. Waiting' = Waiting  BY <1>1 DEF Waiting
<1> QED BY <1>1, <1>2, <1>3, WaitingIs DEF RegistryOK, InServed, Timer

\* A lane whose Hello fails or is refused was in no group.
LEMMA RegistryClose ==
  ASSUME RegistryOK, UNCHANGED regVars, NEW l \in DOMAIN lane, lane[l] = "hello",
         lane' = [lane EXCEPT ![l] = "closed"]
  PROVE  RegistryOK'
<1>1. /\ sessions' = sessions /\ served' = served /\ timers' = timers /\ firing' = firing
  BY DEF regVars
<1>2. Waiting' = Waiting  BY <1>1 DEF Waiting
<1> QED BY <1>1, <1>2 DEF RegistryOK, Timer

\* A timer that fires is on its way to r.mu.
LEMMA RegistryFire ==
  ASSUME RegistryOK, NEW t, Fire(t)
  PROVE  RegistryOK'
<1>1. /\ sessions' = sessions /\ served' = served /\ lane' = lane
      /\ timers \cup firing \subseteq (timers \cup firing)'
  BY DEF Fire
<1>2. Waiting' = Waiting  BY <1>1 DEF Waiting
<1> QED BY <1>1, <1>2 DEF RegistryOK, Timer

\* expire takes the lanes of the session that has the connID now out of the map, and
\* those only.
LEMMA RegistryExpire ==
  ASSUME IInv, NEW t, Expire(t)
  PROVE  RegistryOK'
<1>0. PICK id : id = t.id  OBVIOUS
<1>1. /\ sessions' = [x \in DOMAIN sessions \ {id} |-> sessions[x]]
      /\ served' = served /\ timers' = timers /\ firing' = firing \ {t}
  BY <1>0 DEF Expire, Without
<1>2. \A l : InSession(l)' <=> \E x \in DOMAIN sessions \ {id} : l \in ToSet(sessions[x].lanes)
  BY <1>1 DEF InSession
<1>3. /\ DOMAIN lane' = DOMAIN lane
      /\ \A l \in DOMAIN lane :
           lane'[l] = IF id \in DOMAIN sessions /\ l \in ToSet(sessions[id].lanes)
                      THEN "closed" ELSE lane[l]
  BY <1>0 DEF Expire, Update
<1>4. \A l \in DOMAIN lane' : /\ lane'[l] = "registered" <=> InSession(l)'
                              /\ lane'[l] = "served" <=> InServed(l)'
  <2> SUFFICES ASSUME NEW l \in DOMAIN lane
               PROVE  /\ lane'[l] = "registered" <=> InSession(l)'
                      /\ lane'[l] = "served" <=> InServed(l)'
    BY <1>3
  <2>0. InServed(l)' <=> InServed(l)  BY <1>1 DEF InServed
  <2>1. CASE id \in DOMAIN sessions /\ l \in ToSet(sessions[id].lanes)
    <3>1. lane[l] = "registered" /\ lane'[l] = "closed"
      BY <1>3, <2>1, LaneStates DEF IInv
    <3>2. ~InSession(l)'  BY <1>2, <2>1 DEF IInv, RegistryOK
    <3>3. ~InServed(l)  BY <3>1 DEF IInv, RegistryOK, InServed
    <3> QED BY <2>0, <3>1, <3>2, <3>3
  <2>2. CASE ~(id \in DOMAIN sessions /\ l \in ToSet(sessions[id].lanes))
    <3>1. InSession(l)' <=> InSession(l)  BY <1>2, <2>2 DEF InSession
    <3>2. lane'[l] = lane[l]  BY <1>3, <2>2
    <3> QED BY <2>0, <3>1, <3>2, WaitingIs DEF IInv, RegistryOK, InServed
  <2> QED BY <2>1, <2>2
<1>5. \A x \in DOMAIN sessions' : /\ x \in DOMAIN sessions /\ x # id
                                  /\ sessions'[x] = sessions[x]
  BY <1>1
<1>6. \A x \in DOMAIN sessions' : Timer(sessions'[x], x) \in timers' \cup firing'
  BY <1>0, <1>1, <1>5 DEF IInv, RegistryOK, Timer
<1>7. \A i, j \in DOMAIN sessions' :
        i # j => ToSet(sessions'[i].lanes) \cap ToSet(sessions'[j].lanes) = {}
  BY <1>5 DEF IInv, RegistryOK
<1>8. \A g, h \in served' : g # h => ToSet(g) \cap ToSet(h) = {}
  BY <1>1 DEF IInv, RegistryOK
<1> QED BY <1>4, <1>6, <1>7, <1>8, WaitingIs DEF RegistryOK, InServed, Timer

\* The lane that completes a session takes all its lanes out of the map and into one
\* served group; no group has any of them already.
LEMMA RegistryComplete ==
  ASSUME IInv, NEW l \in DOMAIN lane, lane[l] = "hello", l \in DOMAIN hello,
         NEW id, id = hello[l].id, NEW s, s = Joined(l, id, hello[l].count),
         sessions' = Without(sessions, {id}), served' = served \cup {s.lanes},
         lane' = Update(lane, ToSet(s.lanes), "served"), firing' = firing,
         timers \ {Timer(s, id)} \subseteq timers'
  PROVE  RegistryOK'
<1>0. /\ l \in ToSet(s.lanes) /\ \A m \in ToSet(s.lanes) : m \in DOMAIN lane
      /\ id \in DOMAIN sessions => ToSet(s.lanes) = {l} \cup ToSet(sessions[id].lanes)
      /\ id \notin DOMAIN sessions => ToSet(s.lanes) = {l}
  <2>1. JoinedOK(s, l, id)  BY JoinedIs
  <2>2. PICK q : q = s.lanes  OBVIOUS
  <2>3. Group(q, id)  BY <2>1, <2>2 DEF JoinedOK
  <2>4. \A m \in ToSet(q) : m \in DOMAIN lane  BY <2>3 DEF Group, ToSet
  <2> QED BY <2>1, <2>2, <2>4 DEF JoinedOK
<1>1. \A x \in DOMAIN sessions' : /\ x \in DOMAIN sessions /\ x # id
                                  /\ sessions'[x] = sessions[x]
  BY DEF Without
<1>2. DOMAIN sessions' = DOMAIN sessions \ {id}  BY DEF Without
<1>3. /\ DOMAIN lane' = DOMAIN lane
      /\ \A m \in DOMAIN lane : lane'[m] = IF m \in ToSet(s.lanes) THEN "served" ELSE lane[m]
  BY DEF Update
<1>4. \A m \in ToSet(s.lanes) : lane[m] # "served" /\ ~InServed(m)
  <2>1. \A m \in ToSet(s.lanes) : lane[m] # "served"
    BY <1>0, LaneStates DEF IInv
  <2> QED BY <1>0, <2>1 DEF IInv, RegistryOK, InServed
<1>5. \A m \in ToSet(s.lanes) : \A x \in DOMAIN sessions : x # id => m \notin ToSet(sessions[x].lanes)
  <2> SUFFICES ASSUME NEW m \in ToSet(s.lanes), NEW x \in DOMAIN sessions, x # id
               PROVE  m \notin ToSet(sessions[x].lanes)
    OBVIOUS
  <2>1. CASE m = l  BY <2>1, LaneStates DEF IInv
  <2>2. CASE m # l
    <3>1. id \in DOMAIN sessions /\ m \in ToSet(sessions[id].lanes)  BY <1>0, <2>2
    <3> QED BY <3>1 DEF IInv, RegistryOK
  <2> QED BY <2>1, <2>2
<1>6. \A m \in DOMAIN lane' : /\ lane'[m] = "registered" <=> InSession(m)'
                              /\ lane'[m] = "served" <=> InServed(m)'
  <2> SUFFICES ASSUME NEW m \in DOMAIN lane
               PROVE  /\ lane'[m] = "registered" <=> InSession(m)'
                      /\ lane'[m] = "served" <=> InServed(m)'
    BY <1>3
  <2>1. InServed(m)' <=> InServed(m) \/ m \in ToSet(s.lanes)  BY DEF InServed
  <2>2. InSession(m)' <=> \E x \in DOMAIN sessions \ {id} : m \in ToSet(sessions[x].lanes)
    BY <1>1, <1>2 DEF InSession
  <2>3. CASE m \in ToSet(s.lanes)
    <3>1. ~InSession(m)'  BY <1>5, <2>2, <2>3
    <3> QED BY <1>3, <2>1, <2>3, <3>1
  <2>4. CASE m \notin ToSet(s.lanes)
    <3>1. InSession(m)' <=> InSession(m)  BY <1>0, <2>2, <2>4 DEF InSession
    <3> QED BY <1>3, <2>1, <2>4, <3>1, WaitingIs DEF IInv, RegistryOK, InServed
  <2> QED BY <2>3, <2>4
<1>7. \A x \in DOMAIN sessions' : Timer(sessions'[x], x) \in timers' \cup firing'
  BY <1>1 DEF IInv, RegistryOK, Timer
<1>8. \A i, j \in DOMAIN sessions' :
        i # j => ToSet(sessions'[i].lanes) \cap ToSet(sessions'[j].lanes) = {}
  BY <1>1 DEF IInv, RegistryOK
<1>9. \A g, h \in served' : g # h => ToSet(g) \cap ToSet(h) = {}
  <2>1. \A g \in served : ToSet(g) \cap ToSet(s.lanes) = {}  BY <1>4 DEF InServed
  <2> QED BY <2>1 DEF IInv, RegistryOK
<1> QED BY <1>6, <1>7, <1>8, <1>9, WaitingIs DEF RegistryOK, InServed, Timer

\* A lane that does not complete its session waits in it, and the session has its timer.
LEMMA RegistryJoin ==
  ASSUME IInv, NEW l \in DOMAIN lane, lane[l] = "hello", l \in DOMAIN hello,
         NEW id, id = hello[l].id, NEW s, s = Joined(l, id, hello[l].count),
         sessions' = With(sessions, id, s), served' = served,
         lane' = [lane EXCEPT ![l] = "registered"], firing' = firing,
         timers \subseteq timers', id \notin DOMAIN sessions => Timer(s, id) \in timers'
  PROVE  RegistryOK'
<1>0. /\ l \in ToSet(s.lanes)
      /\ id \in DOMAIN sessions => ToSet(s.lanes) = {l} \cup ToSet(sessions[id].lanes)
      /\ id \notin DOMAIN sessions => ToSet(s.lanes) = {l}
      /\ id \in DOMAIN sessions => s.timer = sessions[id].timer
  <2>1. JoinedOK(s, l, id)  BY JoinedIs
  <2> QED BY <2>1 DEF JoinedOK
<1>1. /\ DOMAIN sessions' = DOMAIN sessions \cup {id} /\ sessions'[id] = s
      /\ \A x \in DOMAIN sessions : x # id => sessions'[x] = sessions[x]
  BY DEF With
<1>2. /\ DOMAIN lane' = DOMAIN lane /\ lane'[l] = "registered"
      /\ \A m \in DOMAIN lane : m # l => lane'[m] = lane[m]
  OBVIOUS
<1>3. ~InSession(l) /\ ~InServed(l)  BY LaneStates DEF IInv, InSession, InServed
<1>4. \A m : InSession(m)' <=> InSession(m) \/ m = l
  <2> SUFFICES ASSUME NEW m  PROVE InSession(m)' <=> InSession(m) \/ m = l
    OBVIOUS
  <2>1. InSession(m)' <=> \/ m \in ToSet(s.lanes)
                          \/ \E x \in DOMAIN sessions : x # id /\ m \in ToSet(sessions[x].lanes)
    BY <1>1 DEF InSession
  <2> QED BY <1>0, <2>1 DEF InSession
<1>5. \A m \in DOMAIN lane' : /\ lane'[m] = "registered" <=> InSession(m)'
                              /\ lane'[m] = "served" <=> InServed(m)'
  <2> SUFFICES ASSUME NEW m \in DOMAIN lane
               PROVE  /\ lane'[m] = "registered" <=> InSession(m)'
                      /\ lane'[m] = "served" <=> InServed(m)'
    BY <1>2
  <2>1. InServed(m)' <=> InServed(m)  BY DEF InServed
  <2>2. CASE m = l  BY <1>2, <1>3, <1>4, <2>1, <2>2
  <2>3. CASE m # l
    BY <1>2, <1>4, <2>1, <2>3, WaitingIs DEF IInv, RegistryOK, InServed
  <2> QED BY <2>2, <2>3
<1>6. \A x \in DOMAIN sessions' : Timer(sessions'[x], x) \in timers' \cup firing'
  <2>1. CASE id \in DOMAIN sessions
    <3>1. Timer(s, id) = Timer(sessions[id], id)  BY <1>0, <2>1 DEF Timer
    <3>2. \A x \in DOMAIN sessions : Timer(sessions[x], x) \in timers' \cup firing'
      BY DEF IInv, RegistryOK
    <3>3. \A x \in DOMAIN sessions' : Timer(sessions'[x], x) = Timer(sessions[x], x)
      BY <1>1, <2>1, <3>1 DEF Timer
    <3> QED BY <1>1, <2>1, <3>2, <3>3
  <2>2. CASE id \notin DOMAIN sessions
    <3>1. \A x \in DOMAIN sessions : Timer(sessions[x], x) \in timers' \cup firing'
      BY DEF IInv, RegistryOK
    <3>2. \A x \in DOMAIN sessions : Timer(sessions'[x], x) = Timer(sessions[x], x)
      BY <1>1, <2>2 DEF Timer
    <3> QED BY <1>1, <2>2, <3>1, <3>2
  <2> QED BY <2>1, <2>2
<1>7. \A i, j \in DOMAIN sessions' :
        i # j => ToSet(sessions'[i].lanes) \cap ToSet(sessions'[j].lanes) = {}
  <2>1. \A x \in DOMAIN sessions : x # id => ToSet(sessions[x].lanes) \cap ToSet(s.lanes) = {}
    <3> SUFFICES ASSUME NEW x \in DOMAIN sessions, x # id, NEW m \in ToSet(s.lanes),
                        m \in ToSet(sessions[x].lanes)
                 PROVE  FALSE
      OBVIOUS
    <3>1. m # l  BY <1>3 DEF InSession
    <3>2. id \in DOMAIN sessions /\ m \in ToSet(sessions[id].lanes)  BY <1>0, <3>1
    <3> QED BY <3>2 DEF IInv, RegistryOK
  <2> QED BY <1>1, <2>1 DEF IInv, RegistryOK
<1>8. \A g, h \in served' : g # h => ToSet(g) \cap ToSet(h) = {}
  BY DEF IInv, RegistryOK
<1> QED BY <1>5, <1>6, <1>7, <1>8, WaitingIs DEF RegistryOK, InServed, Timer

-----------------------------------------------------------------------------
(* The steps.                                                              *)

\* The Hello that is written says what its connection has announced.
LEMMA HelloWritten ==
  ASSUME ConnInv, HelloInv, NEW k \in DOMAIN conns, WriteHello(k)
  PROVE  HelloInv'
<1>0. PICK c : c = conns[k]  OBVIOUS
<1>1. PICK l : l = Lane(k, c.up[c.at])  OBVIOUS
<1>2. c \in Conn /\ c.phase = "hello" /\ c.at \in DOMAIN c.up
  BY <1>0 DEF WriteHello, ConnInv
<1>3. PICK h : h = [id |-> c.id, count |-> Len(c.up)]  OBVIOUS
<1>4. h \in [id : Nat, count : Nat]  BY <1>2, <1>3 DEF Conn
<1>5. l[1] = k /\ l[2] \in ToSet(c.up)  BY <1>1, <1>2 DEF Lane, ToSet
<1>6. Announced(l)  BY <1>0, <1>2, <1>5 DEF Announced
<1>7. Keeps  BY ClientStep
<1>8. lane' = lane  BY DEF WriteHello
<1>9. \A m : Announced(m) => /\ Announced(m)'
                             /\ conns'[m[1]].id = conns[m[1]].id
                             /\ conns'[m[1]].up = conns[m[1]].up
  BY <1>7, <1>8, GroupKept
<1>10. hello' = With(hello, l, h)  BY <1>0, <1>1, <1>3 DEF WriteHello
<1>11. /\ DOMAIN hello' = DOMAIN hello \cup {l} /\ hello'[l] = h
       /\ \A m \in DOMAIN hello : m # l => hello'[m] = hello[m]
       /\ hello' = [m \in DOMAIN hello' |-> hello'[m]]
  BY <1>10 DEF With
<1>12. hello' \in [DOMAIN hello' -> [id : Nat, count : Nat]]
  BY <1>4, <1>11 DEF HelloInv
<1>13. ASSUME NEW m \in DOMAIN hello'
       PROVE  /\ Announced(m)' /\ hello'[m].id = conns'[m[1]].id
              /\ hello'[m].count = Len(conns'[m[1]].up)
  <2>1. CASE m = l
    <3>1. h.id = c.id /\ h.count = Len(c.up)  BY <1>3
    <3> QED BY <1>0, <1>5, <1>6, <1>9, <1>11, <2>1, <3>1
  <2>2. CASE m # l
    <3>1. m \in DOMAIN hello /\ hello'[m] = hello[m]  BY <1>11, <2>2
    <3> QED BY <1>9, <3>1 DEF HelloInv
  <2> QED BY <2>1, <2>2
<1> QED BY <1>12, <1>13 DEF HelloInv

\* A session that has a group joins or leaves the map, or a complete group is served.
LEMMA GroupsStep ==
  ASSUME GroupInv, Keeps, DOMAIN lane \subseteq DOMAIN lane', nTimers' \in Nat,
         \A id \in DOMAIN sessions' :
           \/ id \in DOMAIN sessions /\ sessions'[id] = sessions[id]
           \/ /\ sessions'[id] \in [want : Nat, lanes : Seq(LaneId), timer : Nat]
              /\ Group(sessions'[id].lanes, id)
              /\ sessions'[id].want = Len(conns[sessions'[id].lanes[1][1]].up),
         \A g \in served' :
           \/ g \in served
           \/ Group(g, conns[g[1][1]].id) /\ Len(g) >= Len(conns[g[1][1]].up)
  PROVE  GroupInv'
<1>1. ASSUME NEW id \in DOMAIN sessions'
      PROVE  /\ sessions'[id] \in [want : Nat, lanes : Seq(LaneId), timer : Nat]
             /\ Group(sessions[id].lanes, id)'
             /\ sessions'[id].want = Len(conns'[sessions'[id].lanes[1][1]].up)
  <2>1. PICK q : q = sessions'[id].lanes  OBVIOUS
  <2>2. /\ sessions'[id] \in [want : Nat, lanes : Seq(LaneId), timer : Nat]
        /\ Group(q, id) /\ sessions'[id].want = Len(conns[q[1][1]].up)
    BY <2>1 DEF GroupInv
  <2>3. Group(q, id)' /\ conns'[q[1][1]].up = conns[q[1][1]].up  BY <2>2, GroupKept
  <2> QED BY <2>1, <2>2, <2>3
<1>2. ASSUME NEW g \in served'
      PROVE  Group(g, conns[g[1][1]].id)' /\ Len(g) >= Len(conns'[g[1][1]].up)
  <2>1. PICK id : id = conns[g[1][1]].id  OBVIOUS
  <2>2. Group(g, id) /\ Len(g) >= Len(conns[g[1][1]].up)  BY <2>1 DEF GroupInv
  <2>3. /\ Group(g, id)' /\ conns'[g[1][1]].up = conns[g[1][1]].up
        /\ conns'[g[1][1]].id = id
    BY <2>1, <2>2, GroupKept
  <2> QED BY <2>2, <2>3
<1> QED BY <1>1, <1>2 DEF GroupInv

\* Register, in both of its outcomes.
LEMMA RegisterStep ==
  ASSUME IInv, NEW l \in DOMAIN lane, Register(l)
  PROVE  IInv'
<1>0. PICK id : id = hello[l].id  OBVIOUS
<1>1. PICK s : s = Joined(l, id, hello[l].count)  OBVIOUS
<1>2. PICK new : new = IF id \in DOMAIN sessions THEN {} ELSE {Timer(s, id)}  OBVIOUS
<1>3. /\ lane[l] = "hello" /\ l \in DOMAIN hello /\ hello' = Without(hello, {l})
      /\ nTimers' = nTimers + Cardinality(new) /\ UNCHANGED connVars /\ firing' = firing
      /\ \/ /\ Complete(s) /\ sessions' = Without(sessions, {id})
            /\ timers' = (timers \cup new) \ {Timer(s, id)}
            /\ served' = served \cup {s.lanes}
            /\ lane' = Update(lane, ToSet(s.lanes), "served")
         \/ /\ sessions' = With(sessions, id, s) /\ timers' = timers \cup new
            /\ lane' = [lane EXCEPT ![l] = "registered"] /\ served' = served
  BY <1>0, <1>1, <1>2 DEF Register
<1>4. JoinedOK(s, l, id)  BY <1>0, <1>1, <1>3, JoinedIs
<1>5. nTimers' \in Nat
  <2>1. Cardinality(new) \in {0, 1}
    <3>1. CASE id \in DOMAIN sessions  BY <1>2, <3>1, FS_EmptySet
    <3>2. CASE id \notin DOMAIN sessions  BY <1>2, <3>2, FS_Singleton
    <3> QED BY <3>1, <3>2
  <2> QED BY <1>3, <2>1 DEF IInv, GroupInv
<1>6. /\ DOMAIN lane' = DOMAIN lane
      /\ lane' \in [DOMAIN lane -> {"hello", "registered", "served", "closed"}]
  <2>1. lane \in [DOMAIN lane -> {"hello", "registered", "served", "closed"}]
    BY DEF IInv, ConnInv
  <2>2. CASE lane' = Update(lane, ToSet(s.lanes), "served")  BY <2>1, <2>2 DEF Update
  <2>3. CASE lane' = [lane EXCEPT ![l] = "registered"]  BY <2>1, <2>3
  <2> QED BY <1>3, <2>2, <2>3
<1>7. ConnInv' /\ Keeps  BY <1>3, <1>6, ServerConn DEF IInv
<1>8. HelloInv'
  <2>1. DOMAIN hello' \subseteq DOMAIN hello /\ hello' = [x \in DOMAIN hello' |-> hello[x]]
    BY <1>3 DEF Without
  <2> QED BY <1>6, <1>7, <2>1, HelloKept DEF IInv
<1>9. PICK q : q = s.lanes  OBVIOUS
<1>10. /\ s \in [want : Nat, lanes : Seq(LaneId), timer : Nat]
       /\ Group(q, id) /\ s.want = Len(conns[q[1][1]].up)
  BY <1>4, <1>9 DEF JoinedOK
<1>11. conns[q[1][1]].id = id  BY <1>10 DEF Group
<1>12. CASE /\ Complete(s) /\ sessions' = Without(sessions, {id})
            /\ timers' = (timers \cup new) \ {Timer(s, id)}
            /\ served' = served \cup {s.lanes}
            /\ lane' = Update(lane, ToSet(s.lanes), "served")
  <2>1. RegistryOK'
    <3>1. timers \ {Timer(s, id)} \subseteq timers'  BY <1>12
    <3> QED BY <1>0, <1>1, <1>3, <1>12, <3>1, RegistryComplete
  <2>2. GroupInv'
    <3>1. \A x \in DOMAIN sessions' : x \in DOMAIN sessions /\ sessions'[x] = sessions[x]
      BY <1>12 DEF Without
    <3>2. Len(q) >= Len(conns[q[1][1]].up)  BY <1>9, <1>10, <1>12 DEF Complete
    <3>3. \A g \in served' :
            \/ g \in served
            \/ Group(g, conns[g[1][1]].id) /\ Len(g) >= Len(conns[g[1][1]].up)
      BY <1>9, <1>10, <1>11, <1>12, <3>2
    <3> QED BY <1>5, <1>6, <1>7, <3>1, <3>3, GroupsStep DEF IInv
  <2> QED BY <1>7, <1>8, <2>1, <2>2 DEF IInv
<1>13. CASE /\ sessions' = With(sessions, id, s) /\ timers' = timers \cup new
            /\ lane' = [lane EXCEPT ![l] = "registered"] /\ served' = served
  <2>1. RegistryOK'
    <3>1. timers \subseteq timers' /\ (id \notin DOMAIN sessions => Timer(s, id) \in timers')
      BY <1>2, <1>13
    <3> QED BY <1>0, <1>1, <1>3, <1>13, <3>1, RegistryJoin
  <2>2. GroupInv'
    <3>1. \A x \in DOMAIN sessions' :
            \/ x \in DOMAIN sessions /\ sessions'[x] = sessions[x]
            \/ x = id /\ sessions'[x] = s
      BY <1>13 DEF With
    <3>2. \A x \in DOMAIN sessions' :
            \/ x \in DOMAIN sessions /\ sessions'[x] = sessions[x]
            \/ /\ sessions'[x] \in [want : Nat, lanes : Seq(LaneId), timer : Nat]
               /\ Group(sessions'[x].lanes, x)
               /\ sessions'[x].want = Len(conns[sessions'[x].lanes[1][1]].up)
      BY <1>9, <1>10, <3>1
    <3>3. \A g \in served' : g \in served  BY <1>13
    <3> QED BY <1>5, <1>6, <1>7, <3>2, <3>3, GroupsStep DEF IInv
  <2> QED BY <1>7, <1>8, <2>1, <2>2 DEF IInv
<1> QED BY <1>3, <1>12, <1>13

\* A lane is closed before it joined a session.
LEMMA CloseStep ==
  ASSUME IInv, NEW l \in DOMAIN lane, HelloFails(l) \/ Reject(l)
  PROVE  IInv'
<1>1. /\ lane[l] = "hello" /\ lane' = [lane EXCEPT ![l] = "closed"]
      /\ hello' = Without(hello, {l}) /\ UNCHANGED <<connVars, regVars>>
  BY DEF HelloFails, Reject
<1>2. /\ DOMAIN lane' = DOMAIN lane
      /\ lane' \in [DOMAIN lane -> {"hello", "registered", "served", "closed"}]
  BY <1>1 DEF IInv, ConnInv
<1>3. ConnInv' /\ Keeps  BY <1>1, <1>2, ServerConn DEF IInv
<1>4. HelloInv'
  <2>1. DOMAIN hello' \subseteq DOMAIN hello /\ hello' = [x \in DOMAIN hello' |-> hello[x]]
    BY <1>1 DEF Without
  <2> QED BY <1>2, <1>3, <2>1, HelloKept DEF IInv
<1>5. GroupInv'  BY <1>1, <1>2, <1>3, GroupsKept DEF IInv, regVars
<1>6. RegistryOK'  BY <1>1, RegistryClose DEF IInv
<1> QED BY <1>3, <1>4, <1>5, <1>6 DEF IInv

\* A timer fires, or its expire runs.
LEMMA TimerStep ==
  ASSUME IInv, NEW t, Fire(t) \/ Expire(t)
  PROVE  IInv'
<1>1. CASE Fire(t)
  <2>1. UNCHANGED <<connVars, lane, hello, sessions, nTimers, served>>  BY <1>1 DEF Fire
  <2>2. ConnInv' /\ Keeps
    <3>1. DOMAIN lane' = DOMAIN lane
          /\ lane' \in [DOMAIN lane -> {"hello", "registered", "served", "closed"}]
      BY <2>1 DEF IInv, ConnInv
    <3> QED BY <2>1, <3>1, ServerConn DEF IInv
  <2>3. HelloInv'
    <3>1. DOMAIN hello' \subseteq DOMAIN hello /\ hello' = [x \in DOMAIN hello' |-> hello[x]]
      BY <2>1 DEF IInv, HelloInv
    <3> QED BY <2>1, <2>2, <3>1, HelloKept DEF IInv
  <2>4. GroupInv'  BY <2>1, <2>2, GroupsKept DEF IInv
  <2>5. RegistryOK'  BY <1>1, RegistryFire DEF IInv
  <2> QED BY <2>2, <2>3, <2>4, <2>5 DEF IInv
<1>2. CASE Expire(t)
  <2>1. UNCHANGED <<connVars, hello, timers, nTimers, served>>  BY <1>2 DEF Expire
  <2>2. /\ DOMAIN lane' = DOMAIN lane
        /\ lane' \in [DOMAIN lane -> {"hello", "registered", "served", "closed"}]
    <3>1. lane \in [DOMAIN lane -> {"hello", "registered", "served", "closed"}]
      BY DEF IInv, ConnInv
    <3>2. CASE lane' = lane  BY <3>1, <3>2
    <3>3. CASE lane' = Update(lane, ToSet(sessions[t.id].lanes), "closed")
      BY <3>1, <3>3 DEF Update
    <3> QED BY <1>2, <3>2, <3>3 DEF Expire
  <2>3. ConnInv' /\ Keeps  BY <2>1, <2>2, ServerConn DEF IInv
  <2>4. HelloInv'
    <3>1. DOMAIN hello' \subseteq DOMAIN hello /\ hello' = [x \in DOMAIN hello' |-> hello[x]]
      BY <2>1 DEF IInv, HelloInv
    <3> QED BY <2>2, <2>3, <3>1, HelloKept DEF IInv
  <2>5. GroupInv'
    <3>1. \A x \in DOMAIN sessions' : x \in DOMAIN sessions /\ sessions'[x] = sessions[x]
      BY <1>2 DEF Expire, Without
    <3>2. nTimers' \in Nat /\ \A g \in served' : g \in served
      BY <2>1 DEF IInv, GroupInv
    <3> QED BY <2>2, <2>3, <3>1, <3>2, GroupsStep DEF IInv
  <2>6. RegistryOK'  BY <1>2, RegistryExpire
  <2> QED BY <2>3, <2>4, <2>5, <2>6 DEF IInv
<1> QED BY <1>1, <1>2

\* The clients' steps leave the registry alone.
LEMMA ClientsStep ==
  ASSUME IInv, \/ \E c \in Clients : Open(c) \/ Reconnect(c)
               \/ \E k \in DOMAIN conns : Dial(k) \/ DialDone(k) \/ WriteHello(k) \/ Close(k)
  PROVE  IInv'
<1>1. /\ ConnInv' /\ Keeps /\ UNCHANGED regVars /\ DOMAIN lane \subseteq DOMAIN lane'
      /\ \A l \in DOMAIN lane : lane'[l] = lane[l]
      /\ \A l \in DOMAIN lane' \ DOMAIN lane : lane'[l] = "hello"
  <2>1. CASE \E c \in Clients : Open(c) \/ Reconnect(c)
    <3>1. ConnInv' /\ Keeps  BY <2>1, OpenStep DEF IInv
    <3>2. lane' = lane /\ UNCHANGED regVars  BY <2>1 DEF Open, Reconnect
    <3> QED BY <3>1, <3>2
  <2>2. CASE \E k \in DOMAIN conns : Dial(k)
    <3>1. UNCHANGED regVars  BY <2>2 DEF Dial
    <3> QED BY <2>2, <3>1, DialStep DEF IInv
  <2>3. CASE \E k \in DOMAIN conns : DialDone(k) \/ WriteHello(k) \/ Close(k)
    <3>1. ConnInv' /\ Keeps  BY <2>3, ClientStep DEF IInv
    <3>2. lane' = lane /\ UNCHANGED regVars  BY <2>3 DEF DialDone, WriteHello, Close
    <3> QED BY <3>1, <3>2
  <2> QED BY <2>1, <2>2, <2>3
<1>2. HelloInv'
  <2>1. CASE \E k \in DOMAIN conns : WriteHello(k)  BY <2>1, HelloWritten DEF IInv
  <2>2. CASE hello' = hello
    <3>1. DOMAIN hello' \subseteq DOMAIN hello /\ hello' = [x \in DOMAIN hello' |-> hello[x]]
      BY <2>2 DEF IInv, HelloInv
    <3> QED BY <1>1, <3>1, HelloKept DEF IInv
  <2> QED BY <2>1, <2>2 DEF Open, Reconnect, Dial, DialDone, Close
<1>3. GroupInv'  BY <1>1, GroupsKept DEF IInv, regVars
<1>4. RegistryOK'  BY <1>1, RegistryClient DEF IInv
<1> QED BY <1>1, <1>2, <1>3, <1>4 DEF IInv

\* The registry starts empty.
LEMMA InitIInv == Init => IInv
<1> SUFFICES ASSUME Init  PROVE IInv
  OBVIOUS
<1>1. /\ conns = <<>> /\ lane = <<>> /\ hello = <<>> /\ sessions = <<>> /\ served = {}
      /\ nTimers = 0 /\ bondConnSeq = [c \in Clients |-> 0]
  BY DEF Init
<1>2. DOMAIN <<>> = {}  OBVIOUS
<1>3. /\ conns \in Seq(Conn) /\ bondConnSeq \in [Clients -> Nat]  BY <1>1
<1>4. /\ lane \in [DOMAIN lane -> {"hello", "registered", "served", "closed"}]
      /\ hello \in [DOMAIN hello -> [id : Nat, count : Nat]]
  BY <1>1, <1>2
<1>5. DOMAIN conns = {} /\ DOMAIN lane = {} /\ DOMAIN hello = {} /\ DOMAIN sessions = {}
  BY <1>1, <1>2
<1>6. ConnInv  BY <1>3, <1>4, <1>5 DEF ConnInv
<1>7. HelloInv  BY <1>4, <1>5 DEF HelloInv
<1>8. GroupInv  BY <1>1, <1>5 DEF GroupInv
<1>9. RegistryOK  BY <1>1, <1>5 DEF RegistryOK
<1> QED BY <1>6, <1>7, <1>8, <1>9 DEF IInv

-----------------------------------------------------------------------------
(* The theorems.                                                           *)

\* The strengthened invariant holds in every reachable state: the connections of
\* forwardBonded, the Hellos on their way and the groups of the registry belong together.
THEOREM Invariance == Spec => []IInv
<1>1. IInv /\ [Next]_vars => IInv'
  <2> SUFFICES ASSUME IInv, [Next]_vars  PROVE IInv'
    OBVIOUS
  <2>1. CASE \/ \E c \in Clients : Open(c) \/ Reconnect(c)
             \/ \E k \in DOMAIN conns : Dial(k) \/ DialDone(k) \/ WriteHello(k) \/ Close(k)
    BY <2>1, ClientsStep
  <2>2. CASE \E l \in DOMAIN lane : HandleLane(l)
    BY <2>2, CloseStep, RegisterStep DEF HandleLane
  <2>3. CASE \/ \E t \in timers : Fire(t)
             \/ \E t \in firing : Expire(t)
    BY <2>3, TimerStep
  <2>4. CASE UNCHANGED vars
    <3>1. /\ UNCHANGED connVars /\ lane' = lane /\ hello' = hello /\ sessions' = sessions
          /\ timers' = timers /\ firing' = firing /\ nTimers' = nTimers /\ served' = served
      BY <2>4 DEF vars, regVars
    <3>2. conns' = conns /\ bondConnSeq' = bondConnSeq  BY <3>1 DEF connVars
    <3>3. ConnInv'  BY <3>1, <3>2 DEF IInv, ConnInv
    <3>4. HelloInv'  BY <3>1, <3>2 DEF IInv, HelloInv, Announced
    <3>5. GroupInv'  BY <3>1, <3>2 DEF IInv, GroupInv, Group, Announced
    <3>6. RegistryOK'  BY <3>1 DEF IInv, RegistryOK, Waiting
    <3> QED BY <3>3, <3>4, <3>5, <3>6 DEF IInv
  <2> QED BY <2>1, <2>2, <2>3, <2>4 DEF Next
<1> QED BY <1>1, InitIInv, PTL DEF Spec

\* A lane waits in exactly one incomplete session or belongs to exactly one served group,
\* and every incomplete session has its timer (handleLane, expire).
THEOREM Registry == Spec => []RegistryOK
<1>1. IInv => RegistryOK  BY DEF IInv
<1> QED BY <1>1, Invariance, PTL

\* A connection whose connID nobody else has is served over all the lanes it announced and
\* over no other (handleLane of the server, forwardBonded of the client).
THEOREM Served == Spec => []ServedWhole
<1>1. IInv => ServedWhole
  <2> SUFFICES ASSUME IInv, NEW g \in served,
                      \A j \in DOMAIN conns : conns[j].id = conns[g[1][1]].id => j = g[1][1]
               PROVE  ToSet(g) = {Lane(g[1][1], r) : r \in ToSet(conns[g[1][1]].up)}
    BY DEF ServedWhole
  <2>1. PICK k : k = g[1][1]  OBVIOUS
  <2>2. PICK u : u = conns[k].up  OBVIOUS
  <2>3. Group(g, conns[k].id) /\ Len(g) >= Len(u)  BY <2>1, <2>2 DEF IInv, GroupInv
  <2>4. /\ g \in Seq(LaneId) /\ 1 \in DOMAIN g
        /\ \A i, j \in DOMAIN g : g[i] = g[j] => i = j
    BY <2>3 DEF Group
  <2>5. \A i \in DOMAIN g : Announced(g[i]) /\ conns[g[i][1]].id = conns[k].id
    BY <2>3 DEF Group
  <2>6. \A i \in DOMAIN g : g[i][1] = k /\ g[i][2] \in ToSet(u)
    BY <2>1, <2>2, <2>5 DEF Announced
  <2>7. k \in DOMAIN conns  BY <2>1, <2>4, <2>5 DEF Announced
  <2>8. k \in Nat /\ u \in Seq(Nat)
    <3>1. conns \in Seq(Conn)  BY DEF IInv, ConnInv
    <3>2. conns[k] \in Conn /\ k \in Nat  BY <2>7, <3>1
    <3> QED BY <2>2, <3>2 DEF Conn
  <2> QED BY <2>1, <2>2, <2>3, <2>4, <2>6, <2>8, Pigeonhole
<1> QED BY <1>1, Invariance, PTL

=============================================================================
