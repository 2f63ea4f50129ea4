---------------------------- MODULE BondRegistry ----------------------------
(***************************************************************************)
(* How a bonded connection gets its lanes: forwardBonded of                *)
(* OlcrtcRoomManager.kt opens one lane through every room and announces    *)
(* them with Hellos that carry its connID and the number of lanes; the     *)
(* registry of bond-server/main.go groups the lanes by connID, hands a     *)
(* complete group to serveSession and drops an incomplete one when its     *)
(* timer fires.  What happens on the lanes afterwards is module Bond.      *)
(*                                                                         *)
(* A connection of a client is numbered 1, 2, ... over the whole run; its  *)
(* lane through room r is the pair <<k, r>>.                               *)
(***************************************************************************)
EXTENDS Integers, Sequences, FiniteSets, SequencesExt

CONSTANTS
  Clients,       \* the clients of this bond server
  Rooms,         \* rooms of a client, in the order of backendPorts: 1..Rooms
  MaxLaneCount,  \* maxLaneCount of the server
  MaxConns,      \* bound: connections opened, all clients together
  MaxReconnects  \* bound: times clients start a new OlcrtcRoomManager

ASSUME RegistryAssumption ==
  /\ Rooms \in Nat \ {0} /\ MaxLaneCount \in Nat \ {0}
  /\ MaxConns \in Nat /\ MaxReconnects \in Nat

VARIABLES
  bondConnSeq,  \* bondConnSeq of each client's room manager
  reconnects,   \* room managers started after the first ones
  conns,        \* the connections: [client, id, phase, at, up]
  lane,         \* lanes the server accepted: hello, registered, served, closed
  hello,        \* the Hello on its way to the server: [id, count]
  sessions,     \* registry.sessions: [want, lanes, timer]
  timers,       \* timers that are armed: [timer, id]
  firing,       \* expire goroutines waiting for r.mu: [timer, id]
  nTimers,      \* timers ever started
  served        \* the groups handed to serveSession

connVars == <<bondConnSeq, reconnects, conns>>
regVars == <<sessions, timers, firing, nTimers, served>>
vars == <<connVars, lane, hello, regVars>>

Lane(k, r) == <<k, r>>

\* The entries of f without those of S, and f with one entry set.
Without(f, S) == [x \in DOMAIN f \ S |-> f[x]]
With(f, x, v) == [y \in DOMAIN f \cup {x} |-> IF y = x THEN v ELSE f[y]]
Update(f, S, v) == [x \in DOMAIN f |-> IF x \in S THEN v ELSE f[x]]

Init ==
  /\ bondConnSeq = [c \in Clients |-> 0] /\ reconnects = 0
  /\ conns = <<>> /\ lane = <<>> /\ hello = <<>>
  /\ sessions = <<>> /\ timers = {} /\ firing = {} /\ nTimers = 0 /\ served = {}

-----------------------------------------------------------------------------
(* The client: forwardBonded.                                              *)

\* The balancer accepted a connection: it gets the next connID.
Open(c) ==
  /\ Len(conns) < MaxConns
  /\ bondConnSeq' = [bondConnSeq EXCEPT ![c] = @ + 1]
  /\ conns' = Append(conns, [client |-> c, id |-> bondConnSeq[c] + 1, phase |-> "dial",
                             at |-> 1, up |-> <<>>])
  /\ UNCHANGED <<reconnects, lane, hello, regVars>>

\* The next room: its lane comes up and the server accepts it, or it is left out.
Dial(k) ==
  /\ conns[k].phase = "dial" /\ conns[k].at <= Rooms
  /\ \/ /\ conns' = [conns EXCEPT ![k].at = @ + 1, ![k].up = Append(@, conns[k].at)]
        /\ lane' = With(lane, Lane(k, conns[k].at), "hello")
     \/ /\ conns' = [conns EXCEPT ![k].at = @ + 1]
        /\ lane' = lane
  /\ UNCHANGED <<bondConnSeq, reconnects, hello, regVars>>

\* Every room was tried: give up without lanes, or announce those that came up.
DialDone(k) ==
  /\ conns[k].phase = "dial" /\ conns[k].at > Rooms
  /\ conns' = [conns EXCEPT ![k].phase = IF conns[k].up = <<>> THEN "over" ELSE "hello",
                            ![k].at = 1]
  /\ UNCHANGED <<bondConnSeq, reconnects, lane, hello, regVars>>

\* The next Hello, with the final lane count; after the last one the session.
WriteHello(k) ==
  LET l == Lane(k, conns[k].up[conns[k].at]) IN
  /\ conns[k].phase = "hello"
  /\ hello' = With(hello, l, [id |-> conns[k].id, count |-> Len(conns[k].up)])
  /\ conns' = [conns EXCEPT ![k].at = @ + 1,
                            ![k].phase = IF conns[k].at = Len(conns[k].up) THEN "session" ELSE @]
  /\ UNCHANGED <<bondConnSeq, reconnects, lane, regVars>>

\* A write of a Hello throws, or the session ends: finally closes the lanes.
Close(k) ==
  /\ conns[k].phase \in {"hello", "session"}
  /\ conns' = [conns EXCEPT ![k].phase = "over"]
  /\ UNCHANGED <<bondConnSeq, reconnects, lane, hello, regVars>>

\* The user reconnects, or the app is started again: startOlcrtcSocks makes a new
\* OlcrtcRoomManager; the old one has closed its sockets.
Reconnect(c) ==
  /\ reconnects < MaxReconnects
  /\ reconnects' = reconnects + 1
  /\ bondConnSeq' = [bondConnSeq EXCEPT ![c] = 0]
  /\ conns' = [k \in DOMAIN conns |-> IF conns[k].client = c
                                        THEN [conns[k] EXCEPT !.phase = "over"] ELSE conns[k]]
  /\ UNCHANGED <<lane, hello, regVars>>

-----------------------------------------------------------------------------
(* The server: handleLane and expire.                                      *)

\* Mutant of HelloFails: ReadHello has no deadline.
MutantHelloFails(l) ==
  /\ lane[l] = "hello" /\ conns[l[1]].phase = "over"
  /\ lane' = [lane EXCEPT ![l] = "closed"]
  /\ hello' = Without(hello, {l})
  /\ UNCHANGED <<connVars, regVars>>

\* ReadHello fails: the deadline of a lane without a Hello passes, or the client
\* closed it.
HelloFails(l) ==
  /\ lane[l] = "hello"
  /\ l \notin DOMAIN hello \/ conns[l[1]].phase = "over"
  /\ lane' = [lane EXCEPT ![l] = "closed"]
  /\ hello' = Without(hello, {l})
  /\ UNCHANGED <<connVars, regVars>>

\* A lane count out of range: the lane is closed.
Reject(l) ==
  /\ lane[l] = "hello" /\ l \in DOMAIN hello
  /\ hello[l].count > MaxLaneCount
  /\ lane' = [lane EXCEPT ![l] = "closed"]
  /\ hello' = Without(hello, {l})
  /\ UNCHANGED <<connVars, regVars>>

\* Mutant of Complete: it waits for one lane less.
MutantComplete(s) == Len(s.lanes) >= s.want - 1

Complete(s) == Len(s.lanes) >= s.want

\* The session a lane joins: that of its connID, or a new one with a new timer.
Joined(l, id, count) ==
  LET s == IF id \in DOMAIN sessions THEN sessions[id]
           ELSE [want |-> count, lanes |-> <<>>, timer |-> nTimers + 1]
  IN [s EXCEPT !.lanes = Append(@, l)]

Timer(s, id) == [timer |-> s.timer, id |-> id]

\* Mutant of Register: a session that is complete stays in the map.
MutantRegisterKeeps(l) ==
  LET id == hello[l].id
      s == Joined(l, id, hello[l].count)
      new == IF id \in DOMAIN sessions THEN {} ELSE {Timer(s, id)}
  IN
  /\ lane[l] = "hello" /\ l \in DOMAIN hello
  /\ hello[l].count \in 1..MaxLaneCount
  /\ hello' = Without(hello, {l})
  /\ nTimers' = nTimers + Cardinality(new)
  /\ sessions' = With(sessions, id, s)
  /\ \/ /\ Complete(s)
        /\ timers' = (timers \cup new) \ {Timer(s, id)}
        /\ served' = served \cup {s.lanes}
        /\ lane' = Update(lane, ToSet(s.lanes), "served")
     \/ /\ ~Complete(s)
        /\ timers' = timers \cup new
        /\ lane' = [lane EXCEPT ![l] = "registered"]
        /\ served' = served
  /\ UNCHANGED <<connVars, firing>>

\* The section of handleLane that holds r.mu.  The lane that completes a session
\* takes it out of the map and stops its timer, which may have fired already.
Register(l) ==
  LET id == hello[l].id
      s == Joined(l, id, hello[l].count)
      new == IF id \in DOMAIN sessions THEN {} ELSE {Timer(s, id)}
  IN
  /\ lane[l] = "hello" /\ l \in DOMAIN hello
  /\ hello[l].count \in 1..MaxLaneCount
  /\ hello' = Without(hello, {l})
  /\ nTimers' = nTimers + Cardinality(new)
  /\ \/ /\ Complete(s)
        /\ sessions' = Without(sessions, {id})
        /\ timers' = (timers \cup new) \ {Timer(s, id)}
        /\ served' = served \cup {s.lanes}
        /\ lane' = Update(lane, ToSet(s.lanes), "served")
     \/ /\ ~Complete(s)
        /\ sessions' = With(sessions, id, s)
        /\ timers' = timers \cup new
        /\ lane' = [lane EXCEPT ![l] = "registered"]
        /\ served' = served
  /\ UNCHANGED <<connVars, firing>>

\* A timer fires: its goroutine calls expire, which waits for r.mu.
Fire(t) ==
  /\ t \in timers
  /\ timers' = timers \ {t}
  /\ firing' = firing \cup {t}
  /\ UNCHANGED <<connVars, lane, hello, sessions, nTimers, served>>

\* expire: whatever session has the connID now is dropped and its lanes closed.
Expire(t) ==
  /\ t \in firing
  /\ firing' = firing \ {t}
  /\ sessions' = Without(sessions, {t.id})
  /\ lane' = IF t.id \in DOMAIN sessions
             THEN Update(lane, ToSet(sessions[t.id].lanes), "closed") ELSE lane
  /\ UNCHANGED <<connVars, hello, timers, nTimers, served>>

-----------------------------------------------------------------------------

HandleLane(l) == HelloFails(l) \/ Reject(l) \/ Register(l)

Next ==
  \/ \E c \in Clients : Open(c) \/ Reconnect(c)
  \/ \E k \in DOMAIN conns : Dial(k) \/ DialDone(k) \/ WriteHello(k) \/ Close(k)
  \/ \E l \in DOMAIN lane : HandleLane(l)
  \/ \E t \in timers : Fire(t)
  \/ \E t \in firing : Expire(t)

Spec == Init /\ [][Next]_vars

\* Every accepted lane has its goroutine and a read deadline, every timer fires
\* and every expire gets the lock: each of them takes its step only once, so fairness
\* to all of them together is fairness to each.  The clients may do nothing.
FairSpec ==
  /\ Spec
  /\ WF_vars(\E l \in DOMAIN lane : HandleLane(l))
  /\ WF_vars(\E t \in timers : Fire(t))
  /\ WF_vars(\E t \in firing : Expire(t))

-----------------------------------------------------------------------------
(* Properties.                                                             *)

Waiting == UNION {ToSet(sessions[id].lanes) : id \in DOMAIN sessions}

\* What the registry holds: a lane waits in exactly one incomplete session or is in
\* exactly one group that was served, never in both; and an incomplete session
\* has a timer that will drop it, armed or already on its way to r.mu.
RegistryOK ==
  /\ \A l \in DOMAIN lane : /\ lane[l] = "registered" <=> l \in Waiting
                            /\ lane[l] = "served" <=> \E g \in served : l \in ToSet(g)
  /\ \A i, j \in DOMAIN sessions :
       i # j => ToSet(sessions[i].lanes) \cap ToSet(sessions[j].lanes) = {}
  /\ \A g, h \in served : g # h => ToSet(g) \cap ToSet(h) = {}
  /\ \A id \in DOMAIN sessions : Timer(sessions[id], id) \in timers \cup firing

\* A connection that shares its connID with no other is served over all the lanes
\* its client announced, each of them once, and over no lane of anybody else: the
\* client sends round-robin over all of them, and a lane the server does not read
\* would leave a permanent gap.
ServedWhole ==
  \A g \in served : LET k == g[1][1] IN
    (\A j \in DOMAIN conns : conns[j].id = conns[k].id => j = k)
      => ToSet(g) = {Lane(k, r) : r \in ToSet(conns[k].up)}

\* No accepted lane is held for ever: again and again, and in the end for good, every
\* lane the server has accepted is served or closed, although Hellos fail to come, groups
\* stay incomplete and timers fire late (handleLane, expire).
EveryLaneSettles ==
  []<>(\A l \in DOMAIN lane : lane[l] \in {"served", "closed"})

=============================================================================
