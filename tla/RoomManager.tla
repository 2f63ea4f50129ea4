----------------------------- MODULE RoomManager -----------------------------
(***************************************************************************)
(* The Android client's OlcrtcRoomManager: a supervisor thread per room    *)
(* brings the room up with Mobile.startRoom and adds its port to the pool, *)
(* start waits for the first of them and starts the balancer, stop takes   *)
(* everything down while all of them may be in the middle of their work.   *)
(* One action is what happens between two points at which another thread   *)
(* can see the state.  The room instances are those of                     *)
(* olcrtc/mobile/mobile_rooms.go.                                          *)
(***************************************************************************)
EXTENDS Integers, FiniteSets

CONSTANTS
  Rooms,   \* the rooms of the configuration
  Conns    \* bound: the connections the balancer may accept

\* start's own call of stop, and the service's: it drops its reference to the
\* manager afterwards, so it calls stop once.
Callers == {"start", "service"}

VARIABLES
  stopped,     \* stopped
  late,        \* history: rooms past their test of stopped, not yet in handles, when it was set
  sup,         \* each supervisor's place in superviseRoom
  running,     \* rooms whose client runs
  registered,  \* rooms: the instances of the registry in mobile_rooms.go
  handles,     \* handles
  pool,        \* ports, slotHandles and the published backendPorts
  latch,       \* firstReady has been counted down
  starter,     \* the place in start
  stopAt,      \* the place of each caller in stop
  sock,        \* the balancer's listening socket: none, open, closed
  field,       \* serverSocket refers to it
  scope,       \* managerScope is active
  acceptor,    \* the accept loop: none, queued, loop, accept, forward, launch, end
  conn,        \* the connection it has just accepted
  co,          \* the coroutine of each connection: none, queued, run, end
  open,        \* connections whose downstream socket is open
  live         \* liveSockets

roomVars == <<sup, running, registered, handles, pool, latch>>
balancerVars == <<sock, field, scope>>
connVars == <<acceptor, conn, co, open, live>>
vars == <<stopped, late, roomVars, starter, stopAt, balancerVars, connVars>>

None == "none"

Init ==
  /\ stopped = FALSE /\ late = {}
  /\ sup = [r \in Rooms |-> "loop"]
  /\ running = {} /\ registered = {} /\ handles = {} /\ pool = {}
  /\ latch = FALSE /\ starter = "wait"
  /\ stopAt = [p \in Callers |-> "idle"]
  /\ sock = "none" /\ field = FALSE /\ scope = TRUE
  /\ acceptor = "none" /\ conn = None
  /\ co = [c \in Conns |-> "none"] /\ open = {} /\ live = {}

-----------------------------------------------------------------------------
(* superviseRoom and StartRoom.                                            *)

SupGoes(r, to) == sup' = [sup EXCEPT ![r] = to]
SupElse == UNCHANGED <<stopped, late, starter, stopAt, balancerVars, connVars>>

\* while (!stopped)
SupLoop(r) ==
  /\ sup[r] = "loop"
  /\ SupGoes(r, IF stopped THEN "done" ELSE "starting")
  /\ UNCHANGED <<running, registered, handles, pool, latch>> /\ SupElse

\* StartRoom: the client is up and its listener bound ...
StartReady(r) ==
  /\ sup[r] = "starting"
  /\ running' = running \cup {r}
  /\ SupGoes(r, "ready")
  /\ UNCHANGED <<registered, handles, pool, latch>> /\ SupElse

\* ... and the instance enters the registry.
StartRegister(r) ==
  /\ sup[r] = "ready"
  /\ registered' = registered \cup {r}
  /\ SupGoes(r, "check")
  /\ UNCHANGED <<running, handles, pool, latch>> /\ SupElse

\* Mutant of StartFails: a room that failed is given up.
MutantStartFailsOnce(r) ==
  /\ sup[r] = "starting"
  /\ SupGoes(r, "done")
  /\ UNCHANGED <<running, registered, handles, pool, latch>> /\ SupElse

\* StartRoom fails or times out, and leaves nothing running.
StartFails(r) ==
  /\ sup[r] = "starting"
  /\ SupGoes(r, IF stopped THEN "done" ELSE "sleep")
  /\ UNCHANGED <<running, registered, handles, pool, latch>> /\ SupElse

\* sleepUnlessStopped, and back to the loop.
SupSleep(r) ==
  /\ sup[r] = "sleep"
  /\ SupGoes(r, IF stopped THEN "done" ELSE "loop")
  /\ UNCHANGED <<running, registered, handles, pool, latch>> /\ SupElse

\* Mutant of SupCheck: the test of stopped is missing.
MutantSupCheck(r) ==
  /\ sup[r] = "check"
  /\ SupGoes(r, "port")
  /\ UNCHANGED <<running, registered, handles, pool, latch>> /\ SupElse

\* Stopped while connecting: the supervisor stops the room itself.
SupCheck(r) ==
  /\ sup[r] = "check"
  /\ \/ /\ stopped
        /\ running' = IF r \in registered THEN running \ {r} ELSE running
        /\ registered' = registered \ {r}
        /\ SupGoes(r, "done")
     \/ /\ ~stopped
        /\ SupGoes(r, "port")
        /\ UNCHANGED <<running, registered>>
  /\ UNCHANGED <<handles, pool, latch>> /\ SupElse

\* Mobile.roomPort: 0 when StopAllRooms has taken the instance in the meantime.
SupPort(r) ==
  /\ sup[r] = "port"
  /\ SupGoes(r, IF r \in registered THEN "add" ELSE "sleep")
  /\ UNCHANGED <<running, registered, handles, pool, latch>> /\ SupElse

SupAdd(r) ==
  /\ sup[r] = "add"
  /\ handles' = handles \cup {r}
  /\ SupGoes(r, "pool")
  /\ UNCHANGED <<running, registered, pool, latch>> /\ SupElse

\* Mutant of SupPool: the latch is counted down before the port is published.
MutantSupPool(r) ==
  /\ sup[r] = "pool"
  /\ latch' = TRUE
  /\ SupGoes(r, "signal")
  /\ UNCHANGED <<running, registered, handles, pool>> /\ SupElse

SupPool(r) ==
  /\ sup[r] = "pool"
  /\ pool' = pool \cup {r}
  /\ SupGoes(r, "signal")
  /\ UNCHANGED <<running, registered, handles, latch>> /\ SupElse

SupSignal(r) ==
  /\ sup[r] = "signal"
  /\ latch' = TRUE
  /\ SupGoes(r, "done")
  /\ UNCHANGED <<running, registered, handles, pool>> /\ SupElse

-----------------------------------------------------------------------------
(* start and startBalancer.                                                *)

StartWaits ==
  /\ starter = "wait" /\ latch
  /\ starter' = "bind"
  /\ UNCHANGED <<stopped, late, roomVars, stopAt, balancerVars, connVars>>

\* No room came up in time: start stops the manager and returns false.
StartTimesOut ==
  /\ starter = "wait" /\ ~latch
  /\ starter' = "stop"
  /\ UNCHANGED <<stopped, late, roomVars, stopAt, balancerVars, connVars>>

StartReturnsFalse ==
  /\ starter = "stop" /\ stopAt["start"] = "done"
  /\ starter' = "false"
  /\ UNCHANGED <<stopped, late, roomVars, stopAt, balancerVars, connVars>>

\* The port may be taken.
BalancerBind ==
  /\ starter = "bind"
  /\ \/ sock' = "open" /\ starter' = "publish"
     \/ sock' = sock /\ starter' = "false"
  /\ UNCHANGED <<stopped, late, roomVars, stopAt, field, scope, connVars>>

BalancerPublish ==
  /\ starter = "publish"
  /\ field' = TRUE
  /\ starter' = "launch"
  /\ UNCHANGED <<stopped, late, roomVars, stopAt, sock, scope, connVars>>

\* A coroutine of a cancelled scope never runs.
BalancerLaunch ==
  /\ starter = "launch"
  /\ acceptor' = IF scope THEN "queued" ELSE "end"
  /\ starter' = "true"
  /\ UNCHANGED <<stopped, late, roomVars, stopAt, balancerVars, conn, co, open, live>>

-----------------------------------------------------------------------------
(* The accept loop and the connections.                                    *)

ConnElse == UNCHANGED <<stopped, late, roomVars, starter, stopAt, balancerVars>>

AcceptorRuns ==
  /\ acceptor = "queued"
  /\ acceptor' = IF scope THEN "loop" ELSE "end"
  /\ UNCHANGED <<conn, co, open, live>> /\ ConnElse

\* while (isActive && !stopped)
AcceptLoop ==
  /\ acceptor = "loop"
  /\ acceptor' = IF scope /\ ~stopped THEN "accept" ELSE "end"
  /\ UNCHANGED <<conn, co, open, live>> /\ ConnElse

Accept(c) ==
  /\ acceptor = "accept" /\ sock = "open" /\ co[c] = "none" /\ c \notin open
  /\ acceptor' = "forward" /\ conn' = c
  /\ open' = open \cup {c}
  /\ UNCHANGED <<co, live>> /\ ConnElse

AcceptFails ==
  /\ acceptor = "accept" /\ sock = "closed"
  /\ acceptor' = "end"
  /\ UNCHANGED <<conn, co, open, live>> /\ ConnElse

\* forward and forwardBonded: liveSockets.add, then launch.
ForwardAdd ==
  /\ acceptor = "forward"
  /\ live' = live \cup {conn}
  /\ acceptor' = "launch"
  /\ UNCHANGED <<conn, co, open>> /\ ConnElse

ForwardLaunch ==
  /\ acceptor = "launch"
  /\ co' = [co EXCEPT ![conn] = IF scope THEN "queued" ELSE "end"]
  /\ acceptor' = "loop" /\ conn' = None
  /\ UNCHANGED <<open, live>> /\ ConnElse

\* A coroutine that is cancelled before it is dispatched never runs, nor does its
\* finally.
ConnRuns(c) ==
  /\ co[c] = "queued"
  /\ co' = [co EXCEPT ![c] = IF scope THEN "run" ELSE "end"]
  /\ UNCHANGED <<acceptor, conn, open, live>> /\ ConnElse

\* The connection ends, by itself or because its sockets or its scope are gone,
\* and its finally closes everything.
ConnEnds(c) ==
  /\ co[c] = "run"
  /\ co' = [co EXCEPT ![c] = "end"]
  /\ open' = open \ {c} /\ live' = live \ {c}
  /\ UNCHANGED <<acceptor, conn>> /\ ConnElse

-----------------------------------------------------------------------------
(* stop.                                                                   *)

StopGoes(p, from, to) ==
  /\ stopAt[p] = from
  /\ stopAt' = [stopAt EXCEPT ![p] = to]

StopBegin(p) ==
  /\ p = "start" => starter = "stop"
  /\ StopGoes(p, "idle", "pool")
  /\ stopped' = TRUE
  /\ late' = IF stopped THEN late ELSE {r \in Rooms : sup[r] \in {"port", "add"}}
  /\ UNCHANGED <<roomVars, starter, balancerVars, connVars>>

StopPool(p) ==
  /\ StopGoes(p, "pool", "server")
  /\ pool' = {}
  /\ UNCHANGED <<stopped, late, sup, running, registered, handles, latch, starter,
                 balancerVars, connVars>>

\* Mutant of StopServer: the reference is dropped without closing the socket.
MutantStopServer(p) ==
  /\ StopGoes(p, "server", "sockets")
  /\ field' = FALSE
  /\ UNCHANGED <<stopped, late, roomVars, starter, sock, scope, connVars>>

StopServer(p) ==
  /\ StopGoes(p, "server", "sockets")
  /\ sock' = IF field THEN "closed" ELSE sock
  /\ field' = FALSE
  /\ UNCHANGED <<stopped, late, roomVars, starter, scope, connVars>>

StopSockets(p) ==
  /\ StopGoes(p, "sockets", "scope")
  /\ open' = open \ live /\ live' = {}
  /\ UNCHANGED <<stopped, late, roomVars, starter, balancerVars, acceptor, conn, co>>

StopScope(p) ==
  /\ StopGoes(p, "scope", "handles")
  /\ scope' = FALSE
  /\ UNCHANGED <<stopped, late, roomVars, starter, sock, field, connVars>>

StopHandles(p) ==
  /\ StopGoes(p, "handles", IF handles # {} THEN "rooms" ELSE "done")
  /\ UNCHANGED <<stopped, late, roomVars, starter, balancerVars, connVars>>

\* Mutant of StopRooms: the instances stay in the registry.
MutantStopRooms(p) ==
  /\ StopGoes(p, "rooms", "clear")
  /\ running' = running \ registered
  /\ UNCHANGED <<stopped, late, sup, registered, handles, pool, latch, starter, balancerVars,
                 connVars>>

\* Mobile.stopAllRooms: every instance of the registry.
StopRooms(p) ==
  /\ StopGoes(p, "rooms", "clear")
  /\ running' = running \ registered
  /\ registered' = {}
  /\ UNCHANGED <<stopped, late, sup, handles, pool, latch, starter, balancerVars, connVars>>

StopClear(p) ==
  /\ StopGoes(p, "clear", "done")
  /\ handles' = {}
  /\ UNCHANGED <<stopped, late, sup, running, registered, pool, latch, starter,
                 balancerVars, connVars>>

-----------------------------------------------------------------------------

Supervisor(r) ==
  \/ SupLoop(r) \/ StartReady(r) \/ StartRegister(r) \/ StartFails(r) \/ SupSleep(r)
  \/ SupCheck(r) \/ SupPort(r) \/ SupAdd(r) \/ SupPool(r) \/ SupSignal(r)
Start ==
  \/ StartWaits \/ StartTimesOut \/ StartReturnsFalse
  \/ BalancerBind \/ BalancerPublish \/ BalancerLaunch
Acceptor == AcceptorRuns \/ AcceptLoop \/ AcceptFails \/ ForwardAdd \/ ForwardLaunch
Stop(p) ==
  \/ StopPool(p) \/ StopServer(p) \/ StopSockets(p) \/ StopScope(p)
  \/ StopHandles(p) \/ StopRooms(p) \/ StopClear(p)

Next ==
  \/ \E r \in Rooms : Supervisor(r)
  \/ Start \/ Acceptor
  \/ \E c \in Conns : Accept(c) \/ ConnRuns(c) \/ ConnEnds(c)
  \/ \E p \in Callers : StopBegin(p) \/ Stop(p)

Spec == Init /\ [][Next]_vars

\* Every thread and every coroutine that was dispatched runs; a room that is tried
\* again and again comes up; a connection ends once its sockets are closed or its
\* scope is cancelled.  Nobody needs to connect or to call stop.
FairSpec ==
  /\ Spec
  /\ \A r \in Rooms : WF_vars(Supervisor(r)) /\ SF_vars(StartReady(r))
  /\ WF_vars(Start) /\ WF_vars(Acceptor)
  /\ \A c \in Conns : /\ WF_vars(ConnRuns(c))
                      /\ WF_vars((c \notin open \/ ~scope) /\ ConnEnds(c))
  /\ WF_vars(StopBegin("start")) /\ \A p \in Callers : WF_vars(Stop(p))

-----------------------------------------------------------------------------
(* Properties.                                                             *)

\* Type invariant; the registry holds only instances that run.
TypeOK ==
  /\ stopped \in BOOLEAN /\ latch \in BOOLEAN /\ field \in BOOLEAN /\ scope \in BOOLEAN
  /\ late \subseteq Rooms /\ registered \subseteq running /\ running \subseteq Rooms
  /\ handles \subseteq Rooms /\ pool \subseteq Rooms
  /\ sup \in [Rooms -> {"loop", "starting", "ready", "check", "port", "add", "pool", "signal",
                        "sleep", "done"}]
  /\ starter \in {"wait", "bind", "publish", "launch", "stop", "true", "false"}
  /\ stopAt \in [Callers -> {"idle", "pool", "server", "sockets", "scope", "handles", "rooms",
                             "clear", "done"}]
  /\ sock \in {"none", "open", "closed"}
  /\ acceptor \in {"none", "queued", "loop", "accept", "forward", "launch", "end"}
  /\ conn \in Conns \cup {None} /\ co \in [Conns -> {"none", "queued", "run", "end"}]
  /\ open \subseteq Conns /\ live \subseteq Conns

\* stop has returned and nothing of the manager runs any more.
Over ==
  /\ stopAt["service"] = "done" /\ stopAt["start"] \in {"idle", "done"}
  /\ starter \in {"true", "false"} /\ acceptor \in {"none", "end"}
  /\ \A r \in Rooms : sup[r] = "done"
  /\ \A c \in Conns : co[c] \in {"none", "end"}

\* While nobody stops the manager, a start that returned true has a room behind its
\* balancer: the port is published before the latch lets start go on, and every
\* published room runs.
ServingHasRoom ==
  starter = "true" /\ ~stopped =>
    sock = "open" /\ pool # {} /\ pool \subseteq registered /\ acceptor # "end"

\* "Stops the balancer, every in-flight connection and every room. Idempotent; releases
\* the port." (OlcrtcRoomManager.kt:456), also for a room that comes up late, which "must
\* stop ITSELF or it leaks" (187-188): when stop has returned and every thread has ended,
\* no room runs and neither the port nor a connection is open.  The code does not keep
\* this promise.
StopReleasesAll == Over => running = {} /\ sock # "open" /\ open = {}

\* How far the broken promise goes for the rooms: one that stop leaves running had
\* passed its supervisor's test of stopped and was not yet in handles when stopped was
\* set; every other room is stopped by its supervisor or by stop.
OnlyLateRoomsLeft == Over => running \subseteq late

\* A room that cannot be reached is tried again until it is up or the manager is
\* stopped.
RoomsComeUp == \A r \in Rooms : <>(r \in pool \/ stopped)

\* After stop every thread of the manager ends: no supervisor, accept loop or
\* connection is left waiting.
StopEndsAll == (stopAt["service"] # "idle") ~> Over

=============================================================================
