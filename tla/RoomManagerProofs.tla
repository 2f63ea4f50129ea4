-------------------------- MODULE RoomManagerProofs --------------------------
(***************************************************************************)
(* The safety properties of RoomManager for any set of rooms and of        *)
(* connections.  None of them is inductive: they rest on where the         *)
(* supervisors and the callers of stop are when a room runs (RoomInv), on  *)
(* what nobody can have taken down before stop began (ServeInv), and on    *)
(* the connection the accept loop has in hand (SocketInv).                 *)
(***************************************************************************)
EXTENDS RoomManager, TLAPS

\* A room runs only from StartRoom on, is registered as soon as StartRoom has returned
\* and is in handles once its supervisor has gone past it; one that was not late is
\* about to be stopped by its supervisor, or nobody has come to the end of stop yet.
RoomInv ==
  /\ \A r \in Rooms : sup[r] = "ready" => r \in running /\ r \notin registered
  /\ \A r \in running :
       /\ sup[r] \in {"ready", "check", "port", "add", "pool", "signal", "done"}
       /\ sup[r] # "ready" => r \in registered
       /\ sup[r] \in {"pool", "signal", "done"} => r \in handles
       /\ \A p \in Callers : stopAt[p] = "clear" => sup[r] \in {"ready", "check"}
       /\ stopped /\ r \notin late /\ sup[r] \notin {"ready", "check"} =>
            /\ sup[r] \in {"pool", "signal", "done"}
            /\ \A p \in Callers : stopAt[p] \notin {"clear", "done"}

\* Before stop begins nothing has been taken down, and start has gone on only after a
\* room was published.
ServeInv ==
  /\ acceptor # "none" => starter = "true"
  /\ starter \in {"bind", "publish", "launch", "true"} => latch
  /\ ~stopped =>
       /\ \A p \in Callers : stopAt[p] = "idle"
       /\ scope /\ sock # "closed" /\ acceptor # "end"
       /\ starter \in {"publish", "launch", "true"} => sock = "open"
       /\ pool \subseteq registered /\ (latch => pool # {})
       /\ \A r \in Rooms :
            /\ sup[r] \in {"check", "port", "add", "pool"} => r \in registered
            /\ sup[r] = "signal" => r \in pool

\* An accept loop that handles a connection has one.
SocketInv ==
  acceptor \in {"forward", "launch"} => conn \in Conns

IInv == TypeOK /\ RoomInv /\ ServeInv /\ SocketInv

-----------------------------------------------------------------------------
\* The initial state satisfies the invariant.
LEMMA InitIInv == Init => IInv
BY DEF Init, IInv, TypeOK, RoomInv, ServeInv, SocketInv, Callers, None

\* No step leaves the types: the registry only holds rooms that run.
LEMMA TypeStep ==
  ASSUME TypeOK, RoomInv, SocketInv, [Next]_vars
  PROVE  TypeOK'
<1>1. CASE \E r \in Rooms : SupLoop(r)
  BY <1>1 DEF SupLoop, SupGoes, SupElse, roomVars, balancerVars, connVars, TypeOK,
       RoomInv, SocketInv
<1>2. CASE \E r \in Rooms : StartReady(r)
  BY <1>2 DEF StartReady, SupGoes, SupElse, roomVars, balancerVars, connVars, TypeOK,
       RoomInv, SocketInv
<1>3. CASE \E r \in Rooms : StartRegister(r)
  BY <1>3 DEF StartRegister, SupGoes, SupElse, roomVars, balancerVars, connVars,
       TypeOK, RoomInv, SocketInv
<1>4. CASE \E r \in Rooms : StartFails(r)
  BY <1>4 DEF StartFails, SupGoes, SupElse, roomVars, balancerVars, connVars, TypeOK,
       RoomInv, SocketInv
<1>5. CASE \E r \in Rooms : SupSleep(r)
  BY <1>5 DEF SupSleep, SupGoes, SupElse, roomVars, balancerVars, connVars, TypeOK,
       RoomInv, SocketInv
<1>6. CASE \E r \in Rooms : SupCheck(r)
  BY <1>6 DEF SupCheck, SupGoes, SupElse, roomVars, balancerVars, connVars, TypeOK,
       RoomInv, SocketInv
<1>7. CASE \E r \in Rooms : SupPort(r)
  BY <1>7 DEF SupPort, SupGoes, SupElse, roomVars, balancerVars, connVars, TypeOK,
       RoomInv, SocketInv
<1>8. CASE \E r \in Rooms : SupAdd(r)
  BY <1>8 DEF SupAdd, SupGoes, SupElse, roomVars, balancerVars, connVars, TypeOK,
       RoomInv, SocketInv
<1>9. CASE \E r \in Rooms : SupPool(r)
  BY <1>9 DEF SupPool, SupGoes, SupElse, roomVars, balancerVars, connVars, TypeOK,
       RoomInv, SocketInv
<1>10. CASE \E r \in Rooms : SupSignal(r)
  BY <1>10 DEF SupSignal, SupGoes, SupElse, roomVars, balancerVars, connVars, TypeOK,
       RoomInv, SocketInv
<1>11. CASE StartWaits
  BY <1>11 DEF StartWaits, roomVars, balancerVars, connVars, TypeOK, RoomInv, SocketInv
<1>12. CASE StartTimesOut
  BY <1>12 DEF StartTimesOut, roomVars, balancerVars, connVars, TypeOK, RoomInv,
       SocketInv
<1>13. CASE StartReturnsFalse
  BY <1>13 DEF StartReturnsFalse, roomVars, balancerVars, connVars, TypeOK, RoomInv,
       SocketInv
<1>14. CASE BalancerBind
  BY <1>14 DEF BalancerBind, roomVars, balancerVars, connVars, TypeOK, RoomInv,
       SocketInv
<1>15. CASE BalancerPublish
  BY <1>15 DEF BalancerPublish, roomVars, balancerVars, connVars, TypeOK, RoomInv,
       SocketInv
<1>16. CASE BalancerLaunch
  BY <1>16 DEF BalancerLaunch, roomVars, balancerVars, connVars, TypeOK, RoomInv,
       SocketInv
<1>17. CASE AcceptorRuns
  BY <1>17 DEF AcceptorRuns, ConnElse, roomVars, balancerVars, TypeOK, RoomInv,
       SocketInv
<1>18. CASE AcceptLoop
  BY <1>18 DEF AcceptLoop, ConnElse, roomVars, balancerVars, TypeOK, RoomInv, SocketInv
<1>19. CASE AcceptFails
  BY <1>19 DEF AcceptFails, ConnElse, roomVars, balancerVars, TypeOK, RoomInv, SocketInv
<1>20. CASE ForwardAdd
  BY <1>20 DEF ForwardAdd, ConnElse, roomVars, balancerVars, TypeOK, RoomInv, SocketInv
<1>21. CASE ForwardLaunch
  BY <1>21 DEF ForwardLaunch, ConnElse, roomVars, balancerVars, TypeOK, RoomInv,
       SocketInv
<1>22. CASE \E c \in Conns : Accept(c)
  BY <1>22 DEF Accept, ConnElse, roomVars, balancerVars, TypeOK, RoomInv, SocketInv
<1>23. CASE \E c \in Conns : ConnRuns(c)
  BY <1>23 DEF ConnRuns, ConnElse, roomVars, balancerVars, TypeOK, RoomInv, SocketInv
<1>24. CASE \E c \in Conns : ConnEnds(c)
  BY <1>24 DEF ConnEnds, ConnElse, roomVars, balancerVars, TypeOK, RoomInv, SocketInv
<1>25. CASE \E p \in Callers : StopBegin(p)
  BY <1>25 DEF StopBegin, StopGoes, roomVars, balancerVars, connVars, TypeOK, RoomInv,
       SocketInv
<1>26. CASE \E p \in Callers : StopPool(p)
  BY <1>26 DEF StopPool, StopGoes, roomVars, balancerVars, connVars, TypeOK, RoomInv,
       SocketInv
<1>27. CASE \E p \in Callers : StopServer(p)
  <2>1. TypeOK  OBVIOUS
  <2>2. PICK p \in Callers : StopServer(p)  BY <1>27
  <2>3. sock' \in {"none", "open", "closed"} /\ field' \in BOOLEAN
    BY <2>1, <2>2 DEF StopServer, TypeOK
  <2>4. stopAt' \in [Callers -> {"idle", "pool", "server", "sockets", "scope", "handles",
                                 "rooms", "clear", "done"}]
    BY <2>1, <2>2 DEF StopServer, StopGoes, TypeOK
  <2> QED BY <2>1, <2>2, <2>3, <2>4 DEF StopServer, roomVars, connVars, TypeOK
<1>28. CASE \E p \in Callers : StopSockets(p)
  BY <1>28 DEF StopSockets, StopGoes, roomVars, balancerVars, connVars, TypeOK,
       RoomInv, SocketInv
<1>29. CASE \E p \in Callers : StopScope(p)
  BY <1>29 DEF StopScope, StopGoes, roomVars, balancerVars, connVars, TypeOK, RoomInv,
       SocketInv
<1>30. CASE \E p \in Callers : StopHandles(p)
  BY <1>30 DEF StopHandles, StopGoes, roomVars, balancerVars, connVars, TypeOK,
       RoomInv, SocketInv
<1>31. CASE \E p \in Callers : StopRooms(p)
  BY <1>31 DEF StopRooms, StopGoes, roomVars, balancerVars, connVars, TypeOK, RoomInv,
       SocketInv
<1>32. CASE \E p \in Callers : StopClear(p)
  BY <1>32 DEF StopClear, StopGoes, roomVars, balancerVars, connVars, TypeOK, RoomInv,
       SocketInv
<1>33. CASE UNCHANGED vars
  BY <1>33 DEF vars, roomVars, balancerVars, connVars, TypeOK, RoomInv, SocketInv
<1> QED
  BY <1>1, <1>2, <1>3, <1>4, <1>5, <1>6, <1>7, <1>8, <1>9, <1>10, <1>11, <1>12, <1>13,
     <1>14, <1>15, <1>16, <1>17, <1>18, <1>19, <1>20, <1>21, <1>22, <1>23, <1>24,
     <1>25, <1>26, <1>27, <1>28, <1>29, <1>30, <1>31, <1>32, <1>33
  DEF Next, Supervisor, Start, Acceptor, Stop

\* No step makes a room run that neither its supervisor nor stop will find.
LEMMA RoomStep ==
  ASSUME TypeOK, RoomInv, ServeInv, [Next]_vars
  PROVE  RoomInv'
<1>1. CASE \E r \in Rooms : SupLoop(r)
  BY <1>1 DEF SupLoop, SupGoes, SupElse, roomVars, balancerVars, connVars, TypeOK,
       RoomInv, ServeInv
<1>2. CASE \E r \in Rooms : StartReady(r)
  BY <1>2 DEF StartReady, SupGoes, SupElse, roomVars, balancerVars, connVars, TypeOK,
       RoomInv, ServeInv
<1>3. CASE \E r \in Rooms : StartRegister(r)
  BY <1>3 DEF StartRegister, SupGoes, SupElse, roomVars, balancerVars, connVars,
       TypeOK, RoomInv, ServeInv
<1>4. CASE \E r \in Rooms : StartFails(r)
  BY <1>4 DEF StartFails, SupGoes, SupElse, roomVars, balancerVars, connVars, TypeOK,
       RoomInv, ServeInv
<1>5. CASE \E r \in Rooms : SupSleep(r)
  BY <1>5 DEF SupSleep, SupGoes, SupElse, roomVars, balancerVars, connVars, TypeOK,
       RoomInv, ServeInv
<1>6. CASE \E r \in Rooms : SupCheck(r)
  BY <1>6 DEF SupCheck, SupGoes, SupElse, roomVars, balancerVars, connVars, TypeOK,
       RoomInv, ServeInv
<1>7. CASE \E r \in Rooms : SupPort(r)
  BY <1>7 DEF SupPort, SupGoes, SupElse, roomVars, balancerVars, connVars, TypeOK,
       RoomInv, ServeInv
<1>8. CASE \E r \in Rooms : SupAdd(r)
  BY <1>8 DEF SupAdd, SupGoes, SupElse, roomVars, balancerVars, connVars, TypeOK,
       RoomInv, ServeInv
<1>9. CASE \E r \in Rooms : SupPool(r)
  BY <1>9 DEF SupPool, SupGoes, SupElse, roomVars, balancerVars, connVars, TypeOK,
       RoomInv, ServeInv
<1>10. CASE \E r \in Rooms : SupSignal(r)
  BY <1>10 DEF SupSignal, SupGoes, SupElse, roomVars, balancerVars, connVars, TypeOK,
       RoomInv, ServeInv
<1>11. CASE StartWaits
  BY <1>11 DEF StartWaits, roomVars, balancerVars, connVars, TypeOK, RoomInv, ServeInv
<1>12. CASE StartTimesOut
  BY <1>12 DEF StartTimesOut, roomVars, balancerVars, connVars, TypeOK, RoomInv,
       ServeInv
<1>13. CASE StartReturnsFalse
  BY <1>13 DEF StartReturnsFalse, roomVars, balancerVars, connVars, TypeOK, RoomInv,
       ServeInv
<1>14. CASE BalancerBind
  BY <1>14 DEF BalancerBind, roomVars, balancerVars, connVars, TypeOK, RoomInv, ServeInv
<1>15. CASE BalancerPublish
  BY <1>15 DEF BalancerPublish, roomVars, balancerVars, connVars, TypeOK, RoomInv,
       ServeInv
<1>16. CASE BalancerLaunch
  BY <1>16 DEF BalancerLaunch, roomVars, balancerVars, connVars, TypeOK, RoomInv,
       ServeInv
<1>17. CASE AcceptorRuns
  BY <1>17 DEF AcceptorRuns, ConnElse, roomVars, balancerVars, TypeOK, RoomInv, ServeInv
<1>18. CASE AcceptLoop
  BY <1>18 DEF AcceptLoop, ConnElse, roomVars, balancerVars, TypeOK, RoomInv, ServeInv
<1>19. CASE AcceptFails
  BY <1>19 DEF AcceptFails, ConnElse, roomVars, balancerVars, TypeOK, RoomInv, ServeInv
<1>20. CASE ForwardAdd
  BY <1>20 DEF ForwardAdd, ConnElse, roomVars, balancerVars, TypeOK, RoomInv, ServeInv
<1>21. CASE ForwardLaunch
  BY <1>21 DEF ForwardLaunch, ConnElse, roomVars, balancerVars, TypeOK, RoomInv,
       ServeInv
<1>22. CASE \E c \in Conns : Accept(c)
  BY <1>22 DEF Accept, ConnElse, roomVars, balancerVars, TypeOK, RoomInv, ServeInv
<1>23. CASE \E c \in Conns : ConnRuns(c)
  BY <1>23 DEF ConnRuns, ConnElse, roomVars, balancerVars, TypeOK, RoomInv, ServeInv
<1>24. CASE \E c \in Conns : ConnEnds(c)
  BY <1>24 DEF ConnEnds, ConnElse, roomVars, balancerVars, TypeOK, RoomInv, ServeInv
<1>25. CASE \E p \in Callers : StopBegin(p)
  BY <1>25 DEF StopBegin, StopGoes, roomVars, balancerVars, connVars, TypeOK, RoomInv,
       ServeInv
<1>26. CASE \E p \in Callers : StopPool(p)
  BY <1>26 DEF StopPool, StopGoes, roomVars, balancerVars, connVars, TypeOK, RoomInv,
       ServeInv
<1>27. CASE \E p \in Callers : StopServer(p)
  BY <1>27 DEF StopServer, StopGoes, roomVars, balancerVars, connVars, TypeOK,
       RoomInv, ServeInv
<1>28. CASE \E p \in Callers : StopSockets(p)
  BY <1>28 DEF StopSockets, StopGoes, roomVars, balancerVars, connVars, TypeOK,
       RoomInv, ServeInv
<1>29. CASE \E p \in Callers : StopScope(p)
  BY <1>29 DEF StopScope, StopGoes, roomVars, balancerVars, connVars, TypeOK, RoomInv,
       ServeInv
<1>30. CASE \E p \in Callers : StopHandles(p)
  BY <1>30 DEF StopHandles, StopGoes, roomVars, balancerVars, connVars, TypeOK,
       RoomInv, ServeInv
<1>31. CASE \E p \in Callers : StopRooms(p)
  BY <1>31 DEF StopRooms, StopGoes, roomVars, balancerVars, connVars, TypeOK, RoomInv,
       ServeInv
<1>32. CASE \E p \in Callers : StopClear(p)
  BY <1>32 DEF StopClear, StopGoes, roomVars, balancerVars, connVars, TypeOK, RoomInv,
       ServeInv
<1>33. CASE UNCHANGED vars
  BY <1>33 DEF vars, roomVars, balancerVars, connVars, TypeOK, RoomInv, ServeInv
<1> QED
  BY <1>1, <1>2, <1>3, <1>4, <1>5, <1>6, <1>7, <1>8, <1>9, <1>10, <1>11, <1>12, <1>13,
     <1>14, <1>15, <1>16, <1>17, <1>18, <1>19, <1>20, <1>21, <1>22, <1>23, <1>24,
     <1>25, <1>26, <1>27, <1>28, <1>29, <1>30, <1>31, <1>32, <1>33
  DEF Next, Supervisor, Start, Acceptor, Stop

\* Nothing is taken down before stop begins.
LEMMA ServeStep ==
  ASSUME TypeOK, ServeInv, [Next]_vars
  PROVE  ServeInv'
<1>1. CASE \E r \in Rooms : SupLoop(r)
  BY <1>1 DEF SupLoop, SupGoes, SupElse, roomVars, balancerVars, connVars, TypeOK,
       ServeInv
<1>2. CASE \E r \in Rooms : StartReady(r)
  BY <1>2 DEF StartReady, SupGoes, SupElse, roomVars, balancerVars, connVars, TypeOK,
       ServeInv
<1>3. CASE \E r \in Rooms : StartRegister(r)
  BY <1>3 DEF StartRegister, SupGoes, SupElse, roomVars, balancerVars, connVars,
       TypeOK, ServeInv
<1>4. CASE \E r \in Rooms : StartFails(r)
  BY <1>4 DEF StartFails, SupGoes, SupElse, roomVars, balancerVars, connVars, TypeOK,
       ServeInv
<1>5. CASE \E r \in Rooms : SupSleep(r)
  BY <1>5 DEF SupSleep, SupGoes, SupElse, roomVars, balancerVars, connVars, TypeOK,
       ServeInv
<1>6. CASE \E r \in Rooms : SupCheck(r)
  BY <1>6 DEF SupCheck, SupGoes, SupElse, roomVars, balancerVars, connVars, TypeOK,
       ServeInv
<1>7. CASE \E r \in Rooms : SupPort(r)
  BY <1>7 DEF SupPort, SupGoes, SupElse, roomVars, balancerVars, connVars, TypeOK,
       ServeInv
<1>8. CASE \E r \in Rooms : SupAdd(r)
  BY <1>8 DEF SupAdd, SupGoes, SupElse, roomVars, balancerVars, connVars, TypeOK,
       ServeInv
<1>9. CASE \E r \in Rooms : SupPool(r)
  BY <1>9 DEF SupPool, SupGoes, SupElse, roomVars, balancerVars, connVars, TypeOK,
       ServeInv
<1>10. CASE \E r \in Rooms : SupSignal(r)
  BY <1>10 DEF SupSignal, SupGoes, SupElse, roomVars, balancerVars, connVars, TypeOK,
       ServeInv
<1>11. CASE StartWaits
  BY <1>11 DEF StartWaits, roomVars, balancerVars, connVars, TypeOK, ServeInv
<1>12. CASE StartTimesOut
  BY <1>12 DEF StartTimesOut, roomVars, balancerVars, connVars, TypeOK, ServeInv
<1>13. CASE StartReturnsFalse
  BY <1>13 DEF StartReturnsFalse, roomVars, balancerVars, connVars, TypeOK, ServeInv
<1>14. CASE BalancerBind
  BY <1>14 DEF BalancerBind, roomVars, balancerVars, connVars, TypeOK, ServeInv
<1>15. CASE BalancerPublish
  BY <1>15 DEF BalancerPublish, roomVars, balancerVars, connVars, TypeOK, ServeInv
<1>16. CASE BalancerLaunch
  BY <1>16 DEF BalancerLaunch, roomVars, balancerVars, connVars, TypeOK, ServeInv
<1>17. CASE AcceptorRuns
  BY <1>17 DEF AcceptorRuns, ConnElse, roomVars, balancerVars, TypeOK, ServeInv
<1>18. CASE AcceptLoop
  BY <1>18 DEF AcceptLoop, ConnElse, roomVars, balancerVars, TypeOK, ServeInv
<1>19. CASE AcceptFails
  BY <1>19 DEF AcceptFails, ConnElse, roomVars, balancerVars, TypeOK, ServeInv
<1>20. CASE ForwardAdd
  BY <1>20 DEF ForwardAdd, ConnElse, roomVars, balancerVars, TypeOK, ServeInv
<1>21. CASE ForwardLaunch
  BY <1>21 DEF ForwardLaunch, ConnElse, roomVars, balancerVars, TypeOK, ServeInv
<1>22. CASE \E c \in Conns : Accept(c)
  BY <1>22 DEF Accept, ConnElse, roomVars, balancerVars, TypeOK, ServeInv
<1>23. CASE \E c \in Conns : ConnRuns(c)
  BY <1>23 DEF ConnRuns, ConnElse, roomVars, balancerVars, TypeOK, ServeInv
<1>24. CASE \E c \in Conns : ConnEnds(c)
  BY <1>24 DEF ConnEnds, ConnElse, roomVars, balancerVars, TypeOK, ServeInv
<1>25. CASE \E p \in Callers : StopBegin(p)
  BY <1>25 DEF StopBegin, StopGoes, roomVars, balancerVars, connVars, TypeOK, ServeInv
<1>26. CASE \E p \in Callers : StopPool(p)
  BY <1>26 DEF StopPool, StopGoes, roomVars, balancerVars, connVars, TypeOK, ServeInv
<1>27. CASE \E p \in Callers : StopServer(p)
  BY <1>27 DEF StopServer, StopGoes, roomVars, balancerVars, connVars, TypeOK, ServeInv
<1>28. CASE \E p \in Callers : StopSockets(p)
  BY <1>28 DEF StopSockets, StopGoes, roomVars, balancerVars, connVars, TypeOK, ServeInv
<1>29. CASE \E p \in Callers : StopScope(p)
  BY <1>29 DEF StopScope, StopGoes, roomVars, balancerVars, connVars, TypeOK, ServeInv
<1>30. CASE \E p \in Callers : StopHandles(p)
  BY <1>30 DEF StopHandles, StopGoes, roomVars, balancerVars, connVars, TypeOK, ServeInv
<1>31. CASE \E p \in Callers : StopRooms(p)
  BY <1>31 DEF StopRooms, StopGoes, roomVars, balancerVars, connVars, TypeOK, ServeInv
<1>32. CASE \E p \in Callers : StopClear(p)
  BY <1>32 DEF StopClear, StopGoes, roomVars, balancerVars, connVars, TypeOK, ServeInv
<1>33. CASE UNCHANGED vars
  BY <1>33 DEF vars, roomVars, balancerVars, connVars, TypeOK, ServeInv
<1> QED
  BY <1>1, <1>2, <1>3, <1>4, <1>5, <1>6, <1>7, <1>8, <1>9, <1>10, <1>11, <1>12, <1>13,
     <1>14, <1>15, <1>16, <1>17, <1>18, <1>19, <1>20, <1>21, <1>22, <1>23, <1>24,
     <1>25, <1>26, <1>27, <1>28, <1>29, <1>30, <1>31, <1>32, <1>33
  DEF Next, Supervisor, Start, Acceptor, Stop

\* No step makes the manager forget a socket that is open.
LEMMA SocketStep ==
  ASSUME TypeOK, ServeInv, SocketInv, [Next]_vars
  PROVE  SocketInv'
<1>1. CASE \E r \in Rooms : SupLoop(r)
  BY <1>1 DEF SupLoop, SupGoes, SupElse, roomVars, balancerVars, connVars, TypeOK,
       ServeInv, SocketInv
<1>2. CASE \E r \in Rooms : StartReady(r)
  BY <1>2 DEF StartReady, SupGoes, SupElse, roomVars, balancerVars, connVars, TypeOK,
       ServeInv, SocketInv
<1>3. CASE \E r \in Rooms : StartRegister(r)
  BY <1>3 DEF StartRegister, SupGoes, SupElse, roomVars, balancerVars, connVars,
       TypeOK, ServeInv, SocketInv
<1>4. CASE \E r \in Rooms : StartFails(r)
  BY <1>4 DEF StartFails, SupGoes, SupElse, roomVars, balancerVars, connVars, TypeOK,
       ServeInv, SocketInv
<1>5. CASE \E r \in Rooms : SupSleep(r)
  BY <1>5 DEF SupSleep, SupGoes, SupElse, roomVars, balancerVars, connVars, TypeOK,
       ServeInv, SocketInv
<1>6. CASE \E r \in Rooms : SupCheck(r)
  BY <1>6 DEF SupCheck, SupGoes, SupElse, roomVars, balancerVars, connVars, TypeOK,
       ServeInv, SocketInv
<1>7. CASE \E r \in Rooms : SupPort(r)
  BY <1>7 DEF SupPort, SupGoes, SupElse, roomVars, balancerVars, connVars, TypeOK,
       ServeInv, SocketInv
<1>8. CASE \E r \in Rooms : SupAdd(r)
  BY <1>8 DEF SupAdd, SupGoes, SupElse, roomVars, balancerVars, connVars, TypeOK,
       ServeInv, SocketInv
<1>9. CASE \E r \in Rooms : SupPool(r)
  BY <1>9 DEF SupPool, SupGoes, SupElse, roomVars, balancerVars, connVars, TypeOK,
       ServeInv, SocketInv
<1>10. CASE \E r \in Rooms : SupSignal(r)
  BY <1>10 DEF SupSignal, SupGoes, SupElse, roomVars, balancerVars, connVars, TypeOK,
       ServeInv, SocketInv
<1>11. CASE StartWaits
  BY <1>11 DEF StartWaits, roomVars, balancerVars, connVars, TypeOK, ServeInv, SocketInv
<1>12. CASE StartTimesOut
  BY <1>12 DEF StartTimesOut, roomVars, balancerVars, connVars, TypeOK, ServeInv,
       SocketInv
<1>13. CASE StartReturnsFalse
  BY <1>13 DEF StartReturnsFalse, roomVars, balancerVars, connVars, TypeOK, ServeInv,
       SocketInv
<1>14. CASE BalancerBind
  BY <1>14 DEF BalancerBind, roomVars, balancerVars, connVars, TypeOK, ServeInv,
       SocketInv
<1>15. CASE BalancerPublish
  BY <1>15 DEF BalancerPublish, roomVars, balancerVars, connVars, TypeOK, ServeInv,
       SocketInv
<1>16. CASE BalancerLaunch
  BY <1>16 DEF BalancerLaunch, roomVars, balancerVars, connVars, TypeOK, ServeInv,
       SocketInv
<1>17. CASE AcceptorRuns
  BY <1>17 DEF AcceptorRuns, ConnElse, roomVars, balancerVars, TypeOK, ServeInv,
       SocketInv
<1>18. CASE AcceptLoop
  BY <1>18 DEF AcceptLoop, ConnElse, roomVars, balancerVars, TypeOK, ServeInv, SocketInv
<1>19. CASE AcceptFails
  BY <1>19 DEF AcceptFails, ConnElse, roomVars, balancerVars, TypeOK, ServeInv,
       SocketInv
<1>20. CASE ForwardAdd
  BY <1>20 DEF ForwardAdd, ConnElse, roomVars, balancerVars, TypeOK, ServeInv, SocketInv
<1>21. CASE ForwardLaunch
  BY <1>21 DEF ForwardLaunch, ConnElse, roomVars, balancerVars, TypeOK, ServeInv,
       SocketInv
<1>22. CASE \E c \in Conns : Accept(c)
  BY <1>22 DEF Accept, ConnElse, roomVars, balancerVars, TypeOK, ServeInv, SocketInv
<1>23. CASE \E c \in Conns : ConnRuns(c)
  BY <1>23 DEF ConnRuns, ConnElse, roomVars, balancerVars, TypeOK, ServeInv, SocketInv
<1>24. CASE \E c \in Conns : ConnEnds(c)
  BY <1>24 DEF ConnEnds, ConnElse, roomVars, balancerVars, TypeOK, ServeInv, SocketInv
<1>25. CASE \E p \in Callers : StopBegin(p)
  BY <1>25 DEF StopBegin, StopGoes, roomVars, balancerVars, connVars, TypeOK,
       ServeInv, SocketInv
<1>26. CASE \E p \in Callers : StopPool(p)
  BY <1>26 DEF StopPool, StopGoes, roomVars, balancerVars, connVars, TypeOK, ServeInv,
       SocketInv
<1>27. CASE \E p \in Callers : StopServer(p)
  BY <1>27 DEF StopServer, StopGoes, roomVars, balancerVars, connVars, TypeOK,
       ServeInv, SocketInv
<1>28. CASE \E p \in Callers : StopSockets(p)
  BY <1>28 DEF StopSockets, StopGoes, roomVars, balancerVars, connVars, TypeOK,
       ServeInv, SocketInv
<1>29. CASE \E p \in Callers : StopScope(p)
  BY <1>29 DEF StopScope, StopGoes, roomVars, balancerVars, connVars, TypeOK,
       ServeInv, SocketInv
<1>30. CASE \E p \in Callers : StopHandles(p)
  BY <1>30 DEF StopHandles, StopGoes, roomVars, balancerVars, connVars, TypeOK,
       ServeInv, SocketInv
<1>31. CASE \E p \in Callers : StopRooms(p)
  BY <1>31 DEF StopRooms, StopGoes, roomVars, balancerVars, connVars, TypeOK,
       ServeInv, SocketInv
<1>32. CASE \E p \in Callers : StopClear(p)
  BY <1>32 DEF StopClear, StopGoes, roomVars, balancerVars, connVars, TypeOK,
       ServeInv, SocketInv
<1>33. CASE UNCHANGED vars
  BY <1>33 DEF vars, roomVars, balancerVars, connVars, TypeOK, ServeInv, SocketInv
<1> QED
  BY <1>1, <1>2, <1>3, <1>4, <1>5, <1>6, <1>7, <1>8, <1>9, <1>10, <1>11, <1>12, <1>13,
     <1>14, <1>15, <1>16, <1>17, <1>18, <1>19, <1>20, <1>21, <1>22, <1>23, <1>24,
     <1>25, <1>26, <1>27, <1>28, <1>29, <1>30, <1>31, <1>32, <1>33
  DEF Next, Supervisor, Start, Acceptor, Stop

-----------------------------------------------------------------------------
\* The inductive invariant holds in every state.
THEOREM Invariance == Spec => []IInv
<1>1. IInv /\ [Next]_vars => IInv'
  BY TypeStep, RoomStep, ServeStep, SocketStep DEF IInv
<1> QED BY <1>1, InitIInv, PTL DEF Spec

\* Type correctness for any rooms and connections: the registry of mobile_rooms.go never
\* holds an instance whose client was stopped.
THEOREM TypeCorrect == Spec => []TypeOK
<1>1. IInv => TypeOK  BY DEF IInv
<1> QED BY <1>1, Invariance, PTL

\* As long as nobody stops the manager, a balancer that start has left running has a
\* room behind it that runs (superviseRoom publishes before it counts the latch down).
THEOREM ServingRooms == Spec => []ServingHasRoom
<1>1. IInv => ServingHasRoom
  BY DEF IInv, ServeInv, ServingHasRoom
<1> QED BY <1>1, Invariance, PTL

\* Whatever the number of rooms and wherever their supervisors are when stop is called,
\* only rooms between the test of stopped and handles.add survive it.
THEOREM OnlyLateRooms == Spec => []OnlyLateRoomsLeft
<1>1. ASSUME IInv, Over, NEW r \in running  PROVE r \in late
  <2>1. r \in Rooms /\ "service" \in Callers  BY <1>1 DEF IInv, TypeOK, Callers
  <2>2. stopped  BY <1>1, <2>1 DEF IInv, ServeInv, Over
  <2> QED BY <1>1, <2>1, <2>2 DEF IInv, RoomInv, Over
<1>2. IInv => OnlyLateRoomsLeft  BY <1>1 DEF OnlyLateRoomsLeft
<1> QED BY <1>2, Invariance, PTL

=============================================================================
