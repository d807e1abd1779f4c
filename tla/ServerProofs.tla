---------------------------- MODULE ServerProofs ----------------------------
(***************************************************************************)
(* Theorems about the server loop.                                         *)
(***************************************************************************)
EXTENDS Server, FiniteSetTheorems, TLAPS

-----------------------------------------------------------------------------
(* The constants, the counters and the handles of the passive sockets.     *)

LEMMA NoneIsNoHandle == None \notin Handle
  BY ServerAssumption DEF None

LEMMA OneMore ==
  ASSUME NEW n \in 0 .. Width - 1
  PROVE  (n + 1) % Width \in 0 .. Width - 1
<1>1. Width \in Nat /\ Width > 0
  BY ServerAssumption
<1> QED
  BY <1>1

LEMMA OneFewer ==
  ASSUME NEW n \in 0 .. Width - 1
  PROVE  (n + Width - 1) % Width \in 0 .. Width - 1
<1>1. Width \in Nat /\ Width > 0
  BY ServerAssumption
<1> QED
  BY <1>1

LEMMA Sockets == TcpSockets \in {1, 2} /\ UdpSockets \in {1, 2} /\ {0, 1, 2, 3, 4} \subseteq Handle
  BY ServerAssumption DEF Slot

LEMMA ListenHandle ==
  \A i \in 1 .. TcpSockets : Listen(i) \in Passive /\ HandleOf(Listen(i)) = i - 1 /\ i - 1 \in Handle
  BY Sockets DEF Passive, Listen, HandleOf

LEMMA MgmtHandle ==
  \A i \in 1 .. UdpSockets :
    /\ Mgmt(i) \in Passive /\ HandleOf(Mgmt(i)) = TcpSockets + i - 1
    /\ TcpSockets + i - 1 \in Handle
  BY Sockets DEF Passive, Mgmt, HandleOf

LEMMA PassiveOnly ==
  \A fd \in Passive :
    \/ \E i \in 1 .. TcpSockets : fd = Listen(i)
    \/ \E i \in 1 .. UdpSockets : fd = Mgmt(i)
  BY DEF Passive

LEMMA PassiveTyped ==
  \A fd \in Passive : fd \in EventData /\ fd \in Fd /\ HandleOf(fd) \in Handle
                      /\ fd[1] \in {"listen", "mgmt"} /\ fd[2] \in Slot
<1> TAKE fd \in Passive
<1>1. CASE \E i \in 1 .. TcpSockets : fd = Listen(i)
  <2>1. PICK i \in 1 .. TcpSockets : fd = Listen(i)
    BY <1>1
  <2>2. i \in Slot
    BY Sockets DEF Slot
  <2> QED
    BY <2>1, <2>2, ListenHandle DEF Listen, EventData, Fd
<1>2. CASE \E i \in 1 .. UdpSockets : fd = Mgmt(i)
  <2>1. PICK i \in 1 .. UdpSockets : fd = Mgmt(i)
    BY <1>2
  <2>2. i \in Slot
    BY Sockets DEF Slot
  <2> QED
    BY <2>1, <2>2, MgmtHandle DEF Mgmt, EventData, Fd
<1> QED
  BY <1>1, <1>2, PassiveOnly

LEMMA PassivesApart ==
  /\ \A f, g \in Passive : HandleOf(f) = HandleOf(g) => f = g
  /\ \A f \in Passive : HandleOf(f) # TcpSockets + UdpSockets
<1>1. ASSUME NEW i \in 1 .. TcpSockets, NEW j \in 1 .. UdpSockets
      PROVE  i - 1 # TcpSockets + j - 1 /\ i - 1 # TcpSockets + UdpSockets
             /\ TcpSockets + j - 1 # TcpSockets + UdpSockets
  BY Sockets
<1>2. \A i, k \in 1 .. TcpSockets : i - 1 = k - 1 => i = k
  BY Sockets
<1>3. \A i, k \in 1 .. UdpSockets : TcpSockets + i - 1 = TcpSockets + k - 1 => i = k
  BY Sockets
<1>4. 1 \in 1 .. TcpSockets /\ 1 \in 1 .. UdpSockets
  BY Sockets
<1>5. ASSUME NEW f \in Passive PROVE HandleOf(f) # TcpSockets + UdpSockets
  <2>1. CASE \E i \in 1 .. TcpSockets : f = Listen(i)
    BY <1>1, <1>4, <2>1, ListenHandle
  <2>2. CASE \E i \in 1 .. UdpSockets : f = Mgmt(i)
    BY <1>1, <1>4, <2>2, MgmtHandle
  <2> QED
    BY <2>1, <2>2, PassiveOnly
<1>6. ASSUME NEW f \in Passive, NEW g \in Passive, HandleOf(f) = HandleOf(g) PROVE f = g
  <2>1. CASE \E i \in 1 .. TcpSockets : f = Listen(i)
    <3>1. CASE \E k \in 1 .. TcpSockets : g = Listen(k)
      BY <1>2, <1>6, <2>1, <3>1, ListenHandle
    <3>2. CASE \E k \in 1 .. UdpSockets : g = Mgmt(k)
      BY <1>1, <1>6, <2>1, <3>2, ListenHandle, MgmtHandle
    <3> QED
      BY <3>1, <3>2, PassiveOnly
  <2>2. CASE \E i \in 1 .. UdpSockets : f = Mgmt(i)
    <3>1. CASE \E k \in 1 .. TcpSockets : g = Listen(k)
      BY <1>1, <1>6, <2>2, <3>1, ListenHandle, MgmtHandle
    <3>2. CASE \E k \in 1 .. UdpSockets : g = Mgmt(k)
      BY <1>3, <1>6, <2>2, <3>2, MgmtHandle
    <3> QED
      BY <3>1, <3>2, PassiveOnly
  <2> QED
    BY <2>1, <2>2, PassiveOnly
<1> QED
  BY <1>5, <1>6

(* The slots of tcpEvents are those of listening sockets, the second too   *)
(* when there is one socket; the second of udpEvents may be one of them.   *)
LEMMA TcpSlots ==
  at \in {"tcp1", "tcp2"} => \E i \in 1 .. TcpSockets : Here = i - 1
<1>1. 1 \in 1 .. TcpSockets /\ tcpEvents[1] = 1 - 1
  BY Sockets DEF tcpEvents, FilledFrom, Slot
<1>2. \E i \in 1 .. TcpSockets : tcpEvents[2] = i - 1
  <2>1. CASE TcpSockets = 1
    BY <1>1, <2>1 DEF tcpEvents, FilledFrom, Slot
  <2>2. CASE TcpSockets = 2
    BY <2>2 DEF tcpEvents, FilledFrom, Slot
  <2> QED
    BY <2>1, <2>2, Sockets
<1>3. at = "tcp1" => Here = tcpEvents[1]
  BY DEF Here
<1>4. at = "tcp2" => Here = tcpEvents[2]
  BY DEF Here
<1> QED
  BY <1>1, <1>2, <1>3, <1>4

LEMMA UdpSlots ==
  at \in {"udp1", "udp2"} => Here \in Handle
<1>1. 0 \in Handle /\ TcpSockets + 1 - 1 \in Handle /\ TcpSockets + 2 - 1 \in Handle
  BY Sockets
<1>2. udpEvents[1] \in Handle /\ udpEvents[2] \in Handle
  BY <1>1, Sockets DEF udpEvents, FilledFrom, Slot
<1>3. at = "udp1" => Here = udpEvents[1]
  BY DEF Here
<1>4. at = "udp2" => Here = udpEvents[2]
  BY DEF Here
<1> QED
  BY <1>2, <1>3, <1>4

(* closeClient leaves segments that were open.                             *)
LEMMA ClosingsShrink ==
  ASSUME NEW act, NEW rest \in Closings(act) \union OriginRefused(act)
  PROVE  rest \subseteq act
<1>1. \A level : ActiveAfter(act, level) \subseteq act
  BY DEF ActiveAfter
<1> QED
  BY <1>1 DEF Closings, OriginRefused

(* A session that has not been connected closes nothing on its own.        *)
LEMMA NothingToClose == Closings(CS_CLIENT) = {}
  BY DEF Closings, ClosingCalls, CS_CLIENT, CS_SERVER

-----------------------------------------------------------------------------
(* The invariant.  Passive sockets keep the handles startServer gave them; *)
(* a session's handles are in the pool as its own, and whatever the pool   *)
(* has of a session, the session knows; a connection waits at one socket   *)
(* and is then no session yet.                                             *)
PassiveKept == \A fd \in Passive : pool[HandleOf(fd)] = fd

Newcomers ==
  /\ clients \subseteq come
  /\ \A l \in Slot : \A c \in waiting[l] :
       c \in come /\ c \notin clients /\ \A k \in Slot : c \in waiting[k] => k = l
  /\ \A c \in Conn \ clients :
       clientEvent[c] = None /\ serverEvent[c] = None /\ filterEvent[c] = None

Known(h, c) ==
  /\ pool[h] = << "client", c >> => c \in clients /\ clientEvent[c] = h
  /\ pool[h] = << "server", c >> => c \in clients /\ serverEvent[c] = h
  /\ pool[h] = << "filter", c >> => Overlapping \/ (c \in clients /\ filterEvent[c] = h)
AllKnown == \A h \in Handle : \A c \in Conn : Known(h, c)

PoolInv ==
  PassiveKept /\ OwnHandles /\ TurnsOfTheLiving /\ Newcomers /\ AllKnown

-----------------------------------------------------------------------------
(* Initial states.                                                         *)
LEMMA InitPool ==
  ASSUME Init
  PROVE  /\ PassiveKept /\ pool \in [Handle -> EventData]
         /\ \A h \in Handle : pool[h] \in Passive \union {Signal, Free}
<1> DEFINE at0(h) == CHOOSE fd \in Passive : HandleOf(fd) = h
<1>1. pool = [h \in Handle |->
         IF \E fd \in Passive : HandleOf(fd) = h THEN at0(h)
         ELSE IF h = TcpSockets + UdpSockets THEN Signal ELSE Free]
  BY DEF Init
<1>2. ASSUME NEW h \in Handle, \E fd \in Passive : HandleOf(fd) = h
      PROVE  at0(h) \in Passive /\ HandleOf(at0(h)) = h
  BY <1>2
<1>3. \A fd \in Passive : at0(HandleOf(fd)) = fd
  BY <1>2, PassivesApart, PassiveTyped
<1> HIDE DEF at0
<1>4. PassiveKept
  BY <1>1, <1>3, PassiveTyped DEF PassiveKept
<1>5. \A h \in Handle : pool[h] \in Passive \union {Signal, Free}
  BY <1>1, <1>2
<1>6. Signal \in EventData /\ Free \in EventData
  BY DEF EventData
<1>7. pool \in [Handle -> EventData]
  BY <1>1, <1>5, <1>6, PassiveTyped
<1> QED
  BY <1>4, <1>5, <1>7

LEMMA InitTypes == Init => TypeOK
<1> SUFFICES ASSUME Init PROVE TypeOK
  OBVIOUS
<1>1. pool \in [Handle -> EventData]
  BY InitPool
<1>2. current \in 0 .. Width - 1 /\ connections \in 0 .. Width - 1
  <2>1. 0 \in 0 .. Width - 1
    BY ServerAssumption
  <2> QED
    BY <2>1 DEF Init
<1>3. open \subseteq Fd /\ watched \in [Fd -> Handle \union {None}] /\ edges \subseteq Fd
  BY PassiveTyped DEF Init
<1>4. /\ active \in [Conn -> SUBSET Segment] /\ clients \subseteq Conn
      /\ clientEvent \in [Conn -> Handle \union {None}]
      /\ serverEvent \in [Conn -> Handle \union {None}]
      /\ filterEvent \in [Conn -> Handle \union {None}]
  BY DEF Init
<1>5. /\ waiting \in [Slot -> SUBSET Conn] /\ datagrams \in [Slot -> Nat]
      /\ come \subseteq Conn /\ sent \in Nat
      /\ origin \in [Conn -> {"none", "connecting", "up", "refused"}]
      /\ holds \in [Conn -> SUBSET Conn]
  BY DEF Init
<1>6. /\ at \in Places /\ advanced \in BOOLEAN /\ turn \subseteq Conn /\ ready \subseteq Handle
      /\ interrupt \in {"none", "asleep", "late"}
  BY DEF Init, Places
<1> QED
  BY <1>1, <1>2, <1>3, <1>4, <1>5, <1>6 DEF TypeOK

LEMMA InitPoolInv == Init => PoolInv
<1> SUFFICES ASSUME Init PROVE PoolInv
  OBVIOUS
<1>1. PassiveKept
  BY InitPool
<1>2. /\ clients = {} /\ turn = {} /\ active = [c \in Conn |-> {}] /\ come = {}
      /\ waiting = [i \in Slot |-> {}]
      /\ clientEvent = [c \in Conn |-> None] /\ serverEvent = [c \in Conn |-> None]
      /\ filterEvent = [c \in Conn |-> None]
  BY DEF Init
<1>3. OwnHandles /\ TurnsOfTheLiving /\ Newcomers
  BY <1>2 DEF OwnHandles, TurnsOfTheLiving, Newcomers
<1>4. AllKnown
  <2>1. \A h \in Handle : pool[h][1] \in {"listen", "mgmt", "signal", "free"}
    BY InitPool, PassiveTyped DEF Signal, Free
  <2> QED
    BY <2>1 DEF AllKnown, Known
<1> QED
  BY <1>1, <1>3, <1>4 DEF PoolInv

-----------------------------------------------------------------------------
(* Types.                                                                  *)

LEMMA TypesKept ==
  ASSUME TypeOK, MoveTo(After(at)) \/ MoveTo("clients"), at \in Slots
  PROVE  at' \in Places /\ turn' \subseteq Conn
  BY DEF TypeOK, MoveTo, After, Slots, Places

LEMMA ListensHere ==
  ASSUME TypeOK, PassiveKept, Accepting
  PROVE  Here \in Handle /\ pool[Here][1] = "listen" /\ pool[Here][2] \in Slot
<1>1. PICK i \in 1 .. TcpSockets : Here = i - 1
  BY TcpSlots DEF Accepting
<1>2. pool[i - 1] = Listen(i) /\ i - 1 \in Handle /\ i \in Slot
  BY ListenHandle, Sockets DEF PassiveKept, Slot
<1> QED
  BY <1>1, <1>2 DEF Listen

(* The steps that give no handle and take none.                            *)
QuietLoop ==
  Polled \/ Stopped \/ Skip \/ AcceptNothing \/ AcceptFails \/ RejectClient
  \/ Receive \/ ReceiveNothing \/ TurnsDone \/ \E c \in Conn : TurnKeeps(c)
QuietOutside ==
  Commands \/ Interrupt \/ \E c \in Conn : OriginAnswers(c) \/ Traffic(c) \/ FilterExits(c)

poolVars == << pool, sessionVars >>

LEMMA QuietPool ==
  /\ QuietLoop => UNCHANGED << poolVars, come, origin, holds, watched >>
  /\ QuietOutside => UNCHANGED << poolVars, come, open, turn, at, waiting >>
<1>1. QuietLoop => UNCHANGED << poolVars, come, origin, holds, watched >>
  BY Zenon DEF QuietLoop, Polled, Stopped, Skip, AcceptNothing, AcceptFails, RejectClient, Receive,
       ReceiveNothing, TurnsDone, TurnKeeps, poolVars, otherVars, kernelVars
<1>2. QuietOutside => UNCHANGED << poolVars, come, open, turn, at, waiting >>
  BY Zenon DEF QuietOutside, Commands, Interrupt, OriginAnswers, Traffic, FilterExits, poolVars,
       proxyVars, loopVars, otherVars
<1> QED
  BY <1>1, <1>2

LEMMA QuietLoopTypes ==
  ASSUME TypeOK, PassiveKept, QuietLoop
  PROVE  TypeOK'
<1>1. UNCHANGED << poolVars, come, origin, holds, watched >>
  BY QuietPool
<1>2. CASE Polled
  <2>1. ready' \subseteq Handle
    <3>1. Reported \subseteq Handle
      BY DEF Reported, TypeOK
    <3> QED
      BY <1>2, <3>1 DEF Polled, TypeOK
  <2>2. /\ edges' = {} /\ advanced' = FALSE /\ at' = "tcp1"
        /\ UNCHANGED << turn, statVars, open, waiting, datagrams, interrupt, sent >>
    BY <1>2, Zenon DEF Polled, otherVars
  <2> QED
    BY <1>1, <2>1, <2>2 DEF TypeOK, poolVars, sessionVars, statVars, Places
<1>3. CASE Stopped \/ AcceptFails
  <2>1. /\ at' = "down"
        /\ UNCHANGED << advanced, turn, ready, statVars, kernelVars, interrupt, sent >>
    BY <1>3, Zenon DEF Stopped, AcceptFails, otherVars
  <2> QED
    BY <1>1, <2>1 DEF TypeOK, poolVars, sessionVars, statVars, kernelVars, Places
<1>4. CASE Skip \/ AcceptNothing \/ ReceiveNothing
  <2>1. at' \in Places /\ turn' \subseteq Conn
    BY <1>4, TypesKept DEF Skip, AcceptNothing, ReceiveNothing, Accepting, Receiving, Slots
  <2>2. /\ ready' \subseteq Handle
        /\ UNCHANGED << advanced, statVars, kernelVars, interrupt, sent >>
    BY <1>4 DEF Skip, AcceptNothing, ReceiveNothing, otherVars, TypeOK
  <2> QED
    BY <1>1, <2>1, <2>2 DEF TypeOK, poolVars, sessionVars, statVars, kernelVars
<1>5. CASE RejectClient
  <2>1. at' \in Places /\ turn' \subseteq Conn
    BY <1>5, TypesKept DEF RejectClient, Accepting, Slots
  <2>2. ready' \subseteq Handle
    BY <1>5, ListensHere DEF RejectClient, KeepsListening, TypeOK
  <2>3. PICK c \in waiting[pool[Here][2]],
             probes \in SUBSET (IF AddressMayFail THEN {"probe"} ELSE {}) :
          /\ waiting' = [waiting EXCEPT ![pool[Here][2]] = @ \ {c}]
          /\ open' = open \union probes \X {c}
    BY <1>5 DEF RejectClient
  <2>4. pool[Here][2] \in Slot /\ c \in Conn
    BY <1>5, ListensHere DEF RejectClient, TypeOK
  <2>5. waiting' \in [Slot -> SUBSET Conn] /\ open' \subseteq Fd
    BY <2>3, <2>4 DEF TypeOK, Fd
  <2>6. current' \in 0 .. Width - 1
    BY <1>5, OneFewer DEF RejectClient, OneLess, TypeOK
  <2>7. /\ advanced' = TRUE
        /\ UNCHANGED << connections, watched, edges, datagrams, interrupt, sent >>
    BY <1>5, Zenon DEF RejectClient, otherVars
  <2> QED
    BY <1>1, <2>1, <2>2, <2>5, <2>6, <2>7 DEF TypeOK, poolVars, sessionVars
<1>6. CASE Receive
  <2>1. at' \in Places /\ turn' \subseteq Conn
    BY <1>6, TypesKept DEF Receive, Receiving, Slots
  <2>2. datagrams' \in [Slot -> Nat]
    <3> DEFINE u == pool[Here][2]
    <3>1. datagrams' = [datagrams EXCEPT ![u] = datagrams[u] - 1] /\ datagrams[u] > 0
      BY <1>6 DEF Receive, Datagram
    <3>2. \A n \in Nat : n > 0 => n - 1 \in Nat
      OBVIOUS
    <3>3. u \in Slot => datagrams[u] - 1 \in Nat
      BY <3>1, <3>2 DEF TypeOK
    <3> HIDE DEF u
    <3> QED
      BY <3>1, <3>3 DEF TypeOK
  <2>3. /\ advanced' = TRUE
        /\ UNCHANGED << ready, statVars, open, watched, edges, waiting, interrupt, sent >>
    BY <1>6, Zenon DEF Receive, otherVars
  <2> QED
    BY <1>1, <2>1, <2>2, <2>3 DEF TypeOK, poolVars, sessionVars, statVars
<1>7. CASE TurnsDone \/ \E c \in Conn : TurnKeeps(c)
  <2>1. /\ at' \in {at, "wait"} /\ turn' \subseteq turn /\ advanced' \in {advanced, TRUE}
        /\ UNCHANGED << ready, statVars, kernelVars, interrupt, sent >>
    BY <1>7 DEF TurnsDone, TurnKeeps, otherVars
  <2> QED
    BY <1>1, <2>1 DEF TypeOK, poolVars, sessionVars, statVars, kernelVars, Places
<1> QED
  BY <1>2, <1>3, <1>4, <1>5, <1>6, <1>7 DEF QuietLoop

LEMMA QuietOutsideTypes ==
  ASSUME TypeOK, QuietOutside
  PROVE  TypeOK'
<1>1. UNCHANGED << poolVars, come, open, turn, at, waiting >>
  BY QuietPool
<1>2. UNCHANGED << advanced, ready, statVars >>
  BY Zenon DEF QuietOutside, Commands, Interrupt, OriginAnswers, Traffic, FilterExits,
       proxyVars, loopVars
<1>3. CASE Commands
  <2>1. PICK u \in Managed :
          datagrams' = [datagrams EXCEPT ![u] = @ + 1] /\ edges' = edges \union {Mgmt(u)}
    BY <1>3 DEF Commands
  <2>2. u \in Slot
    BY ServerAssumption DEF Slot
  <2>3. datagrams' \in [Slot -> Nat] /\ sent' \in Nat
    BY <1>3, <2>1, <2>2 DEF TypeOK, Commands
  <2>4. edges' \subseteq Fd
    BY <2>1, <2>2 DEF TypeOK, Fd, Mgmt
  <2>5. UNCHANGED << watched, interrupt, origin, holds >>
    BY <1>3, Zenon DEF Commands, proxyVars
  <2> QED
    BY <1>1, <1>2, <2>3, <2>4, <2>5 DEF TypeOK, poolVars, sessionVars, statVars
<1>4. CASE Interrupt
  <2>1. /\ interrupt' \in {"late", "asleep"}
        /\ UNCHANGED << watched, edges, datagrams, sent, origin, holds >>
    BY <1>4 DEF Interrupt, proxyVars, otherVars
  <2> QED
    BY <1>1, <1>2, <2>1 DEF TypeOK, poolVars, sessionVars, statVars
<1>5. ASSUME NEW c \in Conn, OriginAnswers(c) \/ Traffic(c)
      PROVE  TypeOK'
  <2>1. edges' \subseteq Fd
    BY <1>5 DEF TypeOK, OriginAnswers, Traffic, Fd
  <2>2. origin' \in [Conn -> {"none", "connecting", "up", "refused"}]
    BY <1>5 DEF TypeOK, OriginAnswers, Traffic, otherVars
  <2>3. UNCHANGED << watched, datagrams, interrupt, sent, holds >>
    BY <1>5, Zenon DEF OriginAnswers, Traffic, proxyVars, otherVars
  <2> QED
    BY <1>1, <1>2, <2>1, <2>2, <2>3 DEF TypeOK, poolVars, sessionVars, statVars
<1>6. ASSUME NEW c \in Conn, FilterExits(c)
      PROVE  TypeOK'
  <2>1. watched' \in [Fd -> Handle \union {None}] /\ edges' \subseteq Fd
    BY <1>6 DEF TypeOK, FilterExits
  <2>2. holds' \in [Conn -> SUBSET Conn]
    BY <1>6 DEF TypeOK, FilterExits
  <2>3. UNCHANGED << datagrams, interrupt, sent, origin >>
    BY <1>6, Zenon DEF FilterExits
  <2> QED
    BY <1>1, <1>2, <2>1, <2>2, <2>3 DEF TypeOK, poolVars, sessionVars, statVars
<1> QED
  BY <1>3, <1>4, <1>5, <1>6 DEF QuietOutside

LEMMA ConnectsTypes ==
  ASSUME TypeOK, NEW c \in Conn, Connects(c)
  PROVE  TypeOK'
<1>1. PICK l \in 1 .. TcpSockets :
        waiting' = [waiting EXCEPT ![l] = @ \union {c}] /\ edges' = edges \union {Listen(l)}
  BY DEF Connects
<1>2. l \in Slot
  BY Sockets DEF Slot
<1>3. waiting' \in [Slot -> SUBSET Conn] /\ edges' \subseteq Fd
  BY <1>1, <1>2 DEF TypeOK, Fd, Listen
<1>4. /\ come' \subseteq Conn
      /\ UNCHANGED << proxyVars, datagrams, interrupt, sent, origin, holds >>
  BY DEF Connects, TypeOK
<1> QED
  BY <1>3, <1>4 DEF TypeOK, proxyVars, loopVars, sessionVars, statVars

(* A free handle is one of the pool, and after it was taken another is     *)
(* another.                                                                *)
LEMMA FreeHandle ==
  ASSUME NEW p, NEW h \in FreeIn(p)
  PROVE  h \in Handle /\ p[h] = Free
  BY DEF FreeIn

LEMMA PeersTyped ==
  ASSUME NEW c \in Conn
  PROVE  /\ << "client", c >> \in EventData /\ << "server", c >> \in EventData
         /\ << "filter", c >> \in EventData
         /\ << "client", c >> \in Fd /\ << "server", c >> \in Fd /\ << "probe", c >> \in Fd
         /\ << "filterIn", c >> \in Fd /\ << "filterOut", c >> \in Fd /\ << "lost", c >> \in Fd
  BY DEF EventData, Fd

(* AcceptClient takes a connection c that waits at l, and two handles.     *)
Admits(l, c, hc, hs) ==
  /\ c \in waiting[l] /\ pool[hc] = Free /\ pool[hs] = Free /\ hc # hs
  /\ waiting' = [waiting EXCEPT ![l] = @ \ {c}]
  /\ pool' = [[pool EXCEPT ![hc] = << "client", c >>] EXCEPT ![hs] = << "server", c >>]
  /\ clients' = clients \union {c} /\ active' = [active EXCEPT ![c] = CS_CLIENT]
  /\ clientEvent' = [clientEvent EXCEPT ![c] = hc]
  /\ serverEvent' = [serverEvent EXCEPT ![c] = hs]
  /\ open' \subseteq open \union {"client", "server", "probe"} \X {c}
  /\ AddressMayFail \/ open' = open \union {"client", "server"} \X {c}
  /\ watched' = [watched EXCEPT ![<< "client", c >>] = hc, ![<< "server", c >>] = hs]
  /\ origin' = [origin EXCEPT ![c] = "connecting"]

LEMMA AcceptAdmits ==
  ASSUME TypeOK, PassiveKept, AcceptClient
  PROVE  /\ \E l \in Slot, c \in Conn, hc, hs \in Handle : Admits(l, c, hc, hs)
         /\ ready' = ready /\ turn' \subseteq clients /\ at' \in Places
<1>1. at' \in Places /\ turn' \subseteq clients
  <2>1. /\ at \in {"tcp1", "tcp2"} /\ at' = After(at)
        /\ turn' = IF After(at) = "clients" THEN clients ELSE {}
    BY DEF AcceptClient, Accepting, MoveTo
  <2> QED
    BY <2>1 DEF After, Places
<1>2. Here \in Handle /\ pool[Here][2] \in Slot
  BY ListensHere DEF AcceptClient
<1>3. PICK c \in waiting[pool[Here][2]], hc \in FreeIn(pool),
           probes \in SUBSET (IF AddressMayFail THEN {"probe"} ELSE {}) :
        \E hs \in FreeIn([pool EXCEPT ![hc] = << "client", c >>]) :
          /\ Room(2 + Cardinality(probes))
          /\ waiting' = [waiting EXCEPT ![pool[Here][2]] = @ \ {c}]
          /\ pool' = [[pool EXCEPT ![hc] = << "client", c >>] EXCEPT ![hs] = << "server", c >>]
          /\ KeepsListening(Here)
          /\ clients' = clients \union {c} /\ active' = [active EXCEPT ![c] = CS_CLIENT]
          /\ clientEvent' = [clientEvent EXCEPT ![c] = hc]
          /\ serverEvent' = [serverEvent EXCEPT ![c] = hs]
          /\ open' = open \union ({"client", "server"} \union probes) \X {c}
          /\ watched' = [watched EXCEPT ![<< "client", c >>] = hc, ![<< "server", c >>] = hs]
          /\ origin' = [origin EXCEPT ![c] = "connecting"]
  BY Zenon DEF AcceptClient
<1>4. c \in Conn /\ hc \in Handle /\ pool[hc] = Free
  BY <1>2, FreeHandle DEF TypeOK
<1>5. PICK hs \in FreeIn([pool EXCEPT ![hc] = << "client", c >>]) :
          /\ waiting' = [waiting EXCEPT ![pool[Here][2]] = @ \ {c}]
          /\ pool' = [[pool EXCEPT ![hc] = << "client", c >>] EXCEPT ![hs] = << "server", c >>]
          /\ KeepsListening(Here)
          /\ clients' = clients \union {c} /\ active' = [active EXCEPT ![c] = CS_CLIENT]
          /\ clientEvent' = [clientEvent EXCEPT ![c] = hc]
          /\ serverEvent' = [serverEvent EXCEPT ![c] = hs]
          /\ open' = open \union ({"client", "server"} \union probes) \X {c}
          /\ watched' = [watched EXCEPT ![<< "client", c >>] = hc, ![<< "server", c >>] = hs]
          /\ origin' = [origin EXCEPT ![c] = "connecting"]
  BY <1>3, Zenon
<1>6. hs \in Handle /\ hs # hc /\ pool[hs] = Free
  <2>1. hs \in Handle /\ [pool EXCEPT ![hc] = << "client", c >>][hs] = Free
    BY FreeHandle
  <2>2. << "client", c >> # Free
    BY DEF Free
  <2> QED
    BY <1>4, <2>1, <2>2 DEF TypeOK
<1>7. ready' = ready
  BY <1>5 DEF AcceptClient, Accepting, KeepsListening
<1>8. /\ open' \subseteq open \union {"client", "server", "probe"} \X {c}
      /\ AddressMayFail \/ open' = open \union {"client", "server"} \X {c}
  <2>1. probes \subseteq {"probe"} /\ (AddressMayFail \/ probes = {})
    OBVIOUS
  <2> QED
    BY <1>5, <2>1
<1>9. Admits(pool[Here][2], c, hc, hs)
  BY <1>4, <1>5, <1>6, <1>8, Zenon DEF Admits
<1> QED
  BY <1>1, <1>2, <1>4, <1>6, <1>7, <1>9

LEMMA AcceptTypes ==
  ASSUME TypeOK, PassiveKept, AcceptClient
  PROVE  TypeOK'
<1>1. PICK l \in Slot, c \in Conn, hc \in Handle, hs \in Handle : Admits(l, c, hc, hs)
  BY AcceptAdmits
<1>2. at' \in Places /\ turn' \subseteq Conn /\ ready' \subseteq Handle
  BY AcceptAdmits DEF TypeOK
<1>3. pool' \in [Handle -> EventData] /\ waiting' \in [Slot -> SUBSET Conn]
  BY <1>1, PeersTyped DEF TypeOK, Admits
<1>4. /\ clients' \subseteq Conn /\ active' \in [Conn -> SUBSET Segment]
      /\ clientEvent' \in [Conn -> Handle \union {None}]
      /\ serverEvent' \in [Conn -> Handle \union {None}]
      /\ origin' \in [Conn -> {"none", "connecting", "up", "refused"}]
  BY <1>1 DEF TypeOK, Segment, Admits
<1>5. open' \subseteq Fd
  <2>1. {"client", "server", "probe"} \X {c} \subseteq Fd
    BY DEF Fd
  <2> QED
    BY <1>1, <2>1, Zenon DEF TypeOK, Admits
<1>6. watched' \in [Fd -> Handle \union {None}]
  BY <1>1, PeersTyped DEF TypeOK, Admits
<1>7. current' \in 0 .. Width - 1 /\ connections' \in 0 .. Width - 1
  BY OneMore DEF AcceptClient, Counted, TypeOK
<1>8. /\ advanced' = TRUE
      /\ UNCHANGED << filterEvent, edges, datagrams, interrupt, come, sent, holds >>
  BY Zenon DEF AcceptClient
<1> QED
  BY <1>2, <1>3, <1>4, <1>5, <1>6, <1>7, <1>8 DEF TypeOK

LEMMA CloseTypes ==
  ASSUME TypeOK, NEW c \in Conn, NEW rest \in Closings(active[c]) \union OriginRefused(active[c]),
         CloseClient(c, rest)
  PROVE  TypeOK'
<1>1. rest \subseteq Segment
  BY ClosingsShrink DEF TypeOK
<1>2. active' \in [Conn -> SUBSET Segment]
  BY <1>1 DEF CloseClient, TypeOK
<1>3. open' \subseteq Fd /\ watched' \in [Fd -> Handle \union {None}]
  BY DEF CloseClient, TypeOK
<1>4. edges' \subseteq Fd
  <2>1. Kept(Closed(c, rest)) \subseteq Fd
    BY DEF Kept, Closed, Halves, Fd
  <2> QED
    BY <2>1, Zenon DEF CloseClient, TypeOK
<1>5. pool' \in [Handle -> EventData]
  <2>1. Free \in EventData
    BY DEF EventData
  <2> QED
    BY <2>1 DEF CloseClient, TypeOK
<1>6. ready' \subseteq Handle /\ turn' \subseteq Conn /\ clients' \subseteq Conn
  BY DEF CloseClient, TurnOver, TypeOK
<1>7. /\ clientEvent' \in [Conn -> Handle \union {None}]
      /\ serverEvent' \in [Conn -> Handle \union {None}]
      /\ filterEvent' \in [Conn -> Handle \union {None}]
  BY DEF CloseClient, TypeOK
<1>8. current' \in 0 .. Width - 1
  BY OneFewer DEF CloseClient, OneLess, TypeOK
<1>9. /\ advanced' = TRUE
      /\ UNCHANGED << at, connections, waiting, datagrams, interrupt, otherVars >>
  BY Zenon DEF CloseClient
<1> QED
  BY <1>2, <1>3, <1>4, <1>5, <1>6, <1>7, <1>8, <1>9 DEF TypeOK, otherVars

LEMMA TakeTypes ==
  ASSUME TypeOK, NEW c \in Conn, TurnConnects(c) \/ TurnRetrieves(c)
  PROVE  TypeOK'
<1>1. CASE TurnConnects(c)
  <2>1. PICK all \in OriginTaken(active[c]) : active' = [active EXCEPT ![c] = all]
    BY <1>1 DEF TurnConnects
  <2>2. all \subseteq Segment
    BY <2>1 DEF OriginTaken, TypeOK, Segment
  <2>3. /\ active' \in [Conn -> SUBSET Segment] /\ advanced' = TRUE
        /\ UNCHANGED << at, turn, pool, ready, clients, clientEvent, serverEvent, filterEvent,
                        statVars, kernelVars, interrupt, otherVars >>
    BY <1>1, <2>1, <2>2 DEF TurnConnects, TypeOK
  <2> QED
    BY <2>3 DEF TypeOK, statVars, kernelVars, otherVars
<1>2. CASE TurnRetrieves(c)
  <2>1. PICK h \in FreeIn(pool), all \in FilterTaken(active[c]) :
          /\ active' = [active EXCEPT ![c] = all]
          /\ pool' = [pool EXCEPT ![h] = << "filter", c >>]
          /\ filterEvent' = [filterEvent EXCEPT ![c] = h]
          /\ watched' = [fd \in Fd |->
               IF fd \in Replaced(c) THEN filterEvent[c]
               ELSE IF fd \in {"filterIn", "filterOut"} \X {c} THEN h ELSE watched[fd]]
    BY <1>2 DEF TurnRetrieves
  <2>2. h \in Handle /\ all \subseteq Segment
    BY <2>1, FreeHandle DEF FilterTaken, TypeOK, Segment
  <2>3. /\ active' \in [Conn -> SUBSET Segment]
        /\ filterEvent' \in [Conn -> Handle \union {None}]
    BY <2>1, <2>2 DEF TypeOK
  <2>4. pool' \in [Handle -> EventData] /\ watched' \in [Fd -> Handle \union {None}]
    BY <2>1, <2>2, PeersTyped DEF TypeOK
  <2>5. open' \subseteq Fd
    <3>1. {"filterIn", "filterOut"} \X {c} \subseteq Fd /\ Replaced(c) \subseteq Fd
      BY DEF Fd, Replaced
    <3> QED
      BY <1>2, <3>1 DEF TurnRetrieves, TypeOK
  <2>6. holds' \in [Conn -> SUBSET Conn]
    BY <1>2 DEF TurnRetrieves, InheritedByFilter, TypeOK
  <2>7. /\ advanced' = TRUE
        /\ UNCHANGED << at, turn, ready, clients, clientEvent, serverEvent, statVars, edges,
                        waiting, datagrams, interrupt, come, sent, origin >>
    BY <1>2, Zenon DEF TurnRetrieves
  <2> QED
    BY <2>3, <2>4, <2>5, <2>6, <2>7 DEF TypeOK, statVars
<1> QED
  BY <1>1, <1>2

-----------------------------------------------------------------------------
(* The pools.                                                              *)

LEMMA SamePools ==
  ASSUME PoolInv, TypeOK, UNCHANGED << poolVars, come >>, turn' \subseteq clients,
         \A l \in Slot : waiting'[l] \subseteq waiting[l]
  PROVE  PoolInv'
<1>1. PassiveKept'
  BY DEF PoolInv, PassiveKept, poolVars
<1>2. OwnHandles' /\ TurnsOfTheLiving'
  BY DEF PoolInv, OwnHandles, TurnsOfTheLiving, poolVars, sessionVars
<1>3. Newcomers'
  BY DEF PoolInv, Newcomers, poolVars, sessionVars
<1>4. AllKnown'
  BY DEF PoolInv, AllKnown, Known, poolVars, sessionVars
<1> QED
  BY <1>1, <1>2, <1>3, <1>4 DEF PoolInv

LEMMA QuietLoopPools ==
  ASSUME TypeOK, PoolInv, QuietLoop
  PROVE  PoolInv'
<1>1. UNCHANGED << poolVars, come >>
  BY QuietPool
<1>2. turn' \subseteq clients
  BY DEF QuietLoop, Polled, Stopped, Skip, AcceptNothing, AcceptFails, RejectClient, Receive,
         ReceiveNothing, TurnsDone, TurnKeeps, MoveTo, PoolInv, TurnsOfTheLiving
<1>3. waiting' = waiting \/ \E l \in Slot, c \in Conn : waiting' = [waiting EXCEPT ![l] = @ \ {c}]
  <2>1. CASE RejectClient
    <3>1. pool[Here][2] \in Slot
      BY <2>1, ListensHere DEF RejectClient, PoolInv
    <3>2. PICK c \in waiting[pool[Here][2]] :
            waiting' = [waiting EXCEPT ![pool[Here][2]] = @ \ {c}]
      BY <2>1 DEF RejectClient
    <3> QED
      BY <3>1, <3>2 DEF TypeOK
  <2>2. CASE QuietLoop /\ ~RejectClient
    BY <2>2, Zenon DEF QuietLoop, Polled, Stopped, Skip, AcceptNothing, AcceptFails, Receive,
         ReceiveNothing, TurnsDone, TurnKeeps, kernelVars
  <2> QED
    BY <2>1, <2>2
<1>4. \A l \in Slot : waiting'[l] \subseteq waiting[l]
  BY <1>3 DEF TypeOK
<1> QED
  BY <1>1, <1>2, <1>4, SamePools

LEMMA QuietOutsidePools ==
  ASSUME TypeOK, PoolInv, QuietOutside
  PROVE  PoolInv'
<1>1. UNCHANGED << poolVars, come, open, turn, at, waiting >>
  BY QuietPool
<1>2. turn' \subseteq clients /\ \A l \in Slot : waiting'[l] \subseteq waiting[l]
  BY <1>1 DEF PoolInv, TurnsOfTheLiving
<1> QED
  BY <1>1, <1>2, SamePools

LEMMA ConnectsPools ==
  ASSUME TypeOK, PoolInv, NEW c \in Conn, Connects(c)
  PROVE  PoolInv'
<1>1. UNCHANGED << poolVars, turn >>
  BY Zenon DEF Connects, proxyVars, poolVars, loopVars
<1>2. PICK l \in Slot : waiting' = [waiting EXCEPT ![l] = @ \union {c}]
  <2>1. PICK l \in 1 .. TcpSockets : waiting' = [waiting EXCEPT ![l] = @ \union {c}]
    BY DEF Connects
  <2>2. l \in Slot
    BY Sockets DEF Slot
  <2> QED
    BY <2>1, <2>2
<1>3. c \notin come /\ come' = come \union {c}
  BY DEF Connects
<1>4. PassiveKept' /\ AllKnown'
  BY <1>1 DEF PoolInv, PassiveKept, AllKnown, Known, poolVars, sessionVars
<1>5. OwnHandles' /\ TurnsOfTheLiving'
  BY <1>1 DEF PoolInv, OwnHandles, TurnsOfTheLiving, poolVars, sessionVars
<1>6. Newcomers'
  <2>1. clients' \subseteq come' /\ c \notin clients
    BY <1>1, <1>3 DEF PoolInv, Newcomers, poolVars, sessionVars
  <2>2. \A k \in Slot : c \notin waiting[k]
    BY <1>3 DEF PoolInv, Newcomers
  <2>3. ASSUME NEW m \in Slot, NEW d \in waiting'[m]
        PROVE  d \in come' /\ d \notin clients' /\ \A k \in Slot : d \in waiting'[k] => k = m
    <3>1. CASE d = c
      BY <1>1, <1>2, <1>3, <2>1, <2>2, <2>3, <3>1 DEF TypeOK, poolVars, sessionVars
    <3>2. CASE d # c
      <4>1. d \in waiting[m] /\ \A k \in Slot : d \in waiting'[k] => d \in waiting[k]
        BY <1>2, <2>3, <3>2 DEF TypeOK
      <4> QED
        BY <1>1, <1>3, <4>1 DEF PoolInv, Newcomers, poolVars, sessionVars
    <3> QED
      BY <3>1, <3>2
  <2> QED
    BY <1>1, <2>1, <2>3 DEF PoolInv, Newcomers, poolVars, sessionVars
<1> QED
  BY <1>4, <1>5, <1>6 DEF PoolInv

(* A handle the pool has free is nobody's.                                 *)
LEMMA FreeIsNobodys ==
  ASSUME TypeOK, PoolInv, NEW h \in Handle, pool[h] = Free
  PROVE  /\ \A fd \in Passive : HandleOf(fd) # h
         /\ \A c \in clients : clientEvent[c] # h /\ serverEvent[c] # h /\ filterEvent[c] # h
<1>1. \A fd \in Passive : HandleOf(fd) # h
  BY PassiveTyped DEF PoolInv, PassiveKept, Free
<1>2. ASSUME NEW c \in clients
      PROVE  clientEvent[c] # h /\ serverEvent[c] # h /\ filterEvent[c] # h
  BY NoneIsNoHandle DEF PoolInv, OwnHandles, Free
<1> QED
  BY <1>1, <1>2

LEMMA AcceptPools ==
  ASSUME TypeOK, PoolInv, AcceptClient
  PROVE  PoolInv'
<1>1. PICK l \in Slot, c \in Conn, hc \in Handle, hs \in Handle : Admits(l, c, hc, hs)
  BY AcceptAdmits DEF PoolInv
<1>2. UNCHANGED << filterEvent, come >> /\ turn' \subseteq clients
  BY AcceptAdmits DEF AcceptClient, PoolInv
<1>3. /\ pool'[hc] = << "client", c >> /\ pool'[hs] = << "server", c >>
      /\ \A h \in Handle \ {hc, hs} : pool'[h] = pool[h]
  BY <1>1 DEF TypeOK, Admits
<1>4. /\ c \notin clients /\ filterEvent[c] = None /\ c \in come
      /\ clients' = clients \union {c}
  BY <1>1 DEF PoolInv, Newcomers, Admits
<1>5. /\ clientEvent'[c] = hc /\ serverEvent'[c] = hs /\ active'[c] = CS_CLIENT
      /\ \A d \in Conn \ {c} : /\ clientEvent'[d] = clientEvent[d]
                               /\ serverEvent'[d] = serverEvent[d] /\ active'[d] = active[d]
  BY <1>1 DEF TypeOK, Admits
<1>6. /\ \A fd \in Passive : HandleOf(fd) \notin {hc, hs}
      /\ \A d \in clients : {clientEvent[d], serverEvent[d], filterEvent[d]} \intersect {hc, hs} = {}
  BY <1>1, FreeIsNobodys DEF Admits
<1>7. PassiveKept'
  BY <1>3, <1>6, PassiveTyped DEF PoolInv, PassiveKept
<1>8. OwnHandles'
  <2>1. CS_CLIENT \intersect CS_FILTER = {}
    BY DEF CS_CLIENT, CS_FILTER
  <2>2. /\ clientEvent'[c] # None /\ pool'[clientEvent'[c]] = << "client", c >>
        /\ serverEvent'[c] # None /\ pool'[serverEvent'[c]] = << "server", c >>
        /\ active'[c] \intersect CS_FILTER = {} /\ filterEvent'[c] = None
    BY <1>2, <1>3, <1>4, <1>5, <2>1, NoneIsNoHandle
  <2>3. ASSUME NEW d \in clients
        PROVE  /\ clientEvent'[d] # None /\ pool'[clientEvent'[d]] = << "client", d >>
               /\ serverEvent'[d] # None /\ pool'[serverEvent'[d]] = << "server", d >>
               /\ IF active'[d] \intersect CS_FILTER = {} THEN filterEvent'[d] = None
                  ELSE filterEvent'[d] # None /\ pool'[filterEvent'[d]] = << "filter", d >>
    <3>1. d \in Conn /\ d # c
      BY <1>4 DEF TypeOK
    <3>2. \A h \in Handle : h \in {clientEvent[d], serverEvent[d], filterEvent[d]} => pool'[h] = pool[h]
      BY <1>3, <1>6
    <3>3. {clientEvent[d], serverEvent[d], filterEvent[d]} \subseteq Handle \union {None}
      BY <3>1 DEF TypeOK
    <3>4. /\ clientEvent[d] # None /\ pool[clientEvent[d]] = << "client", d >>
          /\ serverEvent[d] # None /\ pool[serverEvent[d]] = << "server", d >>
          /\ IF active[d] \intersect CS_FILTER = {} THEN filterEvent[d] = None
             ELSE filterEvent[d] # None /\ pool[filterEvent[d]] = << "filter", d >>
      BY DEF PoolInv, OwnHandles
    <3>5. /\ pool'[clientEvent[d]] = << "client", d >> /\ pool'[serverEvent[d]] = << "server", d >>
          /\ filterEvent[d] # None => pool'[filterEvent[d]] = pool[filterEvent[d]]
      BY <3>2, <3>3, <3>4
    <3>6. /\ clientEvent'[d] = clientEvent[d] /\ serverEvent'[d] = serverEvent[d]
          /\ filterEvent'[d] = filterEvent[d] /\ active'[d] = active[d]
      BY <1>2, <1>5, <3>1
    <3> QED
      BY <3>4, <3>5, <3>6, Zenon
  <2> QED
    BY <1>4, <2>2, <2>3 DEF OwnHandles
<1>9. TurnsOfTheLiving'
  <2>1. CS_CLIENT # {}
    BY DEF CS_CLIENT
  <2> QED
    BY <1>2, <1>4, <1>5, <2>1 DEF PoolInv, TurnsOfTheLiving
<1>10. Newcomers'
  <2>1. /\ c \notin waiting'[l] /\ waiting'[l] \subseteq waiting[l]
        /\ \A k \in Slot \ {l} : waiting'[k] = waiting[k]
    BY <1>1 DEF TypeOK, Admits
  <2>2. \A k \in Slot : c \notin waiting'[k]
    BY <1>1, <2>1 DEF PoolInv, Newcomers, Admits
  <2> QED
    BY <1>2, <1>4, <1>5, <2>1, <2>2 DEF PoolInv, Newcomers
<1>11. AllKnown'
  <2> SUFFICES ASSUME NEW h \in Handle, NEW d \in Conn PROVE Known(h, d)'
    BY DEF AllKnown
  <2>1. CASE h \in {hc, hs}
    BY <1>2, <1>3, <1>4, <1>5, <2>1 DEF Known
  <2>2. CASE h \notin {hc, hs}
    <3>1. Known(h, d)
      BY DEF PoolInv, AllKnown
    <3> QED
      BY <1>2, <1>3, <1>4, <1>5, <2>2, <3>1 DEF Known
  <2> QED
    BY <2>1, <2>2
<1> QED
  BY <1>7, <1>8, <1>9, <1>10, <1>11 DEF PoolInv

(* What closeClient gives back are handles of that session.                *)
LEMMA GivenBackOwn ==
  ASSUME TypeOK, PoolInv, NEW c \in clients, NEW rest, NEW h \in Handle \intersect GivenBack(c, rest)
  PROVE  /\ pool[h] \in {<< "client", c >>, << "server", c >>, << "filter", c >>}
         /\ rest = {} \/ (pool[h] = << "filter", c >> /\ Ends(c, rest, CS_FILTER))
<1>1. \/ h = filterEvent[c] /\ Ends(c, rest, CS_FILTER)
      \/ h \in {clientEvent[c], serverEvent[c]} /\ rest = {}
  BY DEF GivenBack
<1>2. Ends(c, rest, CS_FILTER) => active[c] \intersect CS_FILTER # {}
  BY DEF Ends
<1> QED
  BY <1>1, <1>2 DEF PoolInv, OwnHandles

LEMMA ClosePools ==
  ASSUME TypeOK, PoolInv, NEW c \in turn,
         NEW rest \in Closings(active[c]) \union OriginRefused(active[c]), CloseClient(c, rest)
  PROVE  PoolInv'
<1> DEFINE gone == GivenBack(c, rest)
<1>1. /\ pool' = [h \in Handle |-> IF h \in gone THEN Free ELSE pool[h]]
      /\ active' = [active EXCEPT ![c] = rest] /\ turn' = turn \ {c}
      /\ UNCHANGED << come, waiting >>
      /\ filterEvent' = IF Ends(c, rest, CS_FILTER)
                        THEN [filterEvent EXCEPT ![c] = None] ELSE filterEvent
  BY DEF CloseClient, TurnOver, otherVars
<1>2. IF rest = {}
      THEN /\ clients' = clients \ {c}
           /\ clientEvent' = [clientEvent EXCEPT ![c] = None]
           /\ serverEvent' = [serverEvent EXCEPT ![c] = None]
      ELSE UNCHANGED << clients, clientEvent, serverEvent >>
  BY DEF CloseClient
<1>3. c \in clients /\ c \in Conn
  BY DEF PoolInv, TurnsOfTheLiving, TypeOK
<1>4. \A h \in Handle \intersect gone :
        /\ pool[h] \in {<< "client", c >>, << "server", c >>, << "filter", c >>}
        /\ rest = {} \/ (pool[h] = << "filter", c >> /\ Ends(c, rest, CS_FILTER))
  BY <1>3, GivenBackOwn
<1> HIDE DEF gone
<1>5. rest \subseteq active[c]
  BY ClosingsShrink
<1>6. \A h \in Handle : pool'[h] = IF h \in gone THEN Free ELSE pool[h]
  BY <1>1
<1>7. \A d \in Conn \ {c} :
        /\ active'[d] = active[d] /\ clientEvent'[d] = clientEvent[d]
        /\ serverEvent'[d] = serverEvent[d] /\ filterEvent'[d] = filterEvent[d]
        /\ d \in clients' <=> d \in clients
  BY <1>1, <1>2 DEF TypeOK
<1>8. /\ active'[c] = rest
      /\ filterEvent'[c] = IF Ends(c, rest, CS_FILTER) THEN None ELSE filterEvent[c]
      /\ IF rest = {} THEN c \notin clients' /\ clientEvent'[c] = None /\ serverEvent'[c] = None
         ELSE c \in clients' /\ clientEvent'[c] = clientEvent[c] /\ serverEvent'[c] = serverEvent[c]
  BY <1>1, <1>2, <1>3 DEF TypeOK
<1>9. PassiveKept'
  <2> SUFFICES ASSUME NEW fd \in Passive PROVE pool'[HandleOf(fd)] = fd
    BY DEF PassiveKept
  <2>1. pool[HandleOf(fd)] = fd /\ HandleOf(fd) \in Handle /\ fd[1] \in {"listen", "mgmt"}
    BY PassiveTyped DEF PoolInv, PassiveKept
  <2>2. HandleOf(fd) \notin gone
    BY <1>4, <2>1
  <2> QED
    BY <1>6, <2>1, <2>2
<1>10. OwnHandles'
  <2>1. ASSUME NEW d \in clients', d # c
        PROVE  /\ clientEvent'[d] # None /\ pool'[clientEvent'[d]] = << "client", d >>
               /\ serverEvent'[d] # None /\ pool'[serverEvent'[d]] = << "server", d >>
               /\ IF active'[d] \intersect CS_FILTER = {} THEN filterEvent'[d] = None
                  ELSE filterEvent'[d] # None /\ pool'[filterEvent'[d]] = << "filter", d >>
    <3>1. d \in Conn /\ d \in clients
      BY <1>2, <2>1 DEF TypeOK
    <3>2. /\ clientEvent[d] # None /\ pool[clientEvent[d]] = << "client", d >>
          /\ serverEvent[d] # None /\ pool[serverEvent[d]] = << "server", d >>
          /\ IF active[d] \intersect CS_FILTER = {} THEN filterEvent[d] = None
             ELSE filterEvent[d] # None /\ pool[filterEvent[d]] = << "filter", d >>
      BY <3>1 DEF PoolInv, OwnHandles
    <3>3. {clientEvent[d], serverEvent[d], filterEvent[d]} \subseteq Handle \union {None}
      BY <3>1 DEF TypeOK
    <3>4. \A h \in Handle : pool[h] \in {<< "client", d >>, << "server", d >>, << "filter", d >>}
                              => pool'[h] = pool[h]
      BY <1>4, <1>6, <2>1
    <3>5. pool'[clientEvent[d]] = << "client", d >> /\ pool'[serverEvent[d]] = << "server", d >>
      BY <3>2, <3>3, <3>4
    <3>6. active[d] \intersect CS_FILTER # {} => pool'[filterEvent[d]] = << "filter", d >>
      BY <3>2, <3>3, <3>4
    <3> QED
      BY <1>7, <2>1, <3>1, <3>2, <3>5, <3>6
  <2>2. ASSUME c \in clients'
        PROVE  /\ clientEvent'[c] # None /\ pool'[clientEvent'[c]] = << "client", c >>
               /\ serverEvent'[c] # None /\ pool'[serverEvent'[c]] = << "server", c >>
               /\ IF active'[c] \intersect CS_FILTER = {} THEN filterEvent'[c] = None
                  ELSE filterEvent'[c] # None /\ pool'[filterEvent'[c]] = << "filter", c >>
    <3>1. rest # {}
      BY <1>8, <2>2
    <3>2. /\ clientEvent[c] # None /\ pool[clientEvent[c]] = << "client", c >>
          /\ serverEvent[c] # None /\ pool[serverEvent[c]] = << "server", c >>
          /\ IF active[c] \intersect CS_FILTER = {} THEN filterEvent[c] = None
             ELSE filterEvent[c] # None /\ pool[filterEvent[c]] = << "filter", c >>
      BY <1>3 DEF PoolInv, OwnHandles
    <3>3. {clientEvent[c], serverEvent[c], filterEvent[c]} \subseteq Handle \union {None}
      BY <1>3 DEF TypeOK
    <3>4. pool'[clientEvent[c]] = << "client", c >> /\ pool'[serverEvent[c]] = << "server", c >>
      BY <1>4, <1>6, <3>1, <3>2, <3>3
    <3>5. CASE Ends(c, rest, CS_FILTER)
      BY <1>8, <3>1, <3>2, <3>4, <3>5 DEF Ends
    <3>6. CASE ~Ends(c, rest, CS_FILTER)
      <4>1. active[c] \intersect CS_FILTER # {} => pool'[filterEvent[c]] = << "filter", c >>
        BY <1>4, <1>6, <3>1, <3>2, <3>3, <3>6
      <4>2. active[c] \intersect CS_FILTER = {} <=> rest \intersect CS_FILTER = {}
        BY <1>5, <3>6 DEF Ends
      <4> QED
        BY <1>8, <3>1, <3>2, <3>4, <3>6, <4>1, <4>2
    <3> QED
      BY <3>5, <3>6
  <2> QED
    BY <2>1, <2>2 DEF OwnHandles
<1>11. TurnsOfTheLiving'
  <2>1. turn' \subseteq clients'
    BY <1>1, <1>2 DEF PoolInv, TurnsOfTheLiving
  <2>2. \A d \in Conn : d \in clients' <=> active'[d] # {}
    BY <1>3, <1>7, <1>8 DEF PoolInv, TurnsOfTheLiving
  <2> QED
    BY <2>1, <2>2 DEF TurnsOfTheLiving
<1>12. Newcomers'
  <2>1. clients' \subseteq clients
    BY <1>2
  <2>2. rest = {} => filterEvent'[c] = None
    <3>1. active[c] \intersect CS_FILTER = {} => filterEvent[c] = None
      BY <1>3 DEF PoolInv, OwnHandles
    <3> QED
      BY <1>8, <3>1 DEF Ends
  <2>3. \A d \in Conn \ clients' :
          clientEvent'[d] = None /\ serverEvent'[d] = None /\ filterEvent'[d] = None
    BY <1>7, <1>8, <2>2 DEF PoolInv, Newcomers
  <2> QED
    BY <1>1, <2>1, <2>3 DEF PoolInv, Newcomers
<1>13. AllKnown'
  <2> SUFFICES ASSUME NEW h \in Handle, NEW d \in Conn PROVE Known(h, d)'
    BY DEF AllKnown
  <2>1. Known(h, d)
    BY DEF PoolInv, AllKnown
  <2>2. CASE h \in gone
    BY <1>6, <2>2 DEF Known, Free
  <2>3. CASE h \notin gone /\ d # c
    BY <1>6, <1>7, <2>1, <2>3 DEF Known
  <2>4. CASE h \notin gone /\ d = c
    <3>1. (rest = {} => h \notin {clientEvent[c], serverEvent[c]})
          /\ (Ends(c, rest, CS_FILTER) => h # filterEvent[c])
      BY <2>4 DEF gone, GivenBack
    <3>2. rest = {} => h # filterEvent[c]
      <4>1. active[c] \intersect CS_FILTER = {} => filterEvent[c] = None
        BY <1>3 DEF PoolInv, OwnHandles
      <4> QED
        BY <3>1, <4>1, NoneIsNoHandle DEF Ends
    <3> QED
      BY <1>6, <1>8, <2>1, <2>4, <3>1, <3>2 DEF Known
  <2> QED
    BY <2>2, <2>3, <2>4
<1> QED
  BY <1>9, <1>10, <1>11, <1>12, <1>13 DEF PoolInv

LEMMA ConnectedPools ==
  ASSUME TypeOK, PoolInv, NEW c \in Conn, TurnConnects(c)
  PROVE  PoolInv'
<1>1. PICK all \in OriginTaken(active[c]) : active' = [active EXCEPT ![c] = all]
  BY DEF TurnConnects
<1>2. /\ c \in clients
      /\ UNCHANGED << turn, pool, clients, clientEvent, serverEvent, filterEvent, waiting, come >>
  BY DEF TurnConnects, Connected, TakesTurn, PoolInv, TurnsOfTheLiving, kernelVars, otherVars
<1>3. /\ active'[c] = active[c] \union CS_SERVER
      /\ \A d \in Conn \ {c} : active'[d] = active[d]
  BY <1>1 DEF OriginTaken, TypeOK
<1>4. active'[c] # {} /\ active'[c] \intersect CS_FILTER = active[c] \intersect CS_FILTER
  BY <1>3 DEF CS_SERVER, CS_FILTER
<1>5. \A d \in Conn : active'[d] \intersect CS_FILTER = active[d] \intersect CS_FILTER
  BY <1>3, <1>4
<1>6. OwnHandles'
  BY <1>2, <1>5 DEF PoolInv, OwnHandles, TypeOK
<1>7. TurnsOfTheLiving'
  BY <1>2, <1>3, <1>4 DEF PoolInv, TurnsOfTheLiving
<1>8. PassiveKept' /\ Newcomers' /\ AllKnown'
  BY <1>2 DEF PoolInv, PassiveKept, Newcomers, AllKnown, Known
<1> QED
  BY <1>6, <1>7, <1>8 DEF PoolInv

LEMMA RetrievesPools ==
  ASSUME TypeOK, PoolInv, NEW c \in Conn, TurnRetrieves(c)
  PROVE  PoolInv'
<1>1. PICK h \in FreeIn(pool), all \in FilterTaken(active[c]) :
        /\ active' = [active EXCEPT ![c] = all]
        /\ pool' = [pool EXCEPT ![h] = << "filter", c >>]
        /\ filterEvent' = [filterEvent EXCEPT ![c] = h]
  BY DEF TurnRetrieves
<1>2. h \in Handle /\ pool[h] = Free /\ all = active[c] \union CS_FILTER
  BY <1>1, FreeHandle DEF FilterTaken
<1>3. /\ c \in clients
      /\ Overlapping \/ active[c] \intersect CS_FILTER = {}
      /\ UNCHANGED << turn, clients, clientEvent, serverEvent, waiting, come >>
  BY DEF TurnRetrieves, TakesTurn, PoolInv, TurnsOfTheLiving
<1>4. /\ \A fd \in Passive : HandleOf(fd) # h
      /\ \A d \in clients : clientEvent[d] # h /\ serverEvent[d] # h /\ filterEvent[d] # h
  BY <1>2, FreeIsNobodys
<1>5. /\ pool'[h] = << "filter", c >> /\ \A k \in Handle \ {h} : pool'[k] = pool[k]
      /\ filterEvent'[c] = h /\ \A d \in Conn \ {c} : filterEvent'[d] = filterEvent[d]
      /\ active'[c] = active[c] \union CS_FILTER
      /\ \A d \in Conn \ {c} : active'[d] = active[d]
  BY <1>1, <1>2 DEF TypeOK
<1>6. PassiveKept'
  BY <1>4, <1>5, PassiveTyped DEF PoolInv, PassiveKept
<1>7. OwnHandles'
  <2> SUFFICES ASSUME NEW d \in clients
               PROVE  /\ clientEvent[d] # None /\ pool'[clientEvent[d]] = << "client", d >>
                      /\ serverEvent[d] # None /\ pool'[serverEvent[d]] = << "server", d >>
                      /\ IF active'[d] \intersect CS_FILTER = {} THEN filterEvent'[d] = None
                         ELSE filterEvent'[d] # None /\ pool'[filterEvent'[d]] = << "filter", d >>
    BY <1>3 DEF OwnHandles
  <2>1. d \in Conn /\ {clientEvent[d], serverEvent[d], filterEvent[d]} \subseteq Handle \union {None}
    BY DEF TypeOK
  <2>2. /\ clientEvent[d] # None /\ pool[clientEvent[d]] = << "client", d >>
        /\ serverEvent[d] # None /\ pool[serverEvent[d]] = << "server", d >>
        /\ IF active[d] \intersect CS_FILTER = {} THEN filterEvent[d] = None
           ELSE filterEvent[d] # None /\ pool[filterEvent[d]] = << "filter", d >>
    BY DEF PoolInv, OwnHandles
  <2>3. pool'[clientEvent[d]] = << "client", d >> /\ pool'[serverEvent[d]] = << "server", d >>
    BY <1>4, <1>5, <2>1, <2>2
  <2>4. filterEvent[d] # None => pool'[filterEvent[d]] = pool[filterEvent[d]]
    BY <1>4, <1>5, <2>1
  <2>5. CASE d = c
    <3>1. active'[c] \intersect CS_FILTER # {}
      BY <1>5 DEF CS_FILTER
    <3> QED
      BY <1>2, <1>5, <2>2, <2>3, <2>5, <3>1, NoneIsNoHandle
  <2>6. CASE d # c
    BY <1>5, <2>1, <2>2, <2>3, <2>4, <2>6
  <2> QED
    BY <2>5, <2>6
<1>8. TurnsOfTheLiving'
  BY <1>3, <1>5 DEF PoolInv, TurnsOfTheLiving, CS_FILTER
<1>9. Newcomers'
  BY <1>3, <1>5 DEF PoolInv, Newcomers
<1>10. AllKnown'
  <2> SUFFICES ASSUME NEW k \in Handle, NEW d \in Conn PROVE Known(k, d)'
    BY DEF AllKnown
  <2>1. Known(k, d)
    BY DEF PoolInv, AllKnown
  <2>2. CASE k = h
    BY <1>3, <1>5, <2>2 DEF Known
  <2>3. CASE k # h
    <3>1. Overlapping \/ filterEvent[c] = None
      BY <1>3 DEF PoolInv, OwnHandles
    <3> QED
      BY <1>3, <1>5, <2>1, <2>3, <3>1, NoneIsNoHandle DEF Known
  <2> QED
    BY <2>2, <2>3
<1> QED
  BY <1>6, <1>7, <1>8, <1>9, <1>10 DEF PoolInv

-----------------------------------------------------------------------------
(* The theorems about handles and turns.                                   *)

(* A turn that closes segments.                                            *)
TurnEnds(c, rest) ==
  /\ TakesTurn(c) /\ CloseClient(c, rest)
  /\ \/ rest \in Closings(active[c])
     \/ rest \in OriginRefused(active[c]) /\ TRUE \in SocketError(c)

LEMMA Steps ==
  ASSUME TypeOK, Next
  PROVE   \/ QuietLoop \/ QuietOutside \/ AcceptClient
          \/ \E c \in Conn : Connects(c) \/ TurnConnects(c) \/ TurnRetrieves(c)
          \/ \E c \in Conn : \E rest \in SUBSET Segment : TurnEnds(c, rest)
<1>1. ASSUME NEW c \in Conn, Turn(c)
      PROVE  \/ QuietLoop \/ TurnConnects(c) \/ TurnRetrieves(c)
             \/ \E rest \in SUBSET Segment : TurnEnds(c, rest)
  <2>1. \A rest \in Closings(active[c]) \union OriginRefused(active[c]) : rest \subseteq Segment
    BY ClosingsShrink DEF TypeOK
  <2>2. CASE TurnRefused(c) \/ TurnCloses(c)
    BY <2>1, <2>2 DEF TurnRefused, TurnCloses, Connected, TurnEnds
  <2> QED
    BY <1>1, <2>2 DEF Turn, QuietLoop
<1>2. Proxy => \/ QuietLoop \/ AcceptClient \/ \E c \in Conn : Turn(c)
  BY DEF Proxy, QuietLoop, Wait, Stop
<1>3. Environment => QuietLoop \/ QuietOutside \/ \E c \in Conn : Connects(c)
  BY DEF Environment, QuietLoop, QuietOutside, Woken
<1> QED
  BY <1>1, <1>2, <1>3, Zenon DEF Next

LEMMA PoolStep ==
  ASSUME TypeOK, PoolInv, [Next]_vars
  PROVE  TypeOK' /\ PoolInv'
<1>1. CASE QuietLoop
  BY <1>1, QuietLoopTypes, QuietLoopPools DEF PoolInv
<1>2. CASE QuietOutside
  BY <1>2, QuietOutsideTypes, QuietOutsidePools
<1>3. CASE AcceptClient
  BY <1>3, AcceptTypes, AcceptPools DEF PoolInv
<1>4. ASSUME NEW c \in Conn, Connects(c) \/ TurnConnects(c) \/ TurnRetrieves(c)
      PROVE  TypeOK' /\ PoolInv'
  BY <1>4, ConnectsTypes, ConnectsPools, TakeTypes, ConnectedPools, RetrievesPools
<1>5. ASSUME NEW c \in Conn, NEW rest \in SUBSET Segment, TurnEnds(c, rest)
      PROVE  TypeOK' /\ PoolInv'
  BY <1>5, CloseTypes, ClosePools DEF TurnEnds, TakesTurn
<1>6. CASE UNCHANGED vars
  <2>1. UNCHANGED << poolVars, come, turn, waiting >>
    BY <1>6, Zenon DEF vars, poolVars, loopVars, kernelVars, otherVars
  <2>2. PoolInv'
    BY <2>1, SamePools DEF PoolInv, TurnsOfTheLiving
  <2>3. TypeOK'
    BY <1>6 DEF TypeOK, vars, loopVars, sessionVars, statVars, kernelVars, otherVars
  <2> QED
    BY <2>2, <2>3
<1> QED
  BY <1>1, <1>2, <1>3, <1>4, <1>5, <1>6, Steps

(* The state of the server keeps its type: handles are of the pool, the    *)
(* counters stay in their width, a slot that accepts is a listening one.   *)
THEOREM TypeCorrect == Spec => []TypeOK
<1>1. Init => TypeOK /\ PoolInv
  BY InitTypes, InitPoolInv
<1>2. TypeOK /\ PoolInv /\ [Next]_vars => (TypeOK /\ PoolInv)'
  BY PoolStep
<1> QED
  BY <1>1, <1>2, PTL DEF Spec

(* Every peer of every session has a handle of its own, whatever indices   *)
(* the pool hands out again (eventAdd, closeClient).                       *)
THEOREM HandlesOwned == Spec => []OwnHandles
<1>1. Init => TypeOK /\ PoolInv
  BY InitTypes, InitPoolInv
<1>2. TypeOK /\ PoolInv /\ [Next]_vars => (TypeOK /\ PoolInv)'
  BY PoolStep
<1>3. PoolInv => OwnHandles
  BY DEF PoolInv
<1> QED
  BY <1>1, <1>2, <1>3, PTL DEF Spec

(* The loop over the sessions never visits one that is gone, and a session *)
(* is in the pool as long as one of its segments is open.                  *)
THEOREM TurnsLive == Spec => []TurnsOfTheLiving
<1>1. Init => TypeOK /\ PoolInv
  BY InitTypes, InitPoolInv
<1>2. TypeOK /\ PoolInv /\ [Next]_vars => (TypeOK /\ PoolInv)'
  BY PoolStep
<1>3. PoolInv => TurnsOfTheLiving
  BY DEF PoolInv
<1> QED
  BY <1>1, <1>2, <1>3, PTL DEF Spec

-----------------------------------------------------------------------------
(* Descriptors.  What is open of a session belongs to a half-connection    *)
(* that is open, except for the socket to the origin while the session     *)
(* waits for its answer.  An origin that refuses, an address that fails at *)
(* once and a filter that is replaced break this: closeClient closes what  *)
(* has segments, and what the session still knows.                         *)
NoneAbandoned == ~OriginMayRefuse /\ ~AddressMayFail /\ ~Overlapping

HasSegments(c) ==
  /\ << "client", c >> \in open => active[c] \intersect CS_CLIENT # {}
  /\ << "server", c >> \in open => active[c] = CS_CLIENT \/ active[c] \intersect CS_SERVER # {}
  /\ << "filterIn", c >> \in open => "FILTER_IN" \in active[c]
  /\ << "filterOut", c >> \in open => "FILTER_OUT" \in active[c]
  /\ << "probe", c >> \notin open /\ << "lost", c >> \notin open
  /\ origin[c] # "refused"

OpenInv ==
  /\ \A fd \in open : fd[1] \in {"listen", "mgmt"} => fd \in Passive
  /\ \A c \in Conn : HasSegments(c)

LEMMA InitOpen == Init => OpenInv
  BY PassiveTyped DEF Init, OpenInv, HasSegments

LEMMA QuietLoopOpen ==
  ASSUME NoneAbandoned, TypeOK, PoolInv, OpenInv, QuietLoop
  PROVE  OpenInv'
<1>1. UNCHANGED << active, origin >>
  BY QuietPool DEF poolVars, sessionVars
<1>2. open' = open
  <2>1. CASE RejectClient
    <3>1. PICK probes \in SUBSET (IF AddressMayFail THEN {"probe"} ELSE {}) :
            \E c : open' = open \union probes \X {c}
      BY <2>1 DEF RejectClient
    <3> QED
      BY <3>1 DEF NoneAbandoned
  <2>2. CASE QuietLoop /\ ~RejectClient
    BY <2>2, Zenon DEF QuietLoop, Polled, Stopped, Skip, AcceptNothing, AcceptFails, Receive,
         ReceiveNothing, TurnsDone, TurnKeeps, kernelVars
  <2> QED
    BY <2>1, <2>2
<1> QED
  BY <1>1, <1>2 DEF OpenInv, HasSegments

LEMMA QuietOutsideOpen ==
  ASSUME NoneAbandoned, TypeOK, PoolInv, OpenInv, QuietOutside
  PROVE  OpenInv'
<1>1. UNCHANGED << active, open >>
  BY QuietPool DEF poolVars, sessionVars
<1>2. \A c \in Conn : origin'[c] # "refused"
  <2>1. \A c \in Conn : origin[c] # "refused"
    BY DEF OpenInv, HasSegments
  <2>2. ASSUME NEW d \in Conn, OriginAnswers(d)
        PROVE  \A c \in Conn : origin'[c] # "refused"
    BY <2>1, <2>2 DEF OriginAnswers, NoneAbandoned, TypeOK
  <2>3. CASE UNCHANGED origin
    BY <2>1, <2>3
  <2>4. UNCHANGED origin \/ \E d \in Conn : OriginAnswers(d)
    BY Zenon DEF QuietOutside, Commands, Interrupt, Traffic, FilterExits, otherVars
  <2> QED
    BY <2>2, <2>3, <2>4
<1> QED
  BY <1>1, <1>2 DEF OpenInv, HasSegments

LEMMA AcceptOpen ==
  ASSUME NoneAbandoned, TypeOK, PoolInv, OpenInv, AcceptClient
  PROVE  OpenInv'
<1>1. PICK l \in Slot, c \in Conn, hc \in Handle, hs \in Handle : Admits(l, c, hc, hs)
  BY AcceptAdmits DEF PoolInv
<1>2. /\ open' = open \union {"client", "server"} \X {c}
      /\ active'[c] = CS_CLIENT /\ origin'[c] = "connecting"
      /\ \A d \in Conn \ {c} : active'[d] = active[d] /\ origin'[d] = origin[d]
  BY <1>1 DEF Admits, NoneAbandoned, TypeOK
<1>3. active[c] = {}
  BY <1>1 DEF Admits, PoolInv, Newcomers, TurnsOfTheLiving
<1>4. HasSegments(c)'
  <2>1. /\ << "filterIn", c >> \notin open /\ << "filterOut", c >> \notin open
        /\ << "probe", c >> \notin open /\ << "lost", c >> \notin open
    BY <1>3 DEF OpenInv, HasSegments
  <2>2. /\ << "filterIn", c >> \notin open' /\ << "filterOut", c >> \notin open'
        /\ << "probe", c >> \notin open' /\ << "lost", c >> \notin open'
    BY <1>2, <2>1
  <2> QED
    BY <1>2, <2>2 DEF HasSegments, CS_CLIENT
<1>5. ASSUME NEW d \in Conn, d # c PROVE HasSegments(d)'
  <2>1. \A kind : << kind, d >> \in open' => << kind, d >> \in open
    BY <1>2, <1>5
  <2> QED
    BY <1>2, <1>5, <2>1 DEF OpenInv, HasSegments
<1>6. \A fd \in open' : fd[1] \in {"listen", "mgmt"} => fd \in Passive
  BY <1>2 DEF OpenInv
<1> QED
  BY <1>4, <1>5, <1>6 DEF OpenInv

LEMMA TakesOpen ==
  ASSUME NoneAbandoned, TypeOK, PoolInv, OpenInv, NEW c \in Conn,
         TurnConnects(c) \/ TurnRetrieves(c)
  PROVE  OpenInv'
<1>1. CASE TurnConnects(c)
  <2>1. /\ open' = open /\ origin' = origin
        /\ active' = [active EXCEPT ![c] = active[c] \union CS_SERVER]
    BY <1>1 DEF TurnConnects, OriginTaken, kernelVars, otherVars
  <2>2. ASSUME NEW d \in Conn PROVE HasSegments(d)'
    <3>1. active'[d] = active[d] \/ active'[d] = active[d] \union CS_SERVER
      BY <2>1 DEF TypeOK
    <3>2. CS_SERVER # {}
      BY DEF CS_SERVER
    <3> QED
      BY <2>1, <3>1, <3>2 DEF OpenInv, HasSegments
  <2> QED
    BY <2>1, <2>2 DEF OpenInv
<1>2. CASE TurnRetrieves(c)
  <2>1. /\ open' = open \union {"filterIn", "filterOut"} \X {c} /\ origin' = origin
        /\ Replaced(c) = {}
        /\ active' = [active EXCEPT ![c] = active[c] \union CS_FILTER]
        /\ "SERVER_OUT" \in active[c]
    BY <1>2 DEF TurnRetrieves, FilterTaken, Replaced, NoneAbandoned
  <2>2. ASSUME NEW d \in Conn, d # c PROVE HasSegments(d)'
    <3>1. \A kind : << kind, d >> \in open' => << kind, d >> \in open
      BY <2>1, <2>2
    <3>2. active'[d] = active[d]
      BY <2>1, <2>2 DEF TypeOK
    <3> QED
      BY <2>1, <3>1, <3>2 DEF OpenInv, HasSegments
  <2>3. HasSegments(c)'
    <3>1. active'[c] = active[c] \union CS_FILTER
      BY <2>1 DEF TypeOK
    <3>2. \A kind \in {"client", "server", "probe", "lost"} : << kind, c >> \in open' => << kind, c >> \in open
      BY <2>1
    <3>3. active'[c] \intersect CS_SERVER # {} /\ {"FILTER_IN", "FILTER_OUT"} \subseteq active'[c]
      BY <2>1, <3>1 DEF CS_SERVER, CS_FILTER
    <3>4. HasSegments(c)
      BY DEF OpenInv
    <3> QED
      BY <2>1, <3>1, <3>2, <3>3, <3>4 DEF HasSegments
  <2>4. \A fd \in open' : fd[1] \in {"listen", "mgmt"} => fd \in Passive
    BY <2>1 DEF OpenInv
  <2> QED
    BY <2>2, <2>3, <2>4 DEF OpenInv
<1> QED
  BY <1>1, <1>2

LEMMA EndsOpen ==
  ASSUME NoneAbandoned, TypeOK, PoolInv, OpenInv, NEW c \in Conn, NEW rest \in SUBSET Segment,
         TurnEnds(c, rest)
  PROVE  OpenInv'
<1>1. /\ open' = open \ Closed(c, rest) /\ origin' = origin
      /\ active' = [active EXCEPT ![c] = rest]
  BY DEF TurnEnds, CloseClient, otherVars
<1>2. ASSUME NEW d \in Conn, d # c PROVE HasSegments(d)'
  <2>1. active'[d] = active[d]
    BY <1>1, <1>2 DEF TypeOK
  <2> QED
    BY <1>1, <2>1 DEF OpenInv, HasSegments
<1>3. HasSegments(c)'
  <2>1. active'[c] = rest /\ HasSegments(c)
    BY <1>1 DEF TypeOK, OpenInv
  <2>2. /\ << "client", c >> \in open' => ~Ends(c, rest, CS_CLIENT)
        /\ << "server", c >> \in open' => ~Ends(c, rest, CS_SERVER)
        /\ << "filterIn", c >> \in open' => ~Ends(c, rest, {"FILTER_IN"})
        /\ << "filterOut", c >> \in open' => ~Ends(c, rest, {"FILTER_OUT"})
    BY <1>1 DEF Closed, Halves
  <2>3. << "server", c >> \in open' => active[c] \intersect CS_SERVER # {}
    <3> SUFFICES ASSUME << "server", c >> \in open, active[c] \intersect CS_SERVER = {}
                 PROVE  FALSE
      BY <1>1
    <3>1. active[c] = CS_CLIENT
      BY DEF OpenInv, HasSegments
    <3>2. rest \notin Closings(active[c])
      BY <3>1, NothingToClose
    <3>3. TRUE \notin SocketError(c)
      BY <2>1 DEF SocketError, HasSegments
    <3> QED
      BY <3>2, <3>3 DEF TurnEnds
  <2> QED
    BY <1>1, <2>1, <2>2, <2>3 DEF HasSegments, Ends
<1> QED
  BY <1>1, <1>2, <1>3 DEF OpenInv

LEMMA OpenStep ==
  ASSUME NoneAbandoned, TypeOK, PoolInv, OpenInv, [Next]_vars
  PROVE  OpenInv'
<1>1. CASE UNCHANGED vars
  BY <1>1 DEF OpenInv, HasSegments, vars, sessionVars, kernelVars, otherVars
<1>2. ASSUME NEW c \in Conn, Connects(c)
      PROVE  OpenInv'
  BY <1>2 DEF Connects, proxyVars, sessionVars, OpenInv, HasSegments
<1>3. CASE Next
  BY <1>2, <1>3, Steps, QuietLoopOpen, QuietOutsideOpen, AcceptOpen, TakesOpen, EndsOpen
<1> QED
  BY <1>1, <1>3

(* Nothing of a session that is gone stays behind in the pool or among the *)
(* descriptors of the process, if the origin takes every connection and    *)
(* the client takes one message at a time.                                 *)
THEOREM Released ==
  ASSUME NoneAbandoned
  PROVE  Spec => []NothingLeaked
<1>1. Init => TypeOK /\ PoolInv /\ OpenInv
  BY InitTypes, InitPoolInv, InitOpen
<1>2. TypeOK /\ PoolInv /\ OpenInv /\ [Next]_vars => (TypeOK /\ PoolInv /\ OpenInv)'
  BY PoolStep, OpenStep
<1>3. TypeOK /\ PoolInv /\ OpenInv => NothingLeaked
  <2> SUFFICES ASSUME TypeOK, PoolInv, OpenInv PROVE NothingLeaked
    OBVIOUS
  <2>1. ASSUME NEW h \in Handle, pool[h][1] \in {"client", "server", "filter"}
        PROVE  pool[h][2] \in clients
    <3>1. pool[h] \in EventData
      BY DEF TypeOK
    <3>2. PICK c \in Conn : pool[h] = << pool[h][1], c >>
      BY <2>1, <3>1 DEF EventData, Free, Signal
    <3>3. Known(h, c)
      BY DEF PoolInv, AllKnown
    <3> QED
      BY <2>1, <3>2, <3>3 DEF Known, NoneAbandoned
  <2>2. ASSUME NEW fd \in open \ Passive
        PROVE  fd[2] \in clients
    <3>1. fd \in Fd /\ fd[1] \notin {"listen", "mgmt"}
      BY DEF TypeOK, OpenInv
    <3>2. PICK kind \in {"client", "server", "filterIn", "filterOut", "probe", "lost"}, c \in Conn :
            fd = << kind, c >>
      BY <3>1 DEF Fd
    <3>3. HasSegments(c)
      BY DEF OpenInv
    <3>4. active[c] # {}
      BY <3>2, <3>3 DEF HasSegments, CS_CLIENT
    <3> QED
      BY <3>2, <3>4 DEF PoolInv, TurnsOfTheLiving
  <2> QED
    BY <2>1, <2>2 DEF NothingLeaked
<1> QED
  BY <1>1, <1>2, <1>3, PTL DEF Spec

-----------------------------------------------------------------------------
(* The epoll set.  Without filter processes that inherit clients' sockets  *)
(* the kernel knows only descriptors that are open here, by their owner's  *)
(* handle.                                                                 *)
NothingInherited == NoneAbandoned /\ ~FilterCmd

WatchInv ==
  /\ \A c \in Conn : holds[c] = {}
  /\ \A fd \in Fd : watched[fd] # None => fd \in open /\ pool[watched[fd]] = EventOf(fd)

LEMMA EventsApart ==
  /\ \A c \in Conn : /\ EventOf(<< "client", c >>) = << "client", c >>
                     /\ EventOf(<< "server", c >>) = << "server", c >>
                     /\ EventOf(<< "filterIn", c >>) = << "filter", c >>
                     /\ EventOf(<< "filterOut", c >>) = << "filter", c >>
  /\ \A fd \in Fd : EventOf(fd) # Free
  /\ \A fd \in Fd : \A c \in Conn :
       /\ EventOf(fd) = << "client", c >> => fd = << "client", c >>
       /\ EventOf(fd) = << "server", c >> => fd = << "server", c >>
       /\ EventOf(fd) = << "filter", c >> =>
            fd \in {<< "filterIn", c >>, << "filterOut", c >>, << "lost", c >>}
<1>1. \A fd \in Fd : \E kind, n : fd = << kind, n >> /\
        kind \in {"listen", "mgmt", "client", "server", "filterIn", "filterOut", "probe", "lost"}
  BY DEF Fd
<1> QED
  BY <1>1, PassiveTyped DEF EventOf, Free

LEMMA InitWatch == Init => WatchInv
<1> SUFFICES ASSUME Init PROVE WatchInv
  OBVIOUS
<1>1. \A c \in Conn : holds[c] = {}
  BY DEF Init
<1>2. open = Passive /\ watched = [fd \in Fd |-> IF fd \in Passive THEN HandleOf(fd) ELSE None]
  BY DEF Init
<1>3. \A fd \in Passive : pool[HandleOf(fd)] = fd
  BY InitPoolInv DEF PoolInv, PassiveKept
<1>4. \A fd \in Passive : EventOf(fd) = fd
  BY PassiveTyped DEF EventOf
<1> QED
  BY <1>1, <1>2, <1>3, <1>4 DEF WatchInv

LEMMA SameWatch ==
  ASSUME WatchInv, UNCHANGED << pool, watched, holds >>, open \subseteq open'
  PROVE  WatchInv'
  BY DEF WatchInv

LEMMA QuietWatch ==
  ASSUME NothingInherited, TypeOK, PoolInv, OpenInv, WatchInv,
         QuietLoop \/ QuietOutside \/ \E c \in Conn : Connects(c)
  PROVE  WatchInv'
<1>1. CASE QuietLoop
  <2>1. UNCHANGED << pool, watched, holds >>
    BY <1>1, QuietPool DEF poolVars
  <2>2. open \subseteq open'
    BY <1>1 DEF QuietLoop, Polled, Stopped, Skip, AcceptNothing, AcceptFails, RejectClient,
         Receive, ReceiveNothing, TurnsDone, TurnKeeps, kernelVars
  <2> QED
    BY <2>1, <2>2, SameWatch
<1>2. CASE QuietOutside
  <2>1. UNCHANGED << pool, open >>
    BY <1>2, QuietPool DEF poolVars
  <2>2. \A c \in Conn : ~FilterExits(c)
    BY DEF FilterExits, WatchInv
  <2>3. UNCHANGED << watched, holds >>
    BY <1>2, <2>2, Zenon DEF QuietOutside, Commands, Interrupt, OriginAnswers, Traffic,
         proxyVars, otherVars
  <2> QED
    BY <2>1, <2>3, SameWatch
<1>3. CASE \E c \in Conn : Connects(c)
  <2>1. UNCHANGED << pool, watched, holds, open >>
    BY <1>3 DEF Connects, proxyVars
  <2> QED
    BY <2>1, SameWatch
<1> QED
  BY <1>1, <1>2, <1>3

LEMMA AcceptWatch ==
  ASSUME NothingInherited, TypeOK, PoolInv, OpenInv, WatchInv, AcceptClient
  PROVE  WatchInv'
<1>1. PICK l \in Slot, c \in Conn, hc \in Handle, hs \in Handle : Admits(l, c, hc, hs)
  BY AcceptAdmits DEF PoolInv
<1>2. /\ open' = open \union {"client", "server"} \X {c} /\ holds' = holds
      /\ pool'[hc] = << "client", c >> /\ pool'[hs] = << "server", c >>
      /\ \A h \in Handle \ {hc, hs} : pool'[h] = pool[h]
      /\ pool[hc] = Free /\ pool[hs] = Free
  BY <1>1 DEF Admits, NothingInherited, NoneAbandoned, TypeOK, AcceptClient
<1>3. /\ watched'[<< "client", c >>] = hc /\ watched'[<< "server", c >>] = hs
      /\ \A fd \in Fd \ {<< "client", c >>, << "server", c >>} : watched'[fd] = watched[fd]
  BY <1>1, PeersTyped DEF Admits, TypeOK
<1>4. ASSUME NEW fd \in Fd, watched'[fd] # None
      PROVE  fd \in open' /\ pool'[watched'[fd]] = EventOf(fd)
  <2>1. CASE fd \in {<< "client", c >>, << "server", c >>}
    <3>1. << "client", c >> \in open' /\ << "server", c >> \in open'
      BY <1>2
    <3>2. /\ EventOf(<< "client", c >>) = << "client", c >>
          /\ EventOf(<< "server", c >>) = << "server", c >>
      BY EventsApart
    <3> QED
      BY <1>2, <1>3, <2>1, <3>1, <3>2, Zenon
  <2>2. CASE fd \notin {<< "client", c >>, << "server", c >>}
    <3>1. watched'[fd] = watched[fd] /\ watched[fd] \in Handle
      BY <1>3, <1>4, <2>2 DEF TypeOK
    <3>2. fd \in open /\ pool[watched[fd]] = EventOf(fd)
      BY <1>4, <3>1 DEF WatchInv
    <3>3. watched[fd] \notin {hc, hs}
      BY <1>2, <3>2, EventsApart
    <3> QED
      BY <1>2, <3>1, <3>2, <3>3
  <2> QED
    BY <2>1, <2>2
<1> QED
  BY <1>2, <1>4 DEF WatchInv

LEMMA TakesWatch ==
  ASSUME NothingInherited, TypeOK, PoolInv, OpenInv, WatchInv, NEW c \in Conn,
         TurnConnects(c) \/ TurnRetrieves(c)
  PROVE  WatchInv'
<1>1. CASE TurnConnects(c)
  <2>1. UNCHANGED << pool, watched, holds, open >>
    BY <1>1, Zenon DEF TurnConnects, kernelVars, otherVars
  <2> QED
    BY <2>1, SameWatch
<1>2. CASE TurnRetrieves(c)
  <2>0. Replaced(c) = {}
    BY <1>2 DEF TurnRetrieves, Replaced, NothingInherited, NoneAbandoned
  <2>1. PICK h \in FreeIn(pool) :
          /\ pool' = [pool EXCEPT ![h] = << "filter", c >>]
          /\ watched' = [fd \in Fd |-> IF fd \in {"filterIn", "filterOut"} \X {c} THEN h ELSE watched[fd]]
    BY <1>2, <2>0 DEF TurnRetrieves
  <2>2. h \in Handle /\ pool[h] = Free
    BY <2>1, FreeHandle
  <2>3. open' = open \union {"filterIn", "filterOut"} \X {c} /\ holds' = holds
    BY <1>2, <2>0 DEF TurnRetrieves, InheritedByFilter, NothingInherited
  <2>4. /\ pool'[h] = << "filter", c >> /\ \A k \in Handle \ {h} : pool'[k] = pool[k]
        /\ watched'[<< "filterIn", c >>] = h /\ watched'[<< "filterOut", c >>] = h
        /\ \A fd \in Fd \ {<< "filterIn", c >>, << "filterOut", c >>} : watched'[fd] = watched[fd]
    <3>1. {"filterIn", "filterOut"} \X {c} = {<< "filterIn", c >>, << "filterOut", c >>}
      OBVIOUS
    <3>2. watched' = [fd \in Fd |-> IF fd \in {<< "filterIn", c >>, << "filterOut", c >>}
                                   THEN h ELSE watched[fd]]
      BY <2>1, <3>1, Zenon
    <3> QED
      BY <2>1, <2>2, <3>2, PeersTyped DEF TypeOK
  <2>5. ASSUME NEW fd \in Fd, watched'[fd] # None
        PROVE  fd \in open' /\ pool'[watched'[fd]] = EventOf(fd)
    <3>1. CASE fd \in {<< "filterIn", c >>, << "filterOut", c >>}
      <4>1. << "filterIn", c >> \in open' /\ << "filterOut", c >> \in open'
        BY <2>3
      <4>2. /\ EventOf(<< "filterIn", c >>) = << "filter", c >>
            /\ EventOf(<< "filterOut", c >>) = << "filter", c >>
        BY EventsApart
      <4> QED
        BY <2>4, <3>1, <4>1, <4>2, Zenon
    <3>2. CASE fd \notin {<< "filterIn", c >>, << "filterOut", c >>}
      <4>1. watched'[fd] = watched[fd] /\ watched[fd] \in Handle
        BY <2>4, <2>5, <3>2 DEF TypeOK
      <4>2. fd \in open /\ pool[watched[fd]] = EventOf(fd)
        BY <2>5, <4>1 DEF WatchInv
      <4>3. watched[fd] # h
        BY <2>2, <4>2, EventsApart
      <4> QED
        BY <2>3, <2>4, <4>1, <4>2, <4>3
    <3> QED
      BY <3>1, <3>2
  <2> QED
    BY <2>3, <2>5 DEF WatchInv
<1> QED
  BY <1>1, <1>2

LEMMA EndsWatch ==
  ASSUME NothingInherited, TypeOK, PoolInv, OpenInv, WatchInv, NEW c \in Conn,
         NEW rest \in SUBSET Segment, TurnEnds(c, rest)
  PROVE  WatchInv'
<1> DEFINE closed == Closed(c, rest)
           gone   == GivenBack(c, rest)
<1>1. Kept(closed) = {}
  BY DEF Kept, Inherited, WatchInv
<1>2. /\ open' = open \ closed /\ holds' = holds
      /\ watched' = [fd \in Fd |-> IF fd \in closed \ Kept(closed) THEN None ELSE watched[fd]]
      /\ pool' = [h \in Handle |-> IF h \in gone THEN Free ELSE pool[h]]
      /\ active' = [active EXCEPT ![c] = rest]
  BY DEF TurnEnds, CloseClient, otherVars
<1>3. OpenInv'
  BY EndsOpen DEF NothingInherited
<1>4. c \in clients
  BY DEF TurnEnds, TakesTurn, PoolInv, TurnsOfTheLiving
<1>5. ASSUME NEW fd \in Fd, watched'[fd] # None
      PROVE  fd \in open' /\ pool'[watched'[fd]] = EventOf(fd)
  <2>1. fd \notin closed /\ watched'[fd] = watched[fd]
    BY <1>1, <1>2, <1>5
  <2> DEFINE h == watched[fd]
  <2>2. h \in Handle /\ fd \in open /\ pool[h] = EventOf(fd)
    BY <1>5, <2>1 DEF TypeOK, WatchInv
  <2>3. fd \in open'
    BY <1>2, <2>1, <2>2
  <2>4. ASSUME h \in gone PROVE FALSE
    <3>1. /\ pool[h] \in {<< "client", c >>, << "server", c >>, << "filter", c >>}
          /\ rest = {} \/ (pool[h] = << "filter", c >> /\ Ends(c, rest, CS_FILTER))
      BY <1>4, <2>2, <2>4, GivenBackOwn
    <3>2. << "lost", c >> \notin open
      BY DEF OpenInv, HasSegments
    <3>3. fd \in {<< "client", c >>, << "server", c >>, << "filterIn", c >>, << "filterOut", c >>}
          /\ (pool[h] = << "filter", c >> => fd \in {<< "filterIn", c >>, << "filterOut", c >>})
      BY <2>2, <3>1, <3>2, EventsApart
    <3>4. HasSegments(c)' /\ active'[c] = rest
      BY <1>2, <1>3 DEF OpenInv, TypeOK
    <3>5. CASE rest = {}
      BY <2>3, <3>3, <3>4, <3>5 DEF HasSegments, CS_CLIENT
    <3>6. CASE pool[h] = << "filter", c >> /\ Ends(c, rest, CS_FILTER)
      BY <2>3, <3>3, <3>4, <3>6 DEF HasSegments, Ends, CS_FILTER
    <3> QED
      BY <3>1, <3>5, <3>6
  <2> QED
    BY <1>2, <2>1, <2>2, <2>3, <2>4
<1> QED
  BY <1>2, <1>5 DEF WatchInv

LEMMA WatchStep ==
  ASSUME NothingInherited, TypeOK, PoolInv, OpenInv, WatchInv, [Next]_vars
  PROVE  WatchInv'
<1>1. CASE UNCHANGED vars
  <2>1. UNCHANGED << pool, watched, holds, open >>
    BY <1>1, Zenon DEF vars, kernelVars, otherVars
  <2> QED
    BY <2>1, SameWatch
<1>2. CASE Next
  <2>1. ASSUME QuietLoop \/ QuietOutside \/ \E c \in Conn : Connects(c) PROVE WatchInv'
    BY <2>1, QuietWatch
  <2>2. ASSUME NEW c \in Conn, TurnConnects(c) \/ TurnRetrieves(c) PROVE WatchInv'
    BY <2>2, TakesWatch
  <2>3. ASSUME NEW c \in Conn, NEW rest \in SUBSET Segment, TurnEnds(c, rest) PROVE WatchInv'
    BY <2>3, EndsWatch
  <2> QED
    BY <1>2, <2>1, <2>2, <2>3, Steps, AcceptWatch
<1> QED
  BY <1>1, <1>2

(* An event epoll reports is one of the peer its handle stands for: closed *)
(* descriptors are forgotten before their handle is given to anyone else   *)
(* (the comment in closeClient), unless a filter process has inherited one *)
(* or one was abandoned.                                                   *)
THEOREM EventsOwned ==
  ASSUME NothingInherited
  PROVE  Spec => []EventsReachTheirOwner
<1>1. Init => TypeOK /\ PoolInv /\ OpenInv /\ WatchInv
  BY InitTypes, InitPoolInv, InitOpen, InitWatch
<1>2. TypeOK /\ PoolInv /\ OpenInv /\ WatchInv /\ [Next]_vars
      => (TypeOK /\ PoolInv /\ OpenInv /\ WatchInv)'
  BY PoolStep, OpenStep, WatchStep DEF NothingInherited
<1>3. WatchInv => EventsReachTheirOwner
  BY DEF WatchInv, EventsReachTheirOwner
<1> QED
  BY <1>1, <1>2, <1>3, PTL DEF Spec

-----------------------------------------------------------------------------
(* Waiting for the origin.  writeReady of a server, and an event epoll has *)
(* not reported yet, mean that the origin has answered; a handle that is   *)
(* free has no flag to pass on to who gets it next.                        *)
AnsweredInv ==
  /\ \A h \in ready : pool[h] # Free
  /\ \A c \in clients : /\ serverEvent[c] \in ready => origin[c] = "up"
                        /\ active[c] \intersect CS_SERVER # {} => origin[c] = "up"
                        /\ origin[c] \in {"connecting", "up"}
  /\ \A c \in Conn : /\ << "server", c >> \in edges => origin[c] = "up"
                     /\ c \notin come => origin[c] = "none"
                     /\ (\E l \in Slot : c \in waiting[l]) => origin[c] = "none"

LEMMA InitAnswered == Init => AnsweredInv
  BY DEF Init, AnsweredInv

(* Steps that add no flag and leave the origins alone.                     *)
LEMMA SameAnswers ==
  ASSUME AnsweredInv, TypeOK, UNCHANGED << poolVars, origin >>, ready' \subseteq ready,
         \A c \in Conn : << "server", c >> \in edges' => << "server", c >> \in edges,
         \A l \in Slot : waiting'[l] \subseteq waiting[l] \union (come' \ come), come \subseteq come'
  PROVE  AnsweredInv'
<1>1. /\ \A h \in ready' : pool'[h] # Free
      /\ \A c \in clients' : /\ serverEvent'[c] \in ready' => origin'[c] = "up"
                             /\ active'[c] \intersect CS_SERVER # {} => origin'[c] = "up"
                             /\ origin'[c] \in {"connecting", "up"}
  BY DEF AnsweredInv, poolVars, sessionVars
<1>2. ASSUME NEW c \in Conn
      PROVE  /\ << "server", c >> \in edges' => origin'[c] = "up"
             /\ c \notin come' => origin'[c] = "none"
             /\ (\E l \in Slot : c \in waiting'[l]) => origin'[c] = "none"
  BY DEF AnsweredInv
<1> QED
  BY <1>1, <1>2 DEF AnsweredInv

LEMMA PolledAnswers ==
  ASSUME NothingInherited, TypeOK, PoolInv, WatchInv, AnsweredInv, Polled
  PROVE  AnsweredInv'
<1>1. /\ ready' = ready \union {h \in Reported : pool[h][1] \in {"listen", "mgmt", "server"}}
      /\ edges' = {} /\ UNCHANGED << pool, clients, active, serverEvent, origin, come, waiting >>
  BY DEF Polled, sessionVars, otherVars
<1>2. ASSUME NEW h \in ready', h \notin ready
      PROVE  pool[h] # Free /\ \A c \in clients : h = serverEvent[c] => origin[c] = "up"
  <2>1. h \in Reported /\ pool[h][1] \in {"listen", "mgmt", "server"}
    BY <1>1, <1>2
  <2>2. PICK fd \in edges : h = watched[fd] /\ h # None
    BY <2>1 DEF Reported
  <2>3. fd \in Fd /\ pool[h] = EventOf(fd)
    BY <2>2 DEF TypeOK, WatchInv
  <2>4. ASSUME NEW c \in clients, h = serverEvent[c]
        PROVE  origin[c] = "up"
    <3>1. pool[h] = << "server", c >> /\ c \in Conn
      BY <2>4 DEF PoolInv, OwnHandles, TypeOK
    <3>2. fd = << "server", c >>
      BY <2>3, <3>1, EventsApart
    <3> QED
      BY <2>2, <3>1, <3>2 DEF AnsweredInv
  <2> QED
    BY <2>3, <2>4, EventsApart
<1>3. /\ \A h \in ready' : pool'[h] # Free
      /\ \A c \in clients' : serverEvent'[c] \in ready' => origin'[c] = "up"
  BY <1>1, <1>2 DEF AnsweredInv
<1> QED
  BY <1>1, <1>3 DEF AnsweredInv

LEMMA QuietAnswers ==
  ASSUME NothingInherited, TypeOK, PoolInv, OpenInv, WatchInv, AnsweredInv,
         QuietLoop \/ QuietOutside \/ \E c \in Conn : Connects(c)
  PROVE  AnsweredInv'
<1>1. CASE QuietLoop /\ ~Polled
  <2>1. UNCHANGED << poolVars, come, origin >>
    BY <1>1, QuietPool
  <2>2. ready' \subseteq ready /\ edges' = edges
    BY <1>1 DEF QuietLoop, Stopped, Skip, AcceptNothing, AcceptFails, RejectClient, Receive,
         ReceiveNothing, TurnsDone, TurnKeeps, kernelVars, KeepsListening, Accepting
  <2>3. \A l \in Slot : waiting'[l] \subseteq waiting[l]
    <3>1. CASE RejectClient
      <4>1. PICK c : waiting' = [waiting EXCEPT ![pool[Here][2]] = @ \ {c}]
        BY <3>1 DEF RejectClient
      <4> QED
        BY <4>1 DEF TypeOK
    <3>2. CASE ~RejectClient
      BY <1>1, <3>2 DEF QuietLoop, Stopped, Skip, AcceptNothing, AcceptFails, Receive,
           ReceiveNothing, TurnsDone, TurnKeeps, kernelVars
    <3> QED
      BY <3>1, <3>2
  <2> QED
    BY <2>1, <2>2, <2>3, SameAnswers
<1>2. CASE QuietOutside /\ ~\E c \in Conn : OriginAnswers(c) \/ Traffic(c)
  <2>1. UNCHANGED << poolVars, come, waiting >>
    BY <1>2, QuietPool
  <2>2. UNCHANGED << ready, origin >>
    BY <1>2, Zenon DEF QuietOutside, Commands, Interrupt, FilterExits, proxyVars, otherVars
  <2>3. \A c \in Conn : << "server", c >> \in edges' => << "server", c >> \in edges
    BY <1>2 DEF QuietOutside, Commands, Interrupt, FilterExits, Mgmt
  <2> QED
    BY <2>1, <2>2, <2>3, SameAnswers
<1>3. ASSUME NEW c \in Conn, Connects(c)
      PROVE  AnsweredInv'
  <2>1. /\ UNCHANGED << poolVars, ready, origin >> /\ come' = come \union {c} /\ c \notin come
        /\ \E l \in 1 .. TcpSockets :
             waiting' = [waiting EXCEPT ![l] = @ \union {c}] /\ edges' = edges \union {Listen(l)}
    BY <1>3, Zenon DEF Connects, proxyVars, poolVars
  <2>2. \A d \in Conn : << "server", d >> \in edges' => << "server", d >> \in edges
    BY <2>1 DEF Listen
  <2>3. \A l \in Slot : waiting'[l] \subseteq waiting[l] \union (come' \ come)
    BY <2>1 DEF TypeOK
  <2> QED
    BY <2>1, <2>2, <2>3, SameAnswers
<1>4. ASSUME NEW c \in Conn, OriginAnswers(c)
      PROVE  AnsweredInv'
  <2>1. /\ origin[c] = "connecting" /\ origin' = [origin EXCEPT ![c] = "up"]
        /\ edges' \subseteq edges \union {<< "server", c >>}
        /\ UNCHANGED << poolVars, ready, come, waiting >>
    BY <1>4 DEF OriginAnswers, NothingInherited, NoneAbandoned, proxyVars, poolVars
  <2>2. origin'[c] = "up" /\ \A d \in Conn \ {c} : origin'[d] = origin[d]
    BY <2>1 DEF TypeOK
  <2>3. /\ \A h \in ready' : pool'[h] # Free
        /\ \A d \in clients' : /\ serverEvent'[d] \in ready' => origin'[d] = "up"
                               /\ active'[d] \intersect CS_SERVER # {} => origin'[d] = "up"
                               /\ origin'[d] \in {"connecting", "up"}
    BY <2>1, <2>2 DEF AnsweredInv, poolVars, sessionVars, TypeOK
  <2>4. c \in come /\ \A l \in Slot : c \notin waiting[l]
    BY <2>1 DEF AnsweredInv
  <2>5. ASSUME NEW d \in Conn
        PROVE  /\ << "server", d >> \in edges' => origin'[d] = "up"
               /\ d \notin come' => origin'[d] = "none"
               /\ (\E l \in Slot : d \in waiting'[l]) => origin'[d] = "none"
    <3>1. CASE d = c
      BY <2>1, <2>2, <2>4, <3>1
    <3>2. CASE d # c
      BY <2>1, <2>2, <3>2 DEF AnsweredInv
    <3> QED
      BY <3>1, <3>2
  <2> QED
    BY <2>3, <2>5 DEF AnsweredInv
<1>5. ASSUME NEW c \in Conn, Traffic(c)
      PROVE  AnsweredInv'
  <2>1. UNCHANGED << poolVars, ready, come, waiting, origin >>
    BY <1>5, Zenon DEF Traffic, proxyVars, poolVars, otherVars
  <2>2. \/ edges' = edges \union {<< "client", c >>}
        \/ /\ edges' = edges \union {<< "server", c >>}
           /\ << "server", c >> \in open /\ origin[c] # "connecting"
    BY <1>5 DEF Traffic
  <2>3. << "server", c >> \in open => c \in clients
    BY DEF OpenInv, HasSegments, PoolInv, TurnsOfTheLiving, CS_CLIENT
  <2>4. \A d \in Conn : << "server", d >> \in edges' => origin'[d] = "up"
    BY <2>1, <2>2, <2>3 DEF AnsweredInv
  <2> QED
    BY <2>1, <2>4 DEF AnsweredInv, poolVars, sessionVars
<1>6. CASE QuietOutside
  BY <1>2, <1>4, <1>5, <1>6
<1>7. CASE Polled
  BY <1>7, PolledAnswers
<1> QED
  BY <1>1, <1>3, <1>6, <1>7

LEMMA AcceptAnswers ==
  ASSUME NothingInherited, TypeOK, PoolInv, AnsweredInv, AcceptClient
  PROVE  AnsweredInv'
<1>1. PICK l \in Slot, c \in Conn, hc \in Handle, hs \in Handle : Admits(l, c, hc, hs)
  BY AcceptAdmits DEF PoolInv
<1>2. ready' = ready /\ edges' = edges /\ come' = come
  BY AcceptAdmits DEF AcceptClient, PoolInv
<1>3. /\ pool[hc] = Free /\ pool[hs] = Free /\ c \in waiting[l]
      /\ \A h \in Handle \ {hc, hs} : pool'[h] = pool[h]
      /\ clients' = clients \union {c} /\ serverEvent'[c] = hs /\ active'[c] = CS_CLIENT
      /\ origin'[c] = "connecting"
      /\ \A d \in Conn \ {c} : /\ serverEvent'[d] = serverEvent[d] /\ active'[d] = active[d]
                               /\ origin'[d] = origin[d]
  BY <1>1 DEF Admits, TypeOK
<1>4. hc \notin ready /\ hs \notin ready /\ ready \subseteq Handle
  BY <1>3 DEF AnsweredInv, TypeOK
<1>5. origin[c] = "none" /\ << "server", c >> \notin edges /\ c \in come
  BY <1>3 DEF AnsweredInv, PoolInv, Newcomers
<1>6. \A k \in Slot : c \notin waiting'[k] /\ waiting'[k] \subseteq waiting[k]
  BY <1>1 DEF Admits, PoolInv, Newcomers, TypeOK
<1>7. \A h \in ready' : pool'[h] # Free
  BY <1>2, <1>3, <1>4 DEF AnsweredInv
<1>8. CS_CLIENT \intersect CS_SERVER = {}
  BY DEF CS_CLIENT, CS_SERVER
<1>9. ASSUME NEW d \in clients'
      PROVE  /\ serverEvent'[d] \in ready' => origin'[d] = "up"
             /\ active'[d] \intersect CS_SERVER # {} => origin'[d] = "up"
             /\ origin'[d] \in {"connecting", "up"}
  <2>1. CASE d = c
    BY <1>2, <1>3, <1>4, <1>8, <2>1
  <2>2. CASE d # c
    <3>1. d \in clients /\ d \in Conn
      BY <1>3, <2>2 DEF TypeOK
    <3> QED
      BY <1>2, <1>3, <2>2, <3>1 DEF AnsweredInv
  <2> QED
    BY <2>1, <2>2
<1>10. ASSUME NEW d \in Conn
       PROVE  /\ << "server", d >> \in edges' => origin'[d] = "up"
              /\ d \notin come' => origin'[d] = "none"
              /\ (\E k \in Slot : d \in waiting'[k]) => origin'[d] = "none"
  <2>1. CASE d = c
    BY <1>2, <1>5, <1>6, <2>1
  <2>2. CASE d # c
    BY <1>2, <1>3, <1>6, <2>2 DEF AnsweredInv
  <2> QED
    BY <2>1, <2>2
<1> QED
  BY <1>7, <1>9, <1>10 DEF AnsweredInv

LEMMA TakesAnswers ==
  ASSUME NothingInherited, TypeOK, PoolInv, AnsweredInv, NEW c \in Conn,
         TurnConnects(c) \/ TurnRetrieves(c)
  PROVE  AnsweredInv'
<1>1. /\ c \in clients
      /\ UNCHANGED << ready, edges, waiting, come, origin, clients, serverEvent >>
  <2>1. c \in clients
    BY DEF TurnConnects, TurnRetrieves, Connected, TakesTurn, PoolInv, TurnsOfTheLiving
  <2>2. UNCHANGED << ready, edges, waiting, come, origin, clients, serverEvent >>
    BY Zenon DEF TurnConnects, TurnRetrieves, kernelVars, otherVars
  <2> QED
    BY <2>1, <2>2
<1>2. /\ \A d \in Conn \ {c} : active'[d] = active[d]
      /\ active'[c] \intersect CS_SERVER # {} => origin[c] = "up"
  <2>1. CASE TurnConnects(c)
    BY <1>1, <2>1 DEF TurnConnects, Connected, AnsweredInv, TypeOK
  <2>2. CASE TurnRetrieves(c)
    <3>1. active' = [active EXCEPT ![c] = active[c] \union CS_FILTER] /\ "SERVER_OUT" \in active[c]
      BY <2>2 DEF TurnRetrieves, FilterTaken
    <3>2. active[c] \intersect CS_SERVER # {}
      BY <3>1 DEF CS_SERVER
    <3> QED
      BY <1>1, <3>1, <3>2 DEF AnsweredInv, TypeOK
  <2> QED
    BY <2>1, <2>2
<1>3. \A h \in ready' : pool'[h] # Free
  <2>1. CASE TurnConnects(c)
    BY <1>1, <2>1 DEF TurnConnects, AnsweredInv
  <2>2. CASE TurnRetrieves(c)
    <3>1. PICK h \in FreeIn(pool) : pool' = [pool EXCEPT ![h] = << "filter", c >>]
      BY <2>2 DEF TurnRetrieves
    <3>2. << "filter", c >> # Free
      BY DEF Free
    <3> QED
      BY <1>1, <3>1, <3>2 DEF AnsweredInv, TypeOK
  <2> QED
    BY <2>1, <2>2
<1>4. \A d \in clients : active'[d] \intersect CS_SERVER # {} => origin[d] = "up"
  BY <1>2 DEF AnsweredInv, TypeOK
<1> QED
  BY <1>1, <1>3, <1>4 DEF AnsweredInv

LEMMA EndsAnswers ==
  ASSUME NothingInherited, TypeOK, PoolInv, WatchInv, AnsweredInv, NEW c \in Conn,
         NEW rest \in SUBSET Segment, TurnEnds(c, rest)
  PROVE  AnsweredInv'
<1> DEFINE closed == Closed(c, rest)
           gone   == GivenBack(c, rest)
<1>1. Kept(closed) = {}
  BY DEF Kept, Inherited, WatchInv
<1>2. /\ pool' = [h \in Handle |-> IF h \in gone THEN Free ELSE pool[h]]
      /\ ready' \subseteq ready \ gone /\ active' = [active EXCEPT ![c] = rest]
      /\ UNCHANGED << come, waiting, origin >> /\ clients' \subseteq clients
      /\ edges' = (edges \ (closed \ Kept(closed))) \union Kept(closed)
      /\ serverEvent' = IF rest = {} THEN [serverEvent EXCEPT ![c] = None] ELSE serverEvent
  BY DEF TurnEnds, CloseClient, otherVars
<1>3. rest \subseteq active[c]
  BY ClosingsShrink DEF TurnEnds
<1>4. edges' \subseteq edges
  BY <1>1, <1>2
<1> HIDE DEF gone, closed
<1>5. \A h \in ready' : pool'[h] # Free
  BY <1>2 DEF AnsweredInv, TypeOK
<1>6. ASSUME NEW d \in clients'
      PROVE  /\ serverEvent'[d] \in ready' => origin'[d] = "up"
             /\ active'[d] \intersect CS_SERVER # {} => origin'[d] = "up"
             /\ origin'[d] \in {"connecting", "up"}
  <2>1. d \in clients /\ d \in Conn /\ None \notin ready
    BY <1>2, NoneIsNoHandle DEF TypeOK
  <2>2. active'[d] \subseteq active[d] /\ serverEvent'[d] \in {None, serverEvent[d]}
    BY <1>2, <1>3, <2>1 DEF TypeOK
  <2> QED
    BY <1>2, <2>1, <2>2 DEF AnsweredInv
<1> QED
  BY <1>2, <1>4, <1>5, <1>6 DEF AnsweredInv

LEMMA AnsweredStep ==
  ASSUME NothingInherited, TypeOK, PoolInv, OpenInv, WatchInv, AnsweredInv, [Next]_vars
  PROVE  AnsweredInv'
<1>1. CASE UNCHANGED vars
  <2>1. UNCHANGED << poolVars, origin, ready, edges, waiting, come >>
    BY <1>1, Zenon DEF vars, poolVars, kernelVars, otherVars
  <2> QED
    BY <2>1, SameAnswers
<1>2. CASE Next
  <2>1. ASSUME QuietLoop \/ QuietOutside \/ \E c \in Conn : Connects(c) PROVE AnsweredInv'
    BY <2>1, QuietAnswers
  <2>2. ASSUME NEW c \in Conn, TurnConnects(c) \/ TurnRetrieves(c) PROVE AnsweredInv'
    BY <2>2, TakesAnswers
  <2>3. ASSUME NEW c \in Conn, NEW rest \in SUBSET Segment, TurnEnds(c, rest) PROVE AnsweredInv'
    BY <2>3, EndsAnswers
  <2> QED
    BY <1>2, <2>1, <2>2, <2>3, Steps, AcceptAnswers
<1> QED
  BY <1>1, <1>2

(* No session uses its origin before the origin has accepted: writeReady,  *)
(* which "Waiting for connection" goes by, is never one of an earlier      *)
(* owner of the handle.                                                    *)
THEOREM OriginAwaited ==
  ASSUME NothingInherited
  PROVE  Spec => []UsedOnceConnected
<1>1. Init => TypeOK /\ PoolInv /\ OpenInv /\ WatchInv /\ AnsweredInv
  BY InitTypes, InitPoolInv, InitOpen, InitWatch, InitAnswered
<1>2. TypeOK /\ PoolInv /\ OpenInv /\ WatchInv /\ AnsweredInv /\ [Next]_vars
      => (TypeOK /\ PoolInv /\ OpenInv /\ WatchInv /\ AnsweredInv)'
  BY PoolStep, OpenStep, WatchStep, AnsweredStep DEF NothingInherited
<1>3. AnsweredInv => UsedOnceConnected
  BY DEF AnsweredInv, UsedOnceConnected
<1> QED
  BY <1>1, <1>2, <1>3, PTL DEF Spec


-----------------------------------------------------------------------------
(* The counter of sessions.                                                *)

(* Counting modulo the width.                                              *)
LEMMA Remainder ==
  \A k, q, r \in Int : r \in 0 .. Width - 1 /\ k = Width * q + r => k % Width = r
BY ServerAssumption

LEMMA Quotient ==
  ASSUME NEW k \in Nat
  PROVE  \E q \in Int : k = Width * q + (k % Width) /\ k % Width \in 0 .. Width - 1
<1>1. /\ k \div Width \in Int /\ k % Width \in 0 .. Width - 1
      /\ k = Width * (k \div Width) + (k % Width)
  BY ServerAssumption
<1> QED
  BY <1>1

LEMMA CountUp ==
  ASSUME NEW k \in Nat
  PROVE  ((k % Width) + 1) % Width = (k + 1) % Width
<1>1. PICK q \in Int : k = Width * q + (k % Width) /\ k % Width \in 0 .. Width - 1
  BY Quotient
<1> DEFINE m == k % Width
<1> HIDE DEF m
<1>2. k = Width * q + m /\ m \in 0 .. Width - 1 /\ Width \in Nat
  BY <1>1, ServerAssumption DEF m
<1>3. CASE m + 1 < Width
  <2>1. /\ k + 1 = Width * q + (m + 1) /\ m + 1 = Width * 0 + (m + 1)
        /\ m + 1 \in 0 .. Width - 1 /\ m + 1 \in Int /\ k + 1 \in Int
    BY <1>2, <1>3
  <2>2. (k + 1) % Width = m + 1 /\ (m + 1) % Width = m + 1
    BY <2>1, Remainder
  <2> QED
    BY <2>2 DEF m
<1>4. CASE m + 1 = Width
  <2>1. /\ k + 1 = Width * (q + 1) + 0 /\ m + 1 = Width * 1 + 0 /\ 0 \in 0 .. Width - 1
        /\ m + 1 \in Int /\ k + 1 \in Int /\ q + 1 \in Int
    BY <1>2, <1>4
  <2>2. (k + 1) % Width = 0 /\ (m + 1) % Width = 0
    BY <2>1, Remainder
  <2> QED
    BY <2>2 DEF m
<1> QED
  BY <1>2, <1>3, <1>4

LEMMA CountDown ==
  ASSUME NEW k \in Nat
  PROVE  (((k + 1) % Width) + Width - 1) % Width = k % Width
<1>1. PICK q \in Int : k = Width * q + (k % Width) /\ k % Width \in 0 .. Width - 1
  BY Quotient
<1> DEFINE m == k % Width
<1> HIDE DEF m
<1>2. k = Width * q + m /\ m \in 0 .. Width - 1 /\ Width \in Nat
  BY <1>1, ServerAssumption DEF m
<1>3. CASE m + 1 < Width
  <2>1. k + 1 = Width * q + (m + 1) /\ m + 1 \in 0 .. Width - 1 /\ k + 1 \in Int
    BY <1>2, <1>3
  <2>2. (k + 1) % Width = m + 1
    BY <2>1, Remainder
  <2>3. m + 1 + Width - 1 = Width * 1 + m /\ m + 1 + Width - 1 \in Int /\ m \in Int
    BY <1>2
  <2>4. (m + 1 + Width - 1) % Width = m
    BY <2>3, <1>2, Remainder
  <2> QED
    BY <2>2, <2>4 DEF m
<1>4. CASE m + 1 = Width
  <2>1. k + 1 = Width * (q + 1) + 0 /\ 0 \in 0 .. Width - 1 /\ k + 1 \in Int /\ q + 1 \in Int
    BY <1>2, <1>4
  <2>2. (k + 1) % Width = 0
    BY <2>1, Remainder
  <2>3. 0 + Width - 1 = m /\ m = Width * 0 + m /\ m \in Int
    BY <1>2, <1>4
  <2>4. (0 + Width - 1) % Width = m
    BY <2>3, <1>2, Remainder
  <2> QED
    BY <2>2, <2>4 DEF m
<1> QED
  BY <1>2, <1>3, <1>4

(* The sessions are finitely many, and counted.                            *)
CountInv == IsFiniteSet(clients) /\ CountsSessions

LEMMA InitCount == Init => CountInv
<1>1. IsFiniteSet({}) /\ Cardinality({}) = 0
  BY FS_EmptySet
<1>2. 0 % Width = 0
  <2>1. 0 \in Int /\ 0 \in 0 .. Width - 1 /\ 0 = Width * 0 + 0
    BY ServerAssumption
  <2> QED
    BY <2>1, Remainder
<1> QED
  BY <1>1, <1>2 DEF Init, CountInv, CountsSessions

LEMMA CountStep ==
  ASSUME TypeOK, PoolInv, CountInv, [Next]_vars, ~RejectClient
  PROVE  CountInv'
<1> DEFINE n == Cardinality(clients)
<1>1. IsFiniteSet(clients) /\ n \in Nat /\ current = n % Width
  BY FS_CardinalityType DEF CountInv, CountsSessions
<1>2. ASSUME clients' = clients, current' = current
      PROVE  CountInv'
  BY <1>1, <1>2 DEF CountInv, CountsSessions
<1>3. CASE QuietLoop
  <2>1. clients' = clients /\ current' = current
    BY <1>3, Zenon DEF QuietLoop, Polled, Stopped, Skip, AcceptNothing, AcceptFails, Receive,
         ReceiveNothing, TurnsDone, TurnKeeps, sessionVars, statVars
  <2> QED
    BY <1>2, <2>1
<1>4. CASE QuietOutside \/ \E c \in Conn : Connects(c)
  <2>1. clients' = clients /\ current' = current
    BY <1>4, Zenon DEF QuietOutside, Commands, Interrupt, OriginAnswers, Traffic, FilterExits,
         Connects, proxyVars, sessionVars, statVars
  <2> QED
    BY <1>2, <2>1
<1>5. CASE \E c \in Conn : TurnConnects(c) \/ TurnRetrieves(c)
  <2>1. clients' = clients /\ current' = current
    BY <1>5, Zenon DEF TurnConnects, TurnRetrieves, statVars
  <2> QED
    BY <1>2, <2>1
<1>6. CASE AcceptClient
  <2>1. PICK l \in Slot, c \in Conn, hc \in Handle, hs \in Handle : Admits(l, c, hc, hs)
    BY <1>6, AcceptAdmits DEF PoolInv
  <2>2. c \notin clients /\ clients' = clients \union {c}
    BY <2>1 DEF Admits, PoolInv, Newcomers
  <2>3. IsFiniteSet(clients') /\ Cardinality(clients') = n + 1
    BY <1>1, <2>2, FS_AddElement
  <2>4. current' = (current + 1) % Width
    BY <1>6 DEF AcceptClient, Counted
  <2> HIDE DEF n
  <2>5. current' = (n + 1) % Width
    BY <1>1, <2>4, CountUp
  <2> QED
    BY <2>3, <2>5 DEF CountInv, CountsSessions
<1>7. ASSUME NEW c \in Conn, NEW rest \in SUBSET Segment, TurnEnds(c, rest)
      PROVE  CountInv'
  <2>1. CASE rest # {}
    <3>1. clients' = clients /\ current' = current
      BY <1>7, <2>1 DEF TurnEnds, CloseClient
    <3> QED
      BY <1>2, <3>1
  <2>2. CASE rest = {}
    <3>1. clients' = clients \ {c} /\ current' = (current + Width - 1) % Width
      BY <1>7, <2>2 DEF TurnEnds, CloseClient, OneLess
    <3>2. c \in clients
      BY <1>7 DEF TurnEnds, TakesTurn, PoolInv, TurnsOfTheLiving
    <3>3. IsFiniteSet(clients') /\ Cardinality(clients') = n - 1 /\ n - 1 \in Nat
      <4>1. IsFiniteSet(clients') /\ Cardinality(clients') = n - 1
        BY <1>1, <3>1, <3>2, FS_RemoveElement
      <4>2. Cardinality(clients') \in Nat
        BY <4>1, FS_CardinalityType
      <4> QED
        BY <4>1, <4>2
    <3> HIDE DEF n
    <3>4. n = (n - 1) + 1
      BY <1>1
    <3>5. current' = (n - 1) % Width
      BY <1>1, <3>1, <3>3, <3>4, CountDown
    <3> QED
      BY <3>3, <3>5 DEF CountInv, CountsSessions
  <2> QED
    BY <2>1, <2>2
<1>8. CASE UNCHANGED vars
  <2>1. clients' = clients /\ current' = current
    BY <1>8 DEF vars, sessionVars, statVars
  <2> QED
    BY <1>2, <2>1
<1> QED
  BY <1>3, <1>4, <1>5, <1>6, <1>7, <1>8, Steps, Zenon

(* The number of sessions the administrator is shown is right as long as   *)
(* no connection is rejected: each session is counted once when it is      *)
(* accepted and once when its last segment closes, whichever that is, and  *)
(* also when more have been made than the counter can hold.                *)
THEOREM CountedWhileAccepted == Spec /\ [][~RejectClient]_vars => []CountsSessions
<1>1. Init => TypeOK /\ PoolInv /\ CountInv
  BY InitTypes, InitPoolInv, InitCount
<1>2. TypeOK /\ PoolInv /\ CountInv /\ [Next]_vars /\ [~RejectClient]_vars
        => (TypeOK /\ PoolInv /\ CountInv)'
  <2> SUFFICES ASSUME TypeOK, PoolInv, CountInv, [Next]_vars, [~RejectClient]_vars
               PROVE  (TypeOK /\ PoolInv /\ CountInv)'
    OBVIOUS
  <2>1. TypeOK' /\ PoolInv'
    BY PoolStep
  <2>2. CASE RejectClient
    <3>1. UNCHANGED vars
      BY <2>2
    <3>2. clients' = clients /\ current' = current
      BY <3>1 DEF vars, sessionVars, statVars
    <3> QED
      BY <2>1, <3>2 DEF CountInv, CountsSessions
  <2>3. CASE ~RejectClient
    BY <2>1, <2>3, CountStep
  <2> QED
    BY <2>2, <2>3
<1>3. CountInv => CountsSessions
  BY DEF CountInv
<1> QED
  BY <1>1, <1>2, <1>3, PTL DEF Spec

(* A connection is rejected only for want of an address or a descriptor.   *)
AlwaysTaken == ~AddressMayFail /\ IsFiniteSet(Conn) /\ Cardinality(Fd) + 2 <= MaxFds

LEMMA FdIsFinite ==
  ASSUME IsFiniteSet(Conn)
  PROVE  IsFiniteSet(Fd)
<1> DEFINE passive == {"listen", "mgmt"}
           peers   == {"client", "server", "filterIn", "filterOut", "probe", "lost"}
<1>1. IsFiniteSet(passive) /\ IsFiniteSet(Slot)
  <2>1. /\ IsFiniteSet({}) /\ passive = ({} \union {"listen"}) \union {"mgmt"}
        /\ Slot = ({} \union {1}) \union {2}
    BY FS_EmptySet DEF Slot
  <2> HIDE DEF passive
  <2>2. IsFiniteSet({} \union {"listen"}) /\ IsFiniteSet({} \union {1})
    BY <2>1, FS_AddElement
  <2> QED
    BY <2>1, <2>2, FS_AddElement
<1>2. IsFiniteSet(peers)
  <2>1. IsFiniteSet({} \union {"client"})
    BY FS_EmptySet, FS_AddElement
  <2>2. IsFiniteSet(({} \union {"client"}) \union {"server"})
    BY <2>1, FS_AddElement
  <2>3. IsFiniteSet((({} \union {"client"}) \union {"server"}) \union {"filterIn"})
    BY <2>2, FS_AddElement
  <2>4. IsFiniteSet(((({} \union {"client"}) \union {"server"}) \union {"filterIn"})
                      \union {"filterOut"})
    BY <2>3, FS_AddElement
  <2>5. IsFiniteSet((((({} \union {"client"}) \union {"server"}) \union {"filterIn"})
                      \union {"filterOut"}) \union {"probe"})
    BY <2>4, FS_AddElement
  <2>6. IsFiniteSet(((((({} \union {"client"}) \union {"server"}) \union {"filterIn"})
                      \union {"filterOut"}) \union {"probe"}) \union {"lost"})
    BY <2>5, FS_AddElement
  <2>7. ((((({} \union {"client"}) \union {"server"}) \union {"filterIn"})
          \union {"filterOut"}) \union {"probe"}) \union {"lost"} = peers
    OBVIOUS
  <2> QED
    BY <2>6, <2>7
<1> HIDE DEF passive, peers
<1>3. IsFiniteSet(passive \X Slot) /\ IsFiniteSet(peers \X Conn)
  BY <1>1, <1>2, FS_Product
<1>4. IsFiniteSet((passive \X Slot) \union (peers \X Conn))
  BY <1>3, FS_Union
<1> QED
  BY <1>4 DEF Fd, passive, peers

LEMMA NoneRejected ==
  ASSUME AlwaysTaken, TypeOK
  PROVE  ~RejectClient
<1>1. IsFiniteSet(Fd) /\ open \in SUBSET Fd
  BY FdIsFinite DEF AlwaysTaken, TypeOK
<1>2. Cardinality(open) <= Cardinality(Fd) /\ Cardinality(open) \in Nat /\ Cardinality(Fd) \in Nat
  BY <1>1, FS_Subset, FS_CardinalityType
<1>3. Cardinality(open) + 2 <= MaxFds
  BY <1>2, ServerAssumption DEF AlwaysTaken
<1> QED
  BY <1>3 DEF RejectClient, Room, AlwaysTaken

(* With an address for every client that does not fail at once, and        *)
(* descriptors enough for the connections there can be, that is always     *)
(* so: the counter is the number of sessions.                              *)
THEOREM SessionsCounted ==
  ASSUME AlwaysTaken
  PROVE  Spec => []CountsSessions
<1>1. TypeOK => ~RejectClient
  BY NoneRejected
<1> QED
  BY <1>1, TypeCorrect, CountedWhileAccepted, PTL
=============================================================================
