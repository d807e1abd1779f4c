------------------------------- MODULE Server -------------------------------
(***************************************************************************)
(* The server loop (server.c): startServer, processingLoop, acceptClient   *)
(* and what closeClient does to the pools, the descriptors and the epoll   *)
(* set, for all sessions together.                                         *)
(*                                                                         *)
(* A session is reduced to its open segments, which a turn of              *)
(* processClient changes as SessionLife allows; Session says which change  *)
(* is made when.  An iteration of the loop is epoll_wait with processEvent *)
(* (Wait), two slots for listening sockets, two for management sockets,    *)
(* and a turn for each session that was in the pool; clients, origins and  *)
(* filters move between any two of these steps.                            *)
(***************************************************************************)
EXTENDS Segments, Integers, FiniteSets

CONSTANTS
  Conn,            \* connections clients make
  Handle,          \* indices the pools may hand out
  LowestFirst,     \* they hand out the lowest free one, otherwise any
  TcpSockets,      \* listening sockets, as setupTCPServerSocket returns (1 or 2)
  UdpSockets,      \* management sockets (1 or 2)
  Managed,         \* those the administrator sends datagrams to
  MaxFds,          \* descriptors the process may have open (RLIMIT_NOFILE)
  Width,           \* the counters are integers modulo Width (2^32)
  MaxDatagrams,    \* bound: datagrams the administrator sends
  FilterCmd,       \* a filter command is configured (-t)
  OriginMayRefuse, \* the origin may refuse a connection
  AddressMayFail,  \* connectHost may have no address, or one that fails at once
  Overlapping,     \* a client may retrieve while the last message is still on its way
  Interruptible    \* SIGINT may be sent

Slot == 1 .. 2
None == -1         \* no handle

ASSUME ServerAssumption ==
  /\ Handle \subseteq Nat /\ 0 .. 4 \subseteq Handle
  /\ TcpSockets \in Slot /\ UdpSockets \in Slot /\ Managed \subseteq 1 .. UdpSockets
  /\ MaxFds \in Nat /\ Width \in Nat \ {0} /\ MaxDatagrams \in Nat
  /\ {LowestFirst, FilterCmd, OriginMayRefuse, AddressMayFail, Overlapping, Interruptible}
       \subseteq BOOLEAN

(* Descriptors, by what they are for.  "probe" is a socket connectHost     *)
(* opened for an address that failed at once, "lost" the output of a       *)
(* filter whose EventData was replaced (however often, one of a session).  *)
Listen(i) == << "listen", i >>
Mgmt(i)   == << "mgmt", i >>
Fd == ({"listen", "mgmt"} \X Slot)
        \union ({"client", "server", "filterIn", "filterOut", "probe", "lost"} \X Conn)

(* EventData, by what fdrw and fdw are: the two ends of a filter share one.*)
Free   == << "free", 0 >>
Signal == << "signal", 0 >>
EventData == ({"listen", "mgmt"} \X Slot)
        \union ({"client", "server", "filter"} \X Conn) \union {Free, Signal}
EventOf(fd) ==
  IF fd[1] \in {"filterIn", "filterOut", "lost"} THEN << "filter", fd[2] >> ELSE fd

VARIABLES
  \* the proxy
  at,        \* where the loop is
  advanced,  \* the next epoll_wait does not block
  turn,      \* sessions that still have their turn in this iteration (activeClients)
  pool,      \* evDataPool
  ready,     \* handles whose readReady (of a server, writeReady) is set
  clients,   \* the pool of sessions
  active,    \* activeSegments of each
  clientEvent, serverEvent, filterEvent,   \* their handles
  current, connections,                    \* the counters of stats.c
  \* the kernel
  open,      \* descriptors the process has open
  watched,   \* the epoll set: the handle each descriptor was added with
  edges,     \* descriptors with an event epoll has not reported yet, of those
             \* whose flag is in ready or whose handle may not be theirs
  waiting,   \* connections that wait to be accepted
  datagrams, \* datagrams that wait to be read
  interrupt, \* SIGINT: "none", "asleep" in epoll_wait, "late" elsewhere
  \* the others
  come,      \* connections that have been made
  sent,      \* datagrams sent so far
  origin,    \* the origin's answer to each session
  holds      \* client sockets the filter processes of a session have inherited

sessionVars == << clients, active, clientEvent, serverEvent, filterEvent >>
kernelVars  == << open, watched, edges, waiting, datagrams >>
loopVars    == << at, advanced, turn >>
statVars    == << current, connections >>
otherVars   == << come, sent, origin, holds >>
vars == << loopVars, pool, ready, sessionVars, statVars, kernelVars, interrupt, otherVars >>

Places == {"wait", "tcp1", "tcp2", "udp1", "udp2", "clients", "down"}

TypeOK ==
  /\ at \in Places /\ advanced \in BOOLEAN /\ turn \subseteq Conn
  /\ pool \in [Handle -> EventData] /\ ready \subseteq Handle
  /\ clients \subseteq Conn /\ active \in [Conn -> SUBSET Segment]
  /\ clientEvent \in [Conn -> Handle \union {None}]
  /\ serverEvent \in [Conn -> Handle \union {None}]
  /\ filterEvent \in [Conn -> Handle \union {None}]
  /\ current \in 0 .. Width - 1 /\ connections \in 0 .. Width - 1
  /\ open \subseteq Fd /\ watched \in [Fd -> Handle \union {None}] /\ edges \subseteq Fd
  /\ waiting \in [Slot -> SUBSET Conn] /\ datagrams \in [Slot -> Nat]
  /\ interrupt \in {"none", "asleep", "late"}
  /\ come \subseteq Conn /\ sent \in Nat
  /\ origin \in [Conn -> {"none", "connecting", "up", "refused"}]
  /\ holds \in [Conn -> SUBSET Conn]

-----------------------------------------------------------------------------
(* startServer.  The pool is empty and hands out 0, 1, 2, ...: first the   *)
(* listening sockets, then the management sockets, then the signals.  The  *)
(* arrays of their handles are initialised {-1}, which makes the second    *)
(* entry 0, and filled as far as there are sockets.                        *)
FilledFrom(count, first) ==
  [i \in Slot |-> IF i <= count THEN first + i - 1 ELSE IF i = 1 THEN None ELSE 0]
tcpEvents == FilledFrom(TcpSockets, 0)
udpEvents == FilledFrom(UdpSockets, TcpSockets)

Passive == {Listen(i) : i \in 1 .. TcpSockets} \union {Mgmt(i) : i \in 1 .. UdpSockets}
HandleOf(fd) == IF fd[1] = "listen" THEN fd[2] - 1 ELSE TcpSockets + fd[2] - 1

Init ==
  /\ at = "wait" /\ advanced = FALSE /\ turn = {}
  /\ pool = [h \in Handle |->
       IF \E fd \in Passive : HandleOf(fd) = h THEN CHOOSE fd \in Passive : HandleOf(fd) = h
       ELSE IF h = TcpSockets + UdpSockets THEN Signal ELSE Free]
  /\ ready = {} /\ clients = {} /\ active = [c \in Conn |-> {}]
  /\ clientEvent = [c \in Conn |-> None]
  /\ serverEvent = [c \in Conn |-> None]
  /\ filterEvent = [c \in Conn |-> None]
  /\ current = 0 /\ connections = 0
  /\ open = Passive
  /\ watched = [fd \in Fd |-> IF fd \in Passive THEN HandleOf(fd) ELSE None]
  /\ edges = {} /\ waiting = [i \in Slot |-> {}] /\ datagrams = [i \in Slot |-> 0]
  /\ interrupt = "none" /\ come = {} /\ sent = 0
  /\ origin = [c \in Conn |-> "none"] /\ holds = [c \in Conn |-> {}]

-----------------------------------------------------------------------------
(* epoll_wait, and processEvent for each event it returns.  A signal is    *)
(* seen when epoll_wait returns: at once if it came while it slept, with   *)
(* the next event otherwise.                                               *)
Awake == advanced \/ edges # {} \/ interrupt = "asleep"

Reported == {watched[fd] : fd \in edges} \ {None}

Polled ==
  /\ at = "wait" /\ interrupt = "none"
  /\ ready' = ready \union {h \in Reported : pool[h][1] \in {"listen", "mgmt", "server"}}
  /\ edges' = {} /\ advanced' = FALSE /\ at' = "tcp1"
  /\ UNCHANGED << turn, pool, sessionVars, statVars, open, watched, waiting, datagrams,
                  interrupt, otherVars >>

(* exitProgram: the listening sockets are closed and the process ends.     *)
StoppedIfAsleep ==     \* Mutant: exitProgram is looked at only after EINTR
  /\ at = "wait" /\ interrupt = "asleep"
  /\ at' = "down"
  /\ UNCHANGED << advanced, turn, pool, ready, sessionVars, statVars, kernelVars,
                  interrupt, otherVars >>
Stopped ==
  /\ at = "wait" /\ interrupt # "none"
  /\ at' = "down"
  /\ UNCHANGED << advanced, turn, pool, ready, sessionVars, statVars, kernelVars,
                  interrupt, otherVars >>

Wait == Awake /\ Polled
Stop == Awake /\ Stopped

(* An event of an open session, whose flags SessionLife leaves out.        *)
Woken == ~Awake /\ clients # {} /\ (Polled \/ Stopped)

-----------------------------------------------------------------------------
(* The slots of the passive sockets, in the order the loop visits them.    *)
Slots == {"tcp1", "tcp2", "udp1", "udp2"}
After(p) == CASE p = "tcp1" -> "tcp2" [] p = "tcp2" -> "udp1"
              [] p = "udp1" -> "udp2" [] p = "udp2" -> "clients"
Here == CASE at = "tcp1" -> tcpEvents[1] [] at = "tcp2" -> tcpEvents[2]
          [] at = "udp1" -> udpEvents[1] [] at = "udp2" -> udpEvents[2]

(* Pool_ToIndexArray is called when the slots are done.                    *)
MoveTo(p) == at' = p /\ turn' = IF p = "clients" THEN clients ELSE {}

Skip ==
  /\ at \in Slots /\ Here \notin ready
  /\ MoveTo(After(at))
  /\ UNCHANGED << advanced, pool, ready, sessionVars, statVars, kernelVars,
                  interrupt, otherVars >>

(* The indices Pool_Add may hand out.                                      *)
FreeIn(p) ==
  {h \in Handle : p[h] = Free /\ (LowestFirst => \A k \in Handle : k < h => p[k] # Free)}
Room(n) == Cardinality(open) + n <= MaxFds

Accepting == at \in {"tcp1", "tcp2"} /\ Here \in ready

(* accept says EAGAIN.                                                     *)
AcceptNothing ==
  /\ Accepting /\ Room(1) /\ waiting[pool[Here][2]] = {}
  /\ ready' = ready \ {Here} /\ MoveTo(After(at))
  /\ UNCHANGED << advanced, pool, sessionVars, statVars, kernelVars, interrupt, otherVars >>

(* Any other error of accept is fatal; without a free descriptor accept    *)
(* fails before it looks for a connection.                                 *)
AcceptFails ==
  /\ Accepting /\ ~Room(1)
  /\ at' = "down"
  /\ UNCHANGED << advanced, turn, pool, ready, sessionVars, statVars, kernelVars,
                  interrupt, otherVars >>

KeepsListeningNot(h) == ready' = ready \ {h}     \* Mutant: one connection per event
KeepsListening(h)    == ready' = ready \union {h}

(* addCurrentConnection and removeCurrentConnection.                       *)
CountedNot == UNCHANGED statVars     \* Mutant: the session is not counted
Counted ==
  /\ current' = (current + 1) % Width
  /\ connections' = (connections + 1) % Width
OneLessSigned == current - 1     \* Mutant: the counter is signed
OneLess == (current + Width - 1) % Width

(* A connection is accepted and a connection to the origin started.  An    *)
(* address that fails at once leaves its socket behind.                    *)
AcceptClient ==
  /\ Accepting
  /\ \E c \in waiting[pool[Here][2]], hc \in FreeIn(pool),
        probes \in SUBSET (IF AddressMayFail THEN {"probe"} ELSE {}) :
     LET added == [pool EXCEPT ![hc] = << "client", c >>]
     IN \E hs \in FreeIn(added) :
       /\ Room(2 + Cardinality(probes))
       /\ waiting' = [waiting EXCEPT ![pool[Here][2]] = @ \ {c}]
       /\ pool' = [added EXCEPT ![hs] = << "server", c >>]
       /\ KeepsListening(Here)
       /\ clients' = clients \union {c} /\ active' = [active EXCEPT ![c] = CS_CLIENT]
       /\ clientEvent' = [clientEvent EXCEPT ![c] = hc]
       /\ serverEvent' = [serverEvent EXCEPT ![c] = hs]
       /\ open' = open \union ({"client", "server"} \union probes) \X {c}
       /\ watched' = [watched EXCEPT ![<< "client", c >>] = hc, ![<< "server", c >>] = hs]
       /\ origin' = [origin EXCEPT ![c] = "connecting"]
  /\ Counted
  /\ advanced' = TRUE /\ MoveTo(After(at))
  /\ UNCHANGED << filterEvent, edges, datagrams, interrupt, come, sent, holds >>

(* The origin cannot be connected to: closeClient(ref, CS_CLIENT) takes    *)
(* the session, its handle and its descriptor back at once, and counts it  *)
(* as one that has ended.                                                  *)
RejectClient ==
  /\ Accepting /\ Room(1)
  /\ \E c \in waiting[pool[Here][2]],
        probes \in SUBSET (IF AddressMayFail THEN {"probe"} ELSE {}) :
       /\ Room(1 + Cardinality(probes))
       /\ AddressMayFail \/ ~Room(2)
       /\ waiting' = [waiting EXCEPT ![pool[Here][2]] = @ \ {c}]
       /\ open' = open \union probes \X {c}
  /\ KeepsListening(Here)
  /\ current' = OneLess
  /\ advanced' = TRUE /\ MoveTo(After(at))
  /\ UNCHANGED << pool, sessionVars, connections, watched, edges, datagrams,
                  interrupt, otherVars >>

(* recvfrom, and processCmd with what it read.                             *)
Receiving == at \in {"udp1", "udp2"} /\ Here \in ready
Datagram  == pool[Here][1] = "mgmt" /\ datagrams[pool[Here][2]] > 0

ReceiveOnce ==     \* Mutant: one datagram per event
  /\ Receiving /\ Datagram
  /\ datagrams' = [datagrams EXCEPT ![pool[Here][2]] = @ - 1]
  /\ ready' = ready \ {Here}
  /\ advanced' = TRUE /\ MoveTo(After(at))
  /\ UNCHANGED << pool, sessionVars, statVars, open, watched, edges, waiting,
                  interrupt, otherVars >>
Receive ==
  /\ Receiving /\ Datagram
  /\ datagrams' = [datagrams EXCEPT ![pool[Here][2]] = @ - 1]
  /\ advanced' = TRUE /\ MoveTo(After(at))
  /\ UNCHANGED << pool, ready, sessionVars, statVars, open, watched, edges, waiting,
                  interrupt, otherVars >>

(* It fails, there being nothing to read or the handle being that of a     *)
(* listening socket: its flag is cleared and the slots are left.           *)
ReceiveNothing ==
  /\ Receiving /\ ~Datagram
  /\ ready' = ready \ {Here} /\ MoveTo("clients")
  /\ UNCHANGED << advanced, pool, sessionVars, statVars, kernelVars, interrupt, otherVars >>

-----------------------------------------------------------------------------
(* The turns of the sessions.                                              *)
TakesTurn(c) == at = "clients" /\ c \in turn

(* Whether nothing was to be done, or data moved: the session keeps its    *)
(* segments.                                                               *)
TurnKeeps(c) ==
  /\ TakesTurn(c) /\ turn' = turn \ {c} /\ advanced' \in {advanced, TRUE}
  /\ UNCHANGED << at, pool, ready, sessionVars, statVars, kernelVars, interrupt, otherVars >>

(* closeClient, which leaves the session c with the segments rest: which   *)
(* descriptors are closed, which handles go back to the pool.  The kernel  *)
(* forgets a descriptor when the last process has closed it; the shutdown  *)
(* before is one more event for whoever still has it open.                 *)
Ends(c, rest, peer) == active[c] \intersect peer # {} /\ rest \intersect peer = {}

Halves == [client |-> CS_CLIENT, server |-> CS_SERVER,
           filterIn |-> {"FILTER_IN"}, filterOut |-> {"FILTER_OUT"}]

ClosedServerKept(c, rest) ==     \* Mutant: the origin's socket is left open
  {fd \in {"client", "filterIn", "filterOut"} \X {c} : Ends(c, rest, Halves[fd[1]])}
Closed(c, rest) == {fd \in (DOMAIN Halves) \X {c} : Ends(c, rest, Halves[fd[1]])}

Inherited(d) == \E p \in Conn : d \in holds[p]
Kept(fds) == {fd \in fds : fd[1] = "client" /\ Inherited(fd[2])}

GivenBackServerKept(c, rest) ==     \* Mutant: the server's handle is not given back
  (IF Ends(c, rest, CS_FILTER) THEN {filterEvent[c]} ELSE {}) \union
  (IF rest = {} THEN {clientEvent[c]} ELSE {})
GivenBackEarly(c, rest) ==     \* Mutant: a peer's handle goes with its connection
  (IF Ends(c, rest, CS_FILTER) THEN {filterEvent[c]} ELSE {}) \union
  (IF Ends(c, rest, CS_SERVER) THEN {serverEvent[c]} ELSE {}) \union
  (IF rest = {} THEN {clientEvent[c]} ELSE {})
GivenBack(c, rest) ==
  (IF Ends(c, rest, CS_FILTER) THEN {filterEvent[c]} ELSE {}) \union
  (IF rest = {} THEN {clientEvent[c], serverEvent[c]} ELSE {})

TurnGoesOn(c)  == turn     \* Mutant: processClient goes on with what it closed
TurnOver(c) == turn \ {c}

CloseClient(c, rest) ==
  LET closed    == Closed(c, rest)
      forgotten == closed \ Kept(closed)
      gone      == GivenBack(c, rest)
  IN  /\ active' = [active EXCEPT ![c] = rest]
      /\ open' = open \ closed
      /\ watched' = [fd \in Fd |-> IF fd \in forgotten THEN None ELSE watched[fd]]
      /\ edges' = (edges \ forgotten) \union Kept(closed)
      /\ pool' = [h \in Handle |-> IF h \in gone THEN Free ELSE pool[h]]
      /\ ready' = ready \ (gone \union (IF "SERVER_IN" \in active[c] \ rest
                                        THEN {serverEvent[c]} ELSE {}))
      /\ filterEvent' = IF Ends(c, rest, CS_FILTER)
                        THEN [filterEvent EXCEPT ![c] = None] ELSE filterEvent
      /\ IF rest = {}
         THEN /\ clients' = clients \ {c}
              /\ clientEvent' = [clientEvent EXCEPT ![c] = None]
              /\ serverEvent' = [serverEvent EXCEPT ![c] = None]
              /\ current' = OneLess
         ELSE UNCHANGED << clients, clientEvent, serverEvent, current >>
      /\ turn' = TurnOver(c) /\ advanced' = TRUE
      /\ UNCHANGED << at, connections, waiting, datagrams, interrupt, otherVars >>

(* "Waiting for connection": SO_ERROR says what the origin answered.  Of a *)
(* descriptor that is closed nothing is read, and error is what the stack  *)
(* had.                                                                    *)
ConnectedUnseen(c) == TakesTurn(c) /\ Unconnected(active[c])     \* Mutant
Connected(c) == TakesTurn(c) /\ Unconnected(active[c]) /\ serverEvent[c] \in ready

SocketError(c) ==
  IF << "server", c >> \in open THEN {origin[c] = "refused"} ELSE BOOLEAN

TurnConnects(c) ==
  /\ Connected(c) /\ FALSE \in SocketError(c)
  /\ \E all \in OriginTaken(active[c]) : active' = [active EXCEPT ![c] = all]
  /\ advanced' = TRUE
  /\ UNCHANGED << at, turn, pool, ready, clients, clientEvent, serverEvent, filterEvent,
                  statVars, kernelVars, interrupt, otherVars >>

TurnRefused(c) ==
  /\ Connected(c) /\ TRUE \in SocketError(c)
  /\ \E rest \in OriginRefused(active[c]) : CloseClient(c, rest)

TurnCloses(c) ==
  /\ TakesTurn(c) /\ \E rest \in Closings(active[c]) : CloseClient(c, rest)

(* A filter: set_filter has four descriptors open for a moment, and what   *)
(* it forks inherits the clients' sockets, which alone are not             *)
(* close-on-exec.  The filter before, if it still writes, stays in the     *)
(* pool and in the epoll set, and the session forgets its handle.          *)
InheritedByFilter(c) ==
  IF FilterCmd THEN [holds EXCEPT ![c] = @ \union {d \in Conn : << "client", d >> \in open}]
  ELSE holds

Replaced(c) == IF active[c] \intersect CS_FILTER = {} THEN {} ELSE {<< "lost", c >>}

TurnRetrieves(c) ==
  /\ TakesTurn(c) /\ Room(4)
  /\ Overlapping \/ active[c] \intersect CS_FILTER = {}
  /\ \E h \in FreeIn(pool), all \in FilterTaken(active[c]) :
       /\ active' = [active EXCEPT ![c] = all]
       /\ pool' = [pool EXCEPT ![h] = << "filter", c >>]
       /\ filterEvent' = [filterEvent EXCEPT ![c] = h]
       /\ watched' = [fd \in Fd |->
            IF fd \in Replaced(c) THEN filterEvent[c]
            ELSE IF fd \in {"filterIn", "filterOut"} \X {c} THEN h ELSE watched[fd]]
  /\ open' = open \union {"filterIn", "filterOut"} \X {c} \union Replaced(c)
  /\ holds' = InheritedByFilter(c)
  /\ advanced' = TRUE
  /\ UNCHANGED << at, turn, ready, clients, clientEvent, serverEvent, statVars, edges,
                  waiting, datagrams, interrupt, come, sent, origin >>

TurnsDone ==
  /\ at = "clients" /\ turn = {} /\ at' = "wait"
  /\ UNCHANGED << advanced, turn, pool, ready, sessionVars, statVars, kernelVars,
                  interrupt, otherVars >>

Turn(c) == TurnKeeps(c) \/ TurnConnects(c) \/ TurnRefused(c) \/ TurnCloses(c) \/ TurnRetrieves(c)

Proxy ==
  \/ Wait \/ Stop \/ Skip
  \/ AcceptNothing \/ AcceptFails \/ AcceptClient \/ RejectClient
  \/ Receive \/ ReceiveNothing
  \/ \E c \in Conn : Turn(c)
  \/ TurnsDone

-----------------------------------------------------------------------------
(* Clients, the administrator, origins, filters, and data on its way.      *)
proxyVars == << loopVars, pool, ready, sessionVars, statVars, open, watched >>

Connects(c) ==
  /\ c \notin come /\ come' = come \union {c}
  /\ \E l \in 1 .. TcpSockets :
       waiting' = [waiting EXCEPT ![l] = @ \union {c}] /\ edges' = edges \union {Listen(l)}
  /\ UNCHANGED << proxyVars, datagrams, interrupt, sent, origin, holds >>

Commands ==
  /\ sent < MaxDatagrams /\ sent' = sent + 1
  /\ \E u \in Managed :
       datagrams' = [datagrams EXCEPT ![u] = @ + 1] /\ edges' = edges \union {Mgmt(u)}
  /\ UNCHANGED << proxyVars, waiting, interrupt, come, origin, holds >>

OriginAnswers(c) ==
  /\ origin[c] = "connecting"
  /\ \E answer \in {"up"} \union (IF OriginMayRefuse THEN {"refused"} ELSE {}) :
       origin' = [origin EXCEPT ![c] = answer]
  /\ edges' = IF watched[<< "server", c >>] # None
              THEN edges \union {<< "server", c >>} ELSE edges
  /\ UNCHANGED << proxyVars, waiting, datagrams, interrupt, come, sent, holds >>

(* An event of an origin whose flag is not set, or of a client whose       *)
(* socket is closed here and open in a filter process.                     *)
Traffic(c) ==
  /\ \/ /\ << "server", c >> \in open /\ origin[c] # "connecting"
        /\ watched[<< "server", c >>] \notin ready \union {None}
        /\ edges' = edges \union {<< "server", c >>}
     \/ /\ << "client", c >> \notin open /\ watched[<< "client", c >>] # None
        /\ edges' = edges \union {<< "client", c >>}
  /\ UNCHANGED << proxyVars, waiting, datagrams, interrupt, otherVars >>

(* The processes of a session's filters end.                               *)
FilterExits(c) ==
  LET held  == UNION {holds[p] : p \in Conn \ {c}}
      freed == {fd \in {"client"} \X holds[c] : fd \notin open /\ fd[2] \notin held}
  IN  /\ holds[c] # {} /\ holds' = [holds EXCEPT ![c] = {}]
      /\ watched' = [fd \in Fd |-> IF fd \in freed THEN None ELSE watched[fd]]
      /\ edges' = edges \ freed
      /\ UNCHANGED << loopVars, pool, ready, sessionVars, statVars, open, waiting, datagrams,
                      interrupt, come, sent, origin >>

(* SIGINT: the handler sets exitProgram, and interrupts epoll_wait if it   *)
(* has been entered.                                                       *)
Interrupt ==
  /\ Interruptible /\ interrupt = "none"
  /\ interrupt' \in {"late"} \union (IF at = "wait" THEN {"asleep"} ELSE {})
  /\ UNCHANGED << proxyVars, edges, waiting, datagrams, otherVars >>

Environment ==
  /\ at # "down"
  /\ \/ \E c \in Conn : Connects(c) \/ OriginAnswers(c) \/ Traffic(c) \/ FilterExits(c)
     \/ Commands \/ Interrupt \/ Woken

Next == Proxy \/ Environment

Spec == Init /\ [][Next]_vars

(* The thread runs; nobody else has to.                                    *)
LiveSpec == Spec /\ WF_vars(Proxy)

-----------------------------------------------------------------------------
(* Properties.                                                             *)

(* The handle of each descriptor a session has open is its own: no two     *)
(* sessions, and no two peers of a session, share EventData, and none is   *)
(* kept that was given back (Pool_Add in eventAdd, Pool_Remove in          *)
(* closeClient, in pools that reuse indices).                              *)
OwnHandles ==
  \A c \in clients :
    /\ clientEvent[c] # None /\ pool[clientEvent[c]] = << "client", c >>
    /\ serverEvent[c] # None /\ pool[serverEvent[c]] = << "server", c >>
    /\ IF active[c] \intersect CS_FILTER = {} THEN filterEvent[c] = None
       ELSE filterEvent[c] # None /\ pool[filterEvent[c]] = << "filter", c >>

(* Nothing of a session that is gone stays behind: every EventData and     *)
(* every descriptor in the process belongs to the server or to a session   *)
(* of the pool (closeClient, connectHost).                                 *)
NothingLeaked ==
  /\ \A h \in Handle : pool[h][1] \in {"client", "server", "filter"} => pool[h][2] \in clients
  /\ \A fd \in open \ Passive : fd[2] \in clients

(* An event is for whom it is reported to: epoll never knows a descriptor  *)
(* by a handle that was given back, or is somebody else's by now (the      *)
(* reason closeClient gives for keeping EventData, server.c:194).          *)
EventsReachTheirOwner ==
  \A fd \in Fd : watched[fd] # None => pool[watched[fd]] = EventOf(fd)

(* A session uses the origin only once the origin has accepted (a stale    *)
(* writeReady would make "Waiting for connection" believe it has).         *)
UsedOnceConnected ==
  \A c \in clients : active[c] \intersect CS_SERVER # {} => origin[c] = "up"

(* The counter the administrator is shown is the number of sessions.       *)
CountsSessions == current = Cardinality(clients) % Width

(* Whoever gets a turn is a session that is there: the indices of          *)
(* Pool_ToIndexArray outlive the closing of other sessions in between.     *)
TurnsOfTheLiving == turn \subseteq clients /\ \A c \in Conn : c \in clients <=> active[c] # {}

(* A connection that waits is accepted, whatever the order in which it,    *)
(* other connections and datagrams come (readReady of the passive sockets  *)
(* under EPOLLET).                                                         *)
WaitingAccepted ==
  \A c \in Conn : (\E l \in Slot : c \in waiting[l]) ~>
                  (\A l \in Slot : c \notin waiting[l]) \/ at = "down"

(* A datagram that waits is read.                                          *)
DatagramsRead == \A u \in Slot : datagrams[u] > 0 ~> datagrams[u] = 0 \/ at = "down"

(* The server ends only because it was told to.                            *)
StaysUp == at = "down" => interrupt # "none"

(* Told to end, the server ends, or sleeps with nothing to wake it.        *)
StopsOrSleeps == interrupt # "none" ~> at = "down" \/ (at = "wait" /\ ~Awake)
=============================================================================
