------------------------------ MODULE Session -------------------------------
(***************************************************************************)
(* One proxied POP3 session: processClient (server.c) with the functions   *)
(* of pop3/pop3.c it calls, between a client, an origin server and, while  *)
(* a message is retrieved, a filter.                                       *)
(*                                                                         *)
(* The proxy is one thread.  A pass of processingLoop polls epoll once and *)
(* then runs the blocks of processClient in order; each block is one       *)
(* action here, and the peers move between any two blocks.  A block's      *)
(* guard reads only the proxy's own memory, so blocks that are not enabled *)
(* are passed over without a step of their own.                            *)
(***************************************************************************)
EXTENDS Segments, Scanners, Buffers, FiniteSets

CONSTANTS
  Kinds,          \* the kinds of command the client sends
  Patient,        \* kinds after which the client waits for the whole answer
                  \* before it sends more or closes
  MaxCmds,        \* bound: commands a client sends
  MinLines,       \* bounds: lines of a listing or of a message
  MaxLines,
  PENDING_QUEUE,  \* commands the proxy queues (10 in server.c)
  BufSize,        \* tokens an Input buffer holds (512 bytes in server.c)
  LowWater,       \* unread tokens below which a peer counts as writable
                  \* (CLIENT_WRITE_BUF * 2 bytes in server.c)
  PipeCap,        \* tokens a pipe holds (64 KiB)
  ClientLags,     \* the client may leave replies unread for a while
  FilterCmd,      \* a filter command is configured (-t)
  FilterEager,    \* the filter writes before it has read all of its input
  FilterMayFail,  \* the filter may fail to start, or exit early
  OriginMayFail   \* the origin may refuse, close or reset the connection

Multiline   == {"LIST", "CAPA"}            \* what processPopServer takes as such
LongReplies == {"LIST", "CAPA", "RETR", "UIDL"}   \* what an origin answers so
AllKinds    == {"USER", "NOOP", "LIST", "CAPA", "RETR", "QUIT", "UIDL", "INVALID"}

ASSUME SessionAssumption ==
  /\ Kinds \subseteq AllKinds /\ Patient \subseteq AllKinds
  /\ MaxCmds \in Nat /\ MinLines \in Nat /\ MaxLines \in Nat
  /\ PENDING_QUEUE \in Nat \ {0} /\ BufSize \in Nat \ {0}
  /\ LowWater \in Nat \ {0} /\ PipeCap \in Nat \ {0}
  /\ {ClientLags, FilterCmd, FilterEager, FilterMayFail, OriginMayFail} \subseteq BOOLEAN

Id      == 0 .. MaxCmds       \* 0 is the greeting, POP_INCOMPLETE in the queue
Command == [id : Id, kind : AllKinds \union {"GREETING"}]
Token   == [id : Id, part : Part]

VARIABLES
  \* the proxy: ClientData and the EventData of its descriptors
  active,     \* activeSegments
  ready,      \* the readReady and writeReady flags that are set
  at,         \* the block of processClient reached in this pass
  advanced,   \* processingLoop: the next epoll_wait does not block
  queue,      \* commandQueue
  pending,    \* the head of the queue was sent and is unanswered
  request,    \* commands in requestState's buffer, not parsed yet
  response,   \* responseState
  stuffing,   \* filterState: in->state
  \* the kernel
  edges,      \* descriptors with an event epoll has not reported yet
  c2p, s2p, p2s,   \* bytes on their way: client, origin to proxy, proxy to origin
  unread,     \* tokens sent to the client and not read by it
  \* the peers
  asked,      \* commands the client has sent so far
  clientEof,  \* the client has closed its half of the connection
  origin,     \* the connection to the origin
  reply,      \* what the origin has still to say on the command it serves
  filter,     \* the filter of the message being retrieved
  \* histories, and the memory a session owns
  said,       \* all the origin has said
  told,       \* all the client was told
  sent,       \* ids sent to the origin, in order
  freed       \* ids whose request data was freed by sendPopRequest

proxyVars == << active, ready, at, advanced, queue, pending, request, response, stuffing >>
netVars   == << edges, c2p, s2p, p2s, unread >>
peerVars  == << asked, clientEof, origin, reply, filter >>
histVars  == << said, told, sent, freed >>
vars      == << proxyVars, netVars, peerVars, histVars >>

Connecting == {"connecting", "refused"}
NoFilter   == [id |-> 0, mode |-> "none", in |-> <<>>, held |-> <<>>, out |-> <<>>]

TypeOK ==
  /\ active \subseteq Segment /\ ready \subseteq Flag
  /\ at \in 1 .. 7 /\ advanced \in BOOLEAN
  /\ queue \in Seq(Command) /\ pending \in BOOLEAN
  /\ request \in Seq(Command) /\ c2p \in Seq(Command) /\ p2s \in Seq(Command)
  /\ asked \in Seq(Command)
  /\ response \in [state : ReplyState, buf : Seq(Token), out : Seq(Token),
                   held : Leftover(Id)]
  /\ stuffing \in {"fresh", "begin"}
  /\ edges \subseteq {"client", "server", "filterIn", "filterOut"}
  /\ s2p \in Seq(Token) /\ reply \in Seq(Token)
  /\ unread \in Nat /\ clientEof \in BOOLEAN
  /\ origin \in Connecting \union {"up", "eof", "reset", "closed"}
  /\ filter \in [id : Id, mode : {"none", "pipe", "command", "exited"},
                 in : Seq(Token), held : Seq(Token), out : Seq(Token)]
  /\ said \in Seq(Token) /\ told \in Seq(Token)
  /\ sent \in Seq(Id) /\ freed \subseteq Id

(* filterState as initState leaves it.                                     *)
StuffingGarbage == stuffing = "garbage"     \* Mutant: initState(filterState) is left out
StuffingReset   == stuffing = "fresh"

(* acceptClient: the session as it is handed to the loop.  The greeting is *)
(* a request of its own, already sent.                                     *)
Init ==
  /\ active = CS_CLIENT /\ ready = {} /\ at = 7 /\ advanced = FALSE
  /\ queue = << [id |-> 0, kind |-> "GREETING"] >> /\ pending = TRUE
  /\ request = <<>> /\ c2p = <<>> /\ p2s = <<>> /\ asked = <<>>
  /\ response = [state |-> "fresh", buf |-> <<>>, out |-> <<>>, held |-> <<>>]
  /\ StuffingReset
  /\ edges = {"client"} /\ s2p = <<>> /\ unread = 0 /\ clientEof = FALSE
  /\ origin = "connecting" /\ filter = NoFilter
  /\ \E greeting \in {"ok", "err"} : reply = << [id |-> 0, part |-> greeting] >>
  /\ said = <<>> /\ told = <<>> /\ sent = <<>> /\ freed = {}

-----------------------------------------------------------------------------
(* The guards of the blocks, by their place in processClient.              *)
Feeding == {"SERVER_OUT", "FILTER_IN"} \subseteq active

ConnectEnabled == active \intersect CS_SERVER = {} /\ "serverWrite" \in ready
FeedEnabled    == Feeding /\ {"filterWrite", "serverRead"} \subseteq ready
RespondEnabled ==
  /\ ~Feeding
  /\ {"SERVER_OUT", "CLIENT_IN"} \subseteq active
  /\ {"clientWrite", "serverRead"} \subseteq ready
  /\ queue # <<>>
DrainEnabled ==
  /\ {"FILTER_OUT", "CLIENT_IN"} \subseteq active
  /\ {"filterRead", "clientWrite"} \subseteq ready
CommandEnabled ==
  /\ {"CLIENT_OUT", "SERVER_IN"} \subseteq active
  /\ "clientRead" \in ready
  /\ Len(queue) < PENDING_QUEUE
SendEnabledPending ==     \* Mutant: does not wait for the answer
  "SERVER_IN" \in active /\ "serverWrite" \in ready /\ queue # <<>>
SendEnabled ==
  /\ "SERVER_IN" \in active
  /\ ~pending
  /\ "serverWrite" \in ready
  /\ queue # <<>>
FinishEnabledEarly == "CLIENT_OUT" \notin active     \* Mutant: the queue is not looked at
FinishEnabled == "CLIENT_OUT" \notin active /\ queue = <<>>

BlockEnabled(k) ==
  CASE k = 1 -> ConnectEnabled
    [] k = 2 -> FeedEnabled \/ RespondEnabled
    [] k = 3 -> DrainEnabled
    [] k = 4 -> CommandEnabled
    [] k = 5 -> SendEnabled
    [] k = 6 -> FinishEnabled

(* The pass gets to block k and finds it enabled.                          *)
Reaches(k) ==
  /\ at <= k
  /\ BlockEnabled(k)
  /\ \A j \in at .. k - 1 : ~BlockEnabled(j)

(* Going on with the pass after block k.                                   *)
GoesOn(k, flags) ==
  /\ at' = k + 1 /\ advanced' = TRUE /\ ready' = flags
  /\ UNCHANGED << active, origin >>

(* Mutant: the block goes on after it has closed the session.             *)
CloseClientGoesOn(level, flags) ==
  /\ active' = ActiveAfter(active, level)
  /\ ready' = flags \ {FlagOf(s) : s \in active \ ActiveAfter(active, level)}
  /\ origin' = IF Disconnects(active, level, CS_SERVER) THEN "closed" ELSE origin
  /\ at' = at /\ advanced' = TRUE

(* Mutant: what depends on the closed segments stays open.                *)
CloseClientAlone(level, flags) ==
  /\ active' = active \ level
  /\ ready' = flags \ {FlagOf(s) : s \in level}
  /\ origin' = IF active \intersect CS_SERVER \subseteq level THEN "closed" ELSE origin
  /\ at' = 7 /\ advanced' = TRUE

(* closeClient, after which the block returns true: the pass of this       *)
(* session is over.  flags is what the block made of the readiness flags.  *)
CloseClient(level, flags) ==
  /\ active' = ActiveAfter(active, level)
  /\ ready' = flags \ {FlagOf(s) : s \in active \ ActiveAfter(active, level)}
  /\ origin' = IF Disconnects(active, level, CS_SERVER) THEN "closed" ELSE origin
  /\ at' = 7 /\ advanced' = TRUE

(* Replies written to the client.                                          *)
Tells(lines) ==
  /\ told' = told \o lines
  /\ unread' = IF ClientLags THEN unread + Len(lines) ELSE unread

FlagIf(cond, flag) == IF cond THEN {flag} ELSE {}

-----------------------------------------------------------------------------
(* epoll_wait and processEvent: each descriptor with an event reports what *)
(* it is ready for now.  Only EPOLLIN and EPOLLOUT are looked at, so the   *)
(* hang-up of an empty pipe reports nothing.  A blocked filter write or    *)
(* read (see Feed and Drain) keeps the loop from getting here.             *)
Reported(fd) ==
  CASE fd = "client" ->
         FlagIf(c2p # <<>> \/ clientEof, "clientRead") \union
         FlagIf(unread < LowWater, "clientWrite")
    [] fd = "server" ->
         FlagIf(s2p # <<>> \/ origin \in {"eof", "reset", "refused"}, "serverRead") \union
         FlagIf(origin \in {"up", "eof", "reset", "refused"}, "serverWrite")
    [] fd = "filterIn"  -> FlagIf("FILTER_IN" \in active, "filterWrite")
    [] fd = "filterOut" -> FlagIf(filter.out # <<>> /\ "FILTER_OUT" \in active, "filterRead")

Poll ==
  /\ active # {}
  /\ \A j \in at .. 6 : ~BlockEnabled(j)
  /\ advanced \/ edges # {}
  /\ ready' = ready \union UNION {Reported(fd) : fd \in edges}
  /\ edges' = {} /\ at' = 1 /\ advanced' = FALSE
  /\ UNCHANGED << active, queue, pending, request, response, stuffing,
                  c2p, s2p, p2s, unread, peerVars, histVars >>

(* "Waiting for connection".  SO_ERROR of a descriptor already closed is   *)
(* not written: error keeps the value the stack had.                       *)
SocketError ==
  CASE origin \in {"refused", "reset"} -> {TRUE}
    [] origin = "closed"               -> BOOLEAN
    [] OTHER                           -> {FALSE}

Connect ==
  /\ Reaches(1)
  /\ \E error \in SocketError :
       IF error THEN CloseClient(CS_CLIENT, ready)
       ELSE /\ active' = active \union CS_SERVER
            /\ at' = 2 /\ advanced' = TRUE
            /\ UNCHANGED << ready, origin >>
  /\ UNCHANGED << queue, pending, request, response, stuffing,
                  netVars, asked, clientEof, reply, filter, histVars >>

-----------------------------------------------------------------------------
(* fillBuffer on the origin's connection.                                  *)
ServerRead ==
  Read(s2p, BufSize - Len(response.buf),
       IF origin = "eof" THEN "eof" ELSE IF origin = "up" THEN "again" ELSE "error")

Filled == [response EXCEPT !.buf = @ \o ServerRead.got]

(* copyMsg into the filter.  A pipe of the proxy's own is non-blocking and *)
(* takes a write whole or not at all; a filter's is blocking.              *)
Written(lines) ==
  CASE filter.mode = "command" -> [filter EXCEPT !.in = @ \o lines]
    [] filter.mode = "pipe" /\ "FILTER_OUT" \in active /\
       Len(filter.out) + Len(lines) <= PipeCap -> [filter EXCEPT !.out = @ \o lines]
    [] OTHER -> filter

(* "Process server -> filter stream".  TIOCOUTQ is no ioctl of a pipe:     *)
(* writeReady is computed from what FIONREAD left in bytes.                *)
Feed ==
  LET fed   == destuffMail(Filled)
      left  == ServerRead.left
      flags == (ready \ {"serverRead", "filterWrite"})
                 \union FlagIf(left # <<>>, "serverRead")
                 \union FlagIf(Len(left) < LowWater, "filterWrite")
  IN  /\ Reaches(2) /\ Feeding
      /\ filter.mode = "command" => Len(filter.in) + Len(fed.out) <= PipeCap
      /\ s2p' = left /\ response' = fed.next
      /\ filter' = Written(fed.out)
      /\ edges' = edges \union FlagIf(Written(fed.out).out # filter.out, "filterOut")
      /\ IF fed.done THEN CloseClient({"FILTER_IN"}, flags) ELSE GoesOn(2, flags)
      /\ UNCHANGED << queue, pending, request, stuffing, c2p, p2s, unread,
                      asked, clientEof, reply, histVars >>

-----------------------------------------------------------------------------
(* "Read server responses".                                                *)
Responding == Reaches(2) /\ ~Feeding

(* processPopServer answers an invalid command itself.                     *)
RespondInvalid ==
  /\ Responding /\ Head(queue).kind = "INVALID"
  /\ s2p' = ServerRead.left /\ response' = Filled
  /\ Tells(<< [id |-> Head(queue).id, part |-> "invalid"] >>)
  /\ queue' = Tail(queue)
  /\ GoesOn(2, IF ServerRead.count = "data" THEN ready ELSE ready \ {"serverRead"})
  /\ UNCHANGED << pending, request, stuffing, edges, c2p, p2s,
                  asked, clientEof, reply, filter, said, sent, freed >>

Parsed == parsePopResponse(Filled, Head(queue).kind \in Multiline, Head(queue).id)

(* The reply is not complete.                                              *)
RespondWaits ==
  /\ Responding /\ Head(queue).kind # "INVALID" /\ ~Parsed.done
  /\ s2p' = ServerRead.left /\ response' = Parsed.next
  /\ IF CheckEOF(ServerRead.count) THEN CloseClient({"SERVER_OUT"}, ready)
     ELSE GoesOn(2, ready \ {"serverRead"})
  /\ UNCHANGED << queue, pending, request, stuffing, edges, c2p, p2s, unread,
                  asked, clientEof, reply, filter, histVars >>

(* The reply as the client gets it.  That of CAPA loses its last three     *)
(* bytes, meant to be the end line, and gains a capability; of an empty    *)
(* reply the length becomes a huge one.                                    *)
Relayed(cmd, out) ==
  LET own  == << [id |-> cmd.id, part |-> "pipelining"], [id |-> cmd.id, part |-> "end"] >>
      last == out[Len(out)]
      cut  == IF out = <<>> THEN << [id |-> cmd.id, part |-> "overread"] >>
              ELSE IF last.part = "end" THEN SubSeq(out, 1, Len(out) - 1)
              ELSE [out EXCEPT ![Len(out)] = [last EXCEPT !.part = "garbled"]]
  IN  IF cmd.kind = "CAPA" THEN cut \o own ELSE out

RespondDoneStillPending ==     \* Mutant: pending is not reset
  /\ Responding /\ Head(queue).kind # "INVALID" /\ Parsed.done
  /\ s2p' = ServerRead.left /\ response' = Parsed.next
  /\ Tells(Relayed(Head(queue), Parsed.out))
  /\ queue' = Tail(queue) /\ UNCHANGED pending

RespondDone ==
  /\ Responding /\ Head(queue).kind # "INVALID" /\ Parsed.done
  /\ s2p' = ServerRead.left /\ response' = Parsed.next
  /\ Tells(Relayed(Head(queue), Parsed.out))
  /\ queue' = Tail(queue) /\ pending' = FALSE

Respond ==
  /\ RespondDone /\ Head(queue).kind # "QUIT"
  /\ ~(Head(queue).kind = "RETR" /\ Parsed.success)
  /\ GoesOn(2, IF ServerRead.count = "data" THEN ready ELSE ready \ {"serverRead"})
  /\ UNCHANGED << request, stuffing, edges, c2p, p2s,
                  asked, clientEof, reply, filter, said, sent, freed >>

RespondQuitPeeked ==     \* Mutant: the session is closed with the QUIT still queued
  /\ Responding /\ Head(queue).kind = "QUIT" /\ Parsed.done
  /\ s2p' = ServerRead.left /\ response' = Parsed.next
  /\ Tells(Parsed.out) /\ pending' = FALSE
  /\ CloseClient(CS_CLIENT \union CS_SERVER, ready)
  /\ UNCHANGED << queue, request, stuffing, edges, c2p, p2s,
                  asked, clientEof, reply, filter, said, sent, freed >>

RespondQuit ==
  /\ RespondDone /\ Head(queue).kind = "QUIT"
  /\ CloseClient(CS_CLIENT \union CS_SERVER, ready)
  /\ UNCHANGED << request, stuffing, edges, c2p, p2s,
                  asked, clientEof, reply, filter, said, sent, freed >>

(* A message follows: a filter is opened for it, a pipe if there is no     *)
(* filter command or set_filter fails.  The event of an earlier filter is  *)
(* forgotten, the state of its scanner is not.                             *)
FilterModes ==
  IF ~FilterCmd THEN {"pipe"}
  ELSE IF FilterMayFail THEN {"command", "pipe"} ELSE {"command"}

RespondRetrieve ==
  /\ RespondDone /\ Head(queue).kind = "RETR" /\ Parsed.success
  /\ \E mode \in FilterModes :
       filter' = [NoFilter EXCEPT !.id = Head(queue).id, !.mode = mode]
  /\ active' = active \union CS_FILTER
  /\ edges' = (edges \ {"filterOut"}) \union {"filterIn"}
  /\ ready' = ready \ {"filterRead", "filterWrite"}
  /\ at' = 3 /\ advanced' = TRUE
  /\ UNCHANGED << request, stuffing, c2p, p2s,
                  asked, clientEof, origin, reply, said, sent, freed >>

-----------------------------------------------------------------------------
(* "Process filter -> client stream".  Reading an empty pipe of a filter   *)
(* command that runs blocks the thread; reading an empty pipe of the       *)
(* proxy's own returns at once.                                            *)
FilterReadAgain ==     \* Mutant: what was read stays in the pipe
  [Read(filter.out, BufSize, "again") EXCEPT !.left = filter.out]
FilterRead == Read(filter.out, BufSize, "again")

Drain ==
  LET pipe  == FilterRead
      copy  == stuffMail(stuffing, pipe.got, filter.id)
      flags == (ready \ {"filterRead", "clientWrite"})
                 \union FlagIf(pipe.count = "data", "filterRead")
                 \union FlagIf(unread' < LowWater, "clientWrite")
  IN  /\ Reaches(3)
      /\ ~(filter.mode = "command" /\ filter.out = <<>>)
      /\ Tells(copy.out) /\ stuffing' = copy.next
      /\ filter' = [filter EXCEPT !.out = pipe.left]
      /\ edges' = edges \union
           FlagIf(filter.mode = "pipe" /\ pipe.got # <<>>, "filterIn")
      /\ IF copy.done THEN CloseClient({"FILTER_OUT"}, flags) ELSE GoesOn(3, flags)
      /\ UNCHANGED << queue, pending, request, response, c2p, s2p, p2s,
                      asked, clientEof, reply, said, sent, freed >>

-----------------------------------------------------------------------------
(* "Process client commands": one command is parsed each time.             *)
ClientRead == Read(c2p, BufSize - Len(request), IF clientEof THEN "eof" ELSE "again")
Requested  == request \o ClientRead.got

(* in->tok = in->cur: what is left to parse after the first command.       *)
UnparsedAll  == Requested     \* Mutant: tok does not move
UnparsedNone == <<>>          \* Mutant: the rest of the buffer is dropped
Unparsed     == Tail(Requested)

TakeCommand ==
  /\ Reaches(4) /\ Requested # <<>>
  /\ c2p' = ClientRead.left
  /\ queue' = Append(queue, Head(Requested)) /\ request' = Unparsed
  /\ GoesOn(4, ready)
  /\ UNCHANGED << pending, response, stuffing, edges, s2p, p2s, unread,
                  asked, clientEof, reply, filter, histVars >>

(* No command is there.  At the end of the stream the client's OUT half    *)
(* closes; that shutdown makes epoll report the socket once more.          *)
TakeNothing ==
  /\ Reaches(4) /\ Requested = <<>>
  /\ IF CheckEOF(ClientRead.count)
     THEN CloseClient({"CLIENT_OUT"}, ready) /\ edges' = edges \union {"client"}
     ELSE GoesOn(4, ready \ {"clientRead"}) /\ UNCHANGED edges
  /\ UNCHANGED << queue, pending, request, response, stuffing, c2p, s2p, p2s, unread,
                  asked, clientEof, reply, filter, histVars >>

-----------------------------------------------------------------------------
(* "Send commands to server".  An invalid command is not sent: the origin  *)
(* is marked readable so that the next pass answers it.                    *)
StillAsleep  == ready         \* Mutant: the origin is not marked
WakeToAnswer == ready \union {"serverRead"}

SendNothing ==
  /\ Reaches(5) /\ Head(queue).kind = "INVALID"
  /\ GoesOn(5, WakeToAnswer)
  /\ UNCHANGED << queue, pending, request, response, stuffing, netVars,
                  asked, clientEof, reply, filter, histVars >>

(* sendPopRequest frees the request's data, which the queue still holds.   *)
(* A write after the origin has closed is accepted and answered by a reset.*)
SendCommand ==
  /\ Reaches(5) /\ Head(queue).kind # "INVALID" /\ origin \in {"up", "eof"}
  /\ p2s' = IF origin = "up" THEN Append(p2s, Head(queue)) ELSE p2s
  /\ origin' = IF origin = "up" THEN "up" ELSE "reset"
  /\ edges' = edges \union FlagIf(origin = "eof", "server")
  /\ sent' = Append(sent, Head(queue).id)
  /\ freed' = freed \union {Head(queue).id}
  /\ pending' = TRUE
  /\ ready' = (ready \ {"clientWrite"}) \union FlagIf(unread < LowWater, "clientWrite")
  /\ at' = 6 /\ advanced' = TRUE
  /\ UNCHANGED << active, queue, request, response, stuffing, c2p, s2p, unread,
                  asked, clientEof, reply, filter, said, told >>

SendFails ==
  /\ Reaches(5) /\ Head(queue).kind # "INVALID" /\ origin \in {"reset", "closed"}
  /\ freed' = freed \union {Head(queue).id}
  /\ CloseClient({"SERVER_IN"}, ready)
  /\ UNCHANGED << queue, pending, request, response, stuffing, netVars,
                  asked, clientEof, reply, filter, said, told, sent >>

(* The client is done and everything queued has been answered.             *)
Finish ==
  /\ Reaches(6)
  /\ CloseClient(CS_SERVER \union CS_CLIENT, ready)
  /\ UNCHANGED << queue, pending, request, response, stuffing, netVars,
                  asked, clientEof, reply, filter, histVars >>

ProcessClient ==
  \/ Connect \/ Feed \/ RespondInvalid \/ RespondWaits \/ Respond \/ RespondQuit
  \/ RespondRetrieve \/ Drain \/ TakeCommand \/ TakeNothing
  \/ SendNothing \/ SendCommand \/ SendFails \/ Finish

Proxy == Poll \/ ProcessClient

-----------------------------------------------------------------------------
(* The client sends whole command lines, possibly many before it reads an  *)
(* answer, and may close its half of the connection at any time.           *)
EndsAnswer(cmd, t) ==
  /\ t.id = cmd.id
  /\ t.part \in {"err", "end", "invalid", "badorigin", "garbled"}
       \union (IF cmd.kind \in LongReplies THEN {} ELSE {"ok"})

Answered(cmd) == \E i \in 1 .. Len(told) : EndsAnswer(cmd, told[i])

ClientMayAct ==
  \A i \in 1 .. Len(asked) : asked[i].kind \in Patient => Answered(asked[i])

ClientSends ==
  /\ ~clientEof /\ active # {} /\ ClientMayAct /\ Len(asked) < MaxCmds
  /\ \E kind \in Kinds :
       LET cmd == [id |-> Len(asked) + 1, kind |-> kind]
       IN  asked' = Append(asked, cmd) /\ c2p' = Append(c2p, cmd)
  /\ edges' = edges \union {"client"}
  /\ UNCHANGED << proxyVars, s2p, p2s, unread, clientEof, origin, reply, filter, histVars >>

ClientCloses ==
  /\ ~clientEof /\ active # {} /\ ClientMayAct
  /\ clientEof' = TRUE /\ edges' = edges \union {"client"}
  /\ UNCHANGED << proxyVars, c2p, s2p, p2s, unread, asked, origin, reply, filter, histVars >>

ClientReads ==
  /\ unread > 0
  /\ unread' = 0 /\ edges' = edges \union {"client"}
  /\ UNCHANGED << proxyVars, c2p, s2p, p2s, peerVars, histVars >>

(* The origin serves one command at a time, in order, and sends its reply  *)
(* line by line; it closes after the reply to QUIT.                        *)
OriginAccepts ==
  /\ origin = "connecting"
  /\ origin' = "up" /\ edges' = edges \union {"server"}
  /\ UNCHANGED << proxyVars, c2p, s2p, p2s, unread, asked, clientEof, reply, filter, histVars >>

Lines(id, n) == [i \in 1 .. n |-> [id |-> id, part |-> "item"]]

Replies(cmd) ==
  LET line(part) == << [id |-> cmd.id, part |-> part] >>
  IN  {line("err")} \union
      (IF cmd.kind \in LongReplies
       THEN {line("ok") \o Lines(cmd.id, n) \o line("end") : n \in MinLines .. MaxLines}
       ELSE {line("ok")})

OriginServes ==
  /\ origin = "up" /\ reply = <<>> /\ p2s # <<>>
  /\ reply' \in Replies(Head(p2s)) /\ p2s' = Tail(p2s)
  /\ UNCHANGED << proxyVars, edges, c2p, s2p, unread, asked, clientEof, origin, filter, histVars >>

OriginSays ==
  /\ origin = "up" /\ reply # <<>>
  /\ s2p' = Append(s2p, Head(reply)) /\ said' = Append(said, Head(reply))
  /\ reply' = Tail(reply)
  /\ origin' = IF /\ Tail(reply) = <<>> /\ Head(reply).id # 0
                  /\ asked[Head(reply).id].kind = "QUIT"
               THEN "eof" ELSE "up"
  /\ edges' = edges \union {"server"}
  /\ UNCHANGED << proxyVars, c2p, p2s, unread, asked, clientEof, filter, told, sent, freed >>

(* It refuses the connection, closes it, or resets it.                     *)
OriginFails ==
  /\ OriginMayFail
  /\ \/ origin = "connecting" /\ origin' = "refused"
     \/ origin = "up" /\ origin' \in {"eof", "reset"}
     \/ origin = "eof" /\ origin' = "reset"
  /\ reply' = <<>> /\ p2s' = <<>>
  /\ edges' = edges \union {"server"}
  /\ UNCHANGED << proxyVars, c2p, s2p, unread, asked, clientEof, filter, histVars >>

(* The filter command: it reads its standard input, and writes what it     *)
(* read, at once if it is eager and otherwise when its input has ended.    *)
InputEnded == filter.in = <<>> /\ "FILTER_IN" \notin active

FilterReads ==
  /\ filter.mode = "command" /\ filter.in # <<>>
  /\ filter' = [filter EXCEPT !.held = Append(@, Head(filter.in)), !.in = Tail(@)]
  /\ edges' = edges \union {"filterIn"}
  /\ UNCHANGED << proxyVars, c2p, s2p, p2s, unread, asked, clientEof, origin, reply, histVars >>

FilterWrites ==
  /\ filter.mode = "command" /\ filter.held # <<>>
  /\ FilterEager \/ InputEnded
  /\ filter' = [filter EXCEPT !.held = <<>>, !.out = @ \o filter.held]
  /\ edges' = edges \union {"filterOut"}
  /\ UNCHANGED << proxyVars, c2p, s2p, p2s, unread, asked, clientEof, origin, reply, histVars >>

FilterExits ==
  /\ filter.mode = "command"
  /\ \/ InputEnded /\ filter.held = <<>>
     \/ FilterMayFail
  /\ filter' = [filter EXCEPT !.mode = "exited", !.in = <<>>, !.held = <<>>]
  /\ edges' = edges \union {"filterIn", "filterOut"}
  /\ UNCHANGED << proxyVars, c2p, s2p, p2s, unread, asked, clientEof, origin, reply, histVars >>

OriginStep == OriginAccepts \/ OriginServes \/ OriginSays
FilterStep == FilterReads \/ FilterWrites \/ (FilterExits /\ InputEnded)

Next ==
  \/ Proxy
  \/ ClientSends \/ ClientCloses \/ ClientReads
  \/ OriginStep \/ OriginFails
  \/ FilterReads \/ FilterWrites \/ FilterExits

Spec == Init /\ [][Next]_vars

(* The thread runs when epoll has something for it, the origin replies,    *)
(* a filter runs, the client reads what it is sent.  Nobody has to send a  *)
(* command, to close or to fail.                                           *)
Fairness ==
  /\ WF_vars(Proxy)
  /\ WF_vars(OriginStep)
  /\ WF_vars(FilterStep)
  /\ WF_vars(ClientReads)

LiveSpec == Spec /\ Fairness

-----------------------------------------------------------------------------
(* Properties.                                                             *)

IsPrefixOf(s, t) == Len(s) <= Len(t) /\ \A i \in 1 .. Len(s) : s[i] = t[i]

FromOrigin(t) == t.part \in {"ok", "err", "item", "end"}
Relevant(s) ==
  LET kept[n \in 0 .. Len(s)] ==
        IF n = 0 THEN <<>>
        ELSE IF FromOrigin(s[n]) THEN Append(kept[n - 1], s[n]) ELSE kept[n - 1]
  IN  kept[Len(s)]

(* What the client is told, the proxy's own lines aside, is what the       *)
(* origin said: in its order, nothing lost, nothing twice                  *)
(* (processPopServer, copyMsg and the buffers between them).               *)
Verbatim == IsPrefixOf(Relevant(told), said)

(* Of a message the client is told no line twice either, nor loses one,    *)
(* but its end line, with which the next reply starts again: destuffMail   *)
(* takes it from the origin, stuffMail writes one, parsePopResponse copies *)
(* the first along with its status line.                                   *)
EndsMessage(t) == t.part = "end" /\ t.id # 0 /\ asked[t.id].kind = "RETR"
Repeated(s) ==
  LET twice[n \in 0 .. Len(s)] ==
        IF n = 0 THEN <<>>
        ELSE IF EndsMessage(s[n]) THEN twice[n - 1] \o << s[n], s[n] >>
        ELSE Append(twice[n - 1], s[n])
  IN  twice[Len(s)]
OnlyEndsRepeated == IsPrefixOf(Relevant(told), Repeated(said))

(* Commands reach the origin in the order the client sent them and none    *)
(* twice (processPopClient queues, sendPopRequest peeks, processPopServer  *)
(* dequeues: three functions share one queue).                             *)
SentInOrder ==
  \A i, j \in 1 .. Len(sent) : i < j => sent[i] < sent[j]

(* The client learns the answers in the order of its commands, nothing of  *)
(* one comes behind a line of the next (RFC 2449, PIPELINING;              *)
(* processPopServer resets pending with the status line of RETR, when the  *)
(* message is still to come).                                              *)
RepliesInOrder ==
  \A m, n \in 1 .. Len(told) : m < n => told[m].id <= told[n].id

(* None of the client's commands is left out but the invalid ones: one     *)
(* that is not sent by the time a later one is will never be.              *)
NoneSkipped ==
  \A i \in 1 .. Len(asked), j \in 1 .. Len(sent) :
    asked[i].kind # "INVALID" /\ i <= sent[j] =>
      \E k \in 1 .. j : sent[k] = i

(* pending says that the head of the queue, and nothing behind it, is with *)
(* the origin (client->pending, set and reset in two functions).           *)
PendingIsHead ==
  /\ pending => queue # <<>> /\ Head(queue).kind # "INVALID"
  /\ \A i \in 1 .. Len(queue) :
       (queue[i].id = 0 \/ \E j \in 1 .. Len(sent) : sent[j] = queue[i].id)
          => i = 1 /\ pending

(* A session holds its memory as long as it can tell its client anything,  *)
(* and not longer: whichever half closes first, in whatever order, closing *)
(* CLIENT_IN leaves nothing open (closeClient and its recursion), and the  *)
(* origin is never written to once it is no longer read.                   *)
ClosedTogether ==
  /\ active # {} => "CLIENT_IN" \in active
  /\ "SERVER_IN" \in active => "SERVER_OUT" \in active

(* A released session is not touched again: no block of processClient runs *)
(* on memory closeClient has freed.                                        *)
ReleasedForGood == [][active = {} => UNCHANGED proxyVars]_vars

(* A session ends with its commands answered: those read from a client     *)
(* that closes its half, or those up to a QUIT.                            *)
EndsAnswered ==
  [][active # {} /\ active' = {} =>
       \A i \in 1 .. Len(asked) :
         \/ Answered(asked[i])'
         \/ \E j \in 1 .. i - 1 : asked[j].kind = "QUIT"]_vars

(* When a session is released, no request data is freed that               *)
(* sendPopRequest has freed already (closeClient frees what is queued).    *)
FreedOnce ==
  active = {} => \A i \in 1 .. Len(queue) : queue[i].id \notin freed

(* A command the client sends is answered, unless the session ends.        *)
EventuallyAnswered ==
  \A i \in 1 .. MaxCmds :
    Len(asked) >= i ~> active = {} \/ (Len(asked) >= i /\ Answered(asked[i]))

(* A client that closes its half gets its session released.                *)
EventuallyReleased == clientEof ~> active = {}

(* No line of a listing or of a message is given to the client twice, or   *)
(* made up.                                                                *)
Items(s, id) == Cardinality({i \in 1 .. Len(s) : s[i].id = id /\ s[i].part = "item"})
NothingInvented == \A id \in Id : Items(told, id) <= Items(said, id)

-----------------------------------------------------------------------------
(* What the properties rest on: the parts of the inductive invariant.      *)

(* The number of the command at the head of the queue, or that would be.   *)
NextId == (Len(asked) + 1) - (Len(queue) + Len(request) + Len(c2p))

(* Queue, parse buffer and socket hold the client's latest commands, each  *)
(* once and in order (fillBuffer, processPopClient, Queue_Enqueue).        *)
Consecutive(s, first) == \A i \in 1 .. Len(s) : s[i].id = first + i - 1

Numbered ==
  /\ NextId \in Nat
  /\ Consecutive(queue, NextId)
  /\ Consecutive(request, NextId + Len(queue))
  /\ Consecutive(c2p, NextId + Len(queue) + Len(request))

(* What was sent comes before the head of the queue, which was sent itself *)
(* if and only if it is pending.                                           *)
SentFirst ==
  /\ \A i \in 1 .. Len(sent) : sent[i] <= NextId /\ (~pending => sent[i] < NextId)
  /\ NextId = 0 => pending
  /\ pending => queue # <<>> /\ Head(queue).kind # "INVALID"

(* No block of processClient is reached on a session that is released.     *)
Alive == at <= 6 => active # {}

(* A buffer never holds more than its size (the room fillBuffer computes). *)
BuffersFit == Len(request) <= BufSize /\ Len(response.buf) <= BufSize

IInv == TypeOK /\ BuffersFit /\ Alive /\ ClosedTogether /\ Numbered /\ SentFirst /\ SentInOrder

(* The abstract pipeline: its line is the queue, its origin is pending.    *)
Pipeline == INSTANCE PopPipeline WITH
  Commands <- Command,
  Invalid  <- {c \in Command : c.kind = "INVALID"},
  Greeting <- [id |-> 0, kind |-> "GREETING"],
  Limit    <- PENDING_QUEUE,
  line     <- queue,
  atOrigin <- pending,
  open     <- active # {}

(* Session implements PopPipeline: no command is answered before its turn, *)
(* and the line always moves.                                              *)
ImplementsPipeline == Pipeline!PipeSpec

(* What the server loop sees of the session is its open segments.          *)
Life == INSTANCE SessionLife WITH open <- active

(* Session implements SessionLife: whatever fails, its segments change as  *)
(* the server loop (Server) takes them to change, and a session that is    *)
(* gone does not come back.                                                *)
ImplementsLife == Life!Spec
=============================================================================
