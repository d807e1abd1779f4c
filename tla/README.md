# pop3filter in TLA+

pop3filter is a transparent POP3 proxy: it accepts clients, connects each to an
origin server, relays commands and replies, gives clients pipelining whether or
not the origin has it, and passes the messages of `RETR` through an external
filter command. It is one thread around an edge-triggered `epoll`, with
non-blocking sockets and (almost only) non-blocking pipes. This directory holds
TLA+ modules that model it, TLC configurations that check them, and TLAPS proofs
about them. Paths are relative to the root of the repository.

## The system and its parts

| Part | Source | State | Operations | Talks to |
|---|---|---|---|---|
| server loop | `src/src/server.c` 430-617, `acceptClient` 81-150, `net-utils/tcpUtils.c` | `tcpEvents`, `udpEvents`, pools `clients` and `evDataPool`, `advanced` | accept, receive a datagram, one pass over all clients, shut down | kernel; sessions; management |
| session | `processClient` 247-401, `processEvent` 403-428 | `ClientData`: `activeSegments`, `commandQueue`, `pending`, three `Input` buffers, three `EventData` with `readReady`/`writeReady` | seven blocks run in order in each pass | client, origin, filter through the kernel |
| teardown | `closeClient` 152-245 | `activeSegments`, descriptors, memory of the session | close a set of half-connections, and what depends on them | called by every block |
| POP3 handling | `src/src/pop3/pop3.c` | the session's queue and buffers | `fillBuffer`, `copyMsg`, `processPopClient`, `sendPopRequest`, `processPopServer` | called by the blocks |
| scanners | `src/src/parsers/pop3.re` and the generated `pop3.c` | `in->state`, `cond`, `tok`/`cur`/`lim`, `writeBuf`/`written` | `parsePopResponse`, `destuffMail`, `stuffMail`, `parsePopRequest`, each resumable | called by POP3 handling |
| filter launch | `set_filter` in `src/src/functions.c` | two pipes and a process | start | session |
| origin | `src/src/net-utils/connect.c` | the one `host` request | `resolve_dns`, `signalfd_read`, `connectHost` | server loop, management |
| management | `management/management.c`, `parsers/management.re`, `functions.c` | `ServerArguments`, one datagram buffer | `processCmd` | one datagram in, one out; origin |
| statistics | `stats.c` | three counters | count, print | sessions, management |
| start-up, logging, management client | `arguments/`, `main.c`, `logger.c`, `src/Client/` | - | - | - |

**What is hard.** Nothing here runs in parallel but the lookups of
`getaddrinfo_a` and the filters; but everything interleaves: the peers act between
any two blocks of a pass; a block is chosen by flags that were computed earlier
from other data; readiness is edge-triggered, so a flag that is cleared wrongly
stays cleared; three functions share one command queue; closing one half of one
connection closes others, and may free the session under the caller; handles are
reused as sessions end, while epoll may still know a descriptor by one; the
scanners stop in the middle of a reply and are resumed, with or without input; a
filter is a third peer that blocks the thread instead of returning `EAGAIN`; one
global request serves all resolutions. `PROJECT.json` lists each such hazard at its
line.

**What makes each part correct.** Session: the client gets what the origin said,
in order, once; commands go to the origin in order, once, one at a time; every
command is answered or the session ends; a client that leaves is released; a
released session is not touched. Teardown: no half stays open that nobody would
close. Scanners: a reply is complete when its last line is there and not
otherwise, however the input is cut. Server loop: a connection that is waiting
is accepted, sessions do not disturb one another, an event is for the peer it is
reported to, nothing of a session outlives it, the counter of connections is the
number of sessions. Origin: the names of each resolution are freed once, after
use; the last setting wins; an address that would do is found. Management: an answer
shows the configuration in force. Several of these the program keeps only in part; the
properties say how far, and "Where the program falls short" what lies beyond.

## Modules

| Module | Contents |
|---|---|
| `Segments` | the six half-connections (`CommSegment`) and `closeClient` as an operator: `ActiveAfter(act, level)` is what the recursion leaves open; what each call that `processClient` makes can leave (`Closings`) |
| `Scanners` | the three scanners of replies and messages, line by line, as functions from an `Input` to a result: done or not, the output, the next `Input` |
| `Session` | one session with its client, origin and filter: the state machine |
| `Buffers` | `Read`, what `read` gives `fillBuffer`, and `CheckEOF`, what its callers make of the count |
| `RequestLexer` | the client's side byte by byte: `parsePopRequest` with `fillBuffer`, `processPopClient` and their block |
| `ReplyBytes` | the origin's side byte by byte: `destuffMail` and `stuffMail` with a copying filter between them, `parsePopResponse` |
| `PopPipeline` | abstract: a line of commands of which the origin has at most the first |
| `SessionLife` | abstract: which half-connections of a session may be open after which |
| `Server` | the loop over all sessions: accepting, datagrams, turns, pools, descriptors, the epoll set, SIGINT |
| `Origin` | the resolution request and its threads, `connectHost` |
| `Management` | `processCmd` and the datagram buffer, composed with `Origin` |
| `MCSession`, `MCRequestLexer`, `MCReplyBytes`, `MCManagement` | the same for TLC, with the inputs they are checked on |
| `BuffersProofs`, `SessionProofs`, `ConversationProofs`, `RepliesProofs`, `LexerProofs`, `ReplyBytesProofs`, `ServerProofs`, `ManagementProofs` | lemmas and theorems |

How they fit together:

```
 Segments   Scanners   Buffers            Segments          Origin
     \         |        /    \               |                |
      ------ Session ---   RequestLexer    Server         Management
             /     \                         :
   PopPipeline    SessionLife ...............:
   (implements)   (implements)        (sessions follow it)
```

`Session` instantiates `PopPipeline` (`Pipeline`, with `line <- queue`,
`atOrigin <- pending`, `open <- active # {}`) and `SessionLife` (`Life`, with
`open <- active`) and implements both. `Server` knows of a session only what
`SessionLife` promises; that `Session` keeps the promise is checked in
`filter_failures` and proved in `SessionProofs`, so `Server` leaves out nothing that a
session could do to the loop. `ReplyBytes` and `RequestLexer` are what lies below
the tokens of `Session`.

### Session and the code

One action is one block of `processClient`, with everything it calls:

| Action | Code |
|---|---|
| `Poll` | `epoll_wait` and `processEvent` for the descriptors of the session; the next pass starts |
| `Connect` | "Waiting for connection" |
| `Feed` | "Process server -> filter stream" |
| `RespondInvalid`, `RespondWaits`, `Respond`, `RespondQuit`, `RespondRetrieve` | "Read server responses", by the outcome of `processPopServer` |
| `Drain` | "Process filter -> client stream" |
| `TakeCommand`, `TakeNothing` | "Process client commands", by the outcome of `processPopClient` |
| `SendNothing`, `SendCommand`, `SendFails` | "Send commands to server" |
| `Finish` | the last test of the function |

`at` is the block the pass has reached. `Reaches(k)` says that block `k` is
enabled and that the blocks between `at` and `k` are not; a block that is passed
over is no step. A block that calls `closeClient` and returns sets `at` to 7,
the end of the pass. `Poll` is possible when no block is left, and it waits for
an edge (`edges # {}`) unless the last pass did something (`advanced`).

`active` is `activeSegments`; `ready` the set of readiness flags that are true;
`queue`, `pending` are `commandQueue`, `pending`; `response` is `responseState`
(its scanner state, unread input and pending output); `request` the unparsed
input of `requestState`; `stuffing` the scanner state of `filterState`. `edges`,
`c2p`, `s2p`, `p2s`, `unread` are the kernel's: the events not yet reported and
the data in socket buffers. `said`, `told`, `sent`, `freed` are histories; no
guard of the proxy reads them.

The peers (`Client...`, `Origin...`, `Filter...`) are not code of the repository.
The client sends whole commands and may close its half at any time (after a kind
in `Patient` it waits for the whole answer first). The origin answers one command
at a time, in order, with `+OK` or `-ERR` and, where POP3 says so, lines; under
`OriginMayFail` it may refuse, close or reset. The filter reads lines and writes
them back, at once or when its input has ended; under `FilterMayFail` it may not
start or exit early.

Abstractions:

- A token is one line with its CRLF, tagged with the command it belongs to; reads
  return whole tokens. How bytes make lines is the subject of `RequestLexer` and
  `ReplyBytes`.
- Buffer sizes count tokens. One `BufSize` stands for the 512 bytes of a response
  buffer and the 256 of the request buffer. `writeBuf` is unbounded (its bound is
  `OutputFits` of `ReplyBytes`). The three bytes of an end line that `destuffMail`
  leaves behind (`held`) take no room; they are the origin's end line, and reach the
  client, which has got one from `stuffMail`, again in front of the next status line.
- After "Invalid response from origin" the code has consumed one byte of the line
  and meets the rest again; the model meets the whole line again.
- `LowWater` stands for `CLIENT_WRITE_BUF * 2`, the limit `TIOCOUTQ` is compared
  with; the client's unread lines stand for what the socket holds.
- `write` to the client is taken to accept everything: with a send buffer of
  `CLIENT_WRITE_BUF * 2` and a check before each block it nearly does.
- A pipe of the proxy's own takes a write whole or not at all, and a filter's pipe
  blocks: then the action is not enabled, and nothing else of the proxy is.
- `User` data and the text of requests are left out; `freed` records which
  requests `sendPopRequest` has freed.
- An uninitialised `error` in `Connect` is either value (`SocketError`).

### RequestLexer and the code

`Session` takes commands as whole tokens with a kind. `RequestLexer` is what lies
below: bytes, of which `Char` holds the ones the rules tell apart, arrive in
pieces of any size; `LexCommand` and `LexNothing` are the block "Process client
commands" by the outcome of `processPopClient`; `Poll` is the edge. `buf` is
`requestState` from `tok` to `lim`, `scan` its `state` and `cur`.

The generated scanner has 70 states in which it can be left off. The model has one
record for them: the phase of the line (in the letters of a word, in the blanks
behind it, in an argument, behind it, or in a line that is none of the commands),
the letters so far, whether a CR came last, and the tags of the argument. `Step` is
one byte; `Run` is a scan, from where the last one left off; `parsePopRequest`
gives the command, the length and the argument, falls back to one byte when the
scan is rejected or is resumed without anything new, or suspends it. Letters are
lower case; the code ignores case. The tags are counted from `tok`: in the code
they are pointers that `fillBuffer` does not shift, which is right because `tok`
is at the start of the buffer whenever a scan is suspended. The limit of the queue
and the other blocks are `Session`'s; here the queue only records what it was
given, in `commands`.

### ReplyBytes and the code

One scanner is a record: the state of the generated code it was left in, named for
what has been read of the line, the bytes of the token it has read and not yet
emitted (`held`, from `tok` to `cur`), the output it has put in `writeBuf`, and
whether it has completed. `destuffByte`, `stuffByte` and `responseByte` are one
byte in each state; `destuffMail`, `stuffMail` and `parsePopResponse` are the rules
they make, and `Scan` is a call: from the state the scanner was left in, one rule
after the other over the bytes that were read. `stuffNothing` is `stuffMail`
called with nothing to read, which is how it learns of the end.

The origin's bytes reach the socket in pieces (`Arrives`; `came` is what is there), and
epoll reports them once: `edge` is an arrival it has not reported, `Poll` is
`epoll_wait` with `processEvent`, which sets `readReady`. `Feed` and `Respond` need the
flag, as their blocks do. They read what has come, or what of it fits (`Fills`), and
compute the flag anew, each as its block does: `Feed` by `FIONREAD`, so that it reads
on while something is left (`ReadOn`); `Respond` as "something was read and the
reply is complete", which clears it in the middle of a reply, also when the rest has
arrived. The kernel reports no arrival twice.

`Feed`, `Drain`, `DrainEnd` and `Respond` are the blocks of `processClient` as far as
bytes matter: `copyMsg` writes and forgets its output on every call,
`parsePopResponse` keeps it until the reply is complete. The filter between the two
is a pipe that copies what it reads; it is drained in any order with feeding it if
it is `FilterEager`, and when its input has ended otherwise.

The model's `+OK` and `-ERR` are in capitals, as the rules have them. A reply is
followed by bytes that are not part of it (`behind`), so that a scanner that goes
too far is seen. Of a message that arrives through the proxy's own pipe, without a
filter, `default_pipe` says what happens.

### Server and the code

One iteration of `processingLoop` is `Wait` (`epoll_wait` and `processEvent` of all
it returns), four slots in the order of the loop (`tcp1`, `tcp2`, `udp1`, `udp2`:
`Skip`, `AcceptNothing`, `AcceptFails`, `AcceptClient`, `RejectClient`, `Receive`,
`ReceiveNothing`), then a turn for every session of `turn`, the indices
`Pool_ToIndexArray` returned (`Turn`, `TurnsDone`). `tcpEvents` and `udpEvents` are
as they are initialised, `{-1}`, which leaves the second entry 0.

`pool` is `evDataPool`: what each handle stands for. `open` is the descriptor table
of the process, `watched` the epoll set, with the handle each descriptor was added
with; they are apart because `closeClient` returns handles and closes descriptors
at different moments, and because the kernel forgets a descriptor only when the
last process has closed it (`holds`: clients' sockets a filter process has
inherited, the only ones that are not close-on-exec).

- A turn changes the segments as `SessionLife` allows, or connects, refuses,
  retrieves or does nothing that concerns the loop. `CloseClient(c, rest)` is
  everything `closeClient` gives back on the way to `rest`.
- Readiness of clients and filters is `Session`'s business and left out: whether
  a session has something to do is a free choice, and an event of its own may come
  whenever it is open (`Woken`).
- `turn` is visited in any order; the code visits it by index, and nothing depends
  on the order.
- The pools are in a submodule that is not part of the repository. `LowestFirst`
  is how `startServer` relies on them (handles 0, 1, 2, ... for the first sockets);
  with FALSE they may hand out any free index afterwards. The theorems hold either way.
- The counters wrap around at `Width`. `RejectClient` is a session that is closed
  before it was counted, which lowers the counter all the same.
- `Overlapping`, `OriginMayRefuse`, `AddressMayFail`, `FilterCmd` switch on what the
  code does not clean up; see "Where the program falls short".

### Origin, Management and the code

`Origin` is the global request `host`. `Resolve(p)` is `resolve_dns` at run time:
it forgets what `host` had. A lookup is two steps of a thread (`LookupBegins`,
`LookupEnds`): it finds the names through `host` when it starts and leaves the
addresses there when it ends. `signalfd_read` frees the names `host` has by then.
`connectHost` tries the addresses in order and goes on behind one that fails at
once. Freed memory that is read is `Garbage` or what it was.

`Management` is the loop as far as it concerns these (`Poll`, `Accept`, `Receive`),
with `processCmd` for every word `lexRequest` knows and two it does not. A datagram
is a word, an argument, and how the line ends; its length, from the lengths of
the words, decides what of the last datagram's text is still in the static buffer
behind byte 16, where an argument of `SET_ORIGIN_PORT` starts and where
`args->originPort` points. The other `SET_` requests are known to `lexRequest` and fall
into `processCmd`'s default case: they change nothing and are answered with an empty
datagram.

Nothing makes an administrator wait for the last setting to be in force. Two
histories say where that matters. `crowded` has the resolutions that were under way
together with another: `Resolve` adds the one it starts and the one before it unless
every lookup has ended and its event has been taken (`Quiet`). `overwritten` says
that a request of sixteen bytes or more was received while the argument of the last
setting was kept in the buffer. No guard reads either.

Definitions marked *Mutant* stand just before the definition they vary. They are
variants of the code with a plausible bug, used to confirm that each property
can fail; no specification uses them.

## Runs

Deadlock is not checked in any of them: a session that is released, or whose
client sends nothing, rightly stops, and so does a server that was told to end.

| Run | Asks | Instance |
|---|---|---|
| `pipelining` | are replies verbatim and in order, commands sent in order, none skipped, one at a time; is teardown right wherever the origin fails | 3 commands of 4 kinds, queue of 2, a client that closes when it likes, an origin that may refuse, close and reset |
| `progress` | is every command answered and a leaving client released, messages through a filter command included; is nothing told twice or left out but the end line of a message; does no session end with a command unanswered; is request data freed once; does `Session` implement `PopPipeline`, liveness included | 2 commands of 5 kinds, a client that lags (`LowWater` 2) and waits for each message |
| `filter_failures` | is a line ever duplicated or invented when origin and filter fail and two `RETR`, or one and a `CAPA`, overlap; does `Session` implement `SessionLife` | 2 commands, eager filter that may fail |
| `lexing` | is every line taken for the one command its words say, wherever it is cut and whatever came before; is no byte lost; is a line that has arrived taken without another event | 44 inputs of two lines, pieces of any size, a buffer of 11 bytes |
| `bytes` | does the client get exactly the origin's bytes, all of them, however arrivals and reads cut them; does each call's output fit its buffer | messages of one or two short lines with bare CR, LF and leading dots, one of seven lines, and replies; a buffer of 14 bytes, shorter than the long message and longer than the replies |
| `sessions` | does anything of a session outlive it, does an event reach the peer it is of, is the origin used only once connected, is the counter right, does only a living session get a turn | 2 connections, 2 listening sockets, 13 handles |
| `listening` | is a waiting connection accepted, a waiting datagram read, does SIGINT end the server; does every peer own its handle | the same with 2 management sockets, refusals, SIGINT, 2 datagrams and 7 descriptors, so that the process runs out of them |
| `managing` | are the names of a resolution that has the request to itself freed once, and freed; is a setting made when the others are over in force; is it what is shown until it is overwritten; is a client turned away only by an address that refuses late | 2 ports, 3 settings in any overlap, 3 datagrams of 7 kinds, a client, lookups that fail or find one of two lists |

The other four each show a place where the program does not do what its documents
say; each checks one property and TLC finds the counterexample.

| Run | Shows |
|---|---|
| `default_pipe` | without a filter, a pipe found empty between two lines ends the message early |
| `filter_cat` | a filter that writes as it reads, as `cat` does, can block the thread for ever |
| `accept_stalls` | with one management socket, as by default, the second of two connections that come together is accepted only when a third one comes |
| `retr_pipelined` | the reply to a command pipelined behind `RETR` is read into the message, or overtakes what the filter has still to write |

**Bounds.** Two commands are enough for one to overtake, replace or outlive
another; a third fills the queue of two and shows the client held back and let
go (`PENDING_QUEUE` is 10 in the code; nothing depends on the value but the
guard). One or two lines per message separate first, last and only line. `BufSize`
8 holds any reply of these instances. In `lexing` the first line
is each command, each kind of near miss, a line with a byte no rule takes, a line
with a CR or a LF inside, an empty one, and one that is longer than the buffer;
two lines are enough for what one leaves behind to disturb the next. The buffer of
11 bytes is as long as the longest of the other lines, so that it is full, and
shifted while it holds a part of the next line. `LineByLine` is about lines a client
may send (printable, not longer than the buffer); `NoLineLeft` leaves out a line
that does not fit, which in the code waits until the client sends more. In `bytes`
pieces of any size arrive, so that every cut is met; the buffer of 14 is the
longest listing of the inputs, and `Dots` is more than twice that when it is stuffed,
so that output kept from one call to the next does not fit `writeBuf`. In `managing` a
third setting can come when two that overlapped are over, and after a setting there
is room for a request that overwrites the argument and for the question. In
`sessions` two sessions are
enough for one to get what the other gave back; 13 handles and 20 descriptors are
more than they need. `MaxCmds`, `MinLines`, `MaxLines`, `MaxSettings` and
`MaxDatagrams` are the bounds on behaviour; `BufSize`, `LowWater`, `PipeCap`,
`PENDING_QUEUE`, `MaxFds`, `Width` and `Handle` are sizes of the code and its
environment.

**Fairness.** `Session` (`LiveSpec`): weak fairness of the proxy as a whole: the
thread runs whenever `epoll_wait` returns or need not wait; within a pass there is
no choice left. Weak fairness of the origin's steps, of a filter's, and of the
client's reading: an origin that is asked replies, a filter runs. The client need
not send nor close, and nobody has to fail. `ReplyBytes` (`LiveSpec`): what the origin
has sent comes (`Arrives`), and the loop runs as long as epoll or one of its flags
gives it something to do (`Loop`); a flag that was cleared gives it nothing.
`RequestLexer` and `Server`: only the loop is fair; in `Server` neither the origin has
to answer nor anyone to come. `Management`: the loop, and each lookup ends, as `getaddrinfo_a`'s
own timeouts have it.

## Proofs

All theorems hold for every value of the constants under `SessionAssumption`,
`LexerAssumption`, `ReplyBytesAssumption`, `ServerAssumption`, `OriginAssumption` and
`ManagementAssumption` (sizes are positive, bounds are numbers, the pool has the
handles `startServer` relies on), with every failure allowed that the statement
does not exclude.

| Theorem | Says | Assumes |
|---|---|---|
| `SessionProofs!TypeCorrect` | the state keeps its type and no input buffer exceeds its size | - |
| `SessionProofs!ClosesTogether` | `ClosedTogether`: while anything is open the client can be written to, and the origin is written to only while it is read | - |
| `SessionProofs!NeverTouchedAgain` | `ReleasedForGood`: no block runs on a released session | - |
| `ConversationProofs!OrderKept` | `SentInOrder` | - |
| `ConversationProofs!PendingTellsTheHead` | `PendingIsHead` | - |
| `ConversationProofs!AllCommandsSent` | `NoneSkipped` | `Predictable` |
| `SessionProofs!LivesAsPromised` | `ImplementsLife`: the refinement of `SessionLife` | - |
| `RepliesProofs!NoLineInvented` | `NothingInvented` | - |
| `RepliesProofs!ToldVerbatim` | `Verbatim` | `Unfiltered` |
| `ConversationProofs!FreedByOne` | `FreedOnce` | `~OriginMayFail` |
| `ConversationProofs!RunsAsPipeline` | every step is a step of `PopPipeline` or none (`PipeSafety`, the safety part of `ImplementsPipeline`) | `Predictable`, `~OriginMayFail` |
| `ConversationProofs!EndsWithAnswers` | `EndsAnswered`: a session ends with every command answered | `Predictable`, `~OriginMayFail` |
| `LexerProofs!TypeCorrect` | the state keeps its type; a command is from one byte to a full buffer | - |
| `LexerProofs!NothingLost` | `Conserved`: what was taken, the buffer, the socket and what is still to come are the client's bytes, in order | - |
| `LexerProofs!LinesFound` | `Resynchronises`: a command is looked for at the start of every line | - |
| `LexerProofs!LinesUnderstood` | `LineByLine`: a line is taken for the command its fields say | - |
| `ReplyBytesProofs!EveryByteTold` | `BytesVerbatim`: the client has the origin's bytes, in order, and a reply ends where it ends | `Regular` |
| `ReplyBytesProofs!EmptyListingUntold` | of a listing without lines the client never gets a byte | `Regular` |
| `ReplyBytesProofs!WritesFit` | `OutputFits`: what a call writes fits `writeBuf` | `Regular`, `Short` |
| `ServerProofs!TypeCorrect` | the state of the loop keeps its type | - |
| `ServerProofs!HandlesOwned` | `OwnHandles` | - |
| `ServerProofs!TurnsLive` | `TurnsOfTheLiving` | - |
| `ServerProofs!CountedWhileAccepted` | `CountsSessions` | no step is `RejectClient` |
| `ServerProofs!SessionsCounted` | `CountsSessions` | `AlwaysTaken` |
| `ServerProofs!Released` | `NothingLeaked` | `NoneAbandoned` |
| `ServerProofs!EventsOwned` | `EventsReachTheirOwner` | `NothingInherited` |
| `ServerProofs!OriginAwaited` | `UsedOnceConnected` | `NothingInherited` |
| `ManagementProofs!TypeCorrect` | the state keeps its type | - |
| `ManagementProofs!FreedAfterUse` | `NamesFreedOnce` | - |
| `ManagementProofs!SettingInForce` | `LastSettingWins` | - |
| `ManagementProofs!OriginReached` | `ReachesOrigin` | - |
| `ManagementProofs!PortAnswered` | `AnswersInForce` | - |

The assumptions are the cases in which the property is true of the program; the
next section shows what happens without them.

- `Predictable` is that the client sends neither `UIDL`, which the lexer does not
  know and whose listing is taken for one line, nor `RETR`, behind whose status
  line the next command is sent. `Unfiltered` is that it sends neither `RETR` nor
  `CAPA`, whose reply is changed on purpose.
- `~OriginMayFail`: the origin does not close or reset on its own. It may refuse,
  and everything may be cut anywhere.
- `NoneAbandoned` is `~OriginMayRefuse /\ ~AddressMayFail /\ ~Overlapping`;
  `NothingInherited` adds `~FilterCmd`.
- `AlwaysTaken` is that no address fails at once and that there are descriptors for
  all connections: a connection that is rejected lowers the counter without having
  raised it.
- `Regular` is what RFC 1939 says of an origin. Of a message, every line that begins
  with a dot begins with two, except the end line. A reply begins with `+OK` or
  `-ERR` and ends with its first CRLF; a listing ends with the first `CRLF.CRLF`
  behind that, or is empty: then the end line follows the status line (`EmptyListing`),
  and the client has not sent another command, so that nothing follows. Nothing is
  said of the bytes in between: a CR or a LF may stand alone.
- `Short` is that a reply that is not a message has at most `2 * BufSize + 2` bytes,
  because what `parsePopResponse` writes stays in `writeBuf` until the reply ends.
  Messages may be of any length.

**Lexer.** `Conserved` with `BuffersOK` (the buffer fits its size and the scanner has
not looked behind its end) is inductive whatever the scanner computes. What it
computes is `LinesInv`, with three more parts. `LexerOK`: what the automaton was left
in is what the bytes of the line so far give: `Knows` says, for each phase, what has
been read (a prefix of a word, a word and blanks, the tags around an argument, or a
line no command can be any more, `Hopeless`). `CommandsOK`: each command that was
queued, at the start of a line, is the one the fields of the line say, or the line
is none that a client may send, too long, or not all there. `Resynchronises` itself.
The argument has three steps: one byte keeps `Seen` (`StepSeen`, by phase); a scan
is a recursive function, whose values exist and are what they should be by
induction on the position (`RunIs`, `Scanned`); and at the end of a line what the
automaton knows determines the same command and argument as `Meaning`, the
definition by fields (`Understood`). `Window` and `LineHeard` carry this from the
buffer to the input.

**Bytes.** `BytesVerbatim` relates what has come out to what went in, and between the
two are scanners that are left off anywhere. `BytesInv` says where each of them is.

- `CarriesMail`: `destuffMail` has read the message up to a position, is in the state
  that position of the lines calls for (`Destuffs`), and holds the bytes just in
  front of it; what it has written is the plain text (the message without the dots
  it was stuffed with) up to what it holds. The pipe has the plain text from where
  `stuffMail` has read to where `destuffMail` has written. `stuffMail` is the same the
  other way (`Stuffs`): what it has written is the message up to the position its
  plain text ends at. The message is cut anew by the pipe, so that the two positions
  are independent.
- `CarriesReply`: what the client has, what `writeBuf` has, what `parsePopResponse`
  holds, and what has not been read, are the reply and the bytes behind it
  (`Responding`). Of `CRLF.CRLF` it holds as much as the text read so far ends with
  (`Matches`), which is why a `CR` in the place of the end is not the end, and not
  lost either.

`came`, `edge` and `readReady` move no bytes between these places: `BytesApart` and
`BytesStay` say that an arrival and a report leave `BytesInv` as it is. A listing
without lines is to the scanner the beginning of one with a line that is a dot, of
which it never sees the end (`TakenFor`, `EmptyIs`); from the same invariant it
follows that nothing of it is written, `EmptyListingUntold`.

One byte keeps each of the three; `Scanned` is the induction over a call, on the
position. `OutputFits` follows by counting: what a call of `destuffMail` writes is no
longer than what it held and read, what a call of `stuffMail` writes no longer than
twice that, and a reply never longer than itself.

**Session.** The inductive invariant is `IInv` of `Session`, in three layers.

1. `TypeOK` and `BuffersFit`. `BuffersFit` is part of it because `fillBuffer`
   computes its room by a subtraction: without it the room need not be a natural
   number. The lemmas on the scanners supply that a scanner returns a well-typed `Input`
   whose buffer is not longer than it was.
2. `Alive` and `ClosedTogether`. The lemma `ClosingSegments` says what the
   recursion of `closeClient` does to any set of segments; `Alive` (a block is only
   ever reached on a session that is there) makes `ReleasedForGood` follow: a
   released session is at the end of its pass and is polled no more.
3. `Numbered`, `SentFirst`, `SentInOrder`. Neither `SentInOrder` nor
   `PendingIsHead` is inductive: both depend on where a command that is sent comes
   from. `Numbered` says that queue, parse buffer and socket together hold the
   client's latest commands, each once and in order, starting with `NextId`;
   moving a command between them leaves `NextId` alone and answering the head adds
   one to it. `SentFirst` puts everything that was sent before `NextId`, or at it
   while `pending`.

`LivesAsPromised` takes the first two layers: each block that closes makes one of the
calls `ClosingCalls` lists, with the segments it requires (`ClosesAsListed`), and
each other block leaves `active` alone or adds what `OriginTaken` and `FilterTaken`
add. `Life` has its own copy of the operators of `Segments`; `SameSegments` says
that they agree.

**Conversation.** These theorems rest on how the pieces of one reply lie on the
path from the origin to the client.

- `NoneSkipped` needs that a command leaves the queue with its own answer. `Linked`
  says that while the origin can be sent to, its two segments are open together and
  its socket counts as writable. `ConvInv` says of the head of the queue, while it is
  `pending`, that it is `Unserved`, so that the path holds nothing of an answer, or
  `Served`: the socket and what the origin has not said yet are one reply
  (`OneReply`: a status line and, where the command has one, a listing up to its
  end line), or, by the state of the scanner, what is left of one. While none is
  `pending` the path is empty (`Idle`) and a command that waits is sent in this pass
  (`Awaiting`). A reply that completes is then the head's, and leaves nothing behind.
- `FreedOnce` is the last part of `FreedInv`: what `sendPopRequest` freed was sent; a
  `QUIT` that was sent is the last command of the session and still `pending`, and the
  origin closes for no other reason; a connection that is closed stays so; and a
  released session is not `pending`.
- `RunsAsPipeline` takes both: for each block, `queue` and `pending` move as an action
  of `PopPipeline` lets `line` and `atOrigin` move. That `ImplementsPipeline` is live as
  well stays with TLC (`progress`).
- `EndsAnswered` adds `EndsInv`: what comes from the origin is the head's own; the
  client's half is closed only when there is nothing more to read from it; and the
  commands before the head are answered. A session that ends has either an empty
  queue or the answer to its `QUIT`.

**Replies.** For `NothingInvented`, `Conserved` (of `RepliesProofs`) counts a line in
every place it can be: told, in the pipes of a filter or in the filter, in the
scanner and its buffer, in the socket. A step moves lines between places and may
drop some, so that there are never more than the origin said. `Verbatim` is
`VerbatimInv`: without a filter, the origin's lines among those told, what the
scanner holds, its buffer and the socket are, in this order, what the origin has
said.

**Server.** Four layers, each inductive together with those before it.

1. `PoolInv`: the handles of the passive sockets are never given back, each session
   owns its handles, turns are of the living, a connection that waits has no
   session yet, and every handle in use is known to someone (`AllKnown`). The last
   two are the strengthening: an accepted connection cannot collide with a session
   it already has, and a handle that is free is nobody's.
2. `OpenInv` (under `NoneAbandoned`): a descriptor is open only as long as the
   segments it belongs to. That closing "the last segment of a connection" closes
   its descriptor needs the shapes `SessionLife` permits: a session whose origin is
   not connected has exactly its client's halves.
3. `WatchInv` (under `NothingInherited`): what epoll knows is open, by a handle
   that is still its own.
4. `AnsweredInv`: a flag is set only of a handle in use, and the flag or an
   unreported event of a server's handle means that the origin has answered.
   `UsedOnceConnected` alone is not inductive: it depends on the flag, the flag on
   the event, and the event on who the handle was of.

`CountsSessions` is `CountInv` with the cardinality of `clients`: each accepted
connection adds one to both, each session whose last segment closes takes one from
both, whichever of its segments that is.

**Management.** `Resolutions` has three parts. `LastAlone`: the last resolution, if it
is not `crowded`, is being looked up, or its event waits, or it is over
(`Underway`); no other lookup is under way, and `LastSettingWins`. `Earlier`: the
request has the names of the last resolution, and those before it that were not
crowded are over. `Later`: none is crowded that was not started. A `Resolve` while
another is under way puts both into `crowded`, and one when all are over finds
nothing that could still change the request. `NamesFreedOnce` follows. `SessionsTried`
says that a client that was turned away found no address that accepts but behind one
that refuses late, and that one that is being connected is at an address `Tried`
gives. `PortInv` says that what is pointed to is the port set last unless it is
`overwritten`; `AnswersInForce` alone is not inductive, since the next answer is read
through the pointer.

Every inductive invariant was checked by TLC on the instances of the runs before
it was proved.

**Only model-checked.** The invariants above outside their assumptions, as the runs have them
(`OnlyEndsRepeated`, and `EndsAnswered` with `RETR`, in `progress`); `RepliesInOrder`, which
is only refuted; and all liveness (`EventuallyAnswered`,
`EventuallyReleased`, the live half of `ImplementsPipeline`, `NoLineLeft`, `AllBytes`,
`WaitingAccepted`, `DatagramsRead`, `StopsOrSleeps`, `NamesReleased`), which is out of the
prover's reach. So is induction by the library's theorems, which take an operator
as a parameter. `BuffersProofs` has what is used in their place: `UpTo`, induction
up to a bound over a set, and `Recursion`, that a function defined by recursion up
to a bound exists; with them the scans of the lexer and of the three scanners of replies are proved
about for every input.

## Where the program falls short

The four violation runs above are set up for that. What follows was met on the way
and is kept out of the passing runs by a constant or is more than their properties
say; each can be seen again by changing the named `.cfg`.

| Change | Property that fails | What the code does |
|---|---|---|
| `progress`: `INVARIANT Verbatim` | `Verbatim` | after a message the end line of the origin is still in front of the next reply, and reaches the client a second time (pop3.re:58) |
| `progress`: `OriginMayFail = TRUE` | `EventuallyAnswered` | when the origin closes with commands queued, the client is left waiting (server.c:307) |
| the same | `FreedOnce` | `sendPopRequest` frees the data of a request that stays in the queue, and teardown frees it again |
| `progress`: `Patient = {}` | `EndsAnswered` | a client that has closed its half is released with the status line of `RETR`, before the message has come |
| `pipelining`: `Kinds = {"CAPA"}` | `Verbatim` | an error reply to `CAPA` loses its end and gains a capability |
| `bytes`: `BufSize = 6` | `AllBytes` | a listing longer than the buffer that has arrived is not read to its end: the flag is cleared and epoll reports it no more (server.c:332) |
| `bytes`: `Inputs <- MCEmpty` | `AllBytes` | the listing of an empty mailbox never ends: its end is looked for as `CRLF.CRLF` behind the status line |
| `bytes`: in `MCInputs`, a listing of more than `2 * BufSize + 2` bytes | `OutputFits` | what `parsePopResponse` copies stays in `writeBuf`, whose size does not depend on it, until the reply is complete |
| `sessions`: `OriginMayRefuse = TRUE` | `NothingLeaked`, `EventsReachTheirOwner` | the socket of a connection the origin refused is never closed, and stays in the epoll set under a handle that is reused |
| `sessions`: `AddressMayFail = TRUE` | `NothingLeaked` | a connect that fails at once leaves its socket open |
| the same | `CountsSessions` | when no address is left, a session that was never counted is subtracted; the counter is unsigned and wraps around, or stays one behind |
| `sessions`: `FilterCmd = TRUE` | `EventsReachTheirOwner` | clients' sockets are inherited by filter processes, so epoll knows them after they are closed here |
| `sessions`: `Overlapping = TRUE` | `NothingLeaked` | a second `RETR` while the first message is on its way replaces `filterEvent`; its descriptor and handle are not given back |
| `sessions`: `MaxFds = 6`, and `StaysUp` as an invariant | `StaysUp` | `accept` without a free descriptor ends the server |
| `listening`: `Managed = {1, 2}` | `DatagramsRead` | the `break` after a failed `recvfrom` leaves the second management socket unread |
| `managing`: `INVARIANT PortInUse` | `PortInUse` | a second setting during a resolution overwrites the one request, and the addresses clients get may be of the port set before, or of freed memory |
| `managing`: `INVARIANT PortShownInUse` | `PortShownInUse` | `GET_ORIGIN_PORT` with a newline, as the management client sends it, is 16 bytes long, so receiving it ends the port it asks for at its first byte |
| `managing`: `INVARIANT NextAddressTried` | `NextAddressTried` | a connect that is refused later, as a non-blocking one is, does not move on to the next address |

Others are outside every property: the answer to an invalid command is `sizeof(msg)`
bytes long, so the client gets a NUL behind its CRLF (pop3.c:104); a SIGINT between
the test of `exitProgram` and `epoll_wait` finds the server asleep, which `StopsOrSleeps`
accepts; what the filter of a message has still to write is lost when a second `RETR`
replaces it; `UIDL` and `TOP` are taken for
commands with one line of answer; a filter that writes nothing, or whose output does
not end in CRLF, leaves its message without an end line; `SET_ORIGIN_ADDR` is
described and the lexer does not know it; `GET_MGMT_PORT` is known only with a blank
behind it; the requests of `processCmd`'s default case are answered with an empty
datagram.

## Not modelled

`PROJECT.json` gives the reason with each component. The command line, the logger
and the management client are sequential or pure output. The pool and queue
collections are in a submodule that is not part of the repository and are modelled
by how they are used. `set_filter`'s system calls, and a child that returns into the
loop because its exec failed, are failures of a process that no module of one
process reaches. The counter of bytes is written and printed and nothing depends on it.
The generated tables of `parsers/pop3.c` and `parsers/management.c` are modelled by
the states the scanner can be left in, and `management.c`'s, which never resumes a
scan, by its result.

## What is left

The modules that were planned exist, and every safety property of a passing run is
a theorem under the assumptions above but `OnlyEndsRepeated`. Worth doing next: that one
for a client that waits, which takes the conversation of `ConversationProofs` through the
filter; the scanners of `Scanners` shown to do for lines what those of `ReplyBytes` do
for bytes; and a `Server` instance with three sessions, which needs symmetry and more
time than the runs have.
