----------------------------- MODULE Management -----------------------------
(***************************************************************************)
(* The management service (management/management.c, parsers/management.re, *)
(* functions.c) and what it does to the origin's address while clients     *)
(* connect.                                                                *)
(*                                                                         *)
(* One static buffer receives every datagram.  SET_ORIGIN_PORT keeps a     *)
(* pointer to its argument in that buffer as the port that is configured.  *)
(***************************************************************************)
EXTENDS Origin

CONSTANTS
  Datagram,      \* what administrators send
  DataLength,    \* length of an argument that is not empty
  MaxDatagrams   \* bound: datagrams sent

(* The words lexRequest knows, with their lengths, and two it does not.    *)
WordLength ==
  [stats |-> 5, SET_ERROR_FILE |-> 14, GET_ERROR_FILE |-> 14, SET_PROXY_ADDR |-> 14,
   GET_PROXY_ADDR |-> 14, SET_LISTEN_PORT |-> 15, GET_LISTEN_PORT |-> 15,
   SET_ORIGIN_PORT |-> 15, GET_ORIGIN_PORT |-> 15, SET_FILTER |-> 10, SET_MGMT_ADDR |-> 13,
   GET_MGMT_ADDR |-> 13, SET_MGMT_PORT |-> 13, GET_MGMT_PORT |-> 13,
   SET_ORIGIN_ADDR |-> 15, SET_DNS_TIMER |-> 13]
Unknown   == {"SET_ORIGIN_ADDR", "SET_DNS_TIMER"}
TakesData == {"SET_ERROR_FILE", "SET_PROXY_ADDR", "SET_LISTEN_PORT", "SET_ORIGIN_PORT",
              "SET_FILTER", "SET_MGMT_ADDR", "SET_MGMT_PORT"}

(* A datagram: a word; the argument, which a blank precedes, or "absent"   *)
(* with that blank; and how the line ends: the datagram does, a newline    *)
(* does, or something else follows the word.                               *)
Shape == [word : DOMAIN WordLength, data : Port \union {"", "absent"},
          after : {"end", "newline", "other"}]

ASSUME ManagementAssumption ==
  /\ Datagram \subseteq Shape
  /\ \A d \in Datagram : d.word \in TakesData => d.after # "other"
  /\ Port \intersect {"", "absent", "other"} = {}
  /\ DataLength \in Nat \ {0} /\ MaxDatagrams \in Nat

VARIABLES
  at,          \* where the loop is
  queue,       \* datagrams that wait in the management socket
  sent,        \* how many have been sent
  originPort,  \* what args->originPort points to: the command line, or the buffer
  buffer,      \* the text in udpBuffer where an argument of SET_ORIGIN_PORT starts
  answer,      \* the last answer: the request it is for, and the text it shows
  overwritten  \* history: a request was received over the argument that is kept

vars == << originVars, at, queue, sent, originPort, buffer, answer, overwritten >>

TypeOK ==
  /\ OriginTypeOK
  /\ at \in {"poll", "accept", "receive"}
  /\ queue \in Seq(Datagram) /\ sent \in 0 .. MaxDatagrams
  /\ originPort \in {"argv", "buffer"}
  /\ buffer \in Port \union {"", "other"}
  /\ answer \in [status : DOMAIN WordLength \union {"none", "ERROR"},
                 text : Port \union {"", "other", "fixed"}]
  /\ overwritten \in BOOLEAN

Init ==
  /\ OriginInit
  /\ at = "poll" /\ queue = << >> /\ sent = 0
  /\ originPort = "argv" /\ buffer = ""
  /\ answer = [status |-> "none", text |-> ""] /\ overwritten = FALSE

-----------------------------------------------------------------------------
(* lexRequest.  GET_MGMT_PORT is known with a blank behind it only.        *)
HasBlank(d) == d.data # "absent"
lexRequest(d) ==
  IF \/ d.word \in Unknown
     \/ HasBlank(d) # (d.word \in TakesData \union {"GET_MGMT_PORT"})
     \/ (d.word = "GET_MGMT_PORT" /\ d.data # "")
     \/ (d.word \notin TakesData /\ d.after = "other")
  THEN "ERROR" ELSE d.word

Length(d) ==
  WordLength[d.word] + (IF HasBlank(d) THEN 1 ELSE 0)
    + (IF d.data \in Port THEN DataLength ELSE 0) + (IF d.after = "end" THEN 0 ELSE 1)

(* What the buffer holds behind "SET_ORIGIN_PORT ", sixteen bytes, once d  *)
(* is received and terminated: what it held if d is shorter.  An argument  *)
(* is terminated where it ends.                                            *)
ArgStart(d) == WordLength[d.word] + 1
ArgEnd(d)   == ArgStart(d) + (IF d.data \in Port THEN DataLength ELSE 0)

ReceivedLine(d) == d.word     \* Mutant: the pointer is to the whole request
Received(d) ==
  IF Length(d) < 16 THEN buffer
  ELSE IF Length(d) = 16 \/ (ArgEnd(d) = 16 /\ lexRequest(d) \in TakesData) THEN ""
  ELSE IF ArgStart(d) = 16 /\ (d.after = "end" \/ lexRequest(d) \in TakesData) THEN d.data
  ELSE "other"

(* The text args->originPort points to.                                    *)
PortShown(kept) == IF originPort = "argv" THEN Default ELSE kept

(* processCmd and its answer.  The requests of the default case are        *)
(* answered with nothing, the others with what does not change.            *)
Replied(status, kept) ==
  IF status = "GET_ORIGIN_PORT" THEN PortShown(kept)
  ELSE IF status \in (TakesData \ {"SET_ORIGIN_PORT"}) \union {"GET_MGMT_PORT"} THEN ""
  ELSE "fixed"

Sets(d) == lexRequest(d) = "SET_ORIGIN_PORT"
Overwrites(d) ==
  overwritten' = IF Sets(d) THEN FALSE
                 ELSE originPort = "buffer" /\ (overwritten \/ Length(d) >= 16)

ProcessAnswered(d) ==     \* Mutant: the port is not kept, the answer is the same
  /\ buffer' = Received(d) /\ Overwrites(d)
  /\ answer' = [status |-> lexRequest(d), text |-> Replied(lexRequest(d), Received(d))]
  /\ IF Sets(d) THEN Resolve(Received(d)) ELSE UNCHANGED originVars
  /\ UNCHANGED originPort
processCmd(d) ==
  /\ buffer' = Received(d) /\ Overwrites(d)
  /\ answer' = [status |-> lexRequest(d), text |-> Replied(lexRequest(d), Received(d))]
  /\ IF Sets(d)
     THEN originPort' = "buffer" /\ Resolve(Received(d))
     ELSE UNCHANGED << originPort, originVars >>

-----------------------------------------------------------------------------
(* One iteration of the loop: the signal, a connection, a datagram.        *)
Poll ==
  /\ at = "poll" /\ at' = "accept"
  /\ edge \/ queue # << >> \/ \E c \in Conn : session[c].state = "waiting"
  /\ IF edge THEN signalfd_read ELSE UNCHANGED originVars
  /\ UNCHANGED << queue, sent, originPort, buffer, answer, overwritten >>

Accept ==
  /\ at = "accept" /\ at' = "receive"
  /\ IF \E c \in Conn : session[c].state = "waiting"
     THEN \E c \in Conn : connectHost(c)
     ELSE UNCHANGED originVars
  /\ UNCHANGED << queue, sent, originPort, buffer, answer, overwritten >>

Receive ==
  /\ at = "receive" /\ at' = "poll"
  /\ IF queue # << >>
     THEN processCmd(Head(queue)) /\ queue' = Tail(queue)
     ELSE UNCHANGED << originVars, queue, originPort, buffer, answer, overwritten >>
  /\ UNCHANGED sent

Loop == Poll \/ Accept \/ Receive

(* The threads of getaddrinfo_a.                                           *)
Lookups(r) ==
  /\ LookupBegins(r) \/ LookupEnds(r)
  /\ UNCHANGED << at, queue, sent, originPort, buffer, answer, overwritten >>

(* Clients, and the origin.                                                *)
Clients ==
  /\ \E c \in Conn : Connects(c) \/ OriginAnswers(c)
  /\ UNCHANGED << at, queue, sent, originPort, buffer, answer, overwritten >>

(* Administrators, who wait for nothing.                                   *)
Sends ==
  /\ sent < MaxDatagrams /\ sent' = sent + 1
  /\ \E d \in Datagram :
       /\ Sets(d) => asked + Len(SelectSeq(queue, Sets)) < MaxSettings
       /\ queue' = Append(queue, d)
  /\ UNCHANGED << originVars, at, originPort, buffer, answer, overwritten >>

Next == Loop \/ (\E r \in Request : Lookups(r)) \/ Clients \/ Sends

(* The thread of the loop runs, and lookups end.                           *)
Spec == Init /\ [][Next]_vars /\ WF_vars(Loop) /\ \A r \in Request : WF_vars(Lookups(r))

-----------------------------------------------------------------------------
(* Properties.  A port set while the last setting is still being resolved  *)
(* shares the one global request with it, and both are "crowded".          *)

(* The names of a resolution are freed once, and not before the lookup     *)
(* that reads them has ended (signalfd_read frees what host has by then),  *)
(* whatever happened to the resolutions that were crowded before it.       *)
NamesFreedOnce ==
  \A r \in Request \ crowded :
    /\ names[r] # "twice"
    /\ lookup[r] = "running" => reads[r] = r /\ names[r] = "held"

(* And they are freed: a signal is read for the lookup when it ends.       *)
NamesReleased ==
  \A r \in Request : names[r] = "held" ~> names[r] = "freed" \/ r \in crowded

(* The addresses clients are connected with are those of the port set      *)
(* last; while it is looked up there are none.  A setting made when the    *)
(* others are over is in force whatever they left in the request.          *)
LastSettingWins == asked \notin crowded /\ host.list # << >> => host.port = port[asked]

(* GET_ORIGIN_PORT shows the port of the last setting, which is the one    *)
(* that is in use, until a request of sixteen bytes or more is received    *)
(* over the argument that is kept (processCmd, mgmtOptions.txt).           *)
AnswersInForce ==
  answer.status = "GET_ORIGIN_PORT" /\ ~overwritten => answer.text = port[asked]

(* A client is turned away from an origin that has an address which would  *)
(* have done only if another in front of it refused, after connectHost had *)
(* returned (the loop of connectHost over the list).                       *)
TurnedAway(s) == s.state \in {"rejected", "refused"}
ReachesOrigin ==
  \A c \in Conn : TurnedAway(session[c]) =>
    \A i \in 1 .. Len(session[c].list) : session[c].list[i] = "accepts" =>
      \E j \in 1 .. i - 1 : session[c].list[j] = "refuses"

(* What the documents promise, which the code does not keep.               *)

(* The port set last is the one in use (mgmtOptions.txt, SET_ORIGIN_PORT). *)
PortInUse == host.list # << >> => host.port = port[asked]

(* GET_ORIGIN_PORT shows the port of the origin (mgmtOptions.txt).         *)
PortShownInUse == answer.status = "GET_ORIGIN_PORT" => answer.text = port[asked]

(* An origin with several addresses is tried at the others when one does   *)
(* not answer (20212-r0.txt, section 2).                                   *)
NextAddressTried ==
  \A c \in Conn : TurnedAway(session[c]) =>
    \A i \in 1 .. Len(session[c].list) : session[c].list[i] # "accepts"
=============================================================================
