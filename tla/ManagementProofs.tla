-------------------------- MODULE ManagementProofs --------------------------
(***************************************************************************)
(* Theorems about the management service and the origin's address, for     *)
(* every value of the constants: any ports, any lists of addresses, any    *)
(* number of clients, settings and datagrams.                              *)
(***************************************************************************)
EXTENDS Management, SequenceTheorems, WellFoundedInduction, TLAPS

(* A signal is queued whenever the signalfd has an event: TypeOK alone     *)
(* does not keep the count of signals a number.                            *)
TypeInv == TypeOK /\ (edge => signals > 0)

-----------------------------------------------------------------------------
(* Datagrams.                                                              *)

LEMMA DatagramType ==
  ASSUME NEW d \in Datagram
  PROVE  /\ d.word \in DOMAIN WordLength /\ d.data \in Port \union {"", "absent"}
         /\ d.after \in {"end", "newline", "other"}
BY ManagementAssumption DEF Shape

LEMMA Words ==
  ASSUME NEW w \in DOMAIN WordLength
  PROVE  /\ WordLength[w] \in Nat
         /\ w = "SET_ORIGIN_PORT" => WordLength[w] = 15
BY DEF WordLength

LEMMA SixteenBytes ==
  /\ 15 + 1 = 16
  /\ \A w \in Nat : w + 1 = 16 => w + 0 + 0 + 0 < 16
  /\ \A a, b \in Nat : ~(15 + 1 + a + b < 16)
OBVIOUS

(* What is behind "SET_ORIGIN_PORT " in the buffer is a port, nothing, or  *)
(* text nobody asked for; behind a request to set the port it is what the  *)
(* request says.                                                           *)
LEMMA ReceivedType ==
  ASSUME NEW d \in Datagram, buffer \in Port \union {"", "other"}
  PROVE  /\ Received(d) \in Port \union {"", "other"}
         /\ lexRequest(d) \in DOMAIN WordLength \union {"ERROR"}
         /\ Sets(d) => Received(d) \in Setting
<1>1. /\ d.word \in DOMAIN WordLength /\ d.data \in Port \union {"", "absent"}
      /\ d.after \in {"end", "newline", "other"}
  BY DatagramType
<1>2. WordLength[d.word] \in Nat /\ (d.word = "SET_ORIGIN_PORT" => WordLength[d.word] = 15)
  BY <1>1, Words
<1>3. lexRequest(d) = d.word \/ lexRequest(d) = "ERROR"
  BY DEF lexRequest
<1>4. lexRequest(d) \in TakesData => HasBlank(d)
  BY <1>3 DEF lexRequest, TakesData
<1>5. DataLength \in Nat \ {0}
  BY ManagementAssumption
<1>6. ASSUME ~HasBlank(d), ArgStart(d) = 16, d.after = "end"
      PROVE  Length(d) < 16
  <2>1. d.data = "absent" /\ d.data \notin Port
    BY <1>6, ManagementAssumption DEF HasBlank
  <2>2. Length(d) = WordLength[d.word] + 0 + 0 + 0
    BY <1>6, <2>1 DEF Length
  <2>3. WordLength[d.word] + 1 = 16
    BY <1>6 DEF ArgStart
  <2> QED
    BY <1>2, <2>2, <2>3, SixteenBytes, Zenon
<1>7. Received(d) \in Port \union {"", "other"}
  BY <1>1, <1>4, <1>6 DEF Received, HasBlank
<1>8. ASSUME Sets(d)
      PROVE  Received(d) \in Setting
  <2>1. /\ lexRequest(d) = "SET_ORIGIN_PORT" /\ d.word = "SET_ORIGIN_PORT"
        /\ "SET_ORIGIN_PORT" \in TakesData /\ HasBlank(d)
    BY <1>3, <1>4, <1>8 DEF Sets, TakesData
  <2>2. ArgStart(d) = 16 /\ ~(Length(d) < 16)
    <3>1. WordLength[d.word] = 15
      BY <1>2, <2>1
    <3>2. PICK a, b \in Nat : Length(d) = WordLength[d.word] + 1 + a + b
      BY <1>5, <2>1 DEF Length
    <3> QED
      <4>1. Length(d) = 15 + 1 + a + b /\ ArgStart(d) = 15 + 1
        BY <3>1, <3>2, Zenon DEF ArgStart
      <4> QED
        BY <4>1, SixteenBytes, Zenon
  <2>3. Received(d) = "" \/ Received(d) = d.data
    BY <2>1, <2>2 DEF Received
  <2> QED
    BY <1>1, <2>1, <2>3 DEF HasBlank, Setting
<1> QED
  BY <1>1, <1>3, <1>7, <1>8

LEMMA ShownType ==
  ASSUME NEW status, NEW kept \in Port \union {"", "other"}
  PROVE  Replied(status, kept) \in Port \union {"", "other", "fixed"}
BY OriginAssumption DEF Replied, PortShown

-----------------------------------------------------------------------------
(* Types.                                                                  *)

LEMMA RequestType ==
  ASSUME TypeOK
  PROVE  /\ MaxSettings \in Nat /\ asked \in Request /\ asked \in Nat
         /\ asked < MaxSettings => asked + 1 \in Request
         /\ host.names \in Request /\ host.list \in Seq(Address) /\ host.port \in Name
<1>1. MaxSettings \in Nat
  BY OriginAssumption
<1>2. asked \in 0 .. MaxSettings /\ asked \in Request
  BY Zenon DEF TypeOK, OriginTypeOK, Request
<1>3. asked \in Nat /\ (asked < MaxSettings => asked + 1 \in 0 .. MaxSettings)
  BY <1>1, <1>2
<1>4. asked < MaxSettings => asked + 1 \in Request
  BY <1>3, Zenon DEF Request
<1>5. host \in [names : Request, list : Seq(Address), port : Name]
  BY Zenon DEF TypeOK, OriginTypeOK
<1> QED
  BY <1>1, <1>2, <1>3, <1>4, <1>5

LEMMA ResolveType ==
  ASSUME TypeInv, NEW p \in Setting, Resolve(p)
  PROVE  OriginTypeOK' /\ (edge => signals > 0)'
<1>1. /\ asked + 1 \in Request /\ asked' = asked + 1
      /\ << >> \in Seq(Address) /\ p \in Name /\ asked \in Request
  BY RequestType, EmptySeq DEF TypeInv, Resolve, Name
<1>2. /\ host' = [names |-> asked + 1, list |-> << >>, port |-> p]
      /\ port' = [port EXCEPT ![asked + 1] = p]
      /\ names' = [names EXCEPT ![asked + 1] = "held"]
      /\ lookup' = [lookup EXCEPT ![asked + 1] = "queued"]
      /\ UNCHANGED << reads, signals, edge, session >>
  BY DEF Resolve
<1>3. crowded' \subseteq Request
  BY <1>1 DEF Resolve, Crowds, TypeInv, TypeOK, OriginTypeOK
<1> QED
  BY <1>1, <1>2, <1>3 DEF TypeInv, TypeOK, OriginTypeOK

LEMMA signalfd_readType ==
  ASSUME TypeInv, signalfd_read
  PROVE  OriginTypeOK' /\ (edge => signals > 0)'
<1>1. signals \in Nat /\ signals > 0 /\ signals' = signals - 1 /\ edge' = FALSE
  BY DEF TypeInv, TypeOK, OriginTypeOK, signalfd_read
<1>2. signals' \in Nat
  BY <1>1
<1>3. names' = [names EXCEPT ![host.names] = IF @ = "held" THEN "freed" ELSE "twice"]
  BY DEF signalfd_read
<1>4. names' \in [Request -> {"none", "held", "freed", "twice"}]
  BY <1>3 DEF TypeInv, TypeOK, OriginTypeOK
<1> QED
  BY <1>1, <1>2, <1>4 DEF TypeInv, TypeOK, OriginTypeOK, signalfd_read

LEMMA connectHostType ==
  ASSUME TypeInv, NEW c \in Conn, connectHost(c)
  PROVE  OriginTypeOK' /\ (edge => signals > 0)'
<1> DEFINE Session == [state : {"none", "waiting", "rejected", "connecting", "up", "refused"},
                       list : Seq(Address), at : Nat, port : Name]
<1>1. host.list \in Seq(Address) /\ host.port \in Name /\ session \in [Conn -> Session]
  BY RequestType DEF TypeInv, TypeOK, OriginTypeOK
<1>2. Tried(host.list) \subseteq Nat
  BY DEF Tried
<1>3. Tried(host.list) # {} => (CHOOSE i \in Tried(host.list) : TRUE) \in Nat
  BY <1>2
<1> DEFINE new == IF Tried(host.list) = {}
                  THEN [state |-> "rejected", list |-> host.list, at |-> 0, port |-> host.port]
                  ELSE [state |-> "connecting", list |-> host.list,
                        at |-> CHOOSE i \in Tried(host.list) : TRUE, port |-> host.port]
<1>4. new \in Session
  BY <1>1, <1>3
<1>5. session' = [session EXCEPT ![c] = new]
  BY DEF connectHost
<1> HIDE DEF new
<1>6. session' \in [Conn -> Session]
  BY <1>1, <1>4, <1>5
<1> QED
  BY <1>6 DEF TypeInv, TypeOK, OriginTypeOK, connectHost

LEMMA LookupsType ==
  ASSUME TypeInv, NEW r \in Request, LookupBegins(r) \/ LookupEnds(r)
  PROVE  OriginTypeOK' /\ (edge => signals > 0)'
<1>1. CASE LookupBegins(r)
  <2>1. host.names \in Request
    BY RequestType DEF TypeInv
  <2> QED
    BY <1>1, <2>1 DEF TypeInv, TypeOK, OriginTypeOK, LookupBegins
<1>2. CASE LookupEnds(r)
  <2>1. PICK list \in Lists, p \in NamesRead(r) :
          host' = IF list = << >> THEN host ELSE [host EXCEPT !.list = list, !.port = p]
    BY <1>2 DEF LookupEnds
  <2>2. reads[r] \in Request
    BY DEF TypeInv, TypeOK, OriginTypeOK
  <2>3. port[reads[r]] \in Setting
    BY <2>2 DEF TypeInv, TypeOK, OriginTypeOK
  <2>4. p \in Name
    BY <2>3 DEF NamesRead, Name
  <2>5. list \in Seq(Address)
    BY OriginAssumption
  <2>6. host' \in [names : Request, list : Seq(Address), port : Name]
    BY <2>1, <2>4, <2>5 DEF TypeInv, TypeOK, OriginTypeOK
  <2>7. lookup' \in [Request -> {"none", "queued", "running", "done"}]
    BY <1>2 DEF TypeInv, TypeOK, OriginTypeOK, LookupEnds
  <2>8. signals' \in Nat /\ signals' > 0
    <3>1. signals \in Nat /\ signals' = signals + 1
      BY <1>2, Zenon DEF TypeInv, TypeOK, OriginTypeOK, LookupEnds
    <3> QED
      BY <3>1
  <2> QED
    BY <1>2, <2>6, <2>7, <2>8 DEF TypeInv, TypeOK, OriginTypeOK, LookupEnds
<1> QED
  BY <1>1, <1>2

LEMMA ClientsType ==
  ASSUME TypeInv, NEW c \in Conn, Connects(c) \/ OriginAnswers(c)
  PROVE  OriginTypeOK' /\ (edge => signals > 0)'
<1> DEFINE Session == [state : {"none", "waiting", "rejected", "connecting", "up", "refused"},
                       list : Seq(Address), at : Nat, port : Name]
<1>1. session \in [Conn -> Session]
  BY DEF TypeInv, TypeOK, OriginTypeOK
<1>2. PICK s \in {"waiting", "up", "refused"} : session' = [session EXCEPT ![c].state = s]
  BY DEF Connects, OriginAnswers
<1>3. session' \in [Conn -> Session]
  BY <1>1, <1>2
<1>4. UNCHANGED << host, asked, port, names, lookup, reads, signals, edge, crowded >>
  BY DEF Connects, OriginAnswers
<1>5. OriginTypeOK /\ (edge => signals > 0)
  BY DEF TypeInv, TypeOK
<1> QED
  BY <1>3, <1>4, <1>5 DEF OriginTypeOK

LEMMA ReceiveType ==
  ASSUME TypeInv, Receive
  PROVE  TypeInv'
<1>1. CASE queue = << >>
  BY <1>1 DEF Receive, TypeInv, TypeOK, OriginTypeOK, originVars
<1>2. CASE queue # << >>
  <2> DEFINE d == Head(queue)
  <2>1. d \in Datagram /\ queue' \in Seq(Datagram)
    <3>1. queue \in Seq(Datagram) /\ queue' = Tail(queue)
      BY <1>2, Zenon DEF TypeInv, TypeOK, Receive
    <3> QED
      BY <1>2, <3>1, HeadTailProperties
  <2>2. processCmd(d) /\ at' = "poll" /\ sent' = sent
    BY <1>2 DEF Receive
  <2> HIDE DEF d
  <2>3. buffer \in Port \union {"", "other"}
    BY DEF TypeInv, TypeOK
  <2>4. /\ Received(d) \in Port \union {"", "other"}
        /\ lexRequest(d) \in DOMAIN WordLength \union {"ERROR"}
        /\ Sets(d) => Received(d) \in Setting
    BY <2>1, <2>3, ReceivedType
  <2>5. Replied(lexRequest(d), Received(d)) \in Port \union {"", "other", "fixed"}
    BY <2>4, ShownType
  <2>6. /\ answer' \in [status : DOMAIN WordLength \union {"none", "ERROR"},
                        text : Port \union {"", "other", "fixed"}]
        /\ buffer' \in Port \union {"", "other"}
        /\ originPort' \in {"argv", "buffer"}
    BY <2>2, <2>4, <2>5, Zenon DEF processCmd, TypeInv, TypeOK
  <2>8. overwritten' \in BOOLEAN
    BY <2>2, Zenon DEF processCmd, Overwrites, TypeInv, TypeOK
  <2>7. OriginTypeOK' /\ (edge => signals > 0)'
    <3>1. CASE Sets(d)
      BY <2>2, <2>4, <3>1, ResolveType DEF processCmd, Sets
    <3>2. CASE ~Sets(d)
      BY <2>2, <3>2 DEF processCmd, Sets, TypeInv, TypeOK, OriginTypeOK, originVars
    <3> QED
      BY <3>1, <3>2
  <2> QED
    BY <2>1, <2>2, <2>6, <2>7, <2>8 DEF TypeInv, TypeOK
<1> QED
  BY <1>1, <1>2

LEMMA InitTypes == Init => TypeInv
<1> SUFFICES ASSUME Init PROVE TypeInv
  OBVIOUS
<1>1. 0 \in Request /\ Default \in Setting /\ Default \in Name
  <2>1. 0 \in 0 .. MaxSettings /\ Default \in Port
    BY OriginAssumption
  <2> QED
    BY <2>1, Zenon DEF Request, Setting, Name
<1>2. host \in [names : Request, list : Seq(Address), port : Name]
  <2>1. PICK list \in Lists : host = [names |-> 0, list |-> list, port |-> Default]
    BY DEF Init, OriginInit
  <2>2. list \in Seq(Address)
    BY OriginAssumption
  <2> QED
    BY <1>1, <2>1, <2>2
<1>3. << >> \in Seq(Address) /\ << >> \in Seq(Datagram)
  BY EmptySeq
<1>4. sent \in 0 .. MaxDatagrams /\ signals \in Nat /\ asked \in Request
  <2>1. MaxDatagrams \in Nat
    BY ManagementAssumption
  <2>2. 0 \in 0 .. MaxDatagrams /\ 0 \in Nat
    BY <2>1
  <2> QED
    BY <1>1, <2>2, Zenon DEF Init, OriginInit
<1>5. /\ port \in [Request -> Setting] /\ reads \in [Request -> Request]
      /\ names \in [Request -> {"none", "held", "freed", "twice"}]
      /\ lookup \in [Request -> {"none", "queued", "running", "done"}]
  BY <1>1 DEF Init, OriginInit
<1>6. session \in [Conn -> [state : {"none", "waiting", "rejected", "connecting", "up", "refused"},
                            list : Seq(Address), at : Nat, port : Name]]
  BY <1>1, <1>3 DEF Init, OriginInit
<1> QED
  BY <1>2, <1>3, <1>4, <1>5, <1>6 DEF Init, OriginInit, TypeInv, TypeOK, OriginTypeOK

LEMMA TypeStep ==
  ASSUME TypeInv, [Next]_vars
  PROVE  TypeInv'
<1>1. CASE UNCHANGED vars
  BY <1>1 DEF TypeInv, TypeOK, OriginTypeOK, vars, originVars
<1>2. CASE Poll
  <2>1. OriginTypeOK' /\ (edge => signals > 0)'
    BY <1>2, signalfd_readType DEF Poll, TypeInv, TypeOK, OriginTypeOK, originVars
  <2> QED
    BY <1>2, <2>1 DEF Poll, TypeInv, TypeOK
<1>3. CASE Accept
  <2>1. OriginTypeOK' /\ (edge => signals > 0)'
    BY <1>3, connectHostType DEF Accept, TypeInv, TypeOK, OriginTypeOK, originVars
  <2> QED
    BY <1>3, <2>1 DEF Accept, TypeInv, TypeOK
<1>4. CASE Receive
  BY <1>4, ReceiveType
<1>5. ASSUME NEW r \in Request, Lookups(r)
      PROVE  TypeInv'
  <2>1. OriginTypeOK' /\ (edge => signals > 0)'
    BY <1>5, LookupsType DEF Lookups
  <2> QED
    BY <1>5, <2>1 DEF Lookups, TypeInv, TypeOK
<1>6. CASE Clients
  <2>1. OriginTypeOK' /\ (edge => signals > 0)'
    BY <1>6, ClientsType DEF Clients
  <2> QED
    BY <1>6, <2>1 DEF Clients, TypeInv, TypeOK
<1>7. CASE Sends
  <2>1. sent' \in 0 .. MaxDatagrams
    <3>1. sent \in 0 .. MaxDatagrams /\ sent < MaxDatagrams /\ sent' = sent + 1
      BY <1>7, Zenon DEF Sends, TypeInv, TypeOK
    <3>2. MaxDatagrams \in Nat
      BY ManagementAssumption
    <3> QED
      BY <3>1, <3>2
  <2>2. queue' \in Seq(Datagram)
    <3>1. PICK d \in Datagram : queue' = Append(queue, d)
      BY <1>7, Zenon DEF Sends
    <3>2. queue \in Seq(Datagram)
      BY DEF TypeInv, TypeOK
    <3> QED
      BY <3>1, <3>2, AppendProperties
  <2> QED
    BY <1>7, <2>1, <2>2 DEF Sends, TypeInv, TypeOK, OriginTypeOK, originVars
<1> QED
  BY <1>1, <1>2, <1>3, <1>4, <1>5, <1>6, <1>7 DEF Next, Loop

(* The state of the management service and of the origin's address keeps   *)
(* its type; among others, the loop never reads a signal that is not       *)
(* there, which would block it (signalfd_read on a blocking descriptor).   *)
THEOREM TypeCorrect == Spec => []TypeOK
<1>1. Init => TypeInv
  BY InitTypes
<1>2. TypeInv /\ [Next]_vars => TypeInv'
  BY TypeStep
<1>3. TypeInv => TypeOK
  BY DEF TypeInv
<1> QED
  BY <1>1, <1>2, <1>3, PTL DEF Spec

-----------------------------------------------------------------------------
(* Resolutions.                                                            *)

(* The last resolution, if none was crowded with it, is being looked up,   *)
(* or its event waits, or it is over.                                      *)
Underway ==
  \/ lookup[asked] \in {"queued", "running"} /\ names[asked] = "held" /\ ~edge
  \/ lookup[asked] = "done" /\ names[asked] = "held" /\ edge
  \/ lookup[asked] = "done" /\ names[asked] = "freed" /\ ~edge

LastAlone ==
  asked \notin crowded =>
    /\ Underway /\ (lookup[asked] = "running" => reads[asked] = asked)
    /\ \A q \in Request \ {asked} : lookup[q] \in {"none", "done"}
    /\ LastSettingWins

(* Of the earlier ones those that were not crowded are over; the request   *)
(* has the names of the last one.                                          *)
Earlier ==
  /\ host.names = asked
  /\ \A q \in Request \ (crowded \union {asked}) :
       names[q] \in {"none", "freed"} /\ lookup[q] \in {"none", "done"}

(* Nothing is known of resolutions that were not started.                  *)
Later == \A q \in crowded : q <= asked

Resolutions == LastAlone /\ Earlier /\ Later

LEMMA ResolveKept ==
  ASSUME TypeInv, Resolutions, NEW p \in Setting, Resolve(p)
  PROVE  Resolutions'
<1>1. /\ asked \in Request /\ asked + 1 \in Request /\ asked' = asked + 1 /\ asked + 1 # asked
      /\ asked \in Nat
  BY RequestType DEF TypeInv, Resolve
<1>2. /\ host' = [names |-> asked + 1, list |-> << >>, port |-> p]
      /\ names' = [names EXCEPT ![asked + 1] = "held"]
      /\ lookup' = [lookup EXCEPT ![asked + 1] = "queued"]
      /\ crowded' = IF Quiet THEN crowded ELSE crowded \union {asked, asked + 1}
      /\ UNCHANGED << reads, signals, edge >>
  BY DEF Resolve, Crowds
<1>3. /\ names \in [Request -> {"none", "held", "freed", "twice"}]
      /\ lookup \in [Request -> {"none", "queued", "running", "done"}]
      /\ crowded \subseteq Request
  BY DEF TypeInv, TypeOK, OriginTypeOK
<1>4. /\ lookup'[asked'] = "queued" /\ names'[asked'] = "held"
      /\ host'.names = asked' /\ host'.list = << >>
      /\ \A q \in Request \ {asked'} : names'[q] = names[q] /\ lookup'[q] = lookup[q]
  BY <1>1, <1>2, <1>3
<1>5. Later'
  <2>1. \A q \in crowded : q \in Nat /\ q <= asked
    BY <1>3, OriginAssumption DEF Request, Resolutions, Later
  <2>2. \A q \in crowded' : q \in crowded \/ q = asked \/ q = asked + 1
    BY <1>2
  <2> QED
    BY <1>1, <2>1, <2>2 DEF Later
<1>6. CASE Quiet
  <2>1. crowded' = crowded /\ ~edge' /\ \A q \in Request : lookup[q] \in {"none", "done"}
    BY <1>2, <1>6 DEF Quiet
  <2>2. LastAlone'
    BY <1>4, <2>1 DEF LastAlone, Underway, LastSettingWins
  <2>3. asked \notin crowded => names[asked] = "freed"
    BY <1>1, <1>6, <2>1 DEF Quiet, Resolutions, LastAlone, Underway
  <2>4. Earlier'
    BY <1>4, <2>1, <2>3 DEF Resolutions, Earlier
  <2> QED
    BY <1>5, <2>2, <2>4 DEF Resolutions
<1>7. CASE ~Quiet
  <2>1. crowded' = crowded \union {asked, asked'}
    BY <1>1, <1>2, <1>7
  <2>2. LastAlone'
    BY <2>1 DEF LastAlone
  <2>3. Earlier'
    BY <1>4, <2>1 DEF Resolutions, Earlier
  <2> QED
    BY <1>5, <2>2, <2>3 DEF Resolutions
<1> QED
  BY <1>6, <1>7

LEMMA PollKept ==
  ASSUME TypeInv, Resolutions, Poll
  PROVE  Resolutions'
<1>1. CASE ~edge
  BY <1>1 DEF Poll, Resolutions, LastAlone, Earlier, Later, Underway, LastSettingWins, originVars
<1>2. CASE edge
  <2>1. signalfd_read
    BY <1>2 DEF Poll
  <2>2. host.names = asked
    BY DEF Resolutions, Earlier
  <2>3. /\ names' = [names EXCEPT ![asked] = IF @ = "held" THEN "freed" ELSE "twice"]
        /\ edge' = FALSE /\ UNCHANGED << host, asked, port, lookup, reads, crowded >>
    BY <2>1, <2>2 DEF signalfd_read
  <2>4. asked \in Request /\ names \in [Request -> {"none", "held", "freed", "twice"}]
    BY DEF TypeInv, TypeOK, OriginTypeOK
  <2>5. /\ names[asked] = "held" => names'[asked] = "freed"
        /\ \A q \in Request \ {asked} : names'[q] = names[q]
    BY <2>3, <2>4
  <2>6. LastAlone'
    BY <1>2, <2>3, <2>5 DEF Resolutions, LastAlone, Underway, LastSettingWins
  <2> QED
    BY <2>3, <2>5, <2>6 DEF Resolutions, Earlier, Later
<1> QED
  BY <1>1, <1>2

LEMMA ReceiveKept ==
  ASSUME TypeInv, Resolutions, Receive
  PROVE  Resolutions'
<1>1. ASSUME UNCHANGED originVars
      PROVE  Resolutions'
  BY <1>1 DEF Resolutions, LastAlone, Earlier, Later, Underway, LastSettingWins, originVars
<1>2. CASE queue = << >>
  BY <1>1, <1>2 DEF Receive
<1>3. CASE queue # << >>
  <2> DEFINE d == Head(queue)
  <2>1. d \in Datagram /\ processCmd(d) /\ buffer \in Port \union {"", "other"}
    <3>1. queue \in Seq(Datagram)
      BY DEF TypeInv, TypeOK
    <3> QED
      BY <1>3, <3>1, HeadTailProperties DEF Receive, TypeInv, TypeOK
  <2> HIDE DEF d
  <2>2. CASE Sets(d)
    BY <2>1, <2>2, ReceivedType, ResolveKept DEF processCmd
  <2>3. CASE ~Sets(d)
    BY <1>1, <2>1, <2>3 DEF processCmd
  <2> QED
    BY <2>2, <2>3
<1> QED
  BY <1>2, <1>3

LEMMA LookupsKept ==
  ASSUME TypeInv, Resolutions, NEW r \in Request, Lookups(r)
  PROVE  Resolutions'
<1>1. /\ asked \in Request /\ lookup \in [Request -> {"none", "queued", "running", "done"}]
      /\ reads \in [Request -> Request]
      /\ host \in [names : Request, list : Seq(Address), port : Name]
  BY DEF TypeInv, TypeOK, OriginTypeOK
<1>2. lookup[r] \in {"queued", "running"}
  BY DEF Lookups, LookupBegins, LookupEnds
<1>3. r \in crowded \/ r = asked
  BY <1>2 DEF Resolutions, Earlier
<1>4. asked \notin crowded => r = asked
  BY <1>2 DEF Resolutions, LastAlone
<1>5. UNCHANGED << asked, port, names, crowded >> /\ host'.names = host.names
  <2>1. \/ host' = host
        \/ \E list, p : host' = [host EXCEPT !.list = list, !.port = p]
    BY DEF Lookups, LookupBegins, LookupEnds
  <2> QED
    BY <1>1, <2>1 DEF Lookups, LookupBegins, LookupEnds
<1>6. \A q \in Request \ {r} : lookup'[q] = lookup[q] /\ reads'[q] = reads[q]
  BY <1>1 DEF Lookups, LookupBegins, LookupEnds
<1>7. Earlier' /\ Later'
  BY <1>3, <1>5, <1>6 DEF Resolutions, Earlier, Later
<1>8. CASE asked \in crowded
  BY <1>5, <1>7, <1>8 DEF Resolutions, LastAlone
<1>9. CASE asked \notin crowded /\ LookupBegins(r)
  <2>1. r = asked /\ lookup'[asked] = "running" /\ reads'[asked] = asked /\ UNCHANGED << host, edge >>
    BY <1>1, <1>4, <1>9 DEF LookupBegins, Resolutions, Earlier
  <2>2. names[asked] = "held" /\ ~edge
    BY <1>2, <1>9, <2>1 DEF Resolutions, LastAlone, Underway
  <2> QED
    BY <1>5, <1>6, <1>7, <1>9, <2>1, <2>2 DEF Resolutions, LastAlone, Underway, LastSettingWins
<1>10. CASE asked \notin crowded /\ LookupEnds(r)
  <2>1. r = asked /\ lookup[asked] = "running" /\ lookup'[asked] = "done" /\ edge' = TRUE
        /\ reads' = reads
    BY <1>1, <1>4, <1>10 DEF LookupEnds
  <2>2. names[asked] = "held" /\ reads[asked] = asked
    BY <1>10, <2>1 DEF Resolutions, LastAlone, Underway
  <2>3. NamesRead(r) = {port[asked]}
    BY <2>1, <2>2 DEF NamesRead
  <2>4. PICK list \in Lists, p \in NamesRead(r) :
          host' = IF list = << >> THEN host ELSE [host EXCEPT !.list = list, !.port = p]
    BY <1>10 DEF LookupEnds
  <2>5. host'.list # << >> => host'.port = port[asked]
    BY <1>1, <1>10, <2>3, <2>4 DEF Resolutions, LastAlone, LastSettingWins
  <2> QED
    BY <1>5, <1>6, <1>7, <1>10, <2>1, <2>2, <2>5
    DEF Resolutions, LastAlone, Underway, LastSettingWins
<1> QED
  BY <1>8, <1>9, <1>10 DEF Lookups

LEMMA ResolutionsStep ==
  ASSUME TypeInv, Resolutions, [Next]_vars
  PROVE  Resolutions'
<1>1. ASSUME UNCHANGED << host, asked, port, names, lookup, reads, edge, crowded >>
      PROVE  Resolutions'
  BY <1>1 DEF Resolutions, LastAlone, Earlier, Later, Underway, LastSettingWins
<1>2. CASE UNCHANGED vars \/ Sends
  BY <1>1, <1>2 DEF vars, Sends, originVars
<1>3. CASE Accept \/ Clients
  BY <1>1, <1>3 DEF Accept, Clients, connectHost, Connects, OriginAnswers, originVars
<1> QED
  BY <1>2, <1>3, PollKept, ReceiveKept, LookupsKept DEF Next, Loop

LEMMA InitResolutions == Init => Resolutions
<1> SUFFICES ASSUME Init PROVE Resolutions
  OBVIOUS
<1>1. 0 \in Request /\ asked = 0 /\ crowded = {} /\ ~edge
  BY RequestType, InitTypes DEF Init, OriginInit, TypeInv
<1>2. PICK list \in Lists : host = [names |-> 0, list |-> list, port |-> Default]
  BY DEF Init, OriginInit
<1>3. /\ names = [q \in Request |-> IF q = 0 THEN "freed" ELSE "none"]
      /\ lookup = [q \in Request |-> IF q = 0 THEN "done" ELSE "none"]
      /\ port = [q \in Request |-> Default]
  BY Zenon DEF Init, OriginInit
<1>4. /\ lookup[0] = "done" /\ names[0] = "freed" /\ host.names = 0
      /\ host.port = Default /\ port[0] = Default
      /\ \A q \in Request \ {0} : names[q] = "none" /\ lookup[q] = "none"
  BY <1>1, <1>2, <1>3
<1> QED
  BY <1>1, <1>4 DEF Resolutions, LastAlone, Earlier, Later, Underway, LastSettingWins

(* The names of a resolution during which no other one was under way are   *)
(* freed once, and never under the thread that reads them, although        *)
(* resolve_dns forgets them and signalfd_read frees whatever the one       *)
(* global request has.  It does not matter how many resolutions were       *)
(* crowded before: what they leave, signals nobody reads among others,     *)
(* does not reach the next one.                                            *)
THEOREM FreedAfterUse == Spec => []NamesFreedOnce
<1>1. Init => TypeInv /\ Resolutions
  BY InitTypes, InitResolutions
<1>2. TypeInv /\ Resolutions /\ [Next]_vars => (TypeInv /\ Resolutions)'
  BY TypeStep, ResolutionsStep
<1>3. TypeInv /\ Resolutions => NamesFreedOnce
  <2> SUFFICES ASSUME TypeInv, Resolutions, NEW r \in Request \ crowded
               PROVE  /\ names[r] # "twice"
                      /\ lookup[r] = "running" => reads[r] = r /\ names[r] = "held"
    BY DEF NamesFreedOnce
  <2>1. CASE r = asked
    BY <2>1 DEF Resolutions, LastAlone, Underway
  <2>2. CASE r # asked
    BY <2>2 DEF Resolutions, Earlier
  <2> QED
    BY <2>1, <2>2
<1> QED
  BY <1>1, <1>2, <1>3, PTL DEF Spec

(* The addresses clients are connected with are those of the port set      *)
(* last, if the setting was made when the ones before it were over, and    *)
(* whatever those did to each other (resolve_dns, connectHost).            *)
THEOREM SettingInForce == Spec => []LastSettingWins
<1>1. Init => TypeInv /\ Resolutions
  BY InitTypes, InitResolutions
<1>2. TypeInv /\ Resolutions /\ [Next]_vars => (TypeInv /\ Resolutions)'
  BY TypeStep, ResolutionsStep
<1>3. Resolutions => LastSettingWins
  BY DEF Resolutions, LastAlone, LastSettingWins
<1> QED
  BY <1>1, <1>2, <1>3, PTL DEF Spec

-----------------------------------------------------------------------------
(* connectHost.                                                            *)

(* A session keeps the addresses there were, and the one that was tried.   *)
Useless(list) ==
  \A i \in 1 .. Len(list) : list[i] = "accepts" => \E j \in 1 .. i - 1 : list[j] = "refuses"
SessionsTried ==
  /\ host.list = << >> \/ host.list \in Lists
  /\ \A c \in Conn :
       /\ session[c].state \in {"rejected", "refused"} => Useless(session[c].list)
       /\ session[c].state = "connecting" =>
            session[c].list \in Lists /\ session[c].at \in Tried(session[c].list)

(* Of a set of numbers one is the least.                                   *)
LEMMA Least ==
  ASSUME NEW T, T \subseteq Nat, T # {}
  PROVE  \E x \in T : \A y \in T : ~(y < x)
<1>1. \E x \in T : \A y \in T : ~(<< y, x >> \in OpToRel(<, Nat))
  BY NatLessThanWellFounded, WFMin, Zenon
<1> QED
  BY <1>1 DEF OpToRel

LEMMA NothingTried ==
  ASSUME NEW list \in Seq(Address), Tried(list) = {}
  PROVE  Useless(list)
<1> DEFINE Working == {i \in 1 .. Len(list) : list[i] # "fails"}
<1>1. Len(list) \in Nat
  BY LenProperties
<1>2. ASSUME Working # {}
      PROVE  FALSE
  <2>1. Working \subseteq Nat
    OBVIOUS
  <2>2. PICK x \in Working : \A y \in Working : ~(y < x)
    <3> HIDE DEF Working
    <3> QED
      BY <1>2, <2>1, Least
  <2>3. \A j \in 1 .. x - 1 : j \in 1 .. Len(list) /\ j < x
    BY <1>1
  <2>4. x \in Tried(list)
    BY <2>2, <2>3 DEF Tried
  <2> QED
    BY <2>4
<1> QED
  BY <1>2 DEF Useless

LEMMA TriedStep ==
  ASSUME TypeInv, SessionsTried, [Next]_vars
  PROVE  SessionsTried'
<1>1. ASSUME UNCHANGED << host, session >>
      PROVE  SessionsTried'
  BY <1>1 DEF SessionsTried
<1>2. ASSUME NEW p, Resolve(p)
      PROVE  SessionsTried'
  BY <1>2 DEF SessionsTried, Resolve
<1>3. CASE Receive
  BY <1>1, <1>2, <1>3 DEF Receive, processCmd, originVars
<1>4. CASE Poll
  BY <1>1, <1>4 DEF Poll, signalfd_read, originVars
<1>5. ASSUME NEW c \in Conn, connectHost(c)
      PROVE  SessionsTried'
  <2> DEFINE new == IF Tried(host.list) = {}
                    THEN [state |-> "rejected", list |-> host.list, at |-> 0, port |-> host.port]
                    ELSE [state |-> "connecting", list |-> host.list,
                          at |-> CHOOSE i \in Tried(host.list) : TRUE, port |-> host.port]
  <2>1. host.list \in Seq(Address) /\ (host.list = << >> \/ host.list \in Lists)
    BY RequestType DEF TypeInv, SessionsTried
  <2>2. Tried(host.list) = {} => Useless(host.list)
    BY <2>1, NothingTried
  <2>3. Tried(host.list) # {} => host.list \in Lists
    <3>1. Len(<< >>) = 0 /\ 1 .. 0 = {}
      BY EmptySeq
    <3>2. Tried(<< >>) = {}
      BY <3>1 DEF Tried
    <3> QED
      BY <2>1, <3>2
  <2>4. /\ new.state \in {"rejected", "refused"} => Useless(new.list)
        /\ new.state = "connecting" => new.list \in Lists /\ new.at \in Tried(new.list)
    BY <2>2, <2>3
  <2>5. session' = [session EXCEPT ![c] = new] /\ host' = host
    BY <1>5 DEF connectHost
  <2>6. session \in [Conn -> [state : {"none", "waiting", "rejected", "connecting", "up", "refused"},
                              list : Seq(Address), at : Nat, port : Name]]
    BY DEF TypeInv, TypeOK, OriginTypeOK
  <2> HIDE DEF new
  <2>7. session'[c] = new /\ \A d \in Conn : d # c => session'[d] = session[d]
    BY <2>5, <2>6
  <2> QED
    BY <2>4, <2>5, <2>7 DEF SessionsTried
<1>6. CASE Accept
  BY <1>1, <1>5, <1>6 DEF Accept, originVars
<1>7. ASSUME NEW r \in Request, Lookups(r)
      PROVE  SessionsTried'
  <2>1. PICK list \in Lists : \E p : host' = host \/ host' = [host EXCEPT !.list = list, !.port = p]
    BY <1>7, OriginAssumption DEF Lookups, LookupBegins, LookupEnds
  <2>2. host \in [names : Request, list : Seq(Address), port : Name]
    BY DEF TypeInv, TypeOK, OriginTypeOK
  <2>3. host'.list = << >> \/ host'.list \in Lists
    BY <2>1, <2>2 DEF SessionsTried
  <2> QED
    BY <1>7, <2>3 DEF Lookups, LookupBegins, LookupEnds, SessionsTried
<1>8. CASE Clients
  <2>1. PICK c \in Conn : Connects(c) \/ OriginAnswers(c)
    BY <1>8 DEF Clients
  <2>2. session \in [Conn -> [state : {"none", "waiting", "rejected", "connecting", "up", "refused"},
                              list : Seq(Address), at : Nat, port : Name]]
    BY DEF TypeInv, TypeOK, OriginTypeOK
  <2>3. CASE Connects(c)
    <3>1. /\ session' = [session EXCEPT ![c].state = "waiting"] /\ host' = host
      BY <2>3 DEF Connects
    <3>2. session'[c].state = "waiting" /\ \A d \in Conn : d # c => session'[d] = session[d]
      BY <2>2, <3>1
    <3> QED
      BY <3>1, <3>2 DEF SessionsTried
  <2>4. CASE OriginAnswers(c)
    <3> DEFINE tried == session[c].list[session[c].at]
    <3>1. /\ session' = [session EXCEPT ![c].state = IF tried = "accepts" THEN "up" ELSE "refused"]
          /\ host' = host /\ session[c].state = "connecting"
      BY <2>4 DEF OriginAnswers
    <3>2. /\ session'[c].list = session[c].list
          /\ session'[c].state = IF tried = "accepts" THEN "up" ELSE "refused"
          /\ \A d \in Conn : d # c => session'[d] = session[d]
      BY <2>2, <3>1
    <3>3. tried # "accepts" => Useless(session[c].list)
      <4> DEFINE list == session[c].list
                 k    == session[c].at
      <4>1. list \in Seq(Address) /\ k \in Tried(list)
        BY <2>2, <3>1 DEF SessionsTried
      <4>2. k \in 1 .. Len(list) /\ list[k] # "fails" /\ \A j \in 1 .. k - 1 : list[j] = "fails"
        BY <4>1 DEF Tried
      <4>3. list[k] \in Address /\ Len(list) \in Nat
        BY <4>1, <4>2, ElementOfSeq, LenProperties
      <4> HIDE DEF list, k
      <4>4. ASSUME list[k] # "accepts", NEW i \in 1 .. Len(list), list[i] = "accepts"
            PROVE  \E j \in 1 .. i - 1 : list[j] = "refuses"
        <5>1. list[k] = "refuses" /\ i # k
          BY <4>2, <4>3, <4>4 DEF Address
        <5>2. i \notin 1 .. k - 1
          BY <4>2, <4>4
        <5>3. k \in 1 .. i - 1
          BY <4>2, <4>3, <5>1, <5>2
        <5> QED
          BY <5>1, <5>3
      <4> QED
        BY <4>4 DEF Useless, list, k
    <3> QED
      BY <3>1, <3>2, <3>3 DEF SessionsTried
  <2> QED
    BY <2>1, <2>3, <2>4
<1>9. CASE UNCHANGED vars \/ Sends
  BY <1>1, <1>9 DEF vars, originVars, Sends
<1> QED
  BY <1>3, <1>4, <1>6, <1>7, <1>8, <1>9 DEF Next, Loop

(* Whatever addresses lookups find, a client is turned away from an        *)
(* address that would have done only by one in front of it that refused:   *)
(* connectHost goes past every address that fails at once, in the order of *)
(* the list, and is not asked again for one that does later.               *)
THEOREM OriginReached == Spec => []ReachesOrigin
<1>1. Init => TypeInv /\ SessionsTried
  <2>1. Init => SessionsTried
    <3> SUFFICES ASSUME Init PROVE SessionsTried
      OBVIOUS
    <3>1. PICK list \in Lists : host = [names |-> 0, list |-> list, port |-> Default]
      BY DEF Init, OriginInit
    <3>2. \A c \in Conn : session[c].state = "none"
      BY DEF Init, OriginInit
    <3> QED
      BY <3>1, <3>2 DEF SessionsTried
  <2> QED
    BY <2>1, InitTypes
<1>2. TypeInv /\ SessionsTried /\ [Next]_vars => (TypeInv /\ SessionsTried)'
  BY TypeStep, TriedStep
<1>3. SessionsTried => ReachesOrigin
  BY DEF SessionsTried, ReachesOrigin, Useless, TurnedAway
<1> QED
  BY <1>1, <1>2, <1>3, PTL DEF Spec


-----------------------------------------------------------------------------
(* The port that GET_ORIGIN_PORT shows.                                    *)

(* What is pointed to is the port set last, unless something was received  *)
(* over it.  AnswersInForce alone is not inductive: the next answer is     *)
(* read through the pointer.                                               *)
PortInv ==
  /\ ~overwritten => PortShown(buffer) = port[asked]
  /\ originPort = "argv" => ~overwritten
  /\ AnswersInForce

LEMMA LengthType ==
  ASSUME NEW d \in Datagram
  PROVE  Length(d) \in Nat
<1>1. d.word \in DOMAIN WordLength
  BY DatagramType
<1>2. WordLength[d.word] \in Nat
  BY <1>1, Words
<1>3. DataLength \in Nat
  BY ManagementAssumption
<1> QED
  BY <1>2, <1>3 DEF Length

LEMMA InitPort == Init => PortInv
<1> SUFFICES ASSUME Init PROVE PortInv
  OBVIOUS
<1>1. 0 \in Request
  <2>1. 0 \in 0 .. MaxSettings
    BY OriginAssumption
  <2> QED
    BY <2>1, Zenon DEF Request
<1>2. port[asked] = Default /\ PortShown(buffer) = Default
  BY <1>1 DEF Init, OriginInit, PortShown
<1>3. AnswersInForce
  BY DEF Init, AnswersInForce
<1> QED
  BY <1>2, <1>3 DEF PortInv, Init

LEMMA ReceivePort ==
  ASSUME TypeInv, PortInv, Receive
  PROVE  PortInv'
<1>1. CASE queue = << >>
  BY <1>1 DEF Receive, PortInv, PortShown, AnswersInForce, originVars
<1>2. CASE queue # << >>
  <2> DEFINE d == Head(queue)
  <2>1. d \in Datagram
    <3>1. queue \in Seq(Datagram)
      BY DEF TypeInv, TypeOK
    <3> QED
      BY <1>2, <3>1, HeadTailProperties
  <2>2. processCmd(d)
    BY <1>2 DEF Receive
  <2> HIDE DEF d
  <2>3. /\ buffer' = Received(d)
        /\ answer' = [status |-> lexRequest(d), text |-> Replied(lexRequest(d), Received(d))]
    BY <2>2 DEF processCmd
  <2>4. CASE Sets(d)
    <3>1. originPort' = "buffer" /\ Resolve(Received(d)) /\ lexRequest(d) = "SET_ORIGIN_PORT"
      BY <2>2, <2>4 DEF processCmd, Sets
    <3>2. asked + 1 \in Request /\ port \in [Request -> Setting]
      BY <3>1, RequestType DEF TypeInv, TypeOK, OriginTypeOK, Resolve
    <3>3. port'[asked'] = Received(d)
      BY <3>1, <3>2 DEF Resolve
    <3>4. PortShown(buffer)' = Received(d)
      BY <2>3, <3>1 DEF PortShown
    <3>5. answer'.status # "GET_ORIGIN_PORT"
      BY <2>3, <3>1
    <3> QED
      BY <3>1, <3>3, <3>4, <3>5 DEF PortInv, AnswersInForce
  <2>5. CASE ~Sets(d)
    <3>1. originPort' = originPort /\ asked' = asked /\ port' = port
      BY <2>2, <2>5 DEF processCmd, Sets, originVars
    <3>2. ~overwritten' => ~overwritten /\ PortShown(Received(d)) = PortShown(buffer)
      <4>1. overwritten' = (originPort = "buffer" /\ (overwritten \/ Length(d) >= 16))
        BY <2>2, <2>5 DEF processCmd, Overwrites
      <4>2. CASE originPort = "argv"
        BY <4>2 DEF PortShown, PortInv
      <4>3. CASE originPort = "buffer"
        <5>1. Length(d) >= 16 \/ Length(d) < 16
          BY <2>1, LengthType
        <5>2. Length(d) < 16 => Received(d) = buffer
          BY DEF Received
        <5> QED
          BY <4>1, <4>3, <5>1, <5>2 DEF PortShown
      <4> QED
        BY <4>2, <4>3 DEF TypeInv, TypeOK
    <3>3. ~overwritten' => PortShown(buffer)' = port'[asked']
      BY <2>3, <3>1, <3>2 DEF PortInv, PortShown
    <3>4. AnswersInForce'
      BY <2>3, <3>1, <3>2 DEF PortInv, AnswersInForce, Replied
    <3>5. originPort' = "argv" => ~overwritten'
      BY <2>2, <2>5, <3>1 DEF processCmd, Overwrites
    <3> QED
      BY <3>3, <3>4, <3>5 DEF PortInv
  <2> QED
    BY <2>4, <2>5
<1> QED
  BY <1>1, <1>2

LEMMA PortStep ==
  ASSUME TypeInv, PortInv, [Next]_vars
  PROVE  PortInv'
<1>1. ASSUME UNCHANGED << asked, port, originPort, buffer, answer, overwritten >>
      PROVE  PortInv'
  BY <1>1 DEF PortInv, PortShown, AnswersInForce
<1>2. CASE UNCHANGED vars
  BY <1>1, <1>2 DEF vars, originVars
<1>3. CASE Poll \/ Accept
  BY <1>1, <1>3 DEF Poll, Accept, signalfd_read, connectHost, originVars
<1>4. CASE Receive
  BY <1>4, ReceivePort
<1>5. CASE \E r \in Request : Lookups(r)
  BY <1>1, <1>5 DEF Lookups, LookupBegins, LookupEnds
<1>6. CASE Clients
  BY <1>1, <1>6 DEF Clients, Connects, OriginAnswers
<1>7. CASE Sends
  BY <1>1, <1>7 DEF Sends, originVars
<1> QED
  BY <1>2, <1>3, <1>4, <1>5, <1>6, <1>7 DEF Next, Loop

(* The administrator who asks for the port of the origin is told the one   *)
(* set last, although what is kept of it is a pointer into the buffer that *)
(* the question was received in, until a request of sixteen bytes or more  *)
(* is received there (processCmd, the static udpBuffer).                   *)
THEOREM PortAnswered == Spec => []AnswersInForce
<1>1. Init => TypeInv /\ PortInv
  BY InitTypes, InitPort
<1>2. TypeInv /\ PortInv /\ [Next]_vars => (TypeInv /\ PortInv)'
  BY TypeStep, PortStep
<1>3. PortInv => AnswersInForce
  BY DEF PortInv
<1> QED
  BY <1>1, <1>2, <1>3, PTL DEF Spec
=============================================================================
