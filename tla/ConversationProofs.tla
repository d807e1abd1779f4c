------------------------- MODULE ConversationProofs -------------------------
(***************************************************************************)
(* The conversation as the client has it.  Its commands keep their order   *)
(* on their way to the origin, for every queue length, buffer size and     *)
(* client; where the origin does not fail on its own, a command that was   *)
(* sent is freed once, by its reply or by the end of the session; and,     *)
(* when the origin says nothing the proxy takes for the end of a reply,    *)
(* the session is the pipeline of PopPipeline and ends with an answer or   *)
(* without one begun.                                                      *)
(*                                                                         *)
(* The argument numbers the commands.  The socket, the parse buffer and    *)
(* the queue hold the latest ones, each once and in order, and NextId is   *)
(* the number at the head.  A block of processClient either moves a        *)
(* command from one of the three to the next, which leaves NextId alone,   *)
(* or removes the head, which makes it one more; and what is sent is the   *)
(* head.                                                                   *)
(***************************************************************************)
EXTENDS SessionProofs

-----------------------------------------------------------------------------
(* Consecutive numbers.                                                    *)

LEMMA ConsecutiveConcat ==
  ASSUME NEW s \in Seq(Command), NEW t \in Seq(Command), NEW n \in Nat
  PROVE  Consecutive(s \o t, n) <=> Consecutive(s, n) /\ Consecutive(t, n + Len(s))
<1> DEFINE st == s \o t
<1>1. Len(s) \in Nat /\ Len(t) \in Nat
  BY LenProperties
<1>2. /\ st \in Seq(Command) /\ Len(st) = Len(s) + Len(t)
      /\ \A i \in 1 .. Len(s) + Len(t) : st[i] = IF i <= Len(s) THEN s[i] ELSE t[i - Len(s)]
  BY ConcatProperties
<1> HIDE DEF st
<1>3. ASSUME Consecutive(st, n)
      PROVE  Consecutive(s, n) /\ Consecutive(t, n + Len(s))
  <2>1. Consecutive(s, n)
    BY <1>1, <1>2, <1>3, SMTT(30) DEF Consecutive
  <2>2. ASSUME NEW i \in 1 .. Len(t)
        PROVE  t[i].id = n + Len(s) + i - 1
    <3>1. PICK k \in 1 .. Len(st) : k = Len(s) + i
      BY <1>1, <1>2
    <3>2. k \in Nat /\ i \in Nat /\ ~(k <= Len(s)) /\ k - Len(s) = i
      BY <1>1, <1>2, <3>1
    <3>3. st[k] = t[i]
      BY <1>2, <3>2
    <3>4. st[k].id = n + k - 1
      BY <1>3, <3>1 DEF Consecutive
    <3> QED
      BY <1>1, <3>1, <3>2, <3>3, <3>4
  <2> QED
    BY <2>1, <2>2 DEF Consecutive
<1>4. ASSUME Consecutive(s, n), Consecutive(t, n + Len(s))
      PROVE  Consecutive(st, n)
  <2> SUFFICES ASSUME NEW k \in 1 .. Len(s) + Len(t)
               PROVE  st[k].id = n + k - 1
    BY <1>2 DEF Consecutive
  <2>1. CASE k <= Len(s)
    BY <1>1, <1>2, <1>4, <2>1 DEF Consecutive
  <2>2. CASE ~(k <= Len(s))
    <3>0. k - Len(s) \in 1 .. Len(t)
      BY <1>1, <2>2
    <3>1. PICK i \in 1 .. Len(t) : i = k - Len(s)
      BY <3>0
    <3>2. st[k] = t[i]
      BY <1>2, <2>2, <3>1
    <3>3. t[i].id = n + Len(s) + i - 1
      BY <1>4, <3>1 DEF Consecutive
    <3> QED
      BY <1>1, <3>1, <3>2, <3>3
  <2> QED
    BY <2>1, <2>2
<1> QED
  BY <1>3, <1>4 DEF st

LEMMA ConsecutiveHead ==
  ASSUME NEW s \in Seq(Command), s # << >>, NEW n \in Nat, Consecutive(s, n)
  PROVE  Head(s).id = n /\ Consecutive(Tail(s), n + 1)
<1>1. /\ Len(s) \in Nat \ {0} /\ Len(Tail(s)) = Len(s) - 1
      /\ \A i \in 1 .. Len(Tail(s)) : Tail(s)[i] = s[i + 1]
  BY HeadTailProperties, EmptySeq
<1>2. Head(s) = s[1] /\ s[1].id = n + 1 - 1
  BY <1>1 DEF Consecutive
<1>3. ASSUME NEW i \in 1 .. Len(Tail(s))
      PROVE  Tail(s)[i].id = n + 1 + i - 1
  <2>1. i + 1 \in 1 .. Len(s)
    BY <1>1
  <2>2. s[i + 1].id = n + (i + 1) - 1
    BY <2>1 DEF Consecutive
  <2> QED
    BY <1>1, <2>2
<1> QED
  BY <1>2, <1>3 DEF Consecutive

LEMMA ConsecutiveAppend ==
  ASSUME NEW s \in Seq(Command), NEW c \in Command, NEW n \in Nat,
         Consecutive(s, n), c.id = n + Len(s)
  PROVE  Consecutive(Append(s, c), n)
<1>1. /\ Len(s) \in Nat /\ Len(Append(s, c)) = Len(s) + 1
      /\ \A i \in 1 .. Len(s) : Append(s, c)[i] = s[i]
      /\ Append(s, c)[Len(s) + 1] = c
  BY LenProperties
<1> SUFFICES ASSUME NEW k \in 1 .. Len(s) + 1
             PROVE  Append(s, c)[k].id = n + k - 1
  BY <1>1 DEF Consecutive
<1>2. CASE k \in 1 .. Len(s)
  BY <1>1, <1>2 DEF Consecutive
<1>3. CASE k = Len(s) + 1
  BY <1>1, <1>3
<1> QED
  BY <1>1, <1>2, <1>3

-----------------------------------------------------------------------------
LineInv == Numbered /\ SentFirst /\ SentInOrder

(* The lengths the numbering is made of.                                   *)
LEMMA LineLengths ==
  ASSUME TypeOK
  PROVE  /\ queue \in Seq(Command) /\ Len(queue) \in Nat
         /\ request \in Seq(Command) /\ Len(request) \in Nat
         /\ c2p \in Seq(Command) /\ Len(c2p) \in Nat
         /\ asked \in Seq(Command) /\ Len(asked) \in Nat
         /\ sent \in Seq(Id) /\ Len(sent) \in Nat
         /\ \A i \in 1 .. Len(sent) : sent[i] \in Nat
<1>1. sent \in Seq(Id) /\ Id \subseteq Nat
  BY SessionAssumption DEF TypeOK, Id
<1>2. Len(sent) \in Nat /\ \A i \in 1 .. Len(sent) : sent[i] \in Id
  BY <1>1, LenProperties, ElementOfSeq
<1>3. /\ queue \in Seq(Command) /\ request \in Seq(Command)
      /\ c2p \in Seq(Command) /\ asked \in Seq(Command)
  BY DEF TypeOK
<1>4. Len(queue) \in Nat /\ Len(request) \in Nat /\ Len(c2p) \in Nat /\ Len(asked) \in Nat
  BY <1>3, LenProperties
<1> QED
  BY <1>1, <1>2, <1>3, <1>4

LEMMA LineInit == Init => LineInv
<1> SUFFICES ASSUME Init PROVE LineInv
  OBVIOUS
<1>1. /\ queue = << [id |-> 0, kind |-> "GREETING"] >> /\ request = << >> /\ c2p = << >>
      /\ asked = << >> /\ sent = << >>
  BY DEF Init
<1>2. pending
  BY Zenon DEF Init
<1>3. NextId = 0 /\ Len(queue) = 1 /\ Len(sent) = 0
  BY <1>1 DEF NextId
<1>4. Numbered
  BY <1>1, <1>3 DEF Numbered, Consecutive
<1>5. queue # << >> /\ Head(queue).kind # "INVALID"
  BY <1>1
<1>6. SentFirst /\ SentInOrder
  BY <1>2, <1>3, <1>5 DEF SentFirst, SentInOrder
<1> QED
  BY <1>4, <1>6 DEF LineInv

LEMMA LineStays ==
  ASSUME LineInv, UNCHANGED << queue, pending, request, c2p, asked, sent >>
  PROVE  LineInv'
BY DEF LineInv, Numbered, SentFirst, SentInOrder, NextId, Consecutive

(* The head leaves the queue: it was answered.                             *)
LEMMA LineMoves ==
  ASSUME TypeOK, LineInv, queue # << >>, queue' = Tail(queue), ~pending',
         UNCHANGED << request, c2p, asked, sent >>
  PROVE  LineInv'
<1>1. /\ queue \in Seq(Command) /\ Len(queue) \in Nat /\ Len(request) \in Nat
      /\ Len(c2p) \in Nat /\ Len(asked) \in Nat /\ NextId \in Nat
      /\ \A i \in 1 .. Len(sent) : sent[i] \in Nat
  BY LineLengths DEF LineInv, Numbered
<1>2. Len(queue') = Len(queue) - 1
  BY <1>1, HeadTailProperties
<1>3. NextId' = NextId + 1
  BY <1>1, <1>2 DEF NextId
<1>4. NextId' + Len(queue') = NextId + Len(queue)
  BY <1>1, <1>2, <1>3
<1>5. Consecutive(queue, NextId)
  BY DEF LineInv, Numbered
<1>6. Consecutive(queue', NextId + 1)
  BY <1>1, <1>5, ConsecutiveHead
<1>7. Numbered'
  <2>1. Consecutive(request, NextId + Len(queue))
        /\ Consecutive(c2p, NextId + Len(queue) + Len(request))
    BY DEF LineInv, Numbered
  <2>2. Consecutive(request, NextId' + Len(queue'))
        /\ Consecutive(c2p, NextId' + Len(queue') + Len(request))
    BY <1>4, <2>1
  <2> QED
    BY <1>1, <1>3, <1>6, <2>2 DEF Numbered, Consecutive
<1>8. SentFirst'
  <2>1. \A i \in 1 .. Len(sent) : sent[i] < NextId'
    <3>1. \A i \in 1 .. Len(sent) : sent[i] <= NextId
      BY DEF LineInv, SentFirst
    <3> QED
      BY <1>1, <1>3, <3>1
  <2>2. NextId' # 0 /\ NextId' \in Nat
    BY <1>1, <1>3
  <2>3. \A i \in 1 .. Len(sent) : sent[i] <= NextId'
    BY <1>1, <2>1, <2>2
  <2> QED
    BY <2>1, <2>2, <2>3 DEF SentFirst
<1> QED
  BY <1>7, <1>8 DEF LineInv, SentInOrder

(* processPopClient: a command gets from the client's stream into the      *)
(* queue; which one is the head, and what it is numbered, stays.           *)
LEMMA TakeKeepsNumber ==
  ASSUME TypeInv, LineInv, TakeCommand
  PROVE  NextId' = NextId
<1> DEFINE got  == ClientRead.got
           left == ClientRead.left
<1>1. /\ queue \in Seq(Command) /\ Len(queue) \in Nat
      /\ request \in Seq(Command) /\ Len(request) \in Nat
      /\ Len(c2p) \in Nat /\ Len(asked) \in Nat /\ NextId \in Nat
  BY LineLengths DEF TypeInv, LineInv, Numbered
<1>2. /\ queue' = Append(queue, Head(Requested)) /\ request' = Tail(Requested)
      /\ c2p' = left /\ Requested # << >> /\ asked' = asked
  BY DEF TakeCommand, Unparsed
<1>3. /\ got \in Seq(Command) /\ left \in Seq(Command) /\ got \o left = c2p
      /\ Requested \in Seq(Command) /\ Requested = request \o got
  BY RequestedType
<1> HIDE DEF got, left
<1>4. /\ Len(got) \in Nat /\ Len(left) \in Nat
      /\ Len(c2p) = Len(got) + Len(left)
      /\ Len(Requested) = Len(request) + Len(got)
  BY <1>1, <1>3, LenProperties, ConcatProperties
<1>5. /\ Len(queue') = Len(queue) + 1
      /\ Len(request') = Len(Requested) - 1
  BY <1>1, <1>2, <1>3, HeadTailProperties, AppendProperties
<1>6. Len(queue') + Len(request') + Len(c2p') = Len(queue) + Len(request) + Len(c2p)
  <2>1. Len(c2p') = Len(left)
    BY <1>2
  <2> QED
    BY <1>1, <1>4, <1>5, <2>1
<1> QED
  BY <1>2, <1>6 DEF NextId

LEMMA LineGrows ==
  ASSUME TypeInv, LineInv, TakeCommand
  PROVE  LineInv'
<1> DEFINE got  == ClientRead.got
           left == ClientRead.left
           n    == NextId + Len(queue)
<1>1. /\ queue \in Seq(Command) /\ Len(queue) \in Nat
      /\ request \in Seq(Command) /\ Len(request) \in Nat
      /\ Len(c2p) \in Nat /\ Len(asked) \in Nat /\ NextId \in Nat
  BY LineLengths DEF TypeInv, LineInv, Numbered
<1>2. /\ queue' = Append(queue, Head(Requested)) /\ request' = Tail(Requested)
      /\ c2p' = left /\ Requested # << >>
      /\ UNCHANGED << pending, asked, sent >>
  BY DEF TakeCommand, Unparsed, histVars
<1>3. /\ got \in Seq(Command) /\ left \in Seq(Command) /\ got \o left = c2p
      /\ Requested \in Seq(Command) /\ Requested = request \o got
  BY RequestedType
<1> HIDE DEF got, left
<1>4. /\ Len(got) \in Nat /\ Len(left) \in Nat
      /\ Len(c2p) = Len(got) + Len(left)
      /\ Len(Requested) = Len(request) + Len(got)
  BY <1>1, <1>3, LenProperties, ConcatProperties
<1>5. /\ Len(queue') = Len(queue) + 1
      /\ Head(Requested) \in Command /\ Tail(Requested) \in Seq(Command)
      /\ Len(request') = Len(Requested) - 1
  BY <1>1, <1>2, <1>3, HeadTailProperties, AppendProperties, SMTT(30)
<1>6. NextId' = NextId
  BY TakeKeepsNumber
<1>7. n \in Nat /\ Consecutive(request, n)
      /\ Consecutive(got, n + Len(request))
      /\ Consecutive(left, n + Len(request) + Len(got))
  <2>1. n \in Nat /\ n + Len(request) \in Nat
    BY <1>1
  <2>2. Consecutive(request, n) /\ Consecutive(c2p, n + Len(request))
    BY DEF LineInv, Numbered
  <2> HIDE DEF n
  <2>3. Consecutive(got, n + Len(request)) /\ Consecutive(left, n + Len(request) + Len(got))
    BY <1>3, <2>1, <2>2, ConsecutiveConcat
  <2> QED
    BY <2>1, <2>2, <2>3
<1> HIDE DEF n
<1>8. Consecutive(Requested, n)
  BY <1>1, <1>3, <1>7, ConsecutiveConcat
<1>9. Head(Requested).id = n /\ Consecutive(Tail(Requested), n + 1)
  BY <1>2, <1>3, <1>7, <1>8, ConsecutiveHead
<1>10. Consecutive(queue', NextId)
  <2>1. Consecutive(queue, NextId)
    BY DEF LineInv, Numbered
  <2>2. Head(Requested).id = NextId + Len(queue)
    BY <1>9 DEF n
  <2> QED
    BY <1>1, <1>2, <1>5, <2>1, <2>2, ConsecutiveAppend
<1>11. NextId + Len(queue') = n + 1
       /\ NextId + Len(queue') + Len(request') = n + Len(request) + Len(got)
  BY <1>1, <1>4, <1>5 DEF n
<1>12. Consecutive(request', NextId + Len(queue'))
       /\ Consecutive(c2p', NextId + Len(queue') + Len(request'))
  BY <1>2, <1>7, <1>9, <1>11
<1>13. Numbered'
  BY <1>1, <1>6, <1>10, <1>12 DEF Numbered, Consecutive
<1>14. queue # << >> => queue' # << >> /\ Head(queue') = Head(queue)
  BY <1>1, <1>2, <1>5, AppendProperties, HeadTailProperties, EmptySeq
<1>15. SentFirst'
  BY <1>2, <1>6, <1>14 DEF LineInv, SentFirst
<1> QED
  BY <1>2, <1>13, <1>15 DEF LineInv, SentInOrder

(* sendPopRequest sends the head of the queue, which was not sent before.  *)
LEMMA LineSends ==
  ASSUME TypeInv, LineInv, SendCommand
  PROVE  LineInv'
<1>1. /\ queue \in Seq(Command) /\ Len(queue) \in Nat /\ NextId \in Nat
      /\ sent \in Seq(Id) /\ Len(sent) \in Nat
      /\ \A i \in 1 .. Len(sent) : sent[i] \in Nat
  BY LineLengths DEF TypeInv, LineInv, Numbered
<1>2. queue # << >> /\ ~pending
  BY Reached DEF SendCommand
<1>3. pending'
  BY Zenon DEF SendCommand
<1>4. /\ sent' = Append(sent, Head(queue).id) /\ Head(queue).kind # "INVALID"
      /\ UNCHANGED << queue, request, c2p, asked >>
  BY DEF SendCommand
<1>5. Head(queue).id = NextId
  BY <1>1, <1>2, ConsecutiveHead DEF LineInv, Numbered
<1>6. \A i \in 1 .. Len(sent) : sent[i] < NextId
  BY <1>2 DEF LineInv, SentFirst
<1>7. NextId' = NextId
  BY <1>4 DEF NextId
<1>8. /\ Len(sent') = Len(sent) + 1 /\ sent'[Len(sent) + 1] = NextId
      /\ \A i \in 1 .. Len(sent) : sent'[i] = sent[i]
  BY <1>1, <1>4, <1>5
<1>9. Numbered'
  BY <1>4, <1>7 DEF LineInv, Numbered, Consecutive
<1>10. \A i \in 1 .. Len(sent') : sent'[i] <= NextId'
  BY <1>1, <1>6, <1>7, <1>8
<1>11. SentFirst'
  BY <1>2, <1>3, <1>4, <1>10 DEF SentFirst
<1>12. SentInOrder'
  BY <1>1, <1>6, <1>8 DEF LineInv, SentInOrder
<1> QED
  BY <1>9, <1>11, <1>12 DEF LineInv

(* The client sends one more.                                              *)
LEMMA LineLengthens ==
  ASSUME TypeInv, LineInv, ClientSends
  PROVE  LineInv'
<1>1. /\ Len(queue) \in Nat /\ Len(request) \in Nat
      /\ c2p \in Seq(Command) /\ Len(c2p) \in Nat
      /\ asked \in Seq(Command) /\ Len(asked) \in Nat /\ NextId \in Nat
  BY LineLengths DEF TypeInv, LineInv, Numbered
<1>2. PICK kind \in Kinds :
        /\ asked' = Append(asked, [id |-> Len(asked) + 1, kind |-> kind])
        /\ c2p' = Append(c2p, [id |-> Len(asked) + 1, kind |-> kind])
  BY DEF ClientSends
<1>3. UNCHANGED << queue, pending, request, sent >>
  BY DEF ClientSends, proxyVars, histVars
<1>4. PICK cmd \in Command : /\ cmd.id = Len(asked) + 1
                            /\ asked' = Append(asked, cmd) /\ c2p' = Append(c2p, cmd)
  <2>1. Len(asked) < MaxCmds
    BY DEF ClientSends
  <2>2. Len(asked) + 1 \in Id
    BY <1>1, <2>1, SessionAssumption DEF Id
  <2>3. [id |-> Len(asked) + 1, kind |-> kind] \in Command
    BY <2>2, SessionAssumption DEF Command
  <2> QED
    BY <1>2, <2>3
<1>5. Len(asked') = Len(asked) + 1 /\ Len(c2p') = Len(c2p) + 1
  BY <1>1, <1>4, AppendProperties
<1>6. NextId' = NextId
  BY <1>1, <1>3, <1>5 DEF NextId
<1>7. PICK first \in Nat : first = NextId + Len(queue) + Len(request)
  BY <1>1
<1>8. cmd.id = first + Len(c2p)
  BY <1>1, <1>4, <1>7 DEF NextId
<1>9. Consecutive(c2p, first)
  BY <1>7 DEF LineInv, Numbered
<1>10. Consecutive(c2p', first)
  BY <1>1, <1>4, <1>8, <1>9, ConsecutiveAppend
<1>11. Numbered'
  BY <1>3, <1>6, <1>7, <1>10 DEF LineInv, Numbered, Consecutive
<1> QED
  BY <1>3, <1>6, <1>11 DEF LineInv, SentFirst, SentInOrder

LEMMA LineStep == TypeInv /\ LineInv /\ [Next]_vars => LineInv'
<1> SUFFICES ASSUME TypeInv, LineInv, [Next]_vars
             PROVE  LineInv'
  OBVIOUS
<1>1. CASE TakeCommand
  BY <1>1, LineGrows
<1>2. CASE SendCommand
  BY <1>2, LineSends
<1>3. CASE RespondInvalid
  <2>1. queue # << >> /\ Head(queue).kind = "INVALID"
    BY <1>3, Reached DEF RespondInvalid
  <2>2. ~pending
    BY <2>1 DEF LineInv, SentFirst
  <2>3. queue' = Tail(queue) /\ UNCHANGED << pending, request, c2p, asked, sent >>
    BY <1>3 DEF RespondInvalid
  <2> QED
    BY <2>1, <2>2, <2>3, LineMoves DEF TypeInv
<1>4. CASE Respond \/ RespondQuit \/ RespondRetrieve
  <2>1. RespondDone /\ UNCHANGED << request, c2p, asked, sent >>
    BY <1>4 DEF Respond, RespondQuit, RespondRetrieve
  <2>2. queue # << >> /\ queue' = Tail(queue)
    BY <2>1, Reached DEF RespondDone
  <2>3. ~pending'
    BY <2>1, Zenon DEF RespondDone
  <2> QED
    BY <2>1, <2>2, <2>3, LineMoves DEF TypeInv
<1>5. CASE Poll \/ UNCHANGED vars
  <2>1. UNCHANGED << queue, pending, request, c2p, asked, sent >>
    BY <1>5 DEF Poll, vars, proxyVars, netVars, peerVars, histVars
  <2> QED
    BY <2>1, LineStays
<1>6. CASE Connect \/ Feed \/ RespondWaits \/ Drain \/ TakeNothing
           \/ SendNothing \/ SendFails \/ Finish
  <2>1. UNCHANGED << queue, pending, request, c2p, asked, sent >>
    BY <1>6 DEF Connect, Feed, RespondWaits, Drain, TakeNothing, SendNothing, SendFails,
       Finish, netVars, histVars
  <2> QED
    BY <2>1, LineStays
<1>7. CASE ClientSends
  BY <1>7, LineLengthens
<1>8. CASE ClientCloses \/ ClientReads \/ OriginStep \/ OriginFails
           \/ FilterReads \/ FilterWrites \/ FilterExits
  <2>1. UNCHANGED << queue, pending, request, c2p, asked, sent >>
    BY <1>8 DEF ClientCloses, ClientReads, OriginStep, OriginAccepts, OriginServes,
       OriginSays, OriginFails, FilterReads, FilterWrites, FilterExits,
       proxyVars, peerVars, histVars
  <2> QED
    BY <2>1, LineStays
<1> QED
  BY <1>1, <1>2, <1>3, <1>4, <1>5, <1>6, <1>7, <1>8 DEF Next, Proxy, ProcessClient

-----------------------------------------------------------------------------
LEMMA LineAlways == Spec => []LineInv
<1>1. Spec => []TypeInv
  BY TypeCorrect DEF TypeInv
<1>2. TypeInv /\ LineInv /\ [Next]_vars => LineInv'
  BY LineStep
<1>3. Init => LineInv
  BY LineInit
<1> QED
  BY <1>1, <1>2, <1>3, PTL DEF Spec

(* The origin gets the client's commands in the client's order and none of *)
(* them twice, whatever else goes wrong (processPopClient, sendPopRequest  *)
(* and processPopServer share one queue).                                  *)
THEOREM OrderKept == Spec => []SentInOrder
<1>1. LineInv => SentInOrder
  BY DEF LineInv
<1> QED
  BY <1>1, LineAlways, PTL

(* pending is set exactly while the head of the queue is with the origin,  *)
(* and nothing behind the head ever is (sendPopRequest sets it,            *)
(* processPopServer resets it).                                            *)
THEOREM PendingTellsTheHead == Spec => []PendingIsHead
<1>1. TypeInv /\ LineInv => PendingIsHead
  <2> SUFFICES ASSUME TypeInv, LineInv
               PROVE  PendingIsHead
    OBVIOUS
  <2>1. pending => queue # << >> /\ Head(queue).kind # "INVALID"
    BY DEF LineInv, SentFirst
  <2>2. ASSUME NEW i \in 1 .. Len(queue),
               queue[i].id = 0 \/ \E j \in 1 .. Len(sent) : sent[j] = queue[i].id
        PROVE  i = 1 /\ pending
    <3>1. Len(queue) \in Nat /\ NextId \in Nat /\ \A j \in 1 .. Len(sent) : sent[j] \in Nat
      BY LineLengths DEF TypeInv, LineInv, Numbered
    <3>2. queue[i].id = NextId + i - 1
      BY DEF LineInv, Numbered, Consecutive
    <3>3. CASE queue[i].id = 0
      <4>1. i = 1 /\ NextId = 0
        BY <3>1, <3>2, <3>3
      <4> QED
        BY <4>1 DEF LineInv, SentFirst
    <3>4. CASE \E j \in 1 .. Len(sent) : sent[j] = queue[i].id
      <4>1. PICK j \in 1 .. Len(sent) : sent[j] = queue[i].id
        BY <3>4
      <4>2. sent[j] <= NextId /\ (~pending => sent[j] < NextId)
        BY DEF LineInv, SentFirst
      <4>3. i = 1 /\ ~(sent[j] < NextId)
        BY <3>1, <3>2, <4>1, <4>2
      <4> QED
        BY <4>2, <4>3
    <3> QED
      BY <2>2, <3>3, <3>4
  <2> QED
    BY <2>1, <2>2 DEF PendingIsHead
<1>2. Spec => []TypeInv
  BY TypeCorrect DEF TypeInv
<1> QED
  BY <1>1, <1>2, LineAlways, PTL

-----------------------------------------------------------------------------
(* The segments to the origin.  While the origin can be sent to they are   *)
(* open together, and its socket counts as writable.                       *)
Usable == origin \in {"connecting", "up", "eof"}

Linked ==
  Usable =>
    /\ "SERVER_OUT" \in active => "SERVER_IN" \in active
    /\ "SERVER_IN" \in active => "serverWrite" \in ready
    /\ ~pending /\ active # {} => "SERVER_IN" \in active

(* closeClient, case by case.                                              *)
LEMMA WhatCloses ==
  ASSUME NEW act \in SUBSET Segment, NEW level \in SUBSET Segment
  PROVE  /\ "CLIENT_IN" \in level \intersect act => ActiveAfter(act, level) = {}
         /\ "CLIENT_IN" \notin level \intersect act /\ "SERVER_OUT" \in level \intersect act
              => ActiveAfter(act, level) = act \ (level \union {"SERVER_IN"})
         /\ "CLIENT_IN" \notin level \intersect act /\ "SERVER_OUT" \notin level \intersect act
              => ActiveAfter(act, level) = act \ level
<1> DEFINE first  == level \intersect act
           act1   == act \ first
           second == FollowUp(first) \intersect act1
           act2   == act1 \ second
           third  == FollowUp(second) \intersect act2
           rest   == ActiveAfter(act, level)
<1>1. rest = act2 \ third
  BY DEF ActiveAfter
<1>2. CASE "CLIENT_IN" \in first
  <2>1. FollowUp(first) = {"CLIENT_OUT"} \union CS_SERVER \union CS_FILTER
    BY <1>2 DEF FollowUp
  <2>2. act2 = {}
    BY <1>2, <2>1 DEF Segment, CS_CLIENT
  <2> QED
    BY <1>1, <1>2, <2>2
<1>3. CASE "CLIENT_IN" \notin first /\ "SERVER_OUT" \in first
  <2>1. FollowUp(first) = {"SERVER_IN"}
    BY <1>3 DEF FollowUp
  <2>2. FollowUp(second) = {}
    BY <2>1 DEF FollowUp
  <2>3. rest = act1 \ {"SERVER_IN"}
    BY <1>1, <2>1, <2>2
  <2> QED
    BY <1>3, <2>3
<1>4. CASE "CLIENT_IN" \notin first /\ "SERVER_OUT" \notin first
  <2>1. FollowUp(first) = {}
    BY <1>4 DEF FollowUp
  <2>2. FollowUp(second) = {}
    BY <2>1 DEF FollowUp
  <2>3. rest = act1
    BY <1>1, <2>1, <2>2
  <2> QED
    BY <1>4, <2>3
<1> QED
  BY <1>2, <1>3, <1>4

(* A closing that leaves the origin usable either ends the session or      *)
(* leaves the segments to the origin alone, and its readiness with them.   *)
LEMMA ClosingLeavesOrigin ==
  ASSUME TypeOK, ClosedTogether, NEW level \in SUBSET Segment, NEW flags,
         "serverWrite" \in ready => "serverWrite" \in flags,
         "SERVER_IN" \in level => "CLIENT_IN" \in level,
         CloseClient(level, flags), Usable'
  PROVE  /\ Usable /\ origin' = origin
         /\ \/ active' = {}
            \/ /\ active' = active \ level /\ "CLIENT_IN" \notin level
               /\ "SERVER_OUT" \in active <=> "SERVER_OUT" \in active'
               /\ "SERVER_IN" \in active <=> "SERVER_IN" \in active'
               /\ "SERVER_IN" \in active' /\ "serverWrite" \in ready => "serverWrite" \in ready'
<1>1. /\ active' = ActiveAfter(active, level)
      /\ ready' = flags \ {FlagOf(s) : s \in active \ ActiveAfter(active, level)}
      /\ origin' = IF Disconnects(active, level, CS_SERVER) THEN "closed" ELSE origin
  BY DEF CloseClient
<1>2. ~Disconnects(active, level, CS_SERVER) /\ origin' = origin /\ Usable
  BY <1>1 DEF Usable
<1>3. active \in SUBSET Segment /\ (active # {} => "CLIENT_IN" \in active)
  BY DEF TypeOK, ClosedTogether
<1>4. CASE active = {}
  <2>1. "CLIENT_IN" \notin level \intersect active /\ "SERVER_OUT" \notin level \intersect active
    BY <1>4
  <2>2. ActiveAfter(active, level) = active \ level
    BY <1>3, <2>1, WhatCloses
  <2> QED
    BY <1>1, <1>2, <1>4, <2>2
<1>5. CASE active # {} /\ "CLIENT_IN" \in level
  BY <1>1, <1>2, <1>3, <1>5, WhatCloses
<1>6. CASE active # {} /\ "CLIENT_IN" \notin level /\ "SERVER_OUT" \in level \intersect active
  <2>1. ActiveAfter(active, level) = active \ (level \union {"SERVER_IN"})
    BY <1>3, <1>6, WhatCloses
  <2>2. Disconnects(active, level, CS_SERVER)
    BY <1>6, <2>1 DEF Disconnects, CS_SERVER
  <2> QED
    BY <1>2, <2>2
<1>7. CASE active # {} /\ "CLIENT_IN" \notin level /\ "SERVER_OUT" \notin level \intersect active
  <2>1. ActiveAfter(active, level) = active \ level
    BY <1>3, <1>7, WhatCloses
  <2>2. "SERVER_IN" \notin level
    BY <1>7
  <2>3. ASSUME "SERVER_IN" \in active', "serverWrite" \in ready
        PROVE  "serverWrite" \in ready'
    <3>1. "serverWrite" \in flags
      BY <2>3
    <3>2. ASSUME NEW s \in active \ active'
          PROVE  FlagOf(s) # "serverWrite"
      <4>1. s \in Segment /\ s # "SERVER_IN"
        BY <1>3, <2>3, <3>2
      <4> QED
        BY <4>1 DEF Segment, CS_CLIENT, CS_SERVER, CS_FILTER, FlagOf
    <3> QED
      BY <1>1, <3>1, <3>2
  <2> QED
    BY <1>1, <1>2, <1>7, <2>1, <2>2, <2>3
<1> QED
  BY <1>4, <1>5, <1>6, <1>7

(* The origin is not usable again once it is not.                          *)
LEMMA PeersUse == Peers /\ Usable' => Usable
<1>1. OriginStep \/ OriginFails => (Usable' => Usable)
  BY DEF OriginStep, OriginAccepts, OriginServes, OriginSays, OriginFails, Usable
<1>2. ClientSends \/ ClientCloses \/ ClientReads => origin' = origin
  BY DEF ClientSends, ClientCloses, ClientReads, peerVars
<1>3. FilterReads \/ FilterWrites \/ FilterExits => origin' = origin
  BY DEF FilterReads, FilterWrites, FilterExits
<1> QED
  BY <1>1, <1>2, <1>3 DEF Peers, Usable

LEMMA LinkedStays ==
  ASSUME Linked, Usable' => Usable, UNCHANGED << active, pending >>,
         "serverWrite" \in ready => "serverWrite" \in ready'
  PROVE  Linked'
BY DEF Linked

LEMMA LinkedCloses ==
  ASSUME TypeOK, ClosedTogether, Linked, NEW level \in SUBSET Segment, NEW flags,
         "serverWrite" \in ready => "serverWrite" \in flags,
         "SERVER_IN" \in level => "CLIENT_IN" \in level,
         "CLIENT_IN" \in level \/ pending' = pending,
         CloseClient(level, flags)
  PROVE  Linked'
<1> SUFFICES ASSUME Usable'
             PROVE  /\ "SERVER_OUT" \in active' => "SERVER_IN" \in active'
                    /\ "SERVER_IN" \in active' => "serverWrite" \in ready'
                    /\ ~pending' /\ active' # {} => "SERVER_IN" \in active'
  BY DEF Linked
<1>1. /\ Usable
      /\ \/ active' = {}
         \/ /\ active' = active \ level /\ "CLIENT_IN" \notin level
            /\ "SERVER_OUT" \in active <=> "SERVER_OUT" \in active'
            /\ "SERVER_IN" \in active <=> "SERVER_IN" \in active'
            /\ "SERVER_IN" \in active' /\ "serverWrite" \in ready => "serverWrite" \in ready'
  BY ClosingLeavesOrigin
<1>2. CASE active' = {}
  BY <1>2
<1>3. CASE /\ active' = active \ level /\ "CLIENT_IN" \notin level
           /\ "SERVER_OUT" \in active <=> "SERVER_OUT" \in active'
           /\ "SERVER_IN" \in active <=> "SERVER_IN" \in active'
           /\ "SERVER_IN" \in active' /\ "serverWrite" \in ready => "serverWrite" \in ready'
  <2>1. active' # {} => active # {}
    BY <1>3
  <2>2. pending' = pending
    BY <1>3
  <2>3. /\ "SERVER_OUT" \in active => "SERVER_IN" \in active
        /\ "SERVER_IN" \in active => "serverWrite" \in ready
        /\ ~pending /\ active # {} => "SERVER_IN" \in active
    BY <1>1 DEF Linked
  <2> QED
    BY <1>3, <2>1, <2>2, <2>3, Zenon
<1> QED
  BY <1>1, <1>2, <1>3

LEMMA LinkedStep == TypeInv /\ ClosingInv /\ Linked /\ [Next]_vars => Linked'
<1> SUFFICES ASSUME TypeInv, ClosingInv, Linked, [Next]_vars
             PROVE  Linked'
  OBVIOUS
<1>1. TypeOK /\ ClosedTogether
  BY DEF TypeInv, ClosingInv
<1>2. /\ {"FILTER_IN"} \in SUBSET Segment /\ {"FILTER_OUT"} \in SUBSET Segment
      /\ {"SERVER_OUT"} \in SUBSET Segment /\ {"CLIENT_OUT"} \in SUBSET Segment
      /\ CS_CLIENT \in SUBSET Segment
      /\ CS_CLIENT \union CS_SERVER \in SUBSET Segment
      /\ CS_SERVER \union CS_CLIENT \in SUBSET Segment
      /\ "CLIENT_IN" \in CS_CLIENT /\ "SERVER_IN" \notin CS_CLIENT
      /\ "CLIENT_IN" \in CS_CLIENT \union CS_SERVER
      /\ "CLIENT_IN" \in CS_SERVER \union CS_CLIENT
  BY DEF Segment, CS_CLIENT, CS_SERVER, CS_FILTER
<1>3. ASSUME NEW k, NEW flags, GoesOn(k, flags), pending' = pending,
             "serverWrite" \in ready => "serverWrite" \in flags
      PROVE  Linked'
  <2>1. active' = active /\ ready' = flags /\ origin' = origin
    BY <1>3 DEF GoesOn
  <2> QED
    BY <1>3, <2>1, LinkedStays DEF Usable
<1>4. CASE Connect
  <2>1. pending' = pending
    BY <1>4 DEF Connect
  <2>2. CASE CloseClient(CS_CLIENT, ready)
    BY <1>1, <1>2, <2>1, <2>2, LinkedCloses
  <2>3. CASE active' = active \union CS_SERVER /\ UNCHANGED << ready, origin >>
    <3>1. "serverWrite" \in ready /\ "SERVER_IN" \in CS_SERVER
      BY <1>4 DEF Connect, Reaches, BlockEnabled, ConnectEnabled, CS_SERVER
    <3> QED
      BY <2>3, <3>1 DEF Linked
  <2> QED
    BY <1>4, <2>2, <2>3 DEF Connect
<1>5. CASE Feed
  <2>1. pending' = pending
    BY <1>5 DEF Feed
  <2>2. PICK flags : /\ CloseClient({"FILTER_IN"}, flags) \/ GoesOn(2, flags)
                     /\ "serverWrite" \in ready => "serverWrite" \in flags
    BY <1>5 DEF Feed
  <2> QED
    BY <1>1, <1>2, <1>3, <2>1, <2>2, LinkedCloses
<1>6. CASE RespondInvalid \/ RespondWaits
  <2>1. pending' = pending
    BY <1>6 DEF RespondInvalid, RespondWaits
  <2>2. PICK flags : /\ CloseClient({"SERVER_OUT"}, flags) \/ GoesOn(2, flags)
                     /\ "serverWrite" \in ready => "serverWrite" \in flags
    BY <1>6 DEF RespondInvalid, RespondWaits
  <2> QED
    BY <1>1, <1>2, <1>3, <2>1, <2>2, LinkedCloses
<1>7. CASE Respond
  <2>1. PICK flags : /\ GoesOn(2, flags)
                     /\ "serverWrite" \in ready => "serverWrite" \in flags
    BY <1>7 DEF Respond
  <2>2. active' = active /\ ready' = flags /\ origin' = origin
    BY <2>1 DEF GoesOn
  <2>3. "SERVER_OUT" \in active
    BY <1>7, Reached DEF Respond, RespondDone
  <2> QED
    BY <2>1, <2>2, <2>3 DEF Linked, Usable
<1>8. CASE RespondQuit
  BY <1>1, <1>2, <1>8, LinkedCloses DEF RespondQuit
<1>9. CASE RespondRetrieve
  <2>1. /\ active' = active \union CS_FILTER /\ origin' = origin
        /\ ready' = ready \ {"filterRead", "filterWrite"}
    BY <1>9 DEF RespondRetrieve
  <2>2. "SERVER_OUT" \in active
    BY <1>9, Reached DEF RespondRetrieve, RespondDone
  <2> QED
    BY <2>1, <2>2 DEF Linked, Usable, CS_FILTER
<1>10. CASE Drain
  <2>1. pending' = pending
    BY <1>10 DEF Drain
  <2>2. PICK flags : /\ CloseClient({"FILTER_OUT"}, flags) \/ GoesOn(3, flags)
                     /\ "serverWrite" \in ready => "serverWrite" \in flags
    BY <1>10 DEF Drain
  <2> QED
    BY <1>1, <1>2, <1>3, <2>1, <2>2, LinkedCloses
<1>11. CASE TakeCommand \/ TakeNothing
  <2>1. pending' = pending
    BY <1>11 DEF TakeCommand, TakeNothing
  <2>2. PICK flags : /\ CloseClient({"CLIENT_OUT"}, flags) \/ GoesOn(4, flags)
                     /\ "serverWrite" \in ready => "serverWrite" \in flags
    BY <1>11 DEF TakeCommand, TakeNothing
  <2> QED
    BY <1>1, <1>2, <1>3, <2>1, <2>2, LinkedCloses
<1>12. CASE SendNothing
  <2>1. pending' = pending /\ GoesOn(5, WakeToAnswer)
    BY <1>12 DEF SendNothing
  <2>2. "serverWrite" \in ready => "serverWrite" \in WakeToAnswer
    BY DEF WakeToAnswer
  <2> QED
    BY <1>3, <2>1, <2>2
<1>13. CASE SendCommand
  <2>1. /\ active' = active
        /\ ready' = (ready \ {"clientWrite"}) \union FlagIf(unread < LowWater, "clientWrite")
        /\ origin' = (IF origin = "up" THEN "up" ELSE "reset")
    BY <1>13 DEF SendCommand
  <2>2. "SERVER_IN" \in active
    BY <1>13, Reached DEF SendCommand
  <2>3. Usable' => Usable
    BY <2>1 DEF Usable
  <2> QED
    BY <2>1, <2>2, <2>3 DEF Linked
<1>14. CASE SendFails
  <2>1. origin \in {"reset", "closed"} /\ origin' \in {origin, "closed"}
    BY <1>14 DEF SendFails, CloseClient
  <2> QED
    BY <2>1 DEF Linked, Usable
<1>15. CASE Finish
  BY <1>1, <1>2, <1>15, LinkedCloses DEF Finish
<1>16. CASE Poll
  BY <1>16, LinkedStays DEF Poll, Usable, peerVars
<1>17. CASE Peers \/ UNCHANGED vars
  <2>1. UNCHANGED proxyVars /\ (Usable' => Usable)
    BY <1>17, PeersLeaveProxy, PeersUse DEF vars, peerVars, Usable
  <2> QED
    BY <2>1, LinkedStays DEF proxyVars
<1> QED
  BY <1>4, <1>5, <1>6, <1>7, <1>8, <1>9, <1>10, <1>11, <1>12, <1>13, <1>14, <1>15, <1>16, <1>17
     DEF Next, Proxy, ProcessClient, Peers

LEMMA LinkedAlways == Spec => []Linked
<1>1. Init => Linked
  <2> SUFFICES ASSUME Init PROVE Linked
    OBVIOUS
  <2>1. active = CS_CLIENT
    BY DEF Init
  <2>2. pending
    BY Zenon DEF Init
  <2>3. "SERVER_OUT" \notin active /\ "SERVER_IN" \notin active
    BY <2>1 DEF CS_CLIENT
  <2> QED
    BY <2>2, <2>3 DEF Linked
<1>2. TypeInv /\ ClosingInv /\ Linked /\ [Next]_vars => Linked'
  BY LinkedStep
<1>3. Spec => [](TypeInv /\ ClosingInv)
  BY TypeCorrect, ClosingInit, ClosingStep, PTL DEF TypeInv, Spec
<1> QED
  BY <1>1, <1>2, <1>3, PTL DEF Spec

-----------------------------------------------------------------------------
(* What the origin says on a command: one status line, and more lines only *)
(* after an "ok" to a command whose replies processPopServer takes to be   *)
(* long; the end line is the last.                                         *)
EndLast(s) == \A i \in 1 .. Len(s) : s[i].part = "end" => i = Len(s)

OneReply(s, kind) ==
  /\ Len(s) > 0 => s[1].part \in {"ok", "err"}
  /\ Len(s) > 1 => s[1].part = "ok" /\ kind \in Multiline
  /\ EndLast(s)

(* What is left of it when the scanner is in a state.                      *)
Ongoing(state, s, kind) ==
  IF state \in {"fresh", "status"} THEN OneReply(s, kind) ELSE EndLast(s)

(* A reply that is cut in two.                                             *)
LEMMA EndLastParts ==
  ASSUME NEW s \in Seq(Token), NEW t \in Seq(Token), EndLast(s \o t)
  PROVE  /\ EndLast(s) /\ EndLast(t)
         /\ \A i \in 1 .. Len(s) : s[i].part = "end" => i = Len(s) /\ t = << >>
<1> DEFINE st == s \o t
<1>1. Len(s) \in Nat /\ Len(t) \in Nat
  BY LenProperties
<1>2. /\ st \in Seq(Token) /\ Len(st) = Len(s) + Len(t)
      /\ \A i \in 1 .. Len(s) + Len(t) : st[i] = IF i <= Len(s) THEN s[i] ELSE t[i - Len(s)]
  BY ConcatProperties
<1>3. \A i \in 1 .. Len(st) : st[i].part = "end" => i = Len(st)
  BY DEF EndLast
<1> HIDE DEF st
<1>4. ASSUME NEW i \in 1 .. Len(s), s[i].part = "end"
      PROVE  i = Len(s) /\ t = << >>
  <2>1. i \in 1 .. Len(st) /\ st[i] = s[i] /\ i \in Nat
    BY <1>1, <1>2
  <2>2. i = Len(s) + Len(t)
    BY <1>2, <1>3, <1>4, <2>1
  <2>3. i = Len(s) /\ Len(t) = 0
    BY <1>1, <2>1, <2>2
  <2> QED
    BY <2>3, EmptySeq
<1>5. ASSUME NEW i \in 1 .. Len(t), t[i].part = "end"
      PROVE  i = Len(t)
  <2>1. PICK k \in 1 .. Len(st) : k = Len(s) + i
    BY <1>1, <1>2
  <2>2. k \in Nat /\ i \in Nat /\ ~(k <= Len(s)) /\ k - Len(s) = i
    BY <1>1, <1>2, <2>1
  <2>3. st[k] = t[i]
    BY <1>2, <2>2
  <2>4. k = Len(s) + Len(t)
    BY <1>2, <1>3, <1>5, <2>1, <2>3
  <2> QED
    BY <1>1, <2>1, <2>2, <2>4
<1> QED
  BY <1>4, <1>5 DEF EndLast

(* What it stays when the end of it is lost.                               *)
LEMMA OngoingPrefix ==
  ASSUME NEW s \in Seq(Token), NEW t \in Seq(Token), NEW state, NEW kind,
         Ongoing(state, s \o t, kind)
  PROVE  Ongoing(state, s, kind)
<1> DEFINE st == s \o t
<1>1. Len(s) \in Nat /\ Len(t) \in Nat
  BY LenProperties
<1>2. /\ Len(st) = Len(s) + Len(t)
      /\ \A i \in 1 .. Len(s) + Len(t) : st[i] = IF i <= Len(s) THEN s[i] ELSE t[i - Len(s)]
  BY ConcatProperties
<1>3. EndLast(st) => EndLast(s)
  BY EndLastParts
<1> HIDE DEF st
<1>4. Len(s) > 0 => Len(st) > 0 /\ st[1] = s[1]
  BY <1>1, <1>2
<1>5. Len(s) > 1 => Len(st) > 1
  BY <1>1, <1>2
<1>6. Ongoing(state, st, kind)
  BY DEF st
<1> QED
  BY <1>1, <1>3, <1>4, <1>5, <1>6 DEF Ongoing, OneReply

-----------------------------------------------------------------------------
(* parsePopResponse on a part of such a reply, tail being still to come:   *)
(* it completes when the reply does, and leaves nothing in the buffer.     *)
Continues(r, in, tail, kind) ==
  /\ r.next.buf = << >>
  /\ ~r.done => /\ r.next.state \in {"status", "list", "list0"}
                /\ Ongoing(r.next.state, tail, kind)
                /\ in.buf = << >> /\ in.state = "fresh" => r.next.state = "status"
  /\ r.done => /\ r.next.state = "fresh"
               /\ tail = << >> \/ (in.buf = << >> /\ in.state \in {"status", "list0"})
  /\ in.buf = << >> /\ in.state = "fresh" => ~r.done

(* What a scan that stops, and one that completes, leaves.                 *)
Stops(r, state) == ~r.done /\ r.next.state = state /\ r.next.buf = << >>
Ends(r, rest)   == r.done /\ r.next.state = "fresh" /\ r.next.buf = rest

LEMMA WaitsStops ==
  ASSUME NEW in \in Inputs(Id), NEW out, NEW state
  PROVE  Stops(Waits(in, out, state), state)
<1> DEFINE next == [in EXCEPT !.state = state, !.buf = << >>, !.out = @ \o out]
           r    == Waits(in, out, state)
<1>1. next.state = state /\ next.buf = << >>
  BY DEF Inputs
<1>2. r = [done |-> FALSE, success |-> FALSE, out |-> << >>, next |-> next]
  BY Zenon DEF Waits
<1> HIDE DEF next, r
<1>3. Stops(r, state)
  BY <1>1, <1>2 DEF Stops
<1> QED
  BY <1>3 DEF r

LEMMA CompletesEnds ==
  ASSUME NEW in, NEW out, NEW rest, NEW success
  PROVE  Ends(Completes(in, out, rest, success), rest)
<1> DEFINE next == [state |-> "fresh", buf |-> rest, out |-> << >>, held |-> << >>]
           gave == in.out \o out
           r    == Completes(in, out, rest, success)
<1>1. next.state = "fresh" /\ next.buf = rest
  OBVIOUS
<1>2. r = [done |-> TRUE, success |-> success, out |-> gave, next |-> next]
  BY Zenon DEF Completes
<1> HIDE DEF next, gave, r
<1>3. Ends(r, rest)
  BY <1>1, <1>2 DEF Ends
<1> QED
  BY <1>3 DEF r

Copies(r, tail) ==
  \/ Ends(r, << >>) /\ tail = << >>
  \/ (Stops(r, "list") \/ Stops(r, "list0")) /\ EndLast(tail)

LEMMA ScanListCopies ==
  ASSUME NEW in \in Inputs(Id), NEW own, NEW buf \in Seq(Token), NEW seen \in BOOLEAN,
         NEW tail \in Seq(Token), EndLast(buf \o tail)
  PROVE  Copies(ScanList(in, own, buf, seen), tail)
<1> DEFINE ends == EndsAt(buf, seen)
           last == CHOOSE i \in ends : \A j \in ends : i <= j
           rest == SubSeq(buf, last + 1, Len(buf))
           r    == ScanList(in, own, buf, seen)
<1>0. /\ EndLast(tail) /\ Len(buf) \in Nat
      /\ \A i \in 1 .. Len(buf) : buf[i].part = "end" => i = Len(buf) /\ tail = << >>
  BY EndLastParts, LenProperties
<1>1. CASE ends # {}
  <2>1. ends \subseteq 1 .. Len(buf) /\ \A i \in ends : buf[i].part = "end"
    BY DEF EndsAt
  <2>2. \E i \in ends : \A j \in ends : i <= j
    BY <1>0, <1>1, <2>1, LeastElement
  <2>3. last \in ends
    BY <2>2
  <2>4. r = Completes(in, own \o SubSeq(buf, 1, last), rest, TRUE)
    BY <1>1, Zenon DEF ScanList
  <2>5. Ends(r, rest)
    BY <2>4, CompletesEnds
  <2> HIDE DEF last, ends, r
  <2>6. last \in 1 .. Len(buf) /\ last = Len(buf) /\ tail = << >>
    BY <1>0, <2>1, <2>3
  <2>7. rest = << >>
    BY <1>0, <2>6, SubSeqEmpty
  <2> HIDE DEF rest
  <2>8. Copies(r, tail)
    BY <2>5, <2>6, <2>7 DEF Copies
  <2> QED
    BY <2>8 DEF r
<1>2. CASE ends = {}
  <2>1. r = Waits(in, own \o buf, IF buf = << >> THEN "list0" ELSE "list")
    BY <1>2, Zenon DEF ScanList
  <2>2. Stops(r, IF buf = << >> THEN "list0" ELSE "list")
    BY <2>1, WaitsStops, Zenon
  <2> HIDE DEF r
  <2>3. Copies(r, tail)
    BY <1>0, <2>2 DEF Copies
  <2> QED
    BY <2>3 DEF r
<1> QED
  BY <1>1, <1>2

LEMMA ScanContinues ==
  ASSUME NEW in \in Inputs(Id), in.state # "body", NEW tail \in Seq(Token), NEW kind, NEW id,
         Ongoing(in.state, in.buf \o tail, kind)
  PROVE  Continues(parsePopResponse(in, kind \in Multiline, id), in, tail, kind)
<1>0. /\ in.buf \in Seq(Token) /\ Len(in.buf) \in Nat /\ Len(tail) \in Nat
      /\ in.state \in {"fresh", "status", "list", "list0"}
  BY TokenIsTokens, LenProperties DEF Inputs, ReplyState
<1> DEFINE whole == in.buf \o tail
           r     == parsePopResponse(in, kind \in Multiline, id)
<1>1. /\ Len(whole) = Len(in.buf) + Len(tail)
      /\ \A i \in 1 .. Len(in.buf) : whole[i] = in.buf[i]
      /\ in.buf = << >> => whole = tail
  BY <1>0, ConcatProperties
<1>2. Ongoing(in.state, whole, kind)
  OBVIOUS
<1> HIDE DEF whole
<1>3. CASE in.state = "fresh" /\ in.buf = << >>
  <2>1. r = Waits(in, << >>, "status")
    BY <1>3, Zenon DEF parsePopResponse
  <2>2. Stops(r, "status")
    BY <2>1, WaitsStops
  <2> HIDE DEF r
  <2>3. Ongoing("status", tail, kind)
    BY <1>1, <1>2, <1>3 DEF Ongoing
  <2>4. Continues(r, in, tail, kind)
    BY <2>2, <2>3 DEF Continues, Stops
  <2> QED
    BY <2>4 DEF r
<1>4. CASE in.state \in {"status", "list0"} /\ in.buf = << >>
  <2>1. \E success \in BOOLEAN : r = Completes(in, << >>, << >>, success)
    BY <1>4 DEF parsePopResponse
  <2>2. Ends(r, << >>)
    BY <2>1, CompletesEnds
  <2> HIDE DEF r
  <2>3. Continues(r, in, tail, kind)
    BY <1>4, <2>2 DEF Continues, Ends
  <2> QED
    BY <2>3 DEF r
<1>5. CASE in.state \in {"fresh", "status"} /\ in.buf # << >>
  <2>1. r = ScanStatus(in, kind \in Multiline, id)
    BY <1>5 DEF parsePopResponse
  <2>2. /\ Len(in.buf) > 0 /\ Head(in.buf) = in.buf[1] /\ in.buf[1] = whole[1]
        /\ Tail(in.buf) \in Seq(Token) /\ Len(Tail(in.buf)) = Len(in.buf) - 1
    BY <1>0, <1>1, <1>5, EmptySeq, HeadTailProperties
  <2>3. /\ Head(in.buf).part \in {"ok", "err"}
        /\ Len(whole) > 1 => Head(in.buf).part = "ok" /\ kind \in Multiline
        /\ EndLast(whole)
    BY <1>0, <1>1, <1>2, <1>5, <2>2 DEF Ongoing, OneReply
  <2>4. CASE Head(in.buf).part = "ok" /\ kind \in Multiline
    <3> DEFINE kept == [in EXCEPT !.held = << >>]
               line == Head(in.buf)
               one  == << Head(in.buf) >>
               rest == Tail(in.buf)
    <3>0. kept \in Inputs(Id) /\ r = ScanList(kept, Held(in, line), rest, FALSE)
      <4>1. kept \in Inputs(Id)
        BY <1>0, KeptType, Zenon
      <4>2. line.part = "ok" /\ ~(line.part \notin {"ok", "err"})
        BY <2>4
      <4> QED
        BY <2>1, <2>4, <4>1, <4>2, Zenon DEF ScanStatus
    <3>2. one \in Seq(Token) /\ rest \in Seq(Token) /\ one \o rest = in.buf
      BY <1>0, <1>5, HeadTailProperties
    <3> HIDE DEF kept, one, line, rest
    <3>3. EndLast((one \o rest) \o tail)
      BY <2>3, <3>2 DEF whole
    <3>4. (one \o rest) \o tail = one \o (rest \o tail)
      BY <3>2, Associative, Zenon
    <3>5. rest \o tail \in Seq(Token)
      BY <3>2, ConcatProperties
    <3> DEFINE beyond == rest \o tail
    <3>6. EndLast(one \o beyond)
      BY <3>3, <3>4
    <3>7. beyond \in Seq(Token)
      BY <3>5
    <3> HIDE DEF beyond
    <3>8. EndLast(beyond)
      BY <3>2, <3>6, <3>7, EndLastParts
    <3>9. Copies(ScanList(kept, Held(in, line), rest, FALSE), tail)
      <4>1. EndLast(rest \o tail)
        BY <3>8 DEF beyond
      <4> QED
        BY <3>0, <3>2, <4>1, ScanListCopies, Zenon
    <3>10. Copies(r, tail)
      BY <3>0, <3>9
    <3> HIDE DEF r
    <3>11. Continues(r, in, tail, kind)
      BY <1>5, <3>10 DEF Continues, Copies, Ends, Stops, Ongoing
    <3> QED
      BY <3>11 DEF r
  <2>5. CASE ~(Head(in.buf).part = "ok" /\ kind \in Multiline)
    <3>1. ~(Len(whole) > 1)
      BY <2>3, <2>5, Zenon
    <3>2. Len(Tail(in.buf)) = 0 /\ Len(tail) = 0
      <4>1. \A a, b \in Nat : ~(a + b > 1) /\ a > 0 => a - 1 = 0 /\ b = 0
        OBVIOUS
      <4> QED
        BY <1>0, <1>1, <2>2, <3>1, <4>1, Zenon
    <3>9. Tail(in.buf) = << >> /\ tail = << >>
      BY <2>2, <3>2, EmptySeq
    <3>3. r = Completes(in, Held(in, Head(in.buf)), Tail(in.buf), Head(in.buf).part = "ok")
      BY <2>1, <2>3, <2>5, Zenon DEF ScanStatus
    <3>4. Ends(r, Tail(in.buf))
      BY <3>3, CompletesEnds
    <3> HIDE DEF r
    <3>5. Continues(r, in, tail, kind)
      BY <1>5, <3>4, <3>9 DEF Continues, Ends
    <3> QED
      BY <3>5 DEF r
  <2> QED
    BY <2>4, <2>5
<1>6. CASE in.state = "list" \/ (in.state = "list0" /\ in.buf # << >>)
  <2>1. r = ScanList(in, << >>, in.buf, in.state = "list")
    BY <1>6 DEF parsePopResponse
  <2>2. EndLast(in.buf \o tail)
    BY <1>2, <1>6 DEF Ongoing, whole
  <2>3. (in.state = "list") \in BOOLEAN
    OBVIOUS
  <2>4. Copies(ScanList(in, << >>, in.buf, in.state = "list"), tail)
    BY <1>0, <2>2, <2>3, ScanListCopies, Zenon
  <2>5. Copies(r, tail)
    BY <2>1, <2>4
  <2> HIDE DEF r
  <2>6. Continues(r, in, tail, kind)
    BY <1>6, <2>5 DEF Continues, Copies, Ends, Stops, Ongoing
  <2> QED
    BY <2>6 DEF r
<1> QED
  BY <1>0, <1>3, <1>4, <1>5, <1>6

(* fillBuffer moves what is to be read from the socket to the scanner.     *)
LEMMA FilledContinues ==
  ASSUME TypeInv, response.buf = << >>
  PROVE  /\ Filled \in Inputs(Id) /\ Filled.state = response.state
         /\ ServerRead.left \o reply \in Seq(Token)
         /\ Filled.buf \o (ServerRead.left \o reply) = s2p \o reply
         /\ Filled.buf = << >> <=> s2p = << >>
         /\ s2p = << >> => ServerRead.left = << >>
<1> DEFINE over == IF origin = "eof" THEN "eof" ELSE IF origin = "up" THEN "again" ELSE "error"
           room == BufSize - Len(response.buf)
           got  == ServerRead.got
           left == ServerRead.left
<1>1. /\ s2p \in Seq(Token) /\ reply \in Seq(Token) /\ response \in Inputs(Id)
      /\ Len(s2p) \in Nat /\ room \in Nat \ {0}
  BY ResponseType, LenProperties, SessionAssumption, EmptySeq DEF TypeInv, TypeOK
<1>2. ServerRead = Read(s2p, room, over)
  BY DEF ServerRead
<1> HIDE DEF over, room
<1>3. got \in Seq(Token) /\ left \in Seq(Token) /\ got \o left = s2p
  BY <1>1, <1>2, ReadType, Zenon
<1>4. got = SubSeq(s2p, 1, IF Len(s2p) <= room THEN Len(s2p) ELSE room)
  BY <1>2 DEF Read
<1>5. s2p # << >> => got # << >>
  <2>1. SUFFICES ASSUME s2p # << >>
                 PROVE  got # << >>
    OBVIOUS
  <2>2. PICK n \in Nat \ {0} : n <= Len(s2p) /\ got = SubSeq(s2p, 1, n)
    BY <1>1, <1>4, <2>1, EmptySeq
  <2>3. Len(SubSeq(s2p, 1, n)) = n
    <3>1. n \in Int /\ 1 \in Int /\ \A i \in 1 .. n : s2p[i] \in Token
      BY <1>1, <2>2, ElementOfSeq
    <3>2. Len(SubSeq(s2p, 1, n)) = IF 1 <= n THEN n - 1 + 1 ELSE 0
      BY <3>1, SubSeqProperties
    <3> QED
      BY <2>2, <3>2
  <2> QED
    BY <2>2, <2>3, EmptySeq
<1> HIDE DEF got, left
<1>6. s2p = << >> => got = << >> /\ left = << >>
  <2>1. /\ Len(got \o left) = Len(got) + Len(left) /\ Len(got) \in Nat /\ Len(left) \in Nat
    BY <1>3, ConcatProperties, LenProperties
  <2>2. s2p = << >> => Len(got) = 0 /\ Len(left) = 0
    BY <1>3, <2>1, EmptySeq
  <2> QED
    BY <1>3, <2>2, EmptySeq
<1>7. response.buf \o got = got
  BY <1>3, ConcatEmptySeq
<1>8. Filled = [response EXCEPT !.buf = got]
  BY <1>7 DEF Filled, got
<1>9. Filled.buf = got /\ Filled.state = response.state /\ Filled \in Inputs(Id)
  BY <1>1, <1>3, <1>8, TokenIsTokens DEF Inputs
<1>10. got \o (left \o reply) = s2p \o reply
  <2>1. (got \o left) \o reply = got \o (left \o reply)
    <3>1. got \in Seq(Token) /\ left \in Seq(Token) /\ reply \in Seq(Token)
      BY <1>1, <1>3
    <3> QED
      BY <3>1, Associative, Zenon
  <2> QED
    BY <1>3, <2>1
<1>11. left \o reply \in Seq(Token)
  BY <1>1, <1>3, ConcatProperties
<1> QED
  BY <1>5, <1>6, <1>9, <1>10, <1>11 DEF left

-----------------------------------------------------------------------------
(* The conversation with a usable origin.  Nothing is on its way unless    *)
(* the head of the queue is: either not read by the origin yet, or served. *)
Idle == /\ p2s = << >> /\ s2p = << >> /\ reply = << >>
        /\ response.state \in {"fresh", "status"}

Unserved == /\ p2s = << Head(queue) >> /\ s2p = << >> /\ reply = << >>
            /\ response.state \in {"fresh", "status"}

Served == /\ p2s = << >>
          /\ Ongoing(response.state, s2p \o reply, Head(queue).kind)

(* The scanner has nothing left of an earlier reply, and is called only    *)
(* when there is something to read, or the end of the stream.              *)
Scanning == /\ response.buf = << >> /\ response.state # "body"
            /\ response.state \in {"status", "list0"} /\ "serverRead" \in ready
                 => s2p # << >> \/ origin = "eof"

AtItsEnd == origin = "eof" => p2s = << >> /\ reply = << >>

(* A command that can be sent but was not is on its way through this pass, *)
(* or the client is done; then processPopServer may have looked at the     *)
(* origin's stream already, which was empty.                               *)
Waiting == queue # << >> /\ Head(queue).kind # "INVALID"

Awaiting ==
  active # {} =>
    /\ response.state = "status" => at \in 3 .. 5 /\ "CLIENT_OUT" \notin active /\ Waiting
    /\ Waiting => at \in 3 .. 5 \/ "CLIENT_OUT" \notin active

Conversing ==
  /\ Scanning /\ AtItsEnd
  /\ pending  => Served \/ Unserved
  /\ ~pending => Idle /\ Awaiting

ConvInv == Usable => Conversing

LEMMA ConvInit == Init => ConvInv
<1> SUFFICES ASSUME Init PROVE ConvInv
  OBVIOUS
<1>1. /\ response = [state |-> "fresh", buf |-> << >>, out |-> << >>, held |-> << >>]
      /\ s2p = << >> /\ p2s = << >> /\ origin = "connecting"
  BY DEF Init
<1>2. pending
  BY Zenon DEF Init
<1>3. PICK part \in {"ok", "err"} : reply = << [id |-> 0, part |-> part] >>
  BY DEF Init
<1>4. s2p \o reply = reply /\ Len(reply) = 1 /\ reply[1].part = part
  BY <1>1, <1>3
<1>5. OneReply(reply, Head(queue).kind)
  BY <1>4 DEF OneReply, EndLast
<1>6. Served /\ Scanning /\ AtItsEnd
  BY <1>1, <1>4, <1>5 DEF Served, Scanning, AtItsEnd, Ongoing
<1> QED
  BY <1>2, <1>6 DEF ConvInv, Conversing

(* What the block of a reply finds.                                        *)
Answers ==
  /\ pending /\ p2s = << >> /\ reply = << >> /\ ServerRead.left = << >>
  /\ Parsed.next.state = "fresh"

StillServed ==
  /\ pending /\ p2s = << >>
  /\ Ongoing(Parsed.next.state, ServerRead.left \o reply, Head(queue).kind)

StillUnserved ==
  /\ pending /\ p2s = << Head(queue) >> /\ ServerRead.left = << >> /\ reply = << >>
  /\ Parsed.next.state = "status"

LooksEarly ==
  /\ ~pending /\ p2s = << >> /\ ServerRead.left = << >> /\ reply = << >>
  /\ Parsed.next.state = "status" /\ "CLIENT_OUT" \notin active

LEMMA RespondContinues ==
  ASSUME TypeInv, ConvInv, Usable, Responding, Head(queue).kind # "INVALID"
  PROVE  /\ Parsed.next.buf = << >> /\ Parsed.next.state # "body"
         /\ Parsed.done => Answers
         /\ ~Parsed.done => StillServed \/ StillUnserved \/ LooksEarly
<1> DEFINE kind == Head(queue).kind
           tail == ServerRead.left \o reply
<1>1. /\ at <= 2 /\ "serverRead" \in ready /\ queue # << >> /\ active # {} /\ at \notin 3 .. 5
  <2>1. at <= 2 /\ queue # << >> /\ active # {}
    BY Reached DEF Responding
  <2>2. "serverRead" \in ready
    BY DEF Responding, Reaches, BlockEnabled, FeedEnabled, RespondEnabled
  <2>3. at \in Nat
    BY DEF TypeInv, TypeOK
  <2> QED
    BY <2>1, <2>2, <2>3
<1>2. Conversing /\ Scanning /\ AtItsEnd
  BY DEF ConvInv, Conversing
<1>3. /\ Filled \in Inputs(Id) /\ Filled.state = response.state
      /\ tail \in Seq(Token) /\ Filled.buf \o tail = s2p \o reply
      /\ Filled.buf = << >> <=> s2p = << >>
      /\ s2p = << >> => ServerRead.left = << >>
  BY <1>2, FilledContinues DEF Scanning
<1>4. /\ reply \in Seq(Token) /\ ServerRead.left \in Seq(Token)
      /\ tail = << >> => ServerRead.left = << >> /\ reply = << >>
  <2>1. reply \in Seq(Token) /\ ServerRead.left \in Seq(Token)
    BY FilledType, TokenIsTokens DEF TypeInv, TypeOK
  <2>2. /\ Len(tail) = Len(ServerRead.left) + Len(reply)
        /\ Len(ServerRead.left) \in Nat /\ Len(reply) \in Nat
    BY <2>1, ConcatProperties, LenProperties
  <2> HIDE DEF tail
  <2>3. tail = << >> => Len(ServerRead.left) = 0 /\ Len(reply) = 0
    BY <2>2, EmptySeq
  <2> QED
    BY <2>1, <2>3, EmptySeq
<1>5. Served \/ Unserved \/ Idle
  BY <1>2, Zenon DEF Conversing
<1>6. Ongoing(response.state, s2p \o reply, kind)
  <2>1. CASE Served
    BY <2>1 DEF Served
  <2>2. CASE Unserved \/ Idle
    <3>1. s2p = << >> /\ reply = << >> /\ response.state \in {"fresh", "status"}
      BY <2>2 DEF Unserved, Idle
    <3>2. s2p \o reply = << >> /\ Len(<< >>) = 0
      BY <3>1, EmptySeq
    <3> DEFINE none == s2p \o reply
    <3>3. Len(none) = 0
      BY <3>2
    <3> HIDE DEF none
    <3>4. Ongoing(response.state, none, kind)
      BY <3>1, <3>3 DEF Ongoing, OneReply, EndLast
    <3> QED
      BY <3>4 DEF none
  <2> QED
    BY <1>5, <2>1, <2>2
<1> HIDE DEF tail, kind
<1>7. Continues(Parsed, Filled, tail, kind)
  <2>1. Ongoing(Filled.state, Filled.buf \o tail, kind) /\ Filled.state # "body"
    BY <1>2, <1>3, <1>6 DEF Scanning
  <2> QED
    BY <1>3, <2>1, ScanContinues, Zenon DEF Parsed, kind
<1>8. CASE pending /\ Served
  <2>1. ASSUME Parsed.done
        PROVE  Answers
    <3>1. reply = << >> /\ ServerRead.left = << >>
      <4>1. CASE tail = << >>
        BY <1>4, <4>1
      <4>2. CASE Filled.buf = << >> /\ Filled.state \in {"status", "list0"}
        BY <1>1, <1>2, <1>3, <4>2 DEF Scanning, AtItsEnd
      <4> QED
        BY <1>7, <2>1, <4>1, <4>2 DEF Continues
    <3>2. Parsed.next.state = "fresh"
      BY <1>7, <2>1 DEF Continues
    <3> QED
      BY <1>8, <3>1, <3>2, Zenon DEF Answers, Served
  <2>2. ASSUME ~Parsed.done
        PROVE  StillServed
    BY <1>7, <1>8, <2>2, Zenon DEF Continues, StillServed, Served, tail, kind
  <2>3. Parsed.next.buf = << >> /\ Parsed.next.state # "body"
    BY <1>7 DEF Continues
  <2> QED
    BY <2>1, <2>2, <2>3
<1>9. CASE pending /\ Unserved
  <2>1. s2p = << >> /\ reply = << >> /\ p2s # << >> /\ response.state \in {"fresh", "status"}
    BY <1>9 DEF Unserved
  <2>2. response.state = "fresh"
    BY <1>1, <1>2, <2>1 DEF Scanning, AtItsEnd
  <2>3. ~Parsed.done /\ Parsed.next.state = "status" /\ Parsed.next.buf = << >>
    BY <1>3, <1>7, <2>1, <2>2 DEF Continues
  <2>4. StillUnserved
    BY <1>3, <1>9, <2>1, <2>3, Zenon DEF StillUnserved, Unserved
  <2> QED
    BY <2>3, <2>4
<1>10. CASE ~pending
  <2>1. Idle /\ Awaiting
    BY <1>2, <1>10, Zenon DEF Conversing
  <2>2. s2p = << >> /\ reply = << >> /\ p2s = << >> /\ response.state = "fresh"
    BY <1>1, <2>1 DEF Idle, Awaiting
  <2>3. ~Parsed.done /\ Parsed.next.state = "status" /\ Parsed.next.buf = << >>
    BY <1>3, <1>7, <2>2 DEF Continues
  <2>4. "CLIENT_OUT" \notin active
    BY <1>1, <2>1 DEF Awaiting, Waiting
  <2>5. LooksEarly
    BY <1>3, <1>10, <2>2, <2>3, <2>4, Zenon DEF LooksEarly
  <2> QED
    BY <2>3, <2>5
<1> QED
  BY <1>2, <1>8, <1>9, <1>10, Zenon DEF Conversing

-----------------------------------------------------------------------------
(* Every step keeps the conversation as it is described.                   *)
Grounds == TypeInv /\ ClosingInv /\ Linked /\ LineInv /\ KnownInv /\ Filterless

LEMMA ConvStays ==
  ASSUME ConvInv, Usable' => Usable, origin' = "eof" <=> origin = "eof",
         UNCHANGED << proxyVars, p2s, s2p, reply >>
  PROVE  ConvInv'
<1> SUFFICES ASSUME Usable'
             PROVE  Conversing'
  BY DEF ConvInv
<1>1. Conversing /\ UNCHANGED << active, ready, at, queue, response, p2s, s2p, reply >>
  BY DEF ConvInv, proxyVars
<1>2. Scanning' /\ AtItsEnd'
  <2>1. Scanning /\ AtItsEnd
    BY <1>1, Zenon DEF Conversing
  <2>2. AtItsEnd'
    BY <1>1, <2>1 DEF AtItsEnd
  <2>3. Scanning'
    BY <1>1, <2>1 DEF Scanning
  <2> QED
    BY <2>2, <2>3
<1>3. (Served' <=> Served) /\ (Unserved' <=> Unserved) /\ (Idle' <=> Idle)
  BY <1>1 DEF Served, Unserved, Idle, Ongoing, OneReply, EndLast
<1>4. Awaiting' <=> Awaiting
  BY <1>1 DEF Awaiting, Waiting
<1>5. pending' <=> pending
  BY Zenon DEF proxyVars
<1> QED
  BY <1>1, <1>2, <1>3, <1>4, <1>5, Zenon DEF Conversing

(* A command that can be sent is sent before the pass ends.                *)
LEMMA SentInThisPass ==
  ASSUME Grounds, Usable, ~pending, active # {}, Waiting, at \in 3 .. 5
  PROVE  BlockEnabled(5)
<1>1. Linked
  BY DEF Grounds
<1>2. "SERVER_IN" \in active
  BY <1>1, Zenon DEF Linked
<1>3. "serverWrite" \in ready
  BY <1>1, <1>2, Zenon DEF Linked
<1>4. SendEnabled
  BY <1>2, <1>3, Zenon DEF SendEnabled, Waiting
<1> QED
  BY <1>4 DEF BlockEnabled

LEMMA PollConverses ==
  ASSUME Grounds, ConvInv, Poll
  PROVE  ConvInv'
<1> SUFFICES ASSUME Usable'
             PROVE  Conversing'
  BY DEF ConvInv
<1>1. /\ active # {} /\ \A j \in at .. 6 : ~BlockEnabled(j)
      /\ ready' = ready \union UNION {Reported(fd) : fd \in edges} /\ at' = 1
      /\ UNCHANGED << active, queue, response, p2s, s2p, reply, origin >>
  BY DEF Poll, peerVars
<1>2. pending' <=> pending
  BY Zenon DEF Poll
<1>3. Usable /\ Conversing /\ Scanning /\ AtItsEnd
  <2>1. Usable
    BY <1>1 DEF Usable
  <2> QED
    BY <2>1, Zenon DEF ConvInv, Conversing
<1>4. "serverRead" \in ready' => "serverRead" \in ready \/ s2p # << >> \/ origin = "eof"
  <2>1. ASSUME NEW fd \in edges, "serverRead" \in Reported(fd)
        PROVE  s2p # << >> \/ origin = "eof"
    <3>1. fd \in {"client", "server", "filterIn", "filterOut"}
      BY DEF Grounds, TypeInv, TypeOK
    <3> QED
      BY <1>3, <2>1, <3>1 DEF Reported, FlagIf, Usable
  <2> QED
    BY <1>1, <2>1
<1>5. Scanning' /\ AtItsEnd'
  BY <1>1, <1>3, <1>4 DEF Scanning, AtItsEnd
<1>6. (Served' <=> Served) /\ (Unserved' <=> Unserved) /\ (Idle' <=> Idle)
  BY <1>1 DEF Served, Unserved, Idle, Ongoing, OneReply, EndLast
<1>7. ASSUME ~pending, Idle, Awaiting
      PROVE  Awaiting'
  <2>1. ~(Waiting /\ at \in 3 .. 5)
    <3>1. ASSUME Waiting, at \in 3 .. 5
          PROVE  FALSE
      <4>1. BlockEnabled(5)
        BY <1>1, <1>3, <1>7, <3>1, SentInThisPass
      <4>2. 5 \in at .. 6
        BY <3>1
      <4> QED
        BY <1>1, <4>1, <4>2
    <3> QED
      BY <3>1
  <2> QED
    BY <1>1, <1>7, <2>1 DEF Awaiting, Waiting
<1> QED
  BY <1>2, <1>3, <1>5, <1>6, <1>7, Zenon DEF Conversing

(* The blocks that leave the conversation alone: they go on with the pass, *)
(* or close the client's OUT half.                                         *)
LEMMA ConnectConverses ==
  ASSUME Grounds, ConvInv, Connect
  PROVE  ConvInv'
<1> SUFFICES ASSUME Usable'
             PROVE  Conversing'
  BY DEF ConvInv
<1>1. /\ at <= 1 /\ active \intersect CS_SERVER = {}
      /\ UNCHANGED << queue, response, p2s, s2p, reply >>
  BY DEF Connect, Reaches, BlockEnabled, ConnectEnabled, netVars
<1>2. pending' <=> pending
  BY Zenon DEF Connect
<1>3. origin' = origin \/ origin' = "closed"
  BY DEF Connect, CloseClient
<1>4. Usable /\ origin' = origin /\ UNCHANGED ready
  <2>1. Usable /\ origin' = origin
    BY <1>3 DEF Usable
  <2>2. SocketError = {FALSE}
    BY <2>1 DEF SocketError, Usable
  <2> QED
    BY <2>1, <2>2 DEF Connect
<1>5. Conversing /\ Scanning /\ AtItsEnd
  BY <1>4, Zenon DEF ConvInv, Conversing
<1>6. pending
  <2>1. active # {}
    <3>1. at \in Nat
      BY DEF Grounds, TypeInv, TypeOK
    <3> QED
      BY <1>1, <3>1 DEF Grounds, ClosingInv, Alive
  <2>2. "SERVER_IN" \notin active
    BY <1>1 DEF CS_SERVER
  <2> QED
    BY <1>4, <2>1, <2>2, Zenon DEF Grounds, Linked
<1>7. Scanning' /\ AtItsEnd'
  BY <1>1, <1>4, <1>5 DEF Scanning, AtItsEnd
<1>8. (Served' <=> Served) /\ (Unserved' <=> Unserved)
  BY <1>1 DEF Served, Unserved, Ongoing, OneReply, EndLast
<1> QED
  BY <1>2, <1>5, <1>6, <1>7, <1>8, Zenon DEF Conversing

LEMMA RespondInvalidConverses ==
  ASSUME Grounds, ConvInv, RespondInvalid
  PROVE  ConvInv'
<1> SUFFICES ASSUME Usable'
             PROVE  Conversing'
  BY DEF ConvInv
<1>1. /\ Responding /\ Head(queue).kind = "INVALID"
      /\ s2p' = ServerRead.left /\ response' = Filled
      /\ at' = 3 /\ ready' \subseteq ready /\ UNCHANGED << p2s, reply, origin >>
  BY DEF RespondInvalid, GoesOn
<1>2. pending' <=> pending
  BY Zenon DEF RespondInvalid
<1>3. ~pending
  BY <1>1 DEF Grounds, LineInv, SentFirst
<1>4. Usable /\ Conversing /\ Scanning /\ AtItsEnd /\ Idle /\ Awaiting
  <2>1. Usable
    BY <1>1 DEF Usable
  <2> QED
    BY <1>3, <2>1, Zenon DEF ConvInv, Conversing
<1>5. active # {}
  BY <1>1, Reached
<1>6. response.state = "fresh"
  BY <1>1, <1>4, <1>5 DEF Idle, Awaiting, Waiting
<1>7. s2p' = << >> /\ response'.state = "fresh" /\ response'.buf = << >>
  BY <1>1, <1>4, <1>6, FilledContinues DEF Grounds, Idle, Scanning
<1>8. Scanning' /\ AtItsEnd' /\ Idle'
  BY <1>1, <1>4, <1>7 DEF Scanning, AtItsEnd, Idle
<1>9. Awaiting'
  BY <1>1, <1>7 DEF Awaiting
<1> QED
  BY <1>2, <1>3, <1>8, <1>9, Zenon DEF Conversing

LEMMA RespondWaitsConverses ==
  ASSUME Grounds, ConvInv, RespondWaits
  PROVE  ConvInv'
<1> SUFFICES ASSUME Usable'
             PROVE  Conversing'
  BY DEF ConvInv
<1>1. /\ Responding /\ Head(queue).kind # "INVALID" /\ ~Parsed.done
      /\ s2p' = ServerRead.left /\ response' = Parsed.next
      /\ CloseClient({"SERVER_OUT"}, ready) \/ GoesOn(2, ready \ {"serverRead"})
      /\ UNCHANGED << queue, p2s, reply >>
  BY DEF RespondWaits
<1>2. pending' <=> pending
  BY Zenon DEF RespondWaits
<1>3. TypeOK /\ ClosedTogether /\ TypeInv
  BY DEF Grounds, TypeInv, ClosingInv
<1>4. ~CloseClient({"SERVER_OUT"}, ready)
  <2>1. SUFFICES ASSUME CloseClient({"SERVER_OUT"}, ready)
                 PROVE  FALSE
    OBVIOUS
  <2>2. active \in SUBSET Segment /\ {"SERVER_OUT"} \in SUBSET Segment /\ "SERVER_OUT" \in active
    BY <1>1, <1>3, Reached DEF TypeOK, Segment, CS_SERVER
  <2>3. ActiveAfter(active, {"SERVER_OUT"}) = active \ ({"SERVER_OUT"} \union {"SERVER_IN"})
    BY <2>2, WhatCloses
  <2>4. Disconnects(active, {"SERVER_OUT"}, CS_SERVER)
    BY <2>2, <2>3 DEF Disconnects, CS_SERVER
  <2> QED
    BY <2>1, <2>4 DEF CloseClient, Usable
<1>5. at' = 3 /\ ready' = ready \ {"serverRead"} /\ UNCHANGED << active, origin >>
  BY <1>1, <1>4 DEF GoesOn
<1>6. Usable /\ Conversing /\ Scanning /\ AtItsEnd
  <2>1. Usable
    BY <1>5 DEF Usable
  <2> QED
    BY <2>1, Zenon DEF ConvInv, Conversing
<1>7. /\ Parsed.next.buf = << >> /\ Parsed.next.state # "body"
      /\ StillServed \/ StillUnserved \/ LooksEarly
  BY <1>1, <1>3, <1>6, RespondContinues, Zenon
<1>8. Scanning' /\ AtItsEnd'
  BY <1>1, <1>5, <1>6, <1>7 DEF Scanning, AtItsEnd
<1>9. CASE StillServed
  <2>1. Served'
    BY <1>1, <1>9 DEF StillServed, Served, Ongoing, OneReply, EndLast
  <2> QED
    BY <1>2, <1>8, <1>9, <2>1, Zenon DEF StillServed, Conversing
<1>10. CASE StillUnserved
  <2>1. Unserved'
    BY <1>1, <1>10 DEF StillUnserved, Unserved
  <2> QED
    BY <1>2, <1>8, <1>10, <2>1, Zenon DEF StillUnserved, Conversing
<1>11. CASE LooksEarly
  <2>1. Idle'
    BY <1>1, <1>11 DEF LooksEarly, Idle
  <2>2. Awaiting'
    BY <1>1, <1>5, <1>11, Reached DEF LooksEarly, Awaiting, Waiting
  <2> QED
    BY <1>2, <1>8, <1>11, <2>1, <2>2, Zenon DEF LooksEarly, Conversing
<1> QED
  BY <1>7, <1>9, <1>10, <1>11

(* A reply is complete only when a command was waiting for it.             *)
LEMMA AnswerAwaited ==
  ASSUME Grounds, ConvInv, Usable, RespondDone
  PROVE  pending /\ Answers /\ Parsed.next.buf = << >>
<1>1. TypeInv /\ Responding /\ Head(queue).kind # "INVALID" /\ Parsed.done
  BY DEF Grounds, RespondDone
<1>2. Answers /\ Parsed.next.buf = << >>
  BY <1>1, RespondContinues, Zenon
<1> QED
  BY <1>2, Zenon DEF Answers

LEMMA RespondConverses ==
  ASSUME Grounds, ConvInv, Respond
  PROVE  ConvInv'
<1> SUFFICES ASSUME Usable'
             PROVE  Conversing'
  BY DEF ConvInv
<1>1. /\ RespondDone /\ s2p' = ServerRead.left /\ response' = Parsed.next
      /\ at' = 3 /\ ready' \subseteq ready /\ UNCHANGED << p2s, reply, origin >>
  BY DEF Respond, RespondDone, GoesOn
<1>2. ~pending'
  BY Zenon DEF Respond, RespondDone
<1>3. Usable
  BY <1>1 DEF Usable
<1>4. Answers /\ Parsed.next.buf = << >>
  BY <1>1, <1>3, AnswerAwaited, Zenon
<1>5. /\ s2p' = << >> /\ p2s' = << >> /\ reply' = << >>
      /\ response'.state = "fresh" /\ response'.buf = << >>
  BY <1>1, <1>4 DEF Answers
<1>6. Scanning' /\ AtItsEnd' /\ Idle' /\ Awaiting'
  BY <1>1, <1>5 DEF Scanning, AtItsEnd, Idle, Awaiting
<1> QED
  BY <1>2, <1>6, Zenon DEF Conversing

(* The reply to QUIT is the end of the origin's connection.                *)
LEMMA RespondQuitEnds ==
  ASSUME TypeOK, ClosedTogether, RespondQuit
  PROVE  origin' = "closed" /\ active' = {}
<1>1. /\ active \in SUBSET Segment /\ {"SERVER_OUT", "CLIENT_IN"} \subseteq active
      /\ CS_CLIENT \union CS_SERVER \in SUBSET Segment
      /\ CloseClient(CS_CLIENT \union CS_SERVER, ready)
  BY Reached DEF RespondQuit, RespondDone, TypeOK, Segment
<1>2. "CLIENT_IN" \in (CS_CLIENT \union CS_SERVER) \intersect active
  BY <1>1 DEF CS_CLIENT
<1>3. ActiveAfter(active, CS_CLIENT \union CS_SERVER) = {}
  BY <1>1, <1>2, WhatCloses
<1>4. Disconnects(active, CS_CLIENT \union CS_SERVER, CS_SERVER)
  BY <1>1, <1>3 DEF Disconnects, CS_SERVER
<1> QED
  BY <1>1, <1>3, <1>4 DEF CloseClient

LEMMA TakeCommandConverses ==
  ASSUME Grounds, ConvInv, TakeCommand
  PROVE  ConvInv'
<1> SUFFICES ASSUME Usable'
             PROVE  Conversing'
  BY DEF ConvInv
<1>1. /\ Reaches(4) /\ queue' = Append(queue, Head(Requested)) /\ Requested # << >>
      /\ at' = 5 /\ UNCHANGED << active, ready, origin, response, p2s, s2p, reply >>
  BY DEF TakeCommand, GoesOn
<1>2. pending' <=> pending
  BY Zenon DEF TakeCommand
<1>3. "CLIENT_OUT" \in active
  BY <1>1 DEF Reaches, BlockEnabled, CommandEnabled
<1>4. Usable /\ Conversing /\ Scanning /\ AtItsEnd
  <2>1. Usable
    BY <1>1 DEF Usable
  <2> QED
    BY <2>1, Zenon DEF ConvInv, Conversing
<1>5. Scanning' /\ AtItsEnd'
  BY <1>1, <1>4 DEF Scanning, AtItsEnd
<1>6. ASSUME pending
      PROVE  Head(queue') = Head(queue)
  <2>1. queue \in Seq(Command) /\ queue # << >>
    BY <1>6 DEF Grounds, TypeInv, TypeOK, LineInv, SentFirst
  <2>2. Requested \in Seq(Command)
    BY RequestedType DEF Grounds
  <2>3. Head(Requested) \in Command
    BY <1>1, <2>2, HeadTailProperties
  <2>4. Len(queue) \in Nat \ {0} /\ Head(queue) = queue[1]
    BY <2>1, EmptySeq, HeadTailProperties
  <2>5. /\ queue' \in Seq(Command) /\ Len(queue') = Len(queue) + 1
        /\ queue'[1] = queue[1]
    BY <1>1, <2>1, <2>3, <2>4, AppendProperties
  <2>6. queue' # << >>
    BY <2>4, <2>5, EmptySeq
  <2> QED
    BY <2>4, <2>5, <2>6, HeadTailProperties
<1>7. ASSUME pending, Served \/ Unserved
      PROVE  Served' \/ Unserved'
  <2>1. Head(queue') = Head(queue)
    BY <1>6, <1>7
  <2>2. Served => Served'
    BY <1>1, <2>1 DEF Served, Ongoing, OneReply, EndLast
  <2>3. Unserved => Unserved'
    BY <1>1, <2>1 DEF Unserved
  <2> QED
    BY <1>7, <2>2, <2>3
<1>8. Idle => Idle'
  BY <1>1 DEF Idle
<1>9. Awaiting => Awaiting'
  BY <1>1, <1>3 DEF Awaiting
<1> QED
  BY <1>2, <1>4, <1>5, <1>7, <1>8, <1>9, Zenon DEF Conversing

LEMMA TakeNothingConverses ==
  ASSUME Grounds, ConvInv, TakeNothing
  PROVE  ConvInv'
<1> SUFFICES ASSUME Usable'
             PROVE  Conversing'
  BY DEF ConvInv
<1>1. /\ Reaches(4)
      /\ CloseClient({"CLIENT_OUT"}, ready) \/ GoesOn(4, ready \ {"clientRead"})
      /\ UNCHANGED << queue, response, p2s, s2p, reply >>
  BY DEF TakeNothing
<1>2. pending' <=> pending
  BY Zenon DEF TakeNothing
<1>3. "CLIENT_OUT" \in active
  BY <1>1 DEF Reaches, BlockEnabled, CommandEnabled
<1>4. origin' \in {origin, "closed"} /\ ready' \subseteq ready
  BY <1>1 DEF CloseClient, GoesOn
<1>5. Usable /\ origin' = origin /\ Conversing /\ Scanning /\ AtItsEnd
  <2>1. Usable /\ origin' = origin
    BY <1>4 DEF Usable
  <2> QED
    BY <2>1, Zenon DEF ConvInv, Conversing
<1>6. Scanning' /\ AtItsEnd'
  BY <1>1, <1>4, <1>5 DEF Scanning, AtItsEnd
<1>7. (Served' <=> Served) /\ (Unserved' <=> Unserved) /\ (Idle' <=> Idle)
  BY <1>1 DEF Served, Unserved, Idle, Ongoing, OneReply, EndLast
<1>8. (at' = 5 /\ active' = active) \/ "CLIENT_OUT" \notin active'
  <2>1. CASE GoesOn(4, ready \ {"clientRead"})
    BY <2>1 DEF GoesOn
  <2>2. CASE CloseClient({"CLIENT_OUT"}, ready)
    BY <2>2 DEF CloseClient, ActiveAfter
  <2> QED
    BY <1>1, <2>1, <2>2
<1>9. Awaiting => Awaiting'
  <2>1. ASSUME Awaiting, active' # {}
        PROVE  /\ response'.state # "status"
               /\ Waiting' => at' \in 3 .. 5 \/ "CLIENT_OUT" \notin active'
    <3>1. response.state # "status"
      BY <1>3, <2>1 DEF Awaiting
    <3> QED
      BY <1>1, <1>8, <3>1
  <2> QED
    BY <2>1 DEF Awaiting
<1> QED
  BY <1>2, <1>5, <1>6, <1>7, <1>9, Zenon DEF Conversing

LEMMA SendNothingConverses ==
  ASSUME Grounds, ConvInv, SendNothing
  PROVE  ConvInv'
<1> SUFFICES ASSUME Usable'
             PROVE  Conversing'
  BY DEF ConvInv
<1>1. /\ Reaches(5) /\ Head(queue).kind = "INVALID" /\ at' = 6
      /\ UNCHANGED << active, origin, queue, response, p2s, s2p, reply >>
  BY DEF SendNothing, GoesOn, netVars
<1>2. (pending' <=> pending) /\ ~pending /\ active # {}
  <2>1. pending' <=> pending
    BY Zenon DEF SendNothing
  <2>2. ~pending /\ active # {}
    BY <1>1, Reached
  <2> QED
    BY <2>1, <2>2, Zenon
<1>3. Usable /\ Scanning /\ AtItsEnd /\ Idle /\ Awaiting
  <2>1. Usable
    BY <1>1 DEF Usable
  <2> QED
    BY <1>2, <2>1, Zenon DEF ConvInv, Conversing
<1>4. ~Waiting /\ ~Waiting' /\ response.state = "fresh"
  <2>1. ~Waiting /\ ~Waiting'
    BY <1>1 DEF Waiting
  <2> QED
    BY <1>2, <1>3, <2>1 DEF Awaiting, Idle
<1>5. Scanning' /\ AtItsEnd' /\ Idle' /\ Awaiting'
  BY <1>1, <1>3, <1>4 DEF Scanning, AtItsEnd, Idle, Awaiting
<1> QED
  BY <1>2, <1>5, Zenon DEF Conversing

LEMMA SendCommandConverses ==
  ASSUME Grounds, ConvInv, SendCommand
  PROVE  ConvInv'
<1> SUFFICES ASSUME Usable'
             PROVE  Conversing'
  BY DEF ConvInv
<1>1. /\ Reaches(5) /\ origin \in {"up", "eof"}
      /\ p2s' = IF origin = "up" THEN Append(p2s, Head(queue)) ELSE p2s
      /\ origin' = IF origin = "up" THEN "up" ELSE "reset"
      /\ "serverRead" \in ready' => "serverRead" \in ready
      /\ UNCHANGED << queue, response, s2p, reply >>
  BY DEF SendCommand, FlagIf
<1>2. pending'
  BY Zenon DEF SendCommand
<1>3. origin = "up" /\ origin' = "up" /\ Usable
  BY <1>1 DEF Usable
<1>4. ~pending
  BY <1>1, Reached
<1>5. Scanning /\ Idle
  BY <1>3, <1>4, Zenon DEF ConvInv, Conversing
<1>6. p2s' = << Head(queue') >>
  BY <1>1, <1>3, <1>5 DEF Idle
<1>7. Unserved'
  BY <1>1, <1>5, <1>6 DEF Idle, Unserved
<1>8. Scanning' /\ AtItsEnd'
  BY <1>1, <1>3, <1>5 DEF Scanning, AtItsEnd
<1> QED
  BY <1>2, <1>7, <1>8, Zenon DEF Conversing

LEMMA FinishConverses ==
  ASSUME Grounds, ConvInv, Finish
  PROVE  ConvInv'
<1> SUFFICES ASSUME Usable'
             PROVE  Conversing'
  BY DEF ConvInv
<1>1. /\ Reaches(6) /\ CloseClient(CS_SERVER \union CS_CLIENT, ready)
      /\ UNCHANGED << queue, response, p2s, s2p, reply >>
  BY DEF Finish, netVars
<1>2. pending' <=> pending
  BY Zenon DEF Finish
<1>3. queue = << >> /\ at \in 1 .. 6
  BY <1>1 DEF Reaches, BlockEnabled, FinishEnabled, Grounds, TypeInv, TypeOK
<1>4. ~pending
  BY <1>3 DEF Grounds, LineInv, SentFirst
<1>5. origin' \in {origin, "closed"} /\ ready' \subseteq ready
  BY <1>1 DEF CloseClient
<1>6. Usable /\ origin' = origin /\ Scanning /\ AtItsEnd /\ Idle
  <2>1. Usable /\ origin' = origin
    BY <1>5 DEF Usable
  <2> QED
    BY <1>4, <2>1, Zenon DEF ConvInv, Conversing
<1>7. active' = {}
  <2>1. "CLIENT_IN" \in active /\ active \in SUBSET Segment
    BY <1>3 DEF Grounds, ClosingInv, Alive, ClosedTogether, TypeInv, TypeOK
  <2>2. CS_SERVER \union CS_CLIENT \in SUBSET Segment /\ "CLIENT_IN" \in CS_CLIENT
    BY DEF Segment, CS_CLIENT
  <2> QED
    BY <1>1, <2>1, <2>2, WhatCloses DEF CloseClient
<1>8. Scanning' /\ AtItsEnd' /\ Idle' /\ Awaiting'
  BY <1>1, <1>5, <1>6, <1>7 DEF Scanning, AtItsEnd, Idle, Awaiting
<1> QED
  BY <1>2, <1>4, <1>8, Zenon DEF Conversing

-----------------------------------------------------------------------------
(* The origin.  Of the commands the lexer knows, processPopServer takes    *)
(* every reply for as long as it is; UIDL it does not know, and to RETR    *)
(* the message is no part of the reply.                                    *)
Predictable == Kinds \intersect {"UIDL", "RETR"} = {}

LEMMA RepliesAreOne ==
  ASSUME NEW cmd \in Command, cmd.kind \notin {"UIDL", "RETR"}, NEW r \in Replies(cmd)
  PROVE  r \in Seq(Token) /\ OneReply(r, cmd.kind)
<1> DEFINE token(part) == [id |-> cmd.id, part |-> part]
           line(part)  == << token(part) >>
<1>1. cmd.id \in Id
  BY DEF Command
<1>2. \A part \in Part : token(part) \in Token /\ line(part) \in Seq(Token)
  BY <1>1 DEF Token
<1>3. CASE r = line("err") \/ r = line("ok")
  <2>1. PICK part \in {"ok", "err"} : r = line(part)
    BY <1>3
  <2> DEFINE t == token(part)
  <2>2. t \in Token /\ t.part = part
    BY <1>1 DEF Token, Part
  <2>3. r = << t >>
    BY <2>1
  <2> HIDE DEF t
  <2>4. r \in Seq(Token) /\ Len(r) = 1 /\ r[1] = t
    BY <2>2, <2>3
  <2> QED
    BY <2>2, <2>4 DEF OneReply, EndLast
<1>4. CASE /\ cmd.kind \in LongReplies
           /\ \E n \in MinLines .. MaxLines :
                r = line("ok") \o Lines(cmd.id, n) \o line("end")
  <2>1. PICK n \in MinLines .. MaxLines : r = (line("ok") \o Lines(cmd.id, n)) \o line("end")
    BY <1>4
  <2>2. n \in Nat /\ cmd.kind \in Multiline
    BY <1>4, SessionAssumption DEF LongReplies, Multiline
  <2> DEFINE items == Lines(cmd.id, n)
             ok    == line("ok")
             end   == line("end")
             first == ok \o items
  <2>3. /\ items \in Seq(Token) /\ Len(items) = n
        /\ \A i \in 1 .. n : items[i].part = "item"
    <3>1. items = [i \in 1 .. n |-> token("item")] /\ token("item") \in Token
      BY <1>1 DEF Lines, Token, Part
    <3> QED
      BY <2>2, <3>1
  <2>4. /\ ok \in Seq(Token) /\ Len(ok) = 1 /\ ok[1].part = "ok"
        /\ end \in Seq(Token) /\ Len(end) = 1 /\ end[1].part = "end"
    BY <1>1 DEF Token, Part
  <2> HIDE DEF items, ok, end
  <2>5. /\ first \in Seq(Token) /\ Len(first) = n + 1
        /\ \A i \in 1 .. n + 1 : first[i] = IF i <= 1 THEN ok[i] ELSE items[i - 1]
    BY <2>2, <2>3, <2>4, ConcatProperties
  <2>6. first[1].part = "ok" /\ \A i \in 1 .. n + 1 : first[i].part # "end"
    <3>1. first[1] = ok[1]
      BY <2>2, <2>5
    <3>2. ASSUME NEW i \in 1 .. n + 1, i # 1
          PROVE  first[i].part = "item"
      <4>1. i - 1 \in 1 .. n /\ ~(i <= 1)
        BY <2>2, <3>2
      <4>2. first[i] = items[i - 1]
        BY <2>5, <4>1
      <4> QED
        BY <2>3, <4>1, <4>2
    <3> QED
      BY <2>4, <3>1, <3>2
  <2> HIDE DEF first
  <2>7. r = first \o end
    BY <2>1 DEF first, ok, items, end
  <2>8. /\ r \in Seq(Token) /\ Len(r) = n + 2
        /\ \A i \in 1 .. n + 1 : r[i] = first[i]
    <3>1. /\ r \in Seq(Token) /\ Len(r) = Len(first) + Len(end)
          /\ \A i \in 1 .. Len(first) + Len(end) :
               r[i] = IF i <= Len(first) THEN first[i] ELSE end[i - Len(first)]
      BY <2>4, <2>5, <2>7, ConcatProperties
    <3> QED
      BY <2>2, <2>4, <2>5, <3>1
  <2>9. r[1].part = "ok" /\ \A i \in 1 .. n + 2 : r[i].part = "end" => i = n + 2
    BY <2>2, <2>6, <2>8
  <2> QED
    BY <2>2, <2>8, <2>9 DEF OneReply, EndLast
<1> QED
  BY <1>3, <1>4 DEF Replies

LEMMA OriginServesConverses ==
  ASSUME Predictable, Grounds, ConvInv, OriginServes
  PROVE  ConvInv'
<1>1. /\ origin = "up" /\ reply = << >> /\ p2s # << >>
      /\ reply' \in Replies(Head(p2s)) /\ p2s' = Tail(p2s)
      /\ UNCHANGED << queue, response, ready, active, at, s2p, origin >>
  BY DEF OriginServes, proxyVars
<1>2. pending' <=> pending
  BY Zenon DEF OriginServes, proxyVars
<1>3. Scanning /\ Conversing /\ p2s # << >>
  BY <1>1, Zenon DEF Usable, ConvInv, Conversing
<1>4. pending /\ Unserved
  BY <1>3, Zenon DEF Conversing, Idle, Served
<1>5. queue # << >> /\ Head(queue) \in Command /\ Head(queue).kind \notin {"UIDL", "RETR"}
  <2>1. queue # << >>
    BY <1>4, Zenon DEF Grounds, LineInv, SentFirst
  <2>2. Head(queue) \in Command
    BY <2>1, QueueHead DEF Grounds, TypeInv
  <2> QED
    BY <2>1, <2>2, KnownHead DEF Grounds, Predictable
<1>6. p2s = << Head(queue) >> /\ s2p = << >> /\ response.state \in {"fresh", "status"}
  BY <1>4 DEF Unserved
<1>7. Head(p2s) = Head(queue) /\ p2s' = << >>
  <2> DEFINE cmd == Head(queue)
  <2>1. p2s = << cmd >>
    BY <1>6
  <2> HIDE DEF cmd
  <2>2. Head(p2s) = cmd /\ Tail(p2s) = << >>
    BY <2>1
  <2> QED
    BY <1>1, <2>2 DEF cmd
<1>8. reply' \in Seq(Token) /\ OneReply(reply', Head(queue).kind)
  BY <1>1, <1>5, <1>7, RepliesAreOne
<1>9. Served'
  <2>1. s2p' \o reply' = reply' /\ queue' = queue /\ response' = response
    BY <1>1, <1>6, <1>8, ConcatEmptySeq
  <2> DEFINE rest == s2p' \o reply'
  <2>2. rest = reply'
    BY <2>1
  <2> HIDE DEF rest
  <2>3. Ongoing(response.state, rest, Head(queue).kind)
    BY <1>6, <1>8, <2>2 DEF Ongoing
  <2> QED
    BY <1>7, <2>1, <2>3 DEF Served, rest, Ongoing, OneReply, EndLast
<1>10. Scanning' /\ AtItsEnd'
  BY <1>1, <1>3 DEF Scanning, AtItsEnd
<1> QED
  BY <1>2, <1>4, <1>9, <1>10, Zenon DEF ConvInv, Conversing

LEMMA OriginSaysConverses ==
  ASSUME Grounds, ConvInv, OriginSays
  PROVE  ConvInv'
<1>1. /\ origin = "up" /\ reply # << >>
      /\ s2p' = Append(s2p, Head(reply)) /\ reply' = Tail(reply)
      /\ origin' = "eof" => Tail(reply) = << >>
      /\ UNCHANGED << queue, response, ready, active, at, p2s >>
  BY DEF OriginSays, proxyVars
<1>2. pending' <=> pending
  BY Zenon DEF OriginSays, proxyVars
<1>3. Scanning /\ Conversing
  BY <1>1, Zenon DEF Usable, ConvInv, Conversing
<1>4. pending /\ Served
  BY <1>1, <1>3, Zenon DEF Conversing, Idle, Unserved
<1>5. s2p' \o reply' = s2p \o reply /\ s2p' # << >>
  <2> DEFINE e    == Head(reply)
             rest == Tail(reply)
             one  == << e >>
  <2>1. s2p \in Seq(Token) /\ reply \in Seq(Token)
    BY DEF Grounds, TypeInv, TypeOK
  <2>2. e \in Token /\ rest \in Seq(Token) /\ one \in Seq(Token) /\ reply = one \o rest
    BY <1>1, <2>1, HeadTailProperties
  <2>3. s2p' = s2p \o one /\ s2p' # << >>
    BY <1>1, <2>1, <2>2, AppendIsConcat, AppendProperties, EmptySeq
  <2> HIDE DEF e, rest, one
  <2>4. (s2p \o one) \o rest = s2p \o (one \o rest)
    <3>1. \A t, u \in Seq(Token) : (s2p \o t) \o u = s2p \o (t \o u)
      BY <2>1, Associative, Zenon
    <3>2. \A u \in Seq(Token) : (s2p \o one) \o u = s2p \o (one \o u)
      BY <2>2, <3>1, Zenon
    <3> QED
      BY <2>2, <3>2, Zenon
  <2>5. reply' = rest
    BY <1>1 DEF rest
  <2> QED
    BY <2>2, <2>3, <2>4, <2>5
<1>6. Served'
  <2> DEFINE all == s2p \o reply
  <2>1. Ongoing(response.state, all, Head(queue).kind) /\ p2s = << >>
    BY <1>4 DEF Served
  <2>2. s2p' \o reply' = all
    BY <1>5
  <2> HIDE DEF all
  <2>3. Ongoing(response.state, s2p' \o reply', Head(queue).kind)
    BY <2>1, <2>2
  <2> QED
    BY <1>1, <2>1, <2>3 DEF Served, Ongoing, OneReply, EndLast
<1>7. Scanning' /\ AtItsEnd'
  BY <1>1, <1>3, <1>4, <1>5 DEF Scanning, AtItsEnd, Served
<1> QED
  BY <1>2, <1>4, <1>6, <1>7, Zenon DEF ConvInv, Conversing

LEMMA OriginFailsConverses ==
  ASSUME Grounds, ConvInv, OriginFails
  PROVE  ConvInv'
<1> SUFFICES ASSUME Usable'
             PROVE  Conversing'
  BY DEF ConvInv
<1>1. /\ origin = "up" /\ origin' = "eof" /\ reply' = << >> /\ p2s' = << >>
      /\ UNCHANGED << queue, response, ready, active, at, s2p >>
  BY DEF OriginFails, proxyVars, Usable
<1>2. pending' <=> pending
  BY Zenon DEF OriginFails, proxyVars
<1>3. Scanning /\ Conversing
  BY <1>1, Zenon DEF Usable, ConvInv, Conversing
<1>4. s2p \in Seq(Token) /\ reply \in Seq(Token) /\ << >> \in Seq(Token) /\ s2p \o << >> = s2p
  BY ConcatEmptySeq, EmptySeq DEF Grounds, TypeInv, TypeOK
<1>5. ASSUME Served \/ Unserved
      PROVE  Served'
  <2>1. Ongoing(response.state, s2p, Head(queue).kind)
    <3>1. CASE Served
      BY <1>4, <3>1, OngoingPrefix DEF Served
    <3>2. CASE Unserved
      <4>1. s2p = << >> /\ response.state \in {"fresh", "status"} /\ Len(s2p) = 0
        BY <3>2, EmptySeq DEF Unserved
      <4> QED
        BY <4>1 DEF Ongoing, OneReply, EndLast
    <3> QED
      BY <1>5, <3>1, <3>2
  <2>2. s2p' \o reply' = s2p
    BY <1>1, <1>4
  <2>3. Ongoing(response.state, s2p' \o reply', Head(queue).kind)
    BY <2>1, <2>2
  <2> QED
    BY <1>1, <2>3 DEF Served, Ongoing, OneReply, EndLast
<1>6. Idle => Idle'
  BY <1>1 DEF Idle
<1>7. Awaiting => Awaiting'
  BY <1>1 DEF Awaiting, Waiting
<1>8. Scanning' /\ AtItsEnd'
  BY <1>1, <1>3 DEF Scanning, AtItsEnd
<1> QED
  BY <1>2, <1>3, <1>5, <1>6, <1>7, <1>8, Zenon DEF Conversing

LEMMA ConvStep ==
  ASSUME Predictable
  PROVE  Grounds /\ ConvInv /\ [Next]_vars => ConvInv'
<1> SUFFICES ASSUME Grounds, ConvInv, [Next]_vars
             PROVE  ConvInv'
  OBVIOUS
<1>1. ~Feed /\ ~Drain
  BY NoFilterBlock DEF Grounds
<1>2. ~RespondRetrieve
  <2>1. SUFFICES ASSUME RespondRetrieve
                 PROVE  FALSE
    OBVIOUS
  <2>2. queue # << >> /\ Head(queue).kind = "RETR"
    BY <2>1, Reached DEF RespondRetrieve, RespondDone
  <2> QED
    BY <2>2, KnownHead DEF Grounds, Predictable
<1>3. CASE RespondQuit
  <2>1. origin' = "closed"
    BY <1>3, RespondQuitEnds DEF Grounds, TypeInv, ClosingInv
  <2> QED
    BY <2>1 DEF ConvInv, Usable
<1>4. CASE SendFails
  <2>1. origin' \in {origin, "closed"} /\ origin \in {"reset", "closed"}
    BY <1>4 DEF SendFails, CloseClient
  <2> QED
    BY <2>1 DEF ConvInv, Usable
<1>5. CASE OriginAccepts \/ ClientSends \/ ClientCloses \/ ClientReads
           \/ FilterReads \/ FilterWrites \/ FilterExits \/ UNCHANGED vars
  <2>1. UNCHANGED << p2s, s2p, reply >> /\ UNCHANGED proxyVars
    BY <1>5 DEF OriginAccepts, ClientSends, ClientCloses, ClientReads,
       FilterReads, FilterWrites, FilterExits, vars, netVars, peerVars
  <2>2. origin' = origin \/ (origin = "connecting" /\ origin' = "up")
    BY <1>5 DEF OriginAccepts, ClientSends, ClientCloses, ClientReads,
       FilterReads, FilterWrites, FilterExits, vars, netVars, peerVars
  <2> QED
    BY <2>1, <2>2, ConvStays DEF Usable
<1> QED
  BY <1>1, <1>2, <1>3, <1>4, <1>5, PollConverses, ConnectConverses, RespondInvalidConverses,
     RespondWaitsConverses, RespondConverses, TakeCommandConverses, TakeNothingConverses,
     SendNothingConverses, SendCommandConverses, FinishConverses, OriginServesConverses,
     OriginSaysConverses, OriginFailsConverses
     DEF Next, Proxy, ProcessClient, OriginStep

LEMMA ConvAlways ==
  ASSUME Predictable
  PROVE  Spec => [](Grounds /\ ConvInv)
<1>1. "RETR" \notin Kinds
  BY DEF Predictable
<1>2. Spec => [](TypeInv /\ ClosingInv)
  BY TypeCorrect, ClosingInit, ClosingStep, PTL DEF TypeInv, Spec
<1>3. Spec => []Filterless
  BY <1>1, FilterlessAlways
<1>4. Spec => []Grounds
  BY <1>2, <1>3, LinkedAlways, LineAlways, KnownAlways, PTL DEF Grounds
<1>5. Grounds /\ ConvInv /\ [Next]_vars => ConvInv'
  BY ConvStep
<1> QED
  BY <1>4, <1>5, ConvInit, PTL DEF Spec

-----------------------------------------------------------------------------
(* None of the commands is left out.                                       *)
SentIds == {sent[j] : j \in 1 .. Len(sent)}

AllSent ==
  \A i \in 1 .. Len(asked) : asked[i].kind # "INVALID" /\ i < NextId => i \in SentIds

HeadSent == pending => NextId = 0 \/ NextId \in SentIds

SkipInv == HeadSent /\ (Usable => AllSent) /\ NoneSkipped

LEMMA SkipInit == Init => SkipInv
<1> SUFFICES ASSUME Init PROVE SkipInv
  OBVIOUS
<1>1. /\ queue = << [id |-> 0, kind |-> "GREETING"] >> /\ request = << >> /\ c2p = << >>
      /\ asked = << >> /\ sent = << >>
  BY DEF Init
<1>2. NextId = 0 /\ Len(asked) = 0
  BY <1>1 DEF NextId
<1> QED
  BY <1>2 DEF SkipInv, HeadSent, AllSent, NoneSkipped

LEMMA SkipStays ==
  ASSUME SkipInv, NextId' = NextId, UNCHANGED << asked, sent, pending >>, Usable' => Usable
  PROVE  SkipInv'
<1>1. SentIds' = SentIds
  BY DEF SentIds
<1>2. AllSent => AllSent'
  BY <1>1 DEF AllSent
<1>3. NoneSkipped'
  BY DEF SkipInv, NoneSkipped
<1>4. HeadSent'
  <2>1. pending' <=> pending
    BY Zenon
  <2> QED
    BY <1>1, <2>1, Zenon DEF HeadSent, SkipInv
<1> QED
  BY <1>2, <1>3, <1>4 DEF SkipInv

LEMMA HeadLeaves ==
  ASSUME TypeOK, LineInv, queue # << >>, queue' = Tail(queue), UNCHANGED << request, c2p, asked >>
  PROVE  NextId' = NextId + 1 /\ Head(queue).id = NextId /\ NextId \in Nat
<1>1. /\ queue \in Seq(Command) /\ Len(queue) \in Nat /\ Len(request) \in Nat
      /\ Len(c2p) \in Nat /\ Len(asked) \in Nat /\ NextId \in Nat
      /\ Consecutive(queue, NextId)
  BY LineLengths DEF LineInv, Numbered
<1>2. Len(queue') = Len(queue) - 1
  BY <1>1, HeadTailProperties
<1>3. NextId' = NextId + 1
  BY <1>1, <1>2 DEF NextId
<1> QED
  BY <1>1, <1>3, ConsecutiveHead

(* The head leaves the queue: it was sent, or it is invalid.               *)
LEMMA SkipMoves ==
  ASSUME TypeOK, LineInv, KnownInv, SkipInv, queue # << >>, queue' = Tail(queue),
         UNCHANGED << request, c2p, asked, sent >>, ~pending',
         Usable' => Usable /\ (NextId \in SentIds \/ NextId = 0 \/ Head(queue).kind = "INVALID")
  PROVE  SkipInv'
<1>1. NextId' = NextId + 1 /\ Head(queue).id = NextId /\ NextId \in Nat
  BY HeadLeaves
<1>2. SentIds' = SentIds
  BY DEF SentIds
<1>3. NoneSkipped'
  BY DEF SkipInv, NoneSkipped
<1>4. HeadSent'
  BY DEF HeadSent
<1>5. ASSUME Usable'
      PROVE  AllSent'
  <2> SUFFICES ASSUME NEW i \in 1 .. Len(asked), asked[i].kind # "INVALID", i < NextId + 1
               PROVE  i \in SentIds
    BY <1>1, <1>2 DEF AllSent
  <2>1. CASE i < NextId
    BY <1>5, <2>1 DEF SkipInv, AllSent
  <2>2. CASE i = NextId
    <3>1. Head(queue) \in Known
      BY KnownHead
    <3>2. PICK k \in 1 .. Len(asked) : Head(queue) = asked[k]
      BY <1>1, <2>2, <3>1 DEF Known
    <3>3. k = i
      BY <1>1, <2>2, <3>2 DEF KnownInv
    <3> QED
      BY <1>5, <2>2, <3>2, <3>3
  <2> QED
    BY <1>1, <2>1, <2>2
<1> QED
  BY <1>3, <1>4, <1>5 DEF SkipInv

LEMMA SkipSends ==
  ASSUME TypeInv, LineInv, SkipInv, SendCommand
  PROVE  SkipInv'
<1>1. /\ queue \in Seq(Command) /\ NextId \in Nat /\ Len(asked) \in Nat
      /\ sent \in Seq(Id) /\ Len(sent) \in Nat
      /\ \A i \in 1 .. Len(sent) : sent[i] \in Nat
  BY LineLengths DEF TypeInv, LineInv, Numbered
<1>2. queue # << >> /\ ~pending
  BY Reached DEF SendCommand
<1>3. /\ sent' = Append(sent, Head(queue).id)
      /\ UNCHANGED << queue, request, c2p, asked >>
      /\ origin \in {"up", "eof"}
  BY DEF SendCommand
<1>4. Head(queue).id = NextId
  BY <1>1, <1>2, ConsecutiveHead DEF LineInv, Numbered
<1>5. NextId' = NextId
  BY <1>3 DEF NextId
<1>6. /\ Len(sent') = Len(sent) + 1 /\ sent'[Len(sent) + 1] = NextId
      /\ \A i \in 1 .. Len(sent) : sent'[i] = sent[i]
  BY <1>1, <1>3, <1>4
<1>7. SentIds \subseteq SentIds' /\ NextId \in SentIds'
  <2>1. \A i \in 1 .. Len(sent) : i \in 1 .. Len(sent')
    BY <1>1, <1>6
  <2>2. Len(sent) + 1 \in 1 .. Len(sent')
    BY <1>1, <1>6
  <2> QED
    BY <1>6, <2>1, <2>2 DEF SentIds
<1>8. AllSent
  BY <1>3 DEF SkipInv, Usable
<1>9. AllSent'
  BY <1>3, <1>5, <1>7, <1>8 DEF AllSent
<1>10. HeadSent'
  BY <1>5, <1>7 DEF HeadSent
<1>11. NoneSkipped'
  <2> SUFFICES ASSUME NEW i \in 1 .. Len(asked), NEW j \in 1 .. Len(sent'),
                      asked[i].kind # "INVALID", i <= sent'[j]
               PROVE  \E k \in 1 .. j : sent'[k] = i
    BY <1>3 DEF NoneSkipped
  <2>1. CASE j \in 1 .. Len(sent)
    <3>1. PICK k \in 1 .. j : sent[k] = i
      BY <1>6, <2>1 DEF SkipInv, NoneSkipped
    <3>2. k \in 1 .. Len(sent)
      BY <1>1, <2>1
    <3> QED
      BY <1>6, <3>1, <3>2
  <2>2. CASE j = Len(sent) + 1
    <3>1. i <= NextId
      BY <1>6, <2>2
    <3>2. CASE i = NextId
      BY <1>1, <1>6, <2>2, <3>2
    <3>3. CASE i < NextId
      <4>1. i \in SentIds
        BY <1>8, <3>3 DEF AllSent
      <4>2. PICK k \in 1 .. Len(sent) : sent[k] = i
        BY <4>1 DEF SentIds
      <4>3. k \in 1 .. j
        BY <1>1, <2>2
      <4> QED
        BY <1>6, <4>2, <4>3
    <3> QED
      BY <1>1, <3>1, <3>2, <3>3
  <2> QED
    BY <1>1, <1>6, <2>1, <2>2
<1> QED
  BY <1>9, <1>10, <1>11 DEF SkipInv

(* A command that is sent later than another was asked later.              *)
LEMMA SkipGrows ==
  ASSUME TypeInv, LineInv, SkipInv, ClientSends
  PROVE  SkipInv'
<1>1. /\ Len(queue) \in Nat /\ Len(request) \in Nat /\ queue \in Seq(Command)
      /\ c2p \in Seq(Command) /\ Len(c2p) \in Nat
      /\ asked \in Seq(Command) /\ Len(asked) \in Nat /\ NextId \in Nat
      /\ \A i \in 1 .. Len(sent) : sent[i] \in Nat
  BY LineLengths DEF TypeInv, LineInv, Numbered
<1>2. PICK kind \in Kinds :
        /\ asked' = Append(asked, [id |-> Len(asked) + 1, kind |-> kind])
        /\ c2p' = Append(c2p, [id |-> Len(asked) + 1, kind |-> kind])
  BY DEF ClientSends
<1>3. UNCHANGED << queue, request, sent, origin >>
  BY DEF ClientSends, proxyVars, histVars
<1>4. PICK cmd \in Command : asked' = Append(asked, cmd) /\ c2p' = Append(c2p, cmd)
  <2>1. Len(asked) < MaxCmds
    BY DEF ClientSends
  <2>2. Len(asked) + 1 \in Id
    BY <1>1, <2>1, SessionAssumption DEF Id
  <2>3. [id |-> Len(asked) + 1, kind |-> kind] \in Command
    BY <2>2, SessionAssumption DEF Command
  <2> QED
    BY <1>2, <2>3
<1>5. /\ Len(asked') = Len(asked) + 1 /\ Len(c2p') = Len(c2p) + 1
      /\ \A i \in 1 .. Len(asked) : asked'[i] = asked[i]
  BY <1>1, <1>4, AppendProperties
<1>6. NextId' = NextId /\ SentIds' = SentIds
  BY <1>1, <1>3, <1>5 DEF NextId, SentIds
<1>7. NextId <= Len(asked) + 1
  BY <1>1 DEF NextId
<1>8. \A j \in 1 .. Len(sent) : sent[j] <= Len(asked)
  <2> SUFFICES ASSUME NEW j \in 1 .. Len(sent)
               PROVE  sent[j] <= Len(asked)
    OBVIOUS
  <2>1. sent[j] <= NextId /\ (~pending => sent[j] < NextId)
    BY DEF LineInv, SentFirst
  <2>2. CASE pending
    <3>1. queue # << >>
      BY <2>2 DEF LineInv, SentFirst
    <3>2. Len(queue) # 0
      BY <1>1, <3>1, EmptySeq
    <3>3. NextId <= Len(asked)
      BY <1>1, <3>2 DEF NextId
    <3> QED
      BY <1>1, <2>1, <3>3
  <2>3. CASE ~pending
    BY <1>1, <1>7, <2>1, <2>3
  <2> QED
    BY <2>2, <2>3
<1>9. NoneSkipped'
  <2> SUFFICES ASSUME NEW i \in 1 .. Len(asked'), NEW j \in 1 .. Len(sent),
                      asked'[i].kind # "INVALID", i <= sent[j]
               PROVE  \E k \in 1 .. j : sent[k] = i
    BY <1>3 DEF NoneSkipped
  <2>1. i \in 1 .. Len(asked) /\ asked[i].kind # "INVALID"
    BY <1>1, <1>5, <1>8
  <2> QED
    BY <2>1 DEF SkipInv, NoneSkipped
<1>10. AllSent => AllSent'
  <2> SUFFICES ASSUME AllSent, NEW i \in 1 .. Len(asked'),
                      asked'[i].kind # "INVALID", i < NextId
               PROVE  i \in SentIds
    BY <1>6 DEF AllSent
  <2>1. i \in 1 .. Len(asked) /\ asked[i].kind # "INVALID"
    BY <1>1, <1>5, <1>7
  <2> QED
    BY <2>1 DEF AllSent
<1>11. HeadSent'
  <2>1. pending' <=> pending
    BY Zenon DEF ClientSends, proxyVars
  <2> QED
    BY <1>6, <2>1, Zenon DEF HeadSent, SkipInv
<1> QED
  BY <1>3, <1>9, <1>10, <1>11 DEF SkipInv, Usable

LEMMA SkipStep ==
  ASSUME Predictable
  PROVE  Grounds /\ ConvInv /\ SkipInv /\ [Next]_vars => SkipInv'
<1> SUFFICES ASSUME Grounds, ConvInv, SkipInv, [Next]_vars
             PROVE  SkipInv'
  OBVIOUS
<1>0. TypeInv /\ TypeOK /\ LineInv /\ KnownInv
  BY DEF Grounds, TypeInv
<1>1. CASE TakeCommand
  <2>1. UNCHANGED << asked, sent, pending, origin >>
    BY <1>1 DEF TakeCommand, GoesOn, histVars
  <2>2. NextId' = NextId
    BY <1>0, <1>1, TakeKeepsNumber
  <2> QED
    BY <2>1, <2>2, SkipStays DEF Usable
<1>2. CASE SendCommand
  BY <1>0, <1>2, SkipSends
<1>3. CASE ClientSends
  BY <1>0, <1>3, SkipGrows
<1>4. CASE RespondInvalid
  <2>1. /\ queue # << >> /\ Head(queue).kind = "INVALID" /\ queue' = Tail(queue)
        /\ UNCHANGED << request, c2p, asked, sent, origin >>
    BY <1>4, Reached DEF RespondInvalid, GoesOn
  <2>2. ~pending'
    <3>1. ~pending
      BY <1>0, <2>1, Zenon DEF LineInv, SentFirst
    <3> QED
      BY <1>4, <3>1, Zenon DEF RespondInvalid
  <2> QED
    BY <1>0, <2>1, <2>2, SkipMoves DEF Usable
<1>5. CASE Respond \/ RespondQuit \/ RespondRetrieve
  <2>1. /\ RespondDone /\ UNCHANGED << request, c2p, asked, sent >>
        /\ origin' = origin \/ origin' = "closed"
    BY <1>5 DEF Respond, RespondQuit, RespondRetrieve, GoesOn, CloseClient
  <2>2. queue # << >> /\ queue' = Tail(queue)
    BY <2>1, Reached DEF RespondDone
  <2>3. ~pending'
    BY <2>1, Zenon DEF RespondDone
  <2>4. ASSUME Usable'
        PROVE  Usable /\ (NextId = 0 \/ NextId \in SentIds)
    <3>1. Usable
      BY <2>1, <2>4 DEF Usable
    <3>2. pending
      BY <2>1, <3>1, AnswerAwaited, Zenon
    <3> QED
      BY <3>1, <3>2, Zenon DEF SkipInv, HeadSent
  <2> QED
    BY <1>0, <2>1, <2>2, <2>3, <2>4, SkipMoves
<1>6. CASE \/ Poll \/ Connect \/ Feed \/ RespondWaits \/ Drain \/ TakeNothing
           \/ SendNothing \/ SendFails \/ Finish \/ UNCHANGED vars
  <2>1. /\ UNCHANGED << asked, sent, pending, queue, request, c2p >>
        /\ origin' = origin \/ origin' = "closed"
    BY <1>6 DEF Poll, Connect, Feed, RespondWaits, Drain, TakeNothing, SendNothing, SendFails,
       Finish, vars, proxyVars, netVars, peerVars, histVars, GoesOn, CloseClient
  <2>2. NextId' = NextId
    BY <2>1 DEF NextId
  <2> QED
    BY <2>1, <2>2, SkipStays DEF Usable
<1>7. CASE \/ ClientCloses \/ ClientReads \/ OriginStep \/ OriginFails
           \/ FilterReads \/ FilterWrites \/ FilterExits
  <2>1. UNCHANGED << asked, sent, pending, queue, request, c2p >>
    BY <1>7 DEF ClientCloses, ClientReads, OriginStep, OriginAccepts, OriginServes,
       OriginSays, OriginFails, FilterReads, FilterWrites, FilterExits,
       proxyVars, peerVars, histVars
  <2>2. NextId' = NextId
    BY <2>1 DEF NextId
  <2>3. Usable' => Usable
    BY <1>7, PeersUse DEF Peers
  <2> QED
    BY <2>1, <2>2, <2>3, SkipStays
<1> QED
  BY <1>1, <1>2, <1>3, <1>4, <1>5, <1>6, <1>7 DEF Next, Proxy, ProcessClient

(* Of the commands of a client that retrieves no message and sends none    *)
(* the lexer does not know, none is left out but the invalid ones: what    *)
(* processPopServer takes from the queue, it takes because the origin has  *)
(* answered it, however the origin cuts its replies or fails.              *)
THEOREM AllCommandsSent ==
  ASSUME Predictable
  PROVE  Spec => []NoneSkipped
<1>1. Grounds /\ ConvInv /\ SkipInv /\ [Next]_vars => SkipInv'
  BY SkipStep
<1>2. Spec => [](Grounds /\ ConvInv)
  BY ConvAlways
<1>3. SkipInv => NoneSkipped
  BY DEF SkipInv
<1> QED
  BY <1>1, <1>2, <1>3, SkipInit, PTL DEF Spec

-----------------------------------------------------------------------------
(* What was sent, and freed, when the origin never fails on its own.       *)

(* What the origin is asked, and answers, was sent.                        *)
Told == {t \in Token : t.id = 0 \/ t.id \in SentIds}
Passed == {c \in Command : c.id \in SentIds}
OnlySent == reply \in Seq(Told) /\ p2s \in Seq(Passed) /\ freed \subseteq SentIds

(* A QUIT that was sent is the last command of the session: nothing is     *)
(* sent after it, and the origin ends the connection for no other reason.  *)
QuitIsLast ==
  active # {} =>
    /\ \A i \in 1 .. Len(asked) :
         asked[i].kind = "QUIT" /\ i \in SentIds => pending /\ NextId = i
    /\ origin = "eof" => pending /\ Head(queue).kind = "QUIT"

(* A connection that is closed stays so.                                   *)
StaysClosed ==
  origin = "closed" => active \intersect CS_SERVER = {} /\ "serverWrite" \notin ready

ReleasedIdle == active = {} => ~pending

FreedInv ==
  /\ origin \in {"connecting", "up", "eof", "closed"}
  /\ OnlySent /\ QuitIsLast /\ StaysClosed /\ ReleasedIdle

LEMMA FreedInit == Init => FreedInv
<1> SUFFICES ASSUME Init PROVE FreedInv
  OBVIOUS
<1>1. /\ asked = << >> /\ p2s = << >> /\ freed = {} /\ origin = "connecting"
      /\ active = CS_CLIENT
  BY DEF Init
<1>2. Len(asked) = 0 /\ active # {}
  BY <1>1, EmptySeq DEF CS_CLIENT
<1>3. PICK part \in {"ok", "err"} : reply = << [id |-> 0, part |-> part] >>
  BY DEF Init
<1>4. [id |-> 0, part |-> part] \in Told
  BY SessionAssumption DEF Told, Token, Id, Part
<1>5. OnlySent
  BY <1>1, <1>3, <1>4, EmptySeq DEF OnlySent
<1>6. QuitIsLast /\ StaysClosed /\ ReleasedIdle
  BY <1>1, <1>2 DEF QuitIsLast, StaysClosed, ReleasedIdle
<1> QED
  BY <1>1, <1>5, <1>6 DEF FreedInv

(* Then no request data is freed twice.                                    *)
LEMMA FreedMeans == TypeInv /\ LineInv /\ FreedInv => FreedOnce
<1> SUFFICES ASSUME TypeInv, LineInv, FreedInv, active = {}, NEW i \in 1 .. Len(queue)
             PROVE  queue[i].id \notin freed
  BY DEF FreedOnce
<1>1. Len(queue) \in Nat /\ NextId \in Nat /\ \A j \in 1 .. Len(sent) : sent[j] \in Nat
  BY LineLengths DEF TypeInv, LineInv, Numbered
<1>2. queue[i].id = NextId + i - 1
  BY DEF LineInv, Numbered, Consecutive
<1>3. \A j \in 1 .. Len(sent) : sent[j] < NextId
  BY DEF LineInv, SentFirst, FreedInv, ReleasedIdle
<1>4. queue[i].id \notin SentIds
  BY <1>1, <1>2, <1>3 DEF SentIds
<1> QED
  BY <1>4 DEF FreedInv, OnlySent

(* Closing segments.                                                       *)
LEMMA StaysClosedCloses ==
  ASSUME TypeOK, ClosedTogether, Linked, NEW level \in SUBSET Segment, NEW flags,
         "serverWrite" \in flags => "serverWrite" \in ready,
         FreedInv, CloseClient(level, flags)
  PROVE  StaysClosed' /\ origin' \in {origin, "closed"} /\ active' \subseteq active
<1>1. /\ active' = ActiveAfter(active, level)
      /\ ready' = flags \ {FlagOf(s) : s \in active \ ActiveAfter(active, level)}
      /\ origin' = IF Disconnects(active, level, CS_SERVER) THEN "closed" ELSE origin
  BY DEF CloseClient
<1>2. active' \subseteq active
  BY <1>1 DEF ActiveAfter
<1>3. CASE Disconnects(active, level, CS_SERVER)
  <2>1. active' \intersect CS_SERVER = {} /\ active \intersect CS_SERVER # {}
    BY <1>1, <1>3 DEF Disconnects
  <2>2. Usable
    BY <2>1 DEF FreedInv, StaysClosed, Usable
  <2>3. "SERVER_IN" \in active
    BY <2>1, <2>2 DEF Linked, CS_SERVER
  <2>4. "SERVER_IN" \in active \ ActiveAfter(active, level)
    BY <1>1, <2>1, <2>3 DEF CS_SERVER
  <2>5. FlagOf("SERVER_IN") = "serverWrite"
    BY DEF FlagOf
  <2>6. "serverWrite" \notin ready'
    BY <1>1, <2>4, <2>5
  <2> QED
    BY <1>1, <1>2, <1>3, <2>1, <2>6 DEF StaysClosed
<1>4. CASE ~Disconnects(active, level, CS_SERVER)
  <2>1. origin' = origin /\ ("serverWrite" \in ready' => "serverWrite" \in ready)
    BY <1>1, <1>4
  <2> QED
    BY <1>2, <2>1 DEF FreedInv, StaysClosed
<1> QED
  BY <1>3, <1>4

(* Steps that send nothing and answer nothing.                             *)
LEMMA FreedStays ==
  ASSUME FreedInv, UNCHANGED << sent, freed, asked, pending, reply, p2s >>,
         NextId' = NextId, pending => Head(queue') = Head(queue),
         active' # {} => active # {}, active' = {} => active = {} \/ ~pending,
         origin' \in {origin, "closed"} \/ (origin = "connecting" /\ origin' = "up"),
         StaysClosed'
  PROVE  FreedInv'
<1>1. SentIds' = SentIds
  BY DEF SentIds
<1>2. Told' = Told /\ Passed' = Passed
  BY <1>1 DEF Told, Passed
<1>3. OnlySent'
  BY <1>1, <1>2 DEF FreedInv, OnlySent
<1>4. pending' <=> pending
  BY Zenon
<1>5. QuitIsLast'
  <2>1. ASSUME active' # {}
        PROVE  /\ \A i \in 1 .. Len(asked) :
                    asked[i].kind = "QUIT" /\ i \in SentIds => pending /\ NextId = i
               /\ origin' = "eof" => pending /\ Head(queue').kind = "QUIT"
    <3>1. active # {} /\ (origin' = "eof" => origin = "eof")
      BY <2>1
    <3>2. \A i \in 1 .. Len(asked) :
            asked[i].kind = "QUIT" /\ i \in SentIds => pending /\ NextId = i
      BY <3>1, Zenon DEF FreedInv, QuitIsLast
    <3>3. origin = "eof" => pending /\ Head(queue).kind = "QUIT"
      BY <3>1, Zenon DEF FreedInv, QuitIsLast
    <3> QED
      BY <3>1, <3>2, <3>3, Zenon
  <2> DEFINE here  == \A i \in 1 .. Len(asked) :
                        asked[i].kind = "QUIT" /\ i \in SentIds => pending /\ NextId = i
  <2>2. (\A i \in 1 .. Len(asked) :
           asked[i].kind = "QUIT" /\ i \in SentIds => pending /\ NextId = i)'
        <=> here
    BY <1>1, <1>4, Zenon
  <2> HIDE DEF here
  <2> QED
    BY <1>4, <2>1, <2>2, Zenon DEF QuitIsLast, here
<1>6. ReleasedIdle'
  BY <1>4, Zenon DEF FreedInv, ReleasedIdle
<1> QED
  BY <1>3, <1>5, <1>6 DEF FreedInv

Basis == TypeInv /\ ClosingInv /\ Linked /\ LineInv /\ KnownInv

LEMMA SentWasAsked ==
  ASSUME TypeInv, LineInv
  PROVE  \A k \in SentIds : k \in Nat /\ k <= Len(asked)
<1>1. /\ queue \in Seq(Command) /\ Len(queue) \in Nat /\ Len(request) \in Nat
      /\ Len(c2p) \in Nat /\ Len(asked) \in Nat /\ NextId \in Nat
      /\ \A i \in 1 .. Len(sent) : sent[i] \in Nat
  BY LineLengths DEF TypeInv, LineInv, Numbered
<1> SUFFICES ASSUME NEW j \in 1 .. Len(sent)
             PROVE  sent[j] <= Len(asked)
  BY <1>1 DEF SentIds
<1>2. sent[j] <= NextId /\ (~pending => sent[j] < NextId)
  BY DEF LineInv, SentFirst
<1>3. CASE pending
  <2>1. queue # << >>
    BY <1>3 DEF LineInv, SentFirst
  <2>2. Len(queue) # 0
    BY <1>1, <2>1, EmptySeq
  <2>3. NextId <= Len(asked)
    BY <1>1, <2>2 DEF NextId
  <2> QED
    BY <1>1, <1>2, <2>3
<1>4. CASE ~pending
  <2>1. NextId <= Len(asked) + 1
    BY <1>1 DEF NextId
  <2> QED
    BY <1>1, <1>2, <1>4, <2>1
<1> QED
  BY <1>3, <1>4

(* The head of the queue, by its number.                                   *)
LEMMA HeadIsAsked ==
  ASSUME TypeInv, LineInv, KnownInv, queue # << >>, NextId # 0
  PROVE  NextId \in 1 .. Len(asked) /\ Head(queue) = asked[NextId]
<1>1. queue \in Seq(Command) /\ NextId \in Nat /\ Consecutive(queue, NextId)
  BY LineLengths DEF TypeInv, LineInv, Numbered
<1>2. Head(queue).id = NextId
  BY <1>1, ConsecutiveHead
<1>3. PICK k \in 1 .. Len(asked) : Head(queue) = asked[k]
  BY <1>2, KnownHead DEF Known
<1> QED
  BY <1>2, <1>3 DEF KnownInv

(* While another command, or none, is with the origin no QUIT was sent.    *)
LEMMA NoQuitYet ==
  ASSUME Basis, FreedInv, active # {}, queue # << >>,
         ~pending \/ Head(queue).kind # "QUIT"
  PROVE  /\ \A i \in 1 .. Len(asked) : asked[i].kind = "QUIT" => i \notin SentIds
         /\ origin # "eof"
<1>1. ASSUME NEW i \in 1 .. Len(asked), asked[i].kind = "QUIT", i \in SentIds
      PROVE  FALSE
  <2>1. pending /\ NextId = i
    BY <1>1 DEF FreedInv, QuitIsLast
  <2>2. i # 0
    OBVIOUS
  <2>3. Head(queue) = asked[i]
    BY <2>1, <2>2, HeadIsAsked DEF Basis
  <2> QED
    BY <1>1, <2>1, <2>3
<1>2. origin # "eof"
  BY DEF FreedInv, QuitIsLast
<1> QED
  BY <1>1, <1>2

(* A command is answered, and is not QUIT.                                 *)
LEMMA FreedMoves ==
  ASSUME Basis, FreedInv, active # {}, queue # << >>,
         ~pending \/ Head(queue).kind # "QUIT",
         UNCHANGED << sent, freed, asked, reply, p2s, origin >>,
         active' \intersect CS_SERVER = active \intersect CS_SERVER, active' # {},
         "serverWrite" \in ready' => "serverWrite" \in ready
  PROVE  FreedInv'
<1>1. SentIds' = SentIds
  BY DEF SentIds
<1>2. Told' = Told /\ Passed' = Passed
  BY <1>1 DEF Told, Passed
<1>3. OnlySent'
  BY <1>1, <1>2 DEF FreedInv, OnlySent
<1>4. /\ \A i \in 1 .. Len(asked) : asked[i].kind = "QUIT" => i \notin SentIds
      /\ origin # "eof"
  BY NoQuitYet
<1>5. QuitIsLast'
  BY <1>1, <1>4 DEF QuitIsLast
<1>6. StaysClosed' /\ ReleasedIdle'
  BY DEF FreedInv, StaysClosed, ReleasedIdle
<1> QED
  BY <1>3, <1>5, <1>6 DEF FreedInv

LEMMA FreedSends ==
  ASSUME Basis, FreedInv, SendCommand
  PROVE  FreedInv'
<1>1. /\ queue # << >> /\ ~pending /\ "SERVER_IN" \in active
      /\ p2s' = IF origin = "up" THEN Append(p2s, Head(queue)) ELSE p2s
      /\ origin' = IF origin = "up" THEN "up" ELSE "reset"
      /\ origin \in {"up", "eof"}
      /\ sent' = Append(sent, Head(queue).id)
      /\ freed' = freed \union {Head(queue).id}
      /\ UNCHANGED << active, queue, request, c2p, asked, reply >>
  BY Reached DEF SendCommand
<1>2. pending'
  BY Zenon DEF SendCommand
<1>3. /\ \A i \in 1 .. Len(asked) : asked[i].kind = "QUIT" => i \notin SentIds
      /\ origin = "up" /\ origin' = "up"
  <2>1. active # {} /\ Basis /\ FreedInv
    BY <1>1
  <2>2. /\ \A i \in 1 .. Len(asked) : asked[i].kind = "QUIT" => i \notin SentIds
        /\ origin # "eof"
    BY <1>1, <2>1, NoQuitYet
  <2> QED
    BY <1>1, <2>2
<1>4. /\ sent \in Seq(Id) /\ Len(sent) \in Nat /\ queue \in Seq(Command)
      /\ Head(queue) \in Command /\ Head(queue).id \in Id
      /\ NextId \in Nat /\ Head(queue).id = NextId
  <2>1. TypeOK /\ queue \in Seq(Command)
    BY DEF Basis, TypeInv, TypeOK
  <2>2. NextId \in Nat /\ Consecutive(queue, NextId)
    BY DEF Basis, LineInv, Numbered
  <2> QED
    BY <1>1, <2>1, <2>2, LineLengths, QueueHead, ConsecutiveHead
<1>5. /\ Len(sent') = Len(sent) + 1 /\ sent'[Len(sent) + 1] = Head(queue).id
      /\ \A i \in 1 .. Len(sent) : sent'[i] = sent[i]
  BY <1>1, <1>4
<1>6. SentIds' = SentIds \union {Head(queue).id}
  <2>1. \A i \in 1 .. Len(sent) + 1 : i \in 1 .. Len(sent) \/ i = Len(sent) + 1
    BY <1>4
  <2>2. \A i \in 1 .. Len(sent) : i \in 1 .. Len(sent) + 1
    BY <1>4
  <2>3. Len(sent) + 1 \in 1 .. Len(sent) + 1
    BY <1>4
  <2>4. ASSUME NEW k \in SentIds'
        PROVE  k \in SentIds \union {Head(queue).id}
    BY <1>5, <2>1, <2>4 DEF SentIds
  <2>5. ASSUME NEW k \in SentIds \union {Head(queue).id}
        PROVE  k \in SentIds'
    BY <1>5, <2>2, <2>3, <2>5 DEF SentIds
  <2> QED
    BY <2>4, <2>5
<1>7. Told \subseteq Told' /\ Passed \subseteq Passed' /\ Head(queue) \in Passed'
  BY <1>4, <1>6 DEF Told, Passed
<1>8. OnlySent'
  <2>1. reply \in Seq(Told) /\ p2s \in Seq(Passed) /\ freed \subseteq SentIds
    BY DEF FreedInv, OnlySent
  <2>2. reply \in Seq(Told') /\ p2s \in Seq(Passed')
    BY <1>7, <2>1, SeqMonotonic
  <2>3. p2s' \in Seq(Passed')
    BY <1>1, <1>3, <1>7, <2>2, AppendProperties
  <2> QED
    BY <1>1, <1>6, <2>1, <2>2, <2>3 DEF OnlySent
<1>9. NextId' = NextId
  BY <1>1 DEF NextId
<1>10. QuitIsLast'
  <2>1. ASSUME NEW i \in 1 .. Len(asked), asked[i].kind = "QUIT", i \in SentIds'
        PROVE  NextId' = i
    BY <1>3, <1>4, <1>6, <1>9, <2>1
  <2> QED
    BY <1>1, <1>2, <1>3, <2>1 DEF QuitIsLast
<1>11. StaysClosed' /\ ReleasedIdle'
  BY <1>1, <1>3 DEF StaysClosed, ReleasedIdle
<1> QED
  BY <1>3, <1>8, <1>10, <1>11 DEF FreedInv

LEMMA FreedGrows ==
  ASSUME Basis, FreedInv, ClientSends
  PROVE  FreedInv'
<1>1. asked \in Seq(Command) /\ Len(asked) \in Nat /\ Len(queue) \in Nat /\ Len(request) \in Nat
      /\ c2p \in Seq(Command) /\ Len(c2p) \in Nat
  BY LineLengths DEF Basis, TypeInv
<1>2. PICK kind \in Kinds :
        /\ asked' = Append(asked, [id |-> Len(asked) + 1, kind |-> kind])
        /\ c2p' = Append(c2p, [id |-> Len(asked) + 1, kind |-> kind])
  BY DEF ClientSends
<1>3. UNCHANGED << queue, request, sent, freed, origin, active, ready, reply, p2s >>
  BY DEF ClientSends, proxyVars, histVars
<1>4. PICK cmd \in Command : asked' = Append(asked, cmd) /\ c2p' = Append(c2p, cmd)
  <2>1. Len(asked) < MaxCmds
    BY DEF ClientSends
  <2>2. Len(asked) + 1 \in Id
    BY <1>1, <2>1, SessionAssumption DEF Id
  <2>3. [id |-> Len(asked) + 1, kind |-> kind] \in Command
    BY <2>2, SessionAssumption DEF Command
  <2> QED
    BY <1>2, <2>3
<1>5. /\ Len(asked') = Len(asked) + 1 /\ Len(c2p') = Len(c2p) + 1
      /\ \A i \in 1 .. Len(asked) : asked'[i] = asked[i]
  BY <1>1, <1>4, AppendProperties
<1>6. NextId' = NextId /\ SentIds' = SentIds
  BY <1>1, <1>3, <1>5 DEF NextId, SentIds
<1>7. Told' = Told /\ Passed' = Passed
  BY <1>6 DEF Told, Passed
<1>8. OnlySent'
  BY <1>3, <1>6, <1>7 DEF FreedInv, OnlySent
<1>9. pending' <=> pending
  BY Zenon DEF ClientSends, proxyVars
<1>10. ASSUME active # {}, NEW i \in 1 .. Len(asked'), asked'[i].kind = "QUIT", i \in SentIds
       PROVE  pending /\ NextId = i
  <2>1. i <= Len(asked)
    BY <1>10, SentWasAsked DEF Basis
  <2>2. i \in 1 .. Len(asked) /\ asked[i].kind = "QUIT"
    BY <1>1, <1>5, <1>10, <2>1
  <2> QED
    BY <1>10, <2>2 DEF FreedInv, QuitIsLast
<1>11. active # {} /\ origin = "eof" => pending /\ Head(queue).kind = "QUIT"
  BY Zenon DEF FreedInv, QuitIsLast
<1>12. QuitIsLast'
  <2>1. ASSUME active' # {}
        PROVE  /\ \A i \in 1 .. Len(asked') :
                    asked'[i].kind = "QUIT" /\ i \in SentIds' => pending' /\ NextId' = i
               /\ origin' = "eof" => pending' /\ Head(queue').kind = "QUIT"
    <3>1. active # {}
      BY <1>3, <2>1
    <3>2. \A i \in 1 .. Len(asked') :
            asked'[i].kind = "QUIT" /\ i \in SentIds' => pending' /\ NextId' = i
      BY <1>6, <1>9, <1>10, <3>1, Zenon
    <3>3. origin' = "eof" => pending' /\ Head(queue').kind = "QUIT"
      BY <1>3, <1>9, <1>11, <3>1, Zenon
    <3> QED
      BY <3>2, <3>3
  <2> QED
    BY <2>1, Zenon DEF QuitIsLast
<1>13. StaysClosed' /\ ReleasedIdle'
  <2>1. StaysClosed'
    BY <1>3 DEF FreedInv, StaysClosed
  <2>2. ReleasedIdle'
    BY <1>3, <1>9, Zenon DEF FreedInv, ReleasedIdle
  <2> QED
    BY <2>1, <2>2
<1> QED
  BY <1>3, <1>8, <1>12, <1>13 DEF FreedInv

(* An origin answers a command under its number.                           *)
LEMMA RepliesOwn ==
  ASSUME NEW cmd \in Command
  PROVE  Replies(cmd) \subseteq Seq({t \in Token : t.id = cmd.id})
<1> DEFINE Own == {t \in Token : t.id = cmd.id}
<1>1. cmd.id \in Id
  BY DEF Command
<1>2. \A part \in Part : << [id |-> cmd.id, part |-> part] >> \in Seq(Own)
  BY <1>1 DEF Token
<1>3. \A n \in Nat : Lines(cmd.id, n) \in Seq(Own)
  <2> SUFFICES ASSUME NEW n \in Nat
               PROVE  Lines(cmd.id, n) \in Seq(Own)
    OBVIOUS
  <2>1. [id |-> cmd.id, part |-> "item"] \in Own
    BY <1>1 DEF Token, Part
  <2> HIDE DEF Own
  <2>2. Lines(cmd.id, n) \in [1 .. n -> Own]
    BY <2>1 DEF Lines
  <2> QED
    BY <2>2, SeqDef
<1>4. {"err", "ok", "end"} \subseteq Part
  BY DEF Part
<1> HIDE DEF Own
<1>5. ASSUME NEW n \in MinLines .. MaxLines
      PROVE  << [id |-> cmd.id, part |-> "ok"] >> \o Lines(cmd.id, n)
               \o << [id |-> cmd.id, part |-> "end"] >> \in Seq(Own)
  <2>1. n \in Nat
    BY SessionAssumption
  <2>2. << [id |-> cmd.id, part |-> "ok"] >> \o Lines(cmd.id, n) \in Seq(Own)
    BY <1>2, <1>3, <1>4, <2>1, ConcatProperties
  <2> QED
    BY <1>2, <1>4, <2>2, ConcatProperties
<1>6. Replies(cmd) \subseteq Seq(Own)
  BY <1>2, <1>4, <1>5 DEF Replies
<1> QED
  BY <1>6 DEF Own

LEMMA FreedServes ==
  ASSUME Basis, FreedInv, OriginServes
  PROVE  FreedInv'
<1>1. /\ p2s # << >> /\ reply' \in Replies(Head(p2s)) /\ p2s' = Tail(p2s)
      /\ UNCHANGED << sent, freed, asked, queue, request, c2p, active, ready, origin >>
  BY DEF OriginServes, proxyVars, histVars
<1>2. pending' <=> pending
  BY Zenon DEF OriginServes, proxyVars
<1>3. SentIds' = SentIds /\ NextId' = NextId
  BY <1>1 DEF SentIds, NextId
<1>4. Told' = Told /\ Passed' = Passed
  BY <1>3 DEF Told, Passed
<1>5. p2s \in Seq(Passed) /\ freed \subseteq SentIds
  BY DEF FreedInv, OnlySent
<1>6. Head(p2s) \in Passed /\ Tail(p2s) \in Seq(Passed)
  BY <1>1, <1>5, HeadTailProperties
<1>7. reply' \in Seq(Told)
  <2> DEFINE cmd == Head(p2s)
             Own == {t \in Token : t.id = cmd.id}
  <2>1. cmd \in Command /\ cmd.id \in SentIds
    BY <1>6 DEF Passed
  <2>2. reply' \in Seq(Own)
    BY <1>1, <2>1, RepliesOwn
  <2>3. Own \subseteq Told
    BY <2>1 DEF Told
  <2> HIDE DEF Own
  <2> QED
    BY <2>2, <2>3, SeqMonotonic
<1>8. OnlySent'
  BY <1>1, <1>3, <1>4, <1>5, <1>6, <1>7 DEF OnlySent
<1>9. QuitIsLast' <=> QuitIsLast
  <2>1. queue' = queue /\ asked' = asked /\ active' = active /\ origin' = origin
    BY <1>1
  <2> QED
    BY <1>2, <1>3, <2>1, Zenon DEF QuitIsLast
<1>10. StaysClosed' /\ ReleasedIdle'
  <2>1. StaysClosed'
    BY <1>1 DEF FreedInv, StaysClosed
  <2>2. ReleasedIdle'
    BY <1>1, <1>2, Zenon DEF FreedInv, ReleasedIdle
  <2> QED
    BY <2>1, <2>2
<1> QED
  BY <1>1, <1>8, <1>9, <1>10 DEF FreedInv

(* It ends the connection after the reply to QUIT.                         *)
LEMMA FreedSays ==
  ASSUME Basis, FreedInv, OriginSays
  PROVE  FreedInv'
<1>1. /\ origin = "up" /\ reply # << >> /\ reply' = Tail(reply)
      /\ origin' \in {"up", "eof"}
      /\ origin' = "eof" => Head(reply).id # 0 /\ asked[Head(reply).id].kind = "QUIT"
      /\ UNCHANGED << sent, freed, asked, queue, request, c2p, p2s, active, ready >>
  BY DEF OriginSays, proxyVars
<1>2. pending' <=> pending
  BY Zenon DEF OriginSays, proxyVars
<1>3. SentIds' = SentIds /\ NextId' = NextId
  BY <1>1 DEF SentIds, NextId
<1>4. Told' = Told /\ Passed' = Passed
  BY <1>3 DEF Told, Passed
<1>5. Head(reply) \in Told /\ Tail(reply) \in Seq(Told)
  BY <1>1, HeadTailProperties DEF FreedInv, OnlySent
<1>6. OnlySent'
  BY <1>1, <1>3, <1>4, <1>5 DEF FreedInv, OnlySent
<1>7. ASSUME active # {}, origin' = "eof"
      PROVE  pending /\ Head(queue).kind = "QUIT"
  <2> DEFINE i == Head(reply).id
  <2>1. i \in SentIds /\ i # 0 /\ asked[i].kind = "QUIT"
    BY <1>1, <1>5, <1>7 DEF Told
  <2>2. i \in 1 .. Len(asked)
    <3>1. i \in Nat /\ i <= Len(asked) /\ Len(asked) \in Nat
      BY <2>1, SentWasAsked, LineLengths DEF Basis, TypeInv
    <3> QED
      BY <2>1, <3>1
  <2> HIDE DEF i
  <2>3. pending /\ NextId = i
    BY <1>7, <2>1, <2>2, Zenon DEF FreedInv, QuitIsLast
  <2>4. queue # << >>
    BY <2>3, Zenon DEF Basis, LineInv, SentFirst
  <2>5. Head(queue) = asked[i]
    BY <2>1, <2>3, <2>4, HeadIsAsked DEF Basis
  <2> QED
    BY <2>1, <2>3, <2>5
<1>8. QuitIsLast'
  <2>1. ASSUME active' # {}
        PROVE  /\ \A i \in 1 .. Len(asked') :
                    asked'[i].kind = "QUIT" /\ i \in SentIds' => pending' /\ NextId' = i
               /\ origin' = "eof" => pending' /\ Head(queue').kind = "QUIT"
    <3>1. active # {} /\ asked' = asked /\ queue' = queue
      BY <1>1, <2>1
    <3>2. \A i \in 1 .. Len(asked') :
            asked'[i].kind = "QUIT" /\ i \in SentIds' => pending' /\ NextId' = i
      BY <1>2, <1>3, <3>1, Zenon DEF FreedInv, QuitIsLast
    <3>3. origin' = "eof" => pending' /\ Head(queue').kind = "QUIT"
      BY <1>2, <1>7, <3>1, Zenon
    <3> QED
      BY <3>2, <3>3
  <2> QED
    BY <2>1, Zenon DEF QuitIsLast
<1>9. StaysClosed' /\ ReleasedIdle'
  <2>1. StaysClosed'
    BY <1>1 DEF StaysClosed
  <2>2. ReleasedIdle'
    BY <1>1, <1>2, Zenon DEF FreedInv, ReleasedIdle
  <2> QED
    BY <2>1, <2>2
<1> QED
  BY <1>1, <1>6, <1>8, <1>9 DEF FreedInv

-----------------------------------------------------------------------------
(* The blocks that close segments with nothing sent.                       *)
LEMMA FreedCloses ==
  ASSUME Basis, FreedInv, NEW level \in SUBSET Segment, NEW flags,
         "serverWrite" \in flags => "serverWrite" \in ready,
         "CLIENT_IN" \notin level \/ ~pending,
         CloseClient(level, flags),
         UNCHANGED << queue, request, c2p, sent, freed, asked, pending, reply, p2s >>
  PROVE  FreedInv'
<1>1. TypeOK /\ ClosedTogether /\ Linked
  BY DEF Basis, TypeInv, ClosingInv
<1>2. StaysClosed' /\ origin' \in {origin, "closed"} /\ active' \subseteq active
  BY <1>1, StaysClosedCloses
<1>3. NextId' = NextId
  BY DEF NextId
<1>4. active' = {} => active = {} \/ ~pending
  <2>1. SUFFICES ASSUME active # {}, "CLIENT_IN" \notin level
                 PROVE  active' # {}
    BY Zenon
  <2>2. "CLIENT_IN" \in active /\ active \in SUBSET Segment
    BY <1>1, <2>1 DEF ClosedTogether, TypeOK
  <2>3. "CLIENT_IN" \in ActiveAfter(active, level)
    <3>1. \/ ActiveAfter(active, level) = active \ (level \union {"SERVER_IN"})
          \/ ActiveAfter(active, level) = active \ level
      BY <2>1, <2>2, WhatCloses
    <3> QED
      BY <2>1, <2>2, <3>1
  <2> QED
    BY <2>3 DEF CloseClient
<1> QED
  BY <1>2, <1>3, <1>4, FreedStays

LEMMA FreedAnswers ==
  ASSUME Basis, FreedInv, Respond \/ RespondInvalid \/ RespondRetrieve
  PROVE  FreedInv'
<1>1. /\ queue # << >> /\ {"SERVER_OUT", "CLIENT_IN"} \subseteq active
      /\ UNCHANGED << sent, freed, asked, reply, p2s, origin >>
      /\ active' = active \/ active' = active \union CS_FILTER
      /\ ready' \subseteq ready
  BY Reached DEF Respond, RespondInvalid, RespondRetrieve, RespondDone, GoesOn
<1>2. active' \intersect CS_SERVER = active \intersect CS_SERVER /\ active' # {}
  BY <1>1 DEF CS_FILTER, CS_SERVER
<1>3. ~pending \/ Head(queue).kind # "QUIT"
  <2>1. CASE Respond \/ RespondRetrieve
    BY <2>1 DEF Respond, RespondRetrieve
  <2>2. CASE RespondInvalid
    BY <2>2 DEF RespondInvalid
  <2> QED
    BY <2>1, <2>2
<1> QED
  BY <1>1, <1>2, <1>3, FreedMoves

LEMMA FreedQuits ==
  ASSUME Basis, FreedInv, RespondQuit
  PROVE  FreedInv'
<1>1. TypeOK /\ ClosedTogether /\ Linked
  BY DEF Basis, TypeInv, ClosingInv
<1>2. CS_CLIENT \union CS_SERVER \in SUBSET Segment
  BY DEF Segment
<1>3. CloseClient(CS_CLIENT \union CS_SERVER, ready) /\ UNCHANGED << sent, freed, reply, p2s >>
  BY DEF RespondQuit
<1>4. StaysClosed' /\ origin' = "closed" /\ active' = {}
  BY <1>1, <1>2, <1>3, StaysClosedCloses, RespondQuitEnds
<1>5. ~pending'
  BY Zenon DEF RespondQuit, RespondDone
<1>6. OnlySent'
  BY <1>3 DEF FreedInv, OnlySent, Told, Passed, SentIds
<1> QED
  BY <1>4, <1>5, <1>6 DEF FreedInv, QuitIsLast, ReleasedIdle

LEMMA FreedConnects ==
  ASSUME Basis, FreedInv, Connect
  PROVE  FreedInv'
<1>1. /\ at <= 1 /\ "serverWrite" \in ready /\ at \in 1 .. 7
      /\ UNCHANGED << queue, request, c2p, sent, freed, asked, reply, p2s >>
  BY DEF Connect, Reaches, BlockEnabled, ConnectEnabled, netVars, histVars,
     Basis, TypeInv, TypeOK
<1>2. pending' = pending
  BY DEF Connect
<1>3. origin \in {"connecting", "up", "eof"}
  BY <1>1 DEF FreedInv, StaysClosed
<1>4. SocketError = {FALSE}
  BY <1>3 DEF SocketError
<1>5. active' = active \union CS_SERVER /\ UNCHANGED << ready, origin >>
  BY <1>4 DEF Connect
<1>6. active # {} /\ active' # {}
  BY <1>1, <1>5 DEF Basis, ClosingInv, Alive
<1>7. StaysClosed' /\ NextId' = NextId
  BY <1>1, <1>3, <1>5 DEF StaysClosed, NextId
<1> QED
  BY <1>1, <1>2, <1>5, <1>6, <1>7, FreedStays

LEMMA FreedPolls ==
  ASSUME Basis, FreedInv, Poll
  PROVE  FreedInv'
<1>1. /\ ready' = ready \union UNION {Reported(fd) : fd \in edges}
      /\ UNCHANGED << active, origin, queue, request, c2p, sent, freed, asked, reply, p2s >>
  BY DEF Poll, peerVars, histVars
<1>2. pending' = pending
  BY DEF Poll
<1>3. ASSUME origin = "closed", NEW fd \in edges
      PROVE  "serverWrite" \notin Reported(fd)
  <2>1. fd \in {"client", "server", "filterIn", "filterOut"}
    BY DEF Basis, TypeInv, TypeOK
  <2> QED
    BY <1>3, <2>1 DEF Reported, FlagIf
<1>4. StaysClosed'
  BY <1>1, <1>3 DEF FreedInv, StaysClosed
<1>5. NextId' = NextId
  BY <1>1 DEF NextId
<1> QED
  BY <1>1, <1>2, <1>4, <1>5, FreedStays

(* The blocks that go on with the pass or close a segment.                 *)
LEMMA FreedPasses ==
  ASSUME Basis, FreedInv, Feed \/ RespondWaits \/ Drain \/ TakeNothing \/ SendNothing
  PROVE  FreedInv'
<1>1. UNCHANGED << queue, sent, freed, asked, reply, p2s >>
  BY DEF Feed, RespondWaits, Drain, TakeNothing, SendNothing, netVars, histVars
<1>2. UNCHANGED << request, c2p >>
  BY DEF Feed, RespondWaits, Drain, TakeNothing, SendNothing, netVars
<1>3. pending' = pending
  BY DEF Feed, RespondWaits, Drain, TakeNothing, SendNothing
<1>4. NextId' = NextId
  BY <1>1, <1>2 DEF NextId
<1>5. PICK level, k, flags :
        /\ CloseClient(level, flags) \/ GoesOn(k, flags)
        /\ level \in {{"FILTER_IN"}, {"SERVER_OUT"}, {"FILTER_OUT"}, {"CLIENT_OUT"}}
        /\ "serverWrite" \in flags => "serverWrite" \in ready
  <2>1. CASE Feed
    <3>1. PICK flags : /\ CloseClient({"FILTER_IN"}, flags) \/ GoesOn(2, flags)
                       /\ "serverWrite" \in flags => "serverWrite" \in ready
      BY <2>1 DEF Feed, FlagIf
    <3> QED
      BY <3>1
  <2>2. CASE RespondWaits
    BY <2>2 DEF RespondWaits
  <2>3. CASE Drain
    <3>1. PICK flags : /\ CloseClient({"FILTER_OUT"}, flags) \/ GoesOn(3, flags)
                       /\ "serverWrite" \in flags => "serverWrite" \in ready
      BY <2>3 DEF Drain, FlagIf
    <3> QED
      BY <3>1
  <2>4. CASE TakeNothing
    <3>1. PICK flags : /\ CloseClient({"CLIENT_OUT"}, flags) \/ GoesOn(4, flags)
                       /\ "serverWrite" \in flags => "serverWrite" \in ready
      BY <2>4 DEF TakeNothing
    <3> QED
      BY <3>1
  <2>5. CASE SendNothing
    <3>1. PICK flags : /\ GoesOn(5, flags)
                       /\ "serverWrite" \in flags => "serverWrite" \in ready
      BY <2>5 DEF SendNothing, WakeToAnswer
    <3> QED
      BY <3>1
  <2> QED
    BY <2>1, <2>2, <2>3, <2>4, <2>5
<1>6. CASE GoesOn(k, flags)
  <2>1. active' = active /\ ready' = flags /\ origin' = origin
    BY <1>6 DEF GoesOn
  <2>2. StaysClosed'
    BY <1>5, <2>1 DEF FreedInv, StaysClosed
  <2> QED
    BY <1>1, <1>3, <1>4, <2>1, <2>2, FreedStays
<1>7. CASE CloseClient(level, flags)
  <2>1. level \in SUBSET Segment /\ "CLIENT_IN" \notin level
    BY <1>5 DEF Segment, CS_CLIENT, CS_SERVER, CS_FILTER
  <2> QED
    BY <1>1, <1>2, <1>3, <1>5, <1>7, <2>1, FreedCloses
<1> QED
  BY <1>5, <1>6, <1>7

LEMMA FreedFinishes ==
  ASSUME Basis, FreedInv, Finish
  PROVE  FreedInv'
<1>1. /\ Reaches(6) /\ CloseClient(CS_SERVER \union CS_CLIENT, ready)
      /\ UNCHANGED << queue, request, c2p, sent, freed, asked, reply, p2s >>
  BY DEF Finish, netVars, histVars
<1>2. pending' = pending
  BY DEF Finish
<1>3. ~pending
  <2>1. queue = << >>
    BY <1>1 DEF Reaches, BlockEnabled, FinishEnabled
  <2> QED
    BY <2>1 DEF Basis, LineInv, SentFirst
<1>4. CS_SERVER \union CS_CLIENT \in SUBSET Segment
  BY DEF Segment
<1> QED
  BY <1>1, <1>2, <1>3, <1>4, FreedCloses

LEMMA FreedTakes ==
  ASSUME Basis, FreedInv, TakeCommand
  PROVE  FreedInv'
<1>1. /\ queue' = Append(queue, Head(Requested)) /\ Requested # << >>
      /\ UNCHANGED << active, ready, origin, sent, freed, asked, reply, p2s >>
  BY DEF TakeCommand, GoesOn, histVars
<1>2. pending' = pending
  BY DEF TakeCommand
<1>3. NextId' = NextId
  BY TakeKeepsNumber DEF Basis
<1>4. ASSUME pending
      PROVE  Head(queue') = Head(queue)
  <2>1. queue \in Seq(Command) /\ queue # << >>
    BY <1>4 DEF Basis, TypeInv, TypeOK, LineInv, SentFirst
  <2>2. Requested \in Seq(Command)
    BY RequestedType DEF Basis
  <2>3. Head(Requested) \in Command
    BY <1>1, <2>2, HeadTailProperties
  <2>4. Len(queue) \in Nat \ {0} /\ Head(queue) = queue[1]
    BY <2>1, EmptySeq, HeadTailProperties
  <2>5. /\ queue' \in Seq(Command) /\ Len(queue') = Len(queue) + 1
        /\ queue'[1] = queue[1]
    BY <1>1, <2>1, <2>3, <2>4, AppendProperties
  <2>6. queue' # << >>
    BY <2>4, <2>5, EmptySeq
  <2> QED
    BY <2>4, <2>5, <2>6, HeadTailProperties
<1>5. StaysClosed'
  BY <1>1 DEF FreedInv, StaysClosed
<1> QED
  BY <1>1, <1>2, <1>3, <1>4, <1>5, FreedStays

LEMMA FreedPeers ==
  ASSUME Basis, FreedInv,
         \/ OriginAccepts \/ ClientCloses \/ ClientReads
         \/ FilterReads \/ FilterWrites \/ FilterExits \/ UNCHANGED vars
  PROVE  FreedInv'
<1>1. /\ UNCHANGED << queue, request, c2p, active, ready, asked, reply, p2s, sent, freed >>
      /\ origin' = origin \/ (origin = "connecting" /\ origin' = "up")
  BY DEF OriginAccepts, ClientCloses, ClientReads, FilterReads, FilterWrites, FilterExits,
     vars, proxyVars, netVars, peerVars, histVars
<1>2. pending' = pending
  BY DEF OriginAccepts, ClientCloses, ClientReads, FilterReads, FilterWrites, FilterExits,
     vars, proxyVars
<1>3. NextId' = NextId
  BY <1>1 DEF NextId
<1>4. StaysClosed'
  BY <1>1 DEF FreedInv, StaysClosed
<1> QED
  BY <1>1, <1>2, <1>3, <1>4, FreedStays

LEMMA FreedStep ==
  ASSUME ~OriginMayFail
  PROVE  Basis /\ FreedInv /\ [Next]_vars => FreedInv'
<1> SUFFICES ASSUME Basis, FreedInv, [Next]_vars
             PROVE  FreedInv'
  OBVIOUS
<1>1. ~OriginFails
  BY Zenon DEF OriginFails
<1>2. ~SendFails
  <2>1. SUFFICES ASSUME SendFails
                 PROVE  FALSE
    OBVIOUS
  <2>2. origin \in {"reset", "closed"} /\ "SERVER_IN" \in active
    BY <2>1, Reached DEF SendFails
  <2>3. origin = "closed"
    BY <2>2 DEF FreedInv
  <2> QED
    BY <2>2, <2>3 DEF FreedInv, StaysClosed, CS_SERVER
<1> QED
  BY <1>1, <1>2, FreedAnswers, FreedQuits, FreedConnects, FreedPolls, FreedPasses,
     FreedFinishes, FreedTakes, FreedPeers, FreedSends, FreedGrows, FreedServes, FreedSays
     DEF Next, Proxy, ProcessClient, OriginStep

(* As long as the origin neither closes nor resets the connection on its   *)
(* own, no request data is freed twice when a session is released: what    *)
(* sendPopRequest freed has left the queue, or the session lives until it  *)
(* is answered.                                                            *)
THEOREM FreedByOne ==
  ASSUME ~OriginMayFail
  PROVE  Spec => []FreedOnce
<1>1. Basis /\ FreedInv /\ [Next]_vars => FreedInv'
  BY FreedStep
<1>2. Spec => [](TypeInv /\ ClosingInv)
  BY TypeCorrect, ClosingInit, ClosingStep, PTL DEF TypeInv, Spec
<1>3. Spec => []Basis
  BY <1>2, LinkedAlways, LineAlways, KnownAlways, PTL DEF Basis
<1>4. Basis /\ FreedInv => FreedOnce
  BY FreedMeans DEF Basis
<1> QED
  BY <1>1, <1>3, <1>4, FreedInit, PTL DEF Spec

-----------------------------------------------------------------------------
(* The session as a pipeline, when the origin is predictable and never     *)
(* fails on its own.                                                       *)
Steady == Grounds /\ ConvInv /\ FreedInv

(* A session in which processPopServer can run can still be answered.      *)
LEMMA RespondsUsable ==
  ASSUME FreedInv, Responding
  PROVE  Usable /\ active # {} /\ queue # << >>
<1>1. "SERVER_OUT" \in active /\ queue # << >>
  BY Reached
<1>2. origin # "closed"
  BY <1>1 DEF FreedInv, StaysClosed, CS_SERVER
<1> QED
  BY <1>1, <1>2 DEF FreedInv, Usable

(* Closing without the client's IN half leaves the session open.           *)
LEMMA StaysOpen ==
  ASSUME Grounds, active # {}, NEW level \in SUBSET Segment, "CLIENT_IN" \notin level,
         NEW flags, CloseClient(level, flags)
  PROVE  active' # {}
<1>1. "CLIENT_IN" \in active /\ active \in SUBSET Segment
  BY DEF Grounds, ClosingInv, ClosedTogether, TypeInv, TypeOK
<1>2. \/ ActiveAfter(active, level) = active \ (level \union {"SERVER_IN"})
      \/ ActiveAfter(active, level) = active \ level
  BY <1>1, WhatCloses
<1> QED
  BY <1>1, <1>2 DEF CloseClient

LEMMA PipeStutters ==
  ASSUME UNCHANGED << queue, pending >>, active' # {} <=> active # {}
  PROVE  UNCHANGED Pipeline!pipeVars
<1>1. (active # {})' = (active # {})
  BY Zenon
<1> QED
  BY <1>1, Zenon DEF Pipeline!pipeVars

LEMMA EnterInLine ==
  ASSUME Grounds, TakeCommand
  PROVE  Pipeline!Enter
<1>1. /\ Reaches(4) /\ Requested # << >> /\ queue' = Append(queue, Head(Requested))
      /\ active' = active
  BY DEF TakeCommand, GoesOn
<1>2. pending' = pending
  BY DEF TakeCommand
<1>3. active # {} /\ Len(queue) < PENDING_QUEUE
  BY <1>1 DEF Reaches, BlockEnabled, CommandEnabled
<1>4. Head(Requested) \in Command
  <2>1. Requested \in Seq(Command)
    BY RequestedType DEF Grounds
  <2> QED
    BY <1>1, <2>1, HeadTailProperties
<1>5. (active # {})' = (active # {})
  BY <1>1
<1> QED
  BY <1>1, <1>2, <1>3, <1>4, <1>5, Zenon DEF Pipeline!Enter

LEMMA ForwardInLine ==
  ASSUME SendCommand
  PROVE  Pipeline!Forward
<1>1. Reaches(5) /\ Head(queue).kind # "INVALID" /\ UNCHANGED << active, queue >>
  BY DEF SendCommand
<1>2. pending' = TRUE
  BY DEF SendCommand
<1>3. queue # << >> /\ ~pending /\ active # {}
  BY <1>1, Reached
<1>4. Head(queue) \notin {c \in Command : c.kind = "INVALID"}
  BY <1>1
<1>5. (active # {})' = (active # {})
  BY <1>1
<1> QED
  BY <1>1, <1>2, <1>3, <1>4, <1>5, Zenon DEF Pipeline!Forward

LEMMA AnswerInLine ==
  ASSUME Steady, Respond \/ RespondQuit
  PROVE  Pipeline!Answer
<1>1. RespondDone /\ Responding
  BY DEF Respond, RespondQuit, RespondDone
<1>2. Usable /\ active # {}
  BY <1>1, RespondsUsable DEF Steady
<1>3. pending
  BY <1>1, <1>2, AnswerAwaited, Zenon DEF Steady
<1>4. queue' = Tail(queue)
  BY <1>1 DEF RespondDone
<1>5. pending' = FALSE
  BY <1>1 DEF RespondDone
<1>6. (active # {})' \in BOOLEAN
  OBVIOUS
<1> QED
  BY <1>2, <1>3, <1>4, <1>5, <1>6, Zenon DEF Pipeline!Answer

LEMMA RejectInLine ==
  ASSUME Grounds, RespondInvalid
  PROVE  Pipeline!Reject
<1>1. /\ Responding /\ Head(queue).kind = "INVALID" /\ queue' = Tail(queue)
      /\ active' = active
  BY DEF RespondInvalid, GoesOn
<1>2. pending' = pending
  BY DEF RespondInvalid
<1>3. queue # << >> /\ active # {}
  BY <1>1, Reached
<1>4. Head(queue) \in {c \in Command : c.kind = "INVALID"}
  BY <1>1, <1>3, QueueHead DEF Grounds, TypeInv
<1>5. (active # {})' = (active # {})
  BY <1>1
<1> QED
  BY <1>1, <1>2, <1>3, <1>4, <1>5, Zenon DEF Pipeline!Reject

LEMMA LeaveInLine ==
  ASSUME Grounds, Finish
  PROVE  Pipeline!Leave /\ active' = {}
<1>1. /\ Reaches(6) /\ CloseClient(CS_SERVER \union CS_CLIENT, ready)
      /\ queue' = queue
  BY DEF Finish
<1>2. pending' = pending
  BY DEF Finish
<1>3. queue = << >> /\ at \in 1 .. 6
  BY <1>1 DEF Reaches, BlockEnabled, FinishEnabled, Grounds, TypeInv, TypeOK
<1>4. "CLIENT_IN" \in active /\ active \in SUBSET Segment
  BY <1>3 DEF Grounds, ClosingInv, Alive, ClosedTogether, TypeInv, TypeOK
<1>5. CS_SERVER \union CS_CLIENT \in SUBSET Segment /\ "CLIENT_IN" \in CS_CLIENT
  BY DEF Segment, CS_CLIENT
<1>6. active' = {}
  BY <1>1, <1>4, <1>5, WhatCloses DEF CloseClient
<1>7. (active # {})' = FALSE
  BY <1>6
<1>8. active # {}
  BY <1>4
<1> QED
  BY <1>1, <1>2, <1>3, <1>6, <1>7, <1>8, Zenon DEF Pipeline!Leave

(* An origin that is not given up is connected.                            *)
LEMMA ConnectTakes ==
  ASSUME FreedInv, Connect
  PROVE  active' = active \union CS_SERVER
<1>1. "serverWrite" \in ready
  BY DEF Connect, Reaches, BlockEnabled, ConnectEnabled
<1>2. origin \in {"connecting", "up", "eof"}
  BY <1>1 DEF FreedInv, StaysClosed
<1>3. SocketError = {FALSE}
  BY <1>2 DEF SocketError
<1> QED
  BY <1>3 DEF Connect

(* The origin's part of a session is not written to when it is closed.     *)
LEMMA NoSendFails ==
  ASSUME FreedInv
  PROVE  ~SendFails
<1>1. SUFFICES ASSUME SendFails
               PROVE  FALSE
  OBVIOUS
<1>2. origin \in {"reset", "closed"} /\ "SERVER_IN" \in active
  BY <1>1, Reached DEF SendFails
<1>3. origin = "closed"
  BY <1>2 DEF FreedInv
<1> QED
  BY <1>2, <1>3 DEF FreedInv, StaysClosed, CS_SERVER

(* The blocks that leave the line alone.                                   *)
LEMMA OthersStutter ==
  ASSUME Steady,
         \/ Poll \/ Connect \/ RespondWaits \/ TakeNothing \/ SendNothing
         \/ Peers \/ UNCHANGED vars
  PROVE  UNCHANGED << queue, pending >> /\ (active' # {} <=> active # {})
<1>1. CASE Poll \/ SendNothing \/ Peers \/ UNCHANGED vars
  <2>1. CASE Peers \/ UNCHANGED vars
    BY <2>1, PeersLeaveProxy DEF vars, proxyVars
  <2>2. CASE Poll \/ SendNothing
    BY <2>2 DEF Poll, SendNothing, GoesOn
  <2> QED
    BY <1>1, <2>1, <2>2
<1>2. CASE Connect
  <2>1. active # {}
    <3>1. at <= 1 /\ at \in 1 .. 7
      BY <1>2, Reached DEF Connect, Steady, Grounds, TypeInv, TypeOK
    <3> QED
      BY <3>1 DEF Steady, Grounds, ClosingInv, Alive
  <2>2. active' = active \union CS_SERVER
    BY <1>2, ConnectTakes DEF Steady
  <2>3. UNCHANGED << queue, pending >>
    BY <1>2 DEF Connect
  <2> QED
    BY <2>1, <2>2, <2>3
<1>3. CASE RespondWaits \/ TakeNothing
  <2>1. UNCHANGED << queue, pending >>
    BY <1>3 DEF RespondWaits, TakeNothing
  <2>2. active # {}
    <3>1. Responding \/ Reaches(4)
      BY <1>3 DEF RespondWaits, TakeNothing
    <3>2. Reaches(4) => "CLIENT_OUT" \in active
      BY DEF Reaches, BlockEnabled, CommandEnabled
    <3> QED
      BY <3>1, <3>2, Reached
  <2>3. PICK level, k, flags : /\ level \in {{"SERVER_OUT"}, {"CLIENT_OUT"}}
                               /\ CloseClient(level, flags) \/ GoesOn(k, flags)
    <3>1. CASE RespondWaits
      BY <3>1 DEF RespondWaits
    <3>2. CASE TakeNothing
      BY <3>2 DEF TakeNothing
    <3> QED
      BY <1>3, <3>1, <3>2
  <2>4. level \in SUBSET Segment /\ "CLIENT_IN" \notin level
    BY <2>3 DEF Segment, CS_CLIENT, CS_SERVER
  <2>5. active' # {}
    <3>1. CASE GoesOn(k, flags)
      BY <2>2, <3>1 DEF GoesOn
    <3>2. CASE CloseClient(level, flags)
      BY <2>2, <2>4, <3>2, StaysOpen DEF Steady
    <3> QED
      BY <2>3, <3>1, <3>2
  <2> QED
    BY <2>1, <2>2, <2>5
<1> QED
  BY <1>1, <1>2, <1>3

(* No message is retrieved.                                                *)
LEMMA NoneRetrieved ==
  ASSUME Predictable, Grounds
  PROVE  ~Feed /\ ~Drain /\ ~RespondRetrieve
<1>1. ~Feed /\ ~Drain
  BY NoFilterBlock DEF Grounds
<1>2. ~RespondRetrieve
  <2>1. SUFFICES ASSUME RespondRetrieve
                 PROVE  FALSE
    OBVIOUS
  <2>2. queue # << >> /\ Head(queue).kind = "RETR"
    BY <2>1, Reached DEF RespondRetrieve, RespondDone
  <2> QED
    BY <2>2, KnownHead DEF Grounds, Predictable
<1> QED
  BY <1>1, <1>2

LEMMA PipeStep ==
  ASSUME Predictable, Steady, [Next]_vars
  PROVE  [Pipeline!PipeNext]_(Pipeline!pipeVars)
<1>1. CASE \/ Poll \/ Connect \/ RespondWaits \/ TakeNothing \/ SendNothing
           \/ Peers \/ UNCHANGED vars
  BY <1>1, OthersStutter, PipeStutters
<1>2. CASE TakeCommand \/ SendCommand \/ Respond \/ RespondQuit \/ RespondInvalid \/ Finish
  BY <1>2, EnterInLine, ForwardInLine, AnswerInLine, RejectInLine, LeaveInLine
     DEF Pipeline!PipeNext, Steady
<1>3. ~Feed /\ ~Drain /\ ~RespondRetrieve /\ ~SendFails
  BY NoneRetrieved, NoSendFails DEF Steady
<1> QED
  BY <1>1, <1>2, <1>3 DEF Next, Proxy, ProcessClient, Peers

LEMMA PipeStart == Init => Pipeline!PipeInit
<1> SUFFICES ASSUME Init PROVE Pipeline!PipeInit
  OBVIOUS
<1>1. queue = << [id |-> 0, kind |-> "GREETING"] >> /\ active = CS_CLIENT
  BY DEF Init
<1>2. pending = TRUE
  BY DEF Init
<1>3. (active # {}) = TRUE
  BY <1>1 DEF CS_CLIENT
<1> QED
  BY <1>1, <1>2, <1>3, Zenon DEF Pipeline!PipeInit

LEMMA SteadyAlways ==
  ASSUME Predictable, ~OriginMayFail
  PROVE  Spec => []Steady
<1>1. Spec => [](Grounds /\ ConvInv)
  BY ConvAlways
<1>2. Basis /\ FreedInv /\ [Next]_vars => FreedInv'
  BY FreedStep
<1>3. Grounds => Basis
  BY DEF Grounds, Basis
<1> QED
  BY <1>1, <1>2, <1>3, FreedInit, PTL DEF Spec, Steady

(* With an origin that answers as RFC 1939 has it and stays, a session is  *)
(* the pipeline of PopPipeline: no command is answered before the origin   *)
(* has it, none that is with the origin is left behind, and the session    *)
(* ends with an empty line or upon an answer.                              *)
THEOREM RunsAsPipeline ==
  ASSUME Predictable, ~OriginMayFail
  PROVE  Spec => Pipeline!PipeSafety
<1>1. Steady /\ [Next]_vars => [Pipeline!PipeNext]_(Pipeline!pipeVars)
  BY PipeStep
<1> QED
  BY <1>1, SteadyAlways, PipeStart, PTL DEF Spec, Pipeline!PipeSafety

-----------------------------------------------------------------------------
(* The last line of a reply the client is given ends its answer.           *)
LastIs(s, t) == Len(s) \in Nat \ {0} /\ s[Len(s)] = t

LEMMA LastOfOne ==
  ASSUME NEW s \in Seq(Token), NEW t \in Token
  PROVE  LastIs(Append(s, t), t)
BY AppendProperties, LenProperties DEF LastIs

LEMMA LastOfConcat ==
  ASSUME NEW s \in Seq(Token), NEW u \in Seq(Token), NEW t, LastIs(u, t)
  PROVE  LastIs(s \o u, t)
<1> DEFINE su == s \o u
<1>1. Len(s) \in Nat /\ Len(u) \in Nat \ {0} /\ u[Len(u)] = t
  BY LenProperties DEF LastIs
<1>2. /\ Len(su) = Len(s) + Len(u)
      /\ \A i \in 1 .. Len(s) + Len(u) : su[i] = IF i <= Len(s) THEN s[i] ELSE u[i - Len(s)]
  BY ConcatProperties
<1> HIDE DEF su
<1>3. su[Len(su)] = u[Len(u)] /\ Len(su) \in Nat \ {0}
  <2>1. /\ Len(su) \in 1 .. Len(s) + Len(u) /\ ~(Len(su) <= Len(s))
        /\ Len(su) - Len(s) = Len(u) /\ Len(su) \in Nat \ {0}
    BY <1>1, <1>2
  <2>2. su[Len(su)] = u[Len(su) - Len(s)]
    BY <1>2, <2>1, Zenon
  <2> QED
    BY <2>1, <2>2
<1>4. LastIs(su, t)
  BY <1>1, <1>3 DEF LastIs
<1> QED
  BY <1>4 DEF su

LEMMA LastOfCompletes ==
  ASSUME NEW in \in Inputs(Id), NEW out \in Seq(Token), NEW rest, NEW success, NEW t,
         LastIs(out, t)
  PROVE  LastIs(Completes(in, out, rest, success).out, t)
<1>1. in.out \in Seq(Token)
  BY TokenIsTokens DEF Inputs
<1>2. LastIs(in.out \o out, t)
  BY <1>1, LastOfConcat
<1>3. Completes(in, out, rest, success).out = in.out \o out
  BY DEF Completes
<1> QED
  BY <1>2, <1>3

LEMMA LastOfSub ==
  ASSUME NEW s \in Seq(Token), NEW n \in 1 .. Len(s)
  PROVE  LastIs(SubSeq(s, 1, n), s[n])
<1>1. Len(s) \in Nat /\ n \in Int /\ 1 \in Int /\ \A i \in 1 .. n : s[i] \in Token
  BY LenProperties, ElementOfSeq
<1> DEFINE u == SubSeq(s, 1, n)
<1>2. /\ Len(u) = IF 1 <= n THEN n - 1 + 1 ELSE 0
      /\ \A i \in 1 .. n - 1 + 1 : u[i] = s[1 + i - 1]
  BY <1>1, SubSeqProperties
<1> HIDE DEF u
<1>3. Len(u) = n /\ u[n] = s[n] /\ n \in Nat \ {0}
  BY <1>1, <1>2
<1>4. LastIs(u, s[n])
  BY <1>3 DEF LastIs
<1> QED
  BY <1>4 DEF u

LEMMA ListGiven ==
  ASSUME NEW in \in Inputs(Id), NEW own \in Seq(Token), NEW buf \in Seq(Token),
         NEW seen \in BOOLEAN, ScanList(in, own, buf, seen).done
  PROVE  \E i \in 1 .. Len(buf) : /\ buf[i].part = "end"
                                  /\ LastIs(ScanList(in, own, buf, seen).out, buf[i])
<1> DEFINE ends == EndsAt(buf, seen)
           last == CHOOSE i \in ends : \A j \in ends : i <= j
           rest == SubSeq(buf, last + 1, Len(buf))
           r    == ScanList(in, own, buf, seen)
<1>0. Len(buf) \in Nat
  BY LenProperties
<1>1. ends # {}
  <2>1. SUFFICES ASSUME ends = {}
                 PROVE  FALSE
    OBVIOUS
  <2>2. r = Waits(in, own \o buf, IF buf = << >> THEN "list0" ELSE "list")
    BY <2>1, Zenon DEF ScanList
  <2>3. ~Waits(in, own \o buf, IF buf = << >> THEN "list0" ELSE "list").done
    BY DEF Waits
  <2> QED
    BY <2>2, <2>3
<1>2. ends \subseteq 1 .. Len(buf) /\ \A i \in ends : buf[i].part = "end"
  BY DEF EndsAt
<1>3. last \in ends
  <2>1. \E i \in ends : \A j \in ends : i <= j
    BY <1>0, <1>1, <1>2, LeastElement
  <2> QED
    BY <2>1
<1>4. r = Completes(in, own \o SubSeq(buf, 1, last), rest, TRUE)
  BY <1>1, Zenon DEF ScanList
<1> HIDE DEF last, ends, r, rest
<1>5. last \in 1 .. Len(buf) /\ buf[last].part = "end"
  BY <1>2, <1>3
<1>6. LastIs(SubSeq(buf, 1, last), buf[last])
  BY <1>5, LastOfSub
<1>7. SubSeq(buf, 1, last) \in Seq(Token)
  <2>1. \A i \in 1 .. last : buf[i] \in Token
    BY <1>0, <1>5, ElementOfSeq
  <2>2. last \in Int /\ 1 \in Int
    BY <1>5
  <2> QED
    BY <2>1, <2>2, SubSeqProperties
<1> DEFINE part == SubSeq(buf, 1, last)
<1>8. LastIs(own \o part, buf[last]) /\ own \o part \in Seq(Token)
  BY <1>6, <1>7, LastOfConcat, ConcatProperties
<1> DEFINE out == own \o part
<1>9. r = Completes(in, out, rest, TRUE) /\ LastIs(out, buf[last]) /\ out \in Seq(Token)
  BY <1>4, <1>8
<1> HIDE DEF part, out
<1>10. LastIs(r.out, buf[last])
  BY <1>9, LastOfCompletes
<1> QED
  BY <1>5, <1>10 DEF r

(* A line of a command, and what ends its answer.                          *)
OwnLines(id) == {t \in Token : t.id = id}

Gives(r, cmd) == \E t \in Token : EndsAnswer(cmd, t) /\ LastIs(r.out, t)

LEMMA HeldLast ==
  ASSUME NEW in \in Inputs(Id), NEW line \in Token
  PROVE  Held(in, line) \in Seq(Token) /\ LastIs(Held(in, line), line)
<1> DEFINE left == in.held
           one  == << line >>
<1>1. left \in Seq(Token)
  <2>1. left \in Leftover(Id)
    BY DEF Inputs
  <2> QED
    BY <2>1, LeftoverType, TokenIsTokens
<1>2. one \in Seq(Token) /\ LastIs(one, line)
  BY DEF LastIs
<1>3. Held(in, line) = left \o one
  <2>1. Append(left, line) = left \o << line >>
    BY <1>1, AppendIsConcat
  <2> QED
    BY <2>1, Zenon DEF Held
<1> HIDE DEF left, one
<1>4. left \o one \in Seq(Token) /\ LastIs(left \o one, line)
  BY <1>1, <1>2, LastOfConcat, ConcatProperties
<1> QED
  BY <1>3, <1>4

(* parsePopResponse, when it completes with something to read.             *)
LEMMA AnswerGiven ==
  ASSUME NEW cmd \in Command, cmd.kind \notin {"UIDL", "RETR"},
         NEW in \in Inputs(Id), in.buf \in Seq(OwnLines(cmd.id)), in.buf # << >>,
         in.state # "body", parsePopResponse(in, cmd.kind \in Multiline, cmd.id).done
  PROVE  Gives(parsePopResponse(in, cmd.kind \in Multiline, cmd.id), cmd)
<1> DEFINE Own   == OwnLines(cmd.id)
           multi == cmd.kind \in Multiline
           r     == parsePopResponse(in, multi, cmd.id)
           line  == Head(in.buf)
           rest  == Tail(in.buf)
           bad   == [id |-> cmd.id, part |-> "badorigin"]
           kept  == [in EXCEPT !.held = << >>]
<1>1. /\ in.buf \in Seq(Token) /\ in.state \in {"fresh", "status", "list", "list0"}
      /\ kept \in Inputs(Id)
  BY TokenIsTokens, KeptType DEF Inputs, ReplyState
<1>2. line \in Own /\ rest \in Seq(Own) /\ in.buf \in Seq(Own)
  BY HeadTailProperties
<1>3. Own \subseteq Token /\ \A t \in Own : t.id = cmd.id
  BY DEF OwnLines
<1>4. cmd.kind \in LongReplies => cmd.kind \in Multiline
  BY DEF LongReplies, Multiline
<1>5. bad \in Token /\ bad.id = cmd.id /\ bad.part = "badorigin"
  BY DEF Token, Command, Part
<1> HIDE DEF Own, multi, r, line, rest, bad, kept
<1> SUFFICES Gives(r, cmd)
  BY DEF r, multi
<1>6. line \in Token /\ line.id = cmd.id /\ rest \in Seq(Token)
  BY <1>2, <1>3, SeqMonotonic
<1>7. \A t \in Own : t.part = "end" => EndsAnswer(cmd, t)
  BY <1>3 DEF EndsAnswer
<1>8. r.done
  BY DEF r, multi
<1>9. ASSUME NEW from \in Inputs(Id), NEW own \in Seq(Token), NEW buf \in Seq(Own),
             NEW seen \in BOOLEAN, r = ScanList(from, own, buf, seen)
      PROVE  Gives(r, cmd)
  <2>1. buf \in Seq(Token)
    BY <1>3, SeqMonotonic
  <2>2. PICK i \in 1 .. Len(buf) : /\ buf[i].part = "end"
                                   /\ LastIs(ScanList(from, own, buf, seen).out, buf[i])
    BY <1>8, <1>9, <2>1, ListGiven, Zenon
  <2>3. buf[i] \in Own
    BY ElementOfSeq
  <2> QED
    BY <1>3, <1>7, <1>9, <2>2, <2>3 DEF Gives
<1>10. CASE in.state \in {"fresh", "status"}
  <2>1. r = ScanStatus(in, multi, cmd.id)
    BY <1>10 DEF r, parsePopResponse
  <2>2. CASE line.part \notin {"ok", "err"}
    <3>1. r = Completes(in, << bad >>, in.buf, FALSE)
      BY <2>1, <2>2 DEF ScanStatus, line, bad
    <3>2. << bad >> \in Seq(Token) /\ LastIs(<< bad >>, bad)
      BY <1>5 DEF LastIs
    <3>3. LastIs(r.out, bad)
      BY <3>1, <3>2, LastOfCompletes
    <3>4. EndsAnswer(cmd, bad)
      BY <1>5 DEF EndsAnswer
    <3> QED
      BY <1>5, <3>3, <3>4, Zenon DEF Gives
  <2>3. CASE line.part = "ok" /\ multi
    <3>1. r = ScanList(kept, Held(in, line), rest, FALSE)
      BY <2>1, <2>3 DEF ScanStatus, line, kept, rest
    <3>2. Held(in, line) \in Seq(Token) /\ FALSE \in BOOLEAN
      BY <1>6, HeldLast
    <3> QED
      BY <1>1, <1>2, <1>9, <3>1, <3>2, Zenon
  <2>4. CASE line.part \in {"ok", "err"} /\ ~(line.part = "ok" /\ multi)
    <3>1. r = Completes(in, Held(in, line), rest, line.part = "ok")
      BY <2>1, <2>4, Zenon DEF ScanStatus, line, rest
    <3>2. Held(in, line) \in Seq(Token) /\ LastIs(Held(in, line), line)
      BY <1>6, HeldLast
    <3>3. LastIs(r.out, line)
      BY <3>1, <3>2, LastOfCompletes
    <3>4. EndsAnswer(cmd, line)
      BY <1>4, <1>6, <2>4 DEF EndsAnswer, multi
    <3> QED
      BY <1>6, <3>3, <3>4, Zenon DEF Gives
  <2> QED
    BY <2>2, <2>3, <2>4
<1>11. CASE in.state \in {"list", "list0"}
  <2>1. r = ScanList(in, << >>, in.buf, in.state = "list")
    BY <1>11 DEF r, parsePopResponse
  <2>2. << >> \in Seq(Token) /\ (in.state = "list") \in BOOLEAN
    BY EmptySeq
  <2> QED
    BY <1>2, <1>9, <2>1, <2>2, Zenon
<1>12. in.state \in {"fresh", "status"} \/ in.state \in {"list", "list0"}
  BY <1>1
<1> QED
  BY <1>10, <1>11, <1>12, Zenon

(* The reply as the client gets it.                                        *)
LEMMA RelayedGiven ==
  ASSUME NEW cmd \in Command, NEW out \in Seq(Token), NEW t \in Token,
         EndsAnswer(cmd, t), LastIs(out, t)
  PROVE  \E u \in Token : EndsAnswer(cmd, u) /\ LastIs(Relayed(cmd, out), u)
<1>1. CASE cmd.kind # "CAPA"
  <2>1. Relayed(cmd, out) = out
    BY <1>1 DEF Relayed
  <2> QED
    BY <2>1
<1>2. CASE cmd.kind = "CAPA"
  <2> DEFINE last == out[Len(out)]
             cut  == IF out = << >> THEN << [id |-> cmd.id, part |-> "overread"] >>
                     ELSE IF last.part = "end" THEN SubSeq(out, 1, Len(out) - 1)
                     ELSE [out EXCEPT ![Len(out)] = [last EXCEPT !.part = "garbled"]]
             more == [id |-> cmd.id, part |-> "pipelining"]
             u    == [id |-> cmd.id, part |-> "end"]
             own  == << more, u >>
  <2>1. Relayed(cmd, out) = cut \o own
    BY <1>2 DEF Relayed
  <2>2. more \in Token /\ u \in Token /\ EndsAnswer(cmd, u)
    BY DEF Command, Token, Part, EndsAnswer
  <2>3. cut \in Seq(Token)
    <3>1. Len(out) \in Nat \ {0}
      BY DEF LastIs
    <3>2. SubSeq(out, 1, Len(out) - 1) \in Seq(Token)
      <4>1. \A i \in 1 .. Len(out) - 1 : out[i] \in Token
        BY <3>1, ElementOfSeq
      <4> QED
        BY <3>1, <4>1, SubSeqProperties
    <3>3. [last EXCEPT !.part = "garbled"] \in Token
      BY DEF LastIs, Token, Part
    <3>4. [out EXCEPT ![Len(out)] = [last EXCEPT !.part = "garbled"]] \in Seq(Token)
      BY <3>1, <3>3, ExceptSeq
    <3>5. out # << >>
      BY <3>1, EmptySeq
    <3> QED
      BY <3>2, <3>4, <3>5
  <2> HIDE DEF cut, more, u
  <2>4. own \in Seq(Token) /\ LastIs(own, u)
    BY <2>2 DEF LastIs
  <2> HIDE DEF own
  <2>5. LastIs(cut \o own, u)
    BY <2>3, <2>4, LastOfConcat
  <2> QED
    BY <2>1, <2>2, <2>5
<1> QED
  BY <1>1, <1>2

(* What was told stays told.                                               *)
LEMMA TellsMore ==
  ASSUME TypeOK, NEW lines \in Seq(Token), Tells(lines)
  PROVE  /\ \A cmd : Answered(cmd) => Answered(cmd)'
         /\ \A cmd, t : EndsAnswer(cmd, t) /\ LastIs(lines, t) => Answered(cmd)'
<1>1. told \in Seq(Token) /\ told' = told \o lines
  BY DEF TypeOK, Tells
<1>2. /\ Len(told') = Len(told) + Len(lines) /\ Len(told) \in Nat /\ Len(lines) \in Nat
      /\ \A i \in 1 .. Len(told) + Len(lines) :
           told'[i] = IF i <= Len(told) THEN told[i] ELSE lines[i - Len(told)]
  BY <1>1, ConcatProperties, LenProperties
<1>3. ASSUME NEW cmd, Answered(cmd)
      PROVE  Answered(cmd)'
  <2>1. PICK i \in 1 .. Len(told) : EndsAnswer(cmd, told[i])
    BY <1>3 DEF Answered
  <2>2. i \in 1 .. Len(told') /\ told'[i] = told[i]
    BY <1>2
  <2> QED
    BY <2>1, <2>2 DEF Answered
<1>4. ASSUME NEW cmd, NEW t, EndsAnswer(cmd, t), LastIs(lines, t)
      PROVE  Answered(cmd)'
  <2>1. LastIs(told', t)
    BY <1>1, <1>4, LastOfConcat
  <2>2. Len(told') \in 1 .. Len(told') /\ told'[Len(told')] = t
    BY <2>1 DEF LastIs
  <2> QED
    BY <1>4, <2>2 DEF Answered
<1> QED
  BY <1>3, <1>4

-----------------------------------------------------------------------------
(* What the origin says on the head of the queue is the head's own.        *)
ParsesOwn ==
  pending =>
    /\ s2p \in Seq(OwnLines(Head(queue).id)) /\ reply \in Seq(OwnLines(Head(queue).id))
    /\ response.state \in {"list", "list0"} => Head(queue).kind \in Multiline
    /\ p2s = << >> /\ response.state \in {"fresh", "status"} => s2p # << >> \/ reply # << >>

(* The client's OUT half is closed when there is nothing more to read.     *)
Drained ==
  active # {} /\ "CLIENT_OUT" \notin active => request = << >> /\ c2p = << >> /\ clientEof

(* The commands before the head of the queue are answered.                 *)
AllAnswered ==
  active # {} => \A i \in 1 .. Len(asked) : i < NextId => Answered(asked[i])

EndsInv == ParsesOwn /\ Drained /\ AllAnswered

(* parsePopResponse, when it does not complete, or has nothing to read.    *)
LEMMA ScanWaits ==
  ASSUME NEW in \in Inputs(Id), in.state # "body", NEW multi \in BOOLEAN, NEW id
  PROVE  LET r == parsePopResponse(in, multi, id)
         IN  /\ r.done /\ in.buf = << >> => in.state \in {"status", "list0"}
             /\ ~r.done /\ r.next.state \in {"list", "list0"} =>
                  in.state \in {"list", "list0"} \/ multi
             /\ ~r.done /\ r.next.state \in {"fresh", "status"} =>
                  in.state = "fresh" /\ in.buf = << >>
<1> DEFINE r == parsePopResponse(in, multi, id)
<1>1. in.state \in {"fresh", "status", "list", "list0"}
  BY DEF Inputs, ReplyState
<1>2. \A out, rest, success : Completes(in, out, rest, success).done
  BY DEF Completes
<1>3. CASE in.state = "fresh" /\ in.buf = << >>
  <2>1. r = Waits(in, << >>, "status")
    BY <1>3, Zenon DEF parsePopResponse
  <2>2. Stops(r, "status")
    BY <2>1, WaitsStops
  <2> HIDE DEF r
  <2>3. ~r.done /\ r.next.state = "status"
    BY <2>2 DEF Stops
  <2> QED
    BY <1>3, <2>3 DEF r
<1>4. CASE in.state \in {"status", "list0"} /\ in.buf = << >>
  <2>1. \E success \in BOOLEAN : r = Completes(in, << >>, << >>, success)
    BY <1>4 DEF parsePopResponse
  <2>2. r.done
    BY <1>2, <2>1
  <2> HIDE DEF r
  <2> QED
    BY <1>4, <2>2 DEF r
<1>5. CASE in.state \in {"fresh", "status"} /\ in.buf # << >>
  <2> DEFINE kept == [in EXCEPT !.held = << >>]
             line == Head(in.buf)
             rest == Tail(in.buf)
  <2>1. r = ScanStatus(in, multi, id)
    BY <1>5 DEF parsePopResponse
  <2>2. \/ \E out, left, success : r = Completes(in, out, left, success)
        \/ multi /\ r = ScanList(kept, Held(in, line), rest, FALSE)
    BY <2>1, Zenon DEF ScanStatus
  <2>3. kept \in Inputs(Id)
    BY KeptType
  <2> HIDE DEF r, kept, line, rest
  <2>4. CASE \E out, left, success : r = Completes(in, out, left, success)
    <3>1. r.done
      BY <1>2, <2>4
    <3> QED
      BY <1>5, <3>1 DEF r
  <2>5. CASE multi /\ r = ScanList(kept, Held(in, line), rest, FALSE)
    <3>1. ~r.done => r.next.state \in {"list", "list0"}
      <4>1. SUFFICES ASSUME ~r.done
                     PROVE  r.next.state \in {"list", "list0"}
        OBVIOUS
      <4>2. \A out, left, success : Completes(kept, out, left, success).done
        BY DEF Completes
      <4>3. r = Waits(kept, Held(in, line) \o rest, IF rest = << >> THEN "list0" ELSE "list")
        BY <2>5, <4>1, <4>2, Zenon DEF ScanList
      <4>4. Stops(r, IF rest = << >> THEN "list0" ELSE "list")
        BY <2>3, <4>3, WaitsStops, Zenon
      <4> QED
        BY <4>4 DEF Stops
    <3> QED
      BY <1>5, <2>5, <3>1 DEF r
  <2> QED
    BY <2>2, <2>4, <2>5
<1>6. CASE in.state = "list" \/ (in.state = "list0" /\ in.buf # << >>)
  <2>1. r = ScanList(in, << >>, in.buf, in.state = "list")
    BY <1>6 DEF parsePopResponse
  <2> DEFINE seen == in.state = "list"
             next == IF in.buf = << >> THEN "list0" ELSE "list"
  <2>2. CASE EndsAt(in.buf, seen) = {}
    <3>1. r = Waits(in, << >> \o in.buf, next)
      BY <2>1, <2>2, Zenon DEF ScanList
    <3>2. Stops(r, next)
      BY <3>1, WaitsStops, Zenon
    <3> HIDE DEF r
    <3>3. ~r.done /\ r.next.state \in {"list", "list0"}
      BY <3>2 DEF Stops
    <3> QED
      BY <1>6, <3>3 DEF r
  <2>3. CASE EndsAt(in.buf, seen) # {}
    <3>1. r.done
      BY <1>2, <2>1, <2>3, Zenon DEF ScanList
    <3>2. in.buf # << >>
      BY <2>3, EmptySeq DEF EndsAt
    <3> HIDE DEF r
    <3> QED
      BY <3>1, <3>2 DEF r
  <2> QED
    BY <2>2, <2>3
<1> QED
  BY <1>1, <1>3, <1>4, <1>5, <1>6

LEMMA EndsInit == Init => EndsInv
<1> SUFFICES ASSUME Init PROVE EndsInv
  OBVIOUS
<1>1. /\ queue = << [id |-> 0, kind |-> "GREETING"] >> /\ asked = << >> /\ s2p = << >>
      /\ active = CS_CLIENT /\ response.state = "fresh"
  BY DEF Init
<1>2. PICK part \in {"ok", "err"} : reply = << [id |-> 0, part |-> part] >>
  BY DEF Init
<1>3. [id |-> 0, part |-> part] \in OwnLines(0)
  BY SessionAssumption DEF OwnLines, Token, Id, Part
<1>4. Head(queue).id = 0
  BY <1>1
<1>5. ParsesOwn
  BY <1>1, <1>2, <1>3, <1>4, EmptySeq DEF ParsesOwn
<1>6. Drained /\ AllAnswered
  <2>1. Len(asked) = 0 /\ "CLIENT_OUT" \in active
    BY <1>1, EmptySeq DEF CS_CLIENT
  <2> QED
    BY <2>1 DEF Drained, AllAnswered
<1> QED
  BY <1>5, <1>6 DEF EndsInv

-----------------------------------------------------------------------------
(* What the origin says, step by step.                                     *)
LEMMA ParsesStays ==
  ASSUME ParsesOwn, UNCHANGED << s2p, reply, response, p2s, pending >>,
         pending => Head(queue') = Head(queue)
  PROVE  ParsesOwn'
<1>1. pending' <=> pending
  BY Zenon
<1> SUFFICES ASSUME pending'
             PROVE  /\ s2p' \in Seq(OwnLines(Head(queue').id))
                    /\ reply' \in Seq(OwnLines(Head(queue').id))
                    /\ response'.state \in {"list", "list0"} => Head(queue').kind \in Multiline
                    /\ p2s' = << >> /\ response'.state \in {"fresh", "status"}
                         => s2p' # << >> \/ reply' # << >>
  BY DEF ParsesOwn, OwnLines
<1>2. Head(queue') = Head(queue)
  BY <1>1
<1> QED
  BY <1>1, <1>2 DEF ParsesOwn

(* The head of a queue that grows.                                         *)
LEMMA HeadStays ==
  ASSUME TypeInv, TakeCommand, queue # << >>
  PROVE  Head(queue') = Head(queue)
<1>1. queue' = Append(queue, Head(Requested)) /\ Requested # << >>
  BY DEF TakeCommand
<1>2. queue \in Seq(Command) /\ Requested \in Seq(Command)
  BY RequestedType DEF TypeInv, TypeOK
<1>3. Head(Requested) \in Command
  BY <1>1, <1>2, HeadTailProperties
<1>4. Len(queue) \in Nat \ {0} /\ Head(queue) = queue[1]
  BY <1>2, EmptySeq, HeadTailProperties
<1>5. /\ queue' \in Seq(Command) /\ Len(queue') = Len(queue) + 1
      /\ queue'[1] = queue[1]
  BY <1>1, <1>2, <1>3, <1>4, AppendProperties
<1>6. queue' # << >>
  BY <1>4, <1>5, EmptySeq
<1> QED
  BY <1>4, <1>5, <1>6, HeadTailProperties

(* A reply has a line.                                                     *)
LEMMA RepliesSay ==
  ASSUME NEW cmd \in Command, NEW r \in Replies(cmd)
  PROVE  r # << >>
<1> DEFINE token(part) == [id |-> cmd.id, part |-> part]
           line(part)  == << token(part) >>
<1>1. \A part : line(part) # << >>
  OBVIOUS
<1>2. CASE r = line("err") \/ r = line("ok")
  BY <1>1, <1>2
<1>3. CASE \E n \in MinLines .. MaxLines : r = line("ok") \o Lines(cmd.id, n) \o line("end")
  <2>1. PICK n \in MinLines .. MaxLines : r = (line("ok") \o Lines(cmd.id, n)) \o line("end")
    BY <1>3
  <2> DEFINE items == Lines(cmd.id, n)
             ok    == line("ok")
             end   == line("end")
             first == ok \o items
  <2>2. n \in Nat /\ cmd.id \in Id
    BY SessionAssumption DEF Command
  <2>3. items \in Seq(Token) /\ ok \in Seq(Token) /\ end \in Seq(Token) /\ Len(end) = 1
    <3>1. items = [i \in 1 .. n |-> token("item")] /\ token("item") \in Token
      BY <2>2 DEF Lines, Token, Part
    <3> QED
      BY <2>2, <3>1 DEF Token, Part
  <2> HIDE DEF items, ok, end
  <2>4. first \in Seq(Token) /\ Len(first) \in Nat
    BY <2>3, ConcatProperties, LenProperties
  <2> HIDE DEF first
  <2>5. r = first \o end
    BY <2>1 DEF first, ok, items, end
  <2>6. Len(r) = Len(first) + Len(end) /\ r \in Seq(Token)
    BY <2>3, <2>4, <2>5, ConcatProperties
  <2> QED
    BY <2>3, <2>4, <2>6, EmptySeq
<1> QED
  BY <1>2, <1>3 DEF Replies

(* What processPopServer finds of it, and leaves.                          *)
LEMMA FilledOwn ==
  ASSUME TypeInv, response.buf = << >>, NEW S, S \subseteq Token, s2p \in Seq(S)
  PROVE  Filled.buf \in Seq(S) /\ ServerRead.left \in Seq(S)
<1> DEFINE over == IF origin = "eof" THEN "eof" ELSE IF origin = "up" THEN "again" ELSE "error"
           room == BufSize - Len(response.buf)
           got  == ServerRead.got
           left == ServerRead.left
<1>1. room \in Nat /\ response \in Inputs(Id)
  BY ResponseType, SessionAssumption, EmptySeq DEF TypeInv, TypeOK
<1>2. ServerRead = Read(s2p, room, over)
  BY DEF ServerRead
<1> HIDE DEF over, room
<1>3. got \in Seq(S) /\ left \in Seq(S)
  BY <1>1, <1>2, ReadType, Zenon
<1> HIDE DEF got, left
<1>4. response.buf \o got = got
  BY <1>3, ConcatEmptySeq
<1>5. Filled = [response EXCEPT !.buf = got]
  BY <1>4 DEF Filled, got
<1>6. Filled.buf = got
  BY <1>1, <1>5 DEF Inputs
<1> QED
  BY <1>3, <1>6 DEF left

LEMMA ParsesWaits ==
  ASSUME Steady, ParsesOwn, RespondWaits
  PROVE  ParsesOwn'
<1> DEFINE cmd   == Head(queue)
           Own   == OwnLines(cmd.id)
           multi == cmd.kind \in Multiline
<1>1. /\ Responding /\ ~Parsed.done
      /\ s2p' = ServerRead.left /\ response' = Parsed.next
      /\ UNCHANGED << queue, p2s, reply >>
  BY DEF RespondWaits
<1>2. pending' <=> pending
  BY Zenon DEF RespondWaits
<1>3. TypeInv /\ response.buf = << >> /\ response.state # "body"
  <2>1. Usable
    BY <1>1, RespondsUsable DEF Steady
  <2>2. Scanning
    BY <2>1, Zenon DEF Steady, ConvInv, Conversing
  <2> QED
    BY <2>2 DEF Scanning, Steady, Grounds
<1>4. /\ Filled \in Inputs(Id) /\ Filled.state = response.state
      /\ Filled.buf = << >> <=> s2p = << >>
      /\ s2p = << >> => ServerRead.left = << >>
  BY <1>3, FilledContinues
<1>5. Parsed = parsePopResponse(Filled, multi, cmd.id)
  BY DEF Parsed
<1>6. /\ response'.state \in {"list", "list0"} => response.state \in {"list", "list0"} \/ multi
      /\ response'.state \in {"fresh", "status"} => response.state = "fresh" /\ s2p = << >>
  <2>1. multi \in BOOLEAN
    OBVIOUS
  <2> HIDE DEF multi, cmd
  <2> QED
    BY <1>1, <1>3, <1>4, <1>5, <2>1, ScanWaits
<1> SUFFICES ASSUME pending'
             PROVE  /\ s2p' \in Seq(OwnLines(Head(queue').id))
                    /\ reply' \in Seq(OwnLines(Head(queue').id))
                    /\ response'.state \in {"list", "list0"} => Head(queue').kind \in Multiline
                    /\ p2s' = << >> /\ response'.state \in {"fresh", "status"}
                         => s2p' # << >> \/ reply' # << >>
  BY DEF ParsesOwn, OwnLines
<1>7. /\ s2p \in Seq(Own) /\ reply \in Seq(Own)
      /\ response.state \in {"list", "list0"} => cmd.kind \in Multiline
      /\ p2s = << >> /\ response.state \in {"fresh", "status"} => s2p # << >> \/ reply # << >>
  BY <1>2 DEF ParsesOwn
<1>8. s2p' \in Seq(Own) /\ reply' \in Seq(Own)
  <2>1. Own \subseteq Token
    BY DEF OwnLines
  <2> QED
    BY <1>1, <1>3, <1>7, <2>1, FilledOwn, Zenon
<1>9. Head(queue') = cmd
  BY <1>1
<1> HIDE DEF Own, cmd
<1> QED
  BY <1>1, <1>4, <1>6, <1>7, <1>8, <1>9 DEF Own, multi

LEMMA ParsesSends ==
  ASSUME Steady, ParsesOwn, SendCommand
  PROVE  ParsesOwn'
<1>1. /\ Reaches(5) /\ origin \in {"up", "eof"}
      /\ p2s' = IF origin = "up" THEN Append(p2s, Head(queue)) ELSE p2s
      /\ UNCHANGED << queue, response, s2p, reply >>
  BY DEF SendCommand
<1>2. ~pending /\ queue # << >> /\ active # {}
  BY <1>1, Reached
<1>3. Basis /\ FreedInv
  BY DEF Basis, Steady, Grounds
<1>4. origin = "up"
  BY <1>1, <1>2, <1>3, NoQuitYet
<1>5. Idle
  BY <1>2, <1>4, Zenon DEF Usable, Steady, ConvInv, Conversing
<1>6. /\ s2p' = << >> /\ reply' = << >> /\ p2s' # << >>
      /\ response'.state \in {"fresh", "status"}
  BY <1>1, <1>4, <1>5 DEF Idle
<1> QED
  BY <1>6, EmptySeq DEF ParsesOwn

LEMMA ParsesServes ==
  ASSUME Steady, ParsesOwn, OriginServes
  PROVE  ParsesOwn'
<1>1. /\ origin = "up" /\ p2s # << >>
      /\ reply' \in Replies(Head(p2s)) /\ p2s' = Tail(p2s)
      /\ UNCHANGED << queue, response, s2p >>
  BY DEF OriginServes, proxyVars
<1>2. Conversing
  BY <1>1 DEF Usable, Steady, ConvInv
<1>3. pending /\ Unserved
  BY <1>1, <1>2, Zenon DEF Conversing, Idle, Served
<1>4. queue # << >> /\ Head(queue) \in Command
  <2>1. queue # << >>
    BY <1>3, Zenon DEF Steady, Grounds, LineInv, SentFirst
  <2> QED
    BY <2>1, QueueHead DEF Steady, Grounds, TypeInv
<1>5. p2s = << Head(queue) >> /\ s2p = << >> /\ response.state \in {"fresh", "status"}
  BY <1>3 DEF Unserved
<1> DEFINE cmd == Head(queue)
<1>6. cmd \in Command /\ p2s = << cmd >> /\ Head(queue') = cmd
  BY <1>1, <1>4, <1>5
<1> HIDE DEF cmd
<1>7. Head(p2s) = cmd
  BY <1>6
<1>8. reply' \in Seq(OwnLines(cmd.id)) /\ reply' # << >>
  BY <1>1, <1>6, <1>7, RepliesOwn, RepliesSay DEF OwnLines
<1> QED
  BY <1>1, <1>5, <1>6, <1>8, EmptySeq DEF ParsesOwn, OwnLines

LEMMA ParsesSays ==
  ASSUME TypeInv, ParsesOwn, OriginSays
  PROVE  ParsesOwn'
<1>1. /\ reply # << >> /\ s2p' = Append(s2p, Head(reply)) /\ reply' = Tail(reply)
      /\ UNCHANGED << queue, response, p2s >>
  BY DEF OriginSays, proxyVars
<1>2. pending' <=> pending
  BY Zenon DEF OriginSays, proxyVars
<1> DEFINE Own == OwnLines(Head(queue).id)
<1> SUFFICES ASSUME pending'
             PROVE  /\ s2p' \in Seq(OwnLines(Head(queue').id))
                    /\ reply' \in Seq(OwnLines(Head(queue').id))
                    /\ response'.state \in {"list", "list0"} => Head(queue').kind \in Multiline
                    /\ p2s' = << >> /\ response'.state \in {"fresh", "status"}
                         => s2p' # << >> \/ reply' # << >>
  BY DEF ParsesOwn, OwnLines
<1>3. /\ s2p \in Seq(Own) /\ reply \in Seq(Own)
      /\ response.state \in {"list", "list0"} => Head(queue).kind \in Multiline
  BY <1>2 DEF ParsesOwn
<1> HIDE DEF Own
<1>4. Head(reply) \in Own /\ Tail(reply) \in Seq(Own)
  BY <1>1, <1>3, HeadTailProperties
<1>5. s2p' \in Seq(Own) /\ s2p' # << >>
  BY <1>1, <1>3, <1>4, AppendProperties, EmptySeq
<1> QED
  BY <1>1, <1>3, <1>4, <1>5 DEF Own

LEMMA ParsesStep ==
  ASSUME Predictable, ~OriginMayFail, Steady, ParsesOwn, [Next]_vars
  PROVE  ParsesOwn'
<1>1. TypeInv
  BY DEF Steady, Grounds
<1>2. CASE \/ Poll \/ Connect \/ TakeNothing \/ SendNothing \/ Finish
           \/ OriginAccepts \/ ClientSends \/ ClientCloses \/ ClientReads
           \/ FilterReads \/ FilterWrites \/ FilterExits \/ UNCHANGED vars
  <2>1. CASE Poll \/ Connect \/ TakeNothing \/ SendNothing \/ Finish
    <3>1. UNCHANGED << s2p, reply, response, p2s, queue >>
      BY <2>1 DEF Poll, Connect, TakeNothing, SendNothing, Finish, netVars, peerVars
    <3>2. pending' = pending
      BY <2>1 DEF Poll, Connect, TakeNothing, SendNothing, Finish
    <3> QED
      BY <3>1, <3>2, ParsesStays
  <2>2. CASE \/ OriginAccepts \/ ClientSends \/ ClientCloses \/ ClientReads
             \/ FilterReads \/ FilterWrites \/ FilterExits \/ UNCHANGED vars
    <3>1. UNCHANGED << s2p, reply, p2s >> /\ UNCHANGED proxyVars
      BY <2>2 DEF OriginAccepts, ClientSends, ClientCloses, ClientReads,
         FilterReads, FilterWrites, FilterExits, vars, netVars, peerVars
    <3> QED
      BY <3>1, ParsesStays DEF proxyVars
  <2> QED
    BY <1>2, <2>1, <2>2
<1>3. CASE TakeCommand
  <2>1. UNCHANGED << s2p, reply, response, p2s >>
    BY <1>3 DEF TakeCommand
  <2>2. pending' = pending
    BY <1>3 DEF TakeCommand
  <2>3. pending => Head(queue') = Head(queue)
    BY <1>1, <1>3, HeadStays, Zenon DEF Steady, Grounds, LineInv, SentFirst
  <2> QED
    BY <2>1, <2>2, <2>3, ParsesStays
<1>4. CASE Respond \/ RespondQuit
  <2>1. ~pending'
    BY <1>4, Zenon DEF Respond, RespondQuit, RespondDone
  <2> QED
    BY <2>1 DEF ParsesOwn
<1>5. CASE RespondInvalid
  <2>1. ~pending
    <3>1. Head(queue).kind = "INVALID"
      BY <1>5 DEF RespondInvalid
    <3> QED
      BY <3>1 DEF Steady, Grounds, LineInv, SentFirst
  <2>2. ~pending'
    BY <1>5, <2>1, Zenon DEF RespondInvalid
  <2> QED
    BY <2>2 DEF ParsesOwn
<1>6. ~Feed /\ ~Drain /\ ~RespondRetrieve /\ ~SendFails /\ ~OriginFails
  <2>1. ~OriginFails
    BY Zenon DEF OriginFails
  <2> QED
    BY <2>1, NoneRetrieved, NoSendFails DEF Steady
<1> QED
  BY <1>1, <1>2, <1>3, <1>4, <1>5, <1>6, ParsesWaits, ParsesSends, ParsesServes, ParsesSays
     DEF Next, Proxy, ProcessClient, OriginStep

-----------------------------------------------------------------------------
(* The client's OUT half, step by step.                                    *)
LEMMA NothingLeft ==
  ASSUME TypeInv, Requested = << >>, CheckEOF(ClientRead.count)
  PROVE  request = << >> /\ c2p = << >> /\ clientEof
<1> DEFINE got  == ClientRead.got
           over == IF clientEof THEN "eof" ELSE "again"
<1>1. /\ request \in Seq(Command) /\ Len(request) \in Nat /\ c2p \in Seq(Command)
      /\ Len(c2p) \in Nat /\ got \in Seq(Command) /\ Len(got) \in Nat
      /\ Requested = request \o got
  BY RequestedType, LenProperties DEF TypeInv, TypeOK
<1> HIDE DEF got
<1>2. Len(request) = 0 /\ Len(got) = 0 /\ request = << >>
  <2>1. Len(Requested) = Len(request) + Len(got)
    BY <1>1, ConcatProperties
  <2>2. Len(Requested) = 0
    BY EmptySeq
  <2> QED
    BY <1>1, <2>1, <2>2, EmptySeq
<1> DEFINE room == BufSize - Len(request)
           n == IF Len(c2p) <= room THEN Len(c2p) ELSE room
<1>3. room \in Nat \ {0} /\ n \in Nat /\ n <= Len(c2p)
  BY <1>1, <1>2, SessionAssumption
<1>4. /\ ClientRead = Read(c2p, room, over)
      /\ got = SubSeq(c2p, 1, n)
      /\ ClientRead.count = IF n > 0 THEN "data" ELSE IF room = 0 THEN "eof" ELSE over
  BY DEF ClientRead, Read, got
<1> HIDE DEF over, room, n
<1>5. n = 0
  <2>1. n \in Int /\ 1 \in Int /\ \A i \in 1 .. n : c2p[i] \in Command
    BY <1>1, <1>3, ElementOfSeq
  <2>2. Len(SubSeq(c2p, 1, n)) = IF 1 <= n THEN n - 1 + 1 ELSE 0
    BY <2>1, SubSeqProperties
  <2> QED
    BY <1>2, <1>3, <1>4, <2>2
<1>6. Len(c2p) = 0
  BY <1>1, <1>3, <1>5 DEF n
<1>7. over \in {"eof", "error"}
  BY <1>3, <1>4, <1>5 DEF CheckEOF
<1>8. clientEof
  BY <1>7 DEF over
<1> QED
  BY <1>1, <1>2, <1>6, <1>8, EmptySeq

LEMMA DrainedStays ==
  ASSUME Drained, UNCHANGED << request, c2p, clientEof >>,
         active' # {} => active # {},
         active' # {} /\ "CLIENT_OUT" \in active => "CLIENT_OUT" \in active'
  PROVE  Drained'
<1>1. clientEof' <=> clientEof
  BY Zenon
<1> QED
  BY <1>1 DEF Drained

(* Closing any other segment than the client's.                            *)
LEMMA ClosingKeepsClient ==
  ASSUME Grounds, NEW level \in SUBSET Segment, NEW flags, level \intersect CS_CLIENT = {},
         CloseClient(level, flags)
  PROVE  "CLIENT_OUT" \in active => "CLIENT_OUT" \in active'
<1>1. active \in SUBSET Segment
  BY DEF Grounds, TypeInv, TypeOK
<1>2. \/ ActiveAfter(active, level) = active \ (level \union {"SERVER_IN"})
      \/ ActiveAfter(active, level) = active \ level
  BY <1>1, WhatCloses DEF CS_CLIENT
<1> QED
  BY <1>2 DEF CloseClient, CS_CLIENT

LEMMA QuitReleases ==
  ASSUME Grounds, RespondQuit
  PROVE  active' = {}
BY RespondQuitEnds DEF Grounds, TypeInv, ClosingInv

LEMMA DrainedStep ==
  ASSUME Predictable, Steady, Drained, [Next]_vars
  PROVE  Drained'
<1>1. Grounds /\ TypeInv /\ FreedInv
  BY DEF Steady, Grounds
<1>2. CASE Poll \/ SendNothing \/ SendCommand \/ Respond \/ RespondInvalid
  <2>1. UNCHANGED << active, request, c2p, clientEof >>
    BY <1>2 DEF Poll, SendNothing, SendCommand, Respond, RespondDone, RespondInvalid, GoesOn,
       netVars, peerVars
  <2> QED
    BY <2>1, DrainedStays
<1>3. CASE Connect
  <2>1. UNCHANGED << request, c2p, clientEof >> /\ active' = active \union CS_SERVER
    BY <1>1, <1>3, ConnectTakes DEF Connect, netVars
  <2>2. active # {}
    <3>1. at <= 1 /\ at \in 1 .. 7
      BY <1>1, <1>3, Reached DEF Connect, TypeInv, TypeOK
    <3> QED
      BY <1>1, <3>1 DEF Grounds, ClosingInv, Alive
  <2> QED
    BY <2>1, <2>2, DrainedStays
<1>4. CASE RespondWaits
  <2>1. UNCHANGED << request, c2p, clientEof >> /\ active # {}
    BY <1>4, Reached DEF RespondWaits
  <2>2. "CLIENT_OUT" \in active => "CLIENT_OUT" \in active'
    <3>1. CASE active' = active
      BY <3>1
    <3>2. CASE CloseClient({"SERVER_OUT"}, ready)
      <4>1. {"SERVER_OUT"} \in SUBSET Segment /\ {"SERVER_OUT"} \intersect CS_CLIENT = {}
        BY DEF Segment, CS_SERVER, CS_CLIENT
      <4> QED
        BY <1>1, <3>2, <4>1, ClosingKeepsClient
    <3> QED
      BY <1>4, <3>1, <3>2 DEF RespondWaits, GoesOn
  <2> QED
    BY <2>1, <2>2, DrainedStays
<1>5. CASE RespondQuit \/ Finish
  <2>1. active' = {}
    BY <1>1, <1>5, QuitReleases, LeaveInLine
  <2> QED
    BY <2>1 DEF Drained
<1>6. CASE TakeCommand
  <2>1. "CLIENT_OUT" \in active'
    BY <1>6 DEF TakeCommand, GoesOn, Reaches, BlockEnabled, CommandEnabled
  <2> QED
    BY <2>1 DEF Drained
<1>7. CASE TakeNothing
  <2>1. CASE GoesOn(4, ready \ {"clientRead"})
    <3>1. "CLIENT_OUT" \in active'
      BY <1>7, <2>1 DEF TakeNothing, GoesOn, Reaches, BlockEnabled, CommandEnabled
    <3> QED
      BY <3>1 DEF Drained
  <2>2. CASE CheckEOF(ClientRead.count)
    <3>1. request = << >> /\ c2p = << >> /\ clientEof
      BY <1>1, <1>7, <2>2, NothingLeft DEF TakeNothing
    <3>2. UNCHANGED << request, c2p, clientEof >>
      BY <1>7 DEF TakeNothing
    <3> QED
      BY <3>1, <3>2, Zenon DEF Drained
  <2> QED
    BY <1>7, <2>1, <2>2 DEF TakeNothing
<1>8. CASE ClientSends
  <2>1. ~clientEof /\ active # {} /\ active' = active
    BY <1>8 DEF ClientSends, proxyVars
  <2>2. "CLIENT_OUT" \in active'
    BY <2>1, Zenon DEF Drained
  <2> QED
    BY <2>2 DEF Drained
<1>9. CASE ClientCloses
  <2>1. UNCHANGED << active, request, c2p >>
    BY <1>9 DEF ClientCloses, proxyVars
  <2>2. clientEof'
    BY <1>9, Zenon DEF ClientCloses
  <2> QED
    BY <2>1, <2>2, Zenon DEF Drained
<1>10. CASE ClientReads \/ OriginStep \/ FilterReads \/ FilterWrites \/ FilterExits
            \/ UNCHANGED vars
  <2>1. UNCHANGED << active, request, c2p, clientEof >>
    BY <1>10 DEF ClientReads, OriginStep, OriginAccepts, OriginServes, OriginSays,
       FilterReads, FilterWrites, FilterExits, vars, proxyVars, netVars, peerVars
  <2> QED
    BY <2>1, DrainedStays
<1>11. CASE OriginFails
  <2>1. UNCHANGED << active, request, c2p, clientEof >>
    BY <1>11 DEF OriginFails, proxyVars
  <2> QED
    BY <2>1, DrainedStays
<1>12. ~Feed /\ ~Drain /\ ~RespondRetrieve /\ ~SendFails
  BY <1>1, NoneRetrieved, NoSendFails
<1> QED
  BY <1>2, <1>3, <1>4, <1>5, <1>6, <1>7, <1>8, <1>9, <1>10, <1>11, <1>12
     DEF Next, Proxy, ProcessClient

-----------------------------------------------------------------------------
(* The answers, step by step.  A reply that processPopServer takes to be   *)
(* complete has a line: what would complete without one, the end of the    *)
(* origin's stream, comes when the reply to QUIT was read.                 *)
LEMMA SomethingRead ==
  ASSUME Steady, ParsesOwn, RespondDone
  PROVE  Filled.buf # << >>
<1> DEFINE cmd   == Head(queue)
           multi == cmd.kind \in Multiline
<1>1. /\ Responding /\ Parsed.done /\ "serverRead" \in ready
      /\ Usable /\ active # {} /\ queue # << >>
  <2>1. Responding /\ Parsed.done
    BY DEF RespondDone
  <2>2. "serverRead" \in ready
    BY <2>1 DEF Responding, Reaches, BlockEnabled, FeedEnabled, RespondEnabled
  <2> QED
    BY <2>1, <2>2, RespondsUsable DEF Steady
<1>2. pending
  BY <1>1, AnswerAwaited, Zenon DEF Steady
<1>3. Scanning /\ AtItsEnd
  BY <1>1, Zenon DEF Steady, ConvInv, Conversing
<1>4. /\ Filled \in Inputs(Id) /\ Filled.state = response.state
      /\ Filled.buf = << >> <=> s2p = << >>
  BY <1>3, FilledContinues DEF Steady, Grounds, Scanning
<1> SUFFICES ASSUME Filled.buf = << >>
             PROVE  FALSE
  OBVIOUS
<1>5. response.state \in {"status", "list0"}
  <2>1. Parsed = parsePopResponse(Filled, multi, cmd.id) /\ multi \in BOOLEAN
    BY DEF Parsed
  <2>2. Filled.state # "body"
    BY <1>3, <1>4 DEF Scanning
  <2> HIDE DEF cmd, multi
  <2> QED
    BY <1>1, <1>4, <2>1, <2>2, ScanWaits
<1>6. origin = "eof"
  BY <1>1, <1>3, <1>4, <1>5 DEF Scanning
<1>7. p2s = << >> /\ reply = << >> /\ s2p = << >> /\ cmd.kind = "QUIT"
  BY <1>1, <1>3, <1>4, <1>6 DEF AtItsEnd, Steady, FreedInv, QuitIsLast
<1> QED
  BY <1>2, <1>5, <1>7 DEF ParsesOwn, Multiline

LEMMA HeadAnswered ==
  ASSUME Predictable, Steady, ParsesOwn, RespondDone
  PROVE  /\ \A c : Answered(c) => Answered(c)'
         /\ \A c : c = Head(queue) => Answered(c)'
<1>1. /\ Responding /\ Parsed.done /\ Tells(Relayed(Head(queue), Parsed.out))
      /\ TypeOK /\ TypeInv /\ queue # << >>
      /\ Usable
  <2>1. Responding /\ Parsed.done /\ Tells(Relayed(Head(queue), Parsed.out))
    BY DEF RespondDone
  <2> QED
    BY <2>1, RespondsUsable DEF Steady, Grounds, TypeInv
<1>2. pending
  BY <1>1, AnswerAwaited, Zenon DEF Steady
<1>3. PICK cmd \in Command : cmd = Head(queue)
  BY <1>1, QueueHead
<1>4. cmd.kind \notin {"UIDL", "RETR"}
  BY <1>1, <1>3, KnownHead DEF Steady, Grounds, Predictable
<1>5. /\ Filled \in Inputs(Id) /\ Filled.state # "body"
      /\ Filled.buf \in Seq(OwnLines(cmd.id)) /\ Filled.buf # << >>
  <2>1. response.buf = << >> /\ response.state # "body"
    BY <1>1, Zenon DEF Steady, ConvInv, Conversing, Scanning
  <2>2. s2p \in Seq(OwnLines(cmd.id)) /\ OwnLines(cmd.id) \subseteq Token
    BY <1>2, <1>3 DEF ParsesOwn, OwnLines
  <2> QED
    BY <1>1, <2>1, <2>2, FilledContinues, FilledOwn, SomethingRead
<1>6. Gives(Parsed, cmd)
  <2>1. Parsed = parsePopResponse(Filled, cmd.kind \in Multiline, cmd.id)
    BY <1>3 DEF Parsed
  <2> QED
    BY <1>1, <1>4, <1>5, <2>1, AnswerGiven
<1>7. Parsed.out \in Seq(Token)
  BY <1>1, ParsedType
<1> DEFINE out   == Parsed.out
           lines == Relayed(cmd, out)
<1>8. PICK t \in Token : EndsAnswer(cmd, t) /\ LastIs(out, t)
  BY <1>6 DEF Gives
<1>9. Tells(lines) /\ out \in Seq(Token)
  BY <1>1, <1>3, <1>7
<1> HIDE DEF out
<1>10. PICK u \in Token : EndsAnswer(cmd, u) /\ LastIs(lines, u)
  BY <1>8, <1>9, RelayedGiven
<1>11. lines \in Seq(Token)
  BY <1>9, RelayedType
<1> HIDE DEF lines
<1> QED
  BY <1>1, <1>3, <1>9, <1>10, <1>11, TellsMore

(* The proxy's own answer to an invalid command.                           *)
LEMMA InvalidAnswered ==
  ASSUME TypeInv, RespondInvalid
  PROVE  /\ \A c : Answered(c) => Answered(c)'
         /\ \A c : c = Head(queue) => Answered(c)'
<1>1. TypeOK /\ queue # << >>
  BY Reached DEF TypeInv, RespondInvalid
<1>2. PICK cmd \in Command : cmd = Head(queue)
  BY <1>1, QueueHead
<1> DEFINE t     == [id |-> cmd.id, part |-> "invalid"]
           lines == << t >>
<1>3. t \in Token /\ EndsAnswer(cmd, t) /\ Tells(lines)
  BY <1>2 DEF Command, Token, Part, EndsAnswer, RespondInvalid
<1> HIDE DEF t
<1>4. lines \in Seq(Token) /\ LastIs(lines, t)
  BY <1>3 DEF LastIs
<1> HIDE DEF lines
<1> QED
  BY <1>1, <1>2, <1>3, <1>4, TellsMore

(* The head leaves the queue, answered.                                    *)
LEMMA AnsweredUpToHead ==
  ASSUME Grounds, active # {}, AllAnswered, queue # << >>, queue' = Tail(queue),
         UNCHANGED << request, c2p, asked >>,
         \A c : Answered(c) => Answered(c)',
         \A c : c = Head(queue) => Answered(c)'
  PROVE  /\ NextId' = NextId + 1 /\ NextId \in Nat
         /\ \A i \in 1 .. Len(asked) : i < NextId + 1 => Answered(asked[i])'
<1>1. NextId' = NextId + 1 /\ NextId \in Nat
  BY HeadLeaves DEF Grounds, TypeInv
<1>2. ASSUME NEW i \in 1 .. Len(asked), i < NextId + 1
      PROVE  Answered(asked[i])'
  <2>1. PICK c : c = asked[i]
    OBVIOUS
  <2>2. Answered(c)'
    <3>1. CASE i < NextId
      BY <2>1, <3>1 DEF AllAnswered
    <3>2. CASE i = NextId
      <4>1. Head(queue) = asked[i]
        BY <3>2, HeadIsAsked DEF Grounds
      <4> QED
        BY <2>1, <4>1
    <3> QED
      BY <1>1, <1>2, <3>1, <3>2
  <2>3. asked'[i] = c
    BY <2>1
  <2> QED
    BY <2>2, <2>3 DEF Answered
<1> QED
  BY <1>1, <1>2

LEMMA AllAnsweredStays ==
  ASSUME AllAnswered, UNCHANGED << told, asked, queue, request, c2p >>,
         active' # {} => active # {}
  PROVE  AllAnswered'
<1>1. NextId' = NextId
  BY DEF NextId
<1> QED
  BY <1>1 DEF AllAnswered, Answered

LEMMA AllAnsweredMoves ==
  ASSUME Predictable, Steady, EndsInv, Respond \/ RespondInvalid
  PROVE  AllAnswered'
<1>1. /\ queue' = Tail(queue) /\ UNCHANGED << request, c2p, asked, active >>
      /\ Responding
  BY DEF Respond, RespondDone, RespondInvalid, GoesOn
<1>2. queue # << >> /\ active # {}
  BY <1>1, Reached
<1>3. /\ \A c : Answered(c) => Answered(c)'
      /\ \A c : c = Head(queue) => Answered(c)'
  <2>1. CASE Respond
    BY <2>1, HeadAnswered DEF Respond, EndsInv
  <2>2. CASE RespondInvalid
    BY <2>2, InvalidAnswered DEF Steady, Grounds
  <2> QED
    BY <2>1, <2>2
<1>4. /\ NextId' = NextId + 1
      /\ \A i \in 1 .. Len(asked) : i < NextId + 1 => Answered(asked[i])'
  BY <1>1, <1>2, <1>3, AnsweredUpToHead DEF Steady, EndsInv
<1> QED
  BY <1>1, <1>4 DEF AllAnswered

LEMMA AllAnsweredGrows ==
  ASSUME Grounds, AllAnswered, ClientSends
  PROVE  AllAnswered'
<1>1. /\ asked \in Seq(Command) /\ Len(asked) \in Nat /\ Len(queue) \in Nat
      /\ Len(request) \in Nat /\ c2p \in Seq(Command) /\ Len(c2p) \in Nat
  BY LineLengths DEF Grounds, TypeInv
<1>2. PICK kind \in Kinds :
        /\ asked' = Append(asked, [id |-> Len(asked) + 1, kind |-> kind])
        /\ c2p' = Append(c2p, [id |-> Len(asked) + 1, kind |-> kind])
  BY DEF ClientSends
<1>3. UNCHANGED << queue, request, active, told >>
  BY DEF ClientSends, proxyVars, histVars
<1>4. PICK cmd \in Command : asked' = Append(asked, cmd) /\ c2p' = Append(c2p, cmd)
  <2>1. Len(asked) + 1 \in Id
    BY <1>1, SessionAssumption DEF Id, ClientSends
  <2>2. [id |-> Len(asked) + 1, kind |-> kind] \in Command
    BY <2>1, SessionAssumption DEF Command
  <2> QED
    BY <1>2, <2>2
<1>5. /\ Len(asked') = Len(asked) + 1 /\ Len(c2p') = Len(c2p) + 1
      /\ \A i \in 1 .. Len(asked) : asked'[i] = asked[i]
  BY <1>1, <1>4, AppendProperties
<1>6. NextId' = NextId /\ NextId <= Len(asked) + 1
  BY <1>1, <1>3, <1>5 DEF NextId
<1> SUFFICES ASSUME active' # {}, NEW i \in 1 .. Len(asked'), i < NextId'
             PROVE  Answered(asked[i])'
  BY DEF AllAnswered
<1>7. i \in 1 .. Len(asked) /\ i < NextId
  BY <1>1, <1>5, <1>6 DEF NextId
<1>8. Answered(asked[i])
  BY <1>3, <1>7 DEF AllAnswered
<1> QED
  BY <1>3, <1>5, <1>7, <1>8 DEF Answered

LEMMA AllAnsweredStep ==
  ASSUME Predictable, Steady, EndsInv, [Next]_vars
  PROVE  AllAnswered'
<1>1. Grounds /\ TypeInv /\ FreedInv /\ AllAnswered
  BY DEF Steady, Grounds, EndsInv
<1>2. CASE \/ Poll \/ Connect \/ RespondWaits \/ TakeNothing \/ SendNothing
           \/ (Peers /\ ~ClientSends) \/ UNCHANGED vars
  <2>1. active' # {} <=> active # {}
    BY <1>2, OthersStutter
  <2>2. UNCHANGED << told, asked, queue, request, c2p >>
    <3>1. CASE Poll \/ Connect \/ RespondWaits \/ TakeNothing \/ SendNothing
      BY <3>1 DEF Poll, Connect, RespondWaits, TakeNothing, SendNothing, netVars, peerVars,
         histVars
    <3>2. CASE (Peers /\ ~ClientSends) \/ UNCHANGED vars
      BY <3>2 DEF Peers, ClientCloses, ClientReads, OriginStep, OriginAccepts, OriginServes,
         OriginSays, OriginFails, FilterReads, FilterWrites, FilterExits, vars, proxyVars,
         netVars, peerVars, histVars
    <3> QED
      BY <1>2, <3>1, <3>2
  <2> QED
    BY <1>1, <2>1, <2>2, AllAnsweredStays
<1>3. CASE SendCommand
  <2>1. UNCHANGED << told, asked, queue, request, c2p, active >>
    BY <1>3 DEF SendCommand
  <2> QED
    BY <1>1, <2>1, AllAnsweredStays
<1>4. CASE TakeCommand
  <2>1. UNCHANGED << told, asked, active >> /\ NextId' = NextId
    BY <1>1, <1>4, TakeKeepsNumber DEF TakeCommand, GoesOn, histVars, Grounds
  <2> QED
    BY <1>1, <2>1 DEF AllAnswered, Answered
<1>5. CASE RespondQuit \/ Finish
  <2>1. active' = {}
    BY <1>1, <1>5, QuitReleases, LeaveInLine
  <2> QED
    BY <2>1 DEF AllAnswered
<1>6. ~Feed /\ ~Drain /\ ~RespondRetrieve /\ ~SendFails
  BY <1>1, NoneRetrieved, NoSendFails
<1> QED
  BY <1>1, <1>2, <1>3, <1>4, <1>5, <1>6, AllAnsweredMoves, AllAnsweredGrows
     DEF Next, Proxy, ProcessClient, Peers

LEMMA EndsStep ==
  ASSUME Predictable, ~OriginMayFail, Steady, EndsInv, [Next]_vars
  PROVE  EndsInv'
<1>1. ParsesOwn'
  BY ParsesStep DEF EndsInv
<1>2. Drained'
  BY DrainedStep DEF EndsInv
<1>3. AllAnswered'
  BY AllAnsweredStep
<1> QED
  BY <1>1, <1>2, <1>3 DEF EndsInv

(* Which steps end a session.                                              *)
LEMMA WhoEnds ==
  ASSUME Predictable, Steady, [Next]_vars, active # {}, active' = {}
  PROVE  RespondQuit \/ Finish
<1>1. ~(\/ Poll \/ Connect \/ RespondWaits \/ TakeNothing \/ SendNothing
        \/ Peers \/ UNCHANGED vars)
  BY OthersStutter
<1>2. ~SendCommand /\ ~TakeCommand /\ ~Respond /\ ~RespondInvalid
  BY DEF SendCommand, TakeCommand, Respond, RespondInvalid, GoesOn
<1>3. ~Feed /\ ~Drain /\ ~RespondRetrieve /\ ~SendFails
  BY NoneRetrieved, NoSendFails DEF Steady
<1> QED
  BY <1>1, <1>2, <1>3 DEF Next, Proxy, ProcessClient, Peers

LEMMA FinishesAnswered ==
  ASSUME Steady, EndsInv, Finish
  PROVE  \A i \in 1 .. Len(asked) : Answered(asked[i])'
<1>1. /\ Reaches(6) /\ UNCHANGED << told, asked >>
  BY DEF Finish, histVars
<1>2. queue = << >> /\ "CLIENT_OUT" \notin active /\ at <= 6
  BY <1>1 DEF Reaches, BlockEnabled, FinishEnabled
<1>3. active # {}
  BY <1>2 DEF Steady, Grounds, ClosingInv, Alive
<1>4. request = << >> /\ c2p = << >>
  BY <1>2, <1>3 DEF EndsInv, Drained
<1>5. Len(asked) \in Nat /\ NextId = Len(asked) + 1
  <2>1. Len(asked) \in Nat
    BY LineLengths DEF Steady, Grounds, TypeInv
  <2>2. Len(queue) = 0 /\ Len(request) = 0 /\ Len(c2p) = 0
    BY <1>2, <1>4, EmptySeq
  <2> QED
    BY <2>1, <2>2 DEF NextId
<1>6. \A i \in 1 .. Len(asked) : Answered(asked[i])
  BY <1>3, <1>5 DEF EndsInv, AllAnswered
<1> QED
  BY <1>1, <1>6 DEF Answered

LEMMA QuitsAnswered ==
  ASSUME Predictable, Steady, EndsInv, RespondQuit
  PROVE  \A i \in 1 .. Len(asked) :
           \/ Answered(asked[i])'
           \/ \E j \in 1 .. i - 1 : asked[j].kind = "QUIT"
<1>1. /\ RespondDone /\ Responding /\ Head(queue).kind = "QUIT" /\ queue' = Tail(queue)
      /\ UNCHANGED << request, c2p, asked >>
  BY DEF RespondQuit, RespondDone
<1>2. queue # << >> /\ active # {}
  BY <1>1, Reached
<1>3. /\ \A c : Answered(c) => Answered(c)'
      /\ \A c : c = Head(queue) => Answered(c)'
  BY <1>1, HeadAnswered DEF EndsInv
<1>4. /\ NextId \in Nat
      /\ \A i \in 1 .. Len(asked) : i < NextId + 1 => Answered(asked[i])'
  BY <1>1, <1>2, <1>3, AnsweredUpToHead DEF Steady, EndsInv
<1> SUFFICES ASSUME NEW i \in 1 .. Len(asked), ~(i < NextId + 1)
             PROVE  \E j \in 1 .. i - 1 : asked[j].kind = "QUIT"
  BY <1>4
<1>5. NextId # 0
  <2>1. SUFFICES ASSUME NextId = 0
                 PROVE  FALSE
    OBVIOUS
  <2>2. Head(queue) \in Known /\ Head(queue).id = 0
    BY <1>1, <1>2, <2>1, KnownHead, HeadLeaves DEF Steady, Grounds, TypeInv
  <2>3. Head(queue).kind = "GREETING"
    BY <2>2 DEF Known, Steady, Grounds, KnownInv
  <2> QED
    BY <1>1, <2>3
<1>6. asked[NextId].kind = "QUIT"
  BY <1>1, <1>2, <1>5, HeadIsAsked DEF Steady, Grounds
<1>7. NextId \in 1 .. i - 1
  BY <1>4, <1>5
<1> QED
  BY <1>6, <1>7

(* As long as the origin answers as RFC 1939 has it and stays, and the     *)
(* client sends nothing of which the proxy misjudges the reply, no session *)
(* is given up with a command unanswered: the proxy ends one only when its *)
(* client has nothing more to say and the queue is empty, or with the      *)
(* answer to a QUIT.                                                       *)
THEOREM EndsWithAnswers ==
  ASSUME Predictable, ~OriginMayFail
  PROVE  Spec => EndsAnswered
<1>1. Steady /\ EndsInv /\ [Next]_vars => EndsInv'
  BY EndsStep
<1>2. Steady /\ EndsInv /\ [Next]_vars
        => [active # {} /\ active' = {} =>
              \A i \in 1 .. Len(asked) :
                \/ Answered(asked[i])'
                \/ \E j \in 1 .. i - 1 : asked[j].kind = "QUIT"]_vars
  BY WhoEnds, FinishesAnswered, QuitsAnswered
<1> QED
  BY <1>1, <1>2, SteadyAlways, EndsInit, PTL DEF Spec, EndsAnswered
=============================================================================
