---------------------------- MODULE SessionProofs ---------------------------
(***************************************************************************)
(* Theorems about a session, for every value of its constants: whatever    *)
(* its client sends, its origin answers and its filter does, failures      *)
(* included.                                                               *)
(***************************************************************************)
EXTENDS Session, BuffersProofs

-----------------------------------------------------------------------------
(* What the scanners return, for any set of command ids.                   *)

Tokens(Ids) == [id : Ids, part : Part]

Inputs(Ids) ==
  [state : ReplyState, buf : Seq(Tokens(Ids)), out : Seq(Tokens(Ids)), held : Leftover(Ids)]

(* What a scanner of replies gives back when n tokens were in its buffer.  *)
Results(Ids, n) ==
  {r \in [done : BOOLEAN, success : BOOLEAN, out : Seq(Tokens(Ids)), next : Inputs(Ids)] :
     Len(r.next.buf) <= n}

(* The end line the scanners choose is one, inside the buffer.              *)
LEMMA EndsAtType ==
  ASSUME NEW Ids, NEW buf \in Seq(Tokens(Ids)), NEW seen \in BOOLEAN,
         EndsAt(buf, seen) # {},
         NEW last, last = CHOOSE i \in EndsAt(buf, seen) :
                            \A j \in EndsAt(buf, seen) : i <= j
  PROVE  /\ last \in 1 .. Len(buf) /\ last \in EndsAt(buf, seen)
         /\ SubSeq(buf, 1, last) \in Seq(Tokens(Ids))
         /\ SubSeq(buf, 1, last - 1) \in Seq(Tokens(Ids))
         /\ SubSeq(buf, last + 1, Len(buf)) \in Seq(Tokens(Ids))
         /\ Len(SubSeq(buf, last + 1, Len(buf))) <= Len(buf)
<1>1. EndsAt(buf, seen) \subseteq 1 .. Len(buf) /\ Len(buf) \in Nat
  BY DEF EndsAt
<1>2. \E i \in EndsAt(buf, seen) : \A j \in EndsAt(buf, seen) : i <= j
  BY <1>1, LeastElement
<1>3. last \in 1 .. Len(buf) /\ last \in EndsAt(buf, seen)
  BY <1>1, <1>2
<1>4. /\ last \in Nat /\ last - 1 \in Nat /\ Len(buf) \in Nat
      /\ 1 \in Nat \ {0} /\ last + 1 \in Nat \ {0}
      /\ last <= Len(buf) /\ last - 1 <= Len(buf) /\ Len(buf) <= Len(buf)
  BY <1>1, <1>3, SMTT(30)
<1>5. SubSeq(buf, 1, last) \in Seq(Tokens(Ids))
  BY <1>4, SubSeqType, Zenon
<1>6. SubSeq(buf, 1, last - 1) \in Seq(Tokens(Ids))
  BY <1>4, SubSeqType, Zenon
<1>7. /\ SubSeq(buf, last + 1, Len(buf)) \in Seq(Tokens(Ids))
      /\ Len(SubSeq(buf, last + 1, Len(buf))) <= Len(buf)
  BY <1>4, SubSeqType, Zenon
<1> QED
  BY <1>3, <1>5, <1>6, <1>7

LEMMA WaitsType ==
  ASSUME NEW Ids, NEW in \in Inputs(Ids), NEW out \in Seq(Tokens(Ids)),
         NEW state \in ReplyState, NEW n \in Nat
  PROVE  Waits(in, out, state) \in Results(Ids, n)
<1>1. in.out \o out \in Seq(Tokens(Ids))
  BY ConcatProperties DEF Inputs
<1>2. << >> \in Seq(Tokens(Ids)) /\ Len(<< >>) = 0
  BY EmptySeq
<1> DEFINE next == [in EXCEPT !.state = state, !.buf = << >>, !.out = @ \o out]
<1>3. next \in Inputs(Ids) /\ Len(next.buf) = 0
  BY <1>1, <1>2 DEF Inputs
<1>4. Waits(in, out, state) = [done |-> FALSE, success |-> FALSE, out |-> << >>, next |-> next]
  BY Zenon DEF Waits
<1> HIDE DEF next
<1> QED
  BY <1>2, <1>3, <1>4 DEF Results

LEMMA CompletesType ==
  ASSUME NEW Ids, NEW in \in Inputs(Ids), NEW out \in Seq(Tokens(Ids)),
         NEW rest \in Seq(Tokens(Ids)), NEW success \in BOOLEAN,
         NEW n \in Nat, Len(rest) <= n
  PROVE  Completes(in, out, rest, success) \in Results(Ids, n)
<1>1. in.out \o out \in Seq(Tokens(Ids))
  BY ConcatProperties DEF Inputs
<1>2. << >> \in Seq(Tokens(Ids)) /\ "fresh" \in ReplyState /\ << >> \in Leftover(Ids)
  BY EmptySeq DEF ReplyState, Leftover
<1> QED
  BY <1>1, <1>2 DEF Completes, Inputs, Results

LEMMA ScanListType ==
  ASSUME NEW Ids, NEW in \in Inputs(Ids), NEW spoken \in Seq(Tokens(Ids)),
         NEW buf \in Seq(Tokens(Ids)), NEW seen \in BOOLEAN,
         NEW n \in Nat, Len(buf) <= n
  PROVE  ScanList(in, spoken, buf, seen) \in Results(Ids, n)
<1>1. CASE EndsAt(buf, seen) # {}
  <2> DEFINE last == CHOOSE i \in EndsAt(buf, seen) :
                       \A j \in EndsAt(buf, seen) : i <= j
  <2>1. /\ SubSeq(buf, 1, last) \in Seq(Tokens(Ids))
        /\ SubSeq(buf, last + 1, Len(buf)) \in Seq(Tokens(Ids))
        /\ Len(SubSeq(buf, last + 1, Len(buf))) <= n
    <3>1. /\ SubSeq(buf, 1, last) \in Seq(Tokens(Ids))
          /\ SubSeq(buf, last + 1, Len(buf)) \in Seq(Tokens(Ids))
          /\ Len(SubSeq(buf, last + 1, Len(buf))) <= Len(buf)
      BY <1>1, EndsAtType
    <3>2. Len(buf) \in Nat /\ Len(SubSeq(buf, last + 1, Len(buf))) \in Nat
      BY <3>1, LenProperties
    <3> QED
      BY <3>1, <3>2
  <2>2. spoken \o SubSeq(buf, 1, last) \in Seq(Tokens(Ids))
    BY <2>1, ConcatProperties
  <2>3. Completes(in, spoken \o SubSeq(buf, 1, last),
                  SubSeq(buf, last + 1, Len(buf)), TRUE) \in Results(Ids, n)
    BY <2>1, <2>2, CompletesType
  <2> QED
    BY <1>1, <2>3, Zenon DEF ScanList
<1>2. CASE EndsAt(buf, seen) = {}
  <2>1. spoken \o buf \in Seq(Tokens(Ids))
    BY ConcatProperties
  <2>2. (IF buf = << >> THEN "list0" ELSE "list") \in ReplyState
    BY DEF ReplyState
  <2>3. Waits(in, spoken \o buf, IF buf = << >> THEN "list0" ELSE "list") \in Results(Ids, n)
    BY <2>1, <2>2, WaitsType
  <2> QED
    BY <1>2, <2>3, Zenon DEF ScanList
<1> QED
  BY <1>1, <1>2

(* What a scanner leaves between tok and cur are lines of the origin.      *)
LEMMA LeftoverType ==
  ASSUME NEW Ids, NEW held \in Leftover(Ids)
  PROVE  held \in Seq(Tokens(Ids))
<1>1. CASE held = << >>
  BY <1>1, EmptySeq
<1>2. CASE held # << >>
  <2>1. PICK id \in Ids : held = << [id |-> id, part |-> "end"] >>
    BY <1>2, Zenon DEF Leftover
  <2>2. [id |-> id, part |-> "end"] \in Tokens(Ids)
    BY DEF Tokens, Part
  <2> QED
    BY <2>1, <2>2
<1> QED
  BY <1>1, <1>2

LEMMA KeptType ==
  ASSUME NEW Ids, NEW in \in Inputs(Ids)
  PROVE  [in EXCEPT !.held = << >>] \in Inputs(Ids)
<1>1. << >> \in Leftover(Ids)
  BY Zenon DEF Leftover
<1> QED
  BY <1>1 DEF Inputs

LEMMA ScanStatusType ==
  ASSUME NEW Ids, NEW in \in Inputs(Ids), NEW multiline \in BOOLEAN, NEW id \in Ids,
         in.buf # << >>
  PROVE  ScanStatus(in, multiline, id) \in Results(Ids, Len(in.buf))
<1> DEFINE line == Head(in.buf)
           kept == [in EXCEPT !.held = << >>]
<1>1. /\ in.buf \in Seq(Tokens(Ids)) /\ kept \in Inputs(Ids)
      /\ line \in Tokens(Ids) /\ Tail(in.buf) \in Seq(Tokens(Ids))
      /\ Len(in.buf) \in Nat /\ Len(Tail(in.buf)) <= Len(in.buf)
      /\ Len(in.buf) <= Len(in.buf)
  <2>1. in.buf \in Seq(Tokens(Ids)) /\ kept \in Inputs(Ids)
    BY KeptType DEF Inputs
  <2>2. /\ line \in Tokens(Ids) /\ Tail(in.buf) \in Seq(Tokens(Ids))
        /\ Len(Tail(in.buf)) = Len(in.buf) - 1
    BY <2>1, HeadTailProperties
  <2>3. Len(in.buf) \in Nat
    BY <2>1, LenProperties
  <2> QED
    BY <2>1, <2>2, <2>3
<1>2. << [id |-> id, part |-> "badorigin"] >> \in Seq(Tokens(Ids))
  BY DEF Tokens, Part
<1>3. Held(in, line) \in Seq(Tokens(Ids))
  <2>1. in.held \in Leftover(Ids)
    BY DEF Inputs
  <2>2. in.held \in Seq(Tokens(Ids))
    BY <2>1, LeftoverType, Zenon
  <2> QED
    BY <1>1, <2>2, AppendProperties DEF Held
<1>4. Completes(in, << [id |-> id, part |-> "badorigin"] >>, in.buf, FALSE) \in Results(Ids, Len(in.buf))
  BY <1>1, <1>2, CompletesType, Zenon
<1>5. ScanList(kept, Held(in, line), Tail(in.buf), FALSE) \in Results(Ids, Len(in.buf))
  BY <1>1, <1>3, ScanListType
<1>6. (line.part = "ok") \in BOOLEAN
  OBVIOUS
<1>7. Completes(in, Held(in, line), Tail(in.buf), line.part = "ok") \in Results(Ids, Len(in.buf))
  BY <1>1, <1>3, <1>6, CompletesType
<1> QED
  BY <1>4, <1>5, <1>7, Zenon DEF ScanStatus

LEMMA ParsePopResponseType ==
  ASSUME NEW Ids, NEW in \in Inputs(Ids), NEW multiline \in BOOLEAN, NEW id \in Ids
  PROVE  parsePopResponse(in, multiline, id) \in Results(Ids, Len(in.buf))
<1>1. /\ << >> \in Seq(Tokens(Ids)) /\ in.buf \in Seq(Tokens(Ids))
      /\ Len(in.buf) \in Nat /\ Len(<< >>) <= Len(in.buf) /\ Len(in.buf) <= Len(in.buf)
      /\ "status" \in ReplyState /\ (in.state = "list") \in BOOLEAN
  BY EmptySeq DEF Inputs, ReplyState
<1>2. Waits(in, << >>, "status") \in Results(Ids, Len(in.buf))
  BY <1>1, WaitsType
<1>3. \A success \in BOOLEAN : Completes(in, << >>, << >>, success) \in Results(Ids, Len(in.buf))
  BY <1>1, CompletesType
<1>4. in.buf # << >> => ScanStatus(in, multiline, id) \in Results(Ids, Len(in.buf))
  BY ScanStatusType
<1>5. ScanList(in, << >>, in.buf, in.state = "list") \in Results(Ids, Len(in.buf))
  BY <1>1, ScanListType
<1> QED
  BY <1>2, <1>3, <1>4, <1>5 DEF parsePopResponse

(* destuffMail reports no success of its own beyond completing.            *)
LEMMA DestuffMailType ==
  ASSUME NEW Ids, NEW in \in Inputs(Ids)
  PROVE  destuffMail(in) \in Results(Ids, Len(in.buf))
<1>1. in.buf \in Seq(Tokens(Ids)) /\ << >> \in Seq(Tokens(Ids)) /\ "body" \in ReplyState
      /\ Len(in.buf) \in Nat /\ Len(<< >>) <= Len(in.buf)
  BY EmptySeq DEF Inputs, ReplyState
<1>2. CASE EndsAt(in.buf, TRUE) # {}
  <2> DEFINE last == CHOOSE i \in EndsAt(in.buf, TRUE) :
                       \A j \in EndsAt(in.buf, TRUE) : i <= j
             done == Completes(in, SubSeq(in.buf, 1, last - 1),
                               SubSeq(in.buf, last + 1, Len(in.buf)), TRUE)
  <2>1. /\ SubSeq(in.buf, 1, last - 1) \in Seq(Tokens(Ids))
        /\ SubSeq(in.buf, last + 1, Len(in.buf)) \in Seq(Tokens(Ids))
        /\ Len(SubSeq(in.buf, last + 1, Len(in.buf))) <= Len(in.buf)
    BY <1>1, <1>2, EndsAtType
  <2>2. done \in Results(Ids, Len(in.buf))
    BY <1>1, <2>1, CompletesType, Zenon
  <2>3. destuffMail(in) = [done EXCEPT !.next.held = << in.buf[last] >>]
    BY <1>2, Zenon DEF destuffMail
  <2>4. << in.buf[last] >> \in Leftover(Ids)
    <3>1. last \in EndsAt(in.buf, TRUE)
      BY <1>1, <1>2, EndsAtType
    <3>2. last \in 1 .. Len(in.buf) /\ in.buf[last].part = "end"
      BY <3>1 DEF EndsAt
    <3>3. in.buf[last] \in Tokens(Ids)
      BY <1>1, <3>2, ElementOfSeq
    <3>4. /\ in.buf[last].id \in Ids
          /\ in.buf[last] = [id |-> in.buf[last].id, part |-> "end"]
      BY <3>2, <3>3 DEF Tokens
    <3> QED
      BY <3>4, Zenon DEF Leftover
  <2> HIDE DEF done, last
  <2> QED
    BY <2>2, <2>3, <2>4 DEF Results, Inputs
<1>3. CASE EndsAt(in.buf, TRUE) = {}
  <2>1. Completes(in, << >>, << >>, TRUE) \in Results(Ids, Len(in.buf))
    BY <1>1, CompletesType
  <2>2. Waits(in, << >>, "body") \in Results(Ids, Len(in.buf))
    BY <1>1, WaitsType
  <2>3. [Waits(in, << >>, "body") EXCEPT !.out = in.buf] \in Results(Ids, Len(in.buf))
    BY <1>1, <2>2 DEF Results
  <2> QED
    BY <1>3, <2>1, <2>3, Zenon DEF destuffMail
<1> QED
  BY <1>2, <1>3

LEMMA StuffMailType ==
  ASSUME NEW Ids, NEW state \in {"fresh", "begin"}, NEW lines \in Seq(Tokens(Ids)),
         NEW id \in Ids
  PROVE  stuffMail(state, lines, id) \in
           [done : BOOLEAN, out : Seq(Tokens(Ids)), next : {"fresh", "begin"}]
<1>1. << [id |-> id, part |-> "end"] >> \in Seq(Tokens(Ids))
  BY DEF Tokens, Part
<1> QED
  BY <1>1 DEF stuffMail
-----------------------------------------------------------------------------

TypeInv == TypeOK /\ BuffersFit

-----------------------------------------------------------------------------
(* The operators the blocks are built from.                                *)

LEMMA TokenIsTokens == Token = Tokens(Id)
BY DEF Token, Tokens

(* Regrouping lines.                                                       *)
LEMMA Associative == \A s, t, u \in Seq(Token) : (s \o t) \o u = s \o (t \o u)
BY ConcatAssociative

LEMMA ResponseType ==
  ASSUME TypeOK
  PROVE  response \in Inputs(Id)
BY TokenIsTokens DEF TypeOK, Inputs

(* What fillBuffer leaves of the origin's stream, and puts in the buffer.  *)
LEMMA FilledType ==
  ASSUME TypeInv
  PROVE  /\ Filled \in Inputs(Id) /\ Len(Filled.buf) <= BufSize
         /\ Len(Filled.buf) \in Nat
         /\ ServerRead.left \in Seq(Tokens(Id))
         /\ ServerRead.count \in {"data", "eof", "again", "error"}
<1> DEFINE over == IF origin = "eof" THEN "eof" ELSE IF origin = "up" THEN "again" ELSE "error"
           room == BufSize - Len(response.buf)
<1>1. /\ response \in Inputs(Id) /\ response.buf \in Seq(Tokens(Id))
      /\ s2p \in Seq(Tokens(Id)) /\ Len(response.buf) \in Nat
  BY ResponseType, TokenIsTokens, LenProperties DEF Inputs, TypeInv, TypeOK
<1>2. room \in Nat
  BY <1>1, SessionAssumption DEF TypeInv, BuffersFit
<1>3. ServerRead = Read(s2p, room, over)
  BY DEF ServerRead
<1> HIDE DEF room, over
<1>4. /\ ServerRead.got \in Seq(Tokens(Id)) /\ ServerRead.left \in Seq(Tokens(Id))
      /\ Len(ServerRead.got) <= room /\ Len(ServerRead.got) \in Nat
      /\ ServerRead.count \in {"data", "eof", over}
  BY <1>1, <1>2, <1>3, ReadType, Zenon
<1>5. ServerRead.count \in {"data", "eof", "again", "error"}
  BY <1>4 DEF over
<1>6. /\ response.buf \o ServerRead.got \in Seq(Tokens(Id))
      /\ Len(response.buf \o ServerRead.got) = Len(response.buf) + Len(ServerRead.got)
  BY <1>1, <1>4, ConcatProperties
<1>7. Filled.buf = response.buf \o ServerRead.got /\ Filled \in Inputs(Id)
  BY <1>1, <1>6 DEF Filled, Inputs
<1>8. BufSize \in Nat /\ room = BufSize - Len(response.buf)
  BY SessionAssumption DEF room
<1>9. Len(Filled.buf) = Len(response.buf) + Len(ServerRead.got)
  BY <1>6, <1>7
<1>10. Len(Filled.buf) <= BufSize /\ Len(Filled.buf) \in Nat
  <2>1. \A a, b, c \in Nat : b <= c - a => a + b <= c /\ a + b \in Nat
    OBVIOUS
  <2> QED
    BY <1>1, <1>4, <1>8, <1>9, <2>1, Zenon
<1> QED
  BY <1>4, <1>5, <1>7, <1>10

LEMMA CloseClientType ==
  ASSUME TypeOK, NEW level, NEW flags, flags \subseteq Flag, CloseClient(level, flags)
  PROVE  /\ active' \subseteq Segment /\ ready' \subseteq Flag
         /\ at' \in 1 .. 7 /\ advanced' \in BOOLEAN
         /\ origin' \in {origin, "closed"}
BY DEF TypeOK, CloseClient, ActiveAfter

LEMMA GoesOnType ==
  ASSUME TypeOK, NEW k \in 1 .. 6, NEW flags, flags \subseteq Flag, GoesOn(k, flags)
  PROVE  /\ active' \subseteq Segment /\ ready' \subseteq Flag
         /\ at' \in 1 .. 7 /\ advanced' \in BOOLEAN
         /\ origin' \in {origin, "closed"}
BY DEF TypeOK, GoesOn

LEMMA TellsType ==
  ASSUME TypeOK, NEW lines \in Seq(Token), Tells(lines)
  PROVE  told' \in Seq(Token) /\ unread' \in Nat
<1>1. told \in Seq(Token) /\ unread \in Nat
  BY DEF TypeOK
<1>2. told \o lines \in Seq(Token) /\ Len(lines) \in Nat
  BY <1>1, ConcatProperties, LenProperties
<1> QED
  BY <1>1, <1>2 DEF Tells

(* Relayed gives tokens, the "overread" ones of an empty reply included.   *)
LEMMA RelayedType ==
  ASSUME NEW cmd \in Command, NEW out \in Seq(Token)
  PROVE  Relayed(cmd, out) \in Seq(Token)
<1> DEFINE own  == << [id |-> cmd.id, part |-> "pipelining"], [id |-> cmd.id, part |-> "end"] >>
           last == out[Len(out)]
           cut  == IF out = << >> THEN << [id |-> cmd.id, part |-> "overread"] >>
                   ELSE IF last.part = "end" THEN SubSeq(out, 1, Len(out) - 1)
                   ELSE [out EXCEPT ![Len(out)] = [last EXCEPT !.part = "garbled"]]
<1>1. own \in Seq(Token) /\ << [id |-> cmd.id, part |-> "overread"] >> \in Seq(Token)
  BY DEF Command, Token, Part
<1>2. cut \in Seq(Token)
  <2>1. CASE out = << >>
    BY <2>1, <1>1
  <2>2. CASE out # << >>
    <3>1. /\ Len(out) \in Nat \ {0} /\ Len(out) \in 1 .. Len(out)
          /\ Len(out) - 1 \in Nat /\ Len(out) - 1 <= Len(out) /\ 1 \in Nat \ {0}
      BY <2>2, EmptySeq, LenProperties
    <3>2. SubSeq(out, 1, Len(out) - 1) \in Seq(Token)
      BY <3>1, SubSeqType, Zenon
    <3>3. last \in Token
      BY <3>1, ElementOfSeq
    <3>4. [last EXCEPT !.part = "garbled"] \in Token
      BY <3>3 DEF Token, Part
    <3>5. [out EXCEPT ![Len(out)] = [last EXCEPT !.part = "garbled"]] \in Seq(Token)
      BY <3>1, <3>4, ExceptSeq
    <3> QED
      BY <2>2, <3>2, <3>5
  <2> QED
    BY <2>1, <2>2
<1> HIDE DEF cut, own
<1>3. cut \o own \in Seq(Token)
  BY <1>1, <1>2, ConcatProperties
<1> QED
  BY <1>3 DEF Relayed, cut, own

-----------------------------------------------------------------------------
(* Type correctness.  Each step keeps it.                                  *)

LEMMA PollType ==
  ASSUME TypeInv, Poll
  PROVE  TypeInv'
<1>1. \A fd \in edges : Reported(fd) \subseteq Flag
  BY DEF TypeInv, TypeOK, Reported, FlagIf, Flag
<1>2. ready' \subseteq Flag
  BY <1>1 DEF Poll, TypeInv, TypeOK
<1>3. /\ edges' \subseteq {"client", "server", "filterIn", "filterOut"}
      /\ at' \in 1 .. 7 /\ advanced' \in BOOLEAN
  <2>1. edges' = {} /\ at' = 1 /\ advanced' = FALSE
    BY Zenon DEF Poll
  <2>2. advanced' \in BOOLEAN
    BY <2>1, Zenon
  <2>3. edges' \subseteq {"client", "server", "filterIn", "filterOut"} /\ at' \in 1 .. 7
    BY <2>1
  <2> QED
    BY <2>2, <2>3
<1>4. UNCHANGED << active, queue, pending, request, response, stuffing,
                   c2p, s2p, p2s, unread, peerVars, histVars >>
  BY DEF Poll
<1>5. TypeOK'
  BY <1>2, <1>3, <1>4 DEF TypeInv, TypeOK, peerVars, histVars
<1>6. BuffersFit'
  BY <1>4 DEF TypeInv, BuffersFit
<1> QED
  BY <1>5, <1>6 DEF TypeInv

LEMMA ConnectType ==
  ASSUME TypeInv, Connect
  PROVE  TypeInv'
<1> TypeOK /\ ready \subseteq Flag /\ active \subseteq Segment
  BY DEF TypeInv, TypeOK
<1>1. /\ active' \subseteq Segment /\ ready' \subseteq Flag
      /\ at' \in 1 .. 7 /\ advanced' \in BOOLEAN
      /\ origin' \in {origin, "closed"}
  <2>1. CASE CloseClient(CS_CLIENT, ready)
    BY <2>1, CloseClientType, Zenon
  <2>2. CASE /\ active' = active \union CS_SERVER
             /\ at' = 2 /\ advanced' = TRUE /\ UNCHANGED << ready, origin >>
    BY <2>2 DEF Segment, CS_SERVER
  <2> QED
    BY <2>1, <2>2 DEF Connect
<1> QED
  BY <1>1 DEF Connect, TypeInv, TypeOK, BuffersFit, netVars, histVars

LEMMA FeedType ==
  ASSUME TypeInv, Feed
  PROVE  TypeInv'
<1> DEFINE fed   == destuffMail(Filled)
           left  == ServerRead.left
           flags == (ready \ {"serverRead", "filterWrite"})
                      \union FlagIf(left # <<>>, "serverRead")
                      \union FlagIf(Len(left) < LowWater, "filterWrite")
<1>1. fed \in Results(Id, Len(Filled.buf)) /\ left \in Seq(Token)
  BY FilledType, DestuffMailType, TokenIsTokens
<1>2. response' = fed.next /\ s2p' = left /\ filter' = Written(fed.out)
  BY DEF Feed
<1>3. /\ response' \in Inputs(Id) /\ Len(response'.buf) <= Len(Filled.buf)
      /\ fed.out \in Seq(Token)
  BY <1>1, <1>2, TokenIsTokens DEF Results
<1>4. Len(response'.buf) <= BufSize
  BY <1>3, FilledType, SessionAssumption, LenProperties DEF Inputs
<1>5. /\ response' \in [state : ReplyState, buf : Seq(Token), out : Seq(Token), held : Leftover(Id)]
      /\ s2p' \in Seq(Token)
  BY <1>1, <1>2, <1>3, TokenIsTokens DEF Inputs
<1> HIDE DEF fed, left
<1>6. /\ flags \subseteq Flag
      /\ CloseClient({"FILTER_IN"}, flags) \/ GoesOn(2, flags)
  BY DEF Feed, TypeInv, TypeOK, FlagIf, Flag, fed, left
<1>7. /\ active' \subseteq Segment /\ ready' \subseteq Flag
      /\ at' \in 1 .. 7 /\ advanced' \in BOOLEAN /\ origin' \in {origin, "closed"}
  <2> HIDE DEF flags
  <2>1. TypeOK /\ active \subseteq Segment /\ 2 \in 1 .. 6
    BY DEF TypeInv, TypeOK
  <2>2. CASE CloseClient({"FILTER_IN"}, flags)
    BY <1>6, <2>1, <2>2, CloseClientType, Zenon
  <2>3. CASE GoesOn(2, flags)
    BY <1>6, <2>1, <2>3, GoesOnType, Zenon
  <2> QED
    BY <1>6, <2>2, <2>3
<1>8. filter' \in [id : Id, mode : {"none", "pipe", "command", "exited"},
                   in : Seq(Token), held : Seq(Token), out : Seq(Token)]
  <2>1. filter.in \o fed.out \in Seq(Token) /\ filter.out \o fed.out \in Seq(Token)
    BY <1>3, ConcatProperties DEF TypeInv, TypeOK
  <2> QED
    BY <1>2, <2>1 DEF TypeInv, TypeOK, Written
<1>9. edges' \subseteq {"client", "server", "filterIn", "filterOut"}
  BY DEF Feed, TypeInv, TypeOK, FlagIf
<1> QED
  BY <1>4, <1>5, <1>7, <1>8, <1>9 DEF Feed, TypeInv, TypeOK, BuffersFit, histVars

(* What the guards of the blocks say, one by one.                          *)
LEMMA Reached ==
  /\ \A k \in 1 .. 6 : Reaches(k) => at <= k
  /\ Responding => queue # << >> /\ {"SERVER_OUT", "CLIENT_IN"} \subseteq active
  /\ Reaches(3) => {"FILTER_OUT", "CLIENT_IN"} \subseteq active
  /\ Reaches(5) => queue # << >> /\ ~pending /\ "SERVER_IN" \in active
<1>1. \A k \in 1 .. 6 : Reaches(k) => at <= k
  BY DEF Reaches
<1>2. Responding => queue # << >> /\ {"SERVER_OUT", "CLIENT_IN"} \subseteq active
  BY DEF Responding, Reaches, BlockEnabled, FeedEnabled, RespondEnabled
<1>3. Reaches(3) => {"FILTER_OUT", "CLIENT_IN"} \subseteq active
  BY DEF Reaches, BlockEnabled, DrainEnabled
<1>4. Reaches(5) => queue # << >> /\ ~pending /\ "SERVER_IN" \in active
  BY DEF Reaches, BlockEnabled, SendEnabled
<1> QED
  BY <1>1, <1>2, <1>3, <1>4

(* The head of the queue and what is left of it.                           *)
LEMMA QueueHead ==
  ASSUME TypeOK, queue # << >>
  PROVE  /\ Head(queue) \in Command /\ Head(queue).id \in Id
         /\ Tail(queue) \in Seq(Command)
<1>1. queue \in Seq(Command)
  BY DEF TypeOK
<1>2. Head(queue) \in Command /\ Tail(queue) \in Seq(Command)
  BY <1>1, HeadTailProperties
<1> QED
  BY <1>2 DEF Command

LEMMA ParsedType ==
  ASSUME TypeInv, queue # << >>
  PROVE  /\ Parsed.out \in Seq(Token) /\ Parsed.done \in BOOLEAN
         /\ Parsed.next \in [state : ReplyState, buf : Seq(Token), out : Seq(Token), held : Leftover(Id)]
         /\ Len(Parsed.next.buf) <= BufSize
<1>1. Filled \in Inputs(Id) /\ Len(Filled.buf) <= BufSize /\ Len(Filled.buf) \in Nat
  BY FilledType
<1>2. Head(queue).id \in Id /\ (Head(queue).kind \in Multiline) \in BOOLEAN
  BY QueueHead DEF TypeInv
<1>3. Parsed \in Results(Id, Len(Filled.buf))
  BY <1>1, <1>2, ParsePopResponseType, Zenon DEF Parsed
<1>4. /\ Parsed.next \in Inputs(Id) /\ Len(Parsed.next.buf) <= Len(Filled.buf)
      /\ Parsed.out \in Seq(Token) /\ Parsed.done \in BOOLEAN
  BY <1>3, TokenIsTokens DEF Results
<1>5. Parsed.next \in [state : ReplyState, buf : Seq(Token), out : Seq(Token), held : Leftover(Id)]
  BY <1>4, TokenIsTokens DEF Inputs
<1>6. Len(Parsed.next.buf) \in Nat
  BY <1>5, LenProperties
<1>7. Len(Parsed.next.buf) <= BufSize
  BY <1>1, <1>4, <1>6, SessionAssumption
<1> QED
  BY <1>4, <1>5, <1>7

LEMMA RespondInvalidType ==
  ASSUME TypeInv, RespondInvalid
  PROVE  TypeInv'
<1>1. TypeOK /\ queue # << >>
  BY Reached DEF TypeInv, RespondInvalid
<1>2. /\ Tail(queue) \in Seq(Command)
      /\ << [id |-> Head(queue).id, part |-> "invalid"] >> \in Seq(Token)
  BY <1>1, QueueHead DEF Token, Part
<1>3. told' \in Seq(Token) /\ unread' \in Nat
  BY <1>1, <1>2, TellsType DEF RespondInvalid
<1>4. /\ response' \in [state : ReplyState, buf : Seq(Token), out : Seq(Token), held : Leftover(Id)]
      /\ Len(response'.buf) <= BufSize /\ s2p' \in Seq(Token)
  BY FilledType, TokenIsTokens DEF RespondInvalid, Inputs
<1>5. /\ active' \subseteq Segment /\ ready' \subseteq Flag
      /\ at' \in 1 .. 7 /\ advanced' \in BOOLEAN /\ origin' \in {origin, "closed"}
  <2> DEFINE flags == IF ServerRead.count = "data" THEN ready ELSE ready \ {"serverRead"}
  <2>1. flags \subseteq Flag
    BY <1>1 DEF TypeOK
  <2>2. GoesOn(2, flags)
    BY DEF RespondInvalid
  <2>3. 2 \in 1 .. 6
    OBVIOUS
  <2> HIDE DEF flags
  <2> QED
    BY <1>1, <2>1, <2>2, <2>3, GoesOnType, Zenon
<1>6. /\ queue' = Tail(queue)
      /\ UNCHANGED << pending, request, stuffing, edges, c2p, p2s,
                      asked, clientEof, reply, filter, said, sent, freed >>
  BY DEF RespondInvalid
<1> QED
  BY <1>2, <1>3, <1>4, <1>5, <1>6 DEF TypeInv, TypeOK, BuffersFit

LEMMA RespondWaitsType ==
  ASSUME TypeInv, RespondWaits
  PROVE  TypeInv'
<1>1. TypeOK /\ queue # << >>
  BY Reached DEF TypeInv, RespondWaits
<1>2. /\ response' \in [state : ReplyState, buf : Seq(Token), out : Seq(Token), held : Leftover(Id)]
      /\ Len(response'.buf) <= BufSize /\ s2p' \in Seq(Token)
  BY <1>1, ParsedType, FilledType, TokenIsTokens DEF RespondWaits
<1>3. /\ active' \subseteq Segment /\ ready' \subseteq Flag
      /\ at' \in 1 .. 7 /\ advanced' \in BOOLEAN /\ origin' \in {origin, "closed"}
  <2>1. ready \subseteq Flag /\ ready \ {"serverRead"} \subseteq Flag /\ 2 \in 1 .. 6
    BY <1>1 DEF TypeOK
  <2>2. CloseClient({"SERVER_OUT"}, ready) \/ GoesOn(2, ready \ {"serverRead"})
    BY DEF RespondWaits
  <2> QED
    BY <1>1, <2>1, <2>2, CloseClientType, GoesOnType, Zenon
<1>4. UNCHANGED << queue, pending, request, stuffing, edges, c2p, p2s, unread,
                   asked, clientEof, reply, filter, histVars >>
  BY DEF RespondWaits
<1> QED
  BY <1>2, <1>3, <1>4 DEF TypeInv, TypeOK, BuffersFit, histVars

(* What the three ways a reply completes have in common.                   *)
LEMMA RespondDoneType ==
  ASSUME TypeInv, RespondDone
  PROVE  /\ TypeOK /\ queue # << >>
         /\ response' \in [state : ReplyState, buf : Seq(Token), out : Seq(Token), held : Leftover(Id)]
         /\ Len(response'.buf) <= BufSize /\ s2p' \in Seq(Token)
         /\ told' \in Seq(Token) /\ unread' \in Nat
         /\ queue' \in Seq(Command) /\ pending' \in BOOLEAN
<1>1. TypeOK /\ queue # << >>
  BY Reached DEF TypeInv, RespondDone
<1>2. /\ response' \in [state : ReplyState, buf : Seq(Token), out : Seq(Token), held : Leftover(Id)]
      /\ Len(response'.buf) <= BufSize /\ s2p' \in Seq(Token) /\ Parsed.out \in Seq(Token)
  BY <1>1, ParsedType, FilledType, TokenIsTokens DEF RespondDone
<1>3. Relayed(Head(queue), Parsed.out) \in Seq(Token) /\ Tail(queue) \in Seq(Command)
  BY <1>1, <1>2, QueueHead, RelayedType
<1>4. told' \in Seq(Token) /\ unread' \in Nat
  BY <1>1, <1>3, TellsType DEF RespondDone
<1>5. queue' = Tail(queue) /\ pending' = FALSE
  BY Zenon DEF RespondDone
<1>6. pending' \in BOOLEAN
  BY <1>5, Zenon
<1>7. queue' \in Seq(Command)
  BY <1>3, <1>5
<1> QED
  BY <1>1, <1>2, <1>4, <1>6, <1>7

LEMMA RespondType ==
  ASSUME TypeInv, Respond
  PROVE  TypeInv'
<1> DEFINE flags == IF ServerRead.count = "data" THEN ready ELSE ready \ {"serverRead"}
<1>1. RespondDone /\ GoesOn(2, flags)
  BY DEF Respond
<1>2. TypeOK /\ flags \subseteq Flag /\ 2 \in 1 .. 6
  BY SMTT(30) DEF TypeInv, TypeOK
<1> HIDE DEF flags
<1>3. /\ active' \subseteq Segment /\ ready' \subseteq Flag
      /\ at' \in 1 .. 7 /\ advanced' \in BOOLEAN /\ origin' \in {origin, "closed"}
  BY <1>1, <1>2, GoesOnType, Zenon
<1>4. UNCHANGED << request, stuffing, edges, c2p, p2s,
                   asked, clientEof, reply, filter, said, sent, freed >>
  BY DEF Respond
<1> QED
  BY <1>1, <1>3, <1>4, RespondDoneType DEF TypeInv, TypeOK, BuffersFit

LEMMA RespondQuitType ==
  ASSUME TypeInv, RespondQuit
  PROVE  TypeInv'
<1>1. RespondDone /\ CloseClient(CS_CLIENT \union CS_SERVER, ready)
  BY DEF RespondQuit
<1>2. TypeOK /\ ready \subseteq Flag
  BY DEF TypeInv, TypeOK
<1>3. /\ active' \subseteq Segment /\ ready' \subseteq Flag
      /\ at' \in 1 .. 7 /\ advanced' \in BOOLEAN /\ origin' \in {origin, "closed"}
  BY <1>1, <1>2, CloseClientType, Zenon
<1>4. UNCHANGED << request, stuffing, edges, c2p, p2s,
                   asked, clientEof, reply, filter, said, sent, freed >>
  BY DEF RespondQuit
<1> QED
  BY <1>1, <1>3, <1>4, RespondDoneType DEF TypeInv, TypeOK, BuffersFit

LEMMA RespondRetrieveType ==
  ASSUME TypeInv, RespondRetrieve
  PROVE  TypeInv'
<1>1. RespondDone
  BY DEF RespondRetrieve
<1>2. TypeOK /\ Head(queue).id \in Id
  BY <1>1, RespondDoneType, QueueHead
<1>3. filter' \in [id : Id, mode : {"none", "pipe", "command", "exited"},
                   in : Seq(Token), held : Seq(Token), out : Seq(Token)]
  <2>1. PICK mode \in FilterModes :
          filter' = [NoFilter EXCEPT !.id = Head(queue).id, !.mode = mode]
    BY DEF RespondRetrieve
  <2>2. mode \in {"pipe", "command"}
    BY <2>1 DEF FilterModes
  <2>3. << >> \in Seq(Token)
    BY EmptySeq
  <2> QED
    BY <1>2, <2>1, <2>2, <2>3 DEF NoFilter
<1>4. /\ active' \subseteq Segment /\ ready' \subseteq Flag
      /\ at' \in 1 .. 7 /\ origin' = origin
      /\ edges' \subseteq {"client", "server", "filterIn", "filterOut"}
  BY <1>2, SMTT(30) DEF RespondRetrieve, TypeOK, Segment, CS_FILTER
<1>5. advanced' \in BOOLEAN
  BY Zenon DEF RespondRetrieve
<1>6. UNCHANGED << request, stuffing, c2p, p2s,
                   asked, clientEof, reply, said, sent, freed >>
  BY DEF RespondRetrieve
<1> QED
  BY <1>1, <1>3, <1>4, <1>5, <1>6, RespondDoneType DEF TypeInv, TypeOK, BuffersFit

LEMMA DrainType ==
  ASSUME TypeInv, Drain
  PROVE  TypeInv'
<1> DEFINE pipe  == FilterRead
           copy  == stuffMail(stuffing, pipe.got, filter.id)
           flags == (ready \ {"filterRead", "clientWrite"})
                      \union FlagIf(pipe.count = "data", "filterRead")
                      \union FlagIf(unread' < LowWater, "clientWrite")
<1>1. /\ TypeOK /\ filter.id \in Id /\ stuffing \in {"fresh", "begin"}
      /\ filter.out \in Seq(Token) /\ BufSize \in Nat
  BY SessionAssumption DEF TypeInv, TypeOK
<1>2. pipe.got \in Seq(Token) /\ pipe.left \in Seq(Token)
  BY <1>1, ReadType, Zenon DEF FilterRead
<1>3. copy \in [done : BOOLEAN, out : Seq(Token), next : {"fresh", "begin"}]
  BY <1>1, <1>2, StuffMailType, TokenIsTokens
<1>4. /\ flags \subseteq Flag
      /\ CloseClient({"FILTER_OUT"}, flags) \/ GoesOn(3, flags)
      /\ Tells(copy.out) /\ stuffing' = copy.next
      /\ filter' = [filter EXCEPT !.out = pipe.left]
  <2>1. flags \subseteq Flag
    BY <1>1 DEF TypeOK, FlagIf, Flag
  <2> HIDE DEF flags, copy
  <2>2. Drain => /\ CloseClient({"FILTER_OUT"}, flags) \/ GoesOn(3, flags)
                 /\ Tells(copy.out) /\ stuffing' = copy.next
                 /\ filter' = [filter EXCEPT !.out = pipe.left]
    BY DEF Drain, flags, copy
  <2> QED
    BY <2>1, <2>2
<1> HIDE DEF flags, copy, pipe
<1>5. /\ active' \subseteq Segment /\ ready' \subseteq Flag
      /\ at' \in 1 .. 7 /\ advanced' \in BOOLEAN /\ origin' \in {origin, "closed"}
  <2>1. 3 \in 1 .. 6
    OBVIOUS
  <2> QED
    BY <1>1, <1>4, <2>1, CloseClientType, GoesOnType, Zenon
<1>6. told' \in Seq(Token) /\ unread' \in Nat /\ stuffing' \in {"fresh", "begin"}
  BY <1>1, <1>3, <1>4, TellsType
<1>7. filter' \in [id : Id, mode : {"none", "pipe", "command", "exited"},
                   in : Seq(Token), held : Seq(Token), out : Seq(Token)]
  BY <1>1, <1>2, <1>4 DEF TypeOK
<1>8. edges' \subseteq {"client", "server", "filterIn", "filterOut"}
  BY <1>1 DEF Drain, TypeOK, FlagIf
<1>9. UNCHANGED << queue, pending, request, response, c2p, s2p, p2s,
                   asked, clientEof, reply, said, sent, freed >>
  BY DEF Drain
<1> QED
  BY <1>5, <1>6, <1>7, <1>8, <1>9 DEF TypeInv, TypeOK, BuffersFit

(* What fillBuffer makes of the client's stream and the parse buffer.      *)
LEMMA RequestedType ==
  ASSUME TypeInv
  PROVE  /\ ClientRead.got \in Seq(Command) /\ ClientRead.left \in Seq(Command)
         /\ ClientRead.got \o ClientRead.left = c2p
         /\ Requested \in Seq(Command) /\ Requested = request \o ClientRead.got
         /\ Len(Requested) \in Nat /\ Len(Requested) <= BufSize
<1>1. request \in Seq(Command) /\ c2p \in Seq(Command) /\ Len(request) \in Nat
  BY LenProperties DEF TypeInv, TypeOK
<1> DEFINE over == IF clientEof THEN "eof" ELSE "again"
<1>2. PICK room \in Nat : room = BufSize - Len(request) /\ Len(request) + room = BufSize
  BY <1>1, SessionAssumption DEF TypeInv, BuffersFit
<1>7. ClientRead = Read(c2p, room, over)
  BY <1>2 DEF ClientRead
<1> HIDE DEF over
<1>3. /\ ClientRead.got \in Seq(Command) /\ ClientRead.left \in Seq(Command)
      /\ ClientRead.count \in {"data", "eof", over}
      /\ Len(ClientRead.got) \in Nat /\ Len(ClientRead.got) <= room
      /\ ClientRead.got \o ClientRead.left = c2p
  BY <1>1, <1>7, ReadType, Zenon
<1>4. Requested = request \o ClientRead.got
  BY DEF Requested
<1>5. Requested \in Seq(Command) /\ Len(Requested) = Len(request) + Len(ClientRead.got)
  BY <1>1, <1>3, <1>4, ConcatProperties
<1>6. Len(Requested) \in Nat /\ Len(Requested) <= BufSize
  BY <1>1, <1>2, <1>3, <1>5
<1> QED
  BY <1>3, <1>4, <1>5, <1>6

LEMMA TakeCommandType ==
  ASSUME TypeInv, TakeCommand
  PROVE  TypeInv'
<1>1. Requested # << >> /\ request' = Tail(Requested) /\ c2p' = ClientRead.left
      /\ queue' = Append(queue, Head(Requested)) /\ GoesOn(4, ready)
  BY DEF TakeCommand, Unparsed
<1>2. /\ Requested \in Seq(Command) /\ ClientRead.left \in Seq(Command)
      /\ Len(Requested) \in Nat /\ Len(Requested) <= BufSize
  BY RequestedType
<1>3. TypeOK /\ ready \subseteq Flag /\ 4 \in 1 .. 6 /\ queue \in Seq(Command) /\ BufSize \in Nat
  BY SessionAssumption DEF TypeInv, TypeOK
<1>4. /\ Head(Requested) \in Command /\ Tail(Requested) \in Seq(Command)
      /\ Len(Tail(Requested)) = Len(Requested) - 1
  BY <1>1, <1>2, HeadTailProperties
<1>5. request' \in Seq(Command) /\ c2p' \in Seq(Command) /\ queue' \in Seq(Command)
  BY <1>1, <1>2, <1>3, <1>4
<1>6. Len(request') <= BufSize
  BY <1>1, <1>2, <1>3, <1>4
<1>7. /\ active' \subseteq Segment /\ ready' \subseteq Flag
      /\ at' \in 1 .. 7 /\ advanced' \in BOOLEAN /\ origin' \in {origin, "closed"}
  BY <1>1, <1>3, GoesOnType, Zenon
<1>8. UNCHANGED << pending, response, stuffing, edges, s2p, p2s, unread,
                   asked, clientEof, reply, filter, histVars >>
  BY DEF TakeCommand
<1> QED
  BY <1>5, <1>6, <1>7, <1>8 DEF TypeInv, TypeOK, BuffersFit, histVars

LEMMA TakeNothingType ==
  ASSUME TypeInv, TakeNothing
  PROVE  TypeInv'
<1>1. \/ CloseClient({"CLIENT_OUT"}, ready) /\ edges' = edges \union {"client"}
      \/ GoesOn(4, ready \ {"clientRead"}) /\ UNCHANGED edges
  BY DEF TakeNothing
<1>2. /\ TypeOK /\ ready \subseteq Flag /\ ready \ {"clientRead"} \subseteq Flag
      /\ 4 \in 1 .. 6 /\ edges \subseteq {"client", "server", "filterIn", "filterOut"}
  BY DEF TypeInv, TypeOK
<1>3. /\ active' \subseteq Segment /\ ready' \subseteq Flag
      /\ at' \in 1 .. 7 /\ advanced' \in BOOLEAN /\ origin' \in {origin, "closed"}
  BY <1>1, <1>2, CloseClientType, GoesOnType, Zenon
<1>4. edges' \subseteq {"client", "server", "filterIn", "filterOut"}
  BY <1>1, <1>2
<1>5. UNCHANGED << queue, pending, request, response, stuffing, c2p, s2p, p2s, unread,
                   asked, clientEof, reply, filter, histVars >>
  BY DEF TakeNothing
<1> QED
  BY <1>3, <1>4, <1>5 DEF TypeInv, TypeOK, BuffersFit, histVars

LEMMA SendType ==
  ASSUME TypeInv, SendNothing \/ SendCommand \/ SendFails
  PROVE  TypeInv'
<1>1. /\ TypeOK /\ queue # << >> /\ ready \subseteq Flag
      /\ WakeToAnswer \subseteq Flag /\ 5 \in 1 .. 6
  <2>1. TypeOK /\ ready \subseteq Flag
    BY DEF TypeInv, TypeOK
  <2>2. WakeToAnswer \subseteq Flag
    BY <2>1 DEF WakeToAnswer, Flag
  <2>3. Reaches(5)
    BY DEF SendNothing, SendCommand, SendFails
  <2> QED
    BY <2>1, <2>2, <2>3, Reached
<1>2. Head(queue) \in Command /\ Head(queue).id \in Id
  BY <1>1, QueueHead
<1>3. CASE SendNothing
  <2>1. /\ active' \subseteq Segment /\ ready' \subseteq Flag
        /\ at' \in 1 .. 7 /\ advanced' \in BOOLEAN /\ origin' \in {origin, "closed"}
    <3>1. GoesOn(5, WakeToAnswer)
      BY <1>3 DEF SendNothing
    <3> QED
      BY <1>1, <3>1, GoesOnType, Zenon
  <2>2. UNCHANGED << queue, pending, request, response, stuffing, netVars,
                     asked, clientEof, reply, filter, histVars >>
    BY <1>3 DEF SendNothing
  <2> QED
    BY <2>1, <2>2 DEF TypeInv, TypeOK, BuffersFit, netVars, histVars
<1>4. CASE SendCommand
  <2>1. /\ p2s' \in Seq(Command) /\ sent' \in Seq(Id) /\ freed' \subseteq Id
        /\ origin' \in {"up", "reset"} /\ ready' \subseteq Flag /\ at' \in 1 .. 7
        /\ edges' \subseteq {"client", "server", "filterIn", "filterOut"}
    <3>1. /\ p2s \in Seq(Command) /\ sent \in Seq(Id) /\ freed \subseteq Id
          /\ edges \subseteq {"client", "server", "filterIn", "filterOut"}
      BY <1>1 DEF TypeOK
    <3>2. /\ p2s' = IF origin = "up" THEN Append(p2s, Head(queue)) ELSE p2s
          /\ sent' = Append(sent, Head(queue).id)
          /\ freed' = freed \union {Head(queue).id}
      BY <1>4 DEF SendCommand
    <3>3. p2s' \in Seq(Command) /\ sent' \in Seq(Id) /\ freed' \subseteq Id
      BY <1>2, <3>1, <3>2
    <3>4. /\ origin' \in {"up", "reset"} /\ ready' \subseteq Flag /\ at' \in 1 .. 7
          /\ edges' \subseteq {"client", "server", "filterIn", "filterOut"}
      BY <1>1, <1>4, <3>1 DEF SendCommand, FlagIf, Flag
    <3> QED
      BY <3>3, <3>4
  <2>2. pending' \in BOOLEAN /\ advanced' \in BOOLEAN
    <3>1. pending' = TRUE /\ advanced' = TRUE
      BY <1>4, Zenon DEF SendCommand
    <3> QED
      BY <3>1, Zenon
  <2>3. UNCHANGED << active, queue, request, response, stuffing, c2p, s2p, unread,
                     asked, clientEof, reply, filter, said, told >>
    BY <1>4 DEF SendCommand
  <2> QED
    BY <2>1, <2>2, <2>3 DEF TypeInv, TypeOK, BuffersFit
<1>5. CASE SendFails
  <2>1. /\ active' \subseteq Segment /\ ready' \subseteq Flag
        /\ at' \in 1 .. 7 /\ advanced' \in BOOLEAN /\ origin' \in {origin, "closed"}
    <3>1. CloseClient({"SERVER_IN"}, ready)
      BY <1>5 DEF SendFails
    <3> QED
      BY <1>1, <3>1, CloseClientType, Zenon
  <2>2. freed' \subseteq Id
    BY <1>1, <1>2, <1>5 DEF SendFails, TypeOK
  <2>3. UNCHANGED << queue, pending, request, response, stuffing, netVars,
                     asked, clientEof, reply, filter, said, told, sent >>
    BY <1>5 DEF SendFails
  <2> QED
    BY <2>1, <2>2, <2>3 DEF TypeInv, TypeOK, BuffersFit, netVars
<1> QED
  BY <1>3, <1>4, <1>5

LEMMA FinishType ==
  ASSUME TypeInv, Finish
  PROVE  TypeInv'
<1>1. CloseClient(CS_SERVER \union CS_CLIENT, ready) /\ TypeOK /\ ready \subseteq Flag
  BY DEF Finish, TypeInv, TypeOK
<1>2. /\ active' \subseteq Segment /\ ready' \subseteq Flag
      /\ at' \in 1 .. 7 /\ advanced' \in BOOLEAN /\ origin' \in {origin, "closed"}
  BY <1>1, CloseClientType, Zenon
<1>3. UNCHANGED << queue, pending, request, response, stuffing, netVars,
                   asked, clientEof, reply, filter, histVars >>
  BY DEF Finish
<1> QED
  BY <1>2, <1>3 DEF TypeInv, TypeOK, BuffersFit, netVars, histVars

(* The peers.  What they leave alone they leave to the proxy.              *)
LEMMA ClientType ==
  ASSUME TypeInv, ClientSends \/ ClientCloses \/ ClientReads
  PROVE  TypeInv'
<1>1. TypeOK /\ edges \union {"client"} \subseteq {"client", "server", "filterIn", "filterOut"}
  BY DEF TypeInv, TypeOK
<1>2. CASE ClientSends
  <2>1. PICK kind \in Kinds :
          /\ asked' = Append(asked, [id |-> Len(asked) + 1, kind |-> kind])
          /\ c2p' = Append(c2p, [id |-> Len(asked) + 1, kind |-> kind])
    BY <1>2 DEF ClientSends
  <2>2. asked \in Seq(Command) /\ c2p \in Seq(Command) /\ Len(asked) \in Nat
    BY <1>1, LenProperties DEF TypeOK
  <2>3. [id |-> Len(asked) + 1, kind |-> kind] \in Command
    <3>1. Len(asked) < MaxCmds
      BY <1>2 DEF ClientSends
    <3>2. Len(asked) + 1 \in Id
      BY <2>2, <3>1, SessionAssumption DEF Id
    <3>3. kind \in AllKinds
      BY <2>1, SessionAssumption
    <3> QED
      BY <3>2, <3>3 DEF Command
  <2>4. asked' \in Seq(Command) /\ c2p' \in Seq(Command)
    BY <2>1, <2>2, <2>3
  <2>5. edges' = edges \union {"client"} /\
        UNCHANGED << proxyVars, s2p, p2s, unread, clientEof, origin, reply, filter, histVars >>
    BY <1>2 DEF ClientSends
  <2> QED
    BY <1>1, <2>4, <2>5 DEF TypeInv, TypeOK, BuffersFit, proxyVars, histVars
<1>3. CASE ClientCloses
  <2>1. clientEof' \in BOOLEAN
    <3>1. clientEof' = TRUE
      BY <1>3, Zenon DEF ClientCloses
    <3> QED
      BY <3>1, Zenon
  <2>2. edges' = edges \union {"client"} /\
        UNCHANGED << proxyVars, c2p, s2p, p2s, unread, asked, origin, reply, filter, histVars >>
    BY <1>3 DEF ClientCloses
  <2> QED
    BY <1>1, <2>1, <2>2 DEF TypeInv, TypeOK, BuffersFit, proxyVars, histVars
<1>4. CASE ClientReads
  <2>1. unread' = 0 /\ edges' = edges \union {"client"} /\
        UNCHANGED << proxyVars, c2p, s2p, p2s, peerVars, histVars >>
    BY <1>4 DEF ClientReads
  <2> QED
    BY <1>1, <2>1 DEF TypeInv, TypeOK, BuffersFit, proxyVars, peerVars, histVars
<1> QED
  BY <1>2, <1>3, <1>4

(* Whatever an origin replies to a command is a sequence of tokens.        *)
LEMMA RepliesType ==
  ASSUME NEW cmd \in Command
  PROVE  Replies(cmd) \subseteq Seq(Token)
<1>1. cmd.id \in Id
  BY DEF Command
<1>2. \A part \in Part : << [id |-> cmd.id, part |-> part] >> \in Seq(Token)
  BY <1>1 DEF Token
<1>3. \A n \in Nat : Lines(cmd.id, n) \in Seq(Token)
  <2> SUFFICES ASSUME NEW n \in Nat
               PROVE  Lines(cmd.id, n) \in Seq(Token)
    OBVIOUS
  <2>1. [id |-> cmd.id, part |-> "item"] \in Token
    BY <1>1 DEF Token, Part
  <2>2. Lines(cmd.id, n) \in [1 .. n -> Token]
    BY <2>1 DEF Lines
  <2> QED
    BY <2>2, SeqDef
<1>4. {"err", "ok", "end"} \subseteq Part
  BY DEF Part
<1>5. ASSUME NEW n \in MinLines .. MaxLines
      PROVE  << [id |-> cmd.id, part |-> "ok"] >> \o Lines(cmd.id, n)
               \o << [id |-> cmd.id, part |-> "end"] >> \in Seq(Token)
  <2>1. n \in Nat
    BY SessionAssumption
  <2>2. << [id |-> cmd.id, part |-> "ok"] >> \o Lines(cmd.id, n) \in Seq(Token)
    BY <1>2, <1>3, <1>4, <2>1, ConcatProperties
  <2> QED
    BY <1>2, <1>4, <2>2, ConcatProperties
<1> QED
  BY <1>2, <1>4, <1>5 DEF Replies

LEMMA OriginType ==
  ASSUME TypeInv, OriginStep \/ OriginFails
  PROVE  TypeInv'
<1>1. /\ TypeOK /\ reply \in Seq(Token) /\ s2p \in Seq(Token) /\ said \in Seq(Token)
      /\ p2s \in Seq(Command) /\ << >> \in Seq(Token) /\ << >> \in Seq(Command)
      /\ edges \union {"server"} \subseteq {"client", "server", "filterIn", "filterOut"}
  BY EmptySeq DEF TypeInv, TypeOK
<1>2. CASE OriginAccepts
  <2>1. origin' = "up" /\ edges' = edges \union {"server"} /\
        UNCHANGED << proxyVars, c2p, s2p, p2s, unread, asked, clientEof, reply, filter, histVars >>
    BY <1>2 DEF OriginAccepts
  <2> QED
    BY <1>1, <2>1 DEF TypeInv, TypeOK, BuffersFit, proxyVars, histVars
<1>3. CASE OriginServes
  <2>1. p2s # << >> /\ reply' \in Replies(Head(p2s)) /\ p2s' = Tail(p2s)
    BY <1>3 DEF OriginServes
  <2>2. Head(p2s) \in Command /\ p2s' \in Seq(Command)
    BY <1>1, <2>1, HeadTailProperties
  <2>3. reply' \in Seq(Token)
    BY <2>1, <2>2, RepliesType
  <2>4. UNCHANGED << proxyVars, edges, c2p, s2p, unread, asked, clientEof, origin, filter, histVars >>
    BY <1>3 DEF OriginServes
  <2> QED
    BY <2>2, <2>3, <2>4 DEF TypeInv, TypeOK, BuffersFit, proxyVars, histVars
<1>4. CASE OriginSays
  <2>1. /\ reply # << >> /\ s2p' = Append(s2p, Head(reply)) /\ said' = Append(said, Head(reply))
        /\ reply' = Tail(reply) /\ origin' \in {"eof", "up"}
        /\ edges' = edges \union {"server"}
    BY <1>4 DEF OriginSays
  <2>2. Head(reply) \in Token /\ reply' \in Seq(Token)
    BY <1>1, <2>1, HeadTailProperties
  <2>3. s2p' \in Seq(Token) /\ said' \in Seq(Token)
    BY <1>1, <2>1, <2>2
  <2>4. UNCHANGED << proxyVars, c2p, p2s, unread, asked, clientEof, filter, told, sent, freed >>
    BY <1>4 DEF OriginSays
  <2> QED
    BY <1>1, <2>1, <2>2, <2>3, <2>4 DEF TypeInv, TypeOK, BuffersFit, proxyVars
<1>5. CASE OriginFails
  <2>1. /\ origin' \in {"refused", "eof", "reset"} /\ reply' = << >> /\ p2s' = << >>
        /\ edges' = edges \union {"server"}
    BY <1>5 DEF OriginFails
  <2>2. UNCHANGED << proxyVars, c2p, s2p, unread, asked, clientEof, filter, histVars >>
    BY <1>5 DEF OriginFails
  <2> QED
    BY <1>1, <2>1, <2>2 DEF TypeInv, TypeOK, BuffersFit, proxyVars, histVars, Connecting
<1> QED
  BY <1>2, <1>3, <1>4, <1>5 DEF OriginStep

LEMMA FilterType ==
  ASSUME TypeInv, FilterReads \/ FilterWrites \/ FilterExits
  PROVE  TypeInv'
<1> DEFINE FilterT == [id : Id, mode : {"none", "pipe", "command", "exited"},
                       in : Seq(Token), held : Seq(Token), out : Seq(Token)]
<1>1. /\ TypeOK /\ filter \in FilterT /\ << >> \in Seq(Token)
      /\ filter.in \in Seq(Token) /\ filter.held \in Seq(Token) /\ filter.out \in Seq(Token)
      /\ edges \union {"filterIn", "filterOut"} \subseteq {"client", "server", "filterIn", "filterOut"}
  BY EmptySeq DEF TypeInv, TypeOK
<1>2. filter' \in FilterT
  <2>1. CASE FilterReads
    <3>1. Head(filter.in) \in Token /\ Tail(filter.in) \in Seq(Token)
      BY <1>1, <2>1, HeadTailProperties DEF FilterReads
    <3>2. Append(filter.held, Head(filter.in)) \in Seq(Token)
      BY <1>1, <3>1
    <3> QED
      BY <1>1, <2>1, <3>1, <3>2 DEF FilterReads
  <2>2. CASE FilterWrites
    <3>1. filter.out \o filter.held \in Seq(Token)
      BY <1>1, ConcatProperties
    <3> QED
      BY <1>1, <2>2, <3>1 DEF FilterWrites
  <2>3. CASE FilterExits
    BY <1>1, <2>3 DEF FilterExits
  <2> QED
    BY <2>1, <2>2, <2>3
<1>3. edges' \subseteq {"client", "server", "filterIn", "filterOut"}
  BY <1>1 DEF FilterReads, FilterWrites, FilterExits
<1>4. UNCHANGED << proxyVars, c2p, s2p, p2s, unread, asked, clientEof, origin, reply, histVars >>
  BY DEF FilterReads, FilterWrites, FilterExits
<1> QED
  BY <1>2, <1>3, <1>4 DEF TypeInv, TypeOK, BuffersFit, proxyVars, histVars

LEMMA InitType == Init => TypeInv
<1> SUFFICES ASSUME Init PROVE TypeInv
  OBVIOUS
<1>1. 0 \in Id /\ {"ok", "err"} \subseteq Part /\ BufSize \in Nat
  BY SessionAssumption DEF Id, Part
<1>2. << [id |-> 0, kind |-> "GREETING"] >> \in Seq(Command)
  BY <1>1 DEF Command
<1>3. reply \in Seq(Token)
  <2>1. PICK greeting \in {"ok", "err"} : reply = << [id |-> 0, part |-> greeting] >>
    BY DEF Init
  <2> QED
    BY <1>1, <2>1 DEF Token
<1>4. /\ << >> \in Seq(Token) /\ << >> \in Seq(Command) /\ << >> \in Seq(Id)
      /\ Len(<< >>) = 0
  BY EmptySeq
<1>5. response \in [state : ReplyState, buf : Seq(Token), out : Seq(Token), held : Leftover(Id)]
  <2>1. << >> \in Leftover(Id)
    BY Zenon DEF Leftover
  <2> QED
    BY <1>4, <2>1 DEF Init, ReplyState
<1>6. filter \in [id : Id, mode : {"none", "pipe", "command", "exited"},
                  in : Seq(Token), held : Seq(Token), out : Seq(Token)]
  BY <1>1, <1>4 DEF Init, NoFilter
<1>7. Len(request) <= BufSize /\ Len(response.buf) <= BufSize
  BY <1>1, <1>4 DEF Init
<1>8. advanced \in BOOLEAN /\ pending \in BOOLEAN /\ clientEof \in BOOLEAN
  <2>1. advanced = FALSE /\ pending = TRUE /\ clientEof = FALSE
    BY Zenon DEF Init
  <2> QED
    BY <2>1, Zenon
<1>9. /\ active \subseteq Segment /\ ready \subseteq Flag /\ at \in 1 .. 7
      /\ stuffing \in {"fresh", "begin"} /\ unread \in Nat
      /\ edges \subseteq {"client", "server", "filterIn", "filterOut"}
      /\ origin \in Connecting \union {"up", "eof", "reset", "closed"}
  BY DEF Init, StuffingReset, Connecting, Segment, CS_CLIENT
<1>10. /\ queue \in Seq(Command) /\ request \in Seq(Command) /\ c2p \in Seq(Command)
       /\ p2s \in Seq(Command) /\ asked \in Seq(Command)
       /\ s2p \in Seq(Token) /\ said \in Seq(Token) /\ told \in Seq(Token)
       /\ sent \in Seq(Id) /\ freed \subseteq Id
  BY <1>2, <1>4 DEF Init
<1> QED
  BY <1>3, <1>5, <1>6, <1>7, <1>8, <1>9, <1>10 DEF TypeInv, TypeOK, BuffersFit

(* A session's state always has the type TypeOK gives it, and no buffer    *)
(* holds more than its size.                                               *)
THEOREM TypeCorrect == Spec => [](TypeOK /\ BuffersFit)
<1>1. Init => TypeInv
  BY InitType
<1>2. TypeInv /\ [Next]_vars => TypeInv'
  <2> SUFFICES ASSUME TypeInv, [Next]_vars
               PROVE  TypeInv'
    OBVIOUS
  <2>1. CASE UNCHANGED vars
    BY <2>1 DEF TypeInv, TypeOK, BuffersFit, vars, proxyVars, netVars, peerVars, histVars
  <2>2. CASE Poll
    BY <2>2, PollType
  <2>3. CASE ProcessClient
    BY <2>3, ConnectType, FeedType, RespondInvalidType, RespondWaitsType, RespondType,
       RespondQuitType, RespondRetrieveType, DrainType, TakeCommandType, TakeNothingType,
       SendType, FinishType DEF ProcessClient
  <2>4. CASE ClientSends \/ ClientCloses \/ ClientReads
    BY <2>4, ClientType
  <2>5. CASE OriginStep \/ OriginFails
    BY <2>5, OriginType
  <2>6. CASE FilterReads \/ FilterWrites \/ FilterExits
    BY <2>6, FilterType
  <2> QED
    BY <2>1, <2>2, <2>3, <2>4, <2>5, <2>6 DEF Next, Proxy
<1> QED
  BY <1>1, <1>2, PTL DEF Spec, TypeInv

-----------------------------------------------------------------------------
(* Closing.                                                                *)

(* closeClient and its recursion, on segments that may be open together:   *)
(* nothing new opens, without CLIENT_IN nothing stays, and without         *)
(* SERVER_OUT no SERVER_IN.                                                *)
LEMMA ClosingSegments ==
  ASSUME NEW act \in SUBSET Segment, NEW level \in SUBSET Segment,
         act # {} => "CLIENT_IN" \in act,
         "SERVER_IN" \in act => "SERVER_OUT" \in act
  PROVE  LET rest == ActiveAfter(act, level) IN
         /\ rest \subseteq act
         /\ rest # {} => "CLIENT_IN" \in rest
         /\ "SERVER_IN" \in rest => "SERVER_OUT" \in rest
<1> DEFINE first  == level \intersect act
           act1   == act \ first
           second == FollowUp(first) \intersect act1
           act2   == act1 \ second
           third  == FollowUp(second) \intersect act2
           rest   == ActiveAfter(act, level)
<1>1. rest = act2 \ third
  BY DEF ActiveAfter
<1>2. CASE "CLIENT_IN" \in first
  <2>1. FollowUp(first) = {"CLIENT_OUT"} \union CS_SERVER \union CS_FILTER
    BY <1>2 DEF FollowUp
  <2>2. act2 = {}
    BY <1>2, <2>1 DEF Segment, CS_CLIENT
  <2> QED
    BY <1>1, <2>2
<1>3. CASE "CLIENT_IN" \notin first /\ "SERVER_OUT" \in first
  <2>1. FollowUp(first) = {"SERVER_IN"}
    BY <1>3 DEF FollowUp
  <2>2. FollowUp(second) = {}
    BY <2>1 DEF FollowUp
  <2>3. rest = act1 \ {"SERVER_IN"}
    BY <1>1, <2>1, <2>2
  <2> QED
    BY <1>3, <2>3
<1>4. CASE "CLIENT_IN" \notin first /\ "SERVER_OUT" \notin first
  <2>1. FollowUp(first) = {}
    BY <1>4 DEF FollowUp
  <2>2. FollowUp(second) = {}
    BY <2>1 DEF FollowUp
  <2>3. rest = act1
    BY <1>1, <2>1, <2>2
  <2> QED
    BY <1>4, <2>3
<1> QED
  BY <1>2, <1>3, <1>4

ClosingInv == Alive /\ ClosedTogether

(* A block that closes part of the session, or goes on with it.            *)
LEMMA CloseClientCloses ==
  ASSUME TypeInv, ClosingInv, NEW level \in SUBSET Segment, NEW flags,
         CloseClient(level, flags)
  PROVE  ClosingInv'
<1>1. /\ active \in SUBSET Segment
      /\ active # {} => "CLIENT_IN" \in active
      /\ "SERVER_IN" \in active => "SERVER_OUT" \in active
  BY DEF TypeInv, TypeOK, ClosingInv, ClosedTogether
<1>2. active' = ActiveAfter(active, level) /\ at' = 7
  BY DEF CloseClient
<1>3. /\ active' # {} => "CLIENT_IN" \in active'
      /\ "SERVER_IN" \in active' => "SERVER_OUT" \in active'
  BY <1>1, <1>2, ClosingSegments, Zenon
<1>4. ~(at' <= 6)
  BY <1>2
<1> QED
  BY <1>3, <1>4 DEF ClosingInv, Alive, ClosedTogether

LEMMA GoesOnKeeps ==
  ASSUME ClosingInv, NEW k \in 1 .. 6, NEW flags, at <= 6, GoesOn(k, flags)
  PROVE  ClosingInv'
BY DEF ClosingInv, Alive, ClosedTogether, GoesOn

LEMMA ProcessClientCloses ==
  ASSUME TypeInv, ClosingInv, ProcessClient
  PROVE  ClosingInv'
<1>1. /\ {"FILTER_IN"} \in SUBSET Segment /\ {"FILTER_OUT"} \in SUBSET Segment
      /\ {"SERVER_OUT"} \in SUBSET Segment /\ {"SERVER_IN"} \in SUBSET Segment
      /\ {"CLIENT_OUT"} \in SUBSET Segment /\ CS_CLIENT \in SUBSET Segment
      /\ CS_CLIENT \union CS_SERVER \in SUBSET Segment
      /\ CS_SERVER \union CS_CLIENT \in SUBSET Segment
  BY DEF Segment, CS_CLIENT, CS_SERVER, CS_FILTER
<1>2. at \in 1 .. 7 /\ (at <= 6 => active # {} /\ "CLIENT_IN" \in active)
  BY DEF TypeInv, TypeOK, ClosingInv, Alive, ClosedTogether
<1>3. \A k \in 1 .. 6 : Reaches(k) => at <= 6
  BY <1>2, Reached
<1>4. CASE Connect
  <2>1. CASE CloseClient(CS_CLIENT, ready)
    BY <1>1, <2>1, CloseClientCloses, Zenon
  <2>2. CASE active' = active \union CS_SERVER /\ at' = 2
    <3>1. "CLIENT_IN" \in active'
      BY <1>2, <1>3, <1>4, <2>2 DEF Connect
    <3>2. "SERVER_OUT" \in active'
      BY <2>2 DEF CS_SERVER
    <3> QED
      BY <3>1, <3>2 DEF ClosingInv, Alive, ClosedTogether
  <2> QED
    BY <1>4, <2>1, <2>2 DEF Connect
<1>5. CASE Feed
  <2>1. PICK flags : CloseClient({"FILTER_IN"}, flags) \/ GoesOn(2, flags)
    BY <1>5, Zenon DEF Feed
  <2>2. at <= 6 /\ 2 \in 1 .. 6
    BY <1>3, <1>5 DEF Feed
  <2> QED
    BY <1>1, <2>1, <2>2, CloseClientCloses, GoesOnKeeps, Zenon
<1>6. CASE RespondInvalid \/ RespondWaits \/ Respond
  <2>1. PICK flags : CloseClient({"SERVER_OUT"}, flags) \/ GoesOn(2, flags)
    BY <1>6, Zenon DEF RespondInvalid, RespondWaits, Respond
  <2>2. at <= 6 /\ 2 \in 1 .. 6
    BY <1>3, <1>6 DEF RespondInvalid, RespondWaits, Respond, RespondDone, Responding
  <2> QED
    BY <1>1, <2>1, <2>2, CloseClientCloses, GoesOnKeeps, Zenon
<1>7. CASE RespondQuit
  BY <1>1, <1>7, CloseClientCloses, Zenon DEF RespondQuit
<1>8. CASE RespondRetrieve
  <2>1. active' = active \union CS_FILTER /\ at' = 3 /\ Responding
    BY <1>8 DEF RespondRetrieve, RespondDone
  <2>2. {"SERVER_OUT", "CLIENT_IN"} \subseteq active
    BY <2>1, Reached
  <2> QED
    BY <2>1, <2>2 DEF ClosingInv, Alive, ClosedTogether
<1>9. CASE Drain
  <2>1. PICK flags : CloseClient({"FILTER_OUT"}, flags) \/ GoesOn(3, flags)
    BY <1>9, Zenon DEF Drain
  <2>2. at <= 6 /\ 3 \in 1 .. 6
    BY <1>3, <1>9 DEF Drain
  <2> QED
    BY <1>1, <2>1, <2>2, CloseClientCloses, GoesOnKeeps, Zenon
<1>10. CASE TakeCommand \/ TakeNothing
  <2>1. PICK flags : CloseClient({"CLIENT_OUT"}, flags) \/ GoesOn(4, flags)
    BY <1>10, Zenon DEF TakeCommand, TakeNothing
  <2>2. at <= 6 /\ 4 \in 1 .. 6
    BY <1>3, <1>10 DEF TakeCommand, TakeNothing
  <2> QED
    BY <1>1, <2>1, <2>2, CloseClientCloses, GoesOnKeeps, Zenon
<1>11. CASE SendNothing \/ SendFails
  <2>1. PICK flags : CloseClient({"SERVER_IN"}, flags) \/ GoesOn(5, flags)
    BY <1>11, Zenon DEF SendNothing, SendFails
  <2>2. at <= 6 /\ 5 \in 1 .. 6
    BY <1>3, <1>11 DEF SendNothing, SendFails
  <2> QED
    BY <1>1, <2>1, <2>2, CloseClientCloses, GoesOnKeeps, Zenon
<1>12. CASE SendCommand
  <2>1. active' = active /\ at <= 6
    BY <1>3, <1>12 DEF SendCommand
  <2> QED
    BY <2>1 DEF ClosingInv, Alive, ClosedTogether
<1>13. CASE Finish
  BY <1>1, <1>13, CloseClientCloses, Zenon DEF Finish
<1> QED
  BY <1>4, <1>5, <1>6, <1>7, <1>8, <1>9, <1>10, <1>11, <1>12, <1>13 DEF ProcessClient

(* The steps that are not blocks of processClient: a poll wakes only a     *)
(* session that is there, and a peer changes nothing of the proxy's.       *)
Peers ==
  \/ ClientSends \/ ClientCloses \/ ClientReads
  \/ OriginStep \/ OriginFails
  \/ FilterReads \/ FilterWrites \/ FilterExits

LEMMA PeersLeaveProxy == Peers => UNCHANGED proxyVars
<1>1. ClientSends \/ ClientCloses \/ ClientReads => UNCHANGED proxyVars
  BY DEF ClientSends, ClientCloses, ClientReads
<1>2. OriginStep \/ OriginFails => UNCHANGED proxyVars
  BY DEF OriginStep, OriginAccepts, OriginServes, OriginSays, OriginFails
<1>3. FilterReads \/ FilterWrites \/ FilterExits => UNCHANGED proxyVars
  BY DEF FilterReads, FilterWrites, FilterExits
<1> QED
  BY <1>1, <1>2, <1>3 DEF Peers

LEMMA ClosingStep == TypeInv /\ ClosingInv /\ [Next]_vars => ClosingInv'
<1> SUFFICES ASSUME TypeInv, ClosingInv, [Next]_vars
             PROVE  ClosingInv'
  OBVIOUS
<1>1. CASE Poll
  BY <1>1 DEF Poll, ClosingInv, Alive, ClosedTogether
<1>2. CASE ProcessClient
  BY <1>2, ProcessClientCloses
<1>3. CASE Peers \/ UNCHANGED vars
  <2>1. UNCHANGED proxyVars
    BY <1>3, PeersLeaveProxy DEF vars
  <2> QED
    BY <2>1 DEF ClosingInv, Alive, ClosedTogether, proxyVars
<1> QED
  BY <1>1, <1>2, <1>3 DEF Next, Proxy, Peers

LEMMA ClosingInit == Init => ClosingInv
BY DEF Init, ClosingInv, Alive, ClosedTogether, CS_CLIENT

(* Whatever fails first and in whatever order the halves of a session      *)
(* close, it is never left without its client, nor written to an origin    *)
(* that is no longer read (closeClient, server.c).                         *)
THEOREM ClosesTogether == Spec => []ClosedTogether
<1>1. Spec => []TypeInv
  BY TypeCorrect DEF TypeInv
<1>2. TypeInv /\ ClosingInv /\ [Next]_vars => ClosingInv'
  BY ClosingStep
<1>3. Init => ClosingInv
  BY ClosingInit
<1>4. ClosingInv => ClosedTogether
  BY DEF ClosingInv
<1> QED
  BY <1>1, <1>2, <1>3, <1>4, PTL DEF Spec

(* Once its memory is freed no block runs on a session again.              *)
THEOREM NeverTouchedAgain == Spec => ReleasedForGood
<1>1. Spec => []TypeInv
  BY TypeCorrect DEF TypeInv
<1>2. TypeInv /\ ClosingInv /\ [Next]_vars => ClosingInv'
  BY ClosingStep
<1>3. Init => ClosingInv
  BY ClosingInit
<1>4. TypeInv /\ ClosingInv /\ [Next]_vars
        => [active = {} => UNCHANGED proxyVars]_vars
  <2> SUFFICES ASSUME TypeInv, ClosingInv, Next, active = {}
               PROVE  UNCHANGED proxyVars
    OBVIOUS
  <2>1. ~Poll
    BY DEF Poll
  <2>2. ~ProcessClient
    <3>1. at = 7
      BY DEF TypeInv, TypeOK, ClosingInv, Alive
    <3>2. /\ ~Reaches(1) /\ ~Reaches(2) /\ ~Reaches(3)
          /\ ~Reaches(4) /\ ~Reaches(5) /\ ~Reaches(6)
      BY <3>1, Reached
    <3> QED
      BY <3>2, Zenon DEF ProcessClient, Connect, Feed, RespondInvalid, RespondWaits, Respond,
         RespondQuit, RespondRetrieve, RespondDone, Responding, Drain, TakeCommand,
         TakeNothing, SendNothing, SendCommand, SendFails, Finish
  <2> QED
    BY <2>1, <2>2, PeersLeaveProxy DEF Next, Proxy, Peers
<1> QED
  BY <1>1, <1>2, <1>3, <1>4, PTL DEF Spec, ReleasedForGood

-----------------------------------------------------------------------------
(* Session implements SessionLife: what the server loop takes a session to *)
(* be is what processClient makes of one.                                  *)

(* What the server loop sees of a step.                                    *)
LifeStep ==
  active' \in OriginTaken(active) \union OriginRefused(active)
                \union FilterTaken(active) \union Closings(active)

(* The segments of SessionLife are those of Session.                       *)
LEMMA SameSegments ==
  /\ LifeStep => Life!Next
  /\ Life!CS_CLIENT = CS_CLIENT
<1>1. Life!CS_CLIENT = CS_CLIENT /\ Life!CS_SERVER = CS_SERVER /\ Life!CS_FILTER = CS_FILTER
  BY DEF CS_CLIENT, CS_SERVER, CS_FILTER, Life!CS_CLIENT, Life!CS_SERVER, Life!CS_FILTER
<1>2. \A l : Life!FollowUp(l) = FollowUp(l)
  BY <1>1, Zenon DEF FollowUp, Life!FollowUp
<1>3. \A act, level : Life!ActiveAfter(act, level) = ActiveAfter(act, level)
  BY <1>2, Zenon DEF ActiveAfter, Life!ActiveAfter
<1>4. Life!ClosingCalls = ClosingCalls
  BY <1>1, Zenon DEF ClosingCalls, Life!ClosingCalls
<1>5. Life!Closings(active) = Closings(active)
  BY <1>3, <1>4, Zenon DEF Closings, Life!Closings
<1>6. Life!Unconnected(active) = Unconnected(active)
  BY <1>1, Zenon DEF Unconnected, Life!Unconnected
<1>7. /\ Life!OriginTaken(active) = OriginTaken(active)
      /\ Life!OriginRefused(active) = OriginRefused(active)
  BY <1>1, <1>3, <1>6, Zenon DEF OriginTaken, OriginRefused, Life!OriginTaken, Life!OriginRefused
<1>8. Life!FilterTaken(active) = FilterTaken(active)
  BY <1>1, Zenon DEF FilterTaken, Life!FilterTaken
<1> QED
  BY <1>1, <1>5, <1>7, <1>8, Zenon DEF LifeStep, Life!Next

(* A block that closes segments does so with one of the calls SessionLife  *)
(* knows.                                                                  *)
LEMMA ClosesAsListed ==
  ASSUME NEW call \in ClosingCalls, NEW flags,
         call.needs \subseteq active, call.without \intersect active = {},
         CloseClient(call.level, flags)
  PROVE  LifeStep
<1>1. active' = ActiveAfter(active, call.level)
  BY DEF CloseClient
<1>2. active' \in Closings(active)
  BY <1>1 DEF Closings
<1> QED
  BY <1>2 DEF LifeStep

LEMMA ConnectInLife ==
  ASSUME TypeInv, ClosingInv, Connect
  PROVE  LifeStep
<1>1. at \in 1 .. 7 /\ (at <= 6 => active # {})
  BY DEF TypeInv, TypeOK, ClosingInv, Alive
<1>2. active # {} /\ active \intersect CS_SERVER = {}
  <2>1. Reaches(1) /\ at <= 1
    BY Reached DEF Connect
  <2>2. active \intersect CS_SERVER = {}
    BY <2>1 DEF Reaches, BlockEnabled, ConnectEnabled
  <2> QED
    BY <1>1, <2>1, <2>2
<1>3. CASE CloseClient(CS_CLIENT, ready)
  BY <1>2, <1>3 DEF CloseClient, LifeStep, OriginRefused, Unconnected
<1>4. CASE active' = active \union CS_SERVER
  BY <1>2, <1>4 DEF LifeStep, OriginTaken, Unconnected
<1> QED
  BY <1>3, <1>4 DEF Connect

LEMMA RespondInLife ==
  ASSUME RespondInvalid \/ RespondWaits \/ Respond \/ RespondQuit \/ RespondRetrieve
  PROVE  LifeStep \/ active' = active
<1>1. {"SERVER_OUT", "CLIENT_IN"} \subseteq active /\ "FILTER_IN" \notin active
  BY Reached DEF RespondInvalid, RespondWaits, Respond, RespondQuit, RespondRetrieve, RespondDone,
     Responding, Feeding
<1>2. CASE RespondInvalid \/ Respond \/ (RespondWaits /\ ~CheckEOF(ServerRead.count))
  BY <1>2 DEF RespondInvalid, Respond, RespondWaits, GoesOn
<1>3. CASE RespondWaits /\ CheckEOF(ServerRead.count)
  <2>1. CloseClient({"SERVER_OUT"}, ready)
    BY <1>3 DEF RespondWaits
  <2> DEFINE call == [level |-> {"SERVER_OUT"}, needs |-> {"SERVER_OUT", "CLIENT_IN"},
                      without |-> {"FILTER_IN"}]
  <2>2. call \in ClosingCalls
    BY DEF ClosingCalls
  <2> QED
    BY <1>1, <2>1, <2>2, ClosesAsListed
<1>4. CASE RespondQuit
  <2>1. CloseClient(CS_CLIENT \union CS_SERVER, ready)
    BY <1>4 DEF RespondQuit
  <2> DEFINE call == [level |-> CS_CLIENT \union CS_SERVER, needs |-> {"SERVER_OUT", "CLIENT_IN"},
                      without |-> {"FILTER_IN"}]
  <2>2. call \in ClosingCalls
    BY DEF ClosingCalls
  <2> QED
    BY <1>1, <2>1, <2>2, ClosesAsListed
<1>5. CASE RespondRetrieve
  <2>1. active' = active \union CS_FILTER
    BY <1>5 DEF RespondRetrieve
  <2> QED
    BY <1>1, <2>1 DEF LifeStep, FilterTaken
<1> QED
  BY <1>2, <1>3, <1>4, <1>5

LEMMA OthersInLife ==
  ASSUME Feed \/ Drain \/ TakeCommand \/ TakeNothing \/ SendNothing \/ SendCommand \/ SendFails \/ Finish,
         TypeInv, ClosingInv
  PROVE  LifeStep \/ active' = active
<1>1. CASE Feed
  <2>1. PICK flags : CloseClient({"FILTER_IN"}, flags) \/ GoesOn(2, flags)
    BY <1>1, Zenon DEF Feed
  <2>2. {"SERVER_OUT", "FILTER_IN"} \subseteq active
    BY <1>1 DEF Feed, Feeding
  <2> DEFINE call == [level |-> {"FILTER_IN"}, needs |-> {"SERVER_OUT", "FILTER_IN"}, without |-> {}]
  <2>3. call \in ClosingCalls
    BY DEF ClosingCalls
  <2>4. CASE CloseClient({"FILTER_IN"}, flags)
    BY <2>2, <2>3, <2>4, ClosesAsListed
  <2> QED
    BY <2>1, <2>4 DEF GoesOn
<1>2. CASE Drain
  <2>1. PICK flags : CloseClient({"FILTER_OUT"}, flags) \/ GoesOn(3, flags)
    BY <1>2, Zenon DEF Drain
  <2>2. {"FILTER_OUT", "CLIENT_IN"} \subseteq active
    BY <1>2, Reached DEF Drain
  <2> DEFINE call == [level |-> {"FILTER_OUT"}, needs |-> {"FILTER_OUT", "CLIENT_IN"}, without |-> {}]
  <2>3. call \in ClosingCalls
    BY DEF ClosingCalls
  <2>4. CASE CloseClient({"FILTER_OUT"}, flags)
    BY <2>2, <2>3, <2>4, ClosesAsListed
  <2> QED
    BY <2>1, <2>4 DEF GoesOn
<1>3. CASE TakeCommand \/ TakeNothing
  <2>1. PICK flags : CloseClient({"CLIENT_OUT"}, flags) \/ GoesOn(4, flags)
    BY <1>3, Zenon DEF TakeCommand, TakeNothing
  <2>2. {"CLIENT_OUT", "SERVER_IN"} \subseteq active
    <3>1. Reaches(4)
      BY <1>3 DEF TakeCommand, TakeNothing
    <3> QED
      BY <3>1 DEF Reaches, BlockEnabled, CommandEnabled
  <2> DEFINE call == [level |-> {"CLIENT_OUT"}, needs |-> {"CLIENT_OUT", "SERVER_IN"}, without |-> {}]
  <2>3. call \in ClosingCalls
    BY DEF ClosingCalls
  <2>4. CASE CloseClient({"CLIENT_OUT"}, flags)
    BY <2>2, <2>3, <2>4, ClosesAsListed
  <2> QED
    BY <2>1, <2>4 DEF GoesOn
<1>4. CASE SendNothing \/ SendCommand
  BY <1>4 DEF SendNothing, SendCommand, GoesOn
<1>5. CASE SendFails
  <2>1. CloseClient({"SERVER_IN"}, ready) /\ "SERVER_IN" \in active
    BY <1>5, Reached DEF SendFails
  <2> DEFINE call == [level |-> {"SERVER_IN"}, needs |-> {"SERVER_IN"}, without |-> {}]
  <2>2. call \in ClosingCalls
    BY DEF ClosingCalls
  <2> QED
    BY <2>1, <2>2, ClosesAsListed
<1>6. CASE Finish
  <2>1. CloseClient(CS_SERVER \union CS_CLIENT, ready) /\ "CLIENT_OUT" \notin active /\ at <= 6
    BY <1>6, Reached DEF Finish, Reaches, BlockEnabled, FinishEnabled
  <2>2. "CLIENT_IN" \in active
    BY <2>1 DEF ClosingInv, Alive, ClosedTogether
  <2> DEFINE call == [level |-> CS_CLIENT \union CS_SERVER, needs |-> {"CLIENT_IN"},
                      without |-> {"CLIENT_OUT"}]
  <2>3. call \in ClosingCalls
    BY DEF ClosingCalls
  <2>4. CS_SERVER \union CS_CLIENT = CS_CLIENT \union CS_SERVER
    OBVIOUS
  <2> QED
    BY <2>1, <2>2, <2>3, <2>4, ClosesAsListed
<1> QED
  BY <1>1, <1>2, <1>3, <1>4, <1>5, <1>6

LEMMA StepsInLife ==
  ASSUME TypeInv, ClosingInv, [Next]_vars
  PROVE  Life!Next \/ active' = active
<1>1. CASE Connect
  BY <1>1, ConnectInLife, SameSegments
<1>2. CASE RespondInvalid \/ RespondWaits \/ Respond \/ RespondQuit \/ RespondRetrieve
  BY <1>2, RespondInLife, SameSegments
<1>3. CASE Feed \/ Drain \/ TakeCommand \/ TakeNothing \/ SendNothing \/ SendCommand \/ SendFails \/ Finish
  BY <1>3, OthersInLife, SameSegments
<1>4. CASE Poll
  BY <1>4 DEF Poll
<1>5. CASE Peers \/ UNCHANGED vars
  BY <1>5, PeersLeaveProxy DEF vars, proxyVars
<1> QED
  BY <1>1, <1>2, <1>3, <1>4, <1>5 DEF Next, Proxy, ProcessClient, Peers

(* Whatever its client, its origin and its filter do, a session opens and  *)
(* closes its segments as SessionLife has it, and once it is gone it stays *)
(* gone: Server's sessions are what processClient makes of them.           *)
THEOREM LivesAsPromised == Spec => ImplementsLife
<1>1. Init => ClosingInv
  BY ClosingInit
<1>2. Init => active = Life!CS_CLIENT
  BY SameSegments DEF Init
<1>3. Spec => []TypeInv
  BY TypeCorrect DEF TypeInv
<1>4. TypeInv /\ ClosingInv /\ [Next]_vars => ClosingInv'
  BY ClosingStep
<1>5. TypeInv /\ ClosingInv /\ [Next]_vars => [Life!Next]_active
  BY StepsInLife
<1> QED
  BY <1>1, <1>2, <1>3, <1>4, <1>5, PTL DEF Spec, ImplementsLife, Life!Spec, Life!Init

-----------------------------------------------------------------------------
(* Where commands come from: what the proxy and the origin hold is the     *)
(* greeting or what the client asked, under its number.                    *)
Known == {[id |-> 0, kind |-> "GREETING"]} \union {asked[i] : i \in 1 .. Len(asked)}

KnownInv ==
  /\ queue \in Seq(Known) /\ request \in Seq(Known) /\ c2p \in Seq(Known) /\ p2s \in Seq(Known)
  /\ \A i \in 1 .. Len(asked) : asked[i].id = i /\ asked[i].kind \in Kinds

LEMMA KnownInit == Init => KnownInv
<1> SUFFICES ASSUME Init PROVE KnownInv
  OBVIOUS
<1>1. /\ queue = << [id |-> 0, kind |-> "GREETING"] >> /\ request = << >>
      /\ c2p = << >> /\ p2s = << >> /\ asked = << >>
  BY DEF Init
<1>2. [id |-> 0, kind |-> "GREETING"] \in Known
  BY DEF Known
<1>3. queue \in Seq(Known)
  BY <1>1, <1>2
<1>4. << >> \in Seq(Known) /\ Len(<< >>) = 0
  BY EmptySeq
<1> QED
  BY <1>1, <1>3, <1>4 DEF KnownInv

(* The client sends: what was known stays known.                           *)
LEMMA KnownGrows ==
  ASSUME TypeInv, KnownInv, ClientSends
  PROVE  KnownInv'
<1>1. /\ asked \in Seq(Command) /\ c2p \in Seq(Known) /\ Len(asked) \in Nat
      /\ queue \in Seq(Known) /\ request \in Seq(Known) /\ p2s \in Seq(Known)
  BY LenProperties DEF TypeInv, TypeOK, KnownInv
<1>2. PICK kind \in Kinds :
        /\ asked' = Append(asked, [id |-> Len(asked) + 1, kind |-> kind])
        /\ c2p' = Append(c2p, [id |-> Len(asked) + 1, kind |-> kind])
  BY DEF ClientSends
<1> DEFINE cmd == [id |-> Len(asked) + 1, kind |-> kind]
<1>3. cmd \in Command
  <2>1. Len(asked) < MaxCmds
    BY DEF ClientSends
  <2>2. Len(asked) + 1 \in Id
    BY <1>1, <2>1, SessionAssumption DEF Id
  <2> QED
    BY <2>2, SessionAssumption DEF Command
<1>4. cmd.id = Len(asked) + 1 /\ cmd.kind \in Kinds
  OBVIOUS
<1>5. asked' = Append(asked, cmd) /\ c2p' = Append(c2p, cmd)
  BY <1>2
<1> HIDE DEF cmd
<1>6. /\ Len(asked') = Len(asked) + 1 /\ asked'[Len(asked) + 1] = cmd
      /\ \A i \in 1 .. Len(asked) : asked'[i] = asked[i]
  BY <1>1, <1>3, <1>5, AppendProperties
<1>7. Known \subseteq Known' /\ cmd \in Known'
  <2>1. \A i \in 1 .. Len(asked) : i \in 1 .. Len(asked') /\ asked'[i] = asked[i]
    BY <1>1, <1>6
  <2>2. Len(asked) + 1 \in 1 .. Len(asked')
    BY <1>1, <1>6
  <2> QED
    BY <1>6, <2>1, <2>2 DEF Known
<1>8. /\ queue \in Seq(Known') /\ request \in Seq(Known') /\ p2s \in Seq(Known')
      /\ c2p \in Seq(Known')
  BY <1>1, <1>7, SeqMonotonic
<1>9. c2p' \in Seq(Known')
  BY <1>5, <1>7, <1>8, AppendProperties
<1>10. queue' = queue /\ request' = request /\ p2s' = p2s
  BY DEF ClientSends, proxyVars
<1>11. ASSUME NEW i \in 1 .. Len(asked')
       PROVE  asked'[i].id = i /\ asked'[i].kind \in Kinds
  <2>1. i \in 1 .. Len(asked) \/ i = Len(asked) + 1
    BY <1>1, <1>6
  <2> QED
    BY <1>4, <1>6, <2>1 DEF KnownInv
<1> QED
  BY <1>8, <1>9, <1>10, <1>11 DEF KnownInv

LEMMA KnownStep == TypeInv /\ KnownInv /\ [Next]_vars => KnownInv'
<1> SUFFICES ASSUME TypeInv, KnownInv, [Next]_vars
             PROVE  KnownInv'
  OBVIOUS
<1>1. /\ queue \in Seq(Known) /\ request \in Seq(Known)
      /\ c2p \in Seq(Known) /\ p2s \in Seq(Known)
  BY DEF KnownInv
<1>2. ASSUME asked' = asked, queue' \in Seq(Known), request' \in Seq(Known),
             c2p' \in Seq(Known), p2s' \in Seq(Known)
      PROVE  KnownInv'
  BY <1>2 DEF KnownInv, Known
<1>3. CASE ClientSends
  BY <1>3, KnownGrows
<1>4. CASE RespondInvalid \/ Respond \/ RespondQuit \/ RespondRetrieve
  <2>1. /\ queue # << >> /\ queue' = Tail(queue)
        /\ UNCHANGED << request, c2p, p2s, asked >>
    BY <1>4, Reached DEF RespondInvalid, Respond, RespondQuit, RespondRetrieve, RespondDone
  <2>2. queue' \in Seq(Known)
    BY <1>1, <2>1, HeadTailProperties
  <2> QED
    BY <1>1, <1>2, <2>1, <2>2
<1>5. CASE TakeCommand
  <2>1. /\ Requested # << >> /\ request' = Tail(Requested) /\ c2p' = ClientRead.left
        /\ queue' = Append(queue, Head(Requested)) /\ p2s' = p2s /\ asked' = asked
    BY <1>5 DEF TakeCommand, Unparsed
  <2> DEFINE room == BufSize - Len(request)
             over == IF clientEof THEN "eof" ELSE "again"
  <2>2. ClientRead = Read(c2p, room, over) /\ Requested = request \o ClientRead.got
    BY DEF ClientRead, Requested
  <2>3. room \in Nat
    <3>1. request \in Seq(Command) /\ Len(request) \in Nat /\ Len(request) <= BufSize
      BY LenProperties DEF TypeInv, TypeOK, BuffersFit
    <3> QED
      BY <3>1, SessionAssumption
  <2> HIDE DEF room, over
  <2>4. ClientRead.got \in Seq(Known) /\ ClientRead.left \in Seq(Known)
    BY <1>1, <2>2, <2>3, ReadType, Zenon
  <2>5. Requested \in Seq(Known)
    BY <1>1, <2>2, <2>4, ConcatProperties
  <2>6. Head(Requested) \in Known /\ Tail(Requested) \in Seq(Known)
    BY <2>1, <2>5, HeadTailProperties
  <2>7. queue' \in Seq(Known)
    BY <1>1, <2>1, <2>6, AppendProperties
  <2> QED
    BY <1>1, <1>2, <2>1, <2>4, <2>6, <2>7
<1>6. CASE SendCommand
  <2>1. /\ queue # << >> /\ p2s' \in {p2s, Append(p2s, Head(queue))}
        /\ UNCHANGED << queue, request, c2p, asked >>
    BY <1>6, Reached DEF SendCommand
  <2>2. Head(queue) \in Known
    BY <1>1, <2>1, HeadTailProperties
  <2>3. p2s' \in Seq(Known)
    <3>1. Append(p2s, Head(queue)) \in Seq(Known)
      BY <1>1, <2>2, AppendProperties, Zenon
    <3> QED
      BY <1>1, <2>1, <3>1
  <2> QED
    BY <1>1, <1>2, <2>1, <2>3
<1>7. CASE OriginServes \/ OriginFails
  <2>1. \/ p2s # << >> /\ p2s' = Tail(p2s)
        \/ p2s' = << >>
    BY <1>7 DEF OriginServes, OriginFails
  <2>2. p2s' \in Seq(Known)
    BY <1>1, <2>1, HeadTailProperties, EmptySeq
  <2>3. UNCHANGED << queue, request, c2p, asked >>
    BY <1>7 DEF OriginServes, OriginFails, proxyVars
  <2> QED
    BY <1>1, <1>2, <2>2, <2>3
<1>8. CASE Poll \/ Connect \/ Feed \/ RespondWaits \/ Drain \/ TakeNothing \/ SendNothing
           \/ SendFails \/ Finish \/ UNCHANGED vars
  <2>1. UNCHANGED << queue, request, c2p, p2s, asked >>
    BY <1>8 DEF Poll, Connect, Feed, RespondWaits, Drain, TakeNothing, SendNothing, SendFails,
       Finish, vars, proxyVars, netVars, peerVars, histVars
  <2> QED
    BY <1>1, <1>2, <2>1
<1>9. CASE ClientCloses \/ ClientReads \/ OriginAccepts \/ OriginSays
           \/ FilterReads \/ FilterWrites \/ FilterExits
  <2>1. UNCHANGED << queue, request, c2p, p2s, asked >>
    BY <1>9 DEF ClientCloses, ClientReads, OriginAccepts, OriginSays,
       FilterReads, FilterWrites, FilterExits, proxyVars, peerVars, histVars
  <2> QED
    BY <1>1, <1>2, <2>1
<1> QED
  BY <1>3, <1>4, <1>5, <1>6, <1>7, <1>8, <1>9
     DEF Next, Proxy, ProcessClient, OriginStep

LEMMA KnownAlways == Spec => []KnownInv
<1>1. Spec => []TypeInv
  BY TypeCorrect DEF TypeInv
<1> QED
  BY <1>1, KnownInit, KnownStep, PTL DEF Spec

(* The head of the queue.                                                  *)
LEMMA KnownHead ==
  ASSUME KnownInv, queue # << >>
  PROVE  /\ Head(queue) \in Known
         /\ Head(queue).kind \in Kinds \union {"GREETING"}
<1>1. Head(queue) \in Known
  BY HeadTailProperties DEF KnownInv
<1> QED
  BY <1>1 DEF Known, KnownInv

-----------------------------------------------------------------------------
(* A session whose client retrieves no message never opens a filter.       *)
Filterless == active \intersect CS_FILTER = {}

(* Closing segments opens none.                                            *)
LEMMA StaysFilterless ==
  ASSUME Filterless,
         \/ active' = active
         \/ active' = active \union CS_SERVER
         \/ \E level, flags : CloseClient(level, flags)
         \/ \E k, flags : GoesOn(k, flags)
  PROVE  Filterless'
<1>1. CASE active' = active \/ active' = active \union CS_SERVER
  BY <1>1 DEF Filterless, CS_SERVER, CS_FILTER
<1>2. CASE \E level, flags : CloseClient(level, flags)
  <2>1. active' \subseteq active
    BY <1>2 DEF CloseClient, ActiveAfter
  <2> QED
    BY <2>1 DEF Filterless
<1>3. CASE \E k, flags : GoesOn(k, flags)
  BY <1>3 DEF Filterless, GoesOn
<1> QED
  BY <1>1, <1>2, <1>3

LEMMA NoFilterBlock ==
  ASSUME Filterless
  PROVE  ~Feed /\ ~Drain
<1>1. "FILTER_IN" \notin active /\ "FILTER_OUT" \notin active
  BY DEF Filterless, CS_FILTER
<1>2. ~Feed
  BY <1>1 DEF Feed, Feeding
<1>3. ~Drain
  BY <1>1, Reached DEF Drain
<1> QED
  BY <1>2, <1>3

LEMMA FilterlessStep ==
  ASSUME "RETR" \notin Kinds
  PROVE  KnownInv /\ Filterless /\ [Next]_vars => Filterless'
<1> SUFFICES ASSUME KnownInv, Filterless, [Next]_vars
             PROVE  Filterless'
  OBVIOUS
<1>1. CASE RespondRetrieve
  <2>1. queue # << >> /\ Head(queue).kind = "RETR"
    BY <1>1, Reached DEF RespondRetrieve, RespondDone
  <2> QED
    BY <2>1, KnownHead
<1>2. CASE Connect \/ RespondInvalid \/ RespondWaits \/ Respond \/ RespondQuit
           \/ TakeCommand \/ TakeNothing \/ SendNothing \/ SendCommand \/ SendFails \/ Finish
  <2>1. \/ active' = active
        \/ active' = active \union CS_SERVER
        \/ \E level, flags : CloseClient(level, flags)
        \/ \E k, flags : GoesOn(k, flags)
    BY <1>2, Zenon DEF Connect, RespondInvalid, RespondWaits, Respond, RespondQuit,
       TakeCommand, TakeNothing, SendNothing, SendCommand, SendFails, Finish
  <2> QED
    BY <2>1, StaysFilterless, Zenon
<1>3. CASE Poll \/ Peers \/ UNCHANGED vars
  <2>1. active' = active
    BY <1>3, PeersLeaveProxy DEF Poll, vars, proxyVars
  <2> QED
    BY <2>1 DEF Filterless
<1> QED
  BY <1>1, <1>2, <1>3, NoFilterBlock DEF Next, Proxy, ProcessClient, Peers

LEMMA FilterlessAlways ==
  ASSUME "RETR" \notin Kinds
  PROVE  Spec => []Filterless
<1>1. Init => Filterless
  BY DEF Init, Filterless, CS_CLIENT, CS_FILTER
<1>2. KnownInv /\ Filterless /\ [Next]_vars => Filterless'
  BY FilterlessStep
<1> QED
  BY <1>1, <1>2, KnownAlways, PTL DEF Spec
=============================================================================
