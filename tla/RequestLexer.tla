---------------------------- MODULE RequestLexer ----------------------------
(***************************************************************************)
(* The client's side of a session, byte by byte: parsePopRequest, the      *)
(* resumable scanner of parsers/pop3.re, with fillBuffer, processPopClient *)
(* and the block "Process client commands" of processClient around it.     *)
(*                                                                         *)
(* The scanner is one automaton.  It leaves off wherever the bytes in the  *)
(* buffer end and goes on from there when it is called again.  Letters are *)
(* matched without regard to case in the code; here they are lower case.   *)
(***************************************************************************)
EXTENDS Buffers, FiniteSets

CONSTANTS
  Char,      \* the bytes there are: CR, LF, blank, letters, other
  Inputs,    \* what a client may send: sequences of bytes
  BufSize    \* the size of requestState (256 bytes in server.c)

CR == "CR"
LF == "LF"
SP == " "
Printable(c) == c \notin {CR, LF, "other"}

ASSUME LexerAssumption ==
  /\ {CR, LF, SP, "other"} \subseteq Char
  /\ Inputs \subseteq Seq(Char)
  /\ BufSize \in Nat \ {0}

-----------------------------------------------------------------------------
(* The automaton.                                                          *)

(* The commands that take no argument, and those that take one.  LIST is   *)
(* both; USER is the only one whose argument is kept.                      *)
Plain == [QUIT |-> <<"q","u","i","t">>, STAT |-> <<"s","t","a","t">>,
          LIST |-> <<"l","i","s","t">>, NOOP |-> <<"n","o","o","p">>,
          RSET |-> <<"r","s","e","t">>, CAPA |-> <<"c","a","p","a">>]
WithArg == [USER |-> <<"u","s","e","r">>, PASS |-> <<"p","a","s","s">>,
            LIST_MSG |-> <<"l","i","s","t">>, RETR |-> <<"r","e","t","r">>,
            DELE |-> <<"d","e","l","e">>]

RangeOf(f)   == {f[x] : x \in DOMAIN f}
PlainWords   == RangeOf(Plain)
ArgWords     == RangeOf(WithArg)
Words        == PlainWords \union ArgWords
Named(f, w)  == CHOOSE k \in DOMAIN f : f[k] = w
Prefixes     == UNION {{SubSeq(w, 1, n) : n \in 0 .. Len(w)} : w \in Words}

(* in->state, where the scanner is in a line:                             *)
(*   word   in the letters of a command     blanks  behind a command       *)
(*   arg    in its argument                 tail    behind its argument    *)
(*   text   in a line that is no command of ours                           *)
(* cr: a CR came last.  end: how the scan has ended, if it has.  tag1 and  *)
(* tag2 are yyt1 and yyt2, the bytes before the argument and up to its end.*)
Phase  == {"word", "blanks", "arg", "tail", "text"}
State  == [phase : Phase, word : Words \union Prefixes, cr : BOOLEAN,
           end : {"no", "accept", "reject"}, tag1 : Nat, tag2 : Nat]
Start  == [phase |-> "word", word |-> <<>>, cr |-> FALSE, end |-> "no", tag1 |-> 0, tag2 |-> 0]

InWord(st, c) ==
  IF Append(st.word, c) \in Prefixes THEN [st EXCEPT !.word = Append(@, c)]
  ELSE [st EXCEPT !.phase = IF c = SP /\ st.word \in Words THEN "blanks" ELSE "text"]

InBlanks(st, c, n) ==
  IF c = SP THEN st
  ELSE IF st.word \in ArgWords THEN [st EXCEPT !.phase = "arg", !.tag1 = n - 1, !.tag2 = n]
  ELSE [st EXCEPT !.phase = "text"]

InArg(st, c, n) ==
  IF c = SP THEN [st EXCEPT !.phase = "tail"] ELSE [st EXCEPT !.tag2 = n]

InTail(st, c) == IF c = SP THEN st ELSE [st EXCEPT !.phase = "text"]

(* The n-th byte of the command is c.                                      *)
Step(st, c, n) ==
  CASE st.end # "no" -> st
    [] st.end = "no" /\ st.cr -> [st EXCEPT !.end = IF c = LF THEN "accept" ELSE "reject"]
    [] st.end = "no" /\ ~st.cr /\ c = CR -> [st EXCEPT !.cr = TRUE]
    [] st.end = "no" /\ ~st.cr /\ c # CR /\ ~Printable(c) -> [st EXCEPT !.end = "reject"]
    [] OTHER ->
         CASE st.phase = "word"   -> InWord(st, c)
           [] st.phase = "blanks" -> InBlanks(st, c, n)
           [] st.phase = "arg"    -> InArg(st, c, n)
           [] st.phase = "tail"   -> InTail(st, c)
           [] st.phase = "text"   -> st

(* The n-th byte, as a function of the state before it.                    *)
Move(c, n) == [st \in State |-> Step(st, c, n)]

(* The command of a line, by where in it the scanner was when its CR came. *)
CommandOf(st) ==
  CASE st.phase = "word" /\ st.word = <<>> -> "INVALID"
    [] st.phase \in {"word", "blanks"} /\ st.word \in PlainWords -> Named(Plain, st.word)
    [] st.phase \in {"arg", "tail"} -> Named(WithArg, st.word)
    [] OTHER -> "UNKNOWN"

-----------------------------------------------------------------------------
(* parsePopRequest on the bytes from tok to lim.  begun is in->state with  *)
(* in->cur, counted from tok as the tags are: nothing moves tok between a  *)
(* scan that is left off and the fillBuffer before the next.               *)
NotBegun == [state |-> Start, cur |-> 0]

Found(cmd, len, arg) == [cmd |-> cmd, len |-> len, arg |-> arg, next |-> NotBegun]

(* yy106: the rule for any byte, in->cur = in->mar.                        *)
FallBackNowhere(bytes) == Found("INVALID", Len(bytes), <<>>)     \* Mutant: cur stays
FallBack(bytes) == Found("INVALID", 1, <<>>)

(* YYFILL: in->state = n; return POP_INCOMPLETE.                           *)
SuspendUnsaved(st, n) == [state |-> Start, cur |-> n]            \* Mutant: no in->state
Suspend(st, n) == [state |-> st, cur |-> n]

(* The states the scanner goes through, by the number of bytes behind it.  *)
Run(begun, bytes) ==
  LET st[n \in begun.cur .. Len(bytes)] ==
        IF n = begun.cur THEN begun.state ELSE Move(bytes[n], n)[st[n - 1]]
  IN  st

(* A scan that is rejected, or resumed when there is nothing new, falls    *)
(* back to the rule for any one byte.                                      *)
parsePopRequest(begun, bytes) ==
  LET st    == Run(begun, bytes)
      last  == st[Len(bytes)]
      first == CHOOSE n \in begun.cur .. Len(bytes) :
                 st[n].end # "no" /\ \A m \in begun.cur .. n - 1 : st[m].end = "no"
      cmd   == CommandOf(last)
  IN  CASE last.end = "accept" ->
             Found(cmd, first,
                   IF cmd = "USER" THEN SubSeq(bytes, last.tag1 + 1, last.tag2) ELSE <<>>)
        [] bytes # <<>> /\ last.end # "accept" /\ (last.end = "reject" \/ begun.cur = Len(bytes)) ->
             FallBack(bytes)
        [] OTHER ->
             [cmd |-> "INCOMPLETE", len |-> 0, arg |-> <<>>,
              next |-> Suspend(last, Len(bytes))]

-----------------------------------------------------------------------------
VARIABLES
  input,     \* all the client may send
  coming,    \* what of it is not sent
  sock,      \* what the client's socket holds
  eof,       \* the client has closed its half
  edge,      \* epoll has an event to report
  ready,     \* clientEvent->readReady
  open,      \* CS_CLIENT_OUT
  buf,       \* requestState, from tok to lim
  scan,      \* requestState, state and cur
  taken,     \* history: the bytes up to tok
  commands   \* what was put into the queue, with the place it was found at

vars == << input, coming, sock, eof, edge, ready, open, buf, scan, taken, commands >>

Init ==
  /\ input \in Inputs /\ coming = input /\ sock = <<>> /\ eof = FALSE
  /\ edge = TRUE /\ ready = FALSE /\ open = TRUE
  /\ buf = <<>> /\ scan = NotBegun /\ taken = <<>> /\ commands = <<>>

(* The client's bytes arrive in pieces of any size.                        *)
Arrives ==
  /\ ~eof /\ open
  /\ \E n \in 1 .. Len(coming) :
       /\ sock' = sock \o SubSeq(coming, 1, n)
       /\ coming' = SubSeq(coming, n + 1, Len(coming))
  /\ edge' = TRUE
  /\ UNCHANGED << input, eof, ready, open, buf, scan, taken, commands >>

ClientCloses ==
  /\ ~eof /\ eof' = TRUE /\ edge' = TRUE
  /\ UNCHANGED << input, coming, sock, ready, open, buf, scan, taken, commands >>

Poll ==
  /\ edge /\ open
  /\ edge' = FALSE /\ ready' = (ready \/ sock # <<>> \/ eof)
  /\ UNCHANGED << input, coming, sock, eof, open, buf, scan, taken, commands >>

(* "Process client commands", while there is an origin and room in the     *)
(* queue: what holds the client back is in module Session.                 *)
Filled == Read(sock, BufSize - Len(buf), IF eof THEN "eof" ELSE "again")

(* in->tok = in->cur                                                       *)
SkippedAll(bytes, len) == <<>>     \* Mutant: the buffer is dropped
Skipped(bytes, len) == SubSeq(bytes, len + 1, Len(bytes))

(* clientEvent->readReady = complete                                       *)
ReadyAfterData(cmd, count) == cmd # "INCOMPLETE" /\ count = "data"   \* Mutant: && count > 0
ReadyAfter(cmd, count) == cmd # "INCOMPLETE"

LexCommand ==
  LET bytes == buf \o Filled.got
      lexed == parsePopRequest(scan, bytes)
  IN  /\ open /\ ready /\ lexed.cmd # "INCOMPLETE"
      /\ sock' = Filled.left
      /\ buf' = Skipped(bytes, lexed.len) /\ scan' = lexed.next
      /\ taken' = taken \o SubSeq(bytes, 1, lexed.len)
      /\ commands' = Append(commands, [cmd |-> lexed.cmd, arg |-> lexed.arg,
                                        from |-> Len(taken), len |-> lexed.len])
      /\ ready' = ReadyAfter(lexed.cmd, Filled.count)
      /\ UNCHANGED << input, coming, eof, edge, open >>

LexNothing ==
  LET lexed == parsePopRequest(scan, buf \o Filled.got)
  IN  /\ open /\ ready /\ lexed.cmd = "INCOMPLETE"
      /\ sock' = Filled.left /\ buf' = buf \o Filled.got /\ scan' = lexed.next
      /\ ready' = ReadyAfter(lexed.cmd, Filled.count) /\ open' = ~CheckEOF(Filled.count)
      /\ UNCHANGED << input, coming, eof, edge, taken, commands >>

Next == Arrives \/ ClientCloses \/ Poll \/ LexCommand \/ LexNothing

Spec == Init /\ [][Next]_vars

(* The loop runs when epoll returns, and while the last pass did something. *)
Fairness == WF_vars(Poll \/ LexCommand \/ LexNothing)
LiveSpec == Spec /\ Fairness

-----------------------------------------------------------------------------
(* Properties.                                                             *)

TypeOK ==
  /\ input \in Inputs /\ coming \in Seq(Char) /\ sock \in Seq(Char)
  /\ buf \in Seq(Char) /\ Len(buf) <= BufSize /\ taken \in Seq(Char)
  /\ {eof, edge, ready, open} \subseteq BOOLEAN
  /\ scan \in [state : State, cur : 0 .. BufSize] /\ scan.cur <= Len(buf)
  /\ commands \in Seq([cmd : DOMAIN Plain \union DOMAIN WithArg \union {"INVALID", "UNKNOWN"},
                       arg : Seq(Char), from : Nat, len : 1 .. BufSize])

(* No byte of the client is lost, doubled or moved by the shifting of the  *)
(* buffer, however the input is cut (fillBuffer and tok = cur).            *)
Conserved == taken \o buf \o sock \o coming = input

(* Lines begin at the first byte and behind every CRLF.                    *)
LineStart(p) == p = 0 \/ (p >= 2 /\ input[p - 1] = CR /\ input[p] = LF)

(* Whatever a line is made of, the next one is found: a command starts     *)
(* wherever a line does, so that garbage never swallows what follows it    *)
(* (the fallback to one byte in parsePopRequest).                          *)
Resynchronises ==
  \A p \in 0 .. Len(taken) - 1 :
    LineStart(p) => \E i \in 1 .. Len(commands) : commands[i].from = p

(* A line by its fields, the runs of other bytes than blanks.              *)
FieldStarts(line) == {i \in 1 .. Len(line) : line[i] # SP /\ (i = 1 \/ line[i - 1] = SP)}
Field(line, i) ==
  LET blanks == {j \in i .. Len(line) : line[j] = SP}
      behind == IF blanks = {} THEN Len(line) + 1
                ELSE CHOOSE j \in blanks : \A k \in blanks : j <= k
  IN  SubSeq(line, i, behind - 1)
Fields(line) == {Field(line, i) : i \in FieldStarts(line) \ {1}}

Meaning(line) ==
  LET fields == Cardinality(FieldStarts(line))
      verb   == Field(line, 1)
  IN  CASE line = <<>> -> "INVALID"
        [] line # <<>> /\ line[1] # SP /\ fields = 1 /\ verb \in PlainWords -> Named(Plain, verb)
        [] line # <<>> /\ line[1] # SP /\ fields = 2 /\ verb \in ArgWords -> Named(WithArg, verb)
        [] OTHER -> "UNKNOWN"

(* The line that starts behind p, if all of it has been sent, and whether  *)
(* it is one that a client may send: printable and no longer than the      *)
(* buffer, which has the 255 bytes of RFC 2449 and one more.               *)
LineEnds(p) == {q \in p + 2 .. Len(input) - Len(coming) : LineStart(q)}
LineAt(p) == SubSeq(input, p + 1, (CHOOSE q \in LineEnds(p) : \A r \in LineEnds(p) : q <= r) - 2)
Proper(p) ==
  /\ LineEnds(p) # {} /\ Len(LineAt(p)) + 2 <= BufSize
  /\ \A i \in 1 .. Len(LineAt(p)) : Printable(LineAt(p)[i])

(* A proper line is taken for one command, the one its words say, whole,   *)
(* and with its own argument, wherever the input was cut between two reads *)
(* and whatever came before it (parsePopRequest resumes from in->state and *)
(* yyt1, and starts afresh behind a command).                              *)
LineByLine ==
  \A i \in 1 .. Len(commands) :
    LineStart(commands[i].from) /\ Proper(commands[i].from) =>
      LET c == commands[i]
          line == LineAt(c.from)
      IN  /\ c.cmd = Meaning(line) /\ c.len = Len(line) + 2
          /\ c.cmd = "USER" => {c.arg} = Fields(line)

(* A line that has arrived is taken, although the last read may have cut   *)
(* it anywhere and no event follows: readReady is kept as long as a        *)
(* command was found (processClient).  One that is longer than the buffer  *)
(* waits until the client sends more.                                      *)
LineWaits ==
  LET bytes == buf \o sock
  IN  \E i \in 2 .. Len(bytes) : i <= BufSize /\ bytes[i - 1] = CR /\ bytes[i] = LF
NoLineLeft == <>[](open => ~LineWaits)
=============================================================================
