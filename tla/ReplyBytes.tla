----------------------------- MODULE ReplyBytes -----------------------------
(***************************************************************************)
(* The scanners of parsers/pop3.re byte by byte: destuffMail and stuffMail *)
(* with a filter between them that copies what it reads, as cat does, and  *)
(* parsePopResponse.                                                       *)
(*                                                                         *)
(* A read may end anywhere.  A scanner then keeps its state and, unless it *)
(* is in the middle of a line of text, what it has read of the token it is *)
(* in; it is called again with the next bytes, if the loop knows of them:  *)
(* epoll reports an arrival once, and the flag the loop keeps of it is     *)
(* computed in one way for messages and in another for replies.            *)
(***************************************************************************)
EXTENDS Naturals, Sequences, SequencesExt

CONSTANTS
  Inputs,       \* what an origin says: a kind, the bytes, and bytes behind them
  BufSize,      \* bufSize of responseState and filterState
  FilterEager   \* the filter writes what it reads at once, not when its input ends

CR == "cr"
LF == "lf"
Byte == {".", CR, LF, "x", "+", "O", "K", "-", "E", "R"}
Kind == {"mail", "list", "line"}     \* a message, a reply with a listing, one without
EndLine == << ".", CR, LF >>

ASSUME ReplyBytesAssumption ==
  /\ Inputs \subseteq [kind : Kind, bytes : Seq(Byte), behind : Seq(Byte)]
  /\ BufSize \in Nat /\ BufSize > 4 /\ FilterEager \in BOOLEAN

VARIABLES
  said,         \* history: what the origin says
  left,         \* its bytes that have not been read
  came,         \* how many of those are in the socket
  edge,         \* bytes have come that epoll has not reported
  readReady,    \* serverEvent->readReady
  response,     \* responseState
  pipe,         \* bytes on their way through the filter
  filter,       \* filterState
  ended,        \* the end of the filter's output has been read
  written,      \* how many bytes there are in the writeBuf that was used last
  got           \* bytes written to the client

netVars == << left, came, edge, readReady >>
vars == << said, netVars, response, pipe, filter, ended, written, got >>

(* A scanner: what it has read of its token (tok to cur), what it has put  *)
(* into writeBuf, whether it has completed, and the bytes behind that.     *)
(* state is in->state, named for what has been read of the line; fresh is  *)
(* -1, and differs from the beginning of a line only if nothing comes.     *)
State == {"fresh", "begin", "beginCR", "dot", "dotCR", "line0", "line", "lineCR",
          "status", "ok", "err", "extra"}
Output == Byte \union {"invalid"}     \* the proxy's own answer counts as one
Scanner == [state : State, held : Seq(Byte), out : Seq(Output), done : BOOLEAN,
            rest : Seq(Byte)]
Fresh == [state |-> "fresh", held |-> << >>, out |-> << >>, done |-> FALSE, rest |-> << >>]

Hold(s, b, state) == [s EXCEPT !.state = state, !.held = Append(@, b)]
Copy(s, bytes, state) ==
  [s EXCEPT !.state = state, !.held = << >>, !.out = @ \o bytes]

-----------------------------------------------------------------------------
(* The rules <line>, which copy what they read.                            *)
InLine(s, b) ==
  Copy(s, << b >>, CASE b = CR -> "lineCR"
                     [] b = LF -> IF s.state = "lineCR" THEN "begin" ELSE "line0"
                     [] OTHER  -> "line")

(* CR at the beginning of a line.                                          *)
AfterCR(s, b) ==
  IF b = LF THEN Copy(s, << CR, LF >>, "begin") ELSE InLine(Copy(s, << CR >>, "line0"), b)

AtBegin == {"fresh", "begin"}

destuffByte(s, b) ==
  CASE s.state \in AtBegin /\ b = CR  -> Hold(s, b, "beginCR")
    [] s.state \in AtBegin /\ b = "." -> Hold(s, b, "dot")
    [] s.state \in AtBegin /\ b \notin {CR, "."} -> Copy(s, << b >>, "line0")
    [] s.state = "beginCR"            -> AfterCR(s, b)
    [] s.state = "dot" /\ b = "."     -> Copy(s, << "." >>, "line0")
    [] s.state = "dot" /\ b = CR      -> Hold(s, b, "dotCR")
    [] s.state = "dot" /\ b \notin {CR, "."} -> InLine(Copy(s, << "." >>, "line0"), b)
    [] s.state = "dotCR" /\ b = LF    -> [Hold(s, b, "begin") EXCEPT !.done = TRUE]
    [] s.state = "dotCR" /\ b # LF    ->
         InLine(InLine(Copy(s, << "." >>, "line0"), CR), b)
    [] OTHER                          -> InLine(s, b)

stuffByte(s, b) ==
  CASE s.state \in AtBegin /\ b = CR  -> Hold(s, b, "beginCR")
    [] s.state \in AtBegin /\ b = "." -> Copy(s, << ".", "." >>, "line0")
    [] s.state \in AtBegin /\ b \notin {CR, "."} -> Copy(s, << b >>, "line0")
    [] s.state = "beginCR"            -> AfterCR(s, b)
    [] OTHER                          -> InLine(s, b)

(* stuffMail called when there is nothing to read: between two lines, or   *)
(* where a line could start, it writes the end line.                       *)
stuffNothing(s) ==
  CASE s.state \in {"begin", "line0"} -> [Copy(s, EndLine, "fresh") EXCEPT !.done = TRUE]
    [] s.state = "beginCR"            -> Copy(s, << CR >>, "line0")
    [] s.state = "fresh"              -> [s EXCEPT !.state = "begin"]
    [] OTHER                          -> [s EXCEPT !.state = "line0"]

(* The rules <status>: what does not begin with +OK or -ERR is answered    *)
(* for the origin, and one byte of it is taken.                            *)
Words == {<< "+", "O", "K" >>, << "-", "E", "R", "R" >>}
InStatus(s, b) ==
  LET read == Append(s.held, b)
  IN  IF read \in Words THEN Copy(s, read, IF b = "K" THEN "ok" ELSE "err")
      ELSE IF \E w \in Words : IsPrefix(read, w) THEN Hold(s, b, "status")
      ELSE [Copy(s, << "invalid" >>, "fresh") EXCEPT !.done = TRUE, !.rest = Tail(read)]

(* What a token may still grow from at the end of what was read: a CR, or  *)
(* text without CR and LF.  The bytes in front of it are copied.           *)
IsRun(bytes)   == \A i \in 1 .. Len(bytes) : bytes[i] \notin {CR, LF}
Growing(read, n) ==
  LET end == SubSeq(read, n + 1, Len(read)) IN end = << CR >> \/ IsRun(end)
Grows(s, read, state) ==
  LET n == CHOOSE k \in 0 .. Len(read) :
             Growing(read, k) /\ \A j \in 0 .. k - 1 : ~Growing(read, j)
  IN  [s EXCEPT !.state = state, !.out = @ \o SubSeq(read, 1, n),
                !.held = SubSeq(read, n + 1, Len(read))]

(* The rules <msg_ok> and <msg_err>, up to CRLF.                           *)
InText(s, b, multiline) ==
  LET read == Append(s.held, b)
  IN  IF read # << CR, LF >> THEN Grows(s, read, s.state)
      ELSE IF s.state = "ok" /\ multiline THEN Copy(s, read, "extra")
      ELSE [Copy(s, read, "fresh") EXCEPT !.done = TRUE]

(* The rules <extra>: a listing ends with CRLF.CRLF.  What turns out not   *)
(* to be that is read again from behind its first CR.                      *)
ListEnd == << CR, LF >> \o EndLine
InExtraCut(s, b) ==     \* Mutant: what turns out not to be the end is dropped
  LET read == Append(s.held, b)
  IN  IF read = ListEnd THEN [Copy(s, read, "fresh") EXCEPT !.done = TRUE]
      ELSE IF IsPrefix(read, ListEnd) THEN Hold(s, b, "extra")
      ELSE Grows(s, << b >>, "extra")
InExtra(s, b) ==
  LET read == Append(s.held, b)
  IN  IF read = ListEnd THEN [Copy(s, read, "fresh") EXCEPT !.done = TRUE]
      ELSE IF IsPrefix(read, ListEnd) THEN Hold(s, b, "extra")
      ELSE Grows(s, read, "extra")

responseByte(s, b, multiline) ==
  CASE s.state \in {"fresh", "status"} -> InStatus(s, b)
    [] s.state = "extra"               -> InExtra(s, b)
    [] OTHER                           -> InText(s, b, multiline)

-----------------------------------------------------------------------------
(* What a byte does to a scanner, by the rules: one behind the end stays.  *)
By(byte(_, _)) ==
  [b \in Byte |-> [s \in Scanner |->
     IF s.done THEN [s EXCEPT !.rest = Append(@, b)] ELSE byte(s, b)]]

destuffMail == By(destuffByte)
stuffMail   == By(stuffByte)
parsePopResponse(multiline) == By(LAMBDA s, b : responseByte(s, b, multiline))

(* A call of a scanner with the bytes that have been read.                 *)
Scan(rules, s, bytes) ==
  LET st[n \in 0 .. Len(bytes)] == IF n = 0 THEN s ELSE rules[bytes[n]][st[n - 1]]
  IN  st[Len(bytes)]

(* fillBuffer.  Of the origin's bytes it takes what has come and fits; of  *)
(* the filter's, what the filter has written so far and fits.              *)
Room(s) == BufSize - Len(s.held)
Fills(s) == {n \in 0 .. came : n <= Room(s) /\ n \in {came, Room(s)}}
Reads(s, stream) == {n \in 1 .. Len(stream) : n <= Room(s)}
Taken(stream, n) == SubSeq(stream, 1, n)
Left(stream, n)  == SubSeq(stream, n + 1, Len(stream))

(* copyMsg writes what there is and forgets it.                            *)
FlushedAnew(s) == [s EXCEPT !.out = << >>, !.state = "fresh"]   \* Mutant: state is lost
FlushedNot(s)  == s                                 \* Mutant: written is not reset
Flushed(s) == [s EXCEPT !.out = << >>]

(* The flag is what the block before has left it: a first call without     *)
(* input changes nothing that a second, which there is not, would see.     *)
Init ==
  /\ said \in Inputs /\ left = said.bytes \o said.behind
  /\ came = 0 /\ edge = FALSE /\ readReady \in BOOLEAN
  /\ response = Fresh /\ filter = Fresh
  /\ pipe = << >> /\ ended = FALSE /\ written = 0 /\ got = << >>

(* More of the origin's bytes come to the socket.                          *)
Arrives ==
  /\ came' \in came + 1 .. Len(left)
  /\ edge' = TRUE
  /\ UNCHANGED << said, left, readReady, response, pipe, filter, ended, written, got >>

(* epoll_wait and processEvent: with EPOLLET the arrival is reported once, *)
(* with what there is to read by then.                                     *)
Poll ==
  /\ edge /\ edge' = FALSE
  /\ readReady' = (readReady \/ came > 0)
  /\ UNCHANGED << said, left, came, response, pipe, filter, ended, written, got >>

(* Server to filter: fillBuffer, copyMsg without stuffing, and FIONREAD.   *)
ReadOnNever(rest) == FALSE     \* Mutant: what is left in the socket is not asked for
ReadOn(rest)      == rest > 0

Feed ==
  /\ said.kind = "mail" /\ ~response.done /\ readReady
  /\ \E n \in Fills(response) :
       LET s == Scan(destuffMail, response, Taken(left, n))
       IN  /\ response' = Flushed(s) /\ pipe' = pipe \o s.out
           /\ written' = Len(s.out)
           /\ left' = Left(left, n) /\ came' = came - n /\ readReady' = ReadOn(came - n)
  /\ UNCHANGED << said, edge, filter, ended, got >>

(* Filter to client: fillBuffer, and copyMsg with stuffing.                *)
Drain ==
  /\ ~filter.done /\ (FilterEager \/ response.done)
  /\ \E n \in Reads(filter, pipe) :
       LET s == Scan(stuffMail, filter, Taken(pipe, n))
       IN  /\ filter' = Flushed(s) /\ got' = got \o s.out
           /\ written' = Len(s.out) /\ pipe' = Left(pipe, n)
  /\ UNCHANGED << said, netVars, response, ended >>

(* The filter has ended with its input.  A filter that wrote nothing is    *)
(* not noticed, and the end is read once: no event comes after it.         *)
DrainEnd ==
  /\ response.done /\ pipe = << >> /\ ~ended /\ filter.state # "fresh"
  /\ ended' = TRUE
  /\ LET s == stuffNothing(filter)
     IN  filter' = Flushed(s) /\ got' = got \o s.out /\ written' = Len(s.out)
  /\ UNCHANGED << said, netVars, response, pipe >>

(* Server to client: fillBuffer, and parsePopResponse, whose output stays  *)
(* in writeBuf until the reply is complete.  If it is not, the flag is     *)
(* cleared, whatever is left in the socket.                                *)
Respond ==
  /\ said.kind # "mail" /\ ~response.done /\ readReady
  /\ \E n \in Fills(response) :
       LET s == Scan(parsePopResponse(said.kind = "list"), response, Taken(left, n))
       IN  /\ response' = IF s.done THEN Flushed(s) ELSE s
           /\ got' = IF s.done THEN got \o s.out ELSE got
           /\ written' = Len(s.out)
           /\ left' = Left(left, n) /\ came' = came - n
           /\ readReady' = (n > 0 /\ s.done)
  /\ UNCHANGED << said, edge, pipe, filter, ended >>

Loop == Poll \/ Feed \/ Drain \/ DrainEnd \/ Respond
Next == Arrives \/ Loop

Spec == Init /\ [][Next]_vars

(* What the origin has sent comes; the loop runs as long as epoll or one   *)
(* of its flags gives it something to do.                                  *)
LiveSpec == Spec /\ WF_vars(Arrives) /\ WF_vars(Loop)

-----------------------------------------------------------------------------
(* Properties.                                                             *)

(* The client gets the bytes of the origin, whichever way they are cut by  *)
(* reads, on both sides of a filter that changes nothing: dots that were   *)
(* removed come back, nothing is taken for the end that is not, and what   *)
(* follows the end is still there for the next reply.                      *)
BytesVerbatim ==
  /\ IsPrefix(got, said.bytes)
  /\ response.done => response.rest \o left = said.behind

(* And all of them: the reply, or the message, comes to its end.           *)
AllBytes == <>[](got = said.bytes)

(* What a call puts into writeBuf, which is allocated with twice bufSize   *)
(* and two, fits (a dot at the beginning of a line counts double).         *)
OutputFits == written <= 2 * BufSize + 2
=============================================================================
