------------------------------ MODULE Scanners ------------------------------
(***************************************************************************)
(* The three resumable scanners of parsers/pop3.re that read what an       *)
(* origin or a filter sends: parsePopResponse, destuffMail and stuffMail,  *)
(* at the granularity of lines.                                            *)
(*                                                                         *)
(* A token is one line, CRLF included: a status line (ok, err), a line of  *)
(* a listing or of a message (item), or the line ".CRLF" (end).  id is the *)
(* command the line belongs to.  The proxy writes lines of its own:        *)
(* invalid (with the NUL behind it that its sizeof counts), pipelining,    *)
(* badorigin, garbled and overread.                                        *)
(*                                                                         *)
(* All three share one trait of the generated code.  When the input runs   *)
(* out they save a state and return; when they are called again and there  *)
(* is still no input, because read() had nothing yet, they take that for   *)
(* the end of the input and follow the rule for $.                         *)
(***************************************************************************)
EXTENDS Naturals, Sequences

Part == {"ok", "err", "item", "end",
         "invalid", "pipelining", "badorigin", "garbled", "overread"}

(* in->state of responseState.  fresh is -1; status is 12; list is 27, the *)
(* CRLF of the last line read but not yet given up as a possible start of  *)
(* CRLF.CRLF; list0 is 24, that CRLF already consumed; body is 0, the      *)
(* state of destuffMail between two lines.                                 *)
ReplyState == {"fresh", "status", "list", "list0", "body"}

(* What there is between tok and cur when a scanner is not at work:        *)
(* nothing, or the end line of the message destuffMail has read.           *)
Leftover(ids) == {<<>>} \union {<< [id |-> i, part |-> "end"] >> : i \in ids}

(* A scanner that stops before the end of its message keeps its output.    *)
Waits(in, out, state) ==
  [done |-> FALSE, success |-> FALSE, out |-> <<>>,
   next |-> [in EXCEPT !.state = state, !.buf = <<>>, !.out = @ \o out]]

(* Mutant: written is not reset once the reply is out.                     *)
CompletesUnreset(in, out, rest, success) ==
  [done |-> TRUE, success |-> success, out |-> in.out \o out,
   next |-> [state |-> "fresh", buf |-> rest, out |-> in.out \o out, held |-> <<>>]]

(* One that completes hands over its output and starts afresh.             *)
Completes(in, out, rest, success) ==
  [done |-> TRUE, success |-> success, out |-> in.out \o out,
   next |-> [state |-> "fresh", buf |-> rest, out |-> <<>>, held |-> <<>>]]

-----------------------------------------------------------------------------
(* The rules <extra>: copy lines until CRLF.CRLF.  The CRLF of the status  *)
(* line is gone when they start, so an end line that comes first (from =   *)
(* 24) is text like any other.                                             *)
EndsAtLaterLine(buf, crlfSeen) ==    \* Mutant: forgets the CRLF seen before
  {i \in 1 .. Len(buf) : buf[i].part = "end" /\ i > 1}

EndsAt(buf, crlfSeen) ==
  {i \in 1 .. Len(buf) : buf[i].part = "end" /\ (i > 1 \/ crlfSeen)}

ScanList(in, said, buf, crlfSeen) ==
  LET ends == EndsAt(buf, crlfSeen)
      last == CHOOSE i \in ends : \A j \in ends : i <= j
  IN  IF ends # {}
      THEN Completes(in, said \o SubSeq(buf, 1, last),
                     SubSeq(buf, last + 1, Len(buf)), TRUE)
      ELSE Waits(in, said \o buf, IF buf = <<>> THEN "list0" ELSE "list")

(* The first COPY of a reply copies from tok: the end line destuffMail     *)
(* left there goes out once more, in front of the status line.             *)
Held(in, line) == Append(in.held, line)

(* The rules <status>, <msg_ok> and <msg_err> on a line that is there.  A  *)
(* line that is no status line makes the "Invalid response" reply; one of  *)
(* its bytes is consumed, the rest stays in the way.  id is the command    *)
(* that is answered.                                                       *)
ScanStatus(in, multiline, id) ==
  LET line == Head(in.buf)
      kept == [in EXCEPT !.held = <<>>]
  IN  IF line.part \notin {"ok", "err"}
      THEN Completes(in, << [id |-> id, part |-> "badorigin"] >>, in.buf, FALSE)
      ELSE IF line.part = "ok" /\ multiline
      THEN ScanList(kept, Held(in, line), Tail(in.buf), FALSE)
      ELSE Completes(in, Held(in, line), Tail(in.buf), line.part = "ok")

(* parsePopResponse.  Resumed without input it follows $: in status it     *)
(* completes with what it has, nothing; in list it gives up the CRLF; in   *)
(* list0 it completes.                                                     *)
parsePopResponse(in, multiline, id) ==
  CASE in.state = "fresh"  /\ in.buf = <<>> -> Waits(in, <<>>, "status")
    [] in.state = "status" /\ in.buf = <<>> -> Completes(in, <<>>, <<>>, FALSE)
    [] in.state \in {"fresh", "status"} /\ in.buf # <<>> -> ScanStatus(in, multiline, id)
    [] in.state = "list0"  /\ in.buf = <<>> -> Completes(in, <<>>, <<>>, TRUE)
    [] OTHER -> ScanList(in, <<>>, in.buf, in.state = "list")

-----------------------------------------------------------------------------
(* Mutant: the end line is passed on to the filter.                        *)
destuffMailWithEnd(in) ==
  LET ends == EndsAt(in.buf, TRUE)
      last == CHOOSE i \in ends : \A j \in ends : i <= j
  IN  IF ends # {}
      THEN Completes(in, SubSeq(in.buf, 1, last),
                     SubSeq(in.buf, last + 1, Len(in.buf)), TRUE)
      ELSE [Waits(in, <<>>, "body") EXCEPT !.out = in.buf]

(* destuffMail: copy the lines of a message up to its end line, which      *)
(* stays between tok and cur.  Resumed without input between two lines it  *)
(* completes.                                                              *)
destuffMail(in) ==
  LET ends == EndsAt(in.buf, TRUE)
      last == CHOOSE i \in ends : \A j \in ends : i <= j
      done == Completes(in, SubSeq(in.buf, 1, last - 1),
                        SubSeq(in.buf, last + 1, Len(in.buf)), TRUE)
  IN  IF ends # {} THEN [done EXCEPT !.next.held = << in.buf[last] >>]
      ELSE IF in.buf = <<>> /\ in.state = "body" THEN Completes(in, <<>>, <<>>, TRUE)
      ELSE [Waits(in, <<>>, "body") EXCEPT !.out = in.buf]

(* stuffMail on the whole lines a filter wrote: copy them; resumed without *)
(* input between two lines it writes the end line and completes.  begin is *)
(* in->state 7, fresh is -1.                                               *)
stuffMail(state, lines, id) ==
  IF lines = <<>> /\ state = "begin"
  THEN [done |-> TRUE, out |-> << [id |-> id, part |-> "end"] >>, next |-> "fresh"]
  ELSE [done |-> FALSE, out |-> lines, next |-> "begin"]
=============================================================================
