---------------------------- MODULE MCReplyBytes ----------------------------
(* ReplyBytes with messages and replies of an origin.                      *)
EXTENDS ReplyBytes

Texts(chars, n) == UNION {[1 .. k -> chars] : k \in 0 .. n}
Unbroken(line) == \A i \in 1 .. Len(line) - 1 : << line[i], line[i + 1] >> # << CR, LF >>

(* Lines of up to two bytes, with bare CR and LF, and the dot an origin    *)
(* puts in front of a line that begins with one.                           *)
Lines == {line \in Texts({".", CR, LF, "x"}, 2) : Unbroken(line)}
Sent(line) ==
  (IF line # << >> /\ line[1] = "." THEN << "." >> ELSE << >>) \o line \o << CR, LF >>

Mail ==
  {[kind |-> "mail", bytes |-> Sent(a) \o EndLine, behind |-> << "+" >>] : a \in Lines}
    \union {[kind |-> "mail", bytes |-> Sent(a) \o Sent(b) \o EndLine, behind |-> << "+" >>] :
              a \in Lines, b \in Texts({".", CR}, 1)}

(* Seven lines that begin with a dot: more than a writeBuf holds.          *)
Dots == [kind |-> "mail", behind |-> << >>,
         bytes |-> [i \in 1 .. 28 |-> << ".", ".", CR, LF >>[((i - 1) % 4) + 1]] \o EndLine]

(* Status lines, and listings of a line or two.                            *)
Status == {<< "+", "O", "K" >>, << "-", "E", "R", "R" >>}
Replies ==
  {[kind |-> k, bytes |-> w \o t \o << CR, LF >>, behind |-> << "+", "O" >>] :
      k \in {"line", "list"}, w \in Status, t \in Texts({CR, "x", "."}, 2)}
Listings ==
  {[kind |-> "list", bytes |-> << "+", "O", "K", CR, LF, "x" >> \o a \o << CR, LF >> \o EndLine,
    behind |-> << "-" >>] : a \in Texts({".", CR, LF}, 3) \ {<< CR, LF, "." >>}}

(* A listing without a line in it, and nothing behind.                     *)
Empty == [kind |-> "list", bytes |-> << "+", "O", "K", CR, LF >> \o EndLine, behind |-> << >>]

MCEmpty == {Empty}
MCInputs ==
  Mail \union {Dots} \union {r \in Replies : r.kind = "list" => r.bytes[1] = "-"} \union Listings
=============================================================================
