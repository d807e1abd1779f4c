--------------------------- MODULE MCRequestLexer ---------------------------
(***************************************************************************)
(* RequestLexer on inputs of two lines.  The first is any of the ones      *)
(* below: each command, its near misses, an empty line, a blank one, one   *)
(* with a byte that is not printable or with a CR or LF inside, and one    *)
(* that is longer than the buffer.  The second is a command, with and      *)
(* without an argument.                                                    *)
(***************************************************************************)
EXTENDS RequestLexer

MCChar == {CR, LF, SP, "other", "a", "c", "d", "e", "i", "l", "n", "o", "p", "q",
           "r", "s", "t", "u", "1"}

Requests == {
  <<"u","s","e","r"," "," ","a","p"," ">>, <<"p","a","s","s"," ","1">>,
  <<"q","u","i","t">>, <<"s","t","a","t"," ">>, <<"l","i","s","t">>,
  <<"l","i","s","t"," ","1">>, <<"r","e","t","r"," ","1">>, <<"d","e","l","e"," ","1">>,
  <<"n","o","o","p"," "," ">>, <<"r","s","e","t">>, <<"c","a","p","a">> }

Others == {
  <<>>, << SP >>, <<"u","s","e","r">>, <<"r","e","t","r"," ","1"," ","1">>,
  <<"q","u","i","t"," ","1">>, <<"n","o","o","p","s">>, <<"u","i","d","l">>,
  <<"q","other","u">>, <<"l", CR, "i">>, <<"1", LF>>,
  <<"u","s","e","r"," ","a","p","p","a","1">> }

Line(body) == body \o << CR, LF >>

Followers == { <<"u","s","e","r"," ","p">>, <<"l","i","s","t">> }

MCInputs == {Line(a) \o Line(b) : a \in Requests \union Others, b \in Followers}
=============================================================================
