---------------------------- MODULE LexerProofs -----------------------------
(***************************************************************************)
(* The client's bytes on their way through the buffer of the lexer, for    *)
(* every input, however it is cut, and every size of the buffer: none is   *)
(* lost, a command starts where a line starts, and what is made of a line  *)
(* is what it means.                                                       *)
(***************************************************************************)
EXTENDS RequestLexer, BuffersProofs, FiniteSetTheorems

(* What the moves of bytes rest on: the scanner has not looked behind the  *)
(* end of the buffer, and the buffer fits its size.                        *)
BuffersOK ==
  /\ coming \in Seq(Char) /\ sock \in Seq(Char) /\ buf \in Seq(Char) /\ taken \in Seq(Char)
  /\ Len(buf) <= BufSize
  /\ scan.cur \in 0 .. Len(buf)

Inv == BuffersOK /\ Conserved

-----------------------------------------------------------------------------
(* parsePopRequest takes no more bytes than there are, and leaves off no   *)
(* further.                                                                *)
LEMMA ParseType ==
  ASSUME NEW begun, NEW bytes \in Seq(Char), begun.cur \in 0 .. Len(bytes)
  PROVE  LET r == parsePopRequest(begun, bytes) IN
         /\ r.len \in 0 .. Len(bytes)
         /\ r.cmd # "INCOMPLETE" => r.next.cur = 0
         /\ r.cmd = "INCOMPLETE" => r.next.cur = Len(bytes) \/ r.next.cur = 0
<1> DEFINE st    == Run(begun, bytes)
           last  == st[Len(bytes)]
           first == CHOOSE n \in begun.cur .. Len(bytes) :
                      st[n].end # "no" /\ \A m \in begun.cur .. n - 1 : st[m].end = "no"
           cmd   == CommandOf(last)
           r     == parsePopRequest(begun, bytes)
           stops == {n \in begun.cur .. Len(bytes) : st[n].end # "no"}
<1>1. Len(bytes) \in Nat /\ (bytes # <<>> => Len(bytes) >= 1)
  BY LenProperties, EmptySeq
<1> HIDE DEF st
<1>2. CASE last.end = "accept"
  <2>1. stops \subseteq Nat /\ stops # {}
    BY <1>1, <1>2
  <2>2. PICK n \in stops : \A m \in stops : n <= m
    BY <2>1, LeastElement
  <2>3. \A m \in begun.cur .. n - 1 : st[m].end = "no"
    BY <1>1, <2>2
  <2>4. first \in begun.cur .. Len(bytes)
    BY <2>2, <2>3
  <2>5. r = Found(cmd, first,
                  IF cmd = "USER" THEN SubSeq(bytes, last.tag1 + 1, last.tag2) ELSE <<>>)
    BY <1>2 DEF parsePopRequest, st
  <2> QED
    BY <1>1, <2>4, <2>5 DEF Found, NotBegun
<1>3. CASE bytes # <<>> /\ last.end # "accept" /\ (last.end = "reject" \/ begun.cur = Len(bytes))
  <2>1. r = FallBack(bytes)
    BY <1>3 DEF parsePopRequest, st
  <2> QED
    BY <1>1, <1>3, <2>1 DEF FallBack, Found, NotBegun
<1>4. CASE /\ last.end # "accept"
           /\ ~(bytes # <<>> /\ (last.end = "reject" \/ begun.cur = Len(bytes)))
  <2>1. r = [cmd |-> "INCOMPLETE", len |-> 0, arg |-> <<>>, next |-> Suspend(last, Len(bytes))]
    BY <1>4 DEF parsePopRequest, st
  <2> QED
    BY <1>1, <2>1 DEF Suspend
<1> QED
  BY <1>2, <1>3, <1>4

(* What fillBuffer makes of the buffer and the socket.                     *)
LEMMA FilledType ==
  ASSUME BuffersOK
  PROVE  /\ buf \o Filled.got \in Seq(Char) /\ Filled.got \in Seq(Char) /\ Filled.left \in Seq(Char)
         /\ Len(buf \o Filled.got) \in Len(buf) .. BufSize
         /\ Filled.got \o Filled.left = sock
<1> DEFINE over == IF eof THEN "eof" ELSE "again"
           room == BufSize - Len(buf)
<1>1. /\ sock \in Seq(Char) /\ buf \in Seq(Char) /\ Len(buf) \in Nat
      /\ room \in Nat /\ BufSize \in Nat
  BY LexerAssumption, LenProperties DEF BuffersOK
<1>2. Filled = Read(sock, room, over)
  BY DEF Filled
<1>3. /\ Filled.got \in Seq(Char) /\ Filled.left \in Seq(Char)
      /\ Len(Filled.got) \in Nat /\ Len(Filled.got) <= room
      /\ Filled.got \o Filled.left = sock
  <2> HIDE DEF room, over
  <2> QED
    BY <1>1, <1>2, ReadType
<1>4. /\ buf \o Filled.got \in Seq(Char)
      /\ Len(buf \o Filled.got) = Len(buf) + Len(Filled.got)
  BY <1>1, <1>3, ConcatProperties
<1> QED
  BY <1>1, <1>3, <1>4

-----------------------------------------------------------------------------
LEMMA InitInv == Init => Inv
<1> SUFFICES ASSUME Init PROVE Inv
  OBVIOUS
<1>1. input \in Seq(Char) /\ BufSize \in Nat
  BY LexerAssumption DEF Init
<1>2. /\ <<>> \in Seq(Char) /\ Len(<<>>) = 0
      /\ <<>> \o <<>> = <<>> /\ <<>> \o input = input
  BY <1>1, EmptySeq, ConcatEmptySeq
<1>3. BuffersOK
  BY <1>1, <1>2 DEF Init, BuffersOK, NotBegun
<1>4. taken = <<>> /\ buf = <<>> /\ sock = <<>> /\ coming = input
  BY DEF Init
<1>5. Conserved
  BY <1>2, <1>4 DEF Conserved
<1> QED
  BY <1>3, <1>5 DEF Inv

LEMMA ArrivesInv == Inv /\ Arrives => Inv'
<1> SUFFICES ASSUME Inv, Arrives PROVE Inv'
  OBVIOUS
<1>1. PICK n \in 1 .. Len(coming) :
        /\ sock' = sock \o SubSeq(coming, 1, n)
        /\ coming' = SubSeq(coming, n + 1, Len(coming))
  BY DEF Arrives
<1>2. /\ coming \in Seq(Char) /\ sock \in Seq(Char) /\ buf \in Seq(Char) /\ taken \in Seq(Char)
      /\ n \in 0 .. Len(coming)
  BY LenProperties DEF Inv, BuffersOK
<1>3. /\ SubSeq(coming, 1, n) \in Seq(Char) /\ coming' \in Seq(Char)
      /\ SubSeq(coming, 1, n) \o coming' = coming
  BY <1>1, <1>2, Cut
<1>4. sock' \in Seq(Char)
  BY <1>1, <1>2, <1>3, ConcatProperties
<1>5. BuffersOK'
  BY <1>3, <1>4 DEF Arrives, Inv, BuffersOK
<1>6. taken \o buf \o sock' \o coming' = taken \o buf \o sock \o coming
  <2> DEFINE front == taken \o buf
             piece == SubSeq(coming, 1, n)
  <2>1. front \in Seq(Char)
    BY <1>2, ConcatProperties
  <2> HIDE DEF front, piece
  <2>2. sock \in Seq(Char) /\ coming' \in Seq(Char) /\ piece \in Seq(Char)
    BY <1>2, <1>3 DEF piece
  <2>3. front \o (sock \o piece) = (front \o sock) \o piece
    BY <2>1, <2>2, SMTT(30)
  <2>4. (front \o sock) \o piece \o coming' = (front \o sock) \o (piece \o coming')
    BY <2>1, <2>2, SMTT(30)
  <2> QED
    BY <1>1, <1>3, <2>3, <2>4 DEF front, piece
<1>7. Conserved'
  BY <1>6 DEF Arrives, Inv, Conserved
<1> QED
  BY <1>5, <1>7 DEF Inv

LEMMA LexCommandInv == Inv /\ LexCommand => Inv'
<1> SUFFICES ASSUME Inv, LexCommand PROVE Inv'
  OBVIOUS
<1> DEFINE bytes == buf \o Filled.got
           lexed == parsePopRequest(scan, bytes)
           head  == SubSeq(bytes, 1, lexed.len)
<1>1. /\ lexed.cmd # "INCOMPLETE" /\ sock' = Filled.left
      /\ buf' = SubSeq(bytes, lexed.len + 1, Len(bytes)) /\ scan' = lexed.next
      /\ taken' = taken \o head
      /\ coming' = coming /\ input' = input
  BY DEF LexCommand, Skipped
<1>2. /\ coming \in Seq(Char) /\ sock \in Seq(Char) /\ buf \in Seq(Char) /\ taken \in Seq(Char)
      /\ BufSize \in Nat /\ Len(buf) \in Nat /\ scan.cur \in 0 .. Len(buf)
  BY LexerAssumption, LenProperties DEF Inv, BuffersOK
<1>3. /\ bytes \in Seq(Char) /\ Filled.got \in Seq(Char) /\ sock' \in Seq(Char)
      /\ Len(bytes) \in Len(buf) .. BufSize /\ Filled.got \o sock' = sock
  BY <1>1, FilledType DEF Inv
<1>4. lexed.len \in 0 .. Len(bytes) /\ lexed.next.cur = 0
  <2>1. scan.cur \in 0 .. Len(bytes)
    BY <1>2, <1>3
  <2> HIDE DEF bytes
  <2> QED
    BY <1>1, <1>3, <2>1, ParseType
<1> HIDE DEF bytes, lexed
<1>5. /\ head \in Seq(Char) /\ buf' \in Seq(Char) /\ head \o buf' = bytes
      /\ Len(buf') <= Len(bytes)
  BY <1>1, <1>3, <1>4, Cut
<1> HIDE DEF head
<1>6. Len(buf') \in Nat /\ Len(buf') <= BufSize /\ scan'.cur = 0
  <2>1. Len(buf') \in Nat
    BY <1>5, LenProperties, Zenon
  <2> QED
    BY <1>1, <1>2, <1>3, <1>4, <1>5, <2>1
<1>7. taken' \in Seq(Char)
  BY <1>1, <1>2, <1>5, ConcatProperties
<1>8. BuffersOK'
  BY <1>1, <1>2, <1>3, <1>5, <1>6, <1>7, SMTT(30) DEF BuffersOK
<1>9. taken' \o buf' \o sock' = taken \o buf \o sock
  <2> DEFINE got == Filled.got
  <2> HIDE DEF got
  <2>1. /\ taken \in Seq(Char) /\ buf \in Seq(Char) /\ got \in Seq(Char)
        /\ head \in Seq(Char) /\ buf' \in Seq(Char) /\ sock' \in Seq(Char)
    BY <1>2, <1>3, <1>5 DEF got
  <2>2. (taken \o head) \o buf' \o sock' = taken \o (head \o buf') \o sock'
    BY <2>1
  <2>3. taken \o (buf \o got) \o sock' = taken \o buf \o (got \o sock')
    BY <2>1, SMTT(30)
  <2> QED
    BY <1>1, <1>3, <1>5, <2>2, <2>3 DEF bytes, got
<1>10. Conserved'
  BY <1>1, <1>9 DEF Inv, Conserved
<1> QED
  BY <1>8, <1>10 DEF Inv

LEMMA LexNothingInv == Inv /\ LexNothing => Inv'
<1> SUFFICES ASSUME Inv, LexNothing PROVE Inv'
  OBVIOUS
<1> DEFINE bytes == buf \o Filled.got
           lexed == parsePopRequest(scan, bytes)
<1>1. /\ lexed.cmd = "INCOMPLETE" /\ sock' = Filled.left
      /\ buf' = bytes /\ scan' = lexed.next
      /\ coming' = coming /\ input' = input /\ taken' = taken
  BY DEF LexNothing
<1>2. /\ coming \in Seq(Char) /\ sock \in Seq(Char) /\ buf \in Seq(Char) /\ taken \in Seq(Char)
      /\ BufSize \in Nat /\ Len(buf) \in Nat /\ scan.cur \in 0 .. Len(buf)
  BY LexerAssumption, LenProperties DEF Inv, BuffersOK
<1>3. /\ bytes \in Seq(Char) /\ Filled.got \in Seq(Char) /\ sock' \in Seq(Char)
      /\ Len(bytes) \in Len(buf) .. BufSize /\ Filled.got \o sock' = sock
  BY <1>1, FilledType DEF Inv
<1>4. lexed.next.cur \in 0 .. Len(bytes)
  <2>1. scan.cur \in 0 .. Len(bytes) /\ Len(bytes) \in Nat
    BY <1>2, <1>3
  <2> HIDE DEF bytes
  <2> QED
    BY <1>1, <1>3, <2>1, ParseType
<1> HIDE DEF lexed
<1>5. BuffersOK'
  <2> HIDE DEF bytes
  <2> QED
    BY <1>1, <1>2, <1>3, <1>4 DEF BuffersOK
<1>6. taken' \o buf' \o sock' = taken \o buf \o sock
  <2> DEFINE got == Filled.got
  <2> HIDE DEF got
  <2>1. /\ taken \in Seq(Char) /\ buf \in Seq(Char) /\ got \in Seq(Char)
        /\ sock' \in Seq(Char)
    BY <1>2, <1>3 DEF got
  <2>2. taken \o (buf \o got) \o sock' = taken \o buf \o (got \o sock')
    BY <2>1, SMTT(30)
  <2> QED
    BY <1>1, <1>3, <2>2 DEF got
<1>7. Conserved'
  BY <1>1, <1>6 DEF Inv, Conserved
<1> QED
  BY <1>5, <1>7 DEF Inv

(* No byte of the client is lost, doubled or moved, whatever it sends,     *)
(* however the input is cut and whatever the size of requestState: neither *)
(* the shift in fillBuffer nor tok = cur, the fallback to one byte         *)
(* included, drops or repeats anything, and lim never passes the end.      *)
THEOREM NothingLost == Spec => []Conserved
<1>1. Inv /\ [Next]_vars => Inv'
  <2> SUFFICES ASSUME Inv, [Next]_vars PROVE Inv'
    OBVIOUS
  <2>1. CASE Arrives
    BY <2>1, ArrivesInv
  <2>2. CASE ClientCloses
    BY <2>2 DEF ClientCloses, Inv, BuffersOK, Conserved
  <2>3. CASE Poll
    BY <2>3 DEF Poll, Inv, BuffersOK, Conserved
  <2>4. CASE LexCommand
    BY <2>4, LexCommandInv
  <2>5. CASE LexNothing
    BY <2>5, LexNothingInv
  <2>6. CASE UNCHANGED vars
    BY <2>6 DEF vars, Inv, BuffersOK, Conserved
  <2> QED
    BY <2>1, <2>2, <2>3, <2>4, <2>5, <2>6 DEF Next
<1>2. Inv => Conserved
  BY DEF Inv
<1> QED
  BY InitInv, <1>1, <1>2, PTL DEF Spec

-----------------------------------------------------------------------------
(* A line, byte by byte.                                                   *)
Blank(line, i, j) == \A k \in i .. j : line[k] = SP
Solid(line, i, j) == \A k \in i .. j : line[k] # SP
Begins(line, i)   == line[i] # SP /\ (i = 1 \/ line[i - 1] = SP)

(* The verb of a line is spelled, and a blank may follow it.               *)
Verb(line, w) == w \in 1 .. Len(line) /\ Solid(line, 1, w)
Behind(line, w) == Verb(line, w) /\ w < Len(line) /\ line[w + 1] = SP

(* No line that goes on from here is a command.                            *)
Hopeless(line) ==
  \/ Len(line) >= 1 /\ line[1] = SP
  \/ \E w \in Nat : Verb(line, w) /\ SubSeq(line, 1, w) \notin Prefixes
  \/ \E w \in Nat : Behind(line, w) /\ SubSeq(line, 1, w) \notin Words
  \/ \E w \in Nat : Behind(line, w) /\ SubSeq(line, 1, w) \notin ArgWords
                    /\ \E i \in w + 2 .. Len(line) : Begins(line, i)
  \/ \E i, j \in 2 .. Len(line) : i < j /\ Begins(line, i) /\ Begins(line, j)

(* What the scanner knows of a line that it has seen the beginning of.     *)
KnowsWord(line, st) == st.word = line /\ line \in Prefixes
KnowsBlanks(line, st) ==
  LET w == Len(st.word)
  IN  /\ st.word \in Words /\ Behind(line, w) /\ st.word = SubSeq(line, 1, w)
      /\ Blank(line, w + 1, Len(line))
KnowsArg(line, st) ==
  LET w == Len(st.word)
  IN  /\ st.word \in ArgWords /\ Behind(line, w) /\ st.word = SubSeq(line, 1, w)
      /\ st.tag1 \in w + 1 .. Len(line) /\ st.tag2 \in st.tag1 + 1 .. Len(line)
      /\ Blank(line, w + 1, st.tag1) /\ Solid(line, st.tag1 + 1, st.tag2)
      /\ Blank(line, st.tag2 + 1, Len(line))
Knows(line, st) ==
  /\ st.phase = "word"   => KnowsWord(line, st)
  /\ st.phase = "blanks" => KnowsBlanks(line, st)
  /\ st.phase = "arg"    => KnowsArg(line, st) /\ st.tag2 = Len(line)
  /\ st.phase = "tail"   => KnowsArg(line, st) /\ st.tag2 < Len(line)
  /\ st.phase = "text"   => Hopeless(line)

-----------------------------------------------------------------------------
(* The words of the protocol.                                              *)
Letter == {"q", "u", "i", "t", "s", "a", "l", "n", "o", "p", "r", "e", "c", "d"}
Byte   == Char \union Letter

LEMMA WordsAre ==
  /\ PlainWords = {<<"q","u","i","t">>, <<"s","t","a","t">>, <<"l","i","s","t">>,
                   <<"n","o","o","p">>, <<"r","s","e","t">>, <<"c","a","p","a">>}
  /\ ArgWords = {<<"u","s","e","r">>, <<"p","a","s","s">>, <<"l","i","s","t">>,
                 <<"r","e","t","r">>, <<"d","e","l","e">>}
<1>1. PlainWords = {Plain.QUIT, Plain.STAT, Plain.LIST, Plain.NOOP, Plain.RSET, Plain.CAPA}
  BY DEF PlainWords, RangeOf, Plain
<1>2. ArgWords = {WithArg.USER, WithArg.PASS, WithArg.LIST_MSG, WithArg.RETR, WithArg.DELE}
  BY DEF ArgWords, RangeOf, WithArg
<1> QED
  BY <1>1, <1>2 DEF Plain, WithArg

Spells(w) == w \in Seq(Byte) /\ Len(w) = 4 /\ Solid(w, 1, 4)

LEMMA FourLetters ==
  ASSUME NEW a \in Letter, NEW b \in Letter, NEW c \in Letter, NEW d \in Letter
  PROVE  Spells(<< a, b, c, d >>)
<1> DEFINE w == << a, b, c, d >>
<1>1. w \in Seq(Byte) /\ Len(w) = 4
  BY DEF Byte
<1>2. w[1] = a /\ w[2] = b /\ w[3] = c /\ w[4] = d
  OBVIOUS
<1>3. \A x \in Letter : x # SP
  BY DEF Letter, SP
<1> QED
  BY <1>1, <1>2, <1>3 DEF Spells, Solid

LEMMA WordSpelled ==
  ASSUME NEW w \in Words
  PROVE  Spells(w)
<1>1. /\ "q" \in Letter /\ "u" \in Letter /\ "i" \in Letter /\ "t" \in Letter /\ "s" \in Letter
      /\ "a" \in Letter /\ "l" \in Letter /\ "n" \in Letter /\ "o" \in Letter /\ "p" \in Letter
      /\ "r" \in Letter /\ "e" \in Letter /\ "c" \in Letter /\ "d" \in Letter
  BY DEF Letter
<1>2. w \in {<<"u","s","e","r">>, <<"p","a","s","s">>, <<"l","i","s","t">>,
             <<"r","e","t","r">>, <<"d","e","l","e">>, <<"q","u","i","t">>,
             <<"s","t","a","t">>, <<"n","o","o","p">>, <<"r","s","e","t">>,
             <<"c","a","p","a">>}
  BY WordsAre, Zenon DEF Words
<1>3. Spells(<<"u","s","e","r">>)
  BY <1>1, FourLetters, Zenon
<1>4. Spells(<<"p","a","s","s">>)
  BY <1>1, FourLetters, Zenon
<1>5. Spells(<<"l","i","s","t">>)
  BY <1>1, FourLetters, Zenon
<1>6. Spells(<<"r","e","t","r">>)
  BY <1>1, FourLetters, Zenon
<1>7. Spells(<<"d","e","l","e">>)
  BY <1>1, FourLetters, Zenon
<1>8. Spells(<<"q","u","i","t">>)
  BY <1>1, FourLetters, Zenon
<1>9. Spells(<<"s","t","a","t">>)
  BY <1>1, FourLetters, Zenon
<1>10. Spells(<<"n","o","o","p">>)
  BY <1>1, FourLetters, Zenon
<1>11. Spells(<<"r","s","e","t">>)
  BY <1>1, FourLetters, Zenon
<1>12. Spells(<<"c","a","p","a">>)
  BY <1>1, FourLetters, Zenon
<1> QED
  BY <1>2, <1>3, <1>4, <1>5, <1>6, <1>7, <1>8, <1>9, <1>10, <1>11, <1>12, Zenon

LEMMA PrefixType ==
  /\ <<>> \in Prefixes /\ <<>> \notin Words /\ Words \subseteq Prefixes
  /\ \A w \in Prefixes : w \in Seq(Byte) /\ Solid(w, 1, Len(w))
  /\ \A w \in Words : \A n \in 0 .. 4 : SubSeq(w, 1, n) \in Prefixes
<1>1. ASSUME NEW w \in Words, NEW n \in 0 .. 4
      PROVE  SubSeq(w, 1, n) \in Prefixes
  <2>1. n \in 0 .. Len(w)
    BY WordSpelled DEF Spells
  <2> QED
    BY <2>1 DEF Prefixes
<1>2. ASSUME NEW w \in Words
      PROVE  SubSeq(w, 1, 0) = <<>> /\ SubSeq(w, 1, 4) = w /\ w # <<>>
  <2>1. w \in Seq(Byte) /\ Len(w) = 4
    BY WordSpelled DEF Spells
  <2>2. SubSeq(w, 1, Len(w)) = w
    BY <2>1, SubSeqFull
  <2>3. SubSeq(w, 1, 0) = <<>>
    BY SubSeqEmpty
  <2> QED
    BY <2>1, <2>2, <2>3, EmptySeq, SMTT(30)
<1>3. <<"q","u","i","t">> \in Words
  BY WordsAre DEF Words
<1>4. ASSUME NEW p \in Prefixes
      PROVE  p \in Seq(Byte) /\ Solid(p, 1, Len(p))
  <2>0. PICK w \in Words : \E n \in 0 .. Len(w) : p = SubSeq(w, 1, n)
    BY <1>4 DEF Prefixes
  <2>1. PICK n \in 0 .. Len(w) : p = SubSeq(w, 1, n)
    BY <2>0
  <2>2. w \in Seq(Byte) /\ Len(w) = 4 /\ Solid(w, 1, 4)
    BY WordSpelled DEF Spells
  <2>3. \A i \in 1 .. n : w[i] \in Byte /\ w[i] # SP
    <3> SUFFICES ASSUME NEW i \in 1 .. n
                 PROVE  w[i] \in Byte /\ w[i] # SP
      OBVIOUS
    <3>1. i \in 1 .. 4 /\ i \in 1 .. Len(w)
      BY <2>2
    <3>2. w[i] \in Byte
      BY <2>2, <3>1, ElementOfSeq, Zenon
    <3> QED
      BY <2>2, <3>1, <3>2 DEF Solid
  <2>4. n \in 0 .. 4 /\ n \in Int /\ 1 \in Int
    BY <2>2
  <2>5. /\ p \in Seq(Byte) /\ Len(p) = IF 1 <= n THEN n - 1 + 1 ELSE 0
        /\ \A i \in 1 .. n - 1 + 1 : p[i] = w[1 + i - 1]
    BY <2>1, <2>3, <2>4, SubSeqProperties
  <2> QED
    BY <2>3, <2>4, <2>5 DEF Solid
<1>5. Words \subseteq Prefixes
  <2> SUFFICES ASSUME NEW w \in Words
               PROVE  w \in Prefixes
    OBVIOUS
  <2>1. 4 \in 0 .. 4
    OBVIOUS
  <2>2. SubSeq(w, 1, 4) \in Prefixes /\ SubSeq(w, 1, 4) = w
    BY <1>1, <1>2, <2>1, Zenon
  <2> QED
    BY <2>2
<1>6. <<>> \in Prefixes /\ <<>> \notin Words
  <2>1. 0 \in 0 .. 4
    OBVIOUS
  <2>2. PICK w \in Words : SubSeq(w, 1, 0) \in Prefixes /\ SubSeq(w, 1, 0) = <<>>
    BY <1>1, <1>2, <1>3, <2>1, Zenon
  <2> QED
    BY <1>2, <2>2, Zenon
<1> QED
  BY <1>1, <1>4, <1>5, <1>6, Zenon

-----------------------------------------------------------------------------
(* One more byte of a line.                                                *)
LEMMA Grown ==
  ASSUME NEW line \in Seq(Byte), NEW c \in Byte
  PROVE  LET grown == Append(line, c) IN
         /\ grown \in Seq(Byte) /\ Len(line) \in Nat /\ Len(grown) = Len(line) + 1
         /\ grown[Len(line) + 1] = c /\ \A i \in 1 .. Len(line) : grown[i] = line[i]
         /\ \A k \in 0 .. Len(line) : SubSeq(grown, 1, k) = SubSeq(line, 1, k)
<1> DEFINE grown == Append(line, c)
<1>1. /\ grown \in Seq(Byte) /\ Len(line) \in Nat /\ Len(grown) = Len(line) + 1
      /\ grown[Len(line) + 1] = c /\ \A i \in 1 .. Len(line) : grown[i] = line[i]
  BY AppendProperties, LenProperties
<1> HIDE DEF grown
<1>2. ASSUME NEW k \in 0 .. Len(line)
      PROVE  SubSeq(grown, 1, k) = SubSeq(line, 1, k)
  <2>1. \A i \in 1 .. k : line[i] \in Byte /\ grown[i] = line[i]
    <3> SUFFICES ASSUME NEW i \in 1 .. k
                 PROVE  line[i] \in Byte /\ grown[i] = line[i]
      OBVIOUS
    <3>1. i \in 1 .. Len(line)
      BY <1>1
    <3> QED
      BY <1>1, <3>1, ElementOfSeq
  <2>2. 1 \in Int /\ k \in Int
    OBVIOUS
  <2>3. /\ SubSeq(line, 1, k) \in Seq(Byte) /\ SubSeq(grown, 1, k) \in Seq(Byte)
        /\ Len(SubSeq(line, 1, k)) = IF 1 <= k THEN k - 1 + 1 ELSE 0
        /\ Len(SubSeq(grown, 1, k)) = IF 1 <= k THEN k - 1 + 1 ELSE 0
        /\ \A i \in 1 .. k - 1 + 1 : SubSeq(line, 1, k)[i] = line[1 + i - 1]
        /\ \A i \in 1 .. k - 1 + 1 : SubSeq(grown, 1, k)[i] = grown[1 + i - 1]
    BY <2>1, <2>2, SubSeqProperties
  <2>4. \A i \in 1 .. Len(SubSeq(line, 1, k)) : SubSeq(line, 1, k)[i] = SubSeq(grown, 1, k)[i]
    BY <2>1, <2>3
  <2> QED
    BY <2>3, <2>4, SeqEqual
<1> QED
  BY <1>1, <1>2 DEF grown

(* What is known of its beginning stays.                                   *)
LEMMA Stays ==
  ASSUME NEW line \in Seq(Byte), NEW c \in Byte, NEW grown, grown = Append(line, c)
  PROVE  /\ \A w \in Nat : Verb(line, w) => Verb(grown, w) /\ SubSeq(grown, 1, w) = SubSeq(line, 1, w)
         /\ \A w \in Nat : Behind(line, w) => Behind(grown, w)
         /\ \A i \in 1 .. Len(line) : Begins(line, i) => Begins(grown, i)
<1>1. /\ grown \in Seq(Byte) /\ Len(line) \in Nat /\ Len(grown) = Len(line) + 1
      /\ grown[Len(line) + 1] = c /\ \A i \in 1 .. Len(line) : grown[i] = line[i]
      /\ \A k \in 0 .. Len(line) : SubSeq(grown, 1, k) = SubSeq(line, 1, k)
  BY Grown
<1>2. \A w \in Nat : Verb(line, w) => Verb(grown, w) /\ SubSeq(grown, 1, w) = SubSeq(line, 1, w)
  BY <1>1 DEF Verb, Solid
<1>3. \A w \in Nat : Behind(line, w) => Behind(grown, w)
  BY <1>1, <1>2 DEF Behind
<1>4. \A i \in 1 .. Len(line) : Begins(line, i) => Begins(grown, i)
  BY <1>1 DEF Begins
<1> QED
  BY <1>2, <1>3, <1>4

LEMMA HopelessStays ==
  ASSUME NEW line \in Seq(Byte), NEW c \in Byte, Hopeless(line)
  PROVE  Hopeless(Append(line, c))
<1> DEFINE grown == Append(line, c)
<1>1. /\ grown \in Seq(Byte) /\ Len(line) \in Nat /\ Len(grown) = Len(line) + 1
      /\ \A i \in 1 .. Len(line) : grown[i] = line[i]
  BY Grown
<1>2. /\ \A w \in Nat : Verb(line, w) => Verb(grown, w) /\ SubSeq(grown, 1, w) = SubSeq(line, 1, w)
      /\ \A w \in Nat : Behind(line, w) => Behind(grown, w)
      /\ \A i \in 1 .. Len(line) : Begins(line, i) => Begins(grown, i)
  BY Stays
<1> SUFFICES Hopeless(grown)
  OBVIOUS
<1> HIDE DEF grown
<1>3. CASE Len(line) >= 1 /\ line[1] = SP
  BY <1>1, <1>3 DEF Hopeless
<1>4. CASE \E w \in Nat : Verb(line, w) /\ SubSeq(line, 1, w) \notin Prefixes
  BY <1>2, <1>4 DEF Hopeless
<1>5. CASE \E w \in Nat : Behind(line, w) /\ SubSeq(line, 1, w) \notin Words
  BY <1>2, <1>5 DEF Hopeless, Behind
<1>6. CASE \E w \in Nat : Behind(line, w) /\ SubSeq(line, 1, w) \notin ArgWords
                          /\ \E i \in w + 2 .. Len(line) : Begins(line, i)
  <2>1. PICK w \in Nat : Behind(line, w) /\ SubSeq(line, 1, w) \notin ArgWords
                         /\ \E i \in w + 2 .. Len(line) : Begins(line, i)
    BY <1>6
  <2>2. PICK i \in w + 2 .. Len(line) : Begins(line, i)
    BY <2>1
  <2>3. Begins(grown, i) /\ i \in w + 2 .. Len(grown)
    BY <1>1, <1>2, <2>2
  <2>4. Behind(grown, w) /\ SubSeq(grown, 1, w) \notin ArgWords
    BY <1>2, <2>1 DEF Behind
  <2> QED
    BY <2>3, <2>4 DEF Hopeless
<1>7. CASE \E i, j \in 2 .. Len(line) : i < j /\ Begins(line, i) /\ Begins(line, j)
  <2>1. PICK i \in 2 .. Len(line), j \in 2 .. Len(line) : i < j /\ Begins(line, i) /\ Begins(line, j)
    BY <1>7
  <2>2. /\ Begins(grown, i) /\ Begins(grown, j) /\ i < j
        /\ i \in 2 .. Len(grown) /\ j \in 2 .. Len(grown)
    BY <1>1, <1>2, <2>1
  <2> QED
    BY <2>2 DEF Hopeless
<1> QED
  BY <1>3, <1>4, <1>5, <1>6, <1>7 DEF Hopeless

-----------------------------------------------------------------------------
(* One step of the scanner.                                                *)
LEMMA StepIs ==
  ASSUME NEW st \in State, NEW c \in Char, NEW n \in Nat
  PROVE  /\ st.end # "no" => Step(st, c, n) = st
         /\ st.end = "no" /\ st.cr
              => Step(st, c, n) = [st EXCEPT !.end = IF c = LF THEN "accept" ELSE "reject"]
         /\ st.end = "no" /\ ~st.cr /\ c = CR => Step(st, c, n) = [st EXCEPT !.cr = TRUE]
         /\ st.end = "no" /\ ~st.cr /\ c # CR /\ ~Printable(c)
              => Step(st, c, n) = [st EXCEPT !.end = "reject"]
         /\ st.end = "no" /\ ~st.cr /\ Printable(c)
              => /\ st.phase = "word"   => Step(st, c, n) = InWord(st, c)
                 /\ st.phase = "blanks" => Step(st, c, n) = InBlanks(st, c, n)
                 /\ st.phase = "arg"    => Step(st, c, n) = InArg(st, c, n)
                 /\ st.phase = "tail"   => Step(st, c, n) = InTail(st, c)
                 /\ st.phase = "text"   => Step(st, c, n) = st
<1> DEFINE s == Step(st, c, n)
<1>1. s = CASE st.end # "no" -> st
            [] st.end = "no" /\ st.cr -> [st EXCEPT !.end = IF c = LF THEN "accept" ELSE "reject"]
            [] st.end = "no" /\ ~st.cr /\ c = CR -> [st EXCEPT !.cr = TRUE]
            [] st.end = "no" /\ ~st.cr /\ c # CR /\ ~Printable(c) -> [st EXCEPT !.end = "reject"]
            [] OTHER ->
                 CASE st.phase = "word"   -> InWord(st, c)
                   [] st.phase = "blanks" -> InBlanks(st, c, n)
                   [] st.phase = "arg"    -> InArg(st, c, n)
                   [] st.phase = "tail"   -> InTail(st, c)
                   [] st.phase = "text"   -> st
  BY DEF Step
<1> HIDE DEF s
<1>2. CASE st.end # "no"
  BY <1>1, <1>2 DEF s
<1>3. CASE st.end = "no" /\ st.cr
  <2>1. s = [st EXCEPT !.end = IF c = LF THEN "accept" ELSE "reject"]
    BY <1>1, <1>3
  <2> QED
    BY <1>3, <2>1 DEF s
<1>4. CASE st.end = "no" /\ ~st.cr /\ c = CR
  <2>1. s = [st EXCEPT !.cr = TRUE]
    BY <1>1, <1>4
  <2> QED
    BY <1>4, <2>1 DEF s, Printable
<1>5. CASE st.end = "no" /\ ~st.cr /\ c # CR /\ ~Printable(c)
  <2>1. s = [st EXCEPT !.end = "reject"]
    BY <1>1, <1>5
  <2> QED
    BY <1>5, <2>1 DEF s
<1>6. CASE st.end = "no" /\ ~st.cr /\ Printable(c)
  <2>1. c # CR
    BY <1>6 DEF Printable
  <2>2. s = CASE st.phase = "word"   -> InWord(st, c)
              [] st.phase = "blanks" -> InBlanks(st, c, n)
              [] st.phase = "arg"    -> InArg(st, c, n)
              [] st.phase = "tail"   -> InTail(st, c)
              [] st.phase = "text"   -> st
    BY <1>1, <1>6, <2>1
  <2> QED
    BY <1>6, <2>1, <2>2 DEF s
<1>7. st.cr \in BOOLEAN
  BY DEF State
<1> QED
  BY <1>2, <1>3, <1>4, <1>5, <1>6, <1>7

LEMMA StateParts ==
  ASSUME NEW st \in State
  PROVE  /\ st.phase \in Phase /\ st.word \in Prefixes /\ st.cr \in BOOLEAN
         /\ st.end \in {"no", "accept", "reject"} /\ st.tag1 \in Nat /\ st.tag2 \in Nat
BY PrefixType DEF State

LEMMA StepType ==
  ASSUME NEW st \in State, NEW c \in Char, NEW n \in Nat \ {0}
  PROVE  Step(st, c, n) \in State
<1>1. /\ st.phase \in Phase /\ st.word \in Prefixes /\ st.cr \in BOOLEAN
      /\ st.end \in {"no", "accept", "reject"} /\ st.tag1 \in Nat /\ st.tag2 \in Nat
  BY StateParts
<1>2. \A p \in Phase : [st EXCEPT !.phase = p] \in State
  BY DEF State
<1>3. InWord(st, c) \in State
  <2>1. CASE Append(st.word, c) \in Prefixes
    BY <2>1 DEF InWord, State
  <2>2. CASE Append(st.word, c) \notin Prefixes
    <3>1. InWord(st, c) = [st EXCEPT !.phase = IF c = SP /\ st.word \in Words THEN "blanks" ELSE "text"]
      BY <2>2 DEF InWord
    <3>2. (IF c = SP /\ st.word \in Words THEN "blanks" ELSE "text") \in Phase
      BY DEF Phase
    <3> QED
      BY <1>2, <3>1, <3>2, Zenon
  <2> QED
    BY <2>1, <2>2
<1>4. InBlanks(st, c, n) \in State
  <2>1. "arg" \in Phase /\ "text" \in Phase /\ n - 1 \in Nat
    BY DEF Phase
  <2>2. [st EXCEPT !.phase = "arg", !.tag1 = n - 1, !.tag2 = n] \in State
    BY <2>1 DEF State
  <2>3. InBlanks(st, c, n) \in {st, [st EXCEPT !.phase = "arg", !.tag1 = n - 1, !.tag2 = n],
                               [st EXCEPT !.phase = "text"]}
    BY DEF InBlanks
  <2> QED
    BY <1>2, <2>1, <2>2, <2>3
<1>5. InArg(st, c, n) \in State
  BY <1>1 DEF InArg, State, Phase
<1>6. InTail(st, c) \in State
  BY <1>1 DEF InTail, State, Phase
<1>7. /\ [st EXCEPT !.end = IF c = LF THEN "accept" ELSE "reject"] \in State
      /\ [st EXCEPT !.cr = TRUE] \in State /\ [st EXCEPT !.end = "reject"] \in State
  BY DEF State
<1>8. CASE st.end # "no"
  BY <1>8, StepIs
<1>9. CASE st.end = "no" /\ st.cr
  <2>1. Step(st, c, n) = [st EXCEPT !.end = IF c = LF THEN "accept" ELSE "reject"]
    BY <1>9, StepIs
  <2> QED
    BY <1>7, <2>1, Zenon
<1>10. CASE st.end = "no" /\ ~st.cr /\ ~Printable(c)
  <2>1. Step(st, c, n) = [st EXCEPT !.cr = TRUE] \/ Step(st, c, n) = [st EXCEPT !.end = "reject"]
    BY <1>10, StepIs
  <2> QED
    BY <1>7, <2>1, Zenon
<1>11. CASE st.end = "no" /\ ~st.cr /\ Printable(c)
  <2>1. \/ Step(st, c, n) = InWord(st, c) \/ Step(st, c, n) = InBlanks(st, c, n)
        \/ Step(st, c, n) = InArg(st, c, n) \/ Step(st, c, n) = InTail(st, c)
        \/ Step(st, c, n) = st
    BY <1>1, <1>11, StepIs DEF Phase
  <2> QED
    BY <1>3, <1>4, <1>5, <1>6, <2>1, Zenon
<1> QED
  BY <1>8, <1>9, <1>10, <1>11

(* What is blank or solid up to the end of a line is so in the grown one.  *)
LEMMA Extends ==
  ASSUME NEW line, NEW grown, NEW c, Len(line) \in Nat, Len(grown) = Len(line) + 1,
         grown[Len(line) + 1] = c, \A i \in 1 .. Len(line) : grown[i] = line[i],
         NEW i \in Nat \ {0}, NEW j \in Nat
  PROVE  /\ j <= Len(line) /\ Blank(line, i, j) => Blank(grown, i, j)
         /\ j <= Len(line) /\ Solid(line, i, j) => Solid(grown, i, j)
         /\ Blank(line, i, Len(line)) /\ c = SP => Blank(grown, i, Len(grown))
         /\ Solid(line, i, Len(line)) /\ c # SP => Solid(grown, i, Len(grown))
<1>1. ASSUME NEW k \in i .. j, j <= Len(line)
      PROVE  grown[k] = line[k]
  BY <1>1
<1>2. ASSUME NEW k \in i .. Len(grown)
      PROVE  k = Len(line) + 1 \/ (k \in i .. Len(line) /\ grown[k] = line[k])
  <2>1. k = Len(line) + 1 \/ k \in i .. Len(line)
    OBVIOUS
  <2> QED
    BY <2>1
<1> QED
  BY <1>1, <1>2 DEF Blank, Solid

(* In a line that goes on, a step keeps what the scanner knows of it true. *)
LEMMA WordGrows ==
  ASSUME NEW st \in State, st.phase = "word", st.end = "no", ~st.cr,
         NEW line \in Seq(Byte), NEW c \in Char, Printable(c), Knows(line, st)
  PROVE  LET s == InWord(st, c) IN
         s.end = "no" /\ ~s.cr /\ Knows(Append(line, c), s)
<1> DEFINE grown == Append(line, c)
           s == InWord(st, c)
<1>1. /\ grown \in Seq(Byte) /\ Len(line) \in Nat /\ Len(grown) = Len(line) + 1
      /\ grown[Len(line) + 1] = c /\ \A i \in 1 .. Len(line) : grown[i] = line[i]
      /\ \A k \in 0 .. Len(line) : SubSeq(grown, 1, k) = SubSeq(line, 1, k)
  BY Grown DEF Byte
<1>2. st.word = line /\ line \in Prefixes /\ Solid(line, 1, Len(line)) /\ SubSeq(line, 1, Len(line)) = line
  BY PrefixType, SubSeqFull DEF Knows, KnowsWord
<1>3. SubSeq(grown, 1, Len(line)) = line /\ SubSeq(grown, 1, Len(grown)) = grown
  <2>1. Len(line) \in 0 .. Len(line)
    BY <1>1
  <2> QED
    BY <1>1, <1>2, <2>1, SubSeqFull
<1> SUFFICES s.end = "no" /\ ~s.cr /\ Knows(grown, s)
  OBVIOUS
<1>4. CASE grown \in Prefixes
  <2>1. s = [st EXCEPT !.word = grown]
    BY <1>2, <1>4 DEF InWord
  <2>2. s.word = grown /\ s.phase = "word" /\ s.end = "no" /\ ~s.cr
    BY <2>1 DEF State
  <2> HIDE DEF s, grown
  <2> QED
    BY <1>4, <2>2 DEF Knows, KnowsWord
<1>5. CASE grown \notin Prefixes /\ c = SP /\ line \in Words
  <2>1. s = [st EXCEPT !.phase = "blanks"]
    BY <1>2, <1>5 DEF InWord
  <2>2. s.word = line /\ s.phase = "blanks" /\ s.end = "no" /\ ~s.cr
    BY <1>2, <2>1 DEF State
  <2>3. Len(line) = 4
    BY <1>5, WordSpelled DEF Spells
  <2> HIDE DEF s, grown
  <2>4. Behind(grown, Len(line))
    BY <1>1, <1>2, <1>5, <2>3 DEF Behind, Verb, Solid
  <2>5. Blank(grown, Len(line) + 1, Len(grown))
    BY <1>1, <1>5, <2>3 DEF Blank
  <2> QED
    BY <1>3, <1>5, <2>2, <2>4, <2>5 DEF Knows, KnowsBlanks
<1>6. CASE grown \notin Prefixes /\ ~(c = SP /\ line \in Words)
  <2>1. s = [st EXCEPT !.phase = "text"]
    BY <1>2, <1>6 DEF InWord
  <2>2. s.phase = "text" /\ s.end = "no" /\ ~s.cr
    BY <2>1 DEF State
  <2> HIDE DEF s, grown
  <2>3. CASE c # SP
    <3>1. Verb(grown, Len(grown))
      BY <1>1, <1>2, <2>3 DEF Verb, Solid
    <3>2. SubSeq(grown, 1, Len(grown)) \notin Prefixes
      BY <1>3, <1>6, Zenon
    <3>3. Len(grown) \in Nat
      BY <1>1
    <3> QED
      BY <2>2, <3>1, <3>2, <3>3 DEF Knows, Hopeless
  <2>4. CASE c = SP /\ Len(line) = 0
    <3>1. Len(grown) >= 1 /\ grown[1] = SP
      BY <1>1, <2>4
    <3> QED
      BY <2>2, <3>1 DEF Knows, Hopeless
  <2>5. CASE c = SP /\ Len(line) # 0
    <3>1. Behind(grown, Len(line))
      BY <1>1, <1>2, <2>5 DEF Behind, Verb, Solid
    <3>2. SubSeq(grown, 1, Len(line)) \notin Words /\ Len(line) \in Nat
      BY <1>1, <1>3, <1>6, <2>5
    <3> QED
      BY <2>2, <3>1, <3>2 DEF Knows, Hopeless
  <2> QED
    BY <2>3, <2>4, <2>5
<1> QED
  BY <1>4, <1>5, <1>6

LEMMA BlanksGrow ==
  ASSUME NEW st \in State, st.phase = "blanks", st.end = "no", ~st.cr,
         NEW line \in Seq(Byte), NEW c \in Char, Printable(c), Knows(line, st)
  PROVE  LET s == InBlanks(st, c, Len(line) + 1) IN
         s.end = "no" /\ ~s.cr /\ Knows(Append(line, c), s)
<1> DEFINE grown == Append(line, c)
           s == InBlanks(st, c, Len(line) + 1)
           w == Len(st.word)
<1>1. /\ grown \in Seq(Byte) /\ Len(line) \in Nat /\ Len(grown) = Len(line) + 1
      /\ grown[Len(line) + 1] = c /\ \A i \in 1 .. Len(line) : grown[i] = line[i]
  BY Grown DEF Byte
<1>2. /\ st.word \in Words /\ Behind(line, w) /\ st.word = SubSeq(line, 1, w)
      /\ Blank(line, w + 1, Len(line))
  BY DEF Knows, KnowsBlanks
<1>3. w \in 1 .. Len(line) - 1 /\ w \in Nat /\ Verb(line, w)
  BY <1>2 DEF Behind, Verb
<1>4. /\ Verb(grown, w) /\ SubSeq(grown, 1, w) = SubSeq(line, 1, w) /\ Behind(grown, w)
  <2> HIDE DEF w
  <2>1. c \in Byte /\ grown = Append(line, c)
    BY DEF Byte
  <2> HIDE DEF grown
  <2> QED
    BY <1>2, <1>3, <2>1, Stays
<1> SUFFICES s.end = "no" /\ ~s.cr /\ Knows(grown, s)
  OBVIOUS
<1>5. CASE c = SP
  <2>1. s = st
    BY <1>5 DEF InBlanks
  <2> HIDE DEF grown, s
  <2>2. Blank(grown, w + 1, Len(grown))
    <3> HIDE DEF w
    <3>1. w + 1 \in Nat \ {0}
      BY <1>3
    <3> QED
      BY <1>1, <1>2, <1>5, <3>1, Extends
  <2>3. KnowsBlanks(grown, s)
    BY <1>2, <1>4, <2>1, <2>2 DEF KnowsBlanks
  <2> QED
    BY <2>1, <2>3 DEF Knows
<1>6. CASE c # SP /\ st.word \in ArgWords
  <2>1. s = [st EXCEPT !.phase = "arg", !.tag1 = Len(line) + 1 - 1, !.tag2 = Len(line) + 1]
    BY <1>6 DEF InBlanks
  <2>2. /\ s.phase = "arg" /\ s.tag1 = Len(line) /\ s.tag2 = Len(line) + 1 /\ s.word = st.word
        /\ s.end = "no" /\ ~s.cr
    <3> HIDE DEF s
    <3>1. Len(line) + 1 - 1 = Len(line)
      BY <1>1
    <3>2. s = [st EXCEPT !.phase = "arg", !.tag1 = Len(line), !.tag2 = Len(line) + 1]
      BY <2>1, <3>1, Zenon
    <3>3. /\ s.phase = "arg" /\ s.tag1 = Len(line) /\ s.tag2 = Len(line) + 1
          /\ s.word = st.word /\ s.end = st.end /\ s.cr = st.cr
      BY <3>2 DEF State
    <3> QED
      BY <3>3
  <2> HIDE DEF grown, s
  <2>3. KnowsArg(grown, s)
    <3>1. s.tag1 \in w + 1 .. Len(grown) /\ s.tag2 \in s.tag1 + 1 .. Len(grown)
      <4> HIDE DEF w
      <4> QED
        BY <1>1, <1>3, <2>2
    <3>2. /\ Blank(grown, w + 1, s.tag1) /\ Solid(grown, s.tag1 + 1, s.tag2)
          /\ Blank(grown, s.tag2 + 1, Len(grown))
      <4> HIDE DEF w
      <4> QED
        BY <1>1, <1>2, <1>3, <1>6, <2>2 DEF Blank, Solid
    <3> QED
      BY <1>2, <1>4, <1>6, <2>2, <3>1, <3>2 DEF KnowsArg
  <2> QED
    BY <1>1, <2>2, <2>3 DEF Knows
<1>7. CASE c # SP /\ st.word \notin ArgWords
  <2>1. s = [st EXCEPT !.phase = "text"]
    BY <1>7 DEF InBlanks
  <2>2. s.phase = "text" /\ s.end = "no" /\ ~s.cr
    BY <2>1 DEF State
  <2> HIDE DEF grown, s
  <2>3. Len(grown) \in w + 2 .. Len(grown) /\ Begins(grown, Len(grown))
    <3> HIDE DEF w
    <3>1. Len(line) \in w + 1 .. Len(line) /\ Len(line) \in 1 .. Len(line)
      BY <1>1, <1>3
    <3>2. grown[Len(line)] = SP
      BY <1>1, <1>2, <3>1 DEF Blank
    <3>3. Len(grown) - 1 = Len(line) /\ Len(grown) \in w + 2 .. Len(grown)
      BY <1>1, <1>3
    <3> QED
      BY <1>1, <1>7, <3>2, <3>3 DEF Begins
  <2>4. SubSeq(grown, 1, w) \notin ArgWords
    BY <1>2, <1>4, <1>7, Zenon
  <2>5. Hopeless(grown)
    <3> HIDE DEF w
    <3> QED
      BY <1>3, <1>4, <2>3, <2>4 DEF Hopeless
  <2> QED
    BY <2>2, <2>5 DEF Knows
<1> QED
  BY <1>5, <1>6, <1>7

(* An argument, and the blanks behind it.                                  *)
LEMMA ArgGrows ==
  ASSUME NEW st \in State, st.phase \in {"arg", "tail"}, st.end = "no", ~st.cr,
         NEW line \in Seq(Byte), NEW c \in Char, Printable(c), Knows(line, st),
         NEW s, s = IF st.phase = "arg" THEN InArg(st, c, Len(line) + 1) ELSE InTail(st, c)
  PROVE  s.end = "no" /\ ~s.cr /\ Knows(Append(line, c), s)
<1> DEFINE grown == Append(line, c)
           w == Len(st.word)
<1>1. /\ grown \in Seq(Byte) /\ Len(line) \in Nat /\ Len(grown) = Len(line) + 1
      /\ grown[Len(line) + 1] = c /\ \A i \in 1 .. Len(line) : grown[i] = line[i]
  BY Grown DEF Byte
<1>2. KnowsArg(line, st) /\ (st.phase = "arg" <=> st.tag2 = Len(line))
  <2>1. st.phase = "arg" => st.phase # "tail"
    OBVIOUS
  <2>2. st.tag2 < Len(line) => st.tag2 # Len(line)
    BY <1>1 DEF State
  <2> QED
    BY <2>1, <2>2 DEF Knows
<1>3. /\ st.word \in ArgWords /\ Behind(line, w) /\ st.word = SubSeq(line, 1, w)
      /\ st.tag1 \in w + 1 .. Len(line) /\ st.tag2 \in st.tag1 + 1 .. Len(line)
      /\ Blank(line, w + 1, st.tag1) /\ Solid(line, st.tag1 + 1, st.tag2)
      /\ Blank(line, st.tag2 + 1, Len(line))
  BY <1>2 DEF KnowsArg
<1>4. w \in 1 .. Len(line) - 1 /\ w \in Nat /\ Verb(line, w) /\ st.tag1 \in Nat /\ st.tag2 \in Nat
  BY <1>3 DEF Behind, Verb, State
<1>5. /\ Verb(grown, w) /\ SubSeq(grown, 1, w) = SubSeq(line, 1, w) /\ Behind(grown, w)
      /\ \A i \in 1 .. Len(line) : Begins(line, i) => Begins(grown, i)
  <2> HIDE DEF w
  <2>1. c \in Byte /\ grown = Append(line, c)
    BY DEF Byte
  <2> HIDE DEF grown
  <2> QED
    BY <1>3, <1>4, <2>1, Stays
<1> SUFFICES s.end = "no" /\ ~s.cr /\ Knows(grown, s)
  OBVIOUS
<1> HIDE DEF grown
<1>6. CASE c = SP
  <2>1. s = [st EXCEPT !.phase = "tail"] \/ (st.phase = "tail" /\ s = st)
    BY <1>6 DEF InArg, InTail
  <2>2. /\ s.phase = "tail" /\ s.tag1 = st.tag1 /\ s.tag2 = st.tag2 /\ s.word = st.word
        /\ s.end = "no" /\ ~s.cr
    BY <2>1 DEF State
  <2>3. KnowsArg(grown, s) /\ s.tag2 < Len(grown)
    <3>1. /\ s.tag1 \in w + 1 .. Len(grown) /\ s.tag2 \in s.tag1 + 1 .. Len(grown)
          /\ s.tag2 < Len(grown)
      <4> HIDE DEF w
      <4> QED
        BY <1>1, <1>3, <1>4, <2>2
    <3>2. /\ Blank(grown, w + 1, s.tag1) /\ Solid(grown, s.tag1 + 1, s.tag2)
          /\ Blank(grown, s.tag2 + 1, Len(grown))
      <4> HIDE DEF w
      <4>1. /\ w + 1 \in Nat \ {0} /\ st.tag1 + 1 \in Nat \ {0} /\ st.tag2 + 1 \in Nat \ {0}
            /\ st.tag1 <= Len(line) /\ st.tag2 <= Len(line)
        BY <1>1, <1>3, <1>4
      <4>2. Blank(grown, w + 1, st.tag1)
        BY <1>1, <1>3, <1>4, <4>1, Extends
      <4>3. Solid(grown, st.tag1 + 1, st.tag2)
        BY <1>1, <1>3, <1>4, <4>1, Extends
      <4>4. Blank(grown, st.tag2 + 1, Len(grown))
        BY <1>1, <1>3, <1>6, <4>1, Extends, SMTT(30)
      <4> QED
        BY <2>2, <4>2, <4>3, <4>4
    <3> QED
      BY <1>3, <1>5, <2>2, <3>1, <3>2 DEF KnowsArg
  <2> QED
    BY <2>2, <2>3 DEF Knows
<1>7. CASE c # SP /\ st.phase = "arg"
  <2>1. s = [st EXCEPT !.tag2 = Len(line) + 1] /\ st.tag2 = Len(line)
    BY <1>2, <1>7 DEF InArg
  <2>2. /\ s.phase = "arg" /\ s.tag1 = st.tag1 /\ s.tag2 = Len(grown) /\ s.word = st.word
        /\ s.end = "no" /\ ~s.cr
    BY <1>1, <1>7, <2>1 DEF State
  <2>3. KnowsArg(grown, s)
    <3>1. /\ s.tag1 \in w + 1 .. Len(grown) /\ s.tag2 \in s.tag1 + 1 .. Len(grown)
      <4> HIDE DEF w
      <4> QED
        BY <1>1, <1>3, <1>4, <2>1, <2>2
    <3>2. /\ Blank(grown, w + 1, s.tag1) /\ Solid(grown, s.tag1 + 1, s.tag2)
          /\ Blank(grown, s.tag2 + 1, Len(grown))
      <4> HIDE DEF w
      <4>1. /\ w + 1 \in Nat \ {0} /\ st.tag1 + 1 \in Nat \ {0} /\ st.tag1 <= Len(line)
        BY <1>1, <1>3, <1>4
      <4>2. Blank(grown, w + 1, st.tag1)
        BY <1>1, <1>3, <1>4, <4>1, Extends
      <4>3. Solid(grown, st.tag1 + 1, Len(grown))
        BY <1>1, <1>3, <1>7, <2>1, <4>1, Extends
      <4>4. Blank(grown, Len(grown) + 1, Len(grown))
        BY <1>1 DEF Blank
      <4> QED
        BY <2>2, <4>2, <4>3, <4>4
    <3> QED
      BY <1>3, <1>5, <2>2, <3>1, <3>2 DEF KnowsArg
  <2> QED
    BY <2>2, <2>3 DEF Knows
<1>8. CASE c # SP /\ st.phase = "tail"
  <2>1. s = [st EXCEPT !.phase = "text"]
    BY <1>8 DEF InTail
  <2>2. s.phase = "text" /\ s.end = "no" /\ ~s.cr
    BY <2>1 DEF State
  <2> DEFINE i == st.tag1 + 1
             j == Len(grown)
  <2>3. st.tag2 < Len(line)
    BY <1>1, <1>2, <1>3, <1>4, <1>8
  <2>4. Begins(line, i) /\ i \in 2 .. Len(line)
    <3> HIDE DEF w
    <3>1. st.tag1 \in w + 1 .. st.tag1 /\ i \in st.tag1 + 1 .. st.tag2 /\ i - 1 = st.tag1
      BY <1>3, <1>4
    <3>2. line[st.tag1] = SP /\ line[i] # SP
      BY <1>3, <3>1 DEF Blank, Solid
    <3> QED
      BY <1>1, <1>3, <1>4, <3>1, <3>2, SMTT(30) DEF Begins
  <2>5. Begins(grown, j)
    <3>1. Len(line) \in st.tag2 + 1 .. Len(line) /\ Len(line) \in 1 .. Len(line)
      BY <1>1, <1>4, <2>3
    <3>2. line[Len(line)] = SP
      BY <1>3, <3>1 DEF Blank
    <3>3. j - 1 = Len(line) /\ grown[j - 1] = SP /\ grown[j] = c
      BY <1>1, <3>1, <3>2
    <3> QED
      BY <1>8, <3>3 DEF Begins
  <2>6. i \in 2 .. Len(grown) /\ j \in 2 .. Len(grown) /\ i < j /\ Begins(grown, i)
    BY <1>1, <1>5, <2>4
  <2> HIDE DEF i, j
  <2>7. Hopeless(grown)
    BY <2>5, <2>6 DEF Hopeless
  <2> QED
    BY <2>2, <2>7 DEF Knows
<1> QED
  BY <1>6, <1>7, <1>8

LEMMA LineGrows ==
  ASSUME NEW st \in State, st.end = "no", ~st.cr,
         NEW line \in Seq(Byte), NEW c \in Char, Printable(c), Knows(line, st),
         NEW s, s = Step(st, c, Len(line) + 1)
  PROVE  s.end = "no" /\ ~s.cr /\ Knows(Append(line, c), s)
<1>1. Len(line) + 1 \in Nat
  BY LenProperties
<1>2. CASE st.phase = "word"
  <2>1. s = InWord(st, c)
    BY <1>1, <1>2, StepIs
  <2> QED
    BY <1>2, <2>1, WordGrows
<1>3. CASE st.phase = "blanks"
  <2>1. s = InBlanks(st, c, Len(line) + 1)
    BY <1>1, <1>3, StepIs
  <2> QED
    BY <1>3, <2>1, BlanksGrow
<1>4. CASE st.phase \in {"arg", "tail"}
  <2>1. s = IF st.phase = "arg" THEN InArg(st, c, Len(line) + 1) ELSE InTail(st, c)
    BY <1>1, <1>4, StepIs
  <2> QED
    BY <1>4, <2>1, ArgGrows
<1>5. CASE st.phase = "text"
  <2>1. s = st
    BY <1>1, <1>5, StepIs
  <2>2. Hopeless(Append(line, c))
    BY <1>5, HopelessStays DEF Knows, Byte
  <2> QED
    BY <1>5, <2>1, <2>2 DEF Knows
<1> QED
  BY <1>2, <1>3, <1>4, <1>5, StateParts DEF Phase

-----------------------------------------------------------------------------
(* The states the scanner goes through.                                    *)
Trace(st, begun, bytes) ==
  /\ st[begun.cur] = begun.state
  /\ \A n \in begun.cur + 1 .. Len(bytes) : st[n] = Step(st[n - 1], bytes[n], n)
  /\ \A n \in begun.cur .. Len(bytes) : st[n] \in State

LEMMA StatesOf ==
  ASSUME NEW first \in State, NEW N \in Nat, NEW step \in [1 .. N -> [State -> State]]
  PROVE  \E f \in [0 .. N -> State] : f[0] = first /\ \A n \in 1 .. N : f[n] = step[n][f[n - 1]]
BY Recursion

LEMMA RunIs ==
  ASSUME NEW begun, NEW bytes \in Seq(Char), begun.state \in State, begun.cur \in 0 .. Len(bytes)
  PROVE  Trace(Run(begun, bytes), begun, bytes)
<1> DEFINE c == begun.cur
           N == Len(bytes) - c
           step == [k \in 1 .. N |-> Move(bytes[c + k], c + k)]
           Body(f, n) == IF n = c THEN begun.state ELSE Move(bytes[n], n)[f[n - 1]]
           st == CHOOSE f : f = [n \in c .. Len(bytes) |-> Body(f, n)]
           T == {k \in 0 .. N : st[c + k] \in State}
<1>1. /\ N \in Nat /\ c \in Nat /\ Len(bytes) \in Nat /\ Len(bytes) = c + N
      /\ \A n \in 1 .. Len(bytes) : bytes[n] \in Char
  BY LenProperties, ElementOfSeq
<1>2. step \in [1 .. N -> [State -> State]]
  <2>1. ASSUME NEW k \in 1 .. N, NEW s \in State
        PROVE  Step(s, bytes[c + k], c + k) \in State
    <3>1. c + k \in Nat \ {0} /\ c + k \in 1 .. Len(bytes)
      BY <1>1
    <3>2. bytes[c + k] \in Char
      BY <1>1, <3>1
    <3> QED
      BY <3>1, <3>2, StepType
  <2> QED
    BY <2>1 DEF Move
<1> HIDE DEF step
<1>3. PICK g \in [0 .. N -> State] :
        g[0] = begun.state /\ \A k \in 1 .. N : g[k] = step[k][g[k - 1]]
  BY <1>1, <1>2, StatesOf
<1> DEFINE h == [n \in c .. Len(bytes) |-> g[n - c]]
<1>4. ASSUME NEW n \in c .. Len(bytes)
      PROVE  h[n] = Body(h, n)
  <2>1. CASE n = c
    <3>1. h[c] = g[c - c] /\ c - c = 0
      BY <1>1
    <3> QED
      BY <1>3, <2>1, <3>1
  <2>2. CASE n # c
    <3>1. /\ n - c \in 1 .. N /\ n - 1 \in c .. Len(bytes) /\ (n - 1) - c = (n - c) - 1
          /\ (n - c) - 1 \in 0 .. N /\ c + (n - c) = n
      BY <1>1, <2>2, SMTT(30)
    <3>2. h[n] = g[n - c] /\ h[n - 1] = g[(n - c) - 1]
      BY <3>1
    <3>3. g[(n - c) - 1] \in State
      BY <3>1
    <3>4. g[n - c] = Move(bytes[n], n)[g[(n - c) - 1]]
      BY <1>3, <3>1, <3>3 DEF step
    <3> HIDE DEF h
    <3> QED
      BY <2>2, <3>2, <3>4
  <2> QED
    BY <2>1, <2>2
<1> HIDE DEF Body
<1>5. h = [n \in c .. Len(bytes) |-> Body(h, n)]
  BY <1>4
<1> HIDE DEF h
<1>6. st = [n \in c .. Len(bytes) |-> Body(st, n)]
  BY <1>5
<1>7. Run(begun, bytes) = st
  BY DEF Run, Body
<1> HIDE DEF st
<1>8. \A n \in c .. Len(bytes) : st[n] = Body(st, n)
  BY <1>6
<1>9. st[c] = begun.state
  <2>1. c \in c .. Len(bytes)
    BY <1>1
  <2>2. st[c] = Body(st, c)
    BY <1>8, <2>1
  <2>3. Body(st, c) = begun.state
    BY Zenon DEF Body
  <2> QED
    BY <2>2, <2>3
<1>10. \A n \in c + 1 .. Len(bytes) : st[n] = Move(bytes[n], n)[st[n - 1]]
  <2>1. \A n \in c + 1 .. Len(bytes) : n \in c .. Len(bytes) /\ n # c
    BY <1>1
  <2> QED
    BY <1>8, <2>1 DEF Body
<1>11. \A k \in 0 .. N : k \in T
  <2>1. 0 \in T
    <3>1. c + 0 = c /\ 0 \in 0 .. N
      BY <1>1
    <3> QED
      BY <1>9, <3>1
  <2>2. ASSUME NEW k \in 0 .. N - 1, k \in T
        PROVE  k + 1 \in T
    <3>1. /\ k + 1 \in 0 .. N /\ c + (k + 1) \in c + 1 .. Len(bytes) /\ c + (k + 1) - 1 = c + k
          /\ c + (k + 1) \in Nat \ {0} /\ c + (k + 1) \in 1 .. Len(bytes)
      BY <1>1, SMTT(30)
    <3>2. st[c + (k + 1)] = Step(st[c + k], bytes[c + (k + 1)], c + (k + 1))
      <4> DEFINE n == c + (k + 1)
      <4>1. n \in c + 1 .. Len(bytes) /\ n - 1 = c + k
        BY <3>1, SMTT(30)
      <4> HIDE DEF n
      <4>2. st[n] = Move(bytes[n], n)[st[n - 1]]
        BY <1>10, <4>1
      <4>3. st[n] = Move(bytes[n], n)[st[c + k]]
        BY <4>1, <4>2, Zenon
      <4>4. st[c + k] \in State
        BY <2>2
      <4>5. st[n] = Step(st[c + k], bytes[n], n)
        BY <4>3, <4>4 DEF Move
      <4> QED
        BY <4>5 DEF n
    <3>3. st[c + k] \in State /\ bytes[c + (k + 1)] \in Char
      BY <1>1, <2>2, <3>1
    <3>4. st[c + (k + 1)] \in State
      BY <3>1, <3>2, <3>3, StepType
    <3> QED
      BY <3>1, <3>4
  <2> HIDE DEF T
  <2>3. \A k \in 0 .. N - 1 : k \in T => k + 1 \in T
    BY <2>2
  <2> QED
    BY <1>1, <2>1, <2>3, UpTo, Zenon
<1>12. ASSUME NEW n \in c .. Len(bytes)
       PROVE  st[n] \in State
  <2>1. n - c \in 0 .. N /\ c + (n - c) = n
    BY <1>1
  <2> QED
    BY <1>11, <2>1
<1>13. ASSUME NEW n \in c + 1 .. Len(bytes)
       PROVE  st[n] = Step(st[n - 1], bytes[n], n)
  <2>1. n - 1 \in c .. Len(bytes)
    BY <1>1
  <2>2. st[n - 1] \in State
    BY <1>12, <2>1
  <2> QED
    BY <1>10, <2>2 DEF Move
<1> QED
  BY <1>7, <1>9, <1>12, <1>13 DEF Trace

-----------------------------------------------------------------------------
(* What the scanner has seen of the bytes while it goes on, when it has    *)
(* found a line, and when it has found none.                               *)
Seen(st, bytes, n) ==
  LET m == IF st.cr THEN n - 1 ELSE n
  IN  /\ st.cr => n >= 1 /\ bytes[n] = CR
      /\ \A i \in 1 .. m : Printable(bytes[i])
      /\ Knows(SubSeq(bytes, 1, m), st)
Full(st, bytes, k) ==
  /\ k >= 2 /\ bytes[k - 1] = CR /\ bytes[k] = LF
  /\ \A i \in 1 .. k - 2 : Printable(bytes[i])
  /\ Knows(SubSeq(bytes, 1, k - 2), st)
Broken(bytes, k) ==
  \E j \in 1 .. k :
    /\ \A i \in 1 .. j - 1 : Printable(bytes[i])
    /\ ~Printable(bytes[j])
    /\ bytes[j] = CR => j < k /\ bytes[j + 1] # LF

LEMMA KnowsSame ==
  ASSUME NEW line, NEW st, NEW s, Knows(line, st),
         s.phase = st.phase, s.word = st.word, s.tag1 = st.tag1, s.tag2 = st.tag2
  PROVE  Knows(line, s)
BY DEF Knows, KnowsWord, KnowsBlanks, KnowsArg

LEMMA OneMore ==
  ASSUME NEW bytes \in Seq(Char), NEW n \in 1 .. Len(bytes)
  PROVE  /\ SubSeq(bytes, 1, n - 1) \in Seq(Char) /\ Len(SubSeq(bytes, 1, n - 1)) = n - 1
         /\ SubSeq(bytes, 1, n) = Append(SubSeq(bytes, 1, n - 1), bytes[n])
<1> DEFINE a == SubSeq(bytes, 1, n - 1)
           b == SubSeq(bytes, 1, n)
<1>1. /\ n \in Int /\ n - 1 \in Int /\ 1 \in Int /\ Len(bytes) \in Nat
      /\ \A i \in 1 .. n : bytes[i] \in Char
      /\ \A i \in 1 .. n - 1 : bytes[i] \in Char
  BY LenProperties, ElementOfSeq
<1>2. /\ a \in Seq(Char) /\ Len(a) = (IF 1 <= n - 1 THEN n - 1 - 1 + 1 ELSE 0)
      /\ \A i \in 1 .. n - 1 - 1 + 1 : a[i] = bytes[1 + i - 1]
  BY <1>1, SubSeqProperties
<1>3. /\ b \in Seq(Char) /\ Len(b) = (IF 1 <= n THEN n - 1 + 1 ELSE 0)
      /\ \A i \in 1 .. n - 1 + 1 : b[i] = bytes[1 + i - 1]
  BY <1>1, SubSeqProperties
<1> HIDE DEF a, b
<1>4. /\ Len(a) = n - 1 /\ \A i \in 1 .. n - 1 : a[i] = bytes[i]
      /\ Len(b) = n /\ \A i \in 1 .. n : b[i] = bytes[i]
  BY <1>2, <1>3
<1> DEFINE d == Append(a, bytes[n])
<1>5. /\ d \in Seq(Char) /\ Len(d) = n /\ d[n] = bytes[n]
      /\ \A i \in 1 .. n - 1 : d[i] = a[i]
  <2>1. bytes[n] \in Char
    BY <1>1
  <2> QED
    BY <1>2, <1>4, <2>1, AppendProperties
<1> HIDE DEF d
<1>6. \A i \in 1 .. Len(b) : b[i] = d[i]
  BY <1>4, <1>5
<1>7. b = d
  BY <1>3, <1>4, <1>5, <1>6, SeqEqual
<1> QED
  BY <1>2, <1>4, <1>7 DEF a, b, d

LEMMA StepSeen ==
  ASSUME NEW bytes \in Seq(Char), NEW n \in 1 .. Len(bytes), NEW st \in State, st.end = "no",
         Seen(st, bytes, n - 1), NEW s, s = Step(st, bytes[n], n)
  PROVE  /\ s.end = "no" => Seen(s, bytes, n)
         /\ s.end = "accept" => Full(s, bytes, n)
         /\ s.end = "reject" => Broken(bytes, n)
<1> DEFINE line == SubSeq(bytes, 1, n - 1)
           c == bytes[n]
<1>1. /\ n \in Nat /\ c \in Char /\ line \in Seq(Char) /\ Len(line) = n - 1
      /\ SubSeq(bytes, 1, n) = Append(line, c) /\ (n - 1) - 1 = n - 2
  BY OneMore, ElementOfSeq, LenProperties
<1>2. CASE st.cr
  <2>1. /\ n - 1 >= 1 /\ bytes[n - 1] = CR /\ \A i \in 1 .. n - 2 : Printable(bytes[i])
        /\ Knows(SubSeq(bytes, 1, n - 2), st)
    BY <1>1, <1>2 DEF Seen
  <2>2. s = [st EXCEPT !.end = IF c = LF THEN "accept" ELSE "reject"]
    <3> HIDE DEF c
    <3>1. s = Step(st, c, n)
      BY DEF c
    <3>2. Step(st, c, n) = [st EXCEPT !.end = IF c = LF THEN "accept" ELSE "reject"]
      <4>1. c \in Char /\ n \in Nat /\ st.end = "no" /\ st.cr
        BY <1>1, <1>2
      <4> QED
        BY <4>1, StepIs
    <3> QED
      BY <3>1, <3>2
  <2>3. /\ s.phase = st.phase /\ s.word = st.word /\ s.tag1 = st.tag1 /\ s.tag2 = st.tag2
        /\ s.end = IF c = LF THEN "accept" ELSE "reject"
    BY <2>2 DEF State
  <2>4. Knows(SubSeq(bytes, 1, n - 2), s)
    BY <2>1, <2>3, KnowsSame
  <2>5. CASE c = LF
    BY <1>1, <2>1, <2>3, <2>4, <2>5 DEF Full
  <2>6. CASE c # LF
    <3>1. n - 1 \in 1 .. n /\ n - 1 < n /\ (n - 1) + 1 = n /\ ~Printable(CR)
      BY <1>1, <2>1 DEF Printable
    <3>2. Broken(bytes, n)
      BY <1>1, <2>1, <2>6, <3>1 DEF Broken
    <3> QED
      BY <2>3, <2>6, <3>2
  <2> QED
    BY <2>5, <2>6
<1>3. CASE ~st.cr
  <2>1. /\ \A i \in 1 .. n - 1 : Printable(bytes[i])
        /\ Knows(line, st)
    BY <1>3 DEF Seen
  <2>2. CASE c = CR
    <3>1. s = [st EXCEPT !.cr = TRUE]
      BY <1>1, <1>3, <2>2, StepIs
    <3>2. /\ s.phase = st.phase /\ s.word = st.word /\ s.tag1 = st.tag1 /\ s.tag2 = st.tag2
          /\ s.end = "no" /\ s.cr
      BY <3>1 DEF State
    <3>3. Knows(line, s)
      BY <2>1, <3>2, KnowsSame
    <3> QED
      BY <1>1, <2>1, <2>2, <3>2, <3>3 DEF Seen
  <2>3. CASE c # CR /\ ~Printable(c)
    <3>1. s = [st EXCEPT !.end = "reject"]
      BY <1>1, <1>3, <2>3, StepIs
    <3>2. s.end = "reject"
      BY <3>1 DEF State
    <3>3. n \in 1 .. n
      BY <1>1
    <3>4. Broken(bytes, n)
      BY <2>1, <2>3, <3>3 DEF Broken
    <3> QED
      BY <3>2, <3>4
  <2>4. CASE Printable(c)
    <3>1. line \in Seq(Byte) /\ Len(line) + 1 = n
      <4>1. Char \subseteq Byte
        BY DEF Byte
      <4> QED
        BY <1>1, <4>1, SeqMonotonic
    <3> HIDE DEF line, c
    <3>2. s = Step(st, c, Len(line) + 1)
      BY <3>1 DEF c
    <3>3. s.end = "no" /\ ~s.cr /\ Knows(Append(line, c), s)
      BY <1>1, <1>3, <2>1, <2>4, <3>1, <3>2, LineGrows
    <3>4. \A i \in 1 .. n : Printable(bytes[i])
      BY <1>1, <2>1, <2>4 DEF c
    <3> QED
      BY <1>1, <3>3, <3>4 DEF Seen
  <2> QED
    BY <2>2, <2>3, <2>4
<1>4. st.cr \in BOOLEAN
  BY StateParts
<1> QED
  BY <1>2, <1>3, <1>4

-----------------------------------------------------------------------------
(* What a call of parsePopRequest finds.                                   *)

(* The scan is going on behind n bytes, or has ended behind some k of them. *)
Going(st, begun, bytes, n) ==
  (\A m \in begun.cur .. n : st[m].end = "no") /\ Seen(st[n], bytes, n)
EndedAt(st, begun, bytes, k) ==
  /\ \A m \in begun.cur .. k - 1 : st[m].end = "no"
  /\ st[k].end # "no"
  /\ st[k].end = "accept" => Full(st[k], bytes, k)
  /\ st[k].end = "reject" => Broken(bytes, k)
Ended(st, begun, bytes, n) ==
  \E k \in begun.cur + 1 .. n : EndedAt(st, begun, bytes, k) /\ st[n] = st[k]

LEMMA Scanned ==
  ASSUME NEW begun, NEW bytes \in Seq(Char), begun.cur \in 0 .. Len(bytes),
         begun.state.end = "no", Seen(begun.state, bytes, begun.cur),
         NEW st, Trace(st, begun, bytes), NEW n \in begun.cur .. Len(bytes)
  PROVE  Going(st, begun, bytes, n) \/ Ended(st, begun, bytes, n)
<1> DEFINE c == begun.cur
           N == Len(bytes)
           At(m) == Going(st, begun, bytes, m) \/ Ended(st, begun, bytes, m)
           T == {m \in 0 .. N : m < c \/ At(m)}
<1>1. c \in Nat /\ N \in Nat /\ c <= N
  BY LenProperties
<1>2. At(c)
  <2>1. \A m \in c .. c : m = c
    BY <1>1
  <2>2. Going(st, begun, bytes, c)
    BY <2>1 DEF Going, Trace
  <2> QED
    BY <2>2
<1>3. ASSUME NEW m \in c .. N - 1, At(m)
      PROVE  At(m + 1)
  <2>1. /\ m + 1 \in c + 1 .. N /\ m + 1 \in 1 .. N /\ (m + 1) - 1 = m /\ m \in c .. N /\ m + 1 \in c .. N
        /\ m \in Nat
    BY <1>1
  <2>2. st[m + 1] = Step(st[m], bytes[m + 1], m + 1) /\ st[m] \in State /\ st[m + 1] \in State
    <3> DEFINE p == m + 1
    <3>1. p \in c + 1 .. N /\ p - 1 = m /\ p \in c .. N
      BY <2>1
    <3> HIDE DEF p
    <3>2. st[p] = Step(st[p - 1], bytes[p], p) /\ st[p] \in State
      BY <3>1 DEF Trace
    <3>3. st[p] = Step(st[m], bytes[p], p)
      BY <3>1, <3>2, Zenon
    <3>4. st[m] \in State
      BY <2>1 DEF Trace
    <3> QED
      BY <3>2, <3>3, <3>4 DEF p
  <2>3. CASE Going(st, begun, bytes, m)
    <3>1. st[m].end = "no" /\ Seen(st[m], bytes, (m + 1) - 1)
      BY <2>1, <2>3 DEF Going
    <3>2. /\ st[m + 1].end = "no" => Seen(st[m + 1], bytes, m + 1)
          /\ st[m + 1].end = "accept" => Full(st[m + 1], bytes, m + 1)
          /\ st[m + 1].end = "reject" => Broken(bytes, m + 1)
      <4> DEFINE p == m + 1
      <4>1. p \in 1 .. Len(bytes) /\ Seen(st[m], bytes, p - 1) /\ st[p] = Step(st[m], bytes[p], p)
        BY <2>1, <2>2, <3>1
      <4> HIDE DEF p
      <4>2. /\ st[p].end = "no" => Seen(st[p], bytes, p)
            /\ st[p].end = "accept" => Full(st[p], bytes, p)
            /\ st[p].end = "reject" => Broken(bytes, p)
        BY <2>2, <3>1, <4>1, StepSeen
      <4> QED
        BY <4>2 DEF p
    <3>3. \A q \in c .. m + 1 : q \in c .. m \/ q = m + 1
      BY <1>1
    <3>4. CASE st[m + 1].end = "no"
      <4>1. Going(st, begun, bytes, m + 1)
        BY <2>3, <3>2, <3>3, <3>4 DEF Going
      <4> QED
        BY <4>1
    <3>5. CASE st[m + 1].end # "no"
      <4>1. EndedAt(st, begun, bytes, m + 1)
        BY <2>1, <2>3, <3>2, <3>5 DEF Going, EndedAt
      <4>2. m + 1 \in c + 1 .. m + 1
        BY <1>1, <2>1
      <4>3. Ended(st, begun, bytes, m + 1)
        BY <4>1, <4>2 DEF Ended
      <4> QED
        BY <4>3
    <3> QED
      BY <3>4, <3>5
  <2>4. CASE Ended(st, begun, bytes, m)
    <3>1. PICK k \in c + 1 .. m : EndedAt(st, begun, bytes, k) /\ st[m] = st[k]
      BY <2>4 DEF Ended
    <3>2. st[m].end # "no"
      BY <3>1 DEF EndedAt
    <3>3. bytes[m + 1] \in Char /\ m + 1 \in Nat
      BY <2>1, ElementOfSeq
    <3>4. Step(st[m], bytes[m + 1], m + 1) = st[m]
      BY <2>2, <3>2, <3>3, StepIs
    <3>5. k \in c + 1 .. m + 1 /\ st[m + 1] = st[k]
      BY <1>1, <2>1, <2>2, <3>1, <3>4
    <3>6. Ended(st, begun, bytes, m + 1)
      BY <3>1, <3>5 DEF Ended
    <3> QED
      BY <3>6
  <2> QED
    BY <1>3, <2>3, <2>4
<1> HIDE DEF At
<1>4. n \in T
  <2>1. 0 \in T
    <3>1. 0 \in 0 .. N /\ (0 < c \/ c = 0)
      BY <1>1
    <3> QED
      BY <1>2, <3>1
  <2>2. ASSUME NEW m \in 0 .. N - 1, m \in T
        PROVE  m + 1 \in T
    <3>1. m + 1 \in 0 .. N /\ (m + 1 < c \/ m + 1 = c \/ m \in c .. N - 1)
      BY <1>1
    <3>2. CASE m \in c .. N - 1
      <4>1. ~(m < c)
        BY <1>1, <3>2
      <4>2. At(m)
        BY <2>2, <4>1
      <4> QED
        BY <1>3, <3>1, <3>2, <4>2
    <3> QED
      BY <1>2, <3>1, <3>2
  <2>3. n \in 0 .. N
    BY <1>1
  <2> HIDE DEF T, c
  <2>4. \A m \in 0 .. N - 1 : m \in T => m + 1 \in T
    BY <2>2
  <2>5. \A m \in 0 .. N : m \in T
    BY <1>1, <2>1, <2>4, UpTo, Zenon
  <2> QED
    BY <2>3, <2>5
<1>5. ~(n < c)
  BY <1>1
<1> QED
  BY <1>4, <1>5 DEF At

(* A whole line, one byte because the line is none of a client's, one byte *)
(* because there was nothing new to scan, or nothing yet.                  *)
TookLine(r, bytes) ==
  \E st \in State :
    /\ r.len \in 2 .. Len(bytes) /\ Full(st, bytes, r.len) /\ r.next = NotBegun
    /\ r.cmd = CommandOf(st)
    /\ r.arg = IF CommandOf(st) = "USER" THEN SubSeq(bytes, st.tag1 + 1, st.tag2) ELSE <<>>
TookByte(r, bytes) == r = FallBack(bytes) /\ bytes # <<>>
LeftOff(r, begun, bytes) ==
  /\ r.cmd = "INCOMPLETE" /\ r.len = 0 /\ r.arg = <<>>
  /\ r.next = Suspend(r.next.state, Len(bytes))
  /\ r.next.state \in State /\ r.next.state.end = "no" /\ Seen(r.next.state, bytes, Len(bytes))
  /\ bytes # <<>> => begun.cur < Len(bytes)

LEMMA ParseFinds ==
  ASSUME NEW begun, NEW bytes \in Seq(Char), begun.cur \in 0 .. Len(bytes),
         begun.state \in State, begun.state.end = "no", Seen(begun.state, bytes, begun.cur),
         NEW r, r = parsePopRequest(begun, bytes)
  PROVE  \/ TookLine(r, bytes)
         \/ TookByte(r, bytes) /\ \E k \in 1 .. Len(bytes) : Broken(bytes, k)
         \/ TookByte(r, bytes) /\ begun.cur = Len(bytes)
         \/ LeftOff(r, begun, bytes)
<1> DEFINE st    == Run(begun, bytes)
           N     == Len(bytes)
           last  == st[N]
           first == CHOOSE n \in begun.cur .. N :
                      st[n].end # "no" /\ \A m \in begun.cur .. n - 1 : st[m].end = "no"
           cmd   == CommandOf(last)
<1>1. N \in Nat /\ begun.cur \in Nat /\ begun.cur <= N /\ N \in begun.cur .. N
  BY LenProperties
<1>2. Trace(st, begun, bytes)
  BY RunIs
<1> HIDE DEF st
<1>3. Going(st, begun, bytes, N) \/ Ended(st, begun, bytes, N)
  BY <1>1, <1>2, Scanned
<1>4. last \in State
  BY <1>1, <1>2 DEF Trace
<1>5. CASE Going(st, begun, bytes, N)
  <2>1. last.end = "no" /\ Seen(last, bytes, N)
    BY <1>1, <1>5 DEF Going
  <2>2. CASE bytes # <<>> /\ begun.cur = N
    <3>1. r = FallBack(bytes)
      BY <2>1, <2>2 DEF parsePopRequest, st
    <3> QED
      BY <2>2, <3>1 DEF TookByte
  <2>3. CASE ~(bytes # <<>> /\ begun.cur = N)
    <3>1. r = [cmd |-> "INCOMPLETE", len |-> 0, arg |-> <<>>, next |-> Suspend(last, N)]
      BY <2>1, <2>3 DEF parsePopRequest, st
    <3>2. /\ r.cmd = "INCOMPLETE" /\ r.len = 0 /\ r.arg = <<>> /\ r.next = Suspend(last, N)
          /\ r.next.state = last
      BY <3>1 DEF Suspend
    <3>3. bytes # <<>> => begun.cur < N
      BY <1>1, <2>3
    <3> QED
      BY <1>4, <2>1, <3>2, <3>3 DEF LeftOff
  <2> QED
    BY <2>2, <2>3
<1>6. CASE Ended(st, begun, bytes, N)
  <2>1. PICK k \in begun.cur + 1 .. N : EndedAt(st, begun, bytes, k) /\ last = st[k]
    BY <1>6 DEF Ended
  <2>2. /\ last.end # "no" /\ \A m \in begun.cur .. k - 1 : st[m].end = "no"
        /\ last.end = "accept" => Full(last, bytes, k)
        /\ last.end = "reject" => Broken(bytes, k)
    BY <2>1 DEF EndedAt
  <2>3. bytes # <<>> /\ k \in 1 .. N
    <3>1. k \in 1 .. N
      BY <1>1
    <3> QED
      BY <1>1, <3>1
  <2>4. CASE last.end = "accept"
    <3>1. first = k
      <4> DEFINE P(n) == st[n].end # "no" /\ \A m \in begun.cur .. n - 1 : st[m].end = "no"
      <4>1. k \in begun.cur .. N /\ P(k)
        BY <1>1, <2>1, <2>2
      <4>2. first \in begun.cur .. N /\ P(first)
        BY <4>1
      <4>3. ASSUME NEW a \in begun.cur .. N, NEW b \in begun.cur .. N, P(a), P(b), a < b
            PROVE  FALSE
        <5>1. a \in begun.cur .. b - 1
          BY <1>1, <4>3
        <5> QED
          BY <4>3, <5>1
      <4>4. ~(first < k) /\ ~(k < first)
        <5> HIDE DEF first, P
        <5> QED
          BY <4>1, <4>2, <4>3
      <4> HIDE DEF first
      <4> QED
        BY <1>1, <4>2, <4>4
    <3>2. r = Found(cmd, first,
                    IF cmd = "USER" THEN SubSeq(bytes, last.tag1 + 1, last.tag2) ELSE <<>>)
      BY <2>4 DEF parsePopRequest, st
    <3> HIDE DEF first, last, cmd
    <3>3. /\ r.len = k /\ r.cmd = cmd /\ r.next = NotBegun
          /\ r.arg = IF cmd = "USER" THEN SubSeq(bytes, last.tag1 + 1, last.tag2) ELSE <<>>
      BY <3>1, <3>2 DEF Found
    <3>4. Full(last, bytes, k) /\ k \in 2 .. N
      BY <1>1, <2>2, <2>3, <2>4 DEF Full
    <3> QED
      BY <1>4, <3>3, <3>4 DEF TookLine, cmd
  <2>5. CASE last.end = "reject"
    <3>1. r = FallBack(bytes)
      BY <2>3, <2>5 DEF parsePopRequest, st
    <3> QED
      BY <2>2, <2>3, <2>5, <3>1 DEF TookByte
  <2> QED
    BY <1>4, <2>2, <2>4, <2>5, StateParts
<1> QED
  BY <1>3, <1>5, <1>6

-----------------------------------------------------------------------------
(* What a line says.                                                       *)

(* A field ends at the first blank behind its start.                       *)
LEMMA FieldIs ==
  ASSUME NEW line \in Seq(Byte), NEW i \in 1 .. Len(line), NEW e \in i .. Len(line),
         Solid(line, i, e), e = Len(line) \/ line[e + 1] = SP
  PROVE  Field(line, i) = SubSeq(line, i, e)
<1> DEFINE blanks == {j \in i .. Len(line) : line[j] = SP}
           behind == IF blanks = {} THEN Len(line) + 1
                     ELSE CHOOSE j \in blanks : \A k \in blanks : j <= k
<1>1. Len(line) \in Nat
  BY LenProperties
<1>2. \A j \in blanks : j \in i .. Len(line) /\ line[j] = SP /\ j \notin i .. e
  BY DEF Solid
<1>3. \A j \in i .. Len(line) : line[j] = SP => j \in blanks
  OBVIOUS
<1>4. Field(line, i) = SubSeq(line, i, behind - 1)
  BY DEF Field
<1> HIDE DEF blanks
<1>5. behind - 1 = e
  <2>1. CASE e = Len(line)
    <3>1. blanks = {}
      BY <1>2, <2>1
    <3>2. behind = Len(line) + 1
      BY <3>1
    <3> QED
      BY <1>1, <2>1, <3>2
  <2>2. CASE e # Len(line)
    <3>1. e + 1 \in blanks
      <4>1. e + 1 \in i .. Len(line)
        BY <1>1, <2>2
      <4> QED
        BY <1>3, <2>2, <4>1
    <3>2. \A j \in blanks : e + 1 <= j
      BY <1>1, <1>2
    <3>3. \A j \in blanks : (\A k \in blanks : j <= k) => j = e + 1
      BY <1>2, <3>1, <3>2
    <3>4. behind = e + 1
      BY <3>1, <3>2, <3>3
    <3> QED
      BY <1>1, <3>4
  <2> QED
    BY <2>1, <2>2
<1> QED
  BY <1>4, <1>5

LEMMA FieldEnds ==
  ASSUME NEW line \in Seq(Byte), NEW i \in 1 .. Len(line), line[i] # SP
  PROVE  \E e \in i .. Len(line) : Solid(line, i, e) /\ (e = Len(line) \/ line[e + 1] = SP)
<1> DEFINE blanks == {j \in i .. Len(line) : line[j] = SP}
<1>1. Len(line) \in Nat
  BY LenProperties
<1>2. CASE blanks = {}
  <2>1. Solid(line, i, Len(line)) /\ Len(line) \in i .. Len(line)
    BY <1>1, <1>2 DEF Solid
  <2> QED
    BY <2>1
<1>3. CASE blanks # {}
  <2>1. blanks \subseteq Nat
    BY <1>1
  <2>2. PICK j \in blanks : \A k \in blanks : j <= k
    BY <1>3, <2>1, LeastElement
  <2>3. /\ j \in i .. Len(line) /\ line[j] = SP /\ j # i
        /\ \A k \in i .. Len(line) : line[k] = SP => j <= k
    BY <2>2
  <2>4. j - 1 \in i .. Len(line) /\ (j - 1) + 1 = j
    BY <1>1, <2>3
  <2>5. Solid(line, i, j - 1)
    BY <1>1, <2>3, <2>4 DEF Solid
  <2> QED
    BY <2>3, <2>4, <2>5
<1> QED
  BY <1>2, <1>3

(* The number of fields.                                                   *)
LEMMA HowMany ==
  ASSUME NEW line \in Seq(Byte)
  PROVE  /\ \A i : FieldStarts(line) = {i} => Cardinality(FieldStarts(line)) = 1
         /\ \A i, j : i # j /\ FieldStarts(line) = {i, j} => Cardinality(FieldStarts(line)) = 2
         /\ \A i, j : i # j /\ {i, j} \subseteq FieldStarts(line) => Cardinality(FieldStarts(line)) # 1
         /\ \A i, j, k : i # j /\ i # k /\ j # k /\ {i, j, k} \subseteq FieldStarts(line)
              => Cardinality(FieldStarts(line)) \notin {1, 2}
<1> DEFINE F == FieldStarts(line)
<1>1. IsFiniteSet(F) /\ Cardinality(F) \in Nat
  <2>1. Len(line) \in Int /\ 1 \in Int
    BY LenProperties
  <2>2. IsFiniteSet(1 .. Len(line))
    BY <2>1, FS_Interval
  <2>3. F \in SUBSET (1 .. Len(line))
    BY DEF FieldStarts
  <2>4. IsFiniteSet(F)
    BY <2>2, <2>3, FS_Subset
  <2> QED
    BY <2>4, FS_CardinalityType
<1> HIDE DEF F
<1>2. \A i : IsFiniteSet({i}) /\ Cardinality({i}) = 1
  BY FS_Singleton
<1> DEFINE Has(S, n) == IsFiniteSet(S) /\ Cardinality(S) = n
<1>more. ASSUME NEW S, NEW x, x \notin S, NEW n \in Nat, Has(S, n), NEW T, T = S \cup {x}
      PROVE  Has(T, n + 1)
  BY <1>more, FS_AddElement
<1>one. \A i : Has({i}, 1)
  BY <1>2
<1> HIDE DEF Has
<1>3. ASSUME NEW i, NEW j, i # j
      PROVE  Has({i, j}, 2)
  <2>1. {i, j} = {i} \cup {j} /\ j \notin {i} /\ 1 \in Nat /\ 1 + 1 = 2
    BY <1>3
  <2>2. Has({i}, 1)
    BY <1>one
  <2>3. Has({i, j}, 1 + 1)
    BY <1>more, <2>1, <2>2, Zenon
  <2> QED
    BY <2>1, <2>3
<1>4. ASSUME NEW i, NEW j, NEW k, i # j, i # k, j # k
      PROVE  Has({i, j, k}, 3)
  <2>1. {i, j, k} = {i, j} \cup {k} /\ k \notin {i, j} /\ 2 \in Nat /\ 2 + 1 = 3
    BY <1>4
  <2>2. Has({i, j}, 2)
    BY <1>3, <1>4
  <2>3. Has({i, j, k}, 2 + 1)
    BY <1>more, <2>1, <2>2, Zenon
  <2> QED
    BY <2>1, <2>3
<1>5. ASSUME NEW T, T \subseteq F, NEW n \in Nat, Cardinality(T) = n
      PROVE  n <= Cardinality(F)
  BY <1>1, <1>5, FS_Subset
<1>6. \A i : F = {i} => Cardinality(F) = 1
  BY <1>2
<1>7. \A i, j : i # j /\ F = {i, j} => Cardinality(F) = 2
  BY <1>3 DEF Has
<1>8. ASSUME NEW i, NEW j, i # j, {i, j} \subseteq F
      PROVE  Cardinality(F) # 1
  <2>1. Cardinality({i, j}) = 2
    BY <1>3, <1>8 DEF Has
  <2>2. 2 <= Cardinality(F)
    BY <1>5, <1>8, <2>1
  <2> QED
    BY <2>2
<1>9. ASSUME NEW i, NEW j, NEW k, i # j, i # k, j # k, {i, j, k} \subseteq F
      PROVE  Cardinality(F) \notin {1, 2}
  <2>1. Cardinality({i, j, k}) = 3
    BY <1>4, <1>9 DEF Has
  <2>2. 3 <= Cardinality(F)
    BY <1>5, <1>9, <2>1
  <2> QED
    BY <2>2
<1>10. \A i, j : i # j /\ {i, j} \subseteq F => Cardinality(F) # 1
  BY <1>8, ZenonT(40)
<1>11. \A i, j, k : i # j /\ i # k /\ j # k /\ {i, j, k} \subseteq F => Cardinality(F) \notin {1, 2}
  BY <1>9
<1> QED
  BY <1>6, <1>7, <1>10, <1>11, Zenon DEF F

(* The words of a line are those of the table they are looked up in.       *)
CommandNames == DOMAIN Plain \union DOMAIN WithArg \union {"INVALID", "UNKNOWN"}

LEMMA NamesAre ==
  /\ \A w \in PlainWords : Named(Plain, w) \in DOMAIN Plain
  /\ \A w \in ArgWords : Named(WithArg, w) \in DOMAIN WithArg
  /\ "USER" \notin DOMAIN Plain /\ "INCOMPLETE" \notin CommandNames
<1>1. \A w \in PlainWords : Named(Plain, w) \in DOMAIN Plain
  <2> SUFFICES ASSUME NEW w \in PlainWords
               PROVE  Named(Plain, w) \in DOMAIN Plain
    OBVIOUS
  <2>1. \E k \in DOMAIN Plain : Plain[k] = w
    BY DEF PlainWords, RangeOf
  <2> QED
    BY <2>1 DEF Named
<1>2. \A w \in ArgWords : Named(WithArg, w) \in DOMAIN WithArg
  <2> SUFFICES ASSUME NEW w \in ArgWords
               PROVE  Named(WithArg, w) \in DOMAIN WithArg
    OBVIOUS
  <2>1. \E k \in DOMAIN WithArg : WithArg[k] = w
    BY DEF ArgWords, RangeOf
  <2> QED
    BY <2>1 DEF Named
<1>3. "USER" \notin DOMAIN Plain /\ "INCOMPLETE" \notin CommandNames
  BY DEF Plain, WithArg, CommandNames
<1> QED
  BY <1>1, <1>2, <1>3

LEMMA CommandIs ==
  ASSUME NEW st \in State
  PROVE  /\ st.phase = "word" /\ st.word = <<>> => CommandOf(st) = "INVALID"
         /\ st.phase \in {"word", "blanks"} /\ st.word \in PlainWords
              => CommandOf(st) = Named(Plain, st.word)
         /\ st.phase \in {"arg", "tail"} => CommandOf(st) = Named(WithArg, st.word)
         /\ st.phase = "text" \/ (st.phase \in {"word", "blanks"} /\ st.word # <<>> /\ st.word \notin PlainWords)
              => CommandOf(st) = "UNKNOWN"
<1> DEFINE r == CommandOf(st)
<1>0. <<>> \notin PlainWords
  BY PrefixType DEF Words
<1>1. r = CASE st.phase = "word" /\ st.word = <<>> -> "INVALID"
            [] st.phase \in {"word", "blanks"} /\ st.word \in PlainWords -> Named(Plain, st.word)
            [] st.phase \in {"arg", "tail"} -> Named(WithArg, st.word)
            [] OTHER -> "UNKNOWN"
  BY DEF CommandOf
<1> HIDE DEF r
<1>2. CASE st.phase = "word" /\ st.word = <<>>
  BY <1>0, <1>1, <1>2 DEF r
<1>3. CASE st.phase \in {"word", "blanks"} /\ st.word \in PlainWords
  <2>1. r = Named(Plain, st.word)
    BY <1>0, <1>1, <1>3
  <2> QED
    BY <1>0, <1>3, <2>1 DEF r
<1>4. CASE st.phase \in {"arg", "tail"}
  BY <1>1, <1>4 DEF r
<1>5. CASE st.phase = "text" \/ (st.phase \in {"word", "blanks"} /\ st.word # <<>> /\ st.word \notin PlainWords)
  BY <1>1, <1>5 DEF r
<1> QED
  BY <1>2, <1>3, <1>4, <1>5

LEMMA MeaningIs ==
  ASSUME NEW line, NEW n, n = Cardinality(FieldStarts(line)), NEW v, v = Field(line, 1)
  PROVE  /\ line = <<>> => Meaning(line) = "INVALID"
         /\ line # <<>> /\ line[1] # SP /\ n = 1 /\ v \in PlainWords
              => Meaning(line) = Named(Plain, v)
         /\ line # <<>> /\ line[1] # SP /\ n = 2 /\ v \in ArgWords
              => Meaning(line) = Named(WithArg, v)
         /\ line # <<>> /\ (line[1] = SP \/ ((v \notin PlainWords \/ n # 1) /\ (v \notin ArgWords \/ n # 2)))
              => Meaning(line) = "UNKNOWN"
<1> DEFINE a == line # <<>> /\ line[1] # SP /\ n = 1 /\ v \in PlainWords
           b == line # <<>> /\ line[1] # SP /\ n = 2 /\ v \in ArgWords
<1>1. Meaning(line) = CASE line = <<>> -> "INVALID"
                        [] a -> Named(Plain, v)
                        [] b -> Named(WithArg, v)
                        [] OTHER -> "UNKNOWN"
  BY DEF Meaning
<1>2. (a => line # <<>> /\ ~b) /\ (b => line # <<>>)
  OBVIOUS
<1>3. /\ line # <<>> /\ (line[1] = SP \/ ((v \notin PlainWords \/ n # 1) /\ (v \notin ArgWords \/ n # 2)))
      => line # <<>> /\ ~a /\ ~b
  OBVIOUS
<1> DEFINE r == Meaning(line)
<1> HIDE DEF a, b, r
<1>4. line = <<>> => r = "INVALID"
  <2>1. line = <<>> => ~a /\ ~b
    BY <1>2
  <2> QED
    BY <1>1, <2>1 DEF r
<1>5. a => r = Named(Plain, v)
  BY <1>1, <1>2 DEF r
<1>6. b => r = Named(WithArg, v)
  BY <1>1, <1>2 DEF r
<1>7. line # <<>> /\ ~a /\ ~b => r = "UNKNOWN"
  BY <1>1 DEF r
<1> QED
  BY <1>3, <1>4, <1>5, <1>6, <1>7 DEF a, b, r

(* The verb of a line is its first field.                                  *)
LEMMA VerbIs ==
  ASSUME NEW line \in Seq(Byte), NEW w \in Nat, Verb(line, w), w = Len(line) \/ line[w + 1] = SP
  PROVE  Field(line, 1) = SubSeq(line, 1, w) /\ line # <<>> /\ line[1] # SP /\ 1 \in FieldStarts(line)
<1>1. w \in 1 .. Len(line) /\ Solid(line, 1, w) /\ 1 \in 1 .. Len(line) /\ 1 \in 1 .. w
  BY LenProperties DEF Verb
<1>2. Field(line, 1) = SubSeq(line, 1, w)
  BY <1>1, FieldIs
<1>3. line # <<>> /\ line[1] # SP
  BY <1>1, EmptySeq DEF Solid
<1> QED
  BY <1>1, <1>2, <1>3 DEF FieldStarts

LEMMA FieldsBegin ==
  ASSUME NEW line \in Seq(Byte)
  PROVE  \A i : i \in FieldStarts(line) <=> i \in 1 .. Len(line) /\ Begins(line, i)
BY DEF FieldStarts, Begins

(* What the scanner knows of a line decides what the line says.            *)
LEMMA WordSays ==
  ASSUME NEW line \in Seq(Byte), NEW st \in State, st.phase = "word", KnowsWord(line, st)
  PROVE  CommandOf(st) = Meaning(line)
<1>1. st.word = line /\ line \in Prefixes /\ Solid(line, 1, Len(line)) /\ Len(line) \in Nat
  BY PrefixType, LenProperties DEF KnowsWord
<1>2. CASE line = <<>>
  <2>1. CommandOf(st) = "INVALID"
    BY <1>1, <1>2, CommandIs
  <2>2. Meaning(line) = "INVALID"
    BY <1>2, MeaningIs
  <2> QED
    BY <2>1, <2>2
<1>3. CASE line # <<>>
  <2>1. Verb(line, Len(line))
    BY <1>1, <1>3, EmptySeq DEF Verb
  <2>2. Field(line, 1) = line /\ line[1] # SP /\ 1 \in FieldStarts(line)
    BY <1>1, <2>1, VerbIs, SubSeqFull
  <2>3. FieldStarts(line) = {1}
    <3>1. \A i \in 1 .. Len(line) : i # 1 => i - 1 \in 1 .. Len(line)
      BY <1>1
    <3>2. \A i \in 1 .. Len(line) : Begins(line, i) => i = 1
      BY <1>1, <3>1 DEF Begins, Solid
    <3> QED
      BY <2>2, <3>2, FieldsBegin
  <2>4. Cardinality(FieldStarts(line)) = 1
    BY <2>3, HowMany
  <2>5. CASE line \in PlainWords
    <3>1. CommandOf(st) = Named(Plain, line)
      BY <1>1, <2>5, CommandIs
    <3>2. Meaning(line) = Named(Plain, line)
      BY <1>3, <2>2, <2>4, <2>5, MeaningIs
    <3> QED
      BY <3>1, <3>2
  <2>6. CASE line \notin PlainWords
    <3>1. CommandOf(st) = "UNKNOWN"
      BY <1>1, <1>3, <2>6, CommandIs
    <3>2. Meaning(line) = "UNKNOWN"
      BY <1>3, <2>2, <2>4, <2>6, MeaningIs
    <3> QED
      BY <3>1, <3>2
  <2> QED
    BY <2>5, <2>6
<1> QED
  BY <1>2, <1>3

LEMMA BlanksSay ==
  ASSUME NEW line \in Seq(Byte), NEW st \in State, st.phase = "blanks", KnowsBlanks(line, st)
  PROVE  CommandOf(st) = Meaning(line)
<1> DEFINE w == Len(st.word)
<1>1. /\ st.word \in Words /\ Behind(line, w) /\ st.word = SubSeq(line, 1, w)
      /\ Blank(line, w + 1, Len(line))
  BY DEF KnowsBlanks
<1>2. w \in 1 .. Len(line) - 1 /\ w \in Nat /\ Verb(line, w) /\ Solid(line, 1, w) /\ line[w + 1] = SP
      /\ Len(line) \in Nat
  BY <1>1, LenProperties DEF Behind, Verb
<1> HIDE DEF w
<1>3. Field(line, 1) = st.word /\ line # <<>> /\ line[1] # SP /\ 1 \in FieldStarts(line)
  BY <1>1, <1>2, VerbIs
<1>4. FieldStarts(line) = {1}
  <2>1. \A i \in 1 .. Len(line) : i = 1 \/ i - 1 \in 1 .. w \/ i \in w + 1 .. Len(line)
    BY <1>2
  <2>2. \A i \in 1 .. Len(line) : Begins(line, i) => i = 1
    BY <1>1, <1>2, <2>1 DEF Begins, Solid, Blank
  <2> QED
    BY <1>3, <2>2, FieldsBegin
<1>5. Cardinality(FieldStarts(line)) = 1
  BY <1>4, HowMany
<1>6. CASE st.word \in PlainWords
  <2>1. CommandOf(st) = Named(Plain, st.word)
    BY <1>6, CommandIs
  <2>2. Meaning(line) = Named(Plain, st.word)
    BY <1>3, <1>5, <1>6, MeaningIs
  <2> QED
    BY <2>1, <2>2
<1>7. CASE st.word \notin PlainWords
  <2>1. st.word # <<>>
    BY <1>1, PrefixType
  <2>2. CommandOf(st) = "UNKNOWN"
    BY <1>7, <2>1, CommandIs
  <2>3. Meaning(line) = "UNKNOWN"
    BY <1>3, <1>5, <1>7, MeaningIs
  <2> QED
    BY <2>2, <2>3
<1> QED
  BY <1>6, <1>7

LEMMA ArgSays ==
  ASSUME NEW line \in Seq(Byte), NEW st \in State, st.phase \in {"arg", "tail"}, KnowsArg(line, st)
  PROVE  /\ CommandOf(st) = Meaning(line)
         /\ Fields(line) = {SubSeq(line, st.tag1 + 1, st.tag2)}
         /\ st.tag1 \in Nat /\ st.tag2 \in st.tag1 + 1 .. Len(line)
<1> DEFINE w == Len(st.word)
           a == st.tag1
           b == st.tag2
<1>1. /\ st.word \in ArgWords /\ Behind(line, w) /\ st.word = SubSeq(line, 1, w)
      /\ a \in w + 1 .. Len(line) /\ b \in a + 1 .. Len(line)
      /\ Blank(line, w + 1, a) /\ Solid(line, a + 1, b) /\ Blank(line, b + 1, Len(line))
  BY DEF KnowsArg
<1>2. /\ w \in 1 .. Len(line) - 1 /\ w \in Nat /\ Verb(line, w) /\ Solid(line, 1, w) /\ line[w + 1] = SP
      /\ Len(line) \in Nat /\ a \in Nat /\ b \in Nat
  BY <1>1, LenProperties, StateParts DEF Behind, Verb
<1> HIDE DEF w, a, b
<1>3. Field(line, 1) = st.word /\ line # <<>> /\ line[1] # SP /\ 1 \in FieldStarts(line)
  BY <1>1, <1>2, VerbIs
<1>4. /\ a \in w + 1 .. a /\ a + 1 \in a + 1 .. b /\ a + 1 \in 1 .. Len(line) /\ a + 1 # 1
      /\ (a + 1) - 1 = a /\ b \in a + 1 .. Len(line)
  BY <1>1, <1>2
<1>5. a + 1 \in FieldStarts(line)
  <2>1. line[a] = SP /\ line[a + 1] # SP
    BY <1>1, <1>4 DEF Blank, Solid
  <2> QED
    BY <1>4, <2>1 DEF FieldStarts
<1>6. ASSUME NEW i \in FieldStarts(line)
      PROVE  i \in {1, a + 1}
  <2>1. i \in 1 .. Len(line) /\ line[i] # SP /\ (i = 1 \/ line[i - 1] = SP)
    BY DEF FieldStarts
  <2>2. \/ i = 1 \/ i = a + 1 \/ (i - 1 \in 1 .. w) \/ i \in w + 1 .. a
        \/ (i - 1 \in a + 1 .. b) \/ i \in b + 1 .. Len(line)
    BY <1>1, <1>2, <2>1
  <2> QED
    BY <1>1, <1>2, <2>1, <2>2 DEF Blank, Solid
<1>7. FieldStarts(line) = {1, a + 1} /\ FieldStarts(line) \ {1} = {a + 1}
  BY <1>3, <1>4, <1>5, <1>6
<1>8. Cardinality(FieldStarts(line)) = 2
  BY <1>4, <1>7, HowMany
<1>9. Field(line, a + 1) = SubSeq(line, a + 1, b)
  <2>1. b = Len(line) \/ b + 1 \in b + 1 .. Len(line)
    BY <1>1, <1>2
  <2>2. b = Len(line) \/ line[b + 1] = SP
    BY <1>1, <2>1 DEF Blank
  <2> QED
    BY <1>1, <1>4, <2>2, FieldIs
<1>10. Fields(line) = {SubSeq(line, a + 1, b)}
  <2> DEFINE G == FieldStarts(line) \ {1}
             c == a + 1
  <2>1. Fields(line) = {Field(line, i) : i \in G}
    BY DEF Fields
  <2>2. G = {c} /\ Field(line, c) = SubSeq(line, c, b)
    BY <1>7, <1>9
  <2> HIDE DEF G, c
  <2>3. {Field(line, i) : i \in G} = {Field(line, c)}
    BY <2>2
  <2>4. Fields(line) = {SubSeq(line, c, b)}
    BY <2>1, <2>2, <2>3
  <2> QED
    BY <2>4 DEF c
<1>11. CommandOf(st) = Named(WithArg, st.word)
  BY CommandIs
<1>12. Meaning(line) = Named(WithArg, st.word)
  BY <1>1, <1>3, <1>8, MeaningIs
<1> QED
  BY <1>2, <1>4, <1>10, <1>11, <1>12 DEF a, b

LEMMA TextSays ==
  ASSUME NEW line \in Seq(Byte), Hopeless(line)
  PROVE  Meaning(line) = "UNKNOWN"
<1> DEFINE n == Cardinality(FieldStarts(line))
           v == Field(line, 1)
<1>1. Len(line) \in Nat
  BY LenProperties
<1>2. ASSUME line # <<>>, line[1] = SP \/ ((v \notin PlainWords \/ n # 1) /\ (v \notin ArgWords \/ n # 2))
      PROVE  Meaning(line) = "UNKNOWN"
  BY <1>2, MeaningIs
<1>3. CASE Len(line) >= 1 /\ line[1] = SP
  BY <1>2, <1>3, EmptySeq
<1>4. CASE \E w \in Nat : Verb(line, w) /\ SubSeq(line, 1, w) \notin Prefixes
  <2>1. PICK w \in Nat : Verb(line, w) /\ SubSeq(line, 1, w) \notin Prefixes
    BY <1>4
  <2>2. w \in 1 .. Len(line) /\ Solid(line, 1, w) /\ 1 \in 1 .. Len(line) /\ 1 \in 1 .. w
    BY <1>1, <2>1 DEF Verb
  <2>3. line[1] # SP /\ line # <<>>
    BY <2>2, EmptySeq DEF Solid
  <2>4. PICK e \in 1 .. Len(line) : Solid(line, 1, e) /\ (e = Len(line) \/ line[e + 1] = SP)
    BY <2>2, <2>3, FieldEnds
  <2>5. v = SubSeq(line, 1, e)
    BY <2>2, <2>4, FieldIs
  <2>6. w <= e
    <3> SUFFICES ASSUME e < w
                 PROVE  FALSE
      BY <2>2, <2>4
    <3>1. e + 1 \in 1 .. w /\ e # Len(line)
      BY <1>1, <2>2
    <3> QED
      BY <2>2, <2>4, <3>1 DEF Solid
  <2>7. v \notin Words
    <3> SUFFICES ASSUME v \in Words
                 PROVE  FALSE
      OBVIOUS
    <3>1. Len(v) = 4
      BY WordSpelled DEF Spells
    <3>2. Len(v) = e /\ v \in Seq(Byte)
      <4>1. \A i \in 1 .. e : line[i] \in Byte
        BY <1>1, <2>4, ElementOfSeq
      <4>2. 1 \in Int /\ e \in Int
        OBVIOUS
      <4>3. v \in Seq(Byte) /\ Len(v) = IF 1 <= e THEN e - 1 + 1 ELSE 0
        BY <2>5, <4>1, <4>2, SubSeqProperties
      <4> HIDE DEF v
      <4> QED
        BY <4>3
    <3>3. w \in 0 .. 4 /\ 1 \in 1 .. Len(line) /\ e \in 1 .. Len(line) /\ 1 \in 1 .. e - 1 + 1
          /\ w \in 1 .. e - 1 + 1 /\ 1 + 1 - 1 = 1 /\ 1 + w - 1 = w
      <4>1. e = 4
        <5> HIDE DEF v
        <5> QED
          BY <3>1, <3>2
      <4> HIDE DEF v
      <4> QED
        BY <1>1, <2>2, <2>4, <2>6, <4>1
    <3>4. SubSeq(v, 1, w) \in Prefixes
      BY <3>3, PrefixType
    <3>5. SubSeq(v, 1, w) = SubSeq(line, 1, w)
      <4>1. SubSeq(SubSeq(line, 1, e), 1, w) = SubSeq(line, 1 + 1 - 1, 1 + w - 1)
        <5> HIDE DEF v
        <5> QED
          BY <3>3, SubSeqOfSubSeq
      <4> QED
        BY <2>5, <3>3, <4>1, Zenon
    <3> QED
      BY <2>1, <3>4, <3>5
  <2> QED
    BY <1>2, <2>3, <2>7 DEF Words
<1>5. ASSUME NEW w \in Nat, Behind(line, w)
      PROVE  v = SubSeq(line, 1, w) /\ line # <<>> /\ 1 \in FieldStarts(line) /\ 1 <= w
  <2>1. Verb(line, w) /\ line[w + 1] = SP
    BY <1>5 DEF Behind
  <2> QED
    BY <2>1, VerbIs DEF Verb
<1>6. CASE \E w \in Nat : Behind(line, w) /\ SubSeq(line, 1, w) \notin Words
  <2>1. PICK w \in Nat : Behind(line, w) /\ SubSeq(line, 1, w) \notin Words
    BY <1>6
  <2> QED
    BY <1>2, <1>5, <2>1 DEF Words
<1>7. CASE \E w \in Nat : Behind(line, w) /\ SubSeq(line, 1, w) \notin ArgWords
                          /\ \E i \in w + 2 .. Len(line) : Begins(line, i)
  <2>1. PICK w \in Nat : Behind(line, w) /\ SubSeq(line, 1, w) \notin ArgWords
                         /\ \E i \in w + 2 .. Len(line) : Begins(line, i)
    BY <1>7
  <2>2. PICK i \in w + 2 .. Len(line) : Begins(line, i)
    BY <2>1
  <2>3. v = SubSeq(line, 1, w) /\ line # <<>> /\ 1 \in FieldStarts(line) /\ 1 <= w
    BY <1>5, <2>1
  <2>4. i # 1 /\ i \in FieldStarts(line)
    BY <1>1, <2>2, <2>3, FieldsBegin
  <2>5. n # 1
    BY <2>3, <2>4, HowMany
  <2> QED
    BY <1>2, <2>1, <2>3, <2>5
<1>8. CASE \E i, j \in 2 .. Len(line) : i < j /\ Begins(line, i) /\ Begins(line, j)
  <2>1. PICK i \in 2 .. Len(line), j \in 2 .. Len(line) : i < j /\ Begins(line, i) /\ Begins(line, j)
    BY <1>8
  <2>2. line # <<>>
    BY <1>1, <2>1, EmptySeq
  <2>3. CASE line[1] = SP
    BY <1>2, <2>2, <2>3
  <2>4. CASE line[1] # SP
    <3>1. 1 \in FieldStarts(line) /\ i \in FieldStarts(line) /\ j \in FieldStarts(line)
      BY <1>1, <2>1, <2>4, FieldsBegin DEF Begins
    <3>2. 1 # i /\ 1 # j /\ i # j
      BY <2>1
    <3>3. n \notin {1, 2}
      BY <3>1, <3>2, HowMany
    <3> QED
      BY <1>2, <2>2, <3>3
  <2> QED
    BY <2>3, <2>4
<1> QED
  BY <1>3, <1>4, <1>6, <1>7, <1>8 DEF Hopeless

LEMMA Understood ==
  ASSUME NEW line \in Seq(Byte), NEW st \in State, Knows(line, st)
  PROVE  /\ CommandOf(st) = Meaning(line) /\ CommandOf(st) \in CommandNames
         /\ CommandOf(st) = "USER"
              => /\ Fields(line) = {SubSeq(line, st.tag1 + 1, st.tag2)}
                 /\ st.tag1 \in Nat /\ st.tag2 \in st.tag1 + 1 .. Len(line)
<1>1. CASE st.phase = "word"
  <2>1. CommandOf(st) = Meaning(line)
    BY <1>1, WordSays DEF Knows
  <2>2. CommandOf(st) \in DOMAIN Plain \union {"INVALID", "UNKNOWN"}
    BY <1>1, CommandIs, NamesAre
  <2> QED
    BY <2>1, <2>2, NamesAre DEF CommandNames
<1>2. CASE st.phase = "blanks"
  <2>1. CommandOf(st) = Meaning(line)
    BY <1>2, BlanksSay DEF Knows
  <2>2. CommandOf(st) \in DOMAIN Plain \union {"INVALID", "UNKNOWN"}
    BY <1>2, CommandIs, NamesAre, PrefixType DEF Knows, KnowsBlanks
  <2> QED
    BY <2>1, <2>2, NamesAre DEF CommandNames
<1>3. CASE st.phase \in {"arg", "tail"}
  <2>1. KnowsArg(line, st)
    BY <1>3 DEF Knows
  <2>2. CommandOf(st) \in DOMAIN WithArg
    BY <1>3, <2>1, CommandIs, NamesAre DEF KnowsArg
  <2> QED
    BY <1>3, <2>1, <2>2, ArgSays DEF CommandNames
<1>4. CASE st.phase = "text"
  <2>1. CommandOf(st) = "UNKNOWN"
    BY <1>4, CommandIs
  <2>2. Meaning(line) = "UNKNOWN"
    BY <1>4, TextSays DEF Knows
  <2> QED
    BY <2>1, <2>2 DEF CommandNames
<1> QED
  BY <1>1, <1>2, <1>3, <1>4, StateParts DEF Phase

-----------------------------------------------------------------------------
(* The lines of the input, and what a command that was found at the start  *)
(* of one has to do with it: it is the command of the line, or no proper   *)
(* line is there, since a byte of it is none, it is too long, or the       *)
(* client is gone before its end.                                          *)
LineIn(in, p)  == p = 0 \/ (p >= 2 /\ in[p - 1] = CR /\ in[p] = LF)
Ends(in, p)    == {q \in p + 2 .. Len(in) : LineIn(in, q)}
Garbled(in, p) == \E j \in 1 .. Len(in) - p :
                    ~Printable(in[p + j]) /\ \A q \in Ends(in, p) : p + j <= q - 2
Long(in, p)    == \A q \in Ends(in, p) : q > p + BufSize
Unsent(in, gone, n, p) == gone /\ \A q \in Ends(in, p) : q > n
Says(c, line)  == c.cmd = Meaning(line) /\ (c.cmd = "USER" => {c.arg} = Fields(line))
Heard(in, c) ==
  LET p == c.from
  IN  /\ p + c.len \in Ends(in, p) /\ \A q \in Ends(in, p) : p + c.len <= q
      /\ Says(c, SubSeq(in, p + 1, p + c.len - 2))
Judged(in, gone, n, c) ==
  LineIn(in, c.from) =>
    Heard(in, c) \/ Garbled(in, c.from) \/ Long(in, c.from) \/ Unsent(in, gone, n, c.from)

(* How much of the input has been sent.                                    *)
Sent == Len(input) - Len(coming)

Command == [cmd : CommandNames, arg : Seq(Char), from : Nat, len : 1 .. BufSize]

LexerOK ==
  /\ input \in Inputs /\ eof \in BOOLEAN /\ edge \in BOOLEAN /\ ready \in BOOLEAN /\ open \in BOOLEAN
  /\ scan \in [state : State, cur : 0 .. BufSize]
  /\ scan.state.end = "no" /\ Seen(scan.state, buf, scan.cur)
  /\ scan.cur > 0 /\ ready => sock # <<>> \/ eof
CommandsOK ==
  /\ commands \in Seq(Command)
  /\ \A i \in 1 .. Len(commands) : Judged(input, eof, Sent, commands[i])
LinesInv == Inv /\ LexerOK /\ CommandsOK /\ Resynchronises

-----------------------------------------------------------------------------
LEMMA Joined ==
  ASSUME NEW S, NEW s \in Seq(S), NEW t \in Seq(S), NEW u, u = s \o t
  PROVE  /\ u \in Seq(S) /\ Len(u) = Len(s) + Len(t) /\ Len(s) \in Nat /\ Len(t) \in Nat
         /\ \A i \in 1 .. Len(s) : u[i] = s[i]
         /\ \A i \in 1 .. Len(t) : u[Len(s) + i] = t[i]
<1>1. Len(s) \in Nat /\ Len(t) \in Nat
  BY LenProperties
<1>2. /\ u \in Seq(S) /\ Len(u) = Len(s) + Len(t)
      /\ \A i \in 1 .. Len(s) + Len(t) : u[i] = IF i <= Len(s) THEN s[i] ELSE t[i - Len(s)]
  BY ConcatProperties, Zenon
<1>3. ASSUME NEW i \in 1 .. Len(s)
      PROVE  u[i] = s[i]
  <2>1. i \in 1 .. Len(s) + Len(t) /\ i <= Len(s)
    BY <1>1
  <2> QED
    BY <1>2, <2>1
<1>4. ASSUME NEW i \in 1 .. Len(t)
      PROVE  u[Len(s) + i] = t[i]
  <2> DEFINE n == Len(s) + i
  <2>1. n \in 1 .. Len(s) + Len(t) /\ ~(n <= Len(s)) /\ n - Len(s) = i
    BY <1>1
  <2> HIDE DEF n
  <2>2. u[n] = t[n - Len(s)]
    BY <1>2, <2>1
  <2> QED
    BY <2>1, <2>2 DEF n
<1> QED
  BY <1>1, <1>2, <1>3, <1>4

(* The bytes of the buffer are those of the input behind what was taken.   *)
Windowed(bytes) ==
  /\ input \in Seq(Char) /\ bytes \in Seq(Char) /\ Len(bytes) \in Len(buf) .. BufSize
  /\ Len(taken) \in Nat /\ Len(coming) \in Nat /\ Len(buf) \in Nat /\ Len(bytes) \in Nat
  /\ Len(Filled.left) \in Nat /\ BufSize \in Nat /\ Len(input) \in Nat
  /\ Len(taken) + Len(bytes) + Len(Filled.left) + Len(coming) = Len(input)
  /\ Len(taken) + Len(bytes) <= Len(input)
  /\ \A i \in 1 .. Len(bytes) : input[Len(taken) + i] = bytes[i]
  /\ \A i \in 1 .. Len(buf) : buf[i] = bytes[i]

LEMMA Window ==
  ASSUME Inv, input \in Inputs, NEW bytes, bytes = buf \o Filled.got
  PROVE  Windowed(bytes)
<1> DEFINE got  == Filled.got
           left == Filled.left
           head == taken \o bytes
           body == head \o left
<1>1. /\ coming \in Seq(Char) /\ sock \in Seq(Char) /\ buf \in Seq(Char) /\ taken \in Seq(Char)
      /\ input \in Seq(Char) /\ BufSize \in Nat
  BY LexerAssumption DEF Inv, BuffersOK
<1>2. /\ bytes \in Seq(Char) /\ got \in Seq(Char) /\ left \in Seq(Char)
      /\ Len(bytes) \in Len(buf) .. BufSize /\ got \o left = sock
  BY FilledType DEF Inv
<1> HIDE DEF got, left
<1>3. /\ head \in Seq(Char) /\ Len(head) = Len(taken) + Len(bytes)
      /\ \A i \in 1 .. Len(bytes) : head[Len(taken) + i] = bytes[i]
  BY <1>1, <1>2, Joined
<1>4. /\ body \in Seq(Char) /\ Len(body) = Len(head) + Len(left)
      /\ \A i \in 1 .. Len(head) : body[i] = head[i]
  <2>1. body = head \o left
    OBVIOUS
  <2> HIDE DEF head, body
  <2> QED
    <3>1. head \in Seq(Char) /\ left \in Seq(Char)
      BY <1>2, <1>3
    <3> QED
      BY <2>1, <3>1, Joined
<1>5. input = body \o coming
  <2>1. taken \o buf \o (got \o left) = taken \o (buf \o got) \o left
    <3> HIDE DEF head, body
    <3>1. taken \in Seq(Char) /\ buf \in Seq(Char) /\ got \in Seq(Char) /\ left \in Seq(Char)
      BY <1>1, <1>2
    <3> QED
      BY <3>1, SMTT(30)
  <2>2. taken \o buf \o sock \o coming = input
    BY DEF Inv, Conserved
  <2>3. body = taken \o buf \o sock
    BY <1>2, <2>1 DEF got
  <2> QED
    BY <2>2, <2>3, Zenon
<1> HIDE DEF head, body
<1>6. Len(input) = Len(body) + Len(coming) /\ \A i \in 1 .. Len(body) : input[i] = body[i]
  <2>1. body \in Seq(Char) /\ coming \in Seq(Char)
    BY <1>1, <1>4
  <2> QED
    BY <1>5, <2>1, Joined
<1>7. /\ Len(taken) \in Nat /\ Len(coming) \in Nat /\ Len(buf) \in Nat /\ Len(left) \in Nat
      /\ Len(input) \in Nat /\ Len(bytes) \in Nat
  BY <1>1, <1>2, LenProperties
<1>8. ASSUME NEW i \in 1 .. Len(bytes)
      PROVE  input[Len(taken) + i] = bytes[i]
  <2>1. Len(taken) + i \in 1 .. Len(head) /\ Len(taken) + i \in 1 .. Len(body)
    BY <1>3, <1>4, <1>7
  <2> QED
    BY <1>3, <1>4, <1>6, <2>1
<1>9. \A i \in 1 .. Len(buf) : buf[i] = bytes[i]
  BY <1>1, <1>2, Joined DEF got
<1>10. Len(taken) + Len(bytes) + Len(left) + Len(coming) = Len(input)
  BY <1>3, <1>4, <1>6, <1>7
<1>11. Len(taken) + Len(bytes) <= Len(input)
  BY <1>7, <1>10
<1> QED
  BY <1>1, <1>2, <1>7, <1>8, <1>9, <1>10, <1>11 DEF left, Windowed

(* What is known of a part of the buffer stays when bytes are added.       *)
LEMMA SameFront ==
  ASSUME NEW s \in Seq(Char), NEW t \in Seq(Char), NEW d \in Int, NEW m \in Nat,
         \A i \in 1 .. m : s[i] \in Char /\ s[i] = t[d + i]
  PROVE  SubSeq(s, 1, m) = SubSeq(t, d + 1, d + m)
<1> DEFINE a == SubSeq(s, 1, m)
           b == SubSeq(t, d + 1, d + m)
<1>1. \A i \in d + 1 .. d + m : t[i] \in Char
  <2> SUFFICES ASSUME NEW i \in d + 1 .. d + m
               PROVE  t[i] \in Char
    OBVIOUS
  <2>1. i - d \in 1 .. m /\ d + (i - d) = i
    OBVIOUS
  <2>2. t[d + (i - d)] \in Char
    BY <2>1
  <2> QED
    BY <2>1, <2>2
<1>2. 1 \in Int /\ m \in Int /\ d + 1 \in Int /\ d + m \in Int
  OBVIOUS
<1>3. /\ a \in Seq(Char) /\ Len(a) = (IF 1 <= m THEN m - 1 + 1 ELSE 0)
      /\ \A i \in 1 .. m - 1 + 1 : a[i] = s[1 + i - 1]
  BY <1>2, SubSeqProperties
<1>4. /\ b \in Seq(Char) /\ Len(b) = (IF d + 1 <= d + m THEN d + m - (d + 1) + 1 ELSE 0)
      /\ \A i \in 1 .. d + m - (d + 1) + 1 : b[i] = t[d + 1 + i - 1]
  BY <1>1, <1>2, SubSeqProperties
<1> HIDE DEF a, b
<1>5. Len(a) = m /\ Len(b) = m
  BY <1>3, <1>4
<1>6. ASSUME NEW i \in 1 .. m
      PROVE  a[i] = b[i]
  <2>1. /\ i \in 1 .. m - 1 + 1 /\ 1 + i - 1 = i /\ i \in 1 .. d + m - (d + 1) + 1
        /\ d + 1 + i - 1 = d + i
    OBVIOUS
  <2>2. a[i] = s[i]
    BY <1>3, <2>1
  <2>3. b[i] = t[d + i]
    BY <1>4, <2>1
  <2> QED
    BY <2>2, <2>3
<1>7. a = b
  BY <1>3, <1>4, <1>5, <1>6, SeqEqual
<1> QED
  BY <1>7 DEF a, b

LEMMA SeenStays ==
  ASSUME NEW s \in Seq(Char), NEW t \in Seq(Char), NEW st \in State, NEW n \in 0 .. Len(s),
         Seen(st, s, n), \A i \in 1 .. Len(s) : s[i] = t[i]
  PROVE  Seen(st, t, n)
<1> DEFINE m == IF st.cr THEN n - 1 ELSE n
<1>1. /\ st.cr => n >= 1 /\ s[n] = CR
      /\ \A i \in 1 .. m : Printable(s[i])
      /\ Knows(SubSeq(s, 1, m), st)
  BY DEF Seen
<1>2. m \in Nat /\ m <= Len(s) /\ Len(s) \in Nat /\ n \in Nat
  BY <1>1, LenProperties
<1> HIDE DEF m
<1>3. \A i \in 1 .. m : i \in 1 .. Len(s) /\ s[i] \in Char /\ s[i] = t[0 + i]
  BY <1>2, ElementOfSeq
<1>4. SubSeq(s, 1, m) = SubSeq(t, 1, m)
  <2>1. SubSeq(s, 1, m) = SubSeq(t, 0 + 1, 0 + m)
    BY <1>2, <1>3, SameFront
  <2>2. 0 + 1 = 1 /\ 0 + m = m
    BY <1>2
  <2> QED
    BY <2>1, <2>2, Zenon
<1>5. \A i \in 1 .. m : Printable(t[i])
  BY <1>1, <1>3
<1>6. st.cr => t[n] = CR
  BY <1>1, <1>2
<1> QED
  BY <1>1, <1>4, <1>5, <1>6 DEF Seen, m

LEMMA NothingSeen ==
  /\ NotBegun \in [state : State, cur : 0 .. BufSize] /\ NotBegun.state.end = "no" /\ NotBegun.cur = 0
  /\ \A s : Seen(NotBegun.state, s, 0)
<1>1. Start \in State /\ Start.end = "no" /\ ~Start.cr /\ Start.phase = "word" /\ Start.word = <<>>
  BY PrefixType DEF Start, State, Phase
<1>2. \A s : SubSeq(s, 1, 0) = <<>>
  BY SubSeqEmpty
<1>3. \A s : Knows(SubSeq(s, 1, 0), Start)
  BY <1>1, <1>2, PrefixType DEF Knows, KnowsWord
<1>4. \A s : Seen(Start, s, 0)
  BY <1>1, <1>3 DEF Seen
<1>5. 0 \in 0 .. BufSize
  BY LexerAssumption
<1> QED
  BY <1>1, <1>4, <1>5 DEF NotBegun

-----------------------------------------------------------------------------
(* What a call makes of the bytes it takes.                                *)
Taken(r) == [cmd |-> r.cmd, arg |-> r.arg, from |-> Len(taken), len |-> r.len]

LEMMA PrefixIs ==
  ASSUME NEW s \in Seq(Char), NEW m \in 0 .. Len(s), NEW a, a = SubSeq(s, 1, m)
  PROVE  a \in Seq(Char) /\ Len(a) = m /\ \A i \in 1 .. m : a[i] = s[i]
<1>1. /\ 1 \in Int /\ m \in Int /\ \A i \in 1 .. m : s[i] \in Char
  BY LenProperties, ElementOfSeq
<1>2. /\ a \in Seq(Char) /\ Len(a) = IF 1 <= m THEN m - 1 + 1 ELSE 0
  BY <1>1, SubSeqProperties
<1>3. \A i \in 1 .. m - 1 + 1 : a[i] = s[1 + i - 1]
  BY <1>1, SubSeqProperties
<1> QED
  BY <1>2, <1>3

LEMMA PartOfPart ==
  ASSUME NEW s \in Seq(Char), NEW m \in 1 .. Len(s), NEW x \in 1 .. m, NEW y \in 1 .. m
  PROVE  SubSeq(SubSeq(s, 1, m), x, y) = SubSeq(s, x, y)
<1>1. Len(s) \in Nat
  BY LenProperties
<1>2. /\ 1 \in 1 .. Len(s) /\ x \in 1 .. m - 1 + 1 /\ y \in 1 .. m - 1 + 1
      /\ 1 + x - 1 = x /\ 1 + y - 1 = y
  BY <1>1
<1>3. SubSeq(SubSeq(s, 1, m), x, y) = SubSeq(s, 1 + x - 1, 1 + y - 1)
  BY <1>2, SubSeqOfSubSeq
<1> QED
  BY <1>2, <1>3, Zenon

(* A line that is taken whole is the one that starts there.                *)
LEMMA LineHeard ==
  ASSUME Inv, input \in Inputs, NEW bytes, bytes = buf \o Filled.got, NEW r, TookLine(r, bytes)
  PROVE  /\ Heard(input, Taken(r)) /\ Taken(r) \in Command /\ r.cmd # "INCOMPLETE"
         /\ r.next = NotBegun /\ r.len \in 2 .. Len(bytes)
         /\ \A j \in 1 .. r.len - 1 : bytes[j] # LF
<1> DEFINE p == Len(taken)
           k == r.len
           c == Taken(r)
           line == SubSeq(bytes, 1, k - 2)
<1>1. /\ input \in Seq(Char) /\ bytes \in Seq(Char) /\ Len(bytes) <= BufSize /\ Len(bytes) \in Nat
      /\ p \in Nat /\ BufSize \in Nat /\ Len(input) \in Nat /\ p + Len(bytes) <= Len(input)
      /\ \A i \in 1 .. Len(bytes) : input[p + i] = bytes[i]
  <2>1. Windowed(bytes)
    BY Window, Zenon
  <2>2. \A i \in 1 .. Len(bytes) : input[p + i] = bytes[i]
    BY <2>1, Zenon DEF Windowed
  <2>3. /\ input \in Seq(Char) /\ bytes \in Seq(Char) /\ Len(bytes) \in Len(buf) .. BufSize
        /\ Len(taken) + Len(bytes) <= Len(input) /\ Len(taken) \in Nat
        /\ Len(bytes) \in Nat /\ BufSize \in Nat /\ Len(input) \in Nat
    BY <2>1, Zenon DEF Windowed
  <2> QED
    BY <2>2, <2>3
<1>2. PICK st \in State :
        /\ k \in 2 .. Len(bytes) /\ Full(st, bytes, k) /\ r.next = NotBegun
        /\ r.cmd = CommandOf(st)
        /\ r.arg = IF CommandOf(st) = "USER" THEN SubSeq(bytes, st.tag1 + 1, st.tag2) ELSE <<>>
  BY DEF TookLine
<1>3. /\ k >= 2 /\ bytes[k - 1] = CR /\ bytes[k] = LF
      /\ \A i \in 1 .. k - 2 : Printable(bytes[i])
      /\ Knows(line, st)
  BY <1>2 DEF Full
<1>4. c.cmd = r.cmd /\ c.arg = r.arg /\ c.from = p /\ c.len = k
  BY DEF Taken
<1> HIDE DEF p, k, c
<1>5. /\ line \in Seq(Char) /\ Len(line) = k - 2 /\ line \in Seq(Byte)
      /\ \A i \in 1 .. k - 2 : line[i] = bytes[i]
  <2>1. k - 2 \in 0 .. Len(bytes)
    BY <1>1, <1>2
  <2>2. /\ line \in Seq(Char) /\ Len(line) = k - 2
        /\ \A i \in 1 .. k - 2 : line[i] = bytes[i]
    <3> DEFINE m == k - 2
    <3>1. m \in 0 .. Len(bytes) /\ line = SubSeq(bytes, 1, m)
      BY <2>1
    <3> HIDE DEF m, line
    <3>2. line \in Seq(Char) /\ Len(line) = m /\ \A i \in 1 .. m : line[i] = bytes[i]
      BY <1>1, <3>1, PrefixIs
    <3> QED
      BY <3>2 DEF m
  <2>3. line \in Seq(Byte)
    <3>1. Char \subseteq Byte
      BY DEF Byte
    <3> QED
      BY <2>2, <3>1, SeqMonotonic
  <2> HIDE DEF line
  <2> QED
    BY <1>2, <2>2, <2>3
<1>6. SubSeq(input, p + 1, p + k - 2) = line
  <2>1. \A i \in 1 .. k - 2 : bytes[i] \in Char /\ bytes[i] = input[p + i]
    BY <1>1, <1>2, ElementOfSeq
  <2>2. k - 2 \in Nat /\ p \in Int /\ p + (k - 2) = p + k - 2
    BY <1>1, <1>2
  <2>3. SubSeq(bytes, 1, k - 2) = SubSeq(input, p + 1, p + (k - 2))
    BY <1>1, <2>1, <2>2, SameFront
  <2> QED
    BY <2>2, <2>3
<1> HIDE DEF line
<1>7. /\ CommandOf(st) = Meaning(line) /\ CommandOf(st) \in CommandNames
      /\ CommandOf(st) = "USER"
           => /\ Fields(line) = {SubSeq(line, st.tag1 + 1, st.tag2)}
              /\ st.tag1 \in Nat /\ st.tag2 \in st.tag1 + 1 .. Len(line)
  BY <1>3, <1>5, Understood
<1>8. ASSUME CommandOf(st) = "USER"
      PROVE  r.arg \in Seq(Char) /\ {r.arg} = Fields(line)
  <2> DEFINE a == st.tag1
             b == st.tag2
  <2>1. /\ r.arg = SubSeq(bytes, a + 1, b) /\ Fields(line) = {SubSeq(line, a + 1, b)}
        /\ a \in Nat /\ b \in a + 1 .. k - 2
    BY <1>2, <1>5, <1>7, <1>8
  <2> HIDE DEF a, b
  <2>2. b \in Nat /\ a + 1 \in Nat \ {0} /\ b <= Len(bytes)
    BY <1>1, <1>2, <2>1
  <2>3. SubSeq(bytes, a + 1, b) \in Seq(Char)
    BY <1>1, <2>2, SubSeqType
  <2>4. SubSeq(bytes, a + 1, b) = SubSeq(line, a + 1, b)
    <3> DEFINE m == k - 2
               x == a + 1
    <3>1. x \in 1 .. m /\ b \in 1 .. m /\ m \in 1 .. Len(bytes)
      BY <1>1, <1>2, <2>1, <2>2
    <3>2. line = SubSeq(bytes, 1, m)
      BY DEF line
    <3> HIDE DEF m, x
    <3>3. SubSeq(SubSeq(bytes, 1, m), x, b) = SubSeq(bytes, x, b)
      BY <1>1, <3>1, PartOfPart
    <3> QED
      BY <3>2, <3>3, Zenon DEF x
  <2> QED
    BY <2>1, <2>3, <2>4
<1>9. ASSUME CommandOf(st) # "USER"
      PROVE  r.arg \in Seq(Char)
  <2>1. r.arg = <<>> /\ <<>> \in Seq(Char)
    BY <1>2, <1>9, EmptySeq
  <2> QED
    BY <1>9, <2>1
<1>10. r.arg \in Seq(Char) /\ (CommandOf(st) = "USER" => {r.arg} = Fields(line))
  BY <1>2, <1>7, <1>8, <1>9
<1>11. Says(c, line)
  BY <1>2, <1>4, <1>7, <1>10 DEF Says
<1>12. p + k \in Ends(input, p)
  <2>1. p + k - 1 = p + (k - 1) /\ k - 1 \in 1 .. Len(bytes) /\ k \in 1 .. Len(bytes)
    BY <1>1, <1>2
  <2>2. input[p + k - 1] = CR /\ input[p + k] = LF
    BY <1>1, <1>3, <2>1
  <2>3. p + k >= 2 /\ p + k \in p + 2 .. Len(input)
    BY <1>1, <1>2
  <2> DEFINE q == p + k
  <2>4. /\ q - 1 = p + k - 1 /\ input[q] = LF /\ q >= 2 /\ q \in p + 2 .. Len(input)
        /\ input[p + k - 1] = CR
    <3>1. q - 1 = p + k - 1
      BY <1>1, <1>2
    <3>2. input[q] = LF /\ input[p + k - 1] = CR
      BY <2>2, Zenon
    <3>3. q >= 2 /\ q \in p + 2 .. Len(input)
      BY <2>3
    <3> QED
      BY <3>1, <3>2, <3>3
  <2> HIDE DEF q
  <2>5. q \in Ends(input, p)
    <3>1. input[q - 1] = CR
      BY <2>4, Zenon
    <3> QED
      BY <2>4, <3>1 DEF Ends, LineIn
  <2> QED
    BY <2>5 DEF q
<1>13. ~Printable(CR) /\ ~Printable(LF) /\ CR # LF
  BY DEF Printable, CR, LF
<1>14. ASSUME NEW q \in Ends(input, p), q < p + k
       PROVE  FALSE
  <2>1. q \in p + 2 .. Len(input) /\ q # 0 /\ LineIn(input, q)
    BY <1>1 DEF Ends
  <2>2. input[q - 1] = CR
    BY <2>1 DEF LineIn
  <2>3. q - 1 - p \in 1 .. k - 2 /\ q - 1 - p \in 1 .. Len(bytes) /\ p + (q - 1 - p) = q - 1
    <3>1. /\ p \in Nat /\ Len(input) \in Nat /\ Len(bytes) \in Nat /\ k \in 2 .. Len(bytes)
          /\ q \in p + 2 .. Len(input) /\ q < p + k
      BY <1>1, <1>2, <1>14, <2>1
    <3> QED
      BY <3>1
  <2>4. bytes[q - 1 - p] = CR
    BY <1>1, <2>2, <2>3
  <2> QED
    BY <1>3, <1>13, <2>3, <2>4
<1>15. \A q \in Ends(input, p) : p + k <= q
  <2>1. \A q \in Ends(input, p) : q \in Nat
    BY <1>1 DEF Ends
  <2> QED
    BY <1>1, <1>2, <1>14, <2>1
<1>16. Heard(input, c)
  BY <1>4, <1>6, <1>11, <1>12, <1>15 DEF Heard
<1>17. c \in Command
  <2>1. k \in 1 .. BufSize
    BY <1>1, <1>2
  <2>2. c = [cmd |-> r.cmd, arg |-> r.arg, from |-> p, len |-> k]
    BY DEF c, p, k, Taken
  <2> QED
    BY <1>1, <1>2, <1>7, <1>10, <2>1, <2>2 DEF Command
<1>18. \A j \in 1 .. k - 1 : bytes[j] # LF
  <2>1. \A j \in 1 .. k - 1 : j \in 1 .. k - 2 \/ j = k - 1
    BY <1>2
  <2> QED
    BY <1>3, <1>13, <2>1
<1>19. r.cmd # "INCOMPLETE"
  BY <1>2, <1>7, NamesAre
<1> QED
  BY <1>2, <1>16, <1>17, <1>18, <1>19 DEF c, k

(* One byte that is taken starts no line of a client's.                    *)
LEMMA ByteTaken ==
  ASSUME Inv, input \in Inputs, NEW bytes, bytes = buf \o Filled.got, NEW r, TookByte(r, bytes)
  PROVE  /\ Taken(r) \in Command /\ r.cmd # "INCOMPLETE" /\ r.next = NotBegun /\ r.len = 1
         /\ Taken(r).from = Len(taken) /\ 1 <= Len(bytes)
<1>1. bytes \in Seq(Char) /\ Len(bytes) \in Nat /\ Len(bytes) <= BufSize /\ Len(taken) \in Nat
      /\ BufSize \in Nat
  <2>1. Windowed(bytes)
    BY Window, Zenon
  <2> QED
    BY <2>1 DEF Windowed
<1>2. bytes # <<>> /\ r.cmd = "INVALID" /\ r.len = 1 /\ r.arg = <<>> /\ r.next = NotBegun
  BY DEF TookByte, FallBack, Found
<1>3. 1 <= Len(bytes) /\ 1 \in 1 .. BufSize
  BY <1>1, <1>2, EmptySeq
<1>4. "INVALID" \in CommandNames /\ <<>> \in Seq(Char)
  BY EmptySeq DEF CommandNames
<1>5. Taken(r) = [cmd |-> "INVALID", arg |-> <<>>, from |-> Len(taken), len |-> 1]
  BY <1>2 DEF Taken
<1> QED
  BY <1>1, <1>2, <1>3, <1>4, <1>5 DEF Command

LEMMA BrokenLine ==
  ASSUME Inv, input \in Inputs, NEW bytes, bytes = buf \o Filled.got,
         NEW k \in 1 .. Len(bytes), Broken(bytes, k)
  PROVE  Garbled(input, Len(taken))
<1> DEFINE p == Len(taken)
<1>1. /\ Len(bytes) \in Nat /\ p \in Nat /\ Len(input) \in Nat /\ p + Len(bytes) <= Len(input)
      /\ \A i \in 1 .. Len(bytes) : input[p + i] = bytes[i]
  <2>1. Windowed(bytes)
    BY Window, Zenon
  <2> QED
    BY <2>1 DEF Windowed
<1> HIDE DEF p
<1>2. PICK j \in 1 .. k :
        /\ \A i \in 1 .. j - 1 : Printable(bytes[i])
        /\ ~Printable(bytes[j])
        /\ bytes[j] = CR => j < k /\ bytes[j + 1] # LF
  BY DEF Broken
<1>3. j \in 1 .. Len(bytes) /\ j \in 1 .. Len(input) - p /\ ~Printable(input[p + j])
  BY <1>1, <1>2
<1>4. ASSUME NEW q \in Ends(input, p), p + j > q - 2
      PROVE  FALSE
  <2>1. q \in p + 2 .. Len(input) /\ q # 0 /\ LineIn(input, q)
    BY <1>1 DEF Ends
  <2>2. input[q - 1] = CR /\ input[q] = LF
    BY <2>1 DEF LineIn
  <2> DEFINE i == q - 1 - p
  <2>3. i \in 1 .. j /\ i \in 1 .. Len(bytes) /\ p + i = q - 1 /\ p + (i + 1) = q /\ i \in Nat
    BY <1>1, <1>2, <1>3, <1>4, <2>1
  <2> HIDE DEF i
  <2>4. bytes[i] = CR /\ ~Printable(CR)
    BY <1>1, <2>2, <2>3 DEF Printable
  <2>5. i = j
    <3>1. i \notin 1 .. j - 1
      BY <1>2, <2>4
    <3> QED
      BY <1>3, <2>3, <3>1
  <2>6. j < k /\ bytes[j + 1] # LF
    BY <1>2, <2>4, <2>5
  <2>7. j + 1 \in 1 .. Len(bytes)
    BY <1>3, <2>6
  <2>8. bytes[j + 1] = LF
    BY <1>1, <2>2, <2>3, <2>5, <2>7
  <2> QED
    BY <2>6, <2>8
<1>5. \A q \in Ends(input, p) : p + j <= q - 2
  <2>1. \A q \in Ends(input, p) : q \in Nat
    BY <1>1 DEF Ends
  <2> QED
    BY <1>1, <1>3, <1>4, <2>1
<1>6. Garbled(input, p)
  BY <1>3, <1>5 DEF Garbled
<1> QED
  BY <1>6 DEF p

(* Nothing new to scan: the buffer is full or the client is gone.          *)
LEMMA NothingNew ==
  ASSUME LinesInv, ready, NEW bytes, bytes = buf \o Filled.got, bytes # <<>>, scan.cur = Len(bytes)
  PROVE  Long(input, Len(taken)) \/ Unsent(input, eof, Sent, Len(taken))
<1> DEFINE p == Len(taken)
           left == Filled.left
<1>1. /\ bytes \in Seq(Char) /\ Len(bytes) \in Len(buf) .. BufSize /\ Len(bytes) \in Nat /\ p \in Nat
      /\ Len(input) \in Nat /\ Len(coming) \in Nat /\ Len(buf) \in Nat /\ Len(left) \in Nat /\ BufSize \in Nat
      /\ p + Len(bytes) + Len(left) + Len(coming) = Len(input)
      /\ \A i \in 1 .. Len(bytes) : input[p + i] = bytes[i]
      /\ \A i \in 1 .. Len(buf) : buf[i] = bytes[i]
  <2>1. Windowed(bytes)
    BY Window, Zenon DEF LinesInv, LexerOK
  <2> QED
    BY <2>1 DEF Windowed
<1>2. /\ scan.cur \in 0 .. Len(buf) /\ scan.state \in State /\ Seen(scan.state, buf, scan.cur)
      /\ buf \in Seq(Char) /\ sock \in Seq(Char)
      /\ scan.cur > 0 /\ ready => sock # <<>> \/ eof
  BY DEF LinesInv, LexerOK, Inv, BuffersOK
<1>3. Len(bytes) = Len(buf) /\ Len(bytes) >= 1 /\ scan.cur > 0
  BY <1>1, <1>2, EmptySeq
<1>4. Seen(scan.state, bytes, Len(bytes))
  BY <1>1, <1>2, SeenStays
<1> HIDE DEF p, left
<1>5. ASSUME NEW q \in Ends(input, p), q <= p + Len(bytes)
      PROVE  FALSE
  <2>1. q \in p + 2 .. Len(input) /\ q # 0 /\ LineIn(input, q)
    BY <1>1 DEF Ends
  <2>2. input[q - 1] = CR
    BY <2>1 DEF LineIn
  <2> DEFINE i == q - 1 - p
  <2>3. i \in 1 .. Len(bytes) - 1 /\ i \in 1 .. Len(bytes) /\ p + i = q - 1
    BY <1>1, <1>5, <2>1
  <2> HIDE DEF i
  <2>4. bytes[i] = CR /\ ~Printable(CR)
    BY <1>1, <2>2, <2>3 DEF Printable
  <2>5. Printable(bytes[i])
    BY <1>4, <2>3 DEF Seen
  <2> QED
    BY <2>4, <2>5
<1>6. \A q \in Ends(input, p) : q > p + Len(bytes)
  <2>1. \A q \in Ends(input, p) : q \in Nat
    BY <1>1 DEF Ends
  <2> QED
    BY <1>1, <1>5, <2>1
<1>7. CASE Len(buf) = BufSize
  BY <1>3, <1>6, <1>7 DEF Long, p
<1>8. CASE Len(buf) # BufSize
  <2>1. left = <<>> /\ sock = <<>>
    <3> DEFINE room == BufSize - Len(buf)
               over == IF eof THEN "eof" ELSE "again"
               n == IF Len(sock) <= room THEN Len(sock) ELSE room
    <3>1. room \in Nat /\ room >= 1 /\ Len(sock) \in Nat /\ n \in Nat
      BY <1>1, <1>2, <1>3, <1>8, LenProperties
    <3>2. Filled.got = SubSeq(sock, 1, n) /\ Filled.left = SubSeq(sock, n + 1, Len(sock))
      BY DEF Filled, Read
    <3>3. Len(Filled.got) = 0
      <4> DEFINE got == Filled.got
      <4>1. got \in Seq(Char)
        BY FilledType DEF LinesInv, Inv
      <4> HIDE DEF got
      <4>2. Len(bytes) = Len(buf) + Len(got) /\ Len(got) \in Nat
        BY <1>2, <4>1, Joined DEF got
      <4> QED
        BY <1>1, <1>3, <4>2 DEF got
    <3>4. n = 0
      <4>1. \A i \in 1 .. n : sock[i] \in Char
        BY <1>2, <3>1, ElementOfSeq
      <4>2. Len(SubSeq(sock, 1, n)) = IF 1 <= n THEN n - 1 + 1 ELSE 0
        <5>1. 1 \in Int /\ n \in Int
          BY <3>1
        <5> HIDE DEF n
        <5> QED
          BY <4>1, <5>1, SubSeqProperties
      <4> HIDE DEF n
      <4> QED
        BY <3>1, <3>2, <3>3, <4>2
    <3>5. Len(sock) = 0
      <4> HIDE DEF room
      <4> QED
        BY <3>1, <3>4
    <3>6. sock = <<>>
      BY <1>2, <3>5, EmptySeq
    <3>7. SubSeq(sock, 1, Len(sock)) = sock
      BY <1>2, SubSeqFull
    <3> HIDE DEF n
    <3>8. 0 + 1 = 1
      OBVIOUS
    <3> QED
      BY <3>2, <3>4, <3>6, <3>7, <3>8, Zenon DEF left
  <2>2. eof
    BY <1>2, <1>3, <2>1
  <2>3. Len(left) = 0
    BY <2>1, EmptySeq
  <2>4. p + Len(bytes) = Len(input) - Len(coming)
    BY <1>1, <2>3
  <2> QED
    BY <1>6, <2>2, <2>4 DEF Unsent, Sent, p
<1> QED
  BY <1>7, <1>8

-----------------------------------------------------------------------------
(* What a command says of the input stays true.                            *)
LEMMA CommandsStay ==
  ASSUME CommandsOK, input' = input, eof => eof' /\ coming' = coming, commands' = commands
  PROVE  CommandsOK'
<1>1. eof => eof' /\ Sent' = Sent
  BY DEF Sent
<1>2. ASSUME NEW p, Unsent(input, eof, Sent, p)
      PROVE  Unsent(input, eof', Sent', p)
  BY <1>1, <1>2 DEF Unsent
<1>3. ASSUME NEW c, Judged(input, eof, Sent, c)
      PROVE  Judged(input, eof', Sent', c)
  BY <1>2, <1>3 DEF Judged
<1>4. \A i \in 1 .. Len(commands) : Judged(input, eof', Sent', commands[i])
  BY <1>3 DEF CommandsOK
<1> QED
  BY <1>4 DEF CommandsOK

(* Steps that take nothing.                                                *)
LEMMA InitLines == Init => LinesInv
<1> SUFFICES ASSUME Init PROVE LinesInv
  OBVIOUS
<1>1. Inv
  BY InitInv
<1>2. scan = NotBegun /\ buf = <<>> /\ commands = <<>> /\ taken = <<>> /\ Len(<<>>) = 0
  BY EmptySeq DEF Init
<1>3. LexerOK
  BY <1>2, NothingSeen DEF Init, LexerOK
<1>4. CommandsOK
  <2>1. <<>> \in Seq(Command)
    BY EmptySeq
  <2> QED
    BY <1>2, <2>1 DEF CommandsOK
<1>5. Resynchronises
  BY <1>2 DEF Resynchronises
<1> QED
  BY <1>1, <1>3, <1>4, <1>5 DEF LinesInv

LEMMA ArrivesLines == LinesInv /\ Arrives => LinesInv'
<1> SUFFICES ASSUME LinesInv, Arrives PROVE LinesInv'
  OBVIOUS
<1>1. Inv'
  BY ArrivesInv DEF LinesInv
<1>2. PICK n \in 1 .. Len(coming) : sock' = sock \o SubSeq(coming, 1, n)
  BY DEF Arrives
<1>3. sock' # <<>>
  <2> DEFINE piece == SubSeq(coming, 1, n)
  <2>1. sock \in Seq(Char) /\ coming \in Seq(Char) /\ n \in 0 .. Len(coming)
    BY LenProperties DEF LinesInv, Inv, BuffersOK
  <2>2. piece \in Seq(Char) /\ Len(piece) = n
    BY <2>1, PrefixIs
  <2> HIDE DEF piece
  <2>3. Len(sock') = Len(sock) + n /\ Len(sock) \in Nat
    BY <1>2, <2>1, <2>2, Joined DEF piece
  <2>4. Len(sock') # 0
    BY <2>3
  <2> QED
    BY <2>4, EmptySeq
<1>4. /\ input' = input /\ eof' = eof /\ ~eof /\ ready' = ready /\ open' = open /\ edge' = TRUE
      /\ buf' = buf /\ scan' = scan /\ taken' = taken /\ commands' = commands
  BY DEF Arrives
<1>5. LexerOK'
  BY <1>3, <1>4 DEF LinesInv, LexerOK
<1>6. CommandsOK'
  BY <1>4, CommandsStay DEF LinesInv
<1>7. Resynchronises'
  BY <1>4 DEF LinesInv, Resynchronises, LineStart
<1> QED
  BY <1>1, <1>5, <1>6, <1>7 DEF LinesInv

LEMMA ClosesLines == LinesInv /\ ClientCloses => LinesInv'
<1> SUFFICES ASSUME LinesInv, ClientCloses PROVE LinesInv'
  OBVIOUS
<1>1. /\ input' = input /\ eof' = TRUE /\ coming' = coming /\ sock' = sock /\ ready' = ready
      /\ open' = open /\ edge' = TRUE
      /\ buf' = buf /\ scan' = scan /\ taken' = taken /\ commands' = commands
  BY DEF ClientCloses
<1>2. Inv'
  BY <1>1 DEF LinesInv, Inv, BuffersOK, Conserved
<1>3. LexerOK'
  BY <1>1 DEF LinesInv, LexerOK
<1>4. CommandsOK'
  BY <1>1, CommandsStay DEF LinesInv
<1>5. Resynchronises'
  BY <1>1 DEF LinesInv, Resynchronises, LineStart
<1> QED
  BY <1>2, <1>3, <1>4, <1>5 DEF LinesInv

LEMMA PollLines == LinesInv /\ Poll => LinesInv'
<1> SUFFICES ASSUME LinesInv, Poll PROVE LinesInv'
  OBVIOUS
<1>1. /\ input' = input /\ eof' = eof /\ coming' = coming /\ sock' = sock
      /\ ready' = (ready \/ sock # <<>> \/ eof) /\ open' = open /\ edge' = FALSE
      /\ buf' = buf /\ scan' = scan /\ taken' = taken /\ commands' = commands
  BY DEF Poll
<1>2. Inv'
  BY <1>1 DEF LinesInv, Inv, BuffersOK, Conserved
<1>3. LexerOK'
  BY <1>1 DEF LinesInv, LexerOK
<1>4. CommandsOK'
  BY <1>1, CommandsStay DEF LinesInv
<1>5. Resynchronises'
  BY <1>1 DEF LinesInv, Resynchronises, LineStart
<1> QED
  BY <1>2, <1>3, <1>4, <1>5 DEF LinesInv

LEMMA StutterLines == LinesInv /\ UNCHANGED vars => LinesInv'
<1> SUFFICES ASSUME LinesInv, UNCHANGED vars PROVE LinesInv'
  OBVIOUS
<1>1. /\ input' = input /\ eof' = eof /\ coming' = coming /\ sock' = sock
      /\ ready' = ready /\ open' = open /\ edge' = edge
      /\ buf' = buf /\ scan' = scan /\ taken' = taken /\ commands' = commands
  BY DEF vars
<1>2. Inv'
  BY <1>1 DEF LinesInv, Inv, BuffersOK, Conserved
<1>3. LexerOK'
  BY <1>1 DEF LinesInv, LexerOK
<1>4. CommandsOK'
  BY <1>1, CommandsStay DEF LinesInv
<1>5. Resynchronises'
  BY <1>1 DEF LinesInv, Resynchronises, LineStart
<1> QED
  BY <1>2, <1>3, <1>4, <1>5 DEF LinesInv

-----------------------------------------------------------------------------
(* A call of the lexer.                                                    *)
LEMMA Called ==
  ASSUME LinesInv, ready, NEW bytes, bytes = buf \o Filled.got, NEW r, r = parsePopRequest(scan, bytes)
  PROVE  \/ TookLine(r, bytes)
         \/ /\ TookByte(r, bytes)
            /\ Garbled(input, Len(taken)) \/ Long(input, Len(taken)) \/ Unsent(input, eof, Sent, Len(taken))
         \/ LeftOff(r, scan, bytes)
<1>1. Inv /\ input \in Inputs
  BY DEF LinesInv, LexerOK
<1>2. Windowed(bytes)
  BY <1>1, Window
<1>3. /\ bytes \in Seq(Char) /\ Len(bytes) \in Len(buf) .. BufSize /\ Len(bytes) \in Nat
      /\ \A i \in 1 .. Len(buf) : buf[i] = bytes[i]
  BY <1>2, Zenon DEF Windowed
<1>4. /\ scan.cur \in 0 .. Len(buf) /\ scan.state \in State /\ scan.state.end = "no"
      /\ Seen(scan.state, buf, scan.cur) /\ buf \in Seq(Char) /\ Len(buf) \in Nat
  BY <1>2 DEF LinesInv, LexerOK, Inv, BuffersOK, Windowed
<1>5. Seen(scan.state, bytes, scan.cur) /\ scan.cur \in 0 .. Len(bytes)
  <2>1. scan.cur \in 0 .. Len(bytes)
    BY <1>3, <1>4
  <2> DEFINE st == scan.state
             n  == scan.cur
  <2>2. st \in State /\ n \in 0 .. Len(buf) /\ Seen(st, buf, n) /\ buf \in Seq(Char)
    BY <1>4
  <2> HIDE DEF st, n
  <2>3. Seen(st, bytes, n)
    BY <1>3, <2>2, SeenStays
  <2> QED
    BY <2>1, <2>3 DEF st, n
<1>6. \/ TookLine(r, bytes)
      \/ TookByte(r, bytes) /\ \E k \in 1 .. Len(bytes) : Broken(bytes, k)
      \/ TookByte(r, bytes) /\ scan.cur = Len(bytes)
      \/ LeftOff(r, scan, bytes)
  BY <1>3, <1>4, <1>5, ParseFinds
<1>7. (\E k \in 1 .. Len(bytes) : Broken(bytes, k)) => Garbled(input, Len(taken))
  BY <1>1, BrokenLine
<1>8. TookByte(r, bytes) /\ scan.cur = Len(bytes) => Long(input, Len(taken)) \/ Unsent(input, eof, Sent, Len(taken))
  BY NothingNew DEF TookByte
<1> QED
  BY <1>6, <1>7, <1>8

LEMMA LexCommandLines == LinesInv /\ LexCommand => LinesInv'
<1> SUFFICES ASSUME LinesInv, LexCommand PROVE LinesInv'
  OBVIOUS
<1> DEFINE bytes == buf \o Filled.got
           r     == parsePopRequest(scan, bytes)
           p     == Len(taken)
           k     == r.len
           c     == Taken(r)
           head  == SubSeq(bytes, 1, k)
<1>1. /\ ready /\ r.cmd # "INCOMPLETE" /\ scan' = r.next
      /\ taken' = taken \o head
      /\ commands' = Append(commands, c)
      /\ ready' = TRUE /\ input' = input /\ coming' = coming /\ eof' = eof /\ edge' = edge /\ open' = open
  BY DEF LexCommand, ReadyAfter, Taken
<1>2. Inv'
  BY LexCommandInv DEF LinesInv
<1>3. Inv /\ input \in Inputs /\ commands \in Seq(Command) /\ taken \in Seq(Char)
  BY DEF LinesInv, LexerOK, CommandsOK, Inv, BuffersOK
<1> HIDE DEF bytes, r
<1>4. Windowed(bytes)
  BY <1>3, Window DEF bytes
<1>5. /\ bytes \in Seq(Char) /\ Len(bytes) \in Nat /\ p \in Nat
      /\ \A i \in 1 .. Len(bytes) : input[p + i] = bytes[i]
  BY <1>4, Zenon DEF Windowed
<1>6. \/ TookLine(r, bytes)
      \/ TookByte(r, bytes) /\ (Garbled(input, p) \/ Long(input, p) \/ Unsent(input, eof, Sent, p))
      \/ LeftOff(r, scan, bytes)
  BY <1>1, Called DEF bytes, r
<1>7. /\ Judged(input, eof, Sent, c) /\ c \in Command /\ c.from = p /\ r.next = NotBegun /\ k \in 1 .. Len(bytes)
      /\ \A j \in 1 .. k - 1 : bytes[j] # LF
  <2>1. CASE TookLine(r, bytes)
    <3>1. /\ Heard(input, c) /\ c \in Command /\ r.next = NotBegun /\ k \in 2 .. Len(bytes)
          /\ \A j \in 1 .. k - 1 : bytes[j] # LF
      BY <1>3, <2>1, LineHeard DEF bytes
    <3> QED
      BY <1>5, <3>1 DEF Judged, Taken
  <2>2. CASE TookByte(r, bytes) /\ (Garbled(input, p) \/ Long(input, p) \/ Unsent(input, eof, Sent, p))
    <3>1. c \in Command /\ r.next = NotBegun /\ k = 1 /\ c.from = p /\ 1 <= Len(bytes)
      BY <1>3, <2>2, ByteTaken DEF bytes
    <3>2. k \in 1 .. Len(bytes) /\ \A j \in 1 .. k - 1 : bytes[j] # LF
      BY <1>5, <3>1
    <3>3. Judged(input, eof, Sent, c)
      BY <2>2, <3>1 DEF Judged
    <3> QED
      BY <3>1, <3>2, <3>3
  <2>3. CASE LeftOff(r, scan, bytes)
    BY <1>1, <2>3 DEF LeftOff
  <2> QED
    BY <1>6, <2>1, <2>2, <2>3
<1> HIDE DEF c, p, k, head
<1>8. LexerOK'
  BY <1>1, <1>7, NothingSeen DEF LinesInv, LexerOK
<1>9. /\ commands' \in Seq(Command) /\ Len(commands') = Len(commands) + 1 /\ Len(commands) \in Nat
      /\ commands'[Len(commands) + 1] = c
      /\ \A i \in 1 .. Len(commands) : commands'[i] = commands[i]
  BY <1>1, <1>3, <1>7, AppendProperties, LenProperties
<1>10. CommandsOK'
  <2>1. Sent' = Sent
    BY <1>1 DEF Sent
  <2>2. \A i \in 1 .. Len(commands) : Judged(input, eof, Sent, commands'[i])
    BY <1>9 DEF LinesInv, CommandsOK
  <2>3. \A i \in 1 .. Len(commands') : i \in 1 .. Len(commands) \/ i = Len(commands) + 1
    BY <1>9
  <2>4. \A i \in 1 .. Len(commands') : Judged(input, eof, Sent, commands'[i])
    BY <1>7, <1>9, <2>2, <2>3
  <2> QED
    BY <1>1, <1>9, <2>1, <2>4 DEF CommandsOK
<1>11. Resynchronises'
  <2>1. Len(head) = k /\ head \in Seq(Char)
    <3>1. k \in 0 .. Len(bytes) /\ head = SubSeq(bytes, 1, k)
      BY <1>5, <1>7 DEF head, k
    <3> QED
      BY <1>5, <3>1, PrefixIs
  <2>2. Len(taken') = p + k
    <3>1. Len(taken') = Len(taken) + Len(head)
      <4>1. taken' = taken \o head /\ taken \in Seq(Char) /\ head \in Seq(Char)
        BY <1>1, <1>3, <2>1
      <4>2. Len(taken \o head) = Len(taken) + Len(head)
        BY <4>1, ConcatProperties
      <4> QED
        BY <4>1, <4>2, Zenon
    <3> QED
      BY <2>1, <3>1 DEF p
  <2> SUFFICES ASSUME NEW q \in 0 .. Len(taken') - 1, LineStart(q)'
               PROVE  \E i \in 1 .. Len(commands') : commands'[i].from = q
    BY DEF Resynchronises
  <2>3. LineStart(q)
    BY <1>1 DEF LineStart
  <2>4. k \in Nat /\ p \in Nat
    BY <1>5, <1>7
  <2>5. CASE q < p
    <3>1. q \in 0 .. Len(taken) - 1
      BY <1>5, <2>5 DEF p
    <3>2. PICK i \in 1 .. Len(commands) : commands[i].from = q
      BY <2>3, <3>1 DEF LinesInv, Resynchronises
    <3> QED
      BY <1>9, <3>2
  <2>6. CASE q = p
    <3>1. Len(commands) + 1 \in 1 .. Len(commands')
      BY <1>9
    <3> QED
      BY <1>7, <1>9, <2>6, <3>1
  <2>7. CASE q > p
    <3>1. q - p \in 1 .. k - 1 /\ p + (q - p) = q /\ q # 0
      BY <2>2, <2>4, <2>7
    <3>2. q - p \in 1 .. Len(bytes)
      BY <1>5, <1>7, <3>1
    <3>3. input[q] = LF
      BY <2>3, <3>1 DEF LineStart
    <3>4. bytes[q - p] = LF
      BY <1>5, <3>1, <3>2, <3>3
    <3> QED
      BY <1>7, <3>1, <3>4
  <2> QED
    BY <2>2, <2>4, <2>5, <2>6, <2>7
<1> QED
  BY <1>2, <1>8, <1>10, <1>11 DEF LinesInv

LEMMA LexNothingLines == LinesInv /\ LexNothing => LinesInv'
<1> SUFFICES ASSUME LinesInv, LexNothing PROVE LinesInv'
  OBVIOUS
<1> DEFINE bytes == buf \o Filled.got
           r     == parsePopRequest(scan, bytes)
<1>1. /\ ready /\ r.cmd = "INCOMPLETE" /\ scan' = r.next /\ buf' = bytes
      /\ ready' = FALSE /\ input' = input /\ coming' = coming /\ eof' = eof /\ edge' = edge
      /\ open' \in BOOLEAN /\ taken' = taken /\ commands' = commands
  BY DEF LexNothing, ReadyAfter
<1>2. Inv'
  BY LexNothingInv DEF LinesInv
<1>3. Inv /\ input \in Inputs
  BY DEF LinesInv, LexerOK
<1>4. LeftOff(r, scan, bytes)
  <2> DEFINE b == bytes
             s == r
  <2> HIDE DEF b, s
  <2>1. b = buf \o Filled.got /\ s = parsePopRequest(scan, b) /\ s.cmd = "INCOMPLETE"
    BY <1>1 DEF b, s
  <2>2. TookLine(s, b) \/ TookByte(s, b) \/ LeftOff(s, scan, b)
    BY <1>1, <2>1, Called
  <2>3. ~TookLine(s, b) /\ ~TookByte(s, b)
    BY <1>3, <2>1, LineHeard, ByteTaken
  <2> QED
    BY <2>2, <2>3 DEF b, s
<1>5. Windowed(bytes)
  BY <1>3, Window
<1> HIDE DEF bytes, r
<1>6. /\ r.next.cur = Len(bytes) /\ r.next.state \in State /\ r.next.state.end = "no"
      /\ Seen(r.next.state, bytes, Len(bytes)) /\ Len(bytes) \in 0 .. BufSize
  BY <1>4, <1>5 DEF LeftOff, Windowed, Suspend
<1>7. LexerOK'
  <2>1. scan' \in [state : State, cur : 0 .. BufSize]
    <3>1. scan' = [state |-> r.next.state, cur |-> r.next.cur]
      BY <1>1, <1>4 DEF LeftOff, Suspend
    <3> QED
      BY <1>6, <3>1
  <2>2. scan'.state.end = "no" /\ Seen(scan'.state, buf', scan'.cur)
    BY <1>1, <1>6
  <2> QED
    BY <1>1, <2>1, <2>2 DEF LinesInv, LexerOK
<1>8. CommandsOK'
  BY <1>1, CommandsStay DEF LinesInv
<1>9. Resynchronises'
  BY <1>1 DEF LinesInv, Resynchronises, LineStart
<1> QED
  BY <1>2, <1>7, <1>8, <1>9 DEF LinesInv

LEMMA LinesStep == LinesInv /\ [Next]_vars => LinesInv'
BY ArrivesLines, ClosesLines, PollLines, LexCommandLines, LexNothingLines, StutterLines DEF Next

-----------------------------------------------------------------------------
(* What the lexer promises follows.                                        *)
LEMMA ProperLines == LinesInv => LineByLine
<1> SUFFICES ASSUME LinesInv, NEW n \in 1 .. Len(commands), LineStart(commands[n].from),
                    Proper(commands[n].from)
             PROVE  LET c == commands[n]
                        line == LineAt(c.from)
                    IN  /\ c.cmd = Meaning(line) /\ c.len = Len(line) + 2
                        /\ c.cmd = "USER" => {c.arg} = Fields(line)
  BY DEF LineByLine
<1> DEFINE c == commands[n]
           p == c.from
           E == LineEnds(p)
           z == CHOOSE q \in E : \A o \in E : q <= o
           line == LineAt(p)
<1>1. c \in Command /\ Judged(input, eof, Sent, c) /\ input \in Seq(Char)
  BY ElementOfSeq, LexerAssumption DEF LinesInv, CommandsOK, LexerOK
<1>2. /\ LineIn(input, p) /\ E # {} /\ Len(line) + 2 <= BufSize
      /\ \A i \in 1 .. Len(line) : Printable(line[i])
  BY DEF LineStart, LineIn, Proper
<1>3. p \in Nat /\ c.len \in Nat /\ BufSize \in Nat /\ Len(input) \in Nat /\ Len(coming) \in Nat
      /\ Sent \in Int /\ Sent <= Len(input) /\ Sent = Len(input) - Len(coming)
  <2>1. coming \in Seq(Char)
    BY DEF LinesInv, Inv, BuffersOK
  <2>2. Len(coming) \in Nat /\ Len(input) \in Nat
    BY <1>1, <2>1, LenProperties
  <2> HIDE DEF c
  <2> QED
    BY <1>1, <2>2, LexerAssumption DEF Command, Sent
<1>4. \A q : q \in E <=> q \in Ends(input, p) /\ q <= Sent
  <2> HIDE DEF p
  <2>1. \A q : q \in p + 2 .. Len(input) - Len(coming) <=> q \in p + 2 .. Len(input) /\ q <= Sent
    BY <1>3
  <2> QED
    BY <2>1 DEF LineEnds, Ends, LineStart, LineIn
<1>5. E \subseteq Nat /\ \A q \in Ends(input, p) : q \in p + 2 .. Len(input)
  <2> HIDE DEF p
  <2> QED
    BY <1>3, <1>4 DEF Ends
<1> HIDE DEF E
<1>6. z \in E /\ \A o \in E : z <= o
  <2>1. \E q \in E : \A o \in E : q <= o
    BY <1>2, <1>5, LeastElement
  <2> QED
    BY <2>1
<1>7. line = SubSeq(input, p + 1, z - 2)
  BY DEF LineAt, E
<1> HIDE DEF c, p, z, line
<1>8. z \in p + 2 .. Len(input) /\ z \in Ends(input, p) /\ z <= Sent
  BY <1>4, <1>5, <1>6
<1>9. Len(line) = z - 2 - p /\ \A i \in 1 .. z - 2 - p : line[i] = input[p + i]
  <2> DEFINE m == z - 2
  <2>1. /\ p + 1 \in Int /\ m \in Int /\ m >= p /\ m <= Len(input) /\ m - (p + 1) + 1 = m - p
    BY <1>3, <1>8
  <2>2. \A i \in p + 1 .. m : input[i] \in Char
    <3>1. \A i \in p + 1 .. m : i \in 1 .. Len(input)
      BY <1>3, <2>1
    <3> QED
      BY <1>1, <3>1, ElementOfSeq
  <2>3. line = SubSeq(input, p + 1, m)
    BY <1>7
  <2> HIDE DEF m
  <2>4. /\ Len(line) = (IF p + 1 <= m THEN m - (p + 1) + 1 ELSE 0)
        /\ \A i \in 1 .. m - (p + 1) + 1 : line[i] = input[p + 1 + i - 1]
    BY <2>1, <2>2, <2>3, SubSeqProperties
  <2>5. Len(line) = m - p
    BY <1>3, <2>1, <2>4
  <2>6. \A i \in 1 .. m - p : line[i] = input[p + i]
    <3> SUFFICES ASSUME NEW i \in 1 .. m - p
                 PROVE  line[i] = input[p + i]
      OBVIOUS
    <3>1. i \in 1 .. m - (p + 1) + 1 /\ p + 1 + i - 1 = p + i
      BY <1>3, <2>1
    <3> QED
      BY <2>4, <3>1
  <2> QED
    BY <2>5, <2>6 DEF m
<1>10. ~Garbled(input, p)
  <2> SUFFICES ASSUME NEW j \in 1 .. Len(input) - p, ~Printable(input[p + j]),
                      \A q \in Ends(input, p) : p + j <= q - 2
               PROVE  FALSE
    BY DEF Garbled
  <2>1. p + j <= z - 2
    BY <1>8
  <2>2. j \in 1 .. z - 2 - p
    BY <1>3, <1>8, <2>1
  <2> QED
    BY <1>2, <1>9, <2>2
<1>11. ~Long(input, p)
  <2> SUFFICES ASSUME Long(input, p)
               PROVE  FALSE
    OBVIOUS
  <2>1. z > p + BufSize
    BY <1>8 DEF Long
  <2> QED
    BY <1>2, <1>3, <1>8, <1>9, <2>1
<1>12. ~Unsent(input, eof, Sent, p)
  <2> SUFFICES ASSUME Unsent(input, eof, Sent, p)
               PROVE  FALSE
    OBVIOUS
  <2>1. z > Sent
    BY <1>8 DEF Unsent
  <2> QED
    BY <1>3, <1>8, <2>1
<1>13. Heard(input, c)
  BY <1>1, <1>2, <1>10, <1>11, <1>12 DEF Judged, p
<1>14. /\ p + c.len \in Ends(input, p) /\ \A q \in Ends(input, p) : p + c.len <= q
       /\ Says(c, SubSeq(input, p + 1, p + c.len - 2))
  BY <1>13 DEF Heard, p
<1>15. p + c.len = z
  <2>1. p + c.len <= z /\ p + c.len <= Sent
    BY <1>3, <1>8, <1>14
  <2>2. p + c.len \in E
    BY <1>4, <1>14, <2>1
  <2>3. z <= p + c.len
    BY <1>6, <2>2
  <2> QED
    BY <1>3, <1>8, <2>1, <2>3
<1>16. Says(c, line) /\ c.len = Len(line) + 2
  <2>1. p + c.len - 2 = z - 2
    BY <1>3, <1>15
  <2>2. Says(c, line)
    BY <1>7, <1>14, <2>1, Zenon
  <2> QED
    BY <1>3, <1>8, <1>9, <1>15, <2>2
<1> QED
  BY <1>16 DEF Says, c, p, line

LEMMA LexerTypes == LinesInv => TypeOK
<1> SUFFICES ASSUME LinesInv PROVE TypeOK
  OBVIOUS
<1>1. /\ coming \in Seq(Char) /\ sock \in Seq(Char) /\ buf \in Seq(Char) /\ taken \in Seq(Char)
      /\ Len(buf) <= BufSize /\ scan.cur \in 0 .. Len(buf) /\ Len(buf) \in Nat
  BY LenProperties DEF LinesInv, Inv, BuffersOK
<1>2. scan.cur <= Len(buf)
  BY <1>1
<1>3. commands \in Seq([cmd : DOMAIN Plain \union DOMAIN WithArg \union {"INVALID", "UNKNOWN"},
                        arg : Seq(Char), from : Nat, len : 1 .. BufSize])
  BY DEF LinesInv, CommandsOK, Command, CommandNames
<1> QED
  BY <1>1, <1>2, <1>3 DEF LinesInv, LexerOK, TypeOK

(* The lexer never looks behind the bytes it has, leaves off and resumes   *)
(* in a state of its automaton, and takes from one byte to a full buffer   *)
(* for a command (parsePopRequest, fillBuffer).                            *)
THEOREM TypeCorrect == Spec => []TypeOK
BY InitLines, LinesStep, LexerTypes, PTL DEF Spec

(* Whatever came before it, however long or garbled, and wherever the      *)
(* input was cut, a command is looked for at the start of every line: what *)
(* parsePopRequest takes ends with a line or is one byte that ends none.   *)
THEOREM LinesFound == Spec => []Resynchronises
<1>1. LinesInv => Resynchronises
  BY DEF LinesInv
<1> QED
  BY InitLines, LinesStep, <1>1, PTL DEF Spec

(* A line that a client may send is taken whole, for the command its words *)
(* say and with its own argument, whatever came before it, however the     *)
(* input is cut and whatever the size of requestState: the scanner, which  *)
(* resumes from in->state with the tags it had, and the reference          *)
(* definition by the fields of the line agree.                             *)
THEOREM LinesUnderstood == Spec => []LineByLine
BY InitLines, LinesStep, ProperLines, PTL DEF Spec
=============================================================================
