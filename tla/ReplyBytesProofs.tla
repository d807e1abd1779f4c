-------------------------- MODULE ReplyBytesProofs --------------------------
(***************************************************************************)
(* The origin's bytes on their way through the scanners of parsers/pop3.re *)
(* and a filter, for every message and reply as RFC 1939 has them, however *)
(* reads cut them, and every size of the buffers.                          *)
(*                                                                         *)
(* The argument is about positions.  A scanner that has read a text up to a*)
(* position is in the state that position of the lines calls for, and what *)
(* it holds are the bytes just in front of it.  What destuffMail has written*)
(* is the plain text up to what it holds; what stuffMail has written is the*)
(* text up to what it holds, where the plain text it has read ends.  What  *)
(* parsePopResponse has written and holds is the text up to the position,  *)
(* and of CRLF.CRLF it holds as much as the text ends with there.  A call  *)
(* keeps this byte by byte (Scanned), wherever it begins and ends.  An     *)
(* empty listing is to it the beginning of one that has a line with a dot. *)
(***************************************************************************)
EXTENDS ReplyBytes, BuffersProofs

(* Of a message every line that begins with a dot begins with two, but the *)
(* last, which is the end line.                                            *)
LineStart(text, p) == p = 0 \/ (p >= 2 /\ text[p - 1] = CR /\ text[p] = LF)

Message(text) ==
  LET last == Len(text) - 3
  IN  /\ Len(text) >= 3 /\ LineStart(text, last)
      /\ text[last + 1] = "." /\ text[last + 2] = CR /\ text[last + 3] = LF
      /\ \A p \in 0 .. last - 1 :
           LineStart(text, p) /\ text[p + 1] = "." => text[p + 2] = "."

(* A reply begins with +OK or -ERR, w bytes, up to the first CRLF, at s; a *)
(* listing goes on to the first CRLF.CRLF behind that.                     *)
CRLFAt(text, i) == text[i - 1] = CR /\ text[i] = LF
EndAt(text, i) == CRLFAt(text, i - 3) /\ text[i - 2] = "." /\ CRLFAt(text, i)

StatusLine(text, w, s) ==
  /\ w \in 3 .. 4 /\ s \in w + 2 .. Len(text) /\ SubSeq(text, 1, w) \in Words
  /\ CRLFAt(text, s) /\ \A i \in w + 2 .. s - 1 : ~CRLFAt(text, i)

Listing(text, s) ==
  /\ Len(text) >= s + 5 /\ EndAt(text, Len(text))
  /\ \A i \in s + 5 .. Len(text) - 1 : ~EndAt(text, i)

(* The listing RFC 1939 ends at once.  The CRLF of the status line is not  *)
(* taken for the one in front of the end line; what the origin said behind *)
(* it would be read as more of the listing.                                *)
EmptyListing(i) ==
  /\ i.kind = "list" /\ i.behind = << >>
  /\ \E s \in 5 .. Len(i.bytes) :
       StatusLine(i.bytes, 3, s) /\ Len(i.bytes) = s + 3 /\ EndAt(i.bytes, s + 3)

Reply(kind, text) ==
  \E w \in 3 .. 4, s \in 1 .. Len(text) :
    /\ StatusLine(text, w, s)
    /\ IF kind = "list" /\ w = 3 THEN Listing(text, s) ELSE s = Len(text)

Regular ==
  \A i \in Inputs :
    IF i.kind = "mail" THEN Message(i.bytes) ELSE Reply(i.kind, i.bytes) \/ EmptyListing(i)

-----------------------------------------------------------------------------
(* A call of a scanner goes through a scanner's states, one for each byte. *)
Rules == [Byte -> [Scanner -> Scanner]]

LEMMA ScannersOf ==
  ASSUME NEW s \in Scanner, NEW N \in Nat, NEW step \in [1 .. N -> [Scanner -> Scanner]]
  PROVE  \E f \in [0 .. N -> Scanner] : f[0] = s /\ \A n \in 1 .. N : f[n] = step[n][f[n - 1]]
BY Recursion

LEMMA ScanIs ==
  ASSUME NEW rules \in Rules, NEW s \in Scanner, NEW bytes \in Seq(Byte)
  PROVE  \E f \in [0 .. Len(bytes) -> Scanner] :
           /\ f[0] = s
           /\ \A n \in 1 .. Len(bytes) : f[n] = rules[bytes[n]][f[n - 1]]
           /\ Scan(rules, s, bytes) = f[Len(bytes)]
<1> DEFINE N == Len(bytes)
           step == [n \in 1 .. N |-> rules[bytes[n]]]
           Body(f, n) == IF n = 0 THEN s ELSE rules[bytes[n]][f[n - 1]]
           st == CHOOSE f : f = [n \in 0 .. N |-> Body(f, n)]
<1>1. N \in Nat /\ \A n \in 1 .. N : bytes[n] \in Byte
  BY LenProperties, ElementOfSeq
<1>2. step \in [1 .. N -> [Scanner -> Scanner]]
  BY <1>1 DEF Rules
<1> HIDE DEF step, N
<1>3. PICK g \in [0 .. N -> Scanner] : g[0] = s /\ \A n \in 1 .. N : g[n] = step[n][g[n - 1]]
  BY <1>1, <1>2, ScannersOf
<1>4. \A n \in 1 .. N : g[n] = rules[bytes[n]][g[n - 1]]
  BY <1>3 DEF step
<1>5. \A n \in 0 .. N : g[n] = Body(g, n)
  <2>1. \A n \in 0 .. N : n # 0 => n \in 1 .. N
    BY <1>1
  <2> QED
    BY <1>3, <1>4, <2>1
<1> HIDE DEF Body
<1>6. g = [n \in 0 .. N |-> Body(g, n)]
  BY <1>5
<1>7. st = [n \in 0 .. N |-> Body(st, n)]
  BY <1>6
<1>8. Scan(rules, s, bytes) = st[N]
  BY DEF Scan, Body, N
<1> HIDE DEF st
<1>9. \A n \in 0 .. N : st[n] = Body(st, n)
  BY <1>7
<1> DEFINE T == {n \in 0 .. N : st[n] = g[n]}
<1>10. \A n \in 0 .. N : n \in T
  <2>1. 0 \in T
    <3>1. 0 \in 0 .. N
      BY <1>1
    <3>2. Body(st, 0) = s
      BY Zenon DEF Body
    <3> QED
      BY <1>3, <1>9, <3>1, <3>2
  <2>2. ASSUME NEW n \in 0 .. N - 1, n \in T
        PROVE  n + 1 \in T
    <3>1. n + 1 \in 0 .. N /\ n + 1 \in 1 .. N /\ (n + 1) - 1 = n /\ n + 1 # 0
      BY <1>1
    <3>2. st[n + 1] = rules[bytes[n + 1]][st[(n + 1) - 1]]
      BY <1>9, <3>1 DEF Body
    <3>3. g[n + 1] = rules[bytes[n + 1]][g[(n + 1) - 1]]
      BY <1>4, <3>1
    <3> QED
      BY <2>2, <3>1, <3>2, <3>3
  <2> HIDE DEF T
  <2>3. \A n \in 0 .. N - 1 : n \in T => n + 1 \in T
    BY <2>2
  <2> QED
    BY <1>1, <2>1, <2>3, UpTo, Zenon
<1>11. st[N] = g[N]
  BY <1>1, <1>10
<1> QED
  BY <1>3, <1>4, <1>8, <1>11 DEF N

(* What holds of a scanner before a call and is kept by each byte holds of *)
(* it after the call.  R relates the bytes that were read to the scanner.  *)
LEMMA Scanned ==
  ASSUME NEW rules \in Rules, NEW s \in Scanner, NEW bytes \in Seq(Byte),
         NEW R, << 0, s >> \in R,
         \A n \in 1 .. Len(bytes), t \in Scanner :
           << n - 1, t >> \in R => << n, rules[bytes[n]][t] >> \in R
  PROVE  Scan(rules, s, bytes) \in Scanner /\ << Len(bytes), Scan(rules, s, bytes) >> \in R
<1>1. PICK f \in [0 .. Len(bytes) -> Scanner] :
           /\ f[0] = s
           /\ \A n \in 1 .. Len(bytes) : f[n] = rules[bytes[n]][f[n - 1]]
           /\ Scan(rules, s, bytes) = f[Len(bytes)]
  BY ScanIs
<1> DEFINE T == {n \in 0 .. Len(bytes) : << n, f[n] >> \in R}
<1>2. Len(bytes) \in Nat
  BY LenProperties
<1>3. 0 \in T
  BY <1>1, <1>2
<1>4. ASSUME NEW n \in 0 .. Len(bytes) - 1, n \in T
      PROVE  n + 1 \in T
  <2>1. n + 1 \in 1 .. Len(bytes) /\ n + 1 \in 0 .. Len(bytes) /\ (n + 1) - 1 = n
        /\ n \in 0 .. Len(bytes)
    BY <1>2
  <2>2. f[n] \in Scanner /\ << (n + 1) - 1, f[n] >> \in R
    BY <1>4, <2>1
  <2>3. f[n + 1] = rules[bytes[n + 1]][f[n]]
    BY <1>1, <2>1
  <2>4. << n + 1, rules[bytes[n + 1]][f[n]] >> \in R
    BY <2>1, <2>2
  <2> QED
    BY <2>1, <2>3, <2>4
<1> HIDE DEF T
<1>5. \A n \in 0 .. Len(bytes) - 1 : n \in T => n + 1 \in T
  BY <1>4
<1>6. Len(bytes) \in T
  <2>1. \A n \in 0 .. Len(bytes) : n \in T
    BY <1>2, <1>3, <1>5, UpTo, Zenon
  <2> QED
    BY <1>2, <2>1
<1>7. f[Len(bytes)] \in Scanner
  BY <1>2
<1> QED
  BY <1>1, <1>6, <1>7 DEF T

-----------------------------------------------------------------------------
(* The scanners' types.                                                    *)
LEMMA Bytes ==
  /\ CR \in Byte /\ LF \in Byte /\ "." \in Byte /\ "." # CR /\ "." # LF /\ CR # LF
  /\ << >> \in Seq(Byte) /\ Byte \subseteq Output /\ "invalid" \in Output
  /\ EndLine \in Seq(Byte) /\ ListEnd \in Seq(Byte)
<1>1. CR \in Byte /\ LF \in Byte /\ "." \in Byte /\ "." # CR /\ "." # LF /\ CR # LF
  BY DEF CR, LF, Byte
<1> QED
  BY <1>1 DEF Output, EndLine, ListEnd

LEMMA ByteIsOutput == ASSUME NEW s \in Seq(Byte) PROVE s \in Seq(Output)
BY Bytes

LEMMA HoldType ==
  ASSUME NEW s \in Scanner, NEW b \in Byte, NEW state \in State
  PROVE  Hold(s, b, state) \in Scanner
BY AppendProperties DEF Hold, Scanner

LEMMA CopyType ==
  ASSUME NEW s \in Scanner, NEW bytes \in Seq(Output), NEW state \in State
  PROVE  Copy(s, bytes, state) \in Scanner
BY ConcatProperties, Bytes DEF Copy, Scanner

LEMMA InLineType ==
  ASSUME NEW s \in Scanner, NEW b \in Byte
  PROVE  InLine(s, b) \in Scanner
<1>1. << b >> \in Seq(Output)
  BY Bytes
<1>2. /\ Copy(s, << b >>, "lineCR") \in Scanner /\ Copy(s, << b >>, "begin") \in Scanner
      /\ Copy(s, << b >>, "line0") \in Scanner /\ Copy(s, << b >>, "line") \in Scanner
  BY <1>1, CopyType DEF State
<1> QED
  BY <1>2 DEF InLine

LEMMA AfterCRType ==
  ASSUME NEW s \in Scanner, NEW b \in Byte
  PROVE  AfterCR(s, b) \in Scanner
<1>1. << CR, LF >> \in Seq(Output) /\ << CR >> \in Seq(Output)
  BY Bytes
<1>2. Copy(s, << CR, LF >>, "begin") \in Scanner /\ Copy(s, << CR >>, "line0") \in Scanner
  BY <1>1, CopyType DEF State
<1> QED
  BY <1>2, InLineType DEF AfterCR

LEMMA DestuffType ==
  ASSUME NEW s \in Scanner, NEW b \in Byte
  PROVE  destuffByte(s, b) \in Scanner
<1>1. << b >> \in Seq(Output) /\ << "." >> \in Seq(Output)
  BY Bytes
<1>2. /\ Copy(s, << b >>, "line0") \in Scanner /\ Copy(s, << "." >>, "line0") \in Scanner
      /\ Hold(s, b, "beginCR") \in Scanner /\ Hold(s, b, "dot") \in Scanner
      /\ Hold(s, b, "dotCR") \in Scanner /\ Hold(s, b, "begin") \in Scanner
  BY <1>1, CopyType, HoldType DEF State
<1>3. [Hold(s, b, "begin") EXCEPT !.done = TRUE] \in Scanner
  BY <1>2 DEF Scanner
<1>4. /\ AfterCR(s, b) \in Scanner /\ InLine(s, b) \in Scanner
      /\ InLine(Copy(s, << "." >>, "line0"), b) \in Scanner
      /\ InLine(InLine(Copy(s, << "." >>, "line0"), CR), b) \in Scanner
  BY <1>2, AfterCRType, InLineType, Bytes
<1> QED
  BY <1>2, <1>3, <1>4, Zenon DEF destuffByte

LEMMA StuffType ==
  ASSUME NEW s \in Scanner, NEW b \in Byte
  PROVE  stuffByte(s, b) \in Scanner
<1>1. << b >> \in Seq(Output) /\ << ".", "." >> \in Seq(Output)
  BY Bytes
<1>2. /\ Copy(s, << b >>, "line0") \in Scanner /\ Copy(s, << ".", "." >>, "line0") \in Scanner
      /\ Hold(s, b, "beginCR") \in Scanner
  BY <1>1, CopyType, HoldType DEF State
<1>3. AfterCR(s, b) \in Scanner /\ InLine(s, b) \in Scanner
  BY AfterCRType, InLineType
<1> QED
  BY <1>2, <1>3, Zenon DEF stuffByte

LEMMA StuffNothingType ==
  ASSUME NEW s \in Scanner
  PROVE  stuffNothing(s) \in Scanner
<1>1. EndLine \in Seq(Output) /\ << CR >> \in Seq(Output)
  BY Bytes, ByteIsOutput
<1>2. Copy(s, EndLine, "fresh") \in Scanner /\ Copy(s, << CR >>, "line0") \in Scanner
  BY <1>1, CopyType DEF State
<1>3. /\ [Copy(s, EndLine, "fresh") EXCEPT !.done = TRUE] \in Scanner
      /\ [s EXCEPT !.state = "begin"] \in Scanner /\ [s EXCEPT !.state = "line0"] \in Scanner
  BY <1>2 DEF Scanner, State
<1> QED
  BY <1>2, <1>3, Zenon DEF stuffNothing

LEMMA AssociativeBytes == \A r, s, t \in Seq(Byte) : (r \o s) \o t = r \o (s \o t)
BY ConcatAssociative

LEMMA Associative == \A r, s, t \in Seq(Output) : (r \o s) \o t = r \o (s \o t)
BY ConcatAssociative

LEMMA AppendLast ==
  \A r, s \in Seq(Output), e \in Output : r \o Append(s, e) = Append(r \o s, e)
BY ConcatAppend

LEMMA Single ==
  ASSUME NEW S, NEW s \in Seq(S), Len(s) = 1
  PROVE  s = << s[1] >>
OBVIOUS

(* Grows cuts what was read in front of a CR that comes last, or of the    *)
(* last run of text.                                                       *)
LEMMA CutOff ==
  ASSUME NEW read \in Seq(Byte), read # << >>
  PROVE  \E n \in 0 .. Len(read) :
           /\ Growing(read, n) /\ \A j \in 0 .. n - 1 : ~Growing(read, j)
<1> DEFINE U == {n \in 0 .. Len(read) : Growing(read, n)}
<1>1. Len(read) \in Nat
  BY LenProperties
<1>2. SubSeq(read, Len(read) + 1, Len(read)) = << >>
  BY <1>1, SubSeqProperties
<1>3. Len(read) \in U
  BY <1>1, <1>2, EmptySeq DEF Growing, IsRun
<1>4. U \subseteq Nat /\ U # {}
  BY <1>1, <1>3
<1>5. PICK n \in U : \A j \in U : n <= j
  BY <1>4, LeastElement
<1> QED
  BY <1>1, <1>5

LEMMA GrowsIs ==
  ASSUME NEW s \in Scanner, NEW read \in Seq(Byte), read # << >>, NEW state \in State
  PROVE  LET g == Grows(s, read, state) IN
         /\ g \in Scanner /\ g.state = state /\ g.done = s.done /\ g.rest = s.rest
         /\ g.out \o g.held = s.out \o read
         /\ Len(g.held) <= Len(read)
         /\ g.held = << CR >> \/ IsRun(g.held)
         /\ g.held = << CR >> <=> read[Len(read)] = CR
<1> DEFINE N == Len(read)
           Least(n) == Growing(read, n) /\ \A j \in 0 .. n - 1 : ~Growing(read, j)
           n == CHOOSE k \in 0 .. N : Least(k)
           g == Grows(s, read, state)
<1>1. N \in Nat /\ N > 0 /\ \A i \in 1 .. N : read[i] \in Byte
  BY LenProperties, ElementOfSeq, EmptySeq
<1>2. n \in 0 .. N /\ Least(n)
  <2>1. \E k \in 0 .. N : Least(k)
    BY CutOff
  <2> HIDE DEF Least
  <2> QED
    BY <2>1
<1>3. g = [s EXCEPT !.state = state, !.out = s.out \o SubSeq(read, 1, n),
                    !.held = SubSeq(read, n + 1, N)]
  BY DEF Grows
<1> DEFINE front == SubSeq(read, 1, n)
           end   == SubSeq(read, n + 1, N)
<1> HIDE DEF n
<1>4. front \in Seq(Byte) /\ end \in Seq(Byte) /\ front \o end = read /\ Len(end) <= N
  BY <1>2, Cut
<1>5. end = << CR >> \/ IsRun(end)
  BY <1>2 DEF Growing
<1>6. Len(end) = N - n /\ \A i \in 1 .. N - n : end[i] = read[n + i]
  <2>1. n + 1 \in Int /\ N \in Int /\ \A i \in n + 1 .. N : read[i] \in Byte
    BY <1>1, <1>2
  <2>2. /\ Len(end) = IF n + 1 <= N THEN N - (n + 1) + 1 ELSE 0
        /\ \A i \in 1 .. N - (n + 1) + 1 : end[i] = read[(n + 1) + i - 1]
    BY <2>1, SubSeqProperties
  <2>3. /\ N - (n + 1) + 1 = N - n /\ \A i \in 1 .. N - n : (n + 1) + i - 1 = n + i
        /\ ~(n + 1 <= N) => N - n = 0
    BY <1>1, <1>2
  <2> HIDE DEF end, N
  <2> QED
    BY <2>2, <2>3
<1>7. ASSUME read[N] = CR
      PROVE  end = << CR >>
  <2>1. Growing(read, N - 1)
    <3>1. N - 1 + 1 = N
      BY <1>1
    <3>2. /\ Len(SubSeq(read, N, N)) = 1 /\ SubSeq(read, N, N)[1] = read[N]
          /\ SubSeq(read, N, N) \in Seq(Byte)
      <4>1. N \in Int /\ \A i \in N .. N : read[i] \in Byte
        BY <1>1
      <4>2. N - N + 1 = 1 /\ N + 1 - 1 = N
        BY <1>1
      <4> HIDE DEF N
      <4> QED
        BY <4>1, <4>2, SubSeqProperties
    <3>3. SubSeq(read, N - 1 + 1, N) = << CR >>
      <4> DEFINE one == SubSeq(read, N, N)
      <4>1. one \in Seq(Byte) /\ Len(one) = 1 /\ one[1] = CR
        BY <1>7, <3>2
      <4> HIDE DEF one
      <4>2. one = << CR >>
        BY <4>1, Single
      <4> QED
        BY <3>1, <4>2 DEF one
    <3> QED
      BY <3>3 DEF Growing
  <2>2. n <= N - 1
    BY <1>1, <1>2, <2>1
  <2>3. end[N - n] = CR /\ N - n \in 1 .. Len(end)
    BY <1>1, <1>2, <1>6, <1>7, <2>2
  <2>4. end = << CR >>
    <3> HIDE DEF end, N
    <3> QED
      BY <1>5, <2>3 DEF IsRun
  <2> QED
    BY <2>4
<1>8. ASSUME read[N] # CR
      PROVE  end # << CR >>
  <2>1. ASSUME end = << CR >>
        PROVE  FALSE
    <3>1. Len(end) = 1 /\ end[1] = CR
      <4> HIDE DEF end
      <4> QED
        BY <2>1
    <3>2. N - n = 1 /\ read[n + 1] = CR
      <4>1. N \in Nat /\ n \in Nat
        BY <1>1, <1>2
      <4> HIDE DEF end, N
      <4>2. N - n = 1
        BY <1>6, <3>1
      <4>3. 1 \in 1 .. N - n
        BY <4>2
      <4>4. end[1] = read[n + 1]
        BY <1>6, <4>3
      <4> QED
        BY <3>1, <4>2, <4>4
    <3>3. n + 1 = N
      BY <1>1, <1>2, <3>2
    <3> HIDE DEF N
    <3> QED
      BY <1>8, <3>2, <3>3
  <2> QED
    BY <2>1
<1> HIDE DEF front, end, g, N
<1>9. end = << CR >> <=> read[N] = CR
  BY <1>7, <1>8
<1>10. s.out \in Seq(Output) /\ front \in Seq(Output) /\ end \in Seq(Output)
  BY <1>4, ByteIsOutput DEF Scanner
<1>11. (s.out \o front) \o end = s.out \o read
  <2>1. (s.out \o front) \o end = s.out \o (front \o end)
    BY <1>10, Associative, Zenon
  <2> QED
    BY <1>4, <2>1
<1>12. g = [s EXCEPT !.state = state, !.out = s.out \o front, !.held = end]
  BY <1>3 DEF front, end, N
<1>13. s.out \o front \in Seq(Output)
  BY <1>10, ConcatProperties
<1>14. g \in Scanner
  BY <1>4, <1>12, <1>13 DEF Scanner
<1>15. /\ g.state = state /\ g.done = s.done /\ g.rest = s.rest
       /\ g.out = s.out \o front /\ g.held = end
  BY <1>12 DEF Scanner
<1> QED
  BY <1>4, <1>5, <1>9, <1>11, <1>14, <1>15 DEF g, N

LEMMA HasRead ==
  ASSUME NEW s \in Scanner, NEW b \in Byte
  PROVE  LET read == Append(s.held, b) IN
         /\ read \in Seq(Byte) /\ read # << >> /\ Len(read) = Len(s.held) + 1
         /\ read[Len(read)] = b /\ Tail(read) \in Seq(Byte) /\ Len(s.held) \in Nat
         /\ \A i \in 1 .. Len(s.held) : read[i] = s.held[i]
<1>1. s.held \in Seq(Byte)
  BY DEF Scanner
<1>2. Append(s.held, b) \in Seq(Byte) /\ Len(Append(s.held, b)) = Len(s.held) + 1
  BY <1>1, AppendProperties
<1>3. Append(s.held, b) # << >>
  BY <1>1, <1>2, LenProperties, EmptySeq
<1> QED
  BY <1>1, <1>2, <1>3, AppendProperties, HeadTailProperties, LenProperties

LEMMA ResponseType ==
  ASSUME NEW s \in Scanner, NEW b \in Byte, NEW multiline \in BOOLEAN
  PROVE  responseByte(s, b, multiline) \in Scanner
<1> DEFINE read == Append(s.held, b)
<1>1. read \in Seq(Byte) /\ read # << >> /\ Tail(read) \in Seq(Byte)
  BY HasRead
<1>2. read \in Seq(Output) /\ << "invalid" >> \in Seq(Output)
  BY <1>1, ByteIsOutput, Bytes
<1> HIDE DEF read
<1>3. \A state \in State : /\ Copy(s, read, state) \in Scanner /\ Hold(s, b, state) \in Scanner
                           /\ Copy(s, << "invalid" >>, state) \in Scanner
                           /\ Grows(s, read, state) \in Scanner
  BY <1>1, <1>2, CopyType, HoldType, GrowsIs
<1>4. {"ok", "err", "status", "extra", "fresh"} \subseteq State
  BY DEF State
<1>5. InStatus(s, b) \in Scanner
  <2>1. [Copy(s, << "invalid" >>, "fresh") EXCEPT !.done = TRUE, !.rest = Tail(read)] \in Scanner
    BY <1>1, <1>3, <1>4 DEF Scanner
  <2> QED
    BY <1>3, <1>4, <2>1 DEF InStatus, read
<1>6. [Copy(s, read, "fresh") EXCEPT !.done = TRUE] \in Scanner
  BY <1>3, <1>4 DEF Scanner
<1>7. s.state \in State
  BY DEF Scanner
<1>8. InText(s, b, multiline) \in Scanner
  BY <1>3, <1>4, <1>6, <1>7 DEF InText, read
<1>9. InExtra(s, b) \in Scanner
  BY <1>3, <1>4, <1>6 DEF InExtra, read
<1> QED
  BY <1>5, <1>8, <1>9, Zenon DEF responseByte

LEMMA BehindType ==
  ASSUME NEW s \in Scanner, NEW b \in Byte
  PROVE  [s EXCEPT !.rest = Append(@, b)] \in Scanner
BY AppendProperties DEF Scanner

LEMMA RulesType ==
  /\ destuffMail \in Rules /\ stuffMail \in Rules
  /\ \A multiline \in BOOLEAN : parsePopResponse(multiline) \in Rules
<1>1. destuffMail \in Rules
  BY DestuffType, BehindType DEF destuffMail, By, Rules
<1>2. stuffMail \in Rules
  BY StuffType, BehindType DEF stuffMail, By, Rules
<1>3. \A multiline \in BOOLEAN : parsePopResponse(multiline) \in Rules
  BY ResponseType, BehindType DEF parsePopResponse, By, Rules
<1> QED
  BY <1>1, <1>2, <1>3

(* A byte behind the end stays; what another does, the rules say.          *)
LEMMA RulesAre ==
  ASSUME NEW s \in Scanner, NEW b \in Byte
  PROVE  /\ ~s.done => destuffMail[b][s] = destuffByte(s, b)
         /\ ~s.done => stuffMail[b][s] = stuffByte(s, b)
         /\ ~s.done => \A multiline \in BOOLEAN :
              parsePopResponse(multiline)[b][s] = responseByte(s, b, multiline)
         /\ s.done => /\ destuffMail[b][s] = [s EXCEPT !.rest = Append(@, b)]
                      /\ stuffMail[b][s] = [s EXCEPT !.rest = Append(@, b)]
                      /\ \A multiline \in BOOLEAN :
                           parsePopResponse(multiline)[b][s] = [s EXCEPT !.rest = Append(@, b)]
BY DEF destuffMail, stuffMail, parsePopResponse, By

-----------------------------------------------------------------------------
(* What a byte does to destuffMail and stuffMail, state by state.          *)
Goes(t, s, out, held, state) ==
  t = [s EXCEPT !.out = s.out \o out, !.held = held, !.state = state]

InLineState(state, b) ==
  IF b = CR THEN "lineCR"
  ELSE IF b # LF THEN "line"
  ELSE IF state = "lineCR" THEN "begin" ELSE "line0"

LEMMA OneByOne ==
  \A c, d, e : << c >> \o << d >> = << c, d >> /\ << c, d >> \o << e >> = << c, d, e >>
<1> SUFFICES ASSUME NEW c, NEW d, NEW e
             PROVE  << c >> \o << d >> = << c, d >> /\ << c, d >> \o << e >> = << c, d, e >>
  OBVIOUS
<1> DEFINE S == {c, d, e}
           two   == << c >> \o << d >>
           three == << c, d >> \o << e >>
<1>1. /\ << c >> \in Seq(S) /\ << d >> \in Seq(S) /\ << c, d >> \in Seq(S) /\ << e >> \in Seq(S)
      /\ Len(<< c >>) = 1 /\ Len(<< d >>) = 1 /\ Len(<< c, d >>) = 2 /\ Len(<< e >>) = 1
  OBVIOUS
<1>2. two \in Seq(S) /\ Len(two) = 2 /\ two[1] = c /\ two[2] = d
  BY <1>1, ConcatProperties
<1>3. three \in Seq(S) /\ Len(three) = 3 /\ three[1] = c /\ three[2] = d /\ three[3] = e
  BY <1>1, ConcatProperties
<1> HIDE DEF two, three
<1>4. two = << c, d >> /\ three = << c, d, e >>
  BY <1>2, <1>3
<1> QED
  BY <1>4 DEF two, three

LEMMA GoesOn ==
  ASSUME NEW s \in Scanner, NEW t, NEW u, NEW out \in Seq(Output), NEW more \in Seq(Output),
         NEW held, NEW then, NEW state, NEW last,
         Goes(t, s, out, held, state), Goes(u, t, more, then, last)
  PROVE  Goes(u, s, out \o more, then, last)
<1>1. t.out = s.out \o out /\ s.out \in Seq(Output)
  BY DEF Goes, Scanner
<1>2. t.out \o more = s.out \o (out \o more)
  <2>1. (s.out \o out) \o more = s.out \o (out \o more)
    BY <1>1, Associative, Zenon
  <2> QED
    BY <1>1, <2>1
<1> QED
  BY <1>2 DEF Goes, Scanner

LEMMA CopyIs ==
  ASSUME NEW s \in Scanner, NEW bytes, NEW state
  PROVE  Goes(Copy(s, bytes, state), s, bytes, << >>, state)
BY DEF Copy, Goes, Scanner

LEMMA HoldIs ==
  ASSUME NEW s \in Scanner, NEW b \in Byte, NEW state
  PROVE  Goes(Hold(s, b, state), s, << >>, Append(s.held, b), state)
<1>1. s.out \o << >> = s.out
  BY ConcatEmptySeq DEF Scanner
<1> QED
  BY <1>1 DEF Hold, Goes, Scanner

LEMMA InLineIs ==
  ASSUME NEW s \in Scanner, NEW b \in Byte
  PROVE  Goes(InLine(s, b), s, << b >>, << >>, InLineState(s.state, b))
<1>1. InLine(s, b) = Copy(s, << b >>, InLineState(s.state, b))
  BY Bytes DEF InLine, InLineState
<1> QED
  BY <1>1, CopyIs

LEMMA InLineBehind ==
  ASSUME NEW s \in Scanner, NEW b \in Byte, NEW c \in Byte, NEW state \in State
  PROVE  Goes(InLine(Copy(s, << c >>, state), b), s, << c, b >>, << >>, InLineState(state, b))
<1> DEFINE t == Copy(s, << c >>, state)
           u == InLine(t, b)
<1>1. << c >> \in Seq(Output) /\ << b >> \in Seq(Output) /\ << c >> \o << b >> = << c, b >>
  <2>1. << c >> \o << b >> = << c, b >>
    BY OneByOne, Zenon
  <2> QED
    BY <2>1, Bytes
<1>2. t \in Scanner /\ Goes(t, s, << c >>, << >>, state)
  BY <1>1, CopyType, CopyIs
<1>3. t.state = state
  BY <1>2 DEF Goes, Scanner
<1> HIDE DEF t
<1>4. Goes(u, t, << b >>, << >>, InLineState(state, b))
  BY <1>2, <1>3, InLineIs
<1> HIDE DEF u
<1>5. Goes(u, s, << c >> \o << b >>, << >>, InLineState(state, b))
  BY <1>1, <1>2, <1>4, GoesOn
<1> QED
  BY <1>1, <1>5 DEF t, u

LEMMA AfterCRIs ==
  ASSUME NEW s \in Scanner, NEW b \in Byte
  PROVE  /\ b = LF => Goes(AfterCR(s, b), s, << CR, LF >>, << >>, "begin")
         /\ b # LF => Goes(AfterCR(s, b), s, << CR, b >>, << >>, InLineState("line0", b))
<1>1. b = LF => AfterCR(s, b) = Copy(s, << CR, LF >>, "begin")
  BY DEF AfterCR
<1>2. b # LF => AfterCR(s, b) = InLine(Copy(s, << CR >>, "line0"), b)
  BY DEF AfterCR
<1>3. "line0" \in State /\ CR \in Byte
  BY Bytes DEF State
<1> QED
  BY <1>1, <1>2, <1>3, CopyIs, InLineBehind

LEMMA StuffIs ==
  ASSUME NEW s \in Scanner, NEW b \in Byte, NEW t, t = stuffByte(s, b)
  PROVE  /\ s.state \in AtBegin /\ b = CR  => Goes(t, s, << >>, Append(s.held, b), "beginCR")
         /\ s.state \in AtBegin /\ b = "." => Goes(t, s, << ".", "." >>, << >>, "line0")
         /\ s.state \in AtBegin /\ b \notin {CR, "."} => Goes(t, s, << b >>, << >>, "line0")
         /\ s.state = "beginCR" /\ b = LF  => Goes(t, s, << CR, LF >>, << >>, "begin")
         /\ s.state = "beginCR" /\ b # LF  =>
              Goes(t, s, << CR, b >>, << >>, InLineState("line0", b))
         /\ s.state \notin AtBegin \union {"beginCR"} =>
              Goes(t, s, << b >>, << >>, InLineState(s.state, b))
<1>1. "." # CR /\ "beginCR" \notin AtBegin
  BY Bytes DEF AtBegin
<1>2. /\ s.state \in AtBegin /\ b = CR  => t = Hold(s, b, "beginCR")
      /\ s.state \in AtBegin /\ b = "." => t = Copy(s, << ".", "." >>, "line0")
      /\ s.state \in AtBegin /\ b \notin {CR, "."} => t = Copy(s, << b >>, "line0")
      /\ s.state = "beginCR" => t = AfterCR(s, b)
      /\ s.state \notin AtBegin \union {"beginCR"} => t = InLine(s, b)
  BY <1>1 DEF stuffByte
<1> QED
  BY <1>2, HoldIs, CopyIs, AfterCRIs, InLineIs

LEMMA DestuffIs ==
  ASSUME NEW s \in Scanner, NEW b \in Byte, NEW t, t = destuffByte(s, b)
  PROVE  /\ s.state \in AtBegin /\ b = CR  => Goes(t, s, << >>, Append(s.held, b), "beginCR")
         /\ s.state \in AtBegin /\ b = "." => Goes(t, s, << >>, Append(s.held, b), "dot")
         /\ s.state \in AtBegin /\ b \notin {CR, "."} => Goes(t, s, << b >>, << >>, "line0")
         /\ s.state = "beginCR" /\ b = LF  => Goes(t, s, << CR, LF >>, << >>, "begin")
         /\ s.state = "beginCR" /\ b # LF  =>
              Goes(t, s, << CR, b >>, << >>, InLineState("line0", b))
         /\ s.state = "dot" /\ b = "." => Goes(t, s, << "." >>, << >>, "line0")
         /\ s.state = "dot" /\ b = CR  => Goes(t, s, << >>, Append(s.held, b), "dotCR")
         /\ s.state = "dot" /\ b \notin {CR, "."} =>
              Goes(t, s, << ".", b >>, << >>, InLineState("line0", b))
         /\ s.state = "dotCR" /\ b = LF =>
              t = [s EXCEPT !.held = Append(s.held, b), !.state = "begin", !.done = TRUE]
         /\ s.state = "dotCR" /\ b # LF =>
              Goes(t, s, << ".", CR, b >>, << >>, InLineState("lineCR", b))
         /\ s.state \notin AtBegin \union {"beginCR", "dot", "dotCR"} =>
              Goes(t, s, << b >>, << >>, InLineState(s.state, b))
<1> DEFINE d == Copy(s, << "." >>, "line0")
           e == InLine(d, CR)
<1>1. "." # CR /\ {"beginCR", "dot", "dotCR"} \intersect AtBegin = {}
  BY Bytes DEF AtBegin
<1>2. /\ s.state \in AtBegin /\ b = CR  => t = Hold(s, b, "beginCR")
      /\ s.state \in AtBegin /\ b = "." => t = Hold(s, b, "dot")
      /\ s.state \in AtBegin /\ b \notin {CR, "."} => t = Copy(s, << b >>, "line0")
      /\ s.state = "beginCR" => t = AfterCR(s, b)
      /\ s.state = "dot" /\ b = "." => t = d
      /\ s.state = "dot" /\ b = CR  => t = Hold(s, b, "dotCR")
      /\ s.state = "dot" /\ b \notin {CR, "."} => t = InLine(d, b)
      /\ s.state = "dotCR" /\ b = LF => t = [Hold(s, b, "begin") EXCEPT !.done = TRUE]
      /\ s.state = "dotCR" /\ b # LF => t = InLine(e, b)
      /\ s.state \notin AtBegin \union {"beginCR", "dot", "dotCR"} => t = InLine(s, b)
  BY <1>1 DEF destuffByte
<1>3. "line0" \in State /\ "." \in Byte /\ CR \in Byte
  BY Bytes DEF State
<1>4. Goes(d, s, << "." >>, << >>, "line0")
      /\ Goes(InLine(d, b), s, << ".", b >>, << >>, InLineState("line0", b))
      /\ Goes(e, s, << ".", CR >>, << >>, "lineCR")
  BY <1>3, CopyIs, InLineBehind DEF InLineState
<1>5. d \in Scanner /\ e \in Scanner
  <2>1. << "." >> \in Seq(Output)
    BY Bytes
  <2>2. d \in Scanner
    BY <1>3, <2>1, CopyType
  <2> HIDE DEF d
  <2> QED
    BY <1>3, <2>2, InLineType
<1>6. e.state = "lineCR"
  BY <1>4 DEF Goes, Scanner
<1> HIDE DEF d, e
<1>7. Goes(InLine(e, b), e, << b >>, << >>, InLineState("lineCR", b))
  BY <1>5, <1>6, InLineIs
<1>8. Goes(InLine(e, b), s, << ".", CR, b >>, << >>, InLineState("lineCR", b))
  <2>1. << ".", CR >> \in Seq(Output) /\ << b >> \in Seq(Output)
        /\ << ".", CR >> \o << b >> = << ".", CR, b >>
    <3>1. << ".", CR >> \o << b >> = << ".", CR, b >>
      BY OneByOne, Zenon
    <3> QED
      BY <3>1, Bytes
  <2> QED
    BY <1>4, <1>5, <1>7, <2>1, GoesOn
<1>9. s.state = "dotCR" /\ b = LF =>
        t = [s EXCEPT !.held = Append(s.held, b), !.state = "begin", !.done = TRUE]
  BY <1>2 DEF Hold, Scanner
<1> QED
  BY <1>2, <1>4, <1>8, <1>9, HoldIs, CopyIs, AfterCRIs, InLineIs

-----------------------------------------------------------------------------
(* The length of what a call puts into writeBuf.  What a scanner keeps of  *)
(* its token it has read.                                                  *)
Writes(s) == Len(s.out)
Holds(s)  == Len(s.held)

Flat == State \ {"beginCR", "dot", "dotCR"}
Need(state) ==
  IF state = "dotCR" THEN 2 ELSE IF state \in {"beginCR", "dot"} THEN 1 ELSE 0
Kept(s) == Holds(s) >= Need(s.state)

LEMMA Needs ==
  /\ \A state \in Flat : Need(state) = 0
  /\ Need("dotCR") = 2 /\ Need("beginCR") = 1 /\ Need("dot") = 1
  /\ \A state \in State : Need(state) \in 0 .. 2
BY DEF Need, Flat

LEMMA Went ==
  ASSUME NEW s \in Scanner, NEW t \in Scanner, NEW out \in Seq(Output), NEW held, NEW state,
         Goes(t, s, out, held, state)
  PROVE  /\ t.out = s.out \o out /\ Writes(t) = Writes(s) + Len(out) /\ t.held = held
         /\ t.state = state /\ t.done = s.done /\ t.rest = s.rest
         /\ Writes(s) \in Nat /\ Holds(s) \in Nat /\ Writes(t) \in Nat
BY ConcatProperties, LenProperties DEF Goes, Scanner, Writes, Holds

LEMMA InLineStates == \A state, b : InLineState(state, b) \in Flat
BY DEF InLineState, Flat, State

LEMMA FlatStates == {"begin", "line0", "line", "lineCR"} \subseteq Flat
BY DEF Flat, State

LEMMA Tokens ==
  ASSUME NEW b \in Byte
  PROVE  /\ << >> \in Seq(Byte) /\ << b >> \in Seq(Byte) /\ << CR, LF >> \in Seq(Byte)
         /\ << CR, b >> \in Seq(Byte) /\ << "." >> \in Seq(Byte) /\ << ".", b >> \in Seq(Byte)
         /\ << ".", CR, b >> \in Seq(Byte) /\ << ".", "." >> \in Seq(Byte)
BY Bytes

LEMMA TokenLengths ==
  \A b : /\ Len(<< b >>) = 1 /\ Len(<< CR, LF >>) = 2 /\ Len(<< CR, b >>) = 2
         /\ Len(<< "." >>) = 1 /\ Len(<< ".", b >>) = 2 /\ Len(<< ".", CR, b >>) = 3
         /\ Len(<< ".", "." >>) = 2 /\ Len(<< >>) = 0
OBVIOUS

(* destuffMail writes no more than it reads, and bytes only.               *)
Brief(t, s) ==
  /\ Kept(t) /\ t.out \in Seq(Byte)
  /\ Writes(t) + Holds(t) <= Writes(s) + Holds(s) + 1

LEMMA BriefCopy ==
  ASSUME NEW s \in Scanner, s.out \in Seq(Byte), NEW t \in Scanner, NEW out \in Seq(Byte),
         NEW state \in Flat, Goes(t, s, out, << >>, state), Len(out) <= Holds(s) + 1
  PROVE  Brief(t, s)
<1>1. out \in Seq(Output) /\ Len(out) \in Nat
  BY ByteIsOutput, LenProperties
<1>2. /\ t.out = s.out \o out /\ Writes(t) = Writes(s) + Len(out) /\ t.held = << >>
      /\ t.state = state /\ Writes(s) \in Nat /\ Holds(s) \in Nat
  BY <1>1, Went
<1>3. t.out \in Seq(Byte) /\ Holds(t) = 0
  BY <1>2, ConcatProperties, TokenLengths DEF Holds
<1>4. Kept(t)
  BY <1>2, <1>3, Needs DEF Kept
<1>5. Writes(t) + Holds(t) <= Writes(s) + Holds(s) + 1
  BY <1>1, <1>2, <1>3
<1> QED
  BY <1>3, <1>4, <1>5 DEF Brief

LEMMA HoldsOne ==
  ASSUME NEW s \in Scanner, NEW b \in Byte, NEW t \in Scanner, NEW state \in State,
         Goes(t, s, << >>, Append(s.held, b), state)
  PROVE  /\ t.out = s.out /\ t.held = Append(s.held, b) /\ t.state = state
         /\ t.done = s.done /\ t.rest = s.rest
         /\ Holds(t) = Holds(s) + 1 /\ Writes(s) \in Nat /\ Holds(s) \in Nat
<1> DEFINE none == << >>
           held == Append(s.held, b)
<1>1. none \in Seq(Output) /\ Goes(t, s, none, held, state)
  BY EmptySeq
<1> HIDE DEF none, held
<1>2. /\ t.out = s.out \o none /\ t.held = held /\ t.state = state
      /\ t.done = s.done /\ t.rest = s.rest /\ Writes(s) \in Nat /\ Holds(s) \in Nat
  BY <1>1, Went
<1>3. s.out \in Seq(Output) /\ s.held \in Seq(Byte)
  BY DEF Scanner
<1>4. s.out \o none = s.out
  BY <1>3, ConcatEmptySeq DEF none
<1> QED
  BY <1>2, <1>3, <1>4, AppendProperties DEF Holds, held

LEMMA BriefHold ==
  ASSUME NEW s \in Scanner, s.out \in Seq(Byte), NEW b \in Byte, NEW t \in Scanner, NEW state \in State,
         Goes(t, s, << >>, Append(s.held, b), state), Holds(s) + 1 >= Need(state)
  PROVE  Brief(t, s)
<1>0. Goes(t, s, << >>, Append(s.held, b), state)
  OBVIOUS
<1>1. /\ t.out = s.out /\ t.state = state
      /\ t.held = Append(s.held, b) /\ t.done = s.done /\ t.rest = s.rest
      /\ Holds(t) = Holds(s) + 1 /\ Writes(s) \in Nat /\ Holds(s) \in Nat
  BY <1>0, HoldsOne, ZenonT(40)
<1>2. Kept(t)
  BY <1>1 DEF Kept
<1>3. Writes(t) = Writes(s)
  BY <1>1 DEF Writes
<1>4. Writes(t) + Holds(t) <= Writes(s) + Holds(s) + 1
  BY <1>1, <1>3
<1> QED
  BY <1>1, <1>2, <1>4 DEF Brief

LEMMA DestuffLength ==
  ASSUME NEW s \in Scanner, Kept(s), s.out \in Seq(Byte), NEW b \in Byte,
         NEW t, t = destuffByte(s, b)
  PROVE  Brief(t, s)
<1>1. t \in Scanner
  BY DestuffType
<1>2. Holds(s) \in Nat
  BY LenProperties DEF Scanner, Holds
<1>3. CASE s.state \in AtBegin
  <2>1. CASE b \in {CR, "."}
    <3>1. \E state \in {"beginCR", "dot"} : Goes(t, s, << >>, Append(s.held, b), state)
      BY <1>3, <2>1, DestuffIs
    <3>2. PICK state \in {"beginCR", "dot"} : Goes(t, s, << >>, Append(s.held, b), state)
      BY <3>1
    <3>3. Need(state) = 1 /\ state \in State
      BY <3>2, Needs DEF State
    <3>4. Holds(s) + 1 >= Need(state)
      BY <1>2, <3>3
    <3> QED
      BY <1>1, <3>2, <3>3, <3>4, BriefHold, Zenon
  <2>2. CASE b \notin {CR, "."}
    <3>1. Goes(t, s, << b >>, << >>, "line0")
      BY <1>3, <2>2, DestuffIs
    <3>2. Len(<< b >>) <= Holds(s) + 1
      BY <1>2, TokenLengths
    <3> QED
      BY <1>1, <3>1, <3>2, Tokens, FlatStates, BriefCopy
  <2> QED
    BY <2>1, <2>2
<1>4. CASE s.state = "beginCR"
  <2>1. Holds(s) >= 1
    BY <1>4, Needs DEF Kept
  <2>2. Len(<< CR, LF >>) <= Holds(s) + 1 /\ Len(<< CR, b >>) <= Holds(s) + 1
    BY <1>2, <2>1, TokenLengths
  <2>3. CASE b = LF
    <3>1. Goes(t, s, << CR, LF >>, << >>, "begin")
      BY <1>4, <2>3, DestuffIs
    <3> QED
      BY <1>1, <2>2, <3>1, Tokens, FlatStates, BriefCopy
  <2>4. CASE b # LF
    <3>1. Goes(t, s, << CR, b >>, << >>, InLineState("line0", b))
      BY <1>4, <2>4, DestuffIs
    <3> QED
      BY <1>1, <2>2, <3>1, Tokens, InLineStates, BriefCopy
  <2> QED
    BY <2>3, <2>4
<1>5. CASE s.state = "dot"
  <2>1. Holds(s) >= 1
    BY <1>5, Needs DEF Kept
  <2>2. Len(<< "." >>) <= Holds(s) + 1 /\ Len(<< ".", b >>) <= Holds(s) + 1
    BY <1>2, <2>1, TokenLengths
  <2>3. CASE b = "."
    <3>1. Goes(t, s, << "." >>, << >>, "line0")
      BY <1>5, <2>3, DestuffIs
    <3> QED
      BY <1>1, <2>2, <3>1, Tokens, FlatStates, BriefCopy
  <2>4. CASE b = CR
    <3>1. Goes(t, s, << >>, Append(s.held, b), "dotCR")
      BY <1>5, <2>4, DestuffIs
    <3>2. Holds(s) + 1 >= Need("dotCR") /\ "dotCR" \in State
      BY <1>2, <2>1, Needs DEF State
    <3> QED
      BY <1>1, <3>1, <3>2, BriefHold, Zenon
  <2>5. CASE b \notin {CR, "."}
    <3>1. Goes(t, s, << ".", b >>, << >>, InLineState("line0", b))
      BY <1>5, <2>5, DestuffIs
    <3> QED
      BY <1>1, <2>2, <3>1, Tokens, InLineStates, BriefCopy
  <2> QED
    BY <2>3, <2>4, <2>5
<1>6. CASE s.state = "dotCR"
  <2>1. Holds(s) >= 2
    BY <1>6, Needs DEF Kept
  <2>2. CASE b = LF
    <3>1. t = [s EXCEPT !.held = Append(s.held, b), !.state = "begin", !.done = TRUE]
      BY <1>6, <2>2, DestuffIs
    <3>2. t.out = s.out /\ t.held = Append(s.held, b) /\ t.state = "begin"
      BY <3>1 DEF Scanner
    <3>3. Holds(t) = Holds(s) + 1 /\ Writes(s) \in Nat
      BY <3>2, AppendProperties, LenProperties DEF Scanner, Holds, Writes
    <3>4. Kept(t)
      BY <1>2, <3>2, <3>3, Needs, FlatStates DEF Kept
    <3>5. Writes(t) = Writes(s)
      BY <3>2 DEF Writes
    <3>6. Writes(t) + Holds(t) <= Writes(s) + Holds(s) + 1
      BY <1>2, <3>3, <3>5
    <3> QED
      BY <3>2, <3>4, <3>6 DEF Brief
  <2>3. CASE b # LF
    <3>1. Goes(t, s, << ".", CR, b >>, << >>, InLineState("lineCR", b))
      BY <1>6, <2>3, DestuffIs
    <3>2. Len(<< ".", CR, b >>) <= Holds(s) + 1
      BY <1>2, <2>1, TokenLengths
    <3> QED
      BY <1>1, <3>1, <3>2, Tokens, InLineStates, BriefCopy
  <2> QED
    BY <2>2, <2>3
<1>7. CASE s.state \notin AtBegin \union {"beginCR", "dot", "dotCR"}
  <2>1. Goes(t, s, << b >>, << >>, InLineState(s.state, b))
    BY <1>7, DestuffIs
  <2>2. Len(<< b >>) <= Holds(s) + 1
    BY <1>2, TokenLengths
  <2> QED
    BY <1>1, <2>1, <2>2, Tokens, InLineStates, BriefCopy
<1> QED
  BY <1>3, <1>4, <1>5, <1>6, <1>7

(* stuffMail writes at most twice what it reads.                           *)
Doubled(t, s) ==
  Kept(t) /\ Writes(t) + 2 * Holds(t) <= Writes(s) + 2 * Holds(s) + 2

LEMMA DoubledCopy ==
  ASSUME NEW s \in Scanner, NEW t \in Scanner, NEW out \in Seq(Byte), NEW state \in Flat,
         Goes(t, s, out, << >>, state), Len(out) <= 2 * Holds(s) + 2
  PROVE  Doubled(t, s)
<1>1. out \in Seq(Output) /\ Len(out) \in Nat
  BY ByteIsOutput, LenProperties
<1>2. /\ Writes(t) = Writes(s) + Len(out) /\ t.held = << >> /\ t.state = state
      /\ Writes(s) \in Nat /\ Holds(s) \in Nat
  BY <1>1, Went
<1>3. Holds(t) = 0
  BY <1>2, TokenLengths DEF Holds
<1>4. Kept(t)
  BY <1>2, <1>3, Needs DEF Kept
<1>5. Writes(t) + 2 * Holds(t) <= Writes(s) + 2 * Holds(s) + 2
  BY <1>1, <1>2, <1>3
<1> QED
  BY <1>4, <1>5 DEF Doubled

LEMMA StuffLength ==
  ASSUME NEW s \in Scanner, NEW b \in Byte, NEW t, t = stuffByte(s, b)
  PROVE  Doubled(t, s)
<1>1. t \in Scanner
  BY StuffType
<1>2. Holds(s) \in Nat
  BY LenProperties DEF Scanner, Holds
<1>3. /\ Len(<< b >>) <= 2 * Holds(s) + 2 /\ Len(<< ".", "." >>) <= 2 * Holds(s) + 2
      /\ Len(<< CR, LF >>) <= 2 * Holds(s) + 2 /\ Len(<< CR, b >>) <= 2 * Holds(s) + 2
  BY <1>2, TokenLengths
<1>4. CASE s.state \in AtBegin
  <2>1. CASE b = CR
    <3>1. Goes(t, s, << >>, Append(s.held, b), "beginCR")
      BY <1>4, <2>1, StuffIs
    <3>2. /\ t.out = s.out /\ t.state = "beginCR"
          /\ Holds(t) = Holds(s) + 1 /\ Writes(s) \in Nat
      <4>1. "beginCR" \in State
        BY DEF State
      <4> QED
        BY <1>1, <3>1, <4>1, HoldsOne
    <3>3. Kept(t)
      BY <1>2, <3>2, Needs DEF Kept
    <3>4. Writes(t) = Writes(s)
      BY <3>2 DEF Writes
    <3>5. Writes(t) + 2 * Holds(t) <= Writes(s) + 2 * Holds(s) + 2
      BY <1>2, <3>2, <3>4
    <3> QED
      BY <3>3, <3>5 DEF Doubled
  <2>2. CASE b = "."
    <3>1. Goes(t, s, << ".", "." >>, << >>, "line0")
      BY <1>4, <2>2, StuffIs
    <3> QED
      BY <1>1, <1>3, <3>1, Tokens, FlatStates, DoubledCopy
  <2>3. CASE b \notin {CR, "."}
    <3>1. Goes(t, s, << b >>, << >>, "line0")
      BY <1>4, <2>3, StuffIs
    <3> QED
      BY <1>1, <1>3, <3>1, Tokens, FlatStates, DoubledCopy
  <2> QED
    BY <2>1, <2>2, <2>3
<1>5. CASE s.state = "beginCR"
  <2>1. CASE b = LF
    <3>1. Goes(t, s, << CR, LF >>, << >>, "begin")
      BY <1>5, <2>1, StuffIs
    <3> QED
      BY <1>1, <1>3, <3>1, Tokens, FlatStates, DoubledCopy
  <2>2. CASE b # LF
    <3>1. Goes(t, s, << CR, b >>, << >>, InLineState("line0", b))
      BY <1>5, <2>2, StuffIs
    <3> QED
      BY <1>1, <1>3, <3>1, Tokens, InLineStates, DoubledCopy
  <2> QED
    BY <2>1, <2>2
<1>6. CASE s.state \notin AtBegin \union {"beginCR"}
  <2>1. Goes(t, s, << b >>, << >>, InLineState(s.state, b))
    BY <1>6, StuffIs
  <2> QED
    BY <1>1, <1>3, <2>1, Tokens, InLineStates, DoubledCopy
<1> QED
  BY <1>4, <1>5, <1>6

-----------------------------------------------------------------------------
(* A text up to a position, and the text a message stands for: without the *)
(* first dot of a line, up to the end line.                                *)
Upto(text, p) == SubSeq(text, 1, p)

LEMMA UptoNext ==
  ASSUME NEW text \in Seq(Byte), NEW m \in Nat \ {0}, NEW p \in m - 1 .. Len(text) - 1
  PROVE  /\ text[p + 1] \in Byte /\ SubSeq(text, m, p) \in Seq(Byte)
         /\ SubSeq(text, m, p + 1) = Append(SubSeq(text, m, p), text[p + 1])
         /\ SubSeq(text, m, p + 1) = SubSeq(text, m, p) \o << text[p + 1] >>
<1>1. /\ Len(text) \in Nat /\ m \in 1 .. Len(text) /\ p + 1 \in m .. Len(text)
      /\ (p + 1) - 1 = p /\ p + 1 \in 1 .. Len(text) /\ p \in Int /\ m \in Int
      /\ p \in Nat /\ p <= Len(text)
  BY LenProperties
<1>2. SubSeq(text, m, p + 1) = SubSeq(text, m, p) \o << text[p + 1] >>
  BY <1>1, SubSeqRecursiveSecond
<1>3. text[p + 1] \in Byte
  BY <1>1, ElementOfSeq
<1>4. SubSeq(text, m, p) \in Seq(Byte)
  BY <1>1, SubSeqType
<1> QED
  BY <1>2, <1>3, <1>4, AppendIsConcat

LEMMA UptoIs ==
  ASSUME NEW text \in Seq(Byte), NEW p \in 0 .. Len(text)
  PROVE  /\ Upto(text, p) \in Seq(Byte) /\ Len(Upto(text, p)) = p
         /\ \A i \in 1 .. p : Upto(text, p)[i] = text[i]
<1>1. Len(text) \in Nat /\ 1 \in Int /\ p \in Int /\ p \in Nat
  BY LenProperties
<1>2. \A i \in 1 .. p : text[i] \in Byte
  BY <1>1, ElementOfSeq
<1>3. /\ SubSeq(text, 1, p) \in Seq(Byte)
      /\ Len(SubSeq(text, 1, p)) = IF 1 <= p THEN p - 1 + 1 ELSE 0
      /\ \A i \in 1 .. p - 1 + 1 : SubSeq(text, 1, p)[i] = text[1 + i - 1]
  BY <1>1, <1>2, SubSeqProperties
<1>4. p - 1 + 1 = p /\ (~(1 <= p) => p = 0) /\ \A i \in 1 .. p : 1 + i - 1 = i
  BY <1>1
<1> QED
  BY <1>3, <1>4 DEF Upto

LEMMA UptoEnds ==
  ASSUME NEW text \in Seq(Byte)
  PROVE  Upto(text, 0) = << >> /\ Upto(text, Len(text)) = text
BY SubSeqEmpty, SubSeqFull DEF Upto

(* What the origin says goes on behind the message or the reply.           *)
Saying == [kind : Kind, bytes : Seq(Byte), behind : Seq(Byte)]
Stream(i) == i.bytes \o i.behind

LEMMA InputsAre == Inputs \subseteq Saying
BY ReplyBytesAssumption DEF Saying

LEMMA StreamIs ==
  ASSUME NEW i \in Saying
  PROVE  /\ i.bytes \in Seq(Byte) /\ i.behind \in Seq(Byte) /\ Stream(i) \in Seq(Byte)
         /\ Len(i.bytes) \in Nat /\ Len(Stream(i)) \in Nat /\ Len(i.bytes) <= Len(Stream(i))
         /\ \A p \in 1 .. Len(i.bytes) : Stream(i)[p] = i.bytes[p]
         /\ SubSeq(Stream(i), Len(i.bytes) + 1, Len(Stream(i))) = i.behind
<1> DEFINE s == i.bytes
           t == i.behind
           st == Stream(i)
<1>1. s \in Seq(Byte) /\ t \in Seq(Byte)
  BY DEF Saying
<1> HIDE DEF s, t
<1>2. st = s \o t
  BY DEF Stream, s, t
<1> HIDE DEF st
<1>3. st \in Seq(Byte) /\ Len(st) = Len(s) + Len(t) /\ Len(s) \in Nat /\ Len(t) \in Nat
  BY <1>1, <1>2, ConcatProperties, LenProperties
<1>4. \A p \in 1 .. Len(s) : st[p] = s[p]
  BY <1>1, <1>2, <1>3, ConcatProperties
<1>5. SubSeq(st, Len(s) + 1, Len(st)) = t
  <2> DEFINE u == SubSeq(st, Len(s) + 1, Len(st))
             v == SubSeq(st, 1, Len(s))
  <2>1. Len(s) \in 0 .. Len(st)
    BY <1>3
  <2>2. v \in Seq(Byte) /\ u \in Seq(Byte) /\ v \o u = st
    BY <1>3, <2>1, Cut
  <2>3. v = s
    <3>1. /\ Upto(st, Len(s)) \in Seq(Byte) /\ Len(Upto(st, Len(s))) = Len(s)
          /\ \A p \in 1 .. Len(s) : Upto(st, Len(s))[p] = st[p]
      BY <1>3, <2>1, UptoIs
    <3>2. v = Upto(st, Len(s))
      BY DEF Upto
    <3> HIDE DEF v
    <3> QED
      BY <1>1, <1>4, <3>1, <3>2, SeqEqual
  <2> HIDE DEF u, v
  <2>4. s \o u = s \o t
    BY <1>2, <2>2, <2>3
  <2>5. u = t
    BY <1>1, <2>2, <2>4, ConcatSimplifications
  <2> QED
    BY <2>5 DEF u
<1>6. Len(st) \in Nat /\ Len(s) <= Len(st)
  BY <1>3
<1> QED
  BY <1>1, <1>3, <1>4, <1>5, <1>6, Zenon DEF s, t, st

(* A position in front of a dot that is removed.                           *)
Dotted(text, p) == LineStart(text, p) /\ text[p + 1] = "."

IsPlain(plain, text) ==
  /\ plain \in [0 .. Len(text) -> Seq(Byte)] /\ plain[0] = << >>
  /\ \A p \in 0 .. Len(text) - 1 :
       plain[p + 1] = IF Dotted(text, p) THEN plain[p] ELSE Append(plain[p], text[p + 1])
Plain(text) == CHOOSE plain : IsPlain(plain, text)

Text == Seq(Byte)

LEMMA TextsOf ==
  ASSUME NEW a \in Text, NEW N \in Nat, NEW step \in [1 .. N -> [Text -> Text]]
  PROVE  \E f \in [0 .. N -> Text] : f[0] = a /\ \A n \in 1 .. N : f[n] = step[n][f[n - 1]]
BY Recursion

LEMMA PlainIs ==
  ASSUME NEW text \in Seq(Byte)
  PROVE  IsPlain(Plain(text), text)
<1> DEFINE N == Len(text)
           step == [n \in 1 .. N |-> [s \in Text |-> IF Dotted(text, n - 1) THEN s
                                                  ELSE Append(s, text[n])]]
<1>1. N \in Nat /\ \A n \in 1 .. N : text[n] \in Byte
  BY LenProperties, ElementOfSeq
<1>2. \A n \in 1 .. N, s \in Text : Append(s, text[n]) \in Text
  BY <1>1, AppendProperties DEF Text
<1>3. step \in [1 .. N -> [Text -> Text]] /\ << >> \in Text
  BY <1>2 DEF Text
<1>4. PICK f \in [0 .. N -> Text] : f[0] = << >> /\ \A n \in 1 .. N : f[n] = step[n][f[n - 1]]
  <2> DEFINE a == << >>
  <2>1. a \in Text
    BY <1>3
  <2> HIDE DEF step, N, a
  <2>2. \E f \in [0 .. N -> Text] : f[0] = a /\ \A n \in 1 .. N : f[n] = step[n][f[n - 1]]
    BY <1>1, <1>3, <2>1, TextsOf
  <2> QED
    BY <2>2 DEF a
<1>5. ASSUME NEW p \in 0 .. N - 1
      PROVE  f[p + 1] = IF Dotted(text, p) THEN f[p] ELSE Append(f[p], text[p + 1])
  <2>1. p + 1 \in 1 .. N /\ (p + 1) - 1 = p /\ p \in 0 .. N
    BY <1>1
  <2> HIDE DEF N
  <2>2. f[p] \in Text /\ f[p + 1] = step[p + 1][f[p]]
    BY <1>4, <2>1
  <2>3. step[p + 1][f[p]] = IF Dotted(text, (p + 1) - 1) THEN f[p] ELSE Append(f[p], text[p + 1])
    BY <2>1, <2>2
  <2> QED
    BY <2>1, <2>2, <2>3
<1>6. IsPlain(f, text)
  BY <1>4, <1>5 DEF IsPlain, Text
<1> QED
  BY <1>6, Zenon DEF Plain

LEMMA PlainNext ==
  ASSUME NEW text \in Seq(Byte), NEW p \in 0 .. Len(text) - 1
  PROVE  /\ Plain(text)[p] \in Seq(Byte) /\ Plain(text)[p + 1] \in Seq(Byte)
         /\ text[p + 1] \in Byte
         /\ Dotted(text, p) => Plain(text)[p + 1] = Plain(text)[p]
         /\ ~Dotted(text, p) => Plain(text)[p + 1] = Plain(text)[p] \o << text[p + 1] >>
<1>1. IsPlain(Plain(text), text)
  BY PlainIs
<1>2. Len(text) \in Nat
  BY LenProperties
<1>3. p \in 0 .. Len(text) /\ p + 1 \in 0 .. Len(text) /\ p + 1 \in 1 .. Len(text)
  BY <1>2
<1>4. Plain(text)[p] \in Seq(Byte) /\ Plain(text)[p + 1] \in Seq(Byte) /\ text[p + 1] \in Byte
  BY <1>1, <1>3, ElementOfSeq DEF IsPlain
<1>5. Append(Plain(text)[p], text[p + 1]) = Plain(text)[p] \o << text[p + 1] >>
  BY <1>4, AppendIsConcat
<1> QED
  BY <1>1, <1>4, <1>5 DEF IsPlain

LEMMA PlainType ==
  ASSUME NEW text \in Seq(Byte)
  PROVE  /\ \A p \in 0 .. Len(text) : Plain(text)[p] \in Seq(Byte)
         /\ Plain(text)[0] = << >>
BY PlainIs DEF IsPlain

(* The plain text up to a position begins every one behind it.             *)
LEMMA PlainGrows ==
  ASSUME NEW text \in Seq(Byte), NEW e \in 0 .. Len(text), NEW f \in e .. Len(text)
  PROVE  \E r \in Seq(Byte) : Plain(text)[f] = Plain(text)[e] \o r
<1> DEFINE pl == Plain(text)
           N == Len(text)
           T == {n \in 0 .. N - e : \E r \in Seq(Byte) : pl[e + n] = pl[e] \o r}
<1>1. N \in Nat /\ N - e \in Nat /\ e \in Nat /\ pl[e] \in Seq(Byte)
  BY LenProperties, PlainType
<1>2. 0 \in T
  <2>1. pl[e] \o << >> = pl[e] /\ << >> \in Seq(Byte) /\ e + 0 = e
    BY <1>1, ConcatEmptySeq, EmptySeq
  <2>2. 0 \in 0 .. N - e
    BY <1>1
  <2> QED
    BY <2>1, <2>2
<1>3. ASSUME NEW n \in 0 .. (N - e) - 1, n \in T
      PROVE  n + 1 \in T
  <2>1. e + n \in 0 .. Len(text) - 1 /\ n + 1 \in 0 .. N - e /\ e + (n + 1) = (e + n) + 1
    BY <1>1
  <2>2. PICK r \in Seq(Byte) : pl[e + n] = pl[e] \o r
    BY <1>3
  <2>3. /\ text[(e + n) + 1] \in Byte
        /\ \/ pl[(e + n) + 1] = pl[e + n]
           \/ pl[(e + n) + 1] = pl[e + n] \o << text[(e + n) + 1] >>
    BY <2>1, PlainNext
  <2>4. << text[(e + n) + 1] >> \in Seq(Byte) /\ r \o << text[(e + n) + 1] >> \in Seq(Byte)
    <3>1. << text[(e + n) + 1] >> \in Seq(Byte)
      BY <2>3
    <3> QED
      BY <3>1, ConcatProperties
  <2>5. (pl[e] \o r) \o << text[(e + n) + 1] >> = pl[e] \o (r \o << text[(e + n) + 1] >>)
    BY <1>1, <2>2, <2>4, AssociativeBytes, Zenon
  <2>6. \E q \in Seq(Byte) : pl[(e + n) + 1] = pl[e] \o q
    <3> HIDE DEF pl
    <3>1. \/ pl[(e + n) + 1] = pl[e] \o r
          \/ pl[(e + n) + 1] = pl[e] \o (r \o << text[(e + n) + 1] >>)
      BY <2>2, <2>3, <2>5
    <3> QED
      BY <2>4, <3>1
  <2> HIDE DEF pl, N
  <2> QED
    BY <2>1, <2>6
<1> HIDE DEF T, N, pl
<1>4. \A n \in 0 .. (N - e) - 1 : n \in T => n + 1 \in T
  BY <1>3
<1>5. \A n \in 0 .. N - e : n \in T
  BY <1>1, <1>2, <1>4, UpTo, Zenon
<1>6. f - e \in 0 .. N - e /\ e + (f - e) = f
  BY <1>1 DEF N
<1> QED
  BY <1>5, <1>6 DEF T, pl

-----------------------------------------------------------------------------
(* Where in the lines of a text a scanner is that has read it up to a      *)
(* position.                                                               *)
At(state, held, text, p) ==
  /\ state \in AtBegin \union {"beginCR", "line0", "line", "lineCR", "dot", "dotCR"}
  /\ state \in AtBegin => LineStart(text, p) /\ held = << >>
  /\ state = "beginCR" => p >= 1 /\ LineStart(text, p - 1) /\ text[p] = CR /\ held = << CR >>
  /\ state \in {"line0", "line"} =>
       p >= 1 /\ ~LineStart(text, p) /\ text[p] # CR /\ held = << >>
  /\ state = "lineCR" => p >= 1 /\ text[p] = CR /\ held = << >>
  /\ state = "dot" => p >= 1 /\ LineStart(text, p - 1) /\ text[p] = "." /\ held = << "." >>
  /\ state = "dotCR" =>
       /\ p >= 2 /\ LineStart(text, p - 2) /\ text[p - 1] = "." /\ text[p] = CR
       /\ held = << ".", CR >>

LEMMA AtInLine ==
  ASSUME NEW text, NEW p \in Nat, NEW state \in {"line0", "line", "lineCR"}, NEW held,
         At(state, held, text, p)
  PROVE  /\ At(InLineState(state, text[p + 1]), << >>, text, p + 1)
         /\ ~LineStart(text, p)
BY Bytes DEF At, AtBegin, LineStart, InLineState

LEMMA AtLine ==
  ASSUME NEW text, NEW p \in Nat, NEW state \in AtBegin, NEW held, At(state, held, text, p)
  PROVE  /\ LineStart(text, p)
         /\ text[p + 1] = CR => At("beginCR", << CR >>, text, p + 1)
         /\ text[p + 1] = "." => At("dot", << "." >>, text, p + 1)
         /\ text[p + 1] \notin {CR, "."} => At("line0", << >>, text, p + 1)
         /\ text[p + 1] = "." /\ text[p + 2] = "." => At("line0", << >>, text, p + 2)
BY Bytes DEF At, AtBegin, LineStart

LEMMA AtCR ==
  ASSUME NEW text, NEW p \in Nat, NEW held, At("beginCR", held, text, p)
  PROVE  /\ p >= 1 /\ LineStart(text, p - 1) /\ text[p] = CR /\ ~LineStart(text, p)
         /\ text[p + 1] = LF => At("begin", << >>, text, p + 1)
         /\ text[p + 1] # LF => At(InLineState("line0", text[p + 1]), << >>, text, p + 1)
BY Bytes DEF At, AtBegin, LineStart, InLineState

LEMMA AtDot ==
  ASSUME NEW text, NEW p \in Nat, NEW held, At("dot", held, text, p)
  PROVE  /\ p >= 1 /\ LineStart(text, p - 1) /\ text[p] = "." /\ ~LineStart(text, p)
         /\ text[p + 1] = "." => At("line0", << >>, text, p + 1)
         /\ text[p + 1] = CR => At("dotCR", << ".", CR >>, text, p + 1)
BY Bytes DEF At, AtBegin, LineStart

LEMMA AtDotCR ==
  ASSUME NEW text, NEW p \in Nat, NEW held, At("dotCR", held, text, p)
  PROVE  p >= 2 /\ LineStart(text, p - 2) /\ text[p - 1] = "." /\ text[p] = CR
BY DEF At

(* The end line of a message, and the dots in front of it.                 *)
End(text) == Len(text) - 3

LEMMA MessageIs ==
  ASSUME NEW text \in Seq(Byte), Message(text)
  PROVE  /\ Len(text) \in Nat /\ End(text) \in Nat /\ End(text) + 3 = Len(text)
         /\ LineStart(text, End(text)) /\ text[End(text) + 1] = "."
         /\ text[End(text) + 2] = CR /\ text[End(text) + 3] = LF
         /\ \A p \in 0 .. End(text) : Dotted(text, p) /\ text[p + 2] # "." => p = End(text)
         /\ \A p \in 0 .. End(text) : Dotted(text, p) /\ text[p + 2] = "." => p + 2 <= End(text)
<1> DEFINE N == Len(text)
           last == End(text)
<1>1. N \in Nat /\ last = N - 3
  BY LenProperties DEF End
<1>2. /\ N >= 3 /\ LineStart(text, last)
      /\ text[last + 1] = "." /\ text[last + 2] = CR /\ text[last + 3] = LF
      /\ \A p \in 0 .. last - 1 : LineStart(text, p) /\ text[p + 1] = "." => text[p + 2] = "."
  BY <1>1 DEF Message
<1> HIDE DEF N, last
<1>3. last \in Nat /\ last + 3 = N
  BY <1>1, <1>2
<1>4. ASSUME NEW p \in 0 .. last, Dotted(text, p), text[p + 2] # "."
      PROVE  p = last
  BY <1>2, <1>3, <1>4 DEF Dotted
<1>5. ASSUME NEW p \in 0 .. last, Dotted(text, p), text[p + 2] = "."
      PROVE  p + 2 <= last
  <2>1. p # last
    BY <1>2, <1>5, Bytes
  <2>2. ASSUME p + 1 = last
        PROVE  FALSE
    <3>1. text[last] = "." /\ last >= 1
      BY <1>3, <1>5, <2>2 DEF Dotted
    <3> QED
      BY <1>2, <3>1, Bytes DEF LineStart
  <2> QED
    BY <1>3, <2>1, <2>2
<1> QED
  BY <1>1, <1>2, <1>3, <1>4, <1>5, Zenon DEF N, last

LEMMA PlainTwo ==
  ASSUME NEW text \in Seq(Byte), NEW p \in 0 .. Len(text) - 2, ~Dotted(text, p + 1)
  PROVE  /\ Dotted(text, p) => Plain(text)[p + 2] = Plain(text)[p] \o << text[p + 2] >>
         /\ ~Dotted(text, p) =>
              Plain(text)[p + 2] = Plain(text)[p] \o << text[p + 1], text[p + 2] >>
<1> DEFINE pl == Plain(text)
           c == text[p + 1]
           d == text[p + 2]
<1>1. Len(text) \in Nat
  BY LenProperties
<1>2. p \in 0 .. Len(text) - 1 /\ p + 1 \in 0 .. Len(text) - 1 /\ (p + 1) + 1 = p + 2
  BY <1>1
<1>3. /\ pl[p] \in Seq(Byte) /\ c \in Byte
      /\ Dotted(text, p) => pl[p + 1] = pl[p]
      /\ ~Dotted(text, p) => pl[p + 1] = pl[p] \o << c >>
  BY <1>2, PlainNext
<1>4. d \in Byte /\ pl[p + 2] = pl[p + 1] \o << d >>
  <2>1. text[(p + 1) + 1] \in Byte /\ pl[(p + 1) + 1] = pl[p + 1] \o << text[(p + 1) + 1] >>
    BY <1>2, PlainNext
  <2> QED
    BY <1>2, <2>1
<1> HIDE DEF c, d, pl
<1>5. << c >> \in Seq(Byte) /\ << d >> \in Seq(Byte)
  BY <1>3, <1>4
<1>6. (pl[p] \o << c >>) \o << d >> = pl[p] \o (<< c >> \o << d >>)
  BY <1>3, <1>5, AssociativeBytes, Zenon
<1>7. << c >> \o << d >> = << c, d >>
  BY OneByOne, Zenon
<1>8. ~Dotted(text, p) => pl[p + 2] = pl[p] \o << c, d >>
  BY <1>3, <1>4, <1>6, <1>7, Zenon
<1>9. Dotted(text, p) => pl[p + 2] = pl[p] \o << d >>
  BY <1>3, <1>4, Zenon
<1> QED
  BY <1>8, <1>9 DEF c, d, pl

-----------------------------------------------------------------------------
(* destuffMail at a position of a message: what it has written is the      *)
(* plain text, up to what it holds.                                        *)
Destuffs(s, text, c) ==
  /\ At(s.state, s.held, text, c) /\ c < Len(text)
  /\ c - Need(s.state) \in 0 .. End(text)

Moves(t, s, text, c) ==
  /\ t \in Scanner /\ ~t.done /\ t.rest = s.rest /\ Destuffs(t, text, c + 1)
  /\ \E out \in Seq(Byte) :
       /\ t.out = s.out \o out
       /\ Plain(text)[(c + 1) - Need(t.state)] = Plain(text)[c - Need(s.state)] \o out

Concludes(t, s, text, c) ==
  /\ t \in Scanner /\ t.done /\ t.rest = s.rest /\ t.out = s.out
  /\ c + 1 = Len(text) /\ c - Need(s.state) = End(text)

LEMMA Moved ==
  ASSUME NEW text, NEW s \in Scanner, NEW t \in Scanner, ~s.done, NEW c \in Nat,
         NEW out \in Seq(Byte), NEW held, NEW state \in State, Goes(t, s, out, held, state),
         At(state, held, text, c + 1), c + 1 < Len(text),
         NEW q \in 0 .. End(text), q = (c + 1) - Need(state),
         Plain(text)[q] = Plain(text)[c - Need(s.state)] \o out
  PROVE  Moves(t, s, text, c)
<1>1. out \in Seq(Output)
  BY ByteIsOutput
<1>2. /\ t.out = s.out \o out /\ t.held = held /\ t.state = state
      /\ t.done = s.done /\ t.rest = s.rest
  BY <1>1, Went
<1>3. Destuffs(t, text, c + 1)
  <2>1. (c + 1) - Need(t.state) \in 0 .. End(text) /\ At(t.state, t.held, text, c + 1)
    BY <1>2
  <2> QED
    BY <2>1 DEF Destuffs
<1>4. Plain(text)[(c + 1) - Need(t.state)] = Plain(text)[c - Need(s.state)] \o out
  BY <1>2
<1> QED
  BY <1>2, <1>3, <1>4 DEF Moves

LEMMA HeldNext ==
  /\ \A c \in Byte : Append(<< >>, c) = << c >>
  /\ \A c, d \in Byte : Append(<< c >>, d) = << c, d >>
<1>1. \A c \in Byte : Append(<< >>, c) = << c >>
  OBVIOUS
<1>2. ASSUME NEW c \in Byte, NEW d \in Byte
      PROVE  Append(<< c >>, d) = << c, d >>
  <2>1. << c >> \in Seq(Byte)
    OBVIOUS
  <2>2. Append(<< c >>, d) = << c >> \o << d >>
    BY <2>1, AppendIsConcat
  <2>3. << c >> \o << d >> = << c, d >>
    BY OneByOne, Zenon
  <2> QED
    BY <2>2, <2>3
<1> QED
  BY <1>1, <1>2

LEMMA PlainStays ==
  ASSUME NEW text \in Seq(Byte), NEW p \in 0 .. Len(text)
  PROVE  Plain(text)[p] = Plain(text)[p] \o << >>
BY PlainType, ConcatEmptySeq

LEMMA DestuffLine ==
  ASSUME NEW text \in Seq(Byte), Message(text), NEW s \in Scanner, ~s.done, NEW c \in Nat,
         Destuffs(s, text, c), NEW t, t = destuffByte(s, text[c + 1]), s.state \in AtBegin
  PROVE  Moves(t, s, text, c)
<1> DEFINE b == text[c + 1]
           last == End(text)
<1>1. /\ Len(text) \in Nat /\ last \in Nat /\ last + 3 = Len(text)
      /\ LineStart(text, last) /\ text[last + 1] = "."
  BY MessageIs
<1>2. Need(s.state) = 0 /\ c \in 0 .. last /\ s.held = << >>
  <2>1. Need(s.state) = 0
    BY DEF AtBegin, Need
  <2> QED
    BY <1>1, <2>1 DEF Destuffs, At
<1>3. b \in Byte /\ c \in 0 .. Len(text) - 1 /\ c \in 0 .. Len(text) /\ c + 1 < Len(text)
  <2>1. c \in 0 .. Len(text) - 1 /\ c + 1 \in 1 .. Len(text) /\ c + 1 < Len(text)
    BY <1>1, <1>2
  <2> QED
    BY <2>1, ElementOfSeq
<1>4. t \in Scanner
  BY <1>3, DestuffType
<1>5. /\ b = CR => At("beginCR", << CR >>, text, c + 1)
      /\ b = "." => At("dot", << "." >>, text, c + 1)
      /\ b \notin {CR, "."} => At("line0", << >>, text, c + 1)
  <2>1. At(s.state, s.held, text, c)
    BY DEF Destuffs
  <2> QED
    BY <2>1, AtLine
<1>6. /\ b = CR => Goes(t, s, << >>, << CR >>, "beginCR")
      /\ b = "." => Goes(t, s, << >>, << "." >>, "dot")
      /\ b \notin {CR, "."} => Goes(t, s, << b >>, << >>, "line0")
  <2>1. Append(s.held, b) = << b >>
    BY <1>2, <1>3, HeldNext
  <2>2. /\ b = CR  => Goes(t, s, << >>, Append(s.held, b), "beginCR")
        /\ b = "." => Goes(t, s, << >>, Append(s.held, b), "dot")
        /\ b \notin {CR, "."} => Goes(t, s, << b >>, << >>, "line0")
    BY <1>3, DestuffIs
  <2> QED
    BY <2>1, <2>2
<1> HIDE DEF b, last
<1>7. /\ {"beginCR", "dot", "line0"} \subseteq State /\ << >> \in Seq(Byte) /\ << b >> \in Seq(Byte)
      /\ Need("beginCR") = 1 /\ Need("dot") = 1 /\ Need("line0") = 0
  BY <1>3, Needs, FlatStates DEF State
<1>8. c = (c + 1) - 1 /\ c = c - Need(s.state)
  BY <1>2
<1>9. Plain(text)[c] = Plain(text)[c - Need(s.state)] \o << >>
  <2>1. Plain(text)[c] = Plain(text)[c] \o << >>
    BY <1>3, PlainStays
  <2> QED
    BY <1>8, <2>1
<1>10. CASE b \in {CR, "."}
  <2>1. PICK state \in {"beginCR", "dot"} :
          Goes(t, s, << >>, << b >>, state) /\ At(state, << b >>, text, c + 1)
    BY <1>5, <1>6, <1>10
  <2>2. state \in State /\ c = (c + 1) - Need(state)
    BY <1>7, <1>8, <2>1
  <2> QED
    BY <1>2, <1>3, <1>4, <1>7, <1>9, <2>1, <2>2, Moved DEF last
<1>11. CASE b \notin {CR, "."}
  <2>1. c # last
    BY <1>1, <1>11 DEF b
  <2>2. c + 1 \in 0 .. End(text) /\ c + 1 = (c + 1) - Need("line0")
    BY <1>1, <1>2, <1>7, <2>1 DEF last
  <2>3. ~Dotted(text, c)
    BY <1>11 DEF Dotted, b
  <2>4. Plain(text)[c + 1] = Plain(text)[c - Need(s.state)] \o << b >>
    BY <1>3, <1>8, <2>3, PlainNext DEF b
  <2> QED
    BY <1>3, <1>4, <1>5, <1>6, <1>7, <1>11, <2>2, <2>4, Moved
<1> QED
  BY <1>10, <1>11

LEMMA DestuffCR ==
  ASSUME NEW text \in Seq(Byte), Message(text), NEW s \in Scanner, ~s.done, NEW c \in Nat,
         Destuffs(s, text, c), NEW t, t = destuffByte(s, text[c + 1]), s.state = "beginCR"
  PROVE  Moves(t, s, text, c)
<1> DEFINE b == text[c + 1]
           p == c - 1
           last == End(text)
<1>1. /\ Len(text) \in Nat /\ last \in Nat /\ last + 3 = Len(text)
      /\ LineStart(text, last) /\ text[last + 1] = "."
  BY MessageIs
<1>2. /\ c >= 1 /\ text[c] = CR /\ ~LineStart(text, c)
      /\ b = LF => At("begin", << >>, text, c + 1)
      /\ b # LF => At(InLineState("line0", b), << >>, text, c + 1)
  BY AtCR DEF Destuffs
<1>3. p \in 0 .. last /\ p = c - Need(s.state) /\ p + 1 = c /\ p + 2 = c + 1 /\ p \in Nat
  BY <1>1, <1>2, Needs DEF Destuffs
<1>4. c + 1 \in 0 .. last
  <2>1. p # last /\ c # last
    BY <1>1, <1>2, <1>3, Bytes
  <2> QED
    BY <1>1, <1>2, <1>3, <2>1
<1>5. b \in Byte /\ p \in 0 .. Len(text) - 2 /\ c + 1 < Len(text)
  <2>1. p \in 0 .. Len(text) - 2 /\ c + 1 \in 1 .. Len(text) /\ c + 1 < Len(text)
    BY <1>1, <1>2, <1>3, <1>4
  <2> QED
    BY <2>1, ElementOfSeq
<1>6. Plain(text)[c + 1] = Plain(text)[c - Need(s.state)] \o << CR, b >>
  <2>1. ~Dotted(text, p) /\ ~Dotted(text, p + 1)
    BY <1>2, <1>3, Bytes DEF Dotted
  <2>2. Plain(text)[p + 2] = Plain(text)[p] \o << text[p + 1], text[p + 2] >>
    BY <1>5, <2>1, PlainTwo
  <2> QED
    BY <1>2, <1>3, <2>2
<1>7. t \in Scanner
  BY <1>5, DestuffType
<1>8. /\ b = LF  => Goes(t, s, << CR, LF >>, << >>, "begin")
      /\ b # LF  => Goes(t, s, << CR, b >>, << >>, InLineState("line0", b))
  BY <1>5, DestuffIs
<1> HIDE DEF b, p, last
<1>9. PICK state \in Flat : Goes(t, s, << CR, b >>, << >>, state) /\ At(state, << >>, text, c + 1)
  BY <1>2, <1>8, FlatStates, InLineStates
<1>10. << CR, b >> \in Seq(Byte) /\ state \in State /\ c + 1 = (c + 1) - Need(state)
  BY <1>5, <1>9, Tokens, Needs DEF Flat
<1>11. c + 1 \in 0 .. End(text)
  BY <1>4 DEF last
<1> QED
  BY <1>5, <1>6, <1>7, <1>9, <1>10, <1>11, Moved

LEMMA DestuffDot ==
  ASSUME NEW text \in Seq(Byte), Message(text), NEW s \in Scanner, ~s.done, NEW c \in Nat,
         Destuffs(s, text, c), NEW t, t = destuffByte(s, text[c + 1]), s.state = "dot"
  PROVE  Moves(t, s, text, c)
<1> DEFINE b == text[c + 1]
           p == c - 1
           last == End(text)
<1>1. /\ Len(text) \in Nat /\ last \in Nat /\ last + 3 = Len(text) /\ text[last + 2] = CR
      /\ \A i \in 0 .. last : Dotted(text, i) /\ text[i + 2] # "." => i = last
      /\ \A i \in 0 .. last : Dotted(text, i) /\ text[i + 2] = "." => i + 2 <= last
  BY MessageIs
<1>2. /\ c >= 1 /\ LineStart(text, c - 1) /\ text[c] = "." /\ ~LineStart(text, c)
      /\ b = "." => At("line0", << >>, text, c + 1)
      /\ b = CR  => At("dotCR", << ".", CR >>, text, c + 1)
  BY AtDot DEF Destuffs
<1>3. p \in 0 .. last /\ p = c - Need(s.state) /\ p + 1 = c /\ p + 2 = c + 1 /\ p \in Nat
  BY <1>1, <1>2, Needs DEF Destuffs
<1>4. Dotted(text, p) /\ ~Dotted(text, p + 1)
  BY <1>2, <1>3 DEF Dotted
<1>5. b \in Byte /\ p \in 0 .. Len(text) - 2 /\ c + 1 < Len(text) /\ p \in 0 .. Len(text)
  <2>1. /\ p \in 0 .. Len(text) - 2 /\ c + 1 \in 1 .. Len(text) /\ c + 1 < Len(text)
        /\ p \in 0 .. Len(text)
    BY <1>1, <1>2, <1>3
  <2> QED
    BY <2>1, ElementOfSeq
<1>6. t \in Scanner
  BY <1>5, DestuffType
<1>7. s.held = << "." >>
  BY DEF Destuffs, At
<1>8. /\ b = "." => Goes(t, s, << "." >>, << >>, "line0")
      /\ b = CR  => Goes(t, s, << >>, << ".", CR >>, "dotCR")
  <2>1. b = CR => Append(s.held, b) = << ".", CR >>
    BY <1>7, Bytes, HeldNext
  <2>2. /\ b = "." => Goes(t, s, << "." >>, << >>, "line0")
        /\ b = CR  => Goes(t, s, << >>, Append(s.held, b), "dotCR")
    BY <1>5, DestuffIs
  <2> QED
    BY <2>1, <2>2
<1>9. "line0" \in State /\ "dotCR" \in State /\ << "." >> \in Seq(Byte) /\ << >> \in Seq(Byte)
  BY Bytes DEF State
<1>10. CASE b = "."
  <2>1. c + 1 \in 0 .. End(text) /\ c + 1 = (c + 1) - Need("line0")
    BY <1>1, <1>3, <1>4, <1>10, Needs, FlatStates
  <2>2. Plain(text)[c + 1] = Plain(text)[c - Need(s.state)] \o << "." >>
    <3>1. Plain(text)[p + 2] = Plain(text)[p] \o << text[p + 2] >>
      BY <1>4, <1>5, PlainTwo
    <3> QED
      BY <1>3, <1>10, <3>1
  <2>3. Goes(t, s, << "." >>, << >>, "line0") /\ At("line0", << >>, text, c + 1)
    BY <1>2, <1>8, <1>10
  <2> HIDE DEF b, p, last
  <2> QED
    BY <1>5, <1>6, <1>9, <2>1, <2>2, <2>3, Moved
<1>11. CASE b # "."
  <2>1. p = last /\ b = CR
    BY <1>1, <1>3, <1>4, <1>11
  <2>2. p \in 0 .. End(text) /\ p = (c + 1) - Need("dotCR")
    BY <1>3, Needs
  <2>3. Plain(text)[p] = Plain(text)[c - Need(s.state)] \o << >>
    <3>1. Plain(text)[p] = Plain(text)[p] \o << >>
      BY <1>5, PlainStays
    <3> QED
      BY <1>3, <3>1
  <2>4. Goes(t, s, << >>, << ".", CR >>, "dotCR") /\ At("dotCR", << ".", CR >>, text, c + 1)
    BY <1>2, <1>8, <2>1
  <2> HIDE DEF b, p, last
  <2> QED
    BY <1>5, <1>6, <1>9, <2>2, <2>3, <2>4, Moved
<1> QED
  BY <1>10, <1>11

LEMMA DestuffDotCR ==
  ASSUME NEW text \in Seq(Byte), Message(text), NEW s \in Scanner, ~s.done, NEW c \in Nat,
         Destuffs(s, text, c), NEW t, t = destuffByte(s, text[c + 1]), s.state = "dotCR"
  PROVE  Concludes(t, s, text, c)
<1> DEFINE b == text[c + 1]
           p == c - 2
           last == End(text)
<1>1. /\ Len(text) \in Nat /\ last \in Nat /\ last + 3 = Len(text) /\ text[last + 3] = LF
      /\ \A i \in 0 .. last : Dotted(text, i) /\ text[i + 2] # "." => i = last
  BY MessageIs
<1>2. c >= 2 /\ LineStart(text, c - 2) /\ text[c - 1] = "." /\ text[c] = CR
  BY AtDotCR DEF Destuffs
<1>3. p \in 0 .. last /\ p = c - Need(s.state) /\ p + 1 = c - 1 /\ p + 2 = c /\ p + 3 = c + 1
  BY <1>1, <1>2, Needs DEF Destuffs
<1>4. p = last
  BY <1>1, <1>2, <1>3, Bytes DEF Dotted
<1>5. b = LF /\ c + 1 = Len(text)
  BY <1>1, <1>3, <1>4
<1>6. t = [s EXCEPT !.held = Append(s.held, b), !.state = "begin", !.done = TRUE]
  BY <1>5, Bytes, DestuffIs
<1>7. t \in Scanner
  BY <1>5, Bytes, DestuffType
<1>8. t.done /\ t.rest = s.rest /\ t.out = s.out
  BY <1>6 DEF Scanner
<1> QED
  BY <1>3, <1>4, <1>5, <1>7, <1>8 DEF Concludes

LEMMA DestuffInLine ==
  ASSUME NEW text \in Seq(Byte), Message(text), NEW s \in Scanner, ~s.done, NEW c \in Nat,
         Destuffs(s, text, c), NEW t, t = destuffByte(s, text[c + 1]),
         s.state \in {"line0", "line", "lineCR"}
  PROVE  Moves(t, s, text, c)
<1> DEFINE b == text[c + 1]
           last == End(text)
<1>1. Len(text) \in Nat /\ last \in Nat /\ last + 3 = Len(text) /\ LineStart(text, last)
  BY MessageIs
<1>2. ~LineStart(text, c) /\ At(InLineState(s.state, b), << >>, text, c + 1)
  BY AtInLine DEF Destuffs
<1>3. Need(s.state) = 0
  BY DEF Need
<1>4. c + 1 \in 0 .. last /\ c = c - Need(s.state)
  <2>1. c \in 0 .. last /\ c # last
    BY <1>1, <1>2, <1>3 DEF Destuffs
  <2> QED
    BY <1>1, <1>3, <2>1
<1>5. b \in Byte /\ c \in 0 .. Len(text) - 1 /\ c + 1 < Len(text)
  <2>1. c \in 0 .. Len(text) - 1 /\ c + 1 \in 1 .. Len(text) /\ c + 1 < Len(text)
    BY <1>1, <1>4
  <2> QED
    BY <2>1, ElementOfSeq
<1>6. Plain(text)[c + 1] = Plain(text)[c - Need(s.state)] \o << b >>
  <2>1. ~Dotted(text, c)
    BY <1>2 DEF Dotted
  <2> QED
    BY <1>4, <1>5, <2>1, PlainNext
<1>7. t \in Scanner
  BY <1>5, DestuffType
<1>8. Goes(t, s, << b >>, << >>, InLineState(s.state, b))
  <2>1. s.state \notin AtBegin \union {"beginCR", "dot", "dotCR"}
    BY DEF AtBegin
  <2> QED
    BY <1>5, <2>1, DestuffIs
<1> DEFINE state == InLineState(s.state, b)
<1>9. state \in State /\ << b >> \in Seq(Byte) /\ c + 1 = (c + 1) - Need(state)
  BY <1>5, InLineStates, Needs DEF Flat
<1>10. c + 1 \in 0 .. End(text)
  BY <1>4
<1> HIDE DEF b, last, state
<1> QED
  BY <1>2, <1>5, <1>6, <1>7, <1>8, <1>9, <1>10, Moved DEF state

LEMMA DestuffStep ==
  ASSUME NEW text \in Seq(Byte), Message(text), NEW s \in Scanner, ~s.done, NEW c \in Nat,
         Destuffs(s, text, c), NEW t, t = destuffByte(s, text[c + 1])
  PROVE  Moves(t, s, text, c) \/ Concludes(t, s, text, c)
<1>1. s.state \in AtBegin \union {"beginCR", "line0", "line", "lineCR", "dot", "dotCR"}
  BY DEF Destuffs, At
<1> QED
  BY <1>1, DestuffLine, DestuffCR, DestuffDot, DestuffDotCR, DestuffInLine

-----------------------------------------------------------------------------
(* The plain text of a message, read byte by byte, tells the positions of  *)
(* the message it comes from.                                              *)
LEMMA ByteBehind ==
  \A a, r \in Seq(Byte), b \in Byte : (a \o (<< b >> \o r))[Len(a) + 1] = b
<1> SUFFICES ASSUME NEW a \in Seq(Byte), NEW r \in Seq(Byte), NEW b \in Byte
             PROVE  (a \o (<< b >> \o r))[Len(a) + 1] = b
  OBVIOUS
<1> DEFINE u == << b >> \o r
<1>1. << b >> \in Seq(Byte) /\ Len(<< b >>) = 1
  OBVIOUS
<1>2. u \in Seq(Byte) /\ Len(u) = 1 + Len(r) /\ u[1] = b
  BY <1>1, ConcatProperties, LenProperties
<1> HIDE DEF u
<1>3. (a \o u)[Len(a) + 1] = b
  BY <1>2, ConcatProperties, LenProperties
<1> QED
  BY <1>3 DEF u

LEMMA Longer ==
  ASSUME NEW a \in Seq(Byte), NEW b \in Byte, NEW r \in Seq(Byte), NEW q \in Seq(Byte)
  PROVE  a # (a \o (<< b >> \o r)) \o q
<1> DEFINE u == << b >> \o r
           v == a \o u
<1>1. << b >> \in Seq(Byte) /\ Len(<< b >>) = 1
  OBVIOUS
<1>2. u \in Seq(Byte) /\ Len(u) = 1 + Len(r)
  BY <1>1, ConcatProperties
<1> HIDE DEF u
<1>3. v \in Seq(Byte) /\ Len(v) = Len(a) + Len(u)
  BY <1>2, ConcatProperties
<1> HIDE DEF v
<1>4. Len(v \o q) = Len(v) + Len(q)
  BY <1>3, ConcatProperties
<1>5. Len(a) \in Nat /\ Len(r) \in Nat /\ Len(q) \in Nat
  BY LenProperties
<1>6. Len(a) # Len(v \o q)
  BY <1>2, <1>3, <1>4, <1>5
<1> QED
  BY <1>6 DEF u, v

Begins(w, b) == \E r \in Seq(Byte) : w = << b >> \o r

LEMMA PlainNextByte ==
  ASSUME NEW text \in Seq(Byte), Message(text), NEW e \in 0 .. End(text),
         NEW f \in 0 .. End(text), NEW b \in Byte, NEW w, Begins(w, b),
         Plain(text)[e] \o w = Plain(text)[f]
  PROVE  /\ Dotted(text, e) => /\ e + 2 <= End(text) /\ b = "." /\ text[e + 2] = "."
                               /\ Plain(text)[e + 2] = Plain(text)[e] \o << b >>
         /\ ~Dotted(text, e) => /\ e + 1 <= End(text) /\ b = text[e + 1]
                                /\ Plain(text)[e + 1] = Plain(text)[e] \o << b >>
<1> DEFINE pl == Plain(text)
           last == End(text)
           N == Len(text)
<1>1. /\ N \in Nat /\ last \in Nat /\ last + 3 = N
      /\ \A p \in 0 .. last : Dotted(text, p) /\ text[p + 2] # "." => p = last
      /\ \A p \in 0 .. last : Dotted(text, p) /\ text[p + 2] = "." => p + 2 <= last
  BY MessageIs
<1>0. PICK r \in Seq(Byte) : w = << b >> \o r
  BY DEF Begins
<1>8. pl[e] \o (<< b >> \o r) = pl[f]
  BY <1>0
<1>2. e \in 0 .. N /\ f \in 0 .. N /\ pl[e] \in Seq(Byte) /\ pl[f] \in Seq(Byte)
  <2>1. e \in 0 .. N /\ f \in 0 .. N
    BY <1>1
  <2> QED
    BY <2>1, PlainType
<1>3. << b >> \in Seq(Byte) /\ << b >> \o r \in Seq(Byte)
  <2>1. << b >> \in Seq(Byte)
    OBVIOUS
  <2> QED
    BY <2>1, ConcatProperties
<1>4. e < f
  <2>1. ASSUME f <= e
        PROVE  FALSE
    <3>1. e \in f .. Len(text)
      BY <1>1, <1>2, <2>1
    <3>2. PICK q \in Seq(Byte) : pl[e] = pl[f] \o q
      BY <1>2, <3>1, PlainGrows
    <3>3. pl[e] = (pl[e] \o (<< b >> \o r)) \o q
      BY <1>8, <3>2, Zenon
    <3> QED
      BY <1>2, <3>3, Longer
  <2> QED
    BY <1>1, <2>1
<1>5. ASSUME NEW p \in e + 1 .. f, NEW c \in Byte, pl[p] = pl[e] \o << c >>
      PROVE  b = c
  <2>1. p \in 0 .. N /\ f \in p .. Len(text)
    BY <1>1, <1>2
  <2>2. PICK q \in Seq(Byte) : pl[f] = pl[p] \o q
    BY <2>1, PlainGrows
  <2>3. << c >> \in Seq(Byte)
    OBVIOUS
  <2>4. (pl[e] \o << c >>) \o q = pl[e] \o (<< c >> \o q)
    BY <1>2, <2>2, <2>3, AssociativeBytes, ZenonT(40)
  <2>5. pl[e] \o (<< b >> \o r) = pl[e] \o (<< c >> \o q)
    <3>1. pl[f] = pl[e] \o (<< c >> \o q)
      BY <1>5, <2>2, <2>4, Zenon
    <3> QED
      BY <1>8, <3>1, Zenon
  <2> HIDE DEF pl
  <2>6. (pl[e] \o (<< b >> \o r))[Len(pl[e]) + 1] = b
    BY <1>2, ByteBehind, Zenon
  <2>7. (pl[e] \o (<< c >> \o q))[Len(pl[e]) + 1] = c
    BY <1>2, ByteBehind, Zenon
  <2> QED
    BY <2>5, <2>6, <2>7, Zenon
<1>6. CASE ~Dotted(text, e)
  <2>1. e \in 0 .. Len(text) - 1 /\ e + 1 \in e + 1 .. f /\ e + 1 <= last
    BY <1>1, <1>2, <1>4
  <2>2. text[e + 1] \in Byte /\ pl[e + 1] = pl[e] \o << text[e + 1] >>
    BY <1>6, <2>1, PlainNext
  <2>3. b = text[e + 1]
    BY <1>5, <2>1, <2>2
  <2> QED
    BY <1>6, <2>1, <2>2, <2>3
<1>7. CASE Dotted(text, e)
  <2>1. text[e + 2] = "." /\ e + 2 <= last /\ text[e + 1] = "."
    BY <1>1, <1>4, <1>7 DEF Dotted
  <2>2. e \in 0 .. Len(text) - 2 /\ e \in 0 .. Len(text) - 1
    BY <1>1, <1>2, <2>1
  <2>3. ~Dotted(text, e + 1)
    BY <2>1, <2>2, Bytes DEF Dotted, LineStart
  <2>4. pl[e + 2] = pl[e] \o << text[e + 2] >> /\ pl[e + 1] = pl[e]
    BY <1>7, <2>2, <2>3, PlainTwo, PlainNext
  <2>5. f # e + 1
    <3>1. ASSUME f = e + 1
          PROVE  FALSE
      <4>1. pl[e] = pl[e] \o (<< b >> \o r)
        BY <1>8, <2>4, <3>1
      <4>2. (pl[e] \o (<< b >> \o r)) \o << >> = pl[e] \o (<< b >> \o r) /\ << >> \in Seq(Byte)
        <5>1. pl[e] \o (<< b >> \o r) \in Seq(Byte)
          BY <1>2
        <5> QED
          BY <5>1, ConcatEmptySeq, EmptySeq
      <4>3. pl[e] = (pl[e] \o (<< b >> \o r)) \o << >>
        BY <4>1, <4>2, Zenon
      <4> QED
        BY <1>2, <4>2, <4>3, Longer, Zenon
    <3> QED
      BY <3>1
  <2>6. e + 2 \in e + 1 .. f /\ text[e + 2] \in Byte
    BY <1>2, <1>4, <2>1, <2>5, Bytes
  <2>7. b = text[e + 2]
    BY <1>5, <2>4, <2>6
  <2> QED
    BY <1>7, <2>1, <2>4, <2>7
<1> QED
  BY <1>6, <1>7

-----------------------------------------------------------------------------
(* stuffMail at a position of a message: what it has written is the        *)
(* message up to that position, but what it holds.                         *)
LEMMA UptoTwo ==
  ASSUME NEW text \in Seq(Byte), NEW p \in 0 .. Len(text) - 2
  PROVE  /\ Upto(text, p + 1) = Upto(text, p) \o << text[p + 1] >>
         /\ Upto(text, p + 2) = Upto(text, p) \o << text[p + 1], text[p + 2] >>
         /\ text[p + 1] \in Byte /\ text[p + 2] \in Byte
<1> DEFINE c == text[p + 1]
           d == text[p + 2]
           u == Upto(text, p)
<1>1. /\ Len(text) \in Nat /\ 1 \in Nat \ {0} /\ p \in 1 - 1 .. Len(text) - 1
      /\ p + 1 \in 1 - 1 .. Len(text) - 1 /\ (p + 1) + 1 = p + 2 /\ p \in 0 .. Len(text)
  BY LenProperties
<1>2. c \in Byte /\ Upto(text, p + 1) = u \o << c >> /\ u \in Seq(Byte)
  BY <1>1, UptoNext DEF Upto
<1>3. d \in Byte /\ Upto(text, p + 2) = Upto(text, p + 1) \o << d >>
  <2>1. text[(p + 1) + 1] \in Byte
        /\ Upto(text, (p + 1) + 1) = Upto(text, p + 1) \o << text[(p + 1) + 1] >>
    BY <1>1, UptoNext DEF Upto
  <2> QED
    BY <1>1, <2>1
<1> HIDE DEF c, d, u
<1>4. << c >> \in Seq(Byte) /\ << d >> \in Seq(Byte)
  BY <1>2, <1>3
<1>5. (u \o << c >>) \o << d >> = u \o (<< c >> \o << d >>)
  BY <1>2, <1>4, AssociativeBytes, Zenon
<1>6. << c >> \o << d >> = << c, d >>
  BY OneByOne, Zenon
<1>7. Upto(text, p + 2) = u \o << c, d >>
  BY <1>2, <1>3, <1>5, <1>6, Zenon
<1> QED
  BY <1>2, <1>3, <1>7 DEF c, d, u

Stuffs(s, text, e) ==
  /\ At(s.state, s.held, text, e) /\ e \in 0 .. End(text) /\ s.state \notin {"dot", "dotCR"}

Follows(t, s, text, d, e) ==
  /\ t \in Scanner /\ t.done = s.done /\ Stuffs(t, text, d)
  /\ \E out \in Seq(Byte) :
       /\ t.out = s.out \o out
       /\ Upto(text, d - Need(t.state)) = Upto(text, e - Need(s.state)) \o out

LEMMA Followed ==
  ASSUME NEW text, NEW s \in Scanner, NEW t \in Scanner, NEW e, NEW d \in 0 .. End(text),
         NEW out \in Seq(Byte), NEW held, NEW state \in State \ {"dot", "dotCR"},
         Goes(t, s, out, held, state), At(state, held, text, d), NEW q, q = d - Need(state),
         Upto(text, q) = Upto(text, e - Need(s.state)) \o out
  PROVE  Follows(t, s, text, d, e)
<1>1. out \in Seq(Output)
  BY ByteIsOutput
<1>2. /\ t.out = s.out \o out /\ t.held = held /\ t.state = state
      /\ t.done = s.done /\ t.rest = s.rest
  BY <1>1, Went
<1>3. Stuffs(t, text, d)
  BY <1>2 DEF Stuffs
<1>4. Upto(text, d - Need(t.state)) = Upto(text, e - Need(s.state)) \o out
  BY <1>2
<1> QED
  BY <1>2, <1>3, <1>4 DEF Follows

(* The byte b is the next of the plain text behind e, and ends at d.       *)
NextPlain(text, e, b, d) ==
  /\ d \in 0 .. End(text)
  /\ IF Dotted(text, e) THEN d = e + 2 /\ b = "." /\ text[d] = "."
                        ELSE d = e + 1 /\ b = text[d]

LEMMA StuffLine ==
  ASSUME NEW text \in Seq(Byte), Message(text), NEW s \in Scanner, NEW e, Stuffs(s, text, e),
         NEW b \in Byte, NEW d, NextPlain(text, e, b, d), NEW t, t = stuffByte(s, b),
         s.state \in AtBegin
  PROVE  Follows(t, s, text, d, e)
<1>1. Len(text) \in Nat /\ End(text) \in Nat /\ End(text) + 3 = Len(text)
  BY MessageIs
<1>2. e \in 0 .. Len(text) - 2 /\ d \in 0 .. End(text) /\ e \in Nat
  BY <1>1 DEF Stuffs, NextPlain
<1>3. /\ LineStart(text, e) /\ s.held = << >> /\ e = e - Need(s.state)
      /\ text[e + 1] = CR => At("beginCR", << CR >>, text, e + 1)
      /\ text[e + 1] \notin {CR, "."} => At("line0", << >>, text, e + 1)
      /\ text[e + 1] = "." /\ text[e + 2] = "." => At("line0", << >>, text, e + 2)
  <2>1. At(s.state, s.held, text, e)
    BY DEF Stuffs
  <2>2. Need(s.state) = 0
    BY DEF AtBegin, Need
  <2>3. s.held = << >>
    BY <2>1 DEF At
  <2> QED
    BY <1>2, <2>1, <2>2, <2>3, AtLine
<1>4. t \in Scanner
  BY StuffType
<1>5. /\ b = CR  => Goes(t, s, << >>, << b >>, "beginCR")
      /\ b = "." => Goes(t, s, << ".", "." >>, << >>, "line0")
      /\ b \notin {CR, "."} => Goes(t, s, << b >>, << >>, "line0")
  <2>1. Append(s.held, b) = << b >>
    BY <1>3, HeldNext
  <2>2. /\ b = CR  => Goes(t, s, << >>, Append(s.held, b), "beginCR")
        /\ b = "." => Goes(t, s, << ".", "." >>, << >>, "line0")
        /\ b \notin {CR, "."} => Goes(t, s, << b >>, << >>, "line0")
    BY StuffIs
  <2> QED
    BY <2>1, <2>2
<1>6. /\ "beginCR" \in State \ {"dot", "dotCR"} /\ "line0" \in State \ {"dot", "dotCR"}
      /\ Need("beginCR") = 1 /\ Need("line0") = 0 /\ << >> \in Seq(Byte)
      /\ << b >> \in Seq(Byte) /\ << ".", "." >> \in Seq(Byte)
  BY Needs, FlatStates, Bytes DEF State
<1>7. CASE b = "."
  <2>1. Dotted(text, e)
    BY <1>3, <1>7 DEF NextPlain, Dotted
  <2>2. d = e + 2 /\ text[e + 1] = "." /\ text[e + 2] = "."
    BY <2>1 DEF NextPlain, Dotted
  <2>3. At("line0", << >>, text, d)
    BY <1>3, <2>2
  <2>4. Upto(text, d) = Upto(text, e - Need(s.state)) \o << ".", "." >>
    <3>1. Upto(text, e + 2) = Upto(text, e) \o << text[e + 1], text[e + 2] >>
      BY <1>2, UptoTwo
    <3> QED
      BY <1>3, <2>2, <3>1
  <2>5. Goes(t, s, << ".", "." >>, << >>, "line0") /\ d = d - Need("line0")
    BY <1>2, <1>5, <1>6, <1>7
  <2> QED
    BY <1>2, <1>4, <1>6, <2>3, <2>4, <2>5, Followed
<1>8. CASE b # "."
  <2>1. d = e + 1 /\ b = text[e + 1] /\ Upto(text, e + 1) = Upto(text, e) \o << b >>
    <3>1. d = e + 1 /\ b = text[e + 1]
      BY <1>8 DEF NextPlain
    <3> QED
      BY <1>2, <3>1, UptoTwo
  <2>2. CASE b = CR
    <3>1. Goes(t, s, << >>, << b >>, "beginCR") /\ At("beginCR", << b >>, text, d)
      BY <1>3, <1>5, <2>1, <2>2
    <3>2. e = d - Need("beginCR")
      BY <1>2, <1>6, <2>1
    <3>3. Upto(text, e) = Upto(text, e - Need(s.state)) \o << >>
      <4>1. Upto(text, e) \in Seq(Byte)
        <5>1. e \in 0 .. Len(text)
          BY <1>1, <1>2
        <5> QED
          BY <5>1, UptoIs
      <4>2. Upto(text, e) = Upto(text, e) \o << >>
        BY <4>1, ConcatEmptySeq
      <4> QED
        BY <1>3, <4>2
    <3> QED
      BY <1>2, <1>4, <1>6, <3>1, <3>2, <3>3, Followed
  <2>3. CASE b # CR
    <3>1. Goes(t, s, << b >>, << >>, "line0") /\ At("line0", << >>, text, d)
      BY <1>3, <1>5, <1>8, <2>1, <2>3
    <3>2. d = d - Need("line0") /\ Upto(text, d) = Upto(text, e - Need(s.state)) \o << b >>
      BY <1>2, <1>3, <1>6, <2>1
    <3> QED
      BY <1>2, <1>4, <1>6, <3>1, <3>2, Followed
  <2> QED
    BY <2>2, <2>3
<1> QED
  BY <1>7, <1>8

LEMMA StuffCR ==
  ASSUME NEW text \in Seq(Byte), Message(text), NEW s \in Scanner, NEW e, Stuffs(s, text, e),
         NEW b \in Byte, NEW d, NextPlain(text, e, b, d), NEW t, t = stuffByte(s, b),
         s.state = "beginCR"
  PROVE  Follows(t, s, text, d, e)
<1>1. Len(text) \in Nat /\ End(text) \in Nat /\ End(text) + 3 = Len(text)
  BY MessageIs
<1>2. d \in 0 .. End(text) /\ e \in Nat /\ e <= End(text)
  BY <1>1 DEF Stuffs, NextPlain
<1>3. At("beginCR", s.held, text, e)
  BY DEF Stuffs
<1>4. /\ e >= 1 /\ text[e] = CR /\ ~LineStart(text, e)
      /\ text[e + 1] = LF => At("begin", << >>, text, e + 1)
      /\ text[e + 1] # LF => At(InLineState("line0", text[e + 1]), << >>, text, e + 1)
  BY <1>2, <1>3, AtCR
<1>5. d = e + 1 /\ b = text[e + 1]
  BY <1>4 DEF NextPlain, Dotted
<1>6. /\ b = LF => Goes(t, s, << CR, LF >>, << >>, "begin")
      /\ b # LF => Goes(t, s, << CR, b >>, << >>, InLineState("line0", b))
  BY StuffIs
<1>7. PICK state \in Flat : Goes(t, s, << CR, b >>, << >>, state) /\ At(state, << >>, text, d)
  BY <1>4, <1>5, <1>6, FlatStates, InLineStates
<1>8. /\ << CR, b >> \in Seq(Byte) /\ state \in State \ {"dot", "dotCR"} /\ d = d - Need(state)
  BY <1>2, <1>7, Tokens, Needs DEF Flat
<1>9. Upto(text, d) = Upto(text, e - Need(s.state)) \o << CR, b >>
  <2>1. e - 1 \in 0 .. Len(text) - 2 /\ (e - 1) + 1 = e /\ (e - 1) + 2 = d
        /\ e - Need(s.state) = e - 1
    BY <1>1, <1>2, <1>4, <1>5, Needs
  <2>2. Upto(text, (e - 1) + 2) = Upto(text, e - 1) \o << text[(e - 1) + 1], text[(e - 1) + 2] >>
    BY <2>1, UptoTwo
  <2> QED
    BY <1>4, <1>5, <2>1, <2>2
<1>10. t \in Scanner
  BY StuffType
<1> QED
  BY <1>2, <1>7, <1>8, <1>9, <1>10, Followed

LEMMA StuffInLine ==
  ASSUME NEW text \in Seq(Byte), Message(text), NEW s \in Scanner, NEW e, Stuffs(s, text, e),
         NEW b \in Byte, NEW d, NextPlain(text, e, b, d), NEW t, t = stuffByte(s, b),
         s.state \in {"line0", "line", "lineCR"}
  PROVE  Follows(t, s, text, d, e)
<1>1. Len(text) \in Nat /\ End(text) \in Nat /\ End(text) + 3 = Len(text)
  BY MessageIs
<1>2. d \in 0 .. End(text) /\ e \in Nat /\ e <= End(text)
  BY <1>1 DEF Stuffs, NextPlain
<1>3. ~LineStart(text, e) /\ At(InLineState(s.state, text[e + 1]), << >>, text, e + 1)
  BY <1>2, AtInLine DEF Stuffs
<1>4. d = e + 1 /\ b = text[e + 1]
  BY <1>3 DEF NextPlain, Dotted
<1>5. Goes(t, s, << b >>, << >>, InLineState(s.state, b))
  <2>1. s.state \notin AtBegin \union {"beginCR"}
    BY DEF AtBegin
  <2> QED
    BY <2>1, StuffIs
<1>6. PICK state \in Flat : Goes(t, s, << b >>, << >>, state) /\ At(state, << >>, text, d)
  BY <1>3, <1>4, <1>5, InLineStates
<1>7. /\ << b >> \in Seq(Byte) /\ state \in State \ {"dot", "dotCR"} /\ d = d - Need(state)
  BY <1>2, <1>6, Tokens, Needs DEF Flat
<1>8. Upto(text, d) = Upto(text, e - Need(s.state)) \o << b >>
  <2>1. e \in 0 .. Len(text) - 2 /\ e - Need(s.state) = e
    BY <1>1, <1>2 DEF Need
  <2>2. Upto(text, e + 1) = Upto(text, e) \o << text[e + 1] >>
    BY <2>1, UptoTwo
  <2> QED
    BY <1>4, <2>1, <2>2
<1>9. t \in Scanner
  BY StuffType
<1> QED
  BY <1>2, <1>6, <1>7, <1>8, <1>9, Followed

LEMMA StuffStep ==
  ASSUME NEW text \in Seq(Byte), Message(text), NEW s \in Scanner, NEW e, Stuffs(s, text, e),
         NEW b \in Byte, NEW d, NextPlain(text, e, b, d), NEW t, t = stuffByte(s, b)
  PROVE  Follows(t, s, text, d, e)
<1>1. s.state \in AtBegin \union {"beginCR", "line0", "line", "lineCR"}
  BY DEF Stuffs, At
<1> QED
  BY <1>1, StuffLine, StuffCR, StuffInLine

-----------------------------------------------------------------------------
(* Calls: what follows the message or the reply stays behind.              *)
Behind(s, i, c) ==
  IF s.done THEN c >= Len(i.bytes) /\ s.rest = SubSeq(Stream(i), Len(i.bytes) + 1, c)
            ELSE c < Len(i.bytes) /\ s.rest = << >>

LEMMA StaysBehind ==
  ASSUME NEW i \in Saying, NEW s \in Scanner, NEW c \in 0 .. Len(Stream(i)) - 1, s.done,
         Behind(s, i, c), NEW t, t = [s EXCEPT !.rest = Append(@, Stream(i)[c + 1])]
  PROVE  /\ Behind(t, i, c + 1) /\ t \in Scanner /\ t.done /\ t.out = s.out /\ t.held = s.held
         /\ t.state = s.state
<1> DEFINE T == Stream(i)
           m == Len(i.bytes) + 1
<1>1. T \in Seq(Byte) /\ Len(i.bytes) \in Nat /\ Len(T) \in Nat
  BY StreamIs
<1>2. c >= Len(i.bytes) /\ s.rest = SubSeq(T, m, c)
  BY DEF Behind
<1>3. m \in Nat \ {0} /\ c \in m - 1 .. Len(T) - 1 /\ c \in Nat
  BY <1>1, <1>2
<1> HIDE DEF T, m
<1>4. T[c + 1] \in Byte /\ SubSeq(T, m, c + 1) = Append(SubSeq(T, m, c), T[c + 1])
  BY <1>1, <1>3, UptoNext
<1>5. t = [s EXCEPT !.rest = Append(s.rest, T[c + 1])]
  BY DEF T
<1>6. t \in Scanner
  BY <1>4, <1>5, BehindType
<1>7. /\ t.rest = Append(s.rest, T[c + 1]) /\ t.done /\ t.out = s.out /\ t.held = s.held
      /\ t.state = s.state
  BY <1>5 DEF Scanner
<1>8. t.rest = SubSeq(T, m, c + 1) /\ c + 1 >= Len(i.bytes)
  <2>1. c + 1 >= Len(i.bytes)
    BY <1>1, <1>2, <1>3
  <2> QED
    BY <1>2, <1>4, <1>7, <2>1
<1>9. Behind(t, i, c + 1)
  BY <1>7, <1>8 DEF Behind, T, m
<1> QED
  BY <1>6, <1>7, <1>9

LEMMA NoneBehind ==
  ASSUME NEW i \in Saying, NEW t \in Scanner, t.done, t.rest = << >>
  PROVE  Behind(t, i, Len(i.bytes))
<1>1. Len(i.bytes) \in Nat
  BY StreamIs
<1>2. SubSeq(Stream(i), Len(i.bytes) + 1, Len(i.bytes)) = << >>
  BY <1>1, SubSeqEmpty
<1>3. Len(i.bytes) >= Len(i.bytes)
  BY <1>1
<1> QED
  BY <1>2, <1>3, Zenon DEF Behind

(* The bytes of a read are the next of the stream.                         *)
Comes(i, c, bytes) ==
  /\ bytes \in Seq(Byte) /\ c + Len(bytes) <= Len(Stream(i))
  /\ \A n \in 1 .. Len(bytes) : bytes[n] = Stream(i)[c + n]

Destuffed(s, i, c, flow) ==
  /\ Behind(s, i, c)
  /\ IF s.done THEN flow = Plain(i.bytes)[End(i.bytes)]
               ELSE Destuffs(s, i.bytes, c) /\ flow = Plain(i.bytes)[c - Need(s.state)]

LEMMA KeptAt ==
  ASSUME NEW s \in Scanner, NEW text, NEW p, At(s.state, s.held, text, p)
  PROVE  Kept(s)
<1>1. CASE s.state \in {"beginCR", "dot"}
  <2>1. \E c : s.held = << c >>
    BY <1>1 DEF At
  <2>2. Holds(s) = 1
    BY <2>1, TokenLengths DEF Holds
  <2>3. Need(s.state) = 1
    BY <1>1, Needs
  <2> QED
    BY <2>2, <2>3 DEF Kept
<1>2. CASE s.state = "dotCR"
  <2>1. s.held = << ".", CR >>
    BY <1>2 DEF At
  <2>2. Holds(s) = 2
    BY <2>1, TokenLengths DEF Holds
  <2>3. Need(s.state) = 2
    BY <1>2, Needs
  <2> QED
    BY <2>2, <2>3 DEF Kept
<1>3. CASE s.state \notin {"beginCR", "dot", "dotCR"}
  <2>1. Need(s.state) = 0
    BY <1>3 DEF Need
  <2>2. Holds(s) \in Nat
    BY LenProperties DEF Scanner, Holds
  <2> QED
    BY <2>1, <2>2 DEF Kept
<1> QED
  BY <1>1, <1>2, <1>3

LEMMA DestuffByte ==
  ASSUME NEW i \in Saying, Message(i.bytes), NEW flow \in Seq(Byte),
         NEW s \in Scanner, s.out \in Seq(Byte), NEW c \in 0 .. Len(Stream(i)) - 1,
         Destuffed(s, i, c, flow \o s.out), NEW t, t = destuffMail[Stream(i)[c + 1]][s]
  PROVE  /\ Destuffed(t, i, c + 1, flow \o t.out) /\ t.out \in Seq(Byte)
         /\ Writes(t) + Holds(t) <= Writes(s) + Holds(s) + 1
<1> DEFINE b == Stream(i)[c + 1]
           text == i.bytes
<1>1. /\ text \in Seq(Byte) /\ Stream(i) \in Seq(Byte)
      /\ Len(text) \in Nat /\ Len(Stream(i)) \in Nat /\ Len(text) <= Len(Stream(i))
      /\ \A p \in 1 .. Len(text) : Stream(i)[p] = text[p]
  BY StreamIs
<1>2. b \in Byte /\ c \in Nat
  <2>1. c + 1 \in 1 .. Len(Stream(i)) /\ c \in Nat
    BY <1>1
  <2> QED
    BY <1>1, <2>1, ElementOfSeq
<1>3. Writes(s) \in Nat /\ Holds(s) \in Nat
  BY LenProperties DEF Scanner, Writes, Holds
<1>4. CASE s.done
  <2>1. t = [s EXCEPT !.rest = Append(@, Stream(i)[c + 1])]
    BY <1>2, <1>4, RulesAre
  <2>2. Behind(s, i, c)
    BY DEF Destuffed
  <2>3. Behind(t, i, c + 1) /\ t \in Scanner /\ t.done /\ t.out = s.out /\ t.held = s.held
    <3>1. ASSUME NEW u, u = [s EXCEPT !.rest = Append(@, Stream(i)[c + 1])]
          PROVE  Behind(u, i, c + 1) /\ u \in Scanner /\ u.done /\ u.out = s.out
                 /\ u.held = s.held
      BY <1>4, <2>2, <3>1, StaysBehind
    <3> QED
      BY <2>1, <3>1, Zenon
  <2>4. Destuffed(t, i, c + 1, flow \o t.out)
    BY <1>4, <2>3 DEF Destuffed
  <2>5. Writes(t) = Writes(s) /\ Holds(t) = Holds(s)
    BY <2>3 DEF Writes, Holds
  <2> QED
    BY <1>3, <2>3, <2>4, <2>5
<1>5. CASE ~s.done
  <2>1. t = destuffByte(s, b)
    BY <1>2, <1>5, RulesAre
  <2>2. /\ Behind(s, i, c) /\ Destuffs(s, text, c)
        /\ flow \o s.out = Plain(text)[c - Need(s.state)]
    BY <1>5 DEF Destuffed
  <2>3. c < Len(text) /\ s.rest = << >> /\ b = text[c + 1]
    <3>1. c < Len(text) /\ s.rest = << >>
      BY <1>5, <2>2 DEF Behind
    <3>2. c + 1 \in 1 .. Len(text)
      BY <1>1, <1>2, <3>1
    <3> QED
      BY <1>1, <3>1, <3>2
  <2>4. t = destuffByte(s, text[c + 1])
    BY <2>1, <2>3
  <2>5. Brief(t, s)
    <3>1. Kept(s)
      BY <2>2, KeptAt DEF Destuffs
    <3> QED
      BY <1>2, <2>1, <3>1, DestuffLength
  <2>6. Moves(t, s, text, c) \/ Concludes(t, s, text, c)
    BY <1>1, <1>2, <1>5, <2>2, <2>4, DestuffStep
  <2> HIDE DEF b, text
  <2>7. CASE Moves(t, s, text, c)
    <3>1. PICK out \in Seq(Byte) :
            /\ t.out = s.out \o out
            /\ Plain(text)[(c + 1) - Need(t.state)] = Plain(text)[c - Need(s.state)] \o out
      BY <2>7 DEF Moves
    <3>2. flow \o t.out = Plain(text)[(c + 1) - Need(t.state)]
      <4>1. (flow \o s.out) \o out = flow \o (s.out \o out)
        BY <3>1, AssociativeBytes, Zenon
      <4> QED
        BY <2>2, <3>1, <4>1, Zenon
    <3>3. ~t.done /\ t.rest = << >> /\ Destuffs(t, text, c + 1)
      BY <2>3, <2>7 DEF Moves
    <3>4. Behind(t, i, c + 1)
      BY <3>3, SMTT(30) DEF Behind, Destuffs, text
    <3>5. Destuffed(t, i, c + 1, flow \o t.out)
      BY <3>2, <3>3, <3>4 DEF Destuffed, text
    <3> QED
      BY <2>5, <3>5 DEF Brief
  <2>8. CASE Concludes(t, s, text, c)
    <3>1. /\ t \in Scanner /\ t.done /\ t.rest = << >> /\ t.out = s.out
          /\ c + 1 = Len(text) /\ c - Need(s.state) = End(text)
      BY <2>3, <2>8 DEF Concludes
    <3>2. Behind(t, i, c + 1)
      BY <3>1, NoneBehind DEF text
    <3>3. Destuffed(t, i, c + 1, flow \o t.out)
      BY <2>2, <3>1, <3>2 DEF Destuffed, text
    <3> QED
      BY <2>5, <3>3 DEF Brief
  <2> QED
    BY <2>6, <2>7, <2>8
<1> QED
  BY <1>4, <1>5

LEMMA DestuffCall ==
  ASSUME NEW i \in Saying, Message(i.bytes), NEW flow \in Seq(Byte),
         NEW s \in Scanner, s.out = << >>, NEW c \in Nat, Destuffed(s, i, c, flow),
         NEW bytes, Comes(i, c, bytes), NEW t, t = Scan(destuffMail, s, bytes)
  PROVE  /\ t \in Scanner /\ t.out \in Seq(Byte)
         /\ Destuffed(t, i, c + Len(bytes), flow \o t.out)
         /\ Writes(t) <= Holds(s) + Len(bytes)
<1> DEFINE Good(n, u) == /\ Destuffed(u, i, c + n, flow \o u.out) /\ u.out \in Seq(Byte)
                         /\ Writes(u) + Holds(u) <= Holds(s) + n
           G == {r \in Nat \X Scanner : Good(r[1], r[2])}
<1>1. /\ Len(Stream(i)) \in Nat /\ bytes \in Seq(Byte) /\ Len(bytes) \in Nat
      /\ c + Len(bytes) <= Len(Stream(i))
      /\ \A n \in 1 .. Len(bytes) : bytes[n] = Stream(i)[c + n]
  BY StreamIs, LenProperties DEF Comes
<1>2. Holds(s) \in Nat /\ Writes(s) = 0
  BY LenProperties, TokenLengths DEF Scanner, Holds, Writes
<1>3. << 0, s >> \in G
  <2>1. flow \o s.out = flow /\ s.out \in Seq(Byte) /\ c + 0 = c
    BY ConcatEmptySeq, EmptySeq
  <2>2. Good(0, s)
    BY <1>2, <2>1
  <2> QED
    BY <2>2
<1>4. ASSUME NEW n \in 1 .. Len(bytes), NEW u \in Scanner, << n - 1, u >> \in G
      PROVE  << n, destuffMail[bytes[n]][u] >> \in G
  <2> DEFINE v == destuffMail[bytes[n]][u]
  <2>1. Good(n - 1, u)
    BY <1>4
  <2>2. /\ c + (n - 1) \in 0 .. Len(Stream(i)) - 1 /\ (c + (n - 1)) + 1 = c + n
        /\ n \in Nat /\ n - 1 \in Nat
    BY <1>1
  <2>3. v = destuffMail[Stream(i)[(c + (n - 1)) + 1]][u]
    BY <1>1, <2>2
  <2>4. v \in Scanner
    <3>1. bytes[n] \in Byte
      BY <1>1, ElementOfSeq
    <3> QED
      BY <3>1, RulesType DEF Rules
  <2>5. Writes(u) \in Nat /\ Holds(u) \in Nat /\ Writes(v) \in Nat /\ Holds(v) \in Nat
    <3> HIDE DEF v
    <3> QED
      BY <2>4, LenProperties DEF Scanner, Writes, Holds
  <2> HIDE DEF v
  <2>6. /\ Destuffed(v, i, (c + (n - 1)) + 1, flow \o v.out) /\ v.out \in Seq(Byte)
        /\ Writes(v) + Holds(v) <= Writes(u) + Holds(u) + 1
    BY <2>1, <2>2, <2>3, DestuffByte
  <2>7. Writes(v) + Holds(v) <= Holds(s) + n
    <3>1. Writes(u) + Holds(u) <= Holds(s) + (n - 1)
      BY <2>1
    <3>2. Writes(v) + Holds(v) <= Writes(u) + Holds(u) + 1
      BY <2>6
    <3> QED
      BY ONLY <1>2, <2>2, <2>5, <3>1, <3>2
  <2>8. Good(n, v)
    BY <2>2, <2>6, <2>7
  <2> QED
    BY <2>2, <2>4, <2>8 DEF v
<1> HIDE DEF G
<1>5. t \in Scanner /\ << Len(bytes), t >> \in G
  <2>1. \A n \in 1 .. Len(bytes), u \in Scanner :
          << n - 1, u >> \in G => << n, destuffMail[bytes[n]][u] >> \in G
    BY <1>4
  <2> QED
    BY <1>1, <1>3, <2>1, RulesType, Scanned
<1>6. Good(Len(bytes), t)
  BY <1>5 DEF G
<1>7. Writes(t) \in Nat /\ Holds(t) \in Nat
  BY <1>5, LenProperties DEF Scanner, Writes, Holds
<1>8. Writes(t) <= Holds(s) + Len(bytes)
  BY <1>1, <1>2, <1>6, <1>7
<1> QED
  BY <1>5, <1>6, <1>8

(* stuffMail with the rest of the plain text, up to f, in front of it.     *)
Stuffed(s, text, f, rest, out) ==
  /\ ~s.done
  /\ \E e \in 0 .. End(text) :
       /\ Stuffs(s, text, e) /\ Plain(text)[e] \o rest = Plain(text)[f]
       /\ out = Upto(text, e - Need(s.state))

LEMMA TwiceMore ==
  \A w, h, v, g, k, m \in Nat :
    v + 2 * g <= 2 * m + 2 * (k - 1) /\ w + 2 * h <= v + 2 * g + 2 => w + 2 * h <= 2 * m + 2 * k
OBVIOUS

LEMMA StuffByte ==
  ASSUME NEW text \in Seq(Byte), Message(text), NEW f \in 0 .. End(text),
         NEW b \in Byte, NEW rest \in Seq(Byte), NEW to \in Seq(Output),
         NEW s \in Scanner, Stuffed(s, text, f, << b >> \o rest, to \o s.out),
         NEW t, t = stuffMail[b][s]
  PROVE  /\ t \in Scanner /\ Stuffed(t, text, f, rest, to \o t.out)
         /\ Writes(t) + 2 * Holds(t) <= Writes(s) + 2 * Holds(s) + 2
<1> DEFINE pl == Plain(text)
<1>1. PICK e \in 0 .. End(text) :
        /\ Stuffs(s, text, e) /\ pl[e] \o (<< b >> \o rest) = pl[f]
        /\ to \o s.out = Upto(text, e - Need(s.state))
  BY DEF Stuffed
<1>2. Len(text) \in Nat /\ End(text) \in Nat /\ End(text) + 3 = Len(text)
  BY MessageIs
<1>3. /\ Dotted(text, e) => /\ e + 2 <= End(text) /\ b = "." /\ text[e + 2] = "."
                            /\ pl[e + 2] = pl[e] \o << b >>
      /\ ~Dotted(text, e) => /\ e + 1 <= End(text) /\ b = text[e + 1]
                             /\ pl[e + 1] = pl[e] \o << b >>
  <2>1. Begins(<< b >> \o rest, b)
    BY DEF Begins
  <2> DEFINE w == << b >> \o rest
  <2>2. Begins(w, b) /\ pl[e] \o w = pl[f]
    BY <1>1, <2>1
  <2> HIDE DEF w
  <2> QED
    BY <2>2, PlainNextByte
<1>4. \E d \in 0 .. End(text) : NextPlain(text, e, b, d) /\ pl[d] = pl[e] \o << b >>
  <2>1. CASE Dotted(text, e)
    <3>1. e + 2 \in 0 .. End(text) /\ pl[e + 2] = pl[e] \o << b >>
      BY <1>2, <1>3, <2>1
    <3>2. NextPlain(text, e, b, e + 2)
      BY <1>3, <2>1, <3>1 DEF NextPlain
    <3> QED
      BY <3>1, <3>2
  <2>2. CASE ~Dotted(text, e)
    <3>1. e + 1 \in 0 .. End(text) /\ pl[e + 1] = pl[e] \o << b >>
      BY <1>2, <1>3, <2>2, SMTT(30)
    <3>2. NextPlain(text, e, b, e + 1)
      BY <1>3, <2>2, <3>1 DEF NextPlain
    <3> QED
      BY <3>1, <3>2
  <2> QED
    BY <2>1, <2>2
<1>5. PICK d \in 0 .. End(text) : NextPlain(text, e, b, d) /\ pl[d] = pl[e] \o << b >>
  BY <1>4
<1>6. ~s.done /\ t = stuffByte(s, b)
  BY RulesAre DEF Stuffed
<1>7. Follows(t, s, text, d, e)
  BY <1>1, <1>5, <1>6, StuffStep
<1>8. PICK out \in Seq(Byte) :
        /\ t.out = s.out \o out
        /\ Upto(text, d - Need(t.state)) = Upto(text, e - Need(s.state)) \o out
  BY <1>7 DEF Follows
<1>9. to \o t.out = Upto(text, d - Need(t.state))
  <2>1. s.out \in Seq(Output) /\ out \in Seq(Output)
    BY ByteIsOutput DEF Scanner
  <2>2. (to \o s.out) \o out = to \o (s.out \o out)
    BY <2>1, Associative, Zenon
  <2> QED
    BY <1>1, <1>8, <2>2, Zenon
<1>10. pl[d] \o rest = pl[f]
  <2>1. pl[e] \in Seq(Byte) /\ << b >> \in Seq(Byte)
    <3>1. e \in 0 .. Len(text)
      BY <1>2
    <3> QED
      BY <3>1, PlainType
  <2>2. (pl[e] \o << b >>) \o rest = pl[e] \o (<< b >> \o rest)
    BY <2>1, AssociativeBytes, ZenonT(40)
  <2> QED
    BY <1>1, <1>5, <2>2, Zenon
<1>11. t \in Scanner /\ ~t.done /\ Stuffs(t, text, d)
  BY <1>6, <1>7 DEF Follows
<1>12. Stuffed(t, text, f, rest, to \o t.out)
  BY <1>9, <1>10, <1>11 DEF Stuffed
<1>13. Doubled(t, s)
  BY <1>6, StuffLength
<1> QED
  BY <1>11, <1>12, <1>13 DEF Doubled

LEMMA StuffCall ==
  ASSUME NEW text \in Seq(Byte), Message(text), NEW f \in 0 .. End(text),
         NEW rest \in Seq(Byte), NEW to \in Seq(Output), NEW s \in Scanner, s.out = << >>,
         Stuffed(s, text, f, rest, to), NEW n \in 1 .. Len(rest),
         NEW t, t = Scan(stuffMail, s, Taken(rest, n))
  PROVE  /\ t \in Scanner /\ Stuffed(t, text, f, Left(rest, n), to \o t.out)
         /\ Writes(t) <= 2 * Holds(s) + 2 * n
<1> DEFINE bytes == Taken(rest, n)
           ahead(k) == SubSeq(rest, k + 1, Len(rest))
           Good(k, u) == /\ k <= n /\ Stuffed(u, text, f, ahead(k), to \o u.out)
                         /\ Writes(u) + 2 * Holds(u) <= 2 * Holds(s) + 2 * k
           G == {r \in Nat \X Scanner : Good(r[1], r[2])}
<1>1. Len(rest) \in Nat /\ n \in Nat /\ n \in 0 .. Len(rest)
  BY LenProperties
<1>2. /\ bytes \in Seq(Byte) /\ Len(bytes) = n
      /\ \A k \in 1 .. n : bytes[k] = rest[k]
  BY <1>1, UptoIs DEF Taken, Upto
<1>3. Holds(s) \in Nat /\ Writes(s) = 0
  BY LenProperties, TokenLengths DEF Scanner, Holds, Writes
<1>4. << 0, s >> \in G
  <2>1. to \o s.out = to
    BY ConcatEmptySeq
  <2>2. ahead(0) = rest
    BY SubSeqFull
  <2>3. Writes(s) + 2 * Holds(s) <= 2 * Holds(s) + 2 * 0 /\ 0 <= n
    BY <1>1, <1>3
  <2>4. Good(0, s)
    BY <2>1, <2>2, <2>3
  <2> QED
    BY <2>4
<1>5. ASSUME NEW k \in 1 .. Len(bytes), NEW u \in Scanner, << k - 1, u >> \in G
      PROVE  << k, stuffMail[bytes[k]][u] >> \in G
  <2> DEFINE v == stuffMail[bytes[k]][u]
             b == bytes[k]
  <2>1. Good(k - 1, u)
    BY <1>5
  <2>2. /\ k \in 1 .. Len(rest) /\ Len(rest) \in k .. Len(rest) /\ (k - 1) + 1 = k
        /\ k \in Nat /\ k <= n /\ k \in 1 .. n /\ k \in 0 .. Len(rest)
    BY <1>1, <1>2
  <2>3. b \in Byte /\ b = rest[k]
    BY <1>2, <2>2, ElementOfSeq
  <2>4. ahead(k - 1) = << b >> \o ahead(k)
    <3>1. SubSeq(rest, k, Len(rest)) = << rest[k] >> \o SubSeq(rest, k + 1, Len(rest))
      BY <2>2, SubSeqRecursiveFirst
    <3> QED
      BY <2>2, <2>3, <3>1
  <2>5. ahead(k) \in Seq(Byte)
    BY <2>2, Cut
  <2>6. Stuffed(u, text, f, << b >> \o ahead(k), to \o u.out)
    BY <2>1, <2>4
  <2> HIDE DEF v, b, ahead
  <2>7. v = stuffMail[b][u]
    BY DEF v, b
  <2>8. /\ v \in Scanner /\ Stuffed(v, text, f, ahead(k), to \o v.out)
        /\ Writes(v) + 2 * Holds(v) <= Writes(u) + 2 * Holds(u) + 2
    BY <2>3, <2>5, <2>6, <2>7, StuffByte
  <2>9. Writes(u) \in Nat /\ Holds(u) \in Nat /\ Writes(v) \in Nat /\ Holds(v) \in Nat
    BY <2>8, LenProperties DEF Scanner, Writes, Holds
  <2>10. Writes(v) + 2 * Holds(v) <= 2 * Holds(s) + 2 * k
    <3>1. Writes(u) + 2 * Holds(u) <= 2 * Holds(s) + 2 * (k - 1)
      BY <2>1
    <3>2. Writes(v) + 2 * Holds(v) <= Writes(u) + 2 * Holds(u) + 2
      BY <2>8
    <3> QED
      BY ONLY <1>3, <2>2, <2>9, <3>1, <3>2, TwiceMore
  <2>11. Good(k, v)
    BY <2>2, <2>8, <2>10
  <2> QED
    BY <2>2, <2>8, <2>11 DEF v
<1> HIDE DEF G, bytes
<1>6. t \in Scanner /\ << Len(bytes), t >> \in G
  <2>1. \A k \in 1 .. Len(bytes), u \in Scanner :
          << k - 1, u >> \in G => << k, stuffMail[bytes[k]][u] >> \in G
    BY <1>5
  <2>2. t = Scan(stuffMail, s, bytes)
    BY DEF bytes
  <2> QED
    BY <1>2, <1>4, <2>1, <2>2, RulesType, Scanned
<1>7. Good(n, t)
  BY <1>2, <1>6 DEF G
<1>8. Writes(t) \in Nat /\ Holds(t) \in Nat
  BY <1>6, LenProperties DEF Scanner, Writes, Holds
<1>9. Writes(t) <= 2 * Holds(s) + 2 * n
  <2>1. Writes(t) + 2 * Holds(t) <= 2 * Holds(s) + 2 * n
    BY <1>7
  <2> QED
    BY ONLY <1>1, <1>3, <1>8, <2>1
<1>10. Stuffed(t, text, f, Left(rest, n), to \o t.out)
  BY <1>7 DEF Left
<1> QED
  BY <1>6, <1>9, <1>10

(* At the end of the plain text stuffMail is at the end line, and writes   *)
(* it when it is called with nothing to read.                              *)
LEMMA StuffEnd ==
  ASSUME NEW text \in Seq(Byte), Message(text), NEW to \in Seq(Output), NEW s \in Scanner,
         s.out = << >>, s.state # "fresh", Stuffed(s, text, End(text), << >>, to),
         NEW t, t = stuffNothing(s)
  PROVE  t \in Scanner /\ t.done /\ to \o t.out = text /\ Writes(t) = 3
<1> DEFINE pl == Plain(text)
           last == End(text)
<1>1. PICK e \in 0 .. last :
        /\ Stuffs(s, text, e) /\ pl[e] \o << >> = pl[last] /\ to = Upto(text, e - Need(s.state))
  BY DEF Stuffed
<1>2. /\ Len(text) \in Nat /\ last \in Nat /\ last + 3 = Len(text) /\ LineStart(text, last)
      /\ text[last + 1] = "." /\ text[last + 2] = CR /\ text[last + 3] = LF
      /\ \A p \in 0 .. last : Dotted(text, p) /\ text[p + 2] # "." => p = last
      /\ \A p \in 0 .. last : Dotted(text, p) /\ text[p + 2] = "." => p + 2 <= last
  BY MessageIs
<1>3. pl[e] = pl[last] /\ pl[e] \in Seq(Byte)
  <2>1. e \in 0 .. Len(text)
    BY <1>2
  <2>2. pl[e] \in Seq(Byte)
    BY <2>1, PlainType
  <2> QED
    BY <1>1, <2>2, ConcatEmptySeq
<1>4. e = last
  <2> SUFFICES ASSUME e # last
               PROVE  FALSE
    OBVIOUS
  <2>1. \E d \in e + 1 .. last, c \in Byte : pl[d] = pl[e] \o << c >>
    <3>1. CASE ~Dotted(text, e)
      <4>1. e \in 0 .. Len(text) - 1 /\ e + 1 \in e + 1 .. last
        BY <1>2
      <4> QED
        BY <3>1, <4>1, PlainNext
    <3>2. CASE Dotted(text, e)
      <4>1. text[e + 2] = "." /\ e + 2 <= last /\ text[e + 1] = "."
        BY <1>2, <3>2 DEF Dotted
      <4>2. e \in 0 .. Len(text) - 2 /\ e + 2 \in e + 1 .. last
        BY <1>2, <4>1
      <4>3. ~Dotted(text, e + 1)
        BY <4>1, <4>2, Bytes DEF Dotted, LineStart
      <4>4. pl[e + 2] = pl[e] \o << text[e + 2] >> /\ text[e + 2] \in Byte
        BY <3>2, <4>1, <4>2, <4>3, PlainTwo, Bytes
      <4> QED
        BY <4>2, <4>4
    <3> QED
      BY <3>1, <3>2
  <2>2. PICK d \in e + 1 .. last, c \in Byte : pl[d] = pl[e] \o << c >>
    BY <2>1
  <2>3. d \in 0 .. Len(text) /\ last \in d .. Len(text)
    BY <1>2
  <2>4. PICK q \in Seq(Byte) : pl[last] = pl[d] \o q
    BY <2>3, PlainGrows
  <2>5. << c >> \in Seq(Byte) /\ << c >> \o << >> = << c >> /\ << >> \in Seq(Byte)
    <3>1. << c >> \in Seq(Byte)
      OBVIOUS
    <3> QED
      BY <3>1, ConcatEmptySeq, EmptySeq
  <2>6. pl[e] = (pl[e] \o (<< c >> \o << >>)) \o q
    BY <1>3, <2>2, <2>4, <2>5, Zenon
  <2> QED
    BY <1>3, <2>2, <2>4, <2>5, <2>6, Longer, Zenon
<1>5. s.state = "begin"
  <2>1. LineStart(text, e) /\ At(s.state, s.held, text, e) /\ s.state \notin {"dot", "dotCR"}
    BY <1>1, <1>2, <1>4 DEF Stuffs
  <2> QED
    BY <2>1, Bytes DEF At, LineStart, AtBegin
<1>6. to = Upto(text, last)
  <2>1. last - Need("begin") = last
    BY <1>2 DEF Need
  <2> QED
    BY <1>1, <1>4, <1>5, <2>1
<1>7. /\ t = [Copy(s, EndLine, "fresh") EXCEPT !.done = TRUE]
      /\ t \in Scanner
  BY <1>5, StuffNothingType DEF stuffNothing
<1>8. t.done /\ t.out = EndLine
  <2>1. t.out = << >> \o EndLine /\ t.done
    BY <1>7 DEF Copy, Scanner
  <2>2. << >> \o EndLine = EndLine
    BY Bytes, ConcatEmptySeq
  <2> QED
    BY <2>1, <2>2
<1>9. Upto(text, last) \o EndLine = text
  <2>1. last \in 0 .. Len(text) /\ last \in 0 .. Len(text) - 2
    BY <1>2
  <2>2. Upto(text, last) \o SubSeq(text, last + 1, Len(text)) = text
    BY <2>1, Cut DEF Upto
  <2>3. SubSeq(text, last + 1, Len(text)) = EndLine
    <3> DEFINE u == SubSeq(text, last + 1, Len(text))
    <3>1. last + 1 \in Int /\ Len(text) \in Int /\ \A k \in last + 1 .. Len(text) : text[k] \in Byte
      BY <1>2, ElementOfSeq
    <3>2. /\ u \in Seq(Byte) /\ Len(u) = IF last + 1 <= Len(text) THEN Len(text) - (last + 1) + 1 ELSE 0
          /\ \A k \in 1 .. Len(text) - (last + 1) + 1 : u[k] = text[(last + 1) + k - 1]
      BY <3>1, SubSeqProperties
    <3>3. Len(text) - (last + 1) + 1 = 3 /\ last + 1 <= Len(text)
      BY <1>2
    <3>4. /\ (last + 1) + 1 - 1 = last + 1 /\ (last + 1) + 2 - 1 = last + 2
          /\ (last + 1) + 3 - 1 = last + 3 /\ 1 \in 1 .. 3 /\ 2 \in 1 .. 3 /\ 3 \in 1 .. 3
      BY <1>2
    <3> HIDE DEF u
    <3>5. Len(u) = 3 /\ u[1] = "." /\ u[2] = CR /\ u[3] = LF
      <4>1. \A k \in 1 .. 3 : u[k] = text[(last + 1) + k - 1]
        BY <3>2, <3>3
      <4>2. Len(u) = 3
        BY <3>2, <3>3
      <4> QED
        BY <1>2, <3>4, <4>1, <4>2
    <3>6. u = << ".", CR, LF >>
      BY <3>2, <3>5
    <3> QED
      BY <3>6 DEF u, EndLine
  <2> QED
    BY <2>2, <2>3
<1>10. Writes(t) = 3
  BY <1>8 DEF Writes, EndLine
<1> QED
  BY <1>6, <1>7, <1>8, <1>9, <1>10

-----------------------------------------------------------------------------
(* parsePopResponse at a position of a reply.  In a listing it holds as    *)
(* much of CRLF.CRLF as the text ends with at that position.               *)
LEMMA PrefixIs ==
  ASSUME NEW r \in Seq(Byte), NEW t \in Seq(Byte)
  PROVE  IsPrefix(r, t) <=> Len(r) <= Len(t) /\ \A j \in 1 .. Len(r) : r[j] = t[j]
<1>1. Len(r) \in Nat /\ Len(t) \in Nat /\ SubSeq(r, 1, Len(r)) = r
  BY LenProperties, SubSeqFull
<1>2. ASSUME Len(r) <= Len(t)
      PROVE  r = SubSeq(t, 1, Len(r)) <=> \A j \in 1 .. Len(r) : r[j] = t[j]
  <2> DEFINE u == Upto(t, Len(r))
  <2>1. Len(r) \in 0 .. Len(t)
    BY <1>1, <1>2
  <2>2. u \in Seq(Byte) /\ Len(u) = Len(r) /\ \A j \in 1 .. Len(r) : u[j] = t[j]
    BY <2>1, UptoIs
  <2> HIDE DEF u
  <2>3. r = u <=> \A j \in 1 .. Len(r) : r[j] = t[j]
    <3>1. (\A j \in 1 .. Len(r) : r[j] = t[j]) => r = u
      BY <2>2, SeqEqual
    <3> QED
      BY <2>2, <3>1
  <2> QED
    BY <2>3 DEF u, Upto
<1> QED
  BY <1>1, <1>2 DEF IsPrefix

LEMMA ListEndIs ==
  /\ ListEnd = << CR, LF, ".", CR, LF >> /\ ListEnd \in Seq(Byte) /\ Len(ListEnd) = 5
  /\ ListEnd[1] = CR /\ ListEnd[2] = LF /\ ListEnd[3] = "." /\ ListEnd[4] = CR /\ ListEnd[5] = LF
<1> DEFINE u == << CR, LF >>
<1>1. u \in Seq(Byte) /\ Len(u) = 2 /\ u[1] = CR /\ u[2] = LF
  BY Bytes
<1>2. EndLine \in Seq(Byte) /\ Len(EndLine) = 3 /\ EndLine[1] = "." /\ EndLine[2] = CR
      /\ EndLine[3] = LF
  BY Bytes DEF EndLine
<1>3. ListEnd = u \o EndLine
  BY DEF ListEnd
<1> HIDE DEF u
<1>4. /\ ListEnd \in Seq(Byte) /\ Len(ListEnd) = 5
      /\ ListEnd[1] = CR /\ ListEnd[2] = LF /\ ListEnd[3] = "." /\ ListEnd[4] = CR
      /\ ListEnd[5] = LF
  <2> DEFINE v == EndLine
  <2>0. v \in Seq(Byte) /\ Len(v) = 3
    BY <1>2
  <2> HIDE DEF v
  <2>3. /\ u \o v \in Seq(Byte) /\ Len(u \o v) = Len(u) + Len(v)
        /\ \A k \in 1 .. Len(u) + Len(v) : (u \o v)[k] = IF k <= Len(u) THEN u[k] ELSE v[k - Len(u)]
    BY <1>1, <2>0, ConcatProperties
  <2>1. /\ u \o EndLine \in Seq(Byte) /\ Len(u \o EndLine) = 5
        /\ \A k \in 1 .. 5 : (u \o EndLine)[k] = IF k <= 2 THEN u[k] ELSE EndLine[k - 2]
    BY <1>1, <2>0, <2>3 DEF v
  <2>2. /\ (u \o EndLine)[1] = u[1] /\ (u \o EndLine)[2] = u[2]
        /\ (u \o EndLine)[3] = EndLine[1] /\ (u \o EndLine)[4] = EndLine[2]
        /\ (u \o EndLine)[5] = EndLine[3]
    BY <2>1
  <2> QED
    BY <1>1, <1>2, <1>3, <2>1, <2>2
<1>5. ListEnd = << CR, LF, ".", CR, LF >>
  BY <1>4
<1> QED
  BY <1>4, <1>5

End1(text, e, c) == c >= e + 1 /\ text[c] = CR
End2(text, e, c) == c >= e + 2 /\ text[c - 1] = CR /\ text[c] = LF
End3(text, e, c) == c >= e + 3 /\ text[c - 2] = CR /\ text[c - 1] = LF /\ text[c] = "."
End4(text, e, c) ==
  /\ c >= e + 4 /\ text[c - 3] = CR /\ text[c - 2] = LF /\ text[c - 1] = "." /\ text[c] = CR

Matches(text, e, c, held) ==
  \/ End4(text, e, c) /\ held = << CR, LF, ".", CR >>
  \/ End3(text, e, c) /\ held = << CR, LF, "." >>
  \/ End2(text, e, c) /\ held = << CR, LF >>
  \/ End1(text, e, c) /\ ~End4(text, e, c) /\ held = << CR >>
  \/ /\ ~End1(text, e, c) /\ ~End2(text, e, c) /\ ~End3(text, e, c)
     /\ IsRun(held)

(* What GrowsIs says of what is held after the byte b.                     *)
Regrown(g, b) == (g = << CR >> <=> b = CR) /\ (g = << CR >> \/ IsRun(g))

LEMMA MatchesAgain ==
  ASSUME NEW text, NEW e \in Nat, NEW c \in Nat, NEW g, Regrown(g, text[c + 1]),
         ~End2(text, e, c + 1), ~End3(text, e, c + 1), ~End4(text, e, c + 1), c >= e
  PROVE  Matches(text, e, c + 1, g)
<1>1. CASE text[c + 1] = CR
  <2>1. g = << CR >> /\ End1(text, e, c + 1)
    BY <1>1 DEF Regrown, End1
  <2> QED
    BY <2>1 DEF Matches
<1>2. CASE text[c + 1] # CR
  <2>1. IsRun(g) /\ ~End1(text, e, c + 1)
    BY <1>2 DEF Regrown, End1
  <2> QED
    BY <2>1 DEF Matches
<1> QED
  BY <1>1, <1>2

Extends(text, e, c, held, read) ==
  \/ read = ListEnd /\ End4(text, e, c) /\ text[c + 1] = LF
  \/ read # ListEnd /\ IsPrefix(read, ListEnd) /\ Matches(text, e, c + 1, read)
  \/ /\ read # ListEnd /\ ~IsPrefix(read, ListEnd)
     /\ \A g : Regrown(g, text[c + 1]) => Matches(text, e, c + 1, g)

LEMMA NotThisEnd ==
  ASSUME NEW text, NEW e \in Nat, NEW c \in Nat
  PROVE  /\ End2(text, e, c + 1) => End1(text, e, c) /\ text[c + 1] = LF
         /\ End3(text, e, c + 1) => End2(text, e, c) /\ text[c + 1] = "."
         /\ End4(text, e, c + 1) => End3(text, e, c) /\ text[c + 1] = CR
         /\ End1(text, e, c) /\ text[c + 1] = LF => End2(text, e, c + 1)
         /\ End2(text, e, c) /\ text[c + 1] = "." => End3(text, e, c + 1)
         /\ End3(text, e, c) /\ text[c + 1] = CR => End4(text, e, c + 1)
BY DEF End1, End2, End3, End4

LEMMA OneEnd ==
  ASSUME NEW text, NEW e \in Nat, NEW c \in Nat
  PROVE  /\ End1(text, e, c) => ~End2(text, e, c) /\ ~End3(text, e, c)
         /\ End2(text, e, c) => ~End1(text, e, c) /\ ~End3(text, e, c)
         /\ End3(text, e, c) => ~End1(text, e, c) /\ ~End2(text, e, c)
         /\ End4(text, e, c) => End1(text, e, c)
BY Bytes DEF End1, End2, End3, End4

(* What has been read, element by element.                                 *)
LEMMA ReadIs ==
  ASSUME NEW read \in Seq(Byte)
  PROVE  /\ read = ListEnd <=> Len(read) = 5 /\ \A j \in 1 .. Len(read) : read[j] = ListEnd[j]
         /\ IsPrefix(read, ListEnd) <=>
              Len(read) <= 5 /\ \A j \in 1 .. Len(read) : read[j] = ListEnd[j]
<1>1. ListEnd \in Seq(Byte) /\ Len(ListEnd) = 5
  BY ListEndIs
<1>2. read = ListEnd <=> Len(read) = Len(ListEnd) /\ \A j \in 1 .. Len(read) : read[j] = ListEnd[j]
  BY <1>1, SeqEqual
<1>3. IsPrefix(read, ListEnd) <=>
        Len(read) <= Len(ListEnd) /\ \A j \in 1 .. Len(read) : read[j] = ListEnd[j]
  BY <1>1, PrefixIs
<1> QED
  BY <1>1, <1>2, <1>3

LEMMA AppendTwo == \A x, y, z \in Byte : Append(<< x, y >>, z) = << x, y, z >>
<1> SUFFICES ASSUME NEW x \in Byte, NEW y \in Byte, NEW z \in Byte
             PROVE  Append(<< x, y >>, z) = << x, y, z >>
  OBVIOUS
<1> DEFINE three == Append(<< x, y >>, z)
<1>1. << x, y >> \in Seq(Byte) /\ Len(<< x, y >>) = 2
  OBVIOUS
<1>2. three \in Seq(Byte) /\ Len(three) = 3 /\ three[1] = x /\ three[2] = y /\ three[3] = z
  BY <1>1, AppendProperties
<1> HIDE DEF three
<1>3. three = << x, y, z >>
  BY <1>2
<1> QED
  BY <1>3 DEF three

LEMMA AppendThree ==
  \A x, y, z, u \in Byte : Append(<< x, y, z >>, u) = << x, y, z, u >>
<1> SUFFICES ASSUME NEW x \in Byte, NEW y \in Byte, NEW z \in Byte, NEW u \in Byte
             PROVE  Append(<< x, y, z >>, u) = << x, y, z, u >>
  OBVIOUS
<1> DEFINE four == Append(<< x, y, z >>, u)
<1>1. << x, y, z >> \in Seq(Byte) /\ Len(<< x, y, z >>) = 3
  OBVIOUS
<1>2. /\ four \in Seq(Byte) /\ Len(four) = 4
      /\ four[1] = x /\ four[2] = y /\ four[3] = z /\ four[4] = u
  BY <1>1, AppendProperties
<1> HIDE DEF four
<1>3. four = << x, y, z, u >>
  BY <1>2
<1> QED
  BY <1>3 DEF four

LEMMA ExtendsFour ==
  ASSUME NEW text, NEW e \in Nat, NEW c \in Nat, c >= e, text[c + 1] \in Byte,
         End4(text, e, c), NEW held, held = << CR, LF, ".", CR >>
  PROVE  /\ Extends(text, e, c, held, Append(held, text[c + 1]))
         /\ text[c + 1] = LF => Append(held, text[c + 1]) = ListEnd
<1> DEFINE b == text[c + 1]
           read == Append(held, b)
<1>0. b \in Byte /\ CR \in Byte /\ LF \in Byte /\ "." \in Byte
  BY Bytes
<1>1. /\ held \in Seq(Byte) /\ Len(held) = 4 /\ held[1] = CR /\ held[2] = LF /\ held[3] = "."
      /\ held[4] = CR
  BY Bytes
<1>2. /\ read = ListEnd <=> b = LF
      /\ IsPrefix(read, ListEnd) <=> b = LF
  <2>0. /\ read \in Seq(Byte) /\ Len(read) = 5 /\ read[5] = b /\ read[1] = CR
        /\ read[2] = LF /\ read[3] = "." /\ read[4] = CR
    BY <1>0, <1>1, AppendProperties
  <2>1. /\ read = ListEnd <=> \A j \in 1 .. 5 : read[j] = ListEnd[j]
        /\ IsPrefix(read, ListEnd) <=> \A j \in 1 .. 5 : read[j] = ListEnd[j]
    <3>0. read \in Seq(Byte)
      BY <2>0
    <3> HIDE DEF read, b
    <3>1. /\ read = ListEnd <=> Len(read) = 5 /\ \A j \in 1 .. Len(read) : read[j] = ListEnd[j]
          /\ IsPrefix(read, ListEnd) <=>
               Len(read) <= 5 /\ \A j \in 1 .. Len(read) : read[j] = ListEnd[j]
      BY <3>0, ReadIs
    <3> QED
      BY <2>0, <3>1
  <2> HIDE DEF read, b
  <2>2. (\A j \in 1 .. 5 : read[j] = ListEnd[j]) <=> b = LF
    BY <2>0, ListEndIs
  <2> QED
    BY <2>1, <2>2
<1>3. b # LF => \A g : Regrown(g, b) => Matches(text, e, c + 1, g)
  <2>1. ~End2(text, e, c) /\ ~End3(text, e, c)
    BY OneEnd
  <2>2. b # LF => ~End2(text, e, c + 1) /\ ~End3(text, e, c + 1) /\ ~End4(text, e, c + 1)
    BY <2>1, NotThisEnd
  <2> QED
    BY <2>2, MatchesAgain
<1> QED
  BY <1>2, <1>3 DEF Extends

LEMMA ExtendsThree ==
  ASSUME NEW text, NEW e \in Nat, NEW c \in Nat, c >= e, text[c + 1] \in Byte,
         End3(text, e, c), NEW held, held = << CR, LF, "." >>
  PROVE  Extends(text, e, c, held, Append(held, text[c + 1]))
<1> DEFINE b == text[c + 1]
           read == Append(held, b)
<1>0. b \in Byte /\ CR \in Byte /\ LF \in Byte /\ "." \in Byte
  BY Bytes
<1>8. Append(<< CR, LF, "." >>, b) = << CR, LF, ".", b >>
  <2> HIDE DEF b
  <2> QED
    BY <1>0, AppendThree, Zenon
<1>9. read = << CR, LF, ".", b >>
  BY <1>8
<1>1. held \in Seq(Byte) /\ Len(held) = 3 /\ held[1] = CR /\ held[2] = LF /\ held[3] = "."
  BY Bytes
<1>2. read # ListEnd /\ (IsPrefix(read, ListEnd) <=> b = CR)
  <2>0. /\ read \in Seq(Byte) /\ Len(read) = 4 /\ read[4] = b /\ read[1] = CR
        /\ read[2] = LF /\ read[3] = "."
    BY <1>0, <1>9
  <2>1. /\ read # ListEnd
        /\ IsPrefix(read, ListEnd) <=> \A j \in 1 .. 4 : read[j] = ListEnd[j]
    <3>0. read \in Seq(Byte)
      BY <2>0
    <3> HIDE DEF read, b
    <3>1. /\ read = ListEnd <=> Len(read) = 5 /\ \A j \in 1 .. Len(read) : read[j] = ListEnd[j]
          /\ IsPrefix(read, ListEnd) <=>
               Len(read) <= 5 /\ \A j \in 1 .. Len(read) : read[j] = ListEnd[j]
      BY <3>0, ReadIs
    <3> QED
      BY <2>0, <3>1
  <2> HIDE DEF read, b
  <2>2. (\A j \in 1 .. 4 : read[j] = ListEnd[j]) <=> b = CR
    BY <2>0, ListEndIs
  <2> QED
    BY <2>1, <2>2
<1>3. b # CR => \A g : Regrown(g, b) => Matches(text, e, c + 1, g)
  <2>1. ~End1(text, e, c) /\ ~End2(text, e, c)
    BY OneEnd
  <2>2. b # CR => ~End2(text, e, c + 1) /\ ~End3(text, e, c + 1) /\ ~End4(text, e, c + 1)
    BY <2>1, NotThisEnd
  <2> QED
    BY <2>2, MatchesAgain
<1>4. b = CR => Matches(text, e, c + 1, read)
  <2>1. b = CR => read = << CR, LF, ".", CR >>
    BY <1>9
  <2>2. b = CR => End4(text, e, c + 1)
    BY NotThisEnd
  <2> QED
    BY <2>1, <2>2 DEF Matches
<1> QED
  BY <1>2, <1>3, <1>4 DEF Extends

LEMMA ExtendsTwo ==
  ASSUME NEW text, NEW e \in Nat, NEW c \in Nat, c >= e, text[c + 1] \in Byte,
         End2(text, e, c), NEW held, held = << CR, LF >>
  PROVE  Extends(text, e, c, held, Append(held, text[c + 1]))
<1> DEFINE b == text[c + 1]
           read == Append(held, b)
<1>0. b \in Byte /\ CR \in Byte /\ LF \in Byte /\ "." \in Byte
  BY Bytes
<1>8. Append(<< CR, LF >>, b) = << CR, LF, b >>
  <2> HIDE DEF b
  <2> QED
    BY <1>0, AppendTwo, Zenon
<1>9. read = << CR, LF, b >>
  BY <1>8
<1>1. held \in Seq(Byte) /\ Len(held) = 2 /\ held[1] = CR /\ held[2] = LF
  BY Bytes
<1>2. read # ListEnd /\ (IsPrefix(read, ListEnd) <=> b = ".")
  <2>0. /\ read \in Seq(Byte) /\ Len(read) = 3 /\ read[3] = b /\ read[1] = CR /\ read[2] = LF
    BY <1>0, <1>9
  <2>1. /\ read # ListEnd
        /\ IsPrefix(read, ListEnd) <=> \A j \in 1 .. 3 : read[j] = ListEnd[j]
    <3>0. read \in Seq(Byte)
      BY <2>0
    <3> HIDE DEF read, b
    <3>1. /\ read = ListEnd <=> Len(read) = 5 /\ \A j \in 1 .. Len(read) : read[j] = ListEnd[j]
          /\ IsPrefix(read, ListEnd) <=>
               Len(read) <= 5 /\ \A j \in 1 .. Len(read) : read[j] = ListEnd[j]
      BY <3>0, ReadIs
    <3> QED
      BY <2>0, <3>1
  <2> HIDE DEF read, b
  <2>2. (\A j \in 1 .. 3 : read[j] = ListEnd[j]) <=> b = "."
    BY <2>0, ListEndIs
  <2> QED
    BY <2>1, <2>2
<1>3. b # "." => \A g : Regrown(g, b) => Matches(text, e, c + 1, g)
  <2>1. ~End1(text, e, c) /\ ~End3(text, e, c)
    BY OneEnd
  <2>2. b # "." => ~End2(text, e, c + 1) /\ ~End3(text, e, c + 1) /\ ~End4(text, e, c + 1)
    BY <2>1, NotThisEnd
  <2> QED
    BY <2>2, MatchesAgain
<1>4. b = "." => Matches(text, e, c + 1, read)
  <2>1. b = "." => read = << CR, LF, "." >>
    BY <1>9
  <2>2. b = "." => End3(text, e, c + 1)
    BY NotThisEnd
  <2> QED
    BY <2>1, <2>2 DEF Matches
<1> QED
  BY <1>2, <1>3, <1>4 DEF Extends

LEMMA ExtendsOne ==
  ASSUME NEW text, NEW e \in Nat, NEW c \in Nat, c >= e, text[c + 1] \in Byte,
         End1(text, e, c), NEW held, held = << CR >>
  PROVE  Extends(text, e, c, held, Append(held, text[c + 1]))
<1> DEFINE b == text[c + 1]
           read == Append(held, b)
<1>0. b \in Byte /\ CR \in Byte /\ LF \in Byte /\ "." \in Byte
  BY Bytes
<1>9. read = << CR, b >>
  BY <1>0, Bytes, HeldNext, Zenon
<1>1. held \in Seq(Byte) /\ Len(held) = 1 /\ held[1] = CR
  BY Bytes
<1>2. read # ListEnd /\ (IsPrefix(read, ListEnd) <=> b = LF)
  <2>0. /\ read \in Seq(Byte) /\ Len(read) = 2 /\ read[2] = b /\ read[1] = CR
    BY <1>0, <1>9
  <2>1. /\ read # ListEnd
        /\ IsPrefix(read, ListEnd) <=> \A j \in 1 .. 2 : read[j] = ListEnd[j]
    <3>0. read \in Seq(Byte)
      BY <2>0
    <3> HIDE DEF read, b
    <3>1. /\ read = ListEnd <=> Len(read) = 5 /\ \A j \in 1 .. Len(read) : read[j] = ListEnd[j]
          /\ IsPrefix(read, ListEnd) <=>
               Len(read) <= 5 /\ \A j \in 1 .. Len(read) : read[j] = ListEnd[j]
      BY <3>0, ReadIs
    <3> QED
      BY <2>0, <3>1
  <2> HIDE DEF read, b
  <2>2. (\A j \in 1 .. 2 : read[j] = ListEnd[j]) <=> b = LF
    BY <2>0, ListEndIs
  <2> QED
    BY <2>1, <2>2
<1>3. b # LF => \A g : Regrown(g, b) => Matches(text, e, c + 1, g)
  <2>1. ~End2(text, e, c) /\ ~End3(text, e, c)
    BY OneEnd
  <2>2. b # LF => ~End2(text, e, c + 1) /\ ~End3(text, e, c + 1) /\ ~End4(text, e, c + 1)
    BY <2>1, NotThisEnd
  <2> QED
    BY <2>2, MatchesAgain
<1>4. b = LF => Matches(text, e, c + 1, read)
  <2>1. b = LF => read = << CR, LF >>
    BY <1>9
  <2>2. b = LF => End2(text, e, c + 1)
    BY NotThisEnd
  <2> QED
    BY <2>1, <2>2 DEF Matches
<1> QED
  BY <1>2, <1>3, <1>4 DEF Extends

LEMMA ExtendsRun ==
  ASSUME NEW text, NEW e \in Nat, NEW c \in Nat, c >= e, text[c + 1] \in Byte,
         ~End1(text, e, c), ~End2(text, e, c), ~End3(text, e, c),
         NEW held \in Seq(Byte), IsRun(held)
  PROVE  Extends(text, e, c, held, Append(held, text[c + 1]))
<1> DEFINE b == text[c + 1]
           read == Append(held, b)
           h == Len(held)
<1>1. h \in Nat
  BY LenProperties
<1>2. /\ read \in Seq(Byte) /\ Len(read) = h + 1 /\ read[h + 1] = b /\ h + 1 \in Nat
      /\ \A j \in 1 .. h : read[j] = held[j]
      /\ read = ListEnd => \A j \in 1 .. h + 1 : read[j] = ListEnd[j]
      /\ IsPrefix(read, ListEnd) => \A j \in 1 .. h + 1 : read[j] = ListEnd[j]
  <2>1. /\ read \in Seq(Byte) /\ Len(read) = h + 1 /\ read[h + 1] = b /\ h + 1 \in Nat
        /\ \A j \in 1 .. h : read[j] = held[j]
    BY <1>1, AppendProperties
  <2> HIDE DEF read
  <2> QED
    BY <2>1, ReadIs
<1>3. /\ ~End2(text, e, c + 1) /\ ~End3(text, e, c + 1) /\ ~End4(text, e, c + 1)
  BY NotThisEnd
<1>4. \A g : Regrown(g, b) => Matches(text, e, c + 1, g)
  BY <1>3, MatchesAgain
<1>5. (\A j \in 1 .. h + 1 : read[j] = ListEnd[j]) => h = 0 /\ b = CR
  <2> SUFFICES ASSUME \A j \in 1 .. h + 1 : read[j] = ListEnd[j]
               PROVE  h = 0 /\ b = CR
    OBVIOUS
  <2>1. read[1] = CR
    BY <1>1, ListEndIs
  <2>2. h = 0
    <3>1. ASSUME h # 0
          PROVE  FALSE
      <4>1. 1 \in 1 .. h
        BY <1>1, <3>1
      <4>2. read[1] = held[1] /\ held[1] # CR
        BY <1>2, <4>1 DEF IsRun
      <4> QED
        BY <2>1, <4>2
    <3> QED
      BY <3>1
  <2> QED
    BY <1>2, <2>1, <2>2
<1>6. read # ListEnd
  <2> SUFFICES ASSUME read = ListEnd
               PROVE  FALSE
    OBVIOUS
  <2>1. Len(ListEnd) = 5
    BY ListEndIs
  <2>2. h = 0
    BY <1>2, <1>5
  <2>3. Len(read) = 1
    BY <1>2, <2>2
  <2>4. Len(read) = 5
    BY <2>1
  <2> QED
    BY ONLY <2>3, <2>4
<1>7. IsPrefix(read, ListEnd) => Matches(text, e, c + 1, read)
  <2> SUFFICES ASSUME IsPrefix(read, ListEnd)
               PROVE  Matches(text, e, c + 1, read)
    OBVIOUS
  <2>1. h = 0 /\ b = CR
    BY <1>2, <1>5
  <2>2. read = << CR >>
    <3>1. read \in Seq(Byte) /\ Len(read) = 1 /\ read[1] = CR
      BY <1>2, <2>1
    <3> HIDE DEF read
    <3> QED
      BY <3>1, Single
  <2>3. End1(text, e, c + 1) /\ ~End4(text, e, c + 1)
    BY <1>3, <2>1 DEF End1
  <2> QED
    BY <2>2, <2>3 DEF Matches
<1> QED
  BY <1>4, <1>6, <1>7 DEF Extends

LEMMA MatchesExtends ==
  ASSUME NEW text, NEW e \in Nat, NEW c \in Nat, c >= e, text[c + 1] \in Byte,
         NEW held \in Seq(Byte), Matches(text, e, c, held)
  PROVE  /\ Extends(text, e, c, held, Append(held, text[c + 1]))
         /\ End4(text, e, c) /\ text[c + 1] = LF => Append(held, text[c + 1]) = ListEnd
<1>1. Extends(text, e, c, held, Append(held, text[c + 1]))
  BY ExtendsFour, ExtendsThree, ExtendsTwo, ExtendsOne, ExtendsRun DEF Matches
<1>2. End4(text, e, c) => held = << CR, LF, ".", CR >>
  BY OneEnd DEF Matches
<1> QED
  BY <1>1, <1>2, ExtendsFour

-----------------------------------------------------------------------------
(* Where in a reply parsePopResponse is that has read it up to c.          *)
Within(state, held, text, multiline, w, e, c) ==
  /\ state \in {"fresh", "status", "ok", "err", "extra"}
  /\ state \in {"fresh", "status"} => c < w /\ held = Upto(text, c)
  /\ state \in {"ok", "err"} =>
       /\ c >= w /\ c < e /\ (state = "ok" <=> w = 3)
       /\ held = << CR >> <=> text[c] = CR
       /\ held = << CR >> \/ IsRun(held)
  /\ state = "extra" => multiline /\ w = 3 /\ c >= e /\ Matches(text, e, c, held)

Responding(s, text, multiline, w, e, c) ==
  /\ c < Len(text) /\ s.out \o s.held = Upto(text, c)
  /\ Within(s.state, s.held, text, multiline, w, e, c)

Answers(t, s, text, multiline, w, e, c) ==
  /\ t \in Scanner /\ t.rest = s.rest
  /\ IF t.done THEN c + 1 = Len(text) /\ t.out = text
               ELSE Responding(t, text, multiline, w, e, c + 1)

Answer(text, multiline, w, e) ==
  /\ StatusLine(text, w, e)
  /\ IF multiline /\ w = 3 THEN Listing(text, e) ELSE e = Len(text)

LEMMA AnswerIs ==
  ASSUME NEW text \in Seq(Byte), NEW multiline, NEW w, NEW e, Answer(text, multiline, w, e)
  PROVE  /\ Len(text) \in Nat /\ w \in 3 .. 4 /\ e \in Nat /\ e >= w + 2 /\ e <= Len(text)
         /\ Upto(text, w) \in Words /\ text[w] # CR
         /\ w = 3 => text[1] = "+" /\ text[3] = "K"
         /\ w = 4 => text[1] = "-" /\ text[4] = "R"
         /\ CRLFAt(text, e) /\ \A i \in w + 2 .. e - 1 : ~CRLFAt(text, i)
<1>1. /\ w \in 3 .. 4 /\ e \in w + 2 .. Len(text) /\ Upto(text, w) \in Words
      /\ CRLFAt(text, e) /\ \A i \in w + 2 .. e - 1 : ~CRLFAt(text, i)
  BY DEF Answer, StatusLine, Upto
<1>2. Len(text) \in Nat /\ e \in Nat /\ e >= w + 2 /\ e <= Len(text) /\ w \in 0 .. Len(text)
  BY <1>1, LenProperties
<1> DEFINE u == Upto(text, w)
<1>3. Len(u) = w /\ \A i \in 1 .. w : u[i] = text[i]
  BY <1>2, UptoIs
<1>4. u \in Words
  BY <1>1
<1> HIDE DEF u
<1>5. /\ w = 3 => text[1] = "+" /\ text[3] = "K"
      /\ w = 4 => text[1] = "-" /\ text[4] = "R"
  <2>1. CASE u = << "+", "O", "K" >>
    <3>1. Len(u) = 3 /\ u[1] = "+" /\ u[3] = "K"
      BY <2>1
    <3> QED
      BY <1>3, <3>1
  <2>2. CASE u = << "-", "E", "R", "R" >>
    <3>1. Len(u) = 4 /\ u[1] = "-" /\ u[4] = "R"
      BY <2>2
    <3> QED
      BY <1>3, <3>1
  <2> QED
    BY <1>4, <2>1, <2>2 DEF Words
<1>6. text[w] # CR
  BY <1>1, <1>5 DEF CR
<1> QED
  BY <1>1, <1>2, <1>5, <1>6

(* What has been read and not been written ends where the text does.       *)
LEMMA NextIs ==
  ASSUME NEW text \in Seq(Byte), NEW s \in Scanner, NEW c \in Nat, c < Len(text),
         s.out \o s.held = Upto(text, c)
  PROVE  /\ text[c + 1] \in Byte /\ c + 1 \in 0 .. Len(text)
         /\ s.out \o Append(s.held, text[c + 1]) = Upto(text, c + 1)
<1>1. 1 \in Nat \ {0} /\ c \in 1 - 1 .. Len(text) - 1 /\ c + 1 \in 0 .. Len(text)
  BY LenProperties
<1>2. text[c + 1] \in Byte /\ Upto(text, c + 1) = Append(Upto(text, c), text[c + 1])
  BY <1>1, UptoNext DEF Upto
<1>3. s.out \in Seq(Output) /\ s.held \in Seq(Output) /\ text[c + 1] \in Output
  BY <1>2, Bytes, ByteIsOutput DEF Scanner
<1>4. s.out \o Append(s.held, text[c + 1]) = Append(s.out \o s.held, text[c + 1])
  BY <1>3, AppendLast, Zenon
<1> QED
  BY <1>1, <1>2, <1>4

LEMMA StatusByte ==
  ASSUME NEW text \in Seq(Byte), NEW multiline \in BOOLEAN, NEW w, NEW e,
         Answer(text, multiline, w, e), NEW s \in Scanner, ~s.done, NEW c \in Nat,
         Responding(s, text, multiline, w, e, c), s.state \in {"fresh", "status"},
         NEW t, t = responseByte(s, text[c + 1], multiline)
  PROVE  Answers(t, s, text, multiline, w, e, c)
<1> DEFINE b == text[c + 1]
           read == Append(s.held, b)
<1>1. /\ Len(text) \in Nat /\ w \in 3 .. 4 /\ e \in Nat /\ e >= w + 2 /\ e <= Len(text)
      /\ Upto(text, w) \in Words /\ text[w] # CR
      /\ w = 3 => text[1] = "+" /\ text[3] = "K"
      /\ w = 4 => text[1] = "-" /\ text[4] = "R"
  BY AnswerIs
<1>9. w = 3 \/ w = 4
  BY <1>1
<1>2. c < Len(text) /\ s.out \o s.held = Upto(text, c) /\ c < w /\ s.held = Upto(text, c)
  BY DEF Responding, Within
<1>3. b \in Byte /\ c + 1 \in 0 .. Len(text) /\ s.out \o read = Upto(text, c + 1)
  BY <1>2, NextIs
<1>4. read = Upto(text, c + 1)
  <2>1. 1 \in Nat \ {0} /\ c \in 1 - 1 .. Len(text) - 1
    BY <1>1, <1>2
  <2> QED
    BY <1>2, <2>1, UptoNext DEF Upto
<1>5. t = InStatus(s, b) /\ t \in Scanner
  BY <1>3, ResponseType DEF responseByte
<1>6. /\ read \in Seq(Byte) /\ Len(read) = c + 1
      /\ \A j \in 1 .. c + 1 : read[j] = text[j]
  BY <1>3, <1>4, UptoIs
<1> HIDE DEF read
<1>7. CASE c + 1 = w
  <2> DEFINE state == IF b = "K" THEN "ok" ELSE "err"
  <2>1. t = Copy(s, read, state)
    BY <1>1, <1>4, <1>5, <1>7 DEF InStatus, read
  <2>2. state \in {"ok", "err"} /\ (state = "ok" <=> w = 3) /\ b # CR
    BY <1>1, <1>7
  <2> HIDE DEF state
  <2>3. /\ t.state = state /\ t.held = << >> /\ t.out = s.out \o read
        /\ ~t.done /\ t.rest = s.rest
    BY <2>1 DEF Copy, Scanner
  <2>4. t.out \o t.held = Upto(text, c + 1)
    <3>1. t.out \in Seq(Output)
      BY <1>5 DEF Scanner
    <3> QED
      BY <1>3, <2>3, <3>1, ConcatEmptySeq
  <2>5. /\ IsRun(<< >>) /\ << >> # << CR >>
    BY DEF IsRun
  <2>6. Within(state, << >>, text, multiline, w, e, c + 1)
    BY <1>1, <1>7, <2>2, <2>5 DEF Within
  <2>7. c + 1 < Len(text)
    BY <1>1, <1>7
  <2> QED
    BY <1>5, <2>3, <2>4, <2>6, <2>7 DEF Answers, Responding
<1>8. CASE c + 1 # w
  <2>1. c + 1 < w /\ c + 1 < Len(text)
    BY <1>1, <1>2, <1>8
  <2>2. read \notin Words
    <3>1. CASE read = << "+", "O", "K" >>
      <4>1. Len(read) = 3 /\ read[1] = "+"
        BY <3>1
      <4>2. Len(read) = c + 1 /\ read[1] = text[1]
        BY <1>6
      <4>3. c + 1 = 3
        BY <4>1, <4>2
      <4>4. w = 4
        BY ONLY <1>9, <2>1, <4>3
      <4> QED
        BY <1>1, <4>1, <4>2, <4>4
    <3>2. CASE read = << "-", "E", "R", "R" >>
      <4>1. Len(read) = 4
        BY <3>2
      <4>2. c + 1 = 4
        BY <1>6, <4>1
      <4>3. c + 1 < 4
        BY ONLY <1>9, <2>1
      <4>4. FALSE
        BY ONLY <4>2, <4>3
      <4> QED
        BY <4>4
    <3> QED
      BY <3>1, <3>2 DEF Words
  <2>3. IsPrefix(read, Upto(text, w))
    <3> DEFINE u == Upto(text, w)
    <3>1. w \in 0 .. Len(text)
      BY <1>1
    <3>2. u \in Seq(Byte) /\ Len(u) = w /\ \A j \in 1 .. w : u[j] = text[j]
      BY <3>1, UptoIs
    <3> HIDE DEF u
    <3>3. Len(read) <= Len(u) /\ \A j \in 1 .. Len(read) : read[j] = u[j]
      BY <1>1, <1>6, <2>1, <3>2
    <3>4. IsPrefix(read, u)
      BY <1>6, <3>2, <3>3, PrefixIs
    <3> QED
      BY <3>4 DEF u
  <2>4. t = Hold(s, b, "status")
    BY <1>1, <1>5, <2>2, <2>3 DEF InStatus, read
  <2>5. /\ t.state = "status" /\ t.held = read /\ t.out = s.out /\ ~t.done /\ t.rest = s.rest
    BY <2>4 DEF Hold, Scanner, read
  <2>6. Within("status", read, text, multiline, w, e, c + 1)
    BY <1>4, <2>1 DEF Within
  <2> QED
    BY <1>3, <1>5, <2>1, <2>5, <2>6 DEF Answers, Responding
<1> QED
  BY <1>7, <1>8

LEMMA TextByte ==
  ASSUME NEW text \in Seq(Byte), NEW multiline \in BOOLEAN, NEW w, NEW e,
         Answer(text, multiline, w, e), NEW s \in Scanner, ~s.done, NEW c \in Nat,
         Responding(s, text, multiline, w, e, c), s.state \in {"ok", "err"},
         NEW t, t = responseByte(s, text[c + 1], multiline)
  PROVE  Answers(t, s, text, multiline, w, e, c)
<1> DEFINE b == text[c + 1]
           read == Append(s.held, b)
<1>1. /\ Len(text) \in Nat /\ w \in 3 .. 4 /\ e \in Nat /\ e >= w + 2 /\ e <= Len(text)
      /\ text[w] # CR /\ CRLFAt(text, e) /\ \A i \in w + 2 .. e - 1 : ~CRLFAt(text, i)
  BY AnswerIs
<1>2. /\ c < Len(text) /\ s.out \o s.held = Upto(text, c) /\ c >= w /\ c < e
      /\ (s.state = "ok" <=> w = 3) /\ (s.held = << CR >> <=> text[c] = CR)
      /\ s.held = << CR >> \/ IsRun(s.held)
  BY DEF Responding, Within
<1>3. b \in Byte /\ c + 1 \in 0 .. Len(text) /\ s.out \o read = Upto(text, c + 1)
  BY <1>2, NextIs
<1>4. t = InText(s, b, multiline) /\ t \in Scanner
  BY <1>3, ResponseType DEF responseByte
<1>5. /\ read \in Seq(Byte) /\ read # << >> /\ Len(read) = Len(s.held) + 1
      /\ read[Len(read)] = b /\ Len(s.held) \in Nat
      /\ \A i \in 1 .. Len(s.held) : read[i] = s.held[i]
  BY <1>3, HasRead
<1>6. read = << CR, LF >> <=> text[c] = CR /\ b = LF
  <2>1. ASSUME text[c] = CR, b = LF
        PROVE  read = << CR, LF >>
    <3>1. s.held = << CR >>
      BY <1>2, <2>1
    <3> QED
      BY <2>1, <3>1, Bytes, HeldNext
  <2>2. ASSUME read = << CR, LF >>
        PROVE  text[c] = CR /\ b = LF
    <3> HIDE DEF read, b
    <3>1. Len(read) = 2 /\ read[1] = CR /\ read[2] = LF
      BY <2>2
    <3>2. Len(s.held) = 1 /\ b = LF
      <4> DEFINE h == Len(s.held)
      <4>1. h \in Nat /\ Len(read) = h + 1 /\ read[Len(read)] = b
        BY <1>5
      <4> HIDE DEF h
      <4>2. h = 1 /\ b = read[2]
        BY ONLY <3>1, <4>1
      <4> QED
        BY <3>1, <4>2 DEF h
    <3>3. s.held[1] = CR
      BY <1>5, <3>1, <3>2
    <3>4. ~IsRun(s.held)
      BY <3>2, <3>3 DEF IsRun
    <3> QED
      BY <1>2, <3>2, <3>4
  <2> QED
    BY <2>1, <2>2
<1>7. read = << CR, LF >> <=> c + 1 = e
  <2>1. read = << CR, LF >> <=> CRLFAt(text, c + 1)
    BY <1>6 DEF CRLFAt
  <2>2. c + 1 = e => CRLFAt(text, c + 1)
    BY <1>1
  <2>3. ASSUME CRLFAt(text, c + 1), c + 1 # e
        PROVE  FALSE
    <3>1. text[c] = CR
      BY <2>3 DEF CRLFAt
    <3>2. c # w
      BY <1>1, <3>1
    <3>3. c + 1 \in w + 2 .. e - 1
      BY <1>1, <1>2, <2>3, <3>2
    <3> QED
      BY <1>1, <2>3, <3>3
  <2> QED
    BY <2>1, <2>2, <2>3
<1> HIDE DEF read, b
<1>8. CASE c + 1 # e
  <2>1. t = Grows(s, read, s.state)
    BY <1>4, <1>7, <1>8 DEF InText, read
  <2>2. s.state \in State
    BY DEF Scanner
  <2>7. LET g == Grows(s, read, s.state) IN
        /\ g.state = s.state /\ g.done = s.done /\ g.rest = s.rest
        /\ g.out \o g.held = s.out \o read
        /\ g.held = << CR >> \/ IsRun(g.held)
        /\ g.held = << CR >> <=> read[Len(read)] = CR
    BY <1>5, <2>2, GrowsIs
  <2>3. /\ t.state = s.state /\ ~t.done /\ t.rest = s.rest /\ t.out \o t.held = s.out \o read
        /\ t.held = << CR >> \/ IsRun(t.held)
        /\ t.held = << CR >> <=> b = CR
    BY <1>5, <2>1, <2>7
  <2>4. c + 1 < e /\ c + 1 >= w /\ c + 1 < Len(text)
    BY <1>1, <1>2, <1>8
  <2>5. Within(t.state, t.held, text, multiline, w, e, c + 1)
    BY <1>2, <2>3, <2>4 DEF Within, b
  <2>6. t.out \o t.held = Upto(text, c + 1)
    BY <1>3, <2>3
  <2> QED
    BY <1>4, <2>3, <2>4, <2>5, <2>6 DEF Answers, Responding
<1>9. CASE c + 1 = e /\ multiline /\ w = 3
  <2>1. t = Copy(s, read, "extra")
    BY <1>2, <1>4, <1>7, <1>9 DEF InText, read
  <2>2. /\ t.state = "extra" /\ t.held = << >> /\ t.out = s.out \o read
        /\ ~t.done /\ t.rest = s.rest
    BY <2>1 DEF Copy, Scanner
  <2>3. t.out \o t.held = Upto(text, c + 1)
    <3>1. t.out \in Seq(Output)
      BY <1>4 DEF Scanner
    <3> QED
      BY <1>3, <2>2, <3>1, ConcatEmptySeq
  <2>4. IsRun(<< >>)
    BY DEF IsRun
  <2>5. Matches(text, e, e, << >>)
    BY <1>1, <2>4 DEF Matches, End1, End2, End3
  <2>6. e < Len(text) /\ e >= e
    BY <1>1, <1>9 DEF Answer, Listing
  <2>7. Within("extra", << >>, text, multiline, w, e, c + 1)
    BY <1>9, <2>5, <2>6 DEF Within
  <2>8. c + 1 < Len(text)
    BY <1>9, <2>6
  <2> QED
    BY <1>4, <2>2, <2>3, <2>7, <2>8 DEF Answers, Responding
<1>10. CASE c + 1 = e /\ ~(multiline /\ w = 3)
  <2>1. t = [Copy(s, read, "fresh") EXCEPT !.done = TRUE]
    BY <1>2, <1>4, <1>7, <1>10 DEF InText, read
  <2>2. t.done /\ t.out = s.out \o read /\ t.rest = s.rest
    BY <2>1 DEF Copy, Scanner
  <2>3. c + 1 = Len(text)
    BY <1>10 DEF Answer
  <2>4. t.out = text
    BY <1>3, <2>2, <2>3, UptoEnds
  <2> QED
    BY <1>4, <2>2, <2>3, <2>4 DEF Answers
<1> QED
  BY <1>8, <1>9, <1>10

LEMMA ListByte ==
  ASSUME NEW text \in Seq(Byte), NEW multiline \in BOOLEAN, NEW w, NEW e,
         Answer(text, multiline, w, e), NEW s \in Scanner, ~s.done, NEW c \in Nat,
         Responding(s, text, multiline, w, e, c), s.state = "extra",
         NEW t, t = responseByte(s, text[c + 1], multiline)
  PROVE  Answers(t, s, text, multiline, w, e, c)
<1> DEFINE b == text[c + 1]
           read == Append(s.held, b)
           N == Len(text)
<1>1. N \in Nat /\ e \in Nat /\ w \in 3 .. 4
  BY AnswerIs
<1>2. /\ c < N /\ s.out \o s.held = Upto(text, c)
      /\ multiline /\ w = 3 /\ c >= e /\ Matches(text, e, c, s.held)
  BY DEF Responding, Within
<1>3. N >= e + 5 /\ EndAt(text, N) /\ \A i \in e + 5 .. N - 1 : ~EndAt(text, i)
  BY <1>2 DEF Answer, Listing
<1>4. b \in Byte /\ c + 1 \in 0 .. N /\ s.out \o read = Upto(text, c + 1)
  BY <1>2, NextIs
<1>5. t = InExtra(s, b) /\ t \in Scanner
  BY <1>4, ResponseType DEF responseByte
<1>6. read \in Seq(Byte) /\ read # << >> /\ read[Len(read)] = b
  BY <1>4, HasRead
<1>7. /\ Extends(text, e, c, s.held, read)
      /\ End4(text, e, c) /\ text[c + 1] = LF => read = ListEnd
  <2> DEFINE held == s.held
  <2>1. held \in Seq(Byte) /\ Matches(text, e, c, held)
    BY <1>2 DEF Scanner
  <2> HIDE DEF held
  <2>2. text[c + 1] \in Byte /\ c >= e /\ e \in Nat
    BY <1>1, <1>2, <1>4
  <2>3. /\ Extends(text, e, c, held, Append(held, text[c + 1]))
        /\ End4(text, e, c) /\ text[c + 1] = LF => Append(held, text[c + 1]) = ListEnd
    BY <2>1, <2>2, MatchesExtends
  <2> QED
    BY <2>3 DEF held
<1>8. End4(text, e, c) /\ b = LF <=> c + 1 >= e + 5 /\ EndAt(text, c + 1)
  BY <1>1 DEF End4, EndAt, CRLFAt
<1> HIDE DEF read
<1>9. read = ListEnd <=> c + 1 = N
  <2>1. read = ListEnd => End4(text, e, c) /\ b = LF
    BY <1>7 DEF Extends
  <2>2. read = ListEnd <=> c + 1 >= e + 5 /\ EndAt(text, c + 1)
    BY <1>7, <1>8, <2>1
  <2>3. ASSUME c + 1 >= e + 5, EndAt(text, c + 1), c + 1 # N
        PROVE  FALSE
    <3>1. c + 1 \in e + 5 .. N - 1
      BY <1>1, <1>2, <2>3
    <3> QED
      BY <1>3, <2>3, <3>1
  <2> QED
    BY <1>3, <2>2, <2>3
<1> HIDE DEF b, N
<1>10. CASE read = ListEnd
  <2>1. t = [Copy(s, read, "fresh") EXCEPT !.done = TRUE]
    BY <1>5, <1>10 DEF InExtra, read
  <2>2. t.done /\ t.out = s.out \o read /\ t.rest = s.rest
    BY <2>1 DEF Copy, Scanner
  <2>3. t.out = text
    BY <1>4, <1>9, <1>10, <2>2, UptoEnds DEF N
  <2> QED
    BY <1>5, <1>9, <1>10, <2>2, <2>3 DEF Answers, N
<1>11. ASSUME read # ListEnd, ~t.done, t.rest = s.rest, t.state = "extra",
              t.out \o t.held = s.out \o read, Matches(text, e, c + 1, t.held)
       PROVE  Answers(t, s, text, multiline, w, e, c)
  <2>1. c + 1 < N /\ c + 1 >= e
    BY <1>1, <1>2, <1>9, <1>11
  <2>2. Within("extra", t.held, text, multiline, w, e, c + 1)
    BY <1>2, <1>11, <2>1 DEF Within
  <2> QED
    BY <1>4, <1>5, <1>11, <2>1, <2>2 DEF Answers, Responding, N
<1>12. CASE read # ListEnd /\ IsPrefix(read, ListEnd)
  <2>1. t = Hold(s, b, "extra")
    BY <1>5, <1>12 DEF InExtra, read
  <2>2. t.state = "extra" /\ t.held = read /\ t.out = s.out /\ ~t.done /\ t.rest = s.rest
    BY <2>1 DEF Hold, Scanner, read
  <2>3. Matches(text, e, c + 1, t.held)
    BY <1>7, <1>12, <2>2 DEF Extends
  <2> QED
    BY <1>11, <1>12, <2>2, <2>3
<1>13. CASE read # ListEnd /\ ~IsPrefix(read, ListEnd)
  <2>1. t = Grows(s, read, "extra")
    BY <1>5, <1>13 DEF InExtra, read
  <2>2. "extra" \in State
    BY DEF State
  <2>7. LET g == Grows(s, read, "extra") IN
        /\ g.state = "extra" /\ g.done = s.done /\ g.rest = s.rest
        /\ g.out \o g.held = s.out \o read
        /\ g.held = << CR >> \/ IsRun(g.held)
        /\ g.held = << CR >> <=> read[Len(read)] = CR
    BY <1>6, <2>2, GrowsIs
  <2>3. /\ t.state = "extra" /\ ~t.done /\ t.rest = s.rest /\ t.out \o t.held = s.out \o read
        /\ t.held = << CR >> \/ IsRun(t.held)
        /\ t.held = << CR >> <=> b = CR
    BY <1>6, <2>1, <2>7
  <2>4. Matches(text, e, c + 1, t.held)
    <3>1. Regrown(t.held, text[c + 1])
      BY <2>3 DEF Regrown, b
    <3> QED
      BY <1>7, <1>13, <3>1 DEF Extends
  <2> QED
    BY <1>11, <1>13, <2>3, <2>4
<1> QED
  BY <1>10, <1>12, <1>13

LEMMA ResponseStep ==
  ASSUME NEW text \in Seq(Byte), NEW multiline \in BOOLEAN, NEW w, NEW e,
         Answer(text, multiline, w, e), NEW s \in Scanner, ~s.done, NEW c \in Nat,
         Responding(s, text, multiline, w, e, c),
         NEW t, t = responseByte(s, text[c + 1], multiline)
  PROVE  Answers(t, s, text, multiline, w, e, c)
<1>1. s.state \in {"fresh", "status", "ok", "err", "extra"}
  BY DEF Responding, Within
<1> QED
  BY <1>1, StatusByte, TextByte, ListByte

Responded(s, i, w, e, c) ==
  /\ Behind(s, i, c)
  /\ IF s.done THEN s.out = i.bytes ELSE Responding(s, i.bytes, i.kind = "list", w, e, c)

LEMMA ReplyByte ==
  ASSUME NEW i \in Saying, NEW w, NEW e, Answer(i.bytes, i.kind = "list", w, e),
         NEW s \in Scanner, NEW c \in 0 .. Len(Stream(i)) - 1, Responded(s, i, w, e, c),
         NEW t, t = parsePopResponse(i.kind = "list")[Stream(i)[c + 1]][s]
  PROVE  t \in Scanner /\ Responded(t, i, w, e, c + 1)
<1> DEFINE b == Stream(i)[c + 1]
           text == i.bytes
           multiline == i.kind = "list"
<1>1. /\ text \in Seq(Byte) /\ Stream(i) \in Seq(Byte)
      /\ Len(text) \in Nat /\ Len(Stream(i)) \in Nat /\ Len(text) <= Len(Stream(i))
      /\ \A p \in 1 .. Len(text) : Stream(i)[p] = text[p]
  BY StreamIs
<1>2. b \in Byte /\ c \in Nat /\ multiline \in BOOLEAN
  <2>1. c + 1 \in 1 .. Len(Stream(i)) /\ c \in Nat
    BY <1>1
  <2> QED
    BY <1>1, <2>1, ElementOfSeq
<1>3. CASE s.done
  <2>1. t = [s EXCEPT !.rest = Append(@, Stream(i)[c + 1])]
    <3> HIDE DEF multiline
    <3>1. t = parsePopResponse(multiline)[b][s]
      BY DEF multiline
    <3> QED
      BY <1>2, <1>3, <3>1, RulesAre
  <2>2. Behind(s, i, c)
    BY DEF Responded
  <2>3. Behind(t, i, c + 1) /\ t \in Scanner /\ t.done /\ t.out = s.out
    BY <1>3, <2>1, <2>2, StaysBehind
  <2> QED
    BY <1>3, <2>3 DEF Responded
<1>4. CASE ~s.done
  <2>1. t = responseByte(s, b, multiline)
    <3> HIDE DEF multiline, b
    <3>1. t = parsePopResponse(multiline)[b][s]
      BY DEF multiline, b
    <3> QED
      BY <1>2, <1>4, <3>1, RulesAre
  <2>2. Behind(s, i, c) /\ Responding(s, text, multiline, w, e, c)
    BY <1>4 DEF Responded
  <2>3. c < Len(text) /\ s.rest = << >> /\ b = text[c + 1]
    <3>1. c < Len(text) /\ s.rest = << >>
      BY <1>4, <2>2 DEF Behind
    <3>2. c + 1 \in 1 .. Len(text)
      BY <1>1, <1>2, <3>1
    <3> QED
      BY <1>1, <3>1, <3>2
  <2>4. t = responseByte(s, text[c + 1], multiline)
    BY <2>1, <2>3
  <2>5. Answer(text, multiline, w, e)
    OBVIOUS
  <2> HIDE DEF b, text, multiline
  <2>6. Answers(t, s, text, multiline, w, e, c)
    BY <1>1, <1>2, <1>4, <2>2, <2>4, <2>5, ResponseStep
  <2>7. t \in Scanner /\ t.rest = << >>
    BY <2>3, <2>6 DEF Answers
  <2>8. CASE t.done
    <3>1. c + 1 = Len(text) /\ t.out = text
      BY <2>6, <2>8 DEF Answers
    <3>2. Behind(t, i, c + 1)
      BY <2>7, <2>8, <3>1, NoneBehind DEF text
    <3> QED
      BY <2>7, <2>8, <3>1, <3>2 DEF Responded, text
  <2>9. CASE ~t.done
    <3>1. Responding(t, text, multiline, w, e, c + 1)
      BY <2>6, <2>9, SMTT(30) DEF Answers
    <3>2. Behind(t, i, c + 1)
      BY <2>7, <2>9, <3>1 DEF Behind, Responding, text
    <3> QED
      BY <2>7, <2>9, <3>1, <3>2 DEF Responded, text, multiline
  <2> QED
    BY <2>8, <2>9
<1> QED
  BY <1>3, <1>4

LEMMA ReplyCall ==
  ASSUME NEW i \in Saying, NEW w, NEW e, Answer(i.bytes, i.kind = "list", w, e),
         NEW s \in Scanner, NEW c \in Nat, Responded(s, i, w, e, c),
         NEW bytes, Comes(i, c, bytes),
         NEW t, t = Scan(parsePopResponse(i.kind = "list"), s, bytes)
  PROVE  /\ t \in Scanner /\ Responded(t, i, w, e, c + Len(bytes))
         /\ Writes(t) <= Len(i.bytes) /\ Writes(t) <= c + Len(bytes)
<1> DEFINE Good(n, u) == Responded(u, i, w, e, c + n)
           G == {r \in Nat \X Scanner : Good(r[1], r[2])}
           multiline == i.kind = "list"
           rules == parsePopResponse(multiline)
<1>1. /\ Len(Stream(i)) \in Nat /\ bytes \in Seq(Byte) /\ Len(bytes) \in Nat
      /\ c + Len(bytes) <= Len(Stream(i))
      /\ \A n \in 1 .. Len(bytes) : bytes[n] = Stream(i)[c + n]
  BY StreamIs, LenProperties DEF Comes
<1>2. rules \in Rules
  <2>1. multiline \in BOOLEAN
    OBVIOUS
  <2> QED
    BY <2>1, RulesType
<1>3. << 0, s >> \in G
  <2>1. c + 0 = c
    OBVIOUS
  <2>2. Good(0, s)
    BY <2>1
  <2> QED
    BY <2>2
<1>4. ASSUME NEW n \in 1 .. Len(bytes), NEW u \in Scanner, << n - 1, u >> \in G
      PROVE  << n, rules[bytes[n]][u] >> \in G
  <2> DEFINE v == rules[bytes[n]][u]
  <2>1. Good(n - 1, u)
    BY <1>4
  <2>2. /\ c + (n - 1) \in 0 .. Len(Stream(i)) - 1 /\ (c + (n - 1)) + 1 = c + n
        /\ n \in Nat /\ n - 1 \in Nat
    BY <1>1
  <2>3. v = rules[Stream(i)[(c + (n - 1)) + 1]][u]
    BY <1>1, <2>2
  <2> HIDE DEF v
  <2>4. v \in Scanner /\ Responded(v, i, w, e, (c + (n - 1)) + 1)
    BY <2>1, <2>2, <2>3, ReplyByte
  <2>5. Good(n, v)
    BY <2>2, <2>4
  <2> QED
    BY <2>2, <2>4, <2>5 DEF v
<1> HIDE DEF G, rules
<1>5. t \in Scanner /\ << Len(bytes), t >> \in G
  <2>1. \A n \in 1 .. Len(bytes), u \in Scanner :
          << n - 1, u >> \in G => << n, rules[bytes[n]][u] >> \in G
    BY <1>4
  <2>2. t = Scan(rules, s, bytes)
    BY DEF rules
  <2> QED
    BY <1>1, <1>2, <1>3, <2>1, <2>2, Scanned
<1>6. Responded(t, i, w, e, c + Len(bytes))
  BY <1>5 DEF G
<1>7. Writes(t) <= Len(i.bytes) /\ Writes(t) <= c + Len(bytes)
  <2>1. i.bytes \in Seq(Byte) /\ Len(i.bytes) \in Nat
    BY StreamIs
  <2>2. CASE t.done
    <3>1. t.out = i.bytes /\ c + Len(bytes) >= Len(i.bytes)
      BY <1>6, <2>2 DEF Responded, Behind
    <3> QED
      BY <2>1, <3>1 DEF Writes
  <2>3. CASE ~t.done
    <3> DEFINE d == c + Len(bytes)
               o == t.out
               h == t.held
               u == Upto(i.bytes, d)
    <3>1. d < Len(i.bytes) /\ o \o h = u
      BY <1>6, <2>3 DEF Responded, Responding
    <3>2. d \in 0 .. Len(i.bytes)
      BY <1>1, <2>1, <3>1
    <3>3. Len(u) = d
      BY <2>1, <3>2, UptoIs
    <3>4. o \in Seq(Output) /\ h \in Seq(Output)
      BY <1>5, ByteIsOutput DEF Scanner
    <3>5. Writes(t) = Len(o) /\ d \in Nat /\ d = c + Len(bytes)
      BY <1>1 DEF Writes
    <3> HIDE DEF d, o, h, u
    <3>6. Len(o \o h) = Len(o) + Len(h) /\ Len(o) \in Nat /\ Len(h) \in Nat
      BY <3>4, ConcatProperties, LenProperties
    <3> QED
      BY <2>1, <3>1, <3>3, <3>5, <3>6
  <2> QED
    BY <2>2, <2>3
<1> QED
  BY <1>5, <1>6, <1>7

-----------------------------------------------------------------------------
(* What parsePopResponse takes a reply for: of an empty listing, that it   *)
(* goes on, with a line that has a dot in it.                              *)
TakenFor(i) == IF EmptyListing(i) THEN [i EXCEPT !.bytes = @ \o EndLine] ELSE i

LEMMA EmptyIs ==
  ASSUME NEW i \in Saying, EmptyListing(i)
  PROVE  LET j == TakenFor(i) IN
         /\ j \in Saying /\ j.kind = "list" /\ Len(j.bytes) = Len(i.bytes) + 3
         /\ Len(Stream(i)) = Len(i.bytes) /\ Len(Stream(i)) < Len(Stream(j))
         /\ \A p \in 1 .. Len(Stream(i)) : Stream(i)[p] = Stream(j)[p]
         /\ \E e \in 1 .. Len(i.bytes) : Answer(j.bytes, TRUE, 3, e)
<1> DEFINE text == i.bytes
           N == Len(text)
           u == text \o EndLine
           j == TakenFor(i)
<1>1. text \in Seq(Byte) /\ N \in Nat /\ i.kind = "list" /\ i.behind = << >>
  BY StreamIs DEF EmptyListing
<1>2. j = [i EXCEPT !.bytes = u]
  BY DEF TakenFor
<1>3. PICK s \in 5 .. N : StatusLine(text, 3, s) /\ N = s + 3 /\ EndAt(text, s + 3)
  BY DEF EmptyListing
<1>4. EndLine \in Seq(Byte) /\ Len(EndLine) = 3
      /\ EndLine[1] = "." /\ EndLine[2] = CR /\ EndLine[3] = LF
  BY Bytes DEF EndLine
<1> HIDE DEF text, N, j
<1>5. /\ u \in Seq(Byte) /\ Len(u) = N + 3 /\ \A p \in 1 .. N : u[p] = text[p]
      /\ u[N + 1] = "." /\ u[N + 2] = CR /\ u[N + 3] = LF
  <2>1. /\ u \in Seq(Byte) /\ Len(u) = Len(text) + Len(EndLine)
        /\ \A p \in 1 .. Len(text) + Len(EndLine) :
             u[p] = IF p <= Len(text) THEN text[p] ELSE EndLine[p - Len(text)]
    <3> HIDE DEF u
    <3>1. u = text \o EndLine
      BY DEF u
    <3> QED
      BY <1>1, <1>4, <3>1, ConcatProperties
  <2>2. /\ N + 1 \in 1 .. N + 3 /\ N + 2 \in 1 .. N + 3 /\ N + 3 \in 1 .. N + 3
        /\ ~(N + 1 <= N) /\ ~(N + 2 <= N) /\ ~(N + 3 <= N)
        /\ (N + 1) - N = 1 /\ (N + 2) - N = 2 /\ (N + 3) - N = 3
        /\ \A p \in 1 .. N : p \in 1 .. N + 3 /\ p <= N
    BY <1>1
  <2> HIDE DEF u
  <2>3. N = Len(text)
    BY DEF N
  <2> QED
    BY <1>4, <2>1, <2>2, <2>3
<1> HIDE DEF u
<1>6. j \in Saying /\ j.kind = "list" /\ j.bytes = u /\ j.behind = << >>
  BY <1>1, <1>2, <1>5 DEF Saying
<1>7. /\ Len(Stream(i)) = N /\ N < Len(Stream(j))
      /\ \A p \in 1 .. N : Stream(i)[p] = Stream(j)[p]
  <2>1. Stream(i) = text
    BY <1>1, ConcatEmptySeq DEF Stream, text
  <2>2. Stream(j) = u
    BY <1>5, <1>6, ConcatEmptySeq DEF Stream
  <2> QED
    BY <1>1, <1>5, <2>1, <2>2 DEF N
<1>8. Answer(u, TRUE, 3, s)
  <2>1. s \in Nat /\ s >= 5 /\ N = s + 3
    BY <1>1, <1>3
  <2>2. /\ s \in 3 + 2 .. Len(text) /\ SubSeq(text, 1, 3) \in Words /\ CRLFAt(text, s)
        /\ \A k \in 3 + 2 .. s - 1 : ~CRLFAt(text, k)
    BY <1>3 DEF StatusLine
  <2>3. text[s + 1] = "." /\ text[s + 2] = CR /\ text[s + 3] = LF
    <3>1. (s + 3) - 2 = s + 1 /\ (s + 3) - 1 = s + 2
      BY <2>1
    <3> QED
      BY <1>3, <3>1 DEF EndAt, CRLFAt
  <2>4. \A k \in 1 .. s + 3 : u[k] = text[k]
    BY <1>5, <2>1
  <2>5. SubSeq(u, 1, 3) = SubSeq(text, 1, 3)
    <3>1. 3 \in 0 .. Len(u) /\ 3 \in 0 .. Len(text)
      BY <1>5, <2>1 DEF N
    <3>2. /\ Upto(u, 3) \in Seq(Byte) /\ Len(Upto(u, 3)) = 3
          /\ \A k \in 1 .. 3 : Upto(u, 3)[k] = u[k]
      BY <1>5, <3>1, UptoIs
    <3>3. /\ Upto(text, 3) \in Seq(Byte) /\ Len(Upto(text, 3)) = 3
          /\ \A k \in 1 .. 3 : Upto(text, 3)[k] = text[k]
      BY <1>1, <3>1, UptoIs
    <3>4. \A k \in 1 .. 3 : Upto(u, 3)[k] = Upto(text, 3)[k]
      <4>1. \A k \in 1 .. 3 : k \in 1 .. s + 3
        BY <2>1
      <4> QED
        BY <2>4, <3>2, <3>3, <4>1
    <3>5. Upto(u, 3) = Upto(text, 3)
      BY <3>2, <3>3, <3>4, SeqEqual
    <3> QED
      BY <3>5 DEF Upto
  <2>6. CRLFAt(u, s) /\ \A k \in 3 + 2 .. s - 1 : ~CRLFAt(u, k)
    <3>1. s - 1 \in 1 .. s + 3 /\ s \in 1 .. s + 3
          /\ \A k \in 3 + 2 .. s - 1 : k - 1 \in 1 .. s + 3 /\ k \in 1 .. s + 3
      BY <2>1
    <3> QED
      BY <2>2, <2>4, <3>1 DEF CRLFAt
  <2>7. StatusLine(u, 3, s)
    <3>1. s \in 3 + 2 .. Len(u) /\ 3 \in 3 .. 4
      BY <1>5, <2>1
    <3> QED
      BY <2>2, <2>5, <2>6, <3>1 DEF StatusLine
  <2>8. EndAt(u, Len(u))
    <3>1. /\ Len(u) = s + 6 /\ N + 1 = s + 4 /\ N + 2 = s + 5 /\ N + 3 = s + 6
          /\ (s + 6) - 3 = s + 3 /\ (s + 3) - 1 = s + 2 /\ (s + 6) - 2 = s + 4
          /\ (s + 6) - 1 = s + 5 /\ s + 2 \in 1 .. s + 3 /\ s + 3 \in 1 .. s + 3
      BY <1>5, <2>1
    <3>2. /\ u[s + 2] = CR /\ u[s + 3] = LF /\ u[s + 4] = "." /\ u[s + 5] = CR
          /\ u[s + 6] = LF
      BY <1>5, <2>3, <2>4, <3>1
    <3> QED
      BY <3>1, <3>2 DEF EndAt, CRLFAt
  <2>9. \A k \in s + 5 .. Len(u) - 1 : ~EndAt(u, k)
    <3>1. /\ Len(u) - 1 = s + 5 /\ N + 1 = s + 4 /\ N + 2 = s + 5 /\ (s + 5) - 1 = s + 4
          /\ \A k \in s + 5 .. Len(u) - 1 : k = s + 5
      BY <1>5, <2>1
    <3>2. u[s + 5] = CR
      BY <1>5, <3>1
    <3>3. ~EndAt(u, s + 5)
      BY <3>2, Bytes DEF EndAt, CRLFAt
    <3> QED
      BY <3>1, <3>3
  <2>10. Listing(u, s)
    <3>1. Len(u) >= s + 5
      BY <1>5, <2>1
    <3> QED
      BY <2>8, <2>9, <3>1 DEF Listing
  <2> QED
    BY <2>7, <2>10 DEF Answer
<1>9. s \in 1 .. N
  BY <1>1, <1>3
<1> QED
  BY <1>5, <1>6, <1>7, <1>8, <1>9 DEF text, N, j

(* What a state of the specification has in it: the stream has been read   *)
(* up to c.  Of a message the plain text up to f has come out of it; what  *)
(* of that is not in the pipe any more is with the client.  Of a reply     *)
(* nothing is with the client, or all, but of an empty listing nothing.    *)
Ahead(i, c) == SubSeq(Stream(i), c + 1, Len(Stream(i)))

CarriesMail(f, c) ==
  /\ left = Ahead(said, c) /\ Destuffed(response, said, c, Plain(said.bytes)[f])
  /\ IF filter.done THEN response.done /\ got = said.bytes
                    ELSE Stuffed(filter, said.bytes, f, pipe, got)

CarriesReply(w, e, c) ==
  /\ left = Ahead(said, c) /\ Answer(TakenFor(said).bytes, said.kind = "list", w, e)
  /\ IF response.done
     THEN Behind(response, said, c) /\ got = said.bytes /\ ~EmptyListing(said)
     ELSE Responded(response, TakenFor(said), w, e, c) /\ got = << >>

BytesInv ==
  /\ came \in 0 .. Len(left)
  /\ said \in Inputs /\ response \in Scanner /\ filter \in Scanner
  /\ pipe \in Seq(Byte) /\ got \in Seq(Output)
  /\ filter.out = << >> /\ (filter.done => ended)
  /\ IF said.kind = "mail"
     THEN /\ response.out = << >>
          /\ \E f \in 0 .. End(said.bytes), c \in 0 .. Len(Stream(said)) : CarriesMail(f, c)
     ELSE /\ pipe = << >> /\ filter = Fresh
          /\ \E w \in 3 .. 4, e \in 1 .. Len(said.bytes), c \in 0 .. Len(Stream(said)) :
               CarriesReply(w, e, c)

LEMMA TakenIs ==
  ASSUME NEW i \in Saying, NEW c \in 0 .. Len(Stream(i)), NEW n \in 0 .. Len(Ahead(i, c))
  PROVE  /\ Comes(i, c, Taken(Ahead(i, c), n)) /\ Len(Taken(Ahead(i, c), n)) = n
         /\ c + n \in 0 .. Len(Stream(i)) /\ Left(Ahead(i, c), n) = Ahead(i, c + n)
         /\ Len(Left(Ahead(i, c), n)) = Len(Ahead(i, c)) - n
         /\ c \in Nat /\ n \in Nat /\ Len(Ahead(i, c)) \in Nat
<1> DEFINE T == Stream(i)
           N == Len(T)
           a == Ahead(i, c)
<1>1. T \in Seq(Byte) /\ N \in Nat
  BY StreamIs
<1> HIDE DEF T
<1>2. c \in Nat /\ \A k \in 1 .. N : T[k] \in Byte
  BY <1>1, ElementOfSeq DEF T
<1>3. /\ a \in Seq(Byte) /\ Len(a) = N - c /\ \A k \in 1 .. N - c : a[k] = T[c + k]
  <2>1. c + 1 \in Int /\ N \in Int /\ \A k \in c + 1 .. N : T[k] \in Byte
    BY <1>1, <1>2
  <2>2. c <= N
    BY DEF T
  <2> DEFINE u == SubSeq(T, c + 1, N)
  <2>3. /\ u \in Seq(Byte) /\ Len(u) = IF c + 1 <= N THEN N - (c + 1) + 1 ELSE 0
        /\ \A k \in 1 .. N - (c + 1) + 1 : u[k] = T[(c + 1) + k - 1]
    BY <2>1, SubSeqProperties
  <2>4. N - (c + 1) + 1 = N - c /\ (~(c + 1 <= N) => N - c = 0)
        /\ \A k \in 1 .. N - c : (c + 1) + k - 1 = c + k
    BY <1>1, <1>2, <2>2
  <2>5. a = u
    BY DEF Ahead, T
  <2> HIDE DEF a, u, N
  <2> QED
    BY <2>3, <2>4, <2>5
<1>4. n \in Nat /\ n <= N - c /\ n \in 0 .. Len(a)
  <2>1. n \in 0 .. Len(a)
    OBVIOUS
  <2> HIDE DEF a, N
  <2> QED
    BY <1>1, <1>2, <1>3, <2>1
<1> HIDE DEF N, a
<1>5. Taken(a, n) \in Seq(Byte) /\ Len(Taken(a, n)) = n /\ \A k \in 1 .. n : Taken(a, n)[k] = a[k]
  BY <1>3, <1>4, UptoIs DEF Taken, Upto
<1>6. \A k \in 1 .. n : Taken(a, n)[k] = T[c + k]
  <2>1. \A k \in 1 .. n : k \in 1 .. N - c
    BY <1>1, <1>2, <1>4
  <2> QED
    BY <1>3, <1>5, <2>1, Zenon
<1>7. c + n \in 0 .. N /\ c + n <= N
  BY <1>1, <1>2, <1>4
<1>8. Left(a, n) = SubSeq(T, (c + n) + 1, N) /\ Len(Left(a, n)) = Len(a) - n
  <2> DEFINE p == SubSeq(a, n + 1, Len(a))
             q == SubSeq(T, (c + n) + 1, N)
  <2>1. /\ n + 1 \in Int /\ Len(a) \in Int /\ (c + n) + 1 \in Int /\ N \in Int
        /\ \A k \in n + 1 .. Len(a) : a[k] \in Byte
        /\ \A k \in (c + n) + 1 .. N : T[k] \in Byte
    <3>1. /\ n + 1 \in Int /\ Len(a) \in Int /\ (c + n) + 1 \in Int /\ N \in Int
          /\ \A k \in n + 1 .. Len(a) : k \in 1 .. Len(a)
          /\ \A k \in (c + n) + 1 .. N : k \in 1 .. N
      BY <1>1, <1>2, <1>3, <1>4
    <3> QED
      BY <1>2, <1>3, <3>1, ElementOfSeq
  <2>2. /\ p \in Seq(Byte) /\ Len(p) = IF n + 1 <= Len(a) THEN Len(a) - (n + 1) + 1 ELSE 0
        /\ \A k \in 1 .. Len(a) - (n + 1) + 1 : p[k] = a[(n + 1) + k - 1]
    BY <2>1, SubSeqProperties
  <2>3. /\ q \in Seq(Byte) /\ Len(q) = IF (c + n) + 1 <= N THEN N - ((c + n) + 1) + 1 ELSE 0
        /\ \A k \in 1 .. N - ((c + n) + 1) + 1 : q[k] = T[((c + n) + 1) + k - 1]
    BY <2>1, SubSeqProperties
  <2> HIDE DEF p, q
  <2> DEFINE m == N - (c + n)
  <2>4. /\ m \in Nat /\ Len(a) - (n + 1) + 1 = m /\ N - ((c + n) + 1) + 1 = m
        /\ (~(n + 1 <= Len(a)) => m = 0) /\ (~((c + n) + 1 <= N) => m = 0)
        /\ \A k \in 1 .. m : /\ (n + 1) + k - 1 = n + k /\ ((c + n) + 1) + k - 1 = c + (n + k)
                             /\ n + k \in 1 .. N - c
    BY <1>1, <1>2, <1>3, <1>4
  <2> HIDE DEF m
  <2>5. Len(p) = m /\ \A k \in 1 .. m : p[k] = a[n + k]
    BY <2>2, <2>4
  <2>6. Len(q) = m /\ \A k \in 1 .. m : q[k] = T[c + (n + k)]
    BY <2>3, <2>4
  <2>7. \A k \in 1 .. m : p[k] = q[k]
    BY <1>3, <2>4, <2>5, <2>6
  <2>8. p = q
    BY <2>2, <2>3, <2>5, <2>6, <2>7, SeqEqual
  <2>9. m = Len(a) - n
    BY <1>1, <1>2, <1>3, <1>4 DEF m
  <2> QED
    BY <2>5, <2>8, <2>9 DEF p, q, Left
<1>9. Len(a) \in Nat
  BY <1>3, LenProperties
<1> QED
  BY <1>2, <1>4, <1>5, <1>6, <1>7, <1>8, <1>9 DEF Comes, Ahead, T, N, a

LEMMA AheadIs ==
  ASSUME NEW i \in Saying
  PROVE  /\ Ahead(i, 0) = Stream(i)
         /\ \A c \in Len(i.bytes) .. Len(Stream(i)) :
              SubSeq(Stream(i), Len(i.bytes) + 1, c) \o Ahead(i, c) = i.behind
<1> DEFINE T == Stream(i)
           m == Len(i.bytes) + 1
<1>1. T \in Seq(Byte) /\ Len(T) \in Nat /\ Len(i.bytes) \in Nat /\ Len(i.bytes) <= Len(T)
  BY StreamIs
<1>2. SubSeq(T, m, Len(T)) = i.behind
  BY StreamIs
<1>3. Ahead(i, 0) = T
  BY <1>1, SubSeqFull DEF Ahead
<1>4. ASSUME NEW c \in Len(i.bytes) .. Len(T)
      PROVE  SubSeq(T, m, c) \o Ahead(i, c) = i.behind
  <2>1. m \in 1 .. Len(T) + 1 /\ c \in m - 1 .. Len(T) /\ Len(T) \in c .. Len(T)
    BY <1>1
  <2>2. Ahead(i, c) = SubSeq(T, c + 1, Len(T))
    BY DEF Ahead
  <2> HIDE DEF T, m
  <2>3. SubSeq(T, m, c) \o SubSeq(T, c + 1, Len(T)) = SubSeq(T, m, Len(T))
    BY <1>1, <2>1, ConcatAdjacentSubSeq
  <2> QED
    BY <1>2, <2>2, <2>3
<1> QED
  BY <1>3, <1>4

(* Writing what there is changes nothing else of a scanner.                *)
LEMMA FlushedIs ==
  ASSUME NEW s \in Scanner
  PROVE  /\ Flushed(s) \in Scanner /\ Flushed(s).out = << >> /\ Flushed(s).done = s.done
         /\ \A i, c, flow : Destuffed(s, i, c, flow) => Destuffed(Flushed(s), i, c, flow)
         /\ \A i, c : Behind(s, i, c) => Behind(Flushed(s), i, c)
         /\ \A text, f, rest, out :
              Stuffed(s, text, f, rest, out) => Stuffed(Flushed(s), text, f, rest, out)
<1> DEFINE t == Flushed(s)
<1>1. /\ t \in Scanner /\ t.out = << >> /\ t.done = s.done /\ t.state = s.state
      /\ t.held = s.held /\ t.rest = s.rest
  BY EmptySeq DEF Flushed, Scanner
<1> HIDE DEF t
<1>2. \A i, c : Behind(s, i, c) => Behind(t, i, c)
  BY <1>1 DEF Behind
<1>3. \A i, c, flow : Destuffed(s, i, c, flow) => Destuffed(t, i, c, flow)
  BY <1>1, <1>2, Zenon DEF Destuffed, Destuffs
<1>4. \A text, f, rest, out : Stuffed(s, text, f, rest, out) => Stuffed(t, text, f, rest, out)
  BY <1>1, Zenon DEF Stuffed, Stuffs
<1> QED
  BY <1>1, <1>2, <1>3, <1>4, Zenon DEF t

LEMMA BytesInit ==
  ASSUME Regular, Init
  PROVE  BytesInv /\ written = 0
<1> DEFINE text == said.bytes
<1>1. said \in Inputs /\ said \in Saying /\ came = 0
  BY InputsAre DEF Init
<1>2. /\ text \in Seq(Byte) /\ Len(text) \in Nat /\ Len(Stream(said)) \in Nat
      /\ Len(text) <= Len(Stream(said)) /\ left = Ahead(said, 0) /\ came \in 0 .. Len(left)
  <2>1. left = Stream(said)
    BY DEF Init, Stream
  <2>2. /\ text \in Seq(Byte) /\ Len(text) \in Nat /\ Len(Stream(said)) \in Nat
        /\ Len(text) <= Len(Stream(said)) /\ Stream(said) = Ahead(said, 0)
    BY <1>1, StreamIs, AheadIs
  <2>3. 0 \in 0 .. Len(Stream(said))
    BY <2>2
  <2> HIDE DEF text
  <2> QED
    BY <1>1, <2>1, <2>2, <2>3
<1>3. /\ response = Fresh /\ filter = Fresh /\ pipe = << >> /\ got = << >> /\ written = 0
  BY DEF Init
<1>4. /\ Fresh \in Scanner /\ Fresh.state = "fresh" /\ Fresh.held = << >> /\ Fresh.out = << >>
      /\ ~Fresh.done /\ Fresh.rest = << >> /\ << >> \in Seq(Byte) /\ << >> \in Seq(Output)
  BY EmptySeq DEF Fresh, Scanner, State
<1>5. ASSUME 0 < Len(text)
      PROVE  Behind(Fresh, said, 0) /\ 0 \in 0 .. Len(Stream(said))
  BY <1>2, <1>4, <1>5 DEF Behind
<1>6. << >> \o << >> = << >>
  BY <1>4, ConcatEmptySeq
<1>7. CASE said.kind = "mail"
  <2>1. Message(text)
    BY <1>1, <1>7 DEF Regular
  <2>2. Len(text) >= 3 /\ End(text) \in Nat
    BY <1>2, <2>1, MessageIs
  <2>3. Plain(text)[0] = << >> /\ Upto(text, 0) = << >>
    BY <1>2, PlainType, UptoEnds
  <2>4. At("fresh", << >>, text, 0)
    BY DEF At, AtBegin, LineStart
  <2>5. 0 - Need("fresh") = 0
    <3>1. Need("fresh") = 0
      BY DEF Need
    <3> QED
      BY <3>1
  <2>6. Destuffs(Fresh, text, 0)
    <3>1. 0 < Len(text) /\ 0 - Need("fresh") \in 0 .. End(text)
      BY <1>2, <2>2, <2>5
    <3> QED
      BY <1>4, <2>4, <3>1 DEF Destuffs
  <2>7. Destuffed(Fresh, said, 0, Plain(text)[0])
    <3>1. Behind(Fresh, said, 0)
      BY <1>2, <1>5, <2>2
    <3> QED
      BY <1>4, <2>5, <2>6, <3>1 DEF Destuffed
  <2>8. Stuffs(Fresh, text, 0) /\ 0 \in 0 .. End(text)
    BY <1>4, <2>2, <2>4 DEF Stuffs
  <2>9. Stuffed(Fresh, text, 0, << >>, << >>)
    BY <1>4, <1>6, <2>3, <2>5, <2>8 DEF Stuffed
  <2>10. CarriesMail(0, 0)
    BY <1>2, <1>3, <1>4, <2>7, <2>9 DEF CarriesMail
  <2>11. 0 \in 0 .. Len(Stream(said))
    BY <1>2
  <2> QED
    BY <1>1, <1>2, <1>3, <1>4, <1>7, <2>8, <2>10, <2>11 DEF BytesInv
<1>8. CASE said.kind # "mail"
  <2> DEFINE i == TakenFor(said)
             whole == i.bytes
  <2>1. /\ i \in Saying /\ i.kind = said.kind
        /\ \E w \in 3 .. 4, e \in 1 .. Len(text) : Answer(whole, said.kind = "list", w, e)
    <3>1. CASE EmptyListing(said)
      <4>1. 3 \in 3 .. 4 /\ said.kind = "list"
        BY <3>1 DEF EmptyListing
      <4> QED
        BY <1>1, <3>1, <4>1, EmptyIs
    <3>2. CASE ~EmptyListing(said)
      <4>1. i = said
        BY <3>2 DEF TakenFor
      <4> QED
        BY <1>1, <1>8, <3>2, <4>1 DEF Regular, Reply, Answer
    <3> QED
      BY <3>1, <3>2
  <2> HIDE DEF i
  <2>2. PICK w \in 3 .. 4, e \in 1 .. Len(text) : Answer(whole, said.kind = "list", w, e)
    BY <2>1
  <2>3. whole \in Seq(Byte) /\ 0 < Len(whole) /\ Len(whole) \in Nat /\ 0 < w
    <3>1. whole \in Seq(Byte)
      BY <2>1, StreamIs
    <3> QED
      BY <2>2, <3>1, AnswerIs
  <2>4. Within("fresh", << >>, whole, said.kind = "list", w, e, 0)
    BY <2>3, UptoEnds DEF Within
  <2>5. Responding(Fresh, whole, said.kind = "list", w, e, 0)
    BY <1>4, <1>6, <2>3, <2>4, UptoEnds DEF Responding
  <2>6. Responded(Fresh, i, w, e, 0)
    <3>1. Behind(Fresh, i, 0)
      BY <1>4, <2>3 DEF Behind
    <3> QED
      BY <1>4, <2>1, <2>5, <3>1 DEF Responded
  <2>8. CarriesReply(w, e, 0)
    BY <1>2, <1>3, <1>4, <2>2, <2>6 DEF CarriesReply, i
  <2>7. 0 \in 0 .. Len(Stream(said))
    BY <1>2
  <2> QED
    BY <1>1, <1>2, <1>3, <1>4, <1>8, <2>2, <2>7, <2>8 DEF BytesInv
<1> QED
  BY <1>3, <1>7, <1>8

LEMMA FeedStep ==
  ASSUME Regular, BytesInv, Feed
  PROVE  BytesInv' /\ written' \in 0 .. BufSize
<1> DEFINE text == said.bytes
           N == Len(Stream(said))
<1>1. said \in Inputs /\ said \in Saying /\ said.kind = "mail" /\ ~response.done
      /\ came \in 0 .. Len(left)
  BY InputsAre DEF Feed, BytesInv
<1>2. Message(text)
  BY <1>1 DEF Regular
<1>3. PICK f \in 0 .. End(text), c \in 0 .. N : CarriesMail(f, c)
  BY <1>1 DEF BytesInv
<1>4. PICK n \in Fills(response) :
        LET s == Scan(destuffMail, response, Taken(left, n))
        IN  /\ response' = Flushed(s) /\ pipe' = pipe \o s.out
            /\ written' = Len(s.out) /\ left' = Left(left, n) /\ came' = came - n
  BY DEF Feed
<1> DEFINE bytes == Taken(left, n)
           t == Scan(destuffMail, response, bytes)
<1>5. /\ text \in Seq(Byte) /\ Len(text) \in Nat /\ End(text) \in Nat /\ End(text) + 3 = Len(text)
  BY <1>1, <1>2, StreamIs, MessageIs
<1>6. /\ left = Ahead(said, c) /\ Destuffed(response, said, c, Plain(text)[f])
      /\ ~filter.done /\ Stuffed(filter, text, f, pipe, got)
  BY <1>1, <1>3 DEF CarriesMail
<1>7. n \in 0 .. came /\ n \in 0 .. Len(left) /\ n <= BufSize - Len(response.held)
  BY <1>1 DEF Fills, Room
<1>8. /\ Comes(said, c, bytes) /\ Len(bytes) = n /\ c + n \in 0 .. N
      /\ left' = Ahead(said, c + n) /\ c \in Nat /\ n \in Nat
      /\ Len(left') = Len(left) - n /\ Len(left) \in Nat
  <2>1. n \in 0 .. Len(Ahead(said, c))
    BY <1>6, <1>7
  <2> QED
    BY <1>1, <1>4, <1>6, <2>1, TakenIs
<1>9. response \in Scanner /\ response.out = << >> /\ filter \in Scanner /\ pipe \in Seq(Byte)
      /\ got \in Seq(Output) /\ filter.out = << >>
  BY <1>1 DEF BytesInv
<1>10. Plain(text)[f] \in Seq(Byte)
  <2>1. f \in 0 .. Len(text)
    BY <1>5
  <2> QED
    BY <1>5, <2>1, PlainType
<1>11. /\ response' = Flushed(t) /\ pipe' = pipe \o t.out /\ written' = Len(t.out)
       /\ said' = said /\ filter' = filter /\ ended' = ended /\ got' = got
  BY <1>4 DEF Feed
<1>12. /\ t \in Scanner /\ t.out \in Seq(Byte)
       /\ Destuffed(t, said, c + n, Plain(text)[f] \o t.out)
       /\ Writes(t) <= Holds(response) + n
  <2> HIDE DEF bytes, t
  <2>1. t = Scan(destuffMail, response, bytes)
    BY DEF t
  <2>2. /\ t \in Scanner /\ t.out \in Seq(Byte)
        /\ Destuffed(t, said, c + Len(bytes), Plain(text)[f] \o t.out)
        /\ Writes(t) <= Holds(response) + Len(bytes)
    BY <1>1, <1>2, <1>6, <1>8, <1>9, <1>10, <2>1, DestuffCall
  <2> QED
    BY <1>8, <2>2
<1> HIDE DEF bytes, t
<1>13. PICK g \in 0 .. End(text) : Plain(text)[g] = Plain(text)[f] \o t.out
  <2>1. CASE t.done
    <3>1. Plain(text)[f] \o t.out = Plain(text)[End(text)]
      BY <1>12, <2>1 DEF Destuffed
    <3>2. End(text) \in 0 .. End(text)
      BY <1>5
    <3> QED
      BY <3>1, <3>2
  <2>2. CASE ~t.done
    BY <1>12, <2>2 DEF Destuffed, Destuffs
  <2> QED
    BY <2>1, <2>2
<1>14. Destuffed(response', said, c + n, Plain(text)[g]) /\ response' \in Scanner
       /\ response'.out = << >>
  BY <1>11, <1>12, <1>13, FlushedIs
<1>15. Stuffed(filter, text, g, pipe \o t.out, got)
  <2>1. PICK e \in 0 .. End(text) :
          /\ Stuffs(filter, text, e) /\ Plain(text)[e] \o pipe = Plain(text)[f]
          /\ got = Upto(text, e - Need(filter.state))
    BY <1>6 DEF Stuffed
  <2>2. Plain(text)[e] \in Seq(Byte)
    <3>1. e \in 0 .. Len(text)
      BY <1>5
    <3> QED
      BY <1>5, <3>1, PlainType
  <2>3. (Plain(text)[e] \o pipe) \o t.out = Plain(text)[e] \o (pipe \o t.out)
    BY <1>9, <1>12, <2>2, AssociativeBytes, Zenon
  <2>4. Plain(text)[e] \o (pipe \o t.out) = Plain(text)[g]
    BY <1>13, <2>1, <2>3
  <2> QED
    BY <1>6, <2>1, <2>4 DEF Stuffed
<1>16. pipe \o t.out \in Seq(Byte)
  BY <1>9, <1>12, ConcatProperties
<1>17. CarriesMail(g, c + n)'
  BY <1>6, <1>8, <1>11, <1>14, <1>15 DEF CarriesMail
<1>18. written' \in 0 .. BufSize
  <2>1. Writes(t) \in Nat /\ Holds(response) \in Nat
    BY <1>9, <1>12, LenProperties DEF Scanner, Writes, Holds
  <2>2. n <= BufSize - Holds(response) /\ written' = Writes(t) /\ BufSize \in Nat
    BY <1>7, <1>11, ReplyBytesAssumption DEF Holds, Writes
  <2>3. Writes(t) <= Holds(response) + n
    BY <1>12
  <2> QED
    BY ONLY <1>8, <2>1, <2>2, <2>3
<1>19. BytesInv'
  <2>1. c + n \in 0 .. Len(Stream(said))'
    BY <1>8, <1>11
  <2>2. g \in 0 .. End(said.bytes)'
    BY <1>11
  <2>3. /\ said' \in Inputs /\ response' \in Scanner /\ filter' \in Scanner /\ pipe' \in Seq(Byte)
        /\ got' \in Seq(Output) /\ filter'.out = << >> /\ ~filter'.done /\ said'.kind = "mail"
        /\ response'.out = << >>
    BY <1>1, <1>6, <1>9, <1>11, <1>14, <1>16
  <2>4. came' \in 0 .. Len(left')
    BY <1>1, <1>4, <1>7, <1>8
  <2> QED
    BY <1>17, <2>1, <2>2, <2>3, <2>4 DEF BytesInv
<1> QED
  BY <1>18, <1>19

LEMMA DrainStep ==
  ASSUME Regular, BytesInv, Drain
  PROVE  BytesInv' /\ written' \in 0 .. 2 * BufSize
<1> DEFINE text == said.bytes
           N == Len(Stream(said))
<1>1. said \in Inputs /\ said \in Saying /\ ~filter.done
      /\ came \in 0 .. Len(left) /\ came' = came
  BY InputsAre DEF Drain, BytesInv, netVars
<1>2. PICK n \in Reads(filter, pipe) :
        LET s == Scan(stuffMail, filter, Taken(pipe, n))
        IN  /\ filter' = Flushed(s) /\ got' = got \o s.out
            /\ written' = Len(s.out) /\ pipe' = Left(pipe, n)
  BY DEF Drain
<1>3. n \in 1 .. Len(pipe) /\ n <= BufSize - Len(filter.held)
  BY DEF Reads, Room
<1>4. response \in Scanner /\ filter \in Scanner /\ pipe \in Seq(Byte)
      /\ got \in Seq(Output) /\ filter.out = << >>
  BY DEF BytesInv
<1>5. said.kind = "mail" /\ response.out = << >>
  <2>1. pipe # << >>
    BY <1>3
  <2> QED
    BY <2>1 DEF BytesInv
<1>6. Message(text)
  BY <1>1, <1>5 DEF Regular
<1>7. PICK f \in 0 .. End(text), c \in 0 .. N : CarriesMail(f, c)
  BY <1>5 DEF BytesInv
<1>8. /\ left = Ahead(said, c) /\ Destuffed(response, said, c, Plain(text)[f])
      /\ Stuffed(filter, text, f, pipe, got)
  BY <1>1, <1>7 DEF CarriesMail
<1> DEFINE t == Scan(stuffMail, filter, Taken(pipe, n))
<1>9. /\ filter' = Flushed(t) /\ got' = got \o t.out /\ written' = Len(t.out)
      /\ pipe' = Left(pipe, n) /\ said' = said /\ left' = left /\ response' = response
      /\ ended' = ended
  BY <1>2 DEF Drain, netVars
<1>10. /\ t \in Scanner /\ Stuffed(t, text, f, Left(pipe, n), got \o t.out)
       /\ Writes(t) <= 2 * Holds(filter) + 2 * n
  <2> HIDE DEF t
  <2>1. t = Scan(stuffMail, filter, Taken(pipe, n)) /\ text \in Seq(Byte)
    BY <1>1, StreamIs DEF t
  <2> QED
    BY <1>3, <1>4, <1>6, <1>8, <2>1, StuffCall
<1> HIDE DEF t
<1>11. /\ filter' \in Scanner /\ filter'.out = << >> /\ ~filter'.done
       /\ Stuffed(filter', text, f, Left(pipe, n), got \o t.out)
  <2>1. ~t.done
    BY <1>10 DEF Stuffed
  <2> QED
    BY <1>9, <1>10, <2>1, FlushedIs
<1>12. got \o t.out \in Seq(Output)
  BY <1>4, <1>10, ConcatProperties DEF Scanner
<1>13. Left(pipe, n) \in Seq(Byte)
  <2>1. n \in 0 .. Len(pipe)
    BY <1>3
  <2> QED
    BY <1>4, <2>1, Cut DEF Left
<1>14. CarriesMail(f, c)'
  BY <1>8, <1>9, <1>11 DEF CarriesMail
<1>15. BytesInv'
  <2>1. c \in 0 .. Len(Stream(said))' /\ f \in 0 .. End(said.bytes)'
    BY <1>9
  <2>2. /\ said' \in Inputs /\ response' \in Scanner /\ filter' \in Scanner /\ pipe' \in Seq(Byte)
        /\ got' \in Seq(Output) /\ filter'.out = << >> /\ ~filter'.done /\ said'.kind = "mail"
        /\ response'.out = << >>
    BY <1>1, <1>4, <1>5, <1>9, <1>11, <1>12, <1>13
  <2> QED
    BY <1>1, <1>9, <1>14, <2>1, <2>2 DEF BytesInv
<1>16. written' \in 0 .. 2 * BufSize
  <2>1. Writes(t) \in Nat /\ Holds(filter) \in Nat /\ n \in Nat
    BY <1>3, <1>4, <1>10, LenProperties DEF Scanner, Writes, Holds
  <2>2. n <= BufSize - Holds(filter) /\ written' = Writes(t) /\ BufSize \in Nat
    BY <1>3, <1>9, ReplyBytesAssumption DEF Holds, Writes
  <2>3. Writes(t) <= 2 * Holds(filter) + 2 * n
    BY <1>10
  <2> QED
    BY ONLY <2>1, <2>2, <2>3
<1> QED
  BY <1>15, <1>16

LEMMA DrainEndStep ==
  ASSUME Regular, BytesInv, DrainEnd
  PROVE  BytesInv' /\ written' = 3
<1> DEFINE text == said.bytes
           N == Len(Stream(said))
           t == stuffNothing(filter)
<1>1. /\ said \in Inputs /\ said \in Saying /\ came \in 0 .. Len(left) /\ came' = came
      /\ response.done /\ pipe = << >> /\ ~ended /\ filter.state # "fresh"
      /\ ended' = TRUE /\ filter' = Flushed(t) /\ got' = got \o t.out /\ written' = Len(t.out)
      /\ said' = said /\ left' = left /\ response' = response /\ pipe' = pipe
  BY InputsAre DEF DrainEnd, BytesInv, netVars
<1>2. response \in Scanner /\ filter \in Scanner /\ got \in Seq(Output) /\ filter.out = << >>
      /\ ~filter.done /\ pipe \in Seq(Byte)
  BY <1>1 DEF BytesInv
<1>3. said.kind = "mail" /\ response.out = << >>
  <2>1. filter # Fresh
    BY <1>1 DEF Fresh
  <2> QED
    BY <2>1 DEF BytesInv
<1>4. text \in Seq(Byte) /\ Message(text)
  BY <1>1, <1>3, StreamIs DEF Regular
<1>5. PICK f \in 0 .. End(text), c \in 0 .. N : CarriesMail(f, c)
  BY <1>3 DEF BytesInv
<1>6. /\ left = Ahead(said, c) /\ Destuffed(response, said, c, Plain(text)[f])
      /\ Stuffed(filter, text, f, << >>, got)
  BY <1>1, <1>2, <1>5 DEF CarriesMail
<1>7. Plain(text)[f] = Plain(text)[End(text)]
  BY <1>1, <1>6 DEF Destuffed
<1>8. Stuffed(filter, text, End(text), << >>, got)
  BY <1>6, <1>7 DEF Stuffed
<1>9. t \in Scanner /\ t.done /\ got \o t.out = text /\ Writes(t) = 3
  <2>1. t = stuffNothing(filter) /\ filter.state # "fresh" /\ filter.out = << >>
        /\ filter \in Scanner /\ got \in Seq(Output)
    BY <1>1, <1>2
  <2> HIDE DEF t, text
  <2> QED
    BY <1>4, <1>8, <2>1, StuffEnd
<1> HIDE DEF t
<1>10. filter' \in Scanner /\ filter'.out = << >> /\ filter'.done
  BY <1>1, <1>9, FlushedIs
<1>11. CarriesMail(f, c)'
  BY <1>1, <1>6, <1>9, <1>10 DEF CarriesMail
<1>12. BytesInv'
  <2>1. c \in 0 .. Len(Stream(said))' /\ f \in 0 .. End(said.bytes)'
    BY <1>1
  <2>2. text \in Seq(Output)
    BY <1>4, ByteIsOutput
  <2>3. /\ said' \in Inputs /\ response' \in Scanner /\ filter' \in Scanner /\ pipe' \in Seq(Byte)
        /\ got' \in Seq(Output) /\ filter'.out = << >> /\ ended' /\ said'.kind = "mail"
        /\ response'.out = << >>
    BY <1>1, <1>2, <1>3, <1>9, <1>10, <2>2
  <2> QED
    BY <1>1, <1>11, <2>1, <2>3 DEF BytesInv
<1> QED
  BY <1>1, <1>9, <1>12 DEF Writes

LEMMA RespondStep ==
  ASSUME Regular, BytesInv, Respond
  PROVE  BytesInv' /\ written' \in 0 .. Len(said.bytes) /\ said \in Inputs /\ said.kind # "mail"
<1> DEFINE text == said.bytes
           N == Len(Stream(said))
           multiline == said.kind = "list"
           i == TakenFor(said)
<1>1. /\ said \in Inputs /\ said \in Saying /\ said.kind # "mail" /\ ~response.done
      /\ came \in 0 .. Len(left)
  BY InputsAre DEF Respond, BytesInv
<1>2. PICK n \in Fills(response) :
        LET s == Scan(parsePopResponse(multiline), response, Taken(left, n))
        IN  /\ response' = IF s.done THEN Flushed(s) ELSE s
            /\ got' = IF s.done THEN got \o s.out ELSE got
            /\ written' = Len(s.out) /\ left' = Left(left, n) /\ came' = came - n
  BY DEF Respond
<1> DEFINE bytes == Taken(left, n)
           t == Scan(parsePopResponse(multiline), response, bytes)
<1>3. /\ response \in Scanner /\ filter \in Scanner /\ got \in Seq(Output) /\ filter.out = << >>
      /\ (filter.done => ended) /\ pipe = << >> /\ pipe \in Seq(Byte) /\ filter = Fresh
  BY <1>1 DEF BytesInv
<1>4. PICK w \in 3 .. 4, e \in 1 .. Len(text), c \in 0 .. N : CarriesReply(w, e, c)
  BY <1>1 DEF BytesInv
<1>5. /\ left = Ahead(said, c) /\ Answer(i.bytes, multiline, w, e)
      /\ Responded(response, i, w, e, c) /\ got = << >>
  BY <1>1, <1>4 DEF CarriesReply
<1>6. /\ Comes(said, c, bytes) /\ Len(bytes) = n /\ c + n \in 0 .. N
      /\ left' = Ahead(said, c + n) /\ c \in Nat /\ n \in Nat /\ came' \in 0 .. Len(left')
  <2>1. n \in 0 .. came /\ n \in 0 .. Len(left)
    BY <1>1 DEF Fills
  <2>2. n \in 0 .. Len(Ahead(said, c))
    BY <1>5, <2>1
  <2>3. /\ Comes(said, c, bytes) /\ Len(bytes) = n /\ c + n \in 0 .. N
        /\ left' = Ahead(said, c + n) /\ c \in Nat /\ n \in Nat
        /\ Len(left') = Len(left) - n /\ Len(left) \in Nat
    BY <1>1, <1>2, <1>5, <2>2, TakenIs
  <2>4. came' \in 0 .. Len(left')
    BY <1>1, <1>2, <2>1, <2>3
  <2> QED
    BY <2>3, <2>4
<1>7. /\ response' = (IF t.done THEN Flushed(t) ELSE t)
      /\ got' = (IF t.done THEN got \o t.out ELSE got) /\ written' = Len(t.out)
      /\ said' = said /\ pipe' = pipe /\ filter' = filter /\ ended' = ended
  BY <1>2 DEF Respond
<1>8. text \in Seq(Byte) /\ text \in Seq(Output) /\ Len(text) \in Nat
  BY <1>1, StreamIs, ByteIsOutput
<1>9. /\ i \in Saying /\ i.kind = said.kind /\ Comes(i, c, bytes)
      /\ EmptyListing(said) => Len(i.bytes) > N /\ N = Len(text)
      /\ ~EmptyListing(said) => i = said
  <2>1. CASE EmptyListing(said)
    <3>1. /\ i \in Saying /\ i.kind = "list" /\ Len(i.bytes) = Len(text) + 3 /\ N = Len(text)
          /\ N < Len(Stream(i)) /\ \A p \in 1 .. N : Stream(said)[p] = Stream(i)[p]
      BY <1>1, <2>1, EmptyIs
    <3>2. said.kind = "list"
      BY <2>1 DEF EmptyListing
    <3>3. Len(Stream(i)) \in Nat
      BY <3>1, StreamIs
    <3>4. Comes(i, c, bytes)
      <4>1. /\ bytes \in Seq(Byte) /\ c + Len(bytes) <= N
            /\ \A k \in 1 .. Len(bytes) : bytes[k] = Stream(said)[c + k]
        BY <1>6 DEF Comes
      <4>2. /\ \A k \in 1 .. Len(bytes) : c + k \in 1 .. N
            /\ c + Len(bytes) <= Len(Stream(i))
        <5>1. N \in Nat
          BY <1>1, StreamIs
        <5> HIDE DEF N, i, bytes
        <5>2. Len(bytes) \in Nat
          BY <1>6
        <5> QED
          BY <1>6, <3>1, <3>3, <4>1, <5>1, <5>2
      <4> HIDE DEF i, bytes, N
      <4> QED
        BY <3>1, <4>1, <4>2 DEF Comes
    <3> HIDE DEF i, N, text
    <3> QED
      BY <1>8, <2>1, <3>1, <3>2, <3>4
  <2>2. CASE ~EmptyListing(said)
    <3>1. i = said
      BY <2>2 DEF TakenFor
    <3> QED
      BY <1>1, <1>6, <2>2, <3>1
  <2> QED
    BY <2>1, <2>2
<1> HIDE DEF i
<1>10. /\ t \in Scanner /\ Responded(t, i, w, e, c + n)
       /\ Writes(t) <= Len(i.bytes) /\ Writes(t) <= c + n
  <2> HIDE DEF bytes, t
  <2>1. t = Scan(parsePopResponse(i.kind = "list"), response, bytes)
    BY <1>9 DEF t
  <2>2. Answer(i.bytes, i.kind = "list", w, e)
    BY <1>5, <1>9
  <2>3. /\ t \in Scanner /\ Responded(t, i, w, e, c + Len(bytes))
        /\ Writes(t) <= Len(i.bytes) /\ Writes(t) <= c + Len(bytes)
    BY <1>3, <1>5, <1>6, <1>9, <2>1, <2>2, ReplyCall
  <2> QED
    BY <1>6, <2>3
<1> HIDE DEF bytes, t
<1>11. Writes(t) <= Len(text) /\ (EmptyListing(said) => ~t.done)
  <2>1. CASE EmptyListing(said)
    <3>1. c + n <= N /\ Len(i.bytes) > N /\ N = Len(text) /\ N \in Nat
      BY <1>6, <1>8, <1>9, <2>1
    <3>2. t.done => c + n >= Len(i.bytes)
      BY <1>10 DEF Responded, Behind
    <3>3. Len(i.bytes) \in Nat /\ Writes(t) \in Nat
      BY <1>9, <1>10, StreamIs, LenProperties DEF Scanner, Writes
    <3> HIDE DEF N, text
    <3> QED
      BY <1>6, <1>10, <3>1, <3>2, <3>3
  <2>2. CASE ~EmptyListing(said)
    BY <1>9, <1>10, <2>2
  <2> QED
    BY <2>1, <2>2
<1>12. CarriesReply(w, e, c + n)' /\ response' \in Scanner /\ got' \in Seq(Output)
  <2>1. CASE t.done
    <3>1. i = said /\ ~EmptyListing(said)
      BY <1>9, <1>11, <2>1
    <3>2. Behind(t, said, c + n) /\ t.out = text
      BY <1>10, <2>1, <3>1 DEF Responded
    <3>3. response' = Flushed(t) /\ got' = << >> \o text
      BY <1>5, <1>7, <2>1, <3>2
    <3>4. got' = text
      BY <1>8, <3>3, ConcatEmptySeq
    <3>5. response' \in Scanner /\ response'.done /\ Behind(response', said, c + n)
      BY <1>10, <2>1, <3>2, <3>3, FlushedIs
    <3> QED
      BY <1>5, <1>6, <1>7, <1>8, <3>1, <3>4, <3>5 DEF CarriesReply, i
  <2>2. CASE ~t.done
    <3>1. response' = t /\ got' = << >>
      BY <1>5, <1>7, <2>2
    <3> QED
      BY <1>3, <1>5, <1>6, <1>7, <1>10, <2>2, <3>1 DEF CarriesReply, i
  <2> QED
    BY <2>1, <2>2
<1>13. BytesInv'
  <2>1. c + n \in 0 .. Len(Stream(said))' /\ e \in 1 .. Len(said.bytes)'
    BY <1>6, <1>7
  <2>2. /\ said' \in Inputs /\ filter' \in Scanner /\ pipe' \in Seq(Byte) /\ pipe' = << >>
        /\ filter' = Fresh /\ filter'.out = << >> /\ (filter'.done => ended')
        /\ said'.kind # "mail"
    BY <1>1, <1>3, <1>7
  <2> QED
    BY <1>6, <1>12, <2>1, <2>2 DEF BytesInv
<1>14. written' \in 0 .. Len(text)
  <2>1. Writes(t) \in Nat /\ Len(text) \in Nat /\ written' = Writes(t)
    BY <1>7, <1>8, <1>10, LenProperties DEF Scanner, Writes
  <2>2. Writes(t) <= Len(text)
    BY <1>11
  <2> QED
    BY ONLY <2>1, <2>2
<1> QED
  BY <1>1, <1>13, <1>14

(* What comes and what epoll reports of it is no step of a scanner.        *)
LEMMA BytesApart ==
  ASSUME BytesInv, came' \in 0 .. Len(left),
         UNCHANGED << said, left, response, pipe, filter, ended, written, got >>
  PROVE  BytesInv' /\ written' = written
<1>1. /\ said' = said /\ left' = left /\ response' = response /\ pipe' = pipe
      /\ filter' = filter /\ ended' = ended /\ written' = written /\ got' = got
  OBVIOUS
<1>2. \A f, c : CarriesMail(f, c) => CarriesMail(f, c)'
  BY <1>1 DEF CarriesMail
<1>3. \A w, e, c : CarriesReply(w, e, c) => CarriesReply(w, e, c)'
  BY <1>1 DEF CarriesReply
<1> QED
  BY <1>1, <1>2, <1>3 DEF BytesInv

LEMMA BytesStay ==
  ASSUME BytesInv, Arrives \/ Poll \/ UNCHANGED vars
  PROVE  BytesInv' /\ written' = written
<1>1. /\ came' \in 0 .. Len(left)
      /\ UNCHANGED << said, left, response, pipe, filter, ended, written, got >>
  <2>1. came \in 0 .. Len(left)
    BY DEF BytesInv
  <2>2. CASE Arrives
    BY <2>1, <2>2 DEF Arrives
  <2>3. CASE Poll
    BY <2>1, <2>3 DEF Poll
  <2>4. CASE UNCHANGED vars
    BY <2>1, <2>4 DEF vars, netVars
  <2> QED
    BY <2>2, <2>3, <2>4
<1> QED
  BY <1>1, BytesApart

(* The invariant holds of every step, whichever way reads cut the bytes.   *)
LEMMA BytesKept ==
  ASSUME Regular
  PROVE  Spec => []BytesInv
<1>1. Init => BytesInv
  BY BytesInit
<1>2. BytesInv /\ [Next]_vars => BytesInv'
  BY FeedStep, DrainStep, DrainEndStep, RespondStep, BytesStay DEF Next, Loop
<1> QED
  BY <1>1, <1>2, PTL DEF Spec

LEMMA StartsWith ==
  ASSUME NEW text \in Seq(Byte), NEW p \in 0 .. Len(text)
  PROVE  IsPrefix(Upto(text, p), text)
<1>1. Upto(text, p) \in Seq(Byte) /\ Len(Upto(text, p)) = p
      /\ \A k \in 1 .. p : Upto(text, p)[k] = text[k]
  BY UptoIs
<1>2. p <= Len(text)
  BY LenProperties
<1> QED
  BY <1>1, <1>2, PrefixIs

LEMMA VerbatimNow ==
  ASSUME Regular, BytesInv
  PROVE  BytesVerbatim
<1> DEFINE text == said.bytes
<1>1. said \in Inputs /\ said \in Saying /\ response \in Scanner /\ filter \in Scanner
  BY InputsAre DEF BytesInv
<1>2. text \in Seq(Byte) /\ Len(text) \in Nat /\ Upto(text, Len(text)) = text
      /\ Upto(text, 0) = << >>
  BY <1>1, StreamIs, UptoEnds
<1>3. \A p \in 0 .. Len(text) : IsPrefix(Upto(text, p), text)
  BY <1>2, StartsWith
<1>4. IsPrefix(text, text) /\ IsPrefix(<< >>, text)
  <2>1. Len(text) \in 0 .. Len(text) /\ 0 \in 0 .. Len(text)
    BY <1>2
  <2> HIDE DEF text
  <2>2. IsPrefix(Upto(text, Len(text)), text) /\ IsPrefix(Upto(text, 0), text)
    BY <1>3, <2>1
  <2> QED
    BY <1>2, <2>2
<1>5. ASSUME response.done, NEW c \in 0 .. Len(Stream(said)), Behind(response, said, c),
             left = Ahead(said, c)
      PROVE  response.rest \o left = said.behind
  <2>1. response.rest = SubSeq(Stream(said), Len(said.bytes) + 1, c) /\ c >= Len(said.bytes)
    BY <1>5 DEF Behind
  <2>2. c \in Len(said.bytes) .. Len(Stream(said))
    BY <1>2, <2>1
  <2> QED
    BY <1>1, <1>5, <2>1, <2>2, AheadIs
<1>6. CASE said.kind = "mail"
  <2>1. Message(text)
    BY <1>1, <1>6 DEF Regular
  <2>2. End(text) \in Nat /\ End(text) + 3 = Len(text)
    BY <1>2, <2>1, MessageIs
  <2>3. PICK f \in 0 .. End(text), c \in 0 .. Len(Stream(said)) : CarriesMail(f, c)
    BY <1>6 DEF BytesInv
  <2>4. response.done => response.rest \o left = said.behind
    BY <1>5, <2>3 DEF CarriesMail, Destuffed
  <2>5. CASE filter.done
    BY <1>4, <2>3, <2>4, <2>5 DEF CarriesMail, BytesVerbatim
  <2>6. CASE ~filter.done
    <3>1. PICK e \in 0 .. End(text) :
            Stuffs(filter, text, e) /\ got = Upto(text, e - Need(filter.state))
      BY <2>3, <2>6 DEF CarriesMail, Stuffed
    <3>2. e - Need(filter.state) \in 0 .. Len(text)
      <4>1. At(filter.state, filter.held, text, e) /\ filter.state \notin {"dot", "dotCR"}
        BY <3>1 DEF Stuffs
      <4>2. CASE filter.state = "beginCR"
        <5>1. e >= 1 /\ Need(filter.state) = 1
          BY <4>1, <4>2 DEF At, Need
        <5> QED
          BY <2>2, <5>1
      <4>3. CASE filter.state # "beginCR"
        <5>1. Need(filter.state) = 0
          BY <4>1, <4>3 DEF Need
        <5> QED
          BY <2>2, <5>1
      <4> QED
        BY <4>2, <4>3
    <3> QED
      BY <1>3, <2>4, <3>1, <3>2 DEF BytesVerbatim
  <2> QED
    BY <2>5, <2>6
<1>7. CASE said.kind # "mail"
  <2>1. PICK w \in 3 .. 4, e \in 1 .. Len(text), c \in 0 .. Len(Stream(said)) :
           CarriesReply(w, e, c)
    BY <1>7 DEF BytesInv
  <2>2. response.done => response.rest \o left = said.behind
    BY <1>5, <2>1 DEF CarriesReply
  <2>3. got \in {text, << >>}
    BY <2>1 DEF CarriesReply
  <2> QED
    BY <1>4, <2>2, <2>3 DEF BytesVerbatim
<1> QED
  BY <1>6, <1>7

(* What the client gets are the bytes the origin sends, in their order and *)
(* from the first, for messages and replies of any length, however reads   *)
(* and the filter's pipe cut them: destuffMail and stuffMail undo each     *)
(* other, nothing inside is taken for the end, and what follows the end is *)
(* left for the next reply.                                                *)
THEOREM EveryByteTold ==
  ASSUME Regular
  PROVE  Spec => []BytesVerbatim
<1>1. Spec => []BytesInv
  BY BytesKept
<1>2. BytesInv => BytesVerbatim
  BY VerbatimNow
<1> QED
  BY <1>1, <1>2, PTL

(* Of an empty listing the client never gets a byte, though all of it may  *)
(* have been read: parsePopResponse waits for a CRLF in front of the end   *)
(* line, and has taken the one there is for the status line.               *)
THEOREM EmptyListingUntold ==
  ASSUME Regular
  PROVE  Spec => [](EmptyListing(said) => got = << >> /\ ~response.done)
<1>1. Spec => []BytesInv
  BY BytesKept
<1>2. BytesInv => (EmptyListing(said) => got = << >> /\ ~response.done)
  <2> SUFFICES ASSUME BytesInv, EmptyListing(said)
               PROVE  got = << >> /\ ~response.done
    OBVIOUS
  <2>1. said.kind # "mail"
    BY DEF EmptyListing
  <2>2. PICK w \in 3 .. 4, e \in 1 .. Len(said.bytes), c \in 0 .. Len(Stream(said)) :
           CarriesReply(w, e, c)
    BY <2>1 DEF BytesInv
  <2> QED
    BY <2>2 DEF CarriesReply
<1> QED
  BY <1>1, <1>2, PTL

(* What parsePopResponse copies stays in writeBuf until the reply ends.    *)
Short == \A i \in Inputs : i.kind = "mail" \/ Len(i.bytes) <= 2 * BufSize + 2

(* No call writes more into writeBuf than it was allocated with: a call of *)
(* destuffMail or stuffMail for messages of any length and any number of   *)
(* dots, parsePopResponse for replies that fit it as a whole.              *)
THEOREM WritesFit ==
  ASSUME Regular, Short
  PROVE  Spec => []OutputFits
<1>1. BufSize \in Nat /\ BufSize > 4
  BY ReplyBytesAssumption
<1>2. Init => BytesInv /\ OutputFits
  <2>1. 0 <= 2 * BufSize + 2
    BY <1>1
  <2> QED
    BY <2>1, BytesInit DEF OutputFits
<1>3. BytesInv /\ OutputFits /\ [Next]_vars => (BytesInv /\ OutputFits)'
  <2> SUFFICES ASSUME BytesInv, OutputFits, [Next]_vars
               PROVE  (BytesInv /\ OutputFits)'
    OBVIOUS
  <2>1. said \in Inputs /\ said \in Saying
    BY InputsAre DEF BytesInv
  <2>2. CASE Feed
    <3>1. BytesInv' /\ written' \in 0 .. BufSize
      BY <2>2, FeedStep
    <3> QED
      BY <1>1, <3>1 DEF OutputFits
  <2>3. CASE Drain
    <3>1. BytesInv' /\ written' \in 0 .. 2 * BufSize
      BY <2>3, DrainStep
    <3> QED
      BY <1>1, <3>1 DEF OutputFits
  <2>4. CASE DrainEnd
    <3>1. BytesInv' /\ written' = 3
      BY <2>4, DrainEndStep
    <3> QED
      BY <1>1, <3>1 DEF OutputFits
  <2>5. CASE Respond
    <3>1. BytesInv' /\ written' \in 0 .. Len(said.bytes) /\ said.kind # "mail"
      BY <2>5, RespondStep
    <3>2. Len(said.bytes) <= 2 * BufSize + 2 /\ Len(said.bytes) \in Nat
      BY <2>1, <3>1, StreamIs DEF Short
    <3>3. written' <= 2 * BufSize + 2
      BY ONLY <1>1, <3>1, <3>2
    <3> QED
      BY <3>1, <3>3 DEF OutputFits
  <2>6. CASE Arrives \/ Poll \/ UNCHANGED vars
    BY <2>6, BytesStay DEF OutputFits
  <2> QED
    BY <2>2, <2>3, <2>4, <2>5, <2>6 DEF Next, Loop
<1> QED
  BY <1>2, <1>3, PTL DEF Spec
=============================================================================
