---------------------------- MODULE RepliesProofs ---------------------------
(***************************************************************************)
(* What the client is told, for every value of the constants.              *)
(*                                                                         *)
(* A line the origin has said is in one place at a time: on its way to the *)
(* proxy, in the input buffer or the output of a scanner, in one of the    *)
(* three places of a filter, or told to the client.  Every block moves     *)
(* lines from one place to the next, or drops them.                        *)
(***************************************************************************)
EXTENDS SessionProofs, FiniteSetTheorems

-----------------------------------------------------------------------------
(* Counting the elements of a sequence that are in a set.                  *)
Places(s, P) == {i \in 1 .. Len(s) : s[i] \in P}
Count(s, P)  == Cardinality(Places(s, P))

LEMMA CountType ==
  ASSUME NEW S, NEW s \in Seq(S), NEW P
  PROVE  IsFiniteSet(Places(s, P)) /\ Count(s, P) \in Nat
<1>1. Len(s) \in Nat
  BY LenProperties
<1>2. IsFiniteSet(1 .. Len(s))
  BY <1>1, FS_Interval
<1>3. Places(s, P) \in SUBSET (1 .. Len(s))
  BY DEF Places
<1>4. IsFiniteSet(Places(s, P))
  BY <1>2, <1>3, FS_Subset
<1> QED
  BY <1>4, FS_CardinalityType DEF Count

LEMMA CountConcat ==
  ASSUME NEW S, NEW s \in Seq(S), NEW t \in Seq(S), NEW P
  PROVE  Count(s \o t, P) = Count(s, P) + Count(t, P)
<1> DEFINE A == Places(s, P)
           B == Places(t, P)
           C == {i \in Len(s) + 1 .. Len(s) + Len(t) : t[i - Len(s)] \in P}
           f == [i \in B |-> Len(s) + i]
<1>1. Len(s) \in Nat /\ Len(t) \in Nat
  BY LenProperties
<1>2. /\ Len(s \o t) = Len(s) + Len(t)
      /\ \A i \in 1 .. Len(s) + Len(t) :
           (s \o t)[i] = IF i <= Len(s) THEN s[i] ELSE t[i - Len(s)]
  BY ConcatProperties
<1>3. Places(s \o t, P) = A \union C
  <2>1. ASSUME NEW i \in 1 .. Len(s) + Len(t)
        PROVE  (s \o t)[i] \in P <=> i \in A \union C
    BY <1>1, <1>2 DEF Places
  <2>2. A \union C \subseteq 1 .. Len(s) + Len(t)
    BY <1>1 DEF Places
  <2> QED
    BY <1>2, <2>1, <2>2 DEF Places
<1>4. A \intersect C = {}
  BY <1>1 DEF Places
<1>5. f \in Bijection(B, C)
  <2>1. f \in [B -> C]
    <3>1. ASSUME NEW i \in B
          PROVE  Len(s) + i \in C
      <4>1. i \in 1 .. Len(t) /\ t[i] \in P /\ i \in Nat
        BY <1>1 DEF Places
      <4>2. Len(s) + i \in Len(s) + 1 .. Len(s) + Len(t) /\ (Len(s) + i) - Len(s) = i
        BY <1>1, <4>1
      <4> QED
        BY <4>1, <4>2
    <3> QED
      BY <3>1
  <2>2. \A i, j \in B : f[i] = f[j] => i = j
    <3>1. B \subseteq Nat
      BY <1>1 DEF Places
    <3> QED
      BY <1>1, <3>1
  <2>3. ASSUME NEW k \in C
        PROVE  \E i \in B : f[i] = k
    <3>1. k - Len(s) \in B /\ Len(s) + (k - Len(s)) = k
      BY <1>1 DEF Places
    <3> QED
      BY <3>1
  <2> QED
    BY <2>1, <2>2, <2>3 DEF Bijection, Injection, Surjection, IsInjective
<1>6. IsFiniteSet(A) /\ IsFiniteSet(B) /\ Cardinality(A) \in Nat /\ Cardinality(B) \in Nat
  BY CountType DEF Count
<1>7. IsFiniteSet(C) /\ Cardinality(C) = Cardinality(B)
  <2>1. ExistsBijection(B, C)
    BY <1>5 DEF ExistsBijection
  <2> HIDE DEF B, C
  <2> QED
    BY <1>6, <2>1, FS_Bijection
<1>8. Cardinality(A \union C) = Cardinality(A) + Cardinality(C)
  <2> HIDE DEF A, C
  <2>1. Cardinality(A \union C) = Cardinality(A) + Cardinality(C) - Cardinality(A \intersect C)
    BY <1>6, <1>7, FS_Union
  <2>2. Cardinality(A \intersect C) = 0
    BY <1>4, FS_EmptySet
  <2> QED
    BY <1>6, <1>7, <2>1, <2>2
<1> QED
  BY <1>3, <1>7, <1>8 DEF Count

LEMMA CountNone ==
  ASSUME NEW S, NEW s \in Seq(S), NEW P, \A i \in 1 .. Len(s) : s[i] \notin P
  PROVE  Count(s, P) = 0
<1>1. Places(s, P) = {}
  BY DEF Places
<1> QED
  BY <1>1, FS_EmptySet DEF Count

(* Replacing an element by one that is not counted.                        *)
LEMMA CountReplaced ==
  ASSUME NEW S, NEW s \in Seq(S), NEW t \in Seq(S), NEW P, Len(t) = Len(s),
         \A i \in 1 .. Len(s) : t[i] \in P => s[i] \in P
  PROVE  Count(t, P) <= Count(s, P)
<1>1. Places(t, P) \subseteq Places(s, P)
  BY DEF Places
<1>2. IsFiniteSet(Places(s, P))
  BY CountType
<1> QED
  BY <1>1, <1>2, FS_Subset DEF Count

-----------------------------------------------------------------------------
(* The lines of a listing or of a message that belong to command k.        *)
ItemsOf(k) == {t \in Token : t.id = k /\ t.part = "item"}

LEMMA ItemsCount ==
  ASSUME NEW s \in Seq(Token), NEW k \in Id
  PROVE  Items(s, k) = Count(s, ItemsOf(k)) /\ Items(s, k) \in Nat
<1>1. \A i \in 1 .. Len(s) : s[i] \in Token
  BY ElementOfSeq
<1>2. {i \in 1 .. Len(s) : s[i].id = k /\ s[i].part = "item"} = Places(s, ItemsOf(k))
  BY <1>1 DEF Places, ItemsOf
<1> QED
  BY <1>2, CountType DEF Items, Count

(* What the counting lemmas say of items.                                  *)
LEMMA ItemsConcat ==
  ASSUME NEW s \in Seq(Token), NEW t \in Seq(Token), NEW k \in Id
  PROVE  /\ Items(s \o t, k) = Items(s, k) + Items(t, k)
         /\ Items(s, k) \in Nat /\ Items(t, k) \in Nat /\ s \o t \in Seq(Token)
<1>1. s \o t \in Seq(Token)
  BY ConcatProperties
<1>2. Count(s \o t, ItemsOf(k)) = Count(s, ItemsOf(k)) + Count(t, ItemsOf(k))
  BY CountConcat
<1> QED
  BY <1>1, <1>2, ItemsCount

LEMMA ItemsOfOther ==
  ASSUME NEW e \in Token, e.part # "item", NEW k \in Id
  PROVE  << e >> \in Seq(Token) /\ Items(<< e >>, k) = 0
<1>1. << e >> \in Seq(Token) /\ \A i \in 1 .. Len(<< e >>) : << e >>[i] \notin ItemsOf(k)
  BY DEF ItemsOf
<1>2. Count(<< e >>, ItemsOf(k)) = 0
  BY <1>1, CountNone, Zenon
<1> QED
  BY <1>1, <1>2, ItemsCount

LEMMA ItemsEmpty ==
  ASSUME NEW k \in Id
  PROVE  << >> \in Seq(Token) /\ Items(<< >>, k) = 0
<1>1. << >> \in Seq(Token) /\ Len(<< >>) = 0
  BY EmptySeq
<1>2. \A i \in 1 .. Len(<< >>) : << >>[i] \notin ItemsOf(k)
  BY <1>1
<1>3. Count(<< >>, ItemsOf(k)) = 0
  BY <1>1, <1>2, CountNone, Zenon
<1> QED
  BY <1>1, <1>3, ItemsCount

LEMMA ItemsCut ==
  ASSUME NEW s \in Seq(Token), NEW n \in 0 .. Len(s), NEW k \in Id
  PROVE  LET a == SubSeq(s, 1, n)
             b == SubSeq(s, n + 1, Len(s)) IN
         /\ Items(a, k) + Items(b, k) = Items(s, k)
         /\ Items(a, k) \in Nat /\ Items(b, k) \in Nat
         /\ a \in Seq(Token) /\ b \in Seq(Token)
<1> DEFINE a == SubSeq(s, 1, n)
           b == SubSeq(s, n + 1, Len(s))
<1>1. a \in Seq(Token) /\ b \in Seq(Token) /\ a \o b = s
  BY Cut
<1> HIDE DEF a, b
<1>2. Items(a, k) + Items(b, k) = Items(s, k) /\ Items(a, k) \in Nat /\ Items(b, k) \in Nat
  BY <1>1, ItemsConcat
<1> QED
  BY <1>1, <1>2 DEF a, b

LEMMA ItemsHead ==
  ASSUME NEW s \in Seq(Token), s # << >>, NEW k \in Id
  PROVE  /\ Items(<< Head(s) >>, k) + Items(Tail(s), k) = Items(s, k)
         /\ Items(<< Head(s) >>, k) \in Nat /\ Items(Tail(s), k) \in Nat
         /\ Head(s) \in Token /\ << Head(s) >> \in Seq(Token) /\ Tail(s) \in Seq(Token)
<1> DEFINE h == << Head(s) >>
<1>1. Head(s) \in Token /\ h \in Seq(Token) /\ Tail(s) \in Seq(Token) /\ h \o Tail(s) = s
  BY HeadTailProperties
<1> HIDE DEF h
<1>2. /\ Items(h \o Tail(s), k) = Items(h, k) + Items(Tail(s), k)
      /\ Items(h, k) \in Nat /\ Items(Tail(s), k) \in Nat
  BY <1>1, ItemsConcat, Zenon
<1> QED
  BY <1>1, <1>2 DEF h

LEMMA ItemsAppend ==
  ASSUME NEW s \in Seq(Token), NEW e \in Token, NEW k \in Id
  PROVE  /\ Items(Append(s, e), k) = Items(s, k) + Items(<< e >>, k)
         /\ Items(s, k) \in Nat /\ Items(<< e >>, k) \in Nat
<1> DEFINE one == << e >>
<1>1. Append(s, e) = s \o one /\ one \in Seq(Token)
  BY AppendIsConcat
<1> HIDE DEF one
<1>2. Items(s \o one, k) = Items(s, k) + Items(one, k) /\ Items(s, k) \in Nat /\ Items(one, k) \in Nat
  BY <1>1, ItemsConcat
<1> QED
  BY <1>1, <1>2 DEF one

-----------------------------------------------------------------------------
(* The scanners give back no more items than they were given.              *)
Within(in, k) == Items(in.out, k) + Items(in.buf, k)
Given(r, k)   == Items(r.out, k) + Within(r.next, k)

LEMMA WaitsItems ==
  ASSUME NEW in \in Inputs(Id), NEW out \in Seq(Token), NEW state \in ReplyState,
         NEW k \in Id, Items(out, k) <= Items(in.buf, k)
  PROVE  Given(Waits(in, out, state), k) <= Within(in, k)
<1>1. in.out \in Seq(Token) /\ in.buf \in Seq(Token)
  BY TokenIsTokens DEF Inputs
<1>2. /\ Items(in.out \o out, k) = Items(in.out, k) + Items(out, k)
      /\ Items(in.out, k) \in Nat /\ Items(out, k) \in Nat
  BY <1>1, ItemsConcat
<1>3. Items(in.buf, k) \in Nat /\ Items(<< >>, k) = 0
  BY <1>1, ItemsCount, ItemsEmpty
<1>4. LET r == Waits(in, out, state) IN
      r.out = << >> /\ r.next.out = in.out \o out /\ r.next.buf = << >>
  BY DEF Waits, Inputs
<1> QED
  BY <1>2, <1>3, <1>4 DEF Given, Within

LEMMA CompletesItems ==
  ASSUME NEW in \in Inputs(Id), NEW out \in Seq(Token), NEW rest \in Seq(Token),
         NEW success, NEW k \in Id, Items(out, k) + Items(rest, k) <= Items(in.buf, k)
  PROVE  Given(Completes(in, out, rest, success), k) <= Within(in, k)
<1>1. in.out \in Seq(Token) /\ in.buf \in Seq(Token)
  BY TokenIsTokens DEF Inputs
<1>2. /\ Items(in.out \o out, k) = Items(in.out, k) + Items(out, k)
      /\ Items(in.out, k) \in Nat /\ Items(out, k) \in Nat
  BY <1>1, ItemsConcat
<1>3. Items(in.buf, k) \in Nat /\ Items(rest, k) \in Nat /\ Items(<< >>, k) = 0
  BY <1>1, ItemsCount, ItemsEmpty
<1>4. LET r == Completes(in, out, rest, success) IN
      r.out = in.out \o out /\ r.next.out = << >> /\ r.next.buf = rest
  BY DEF Completes
<1> QED
  BY <1>2, <1>3, <1>4 DEF Given, Within

(* The end line a scanner looks for cuts the buffer in two.                *)
LEMMA EndCuts ==
  ASSUME NEW buf \in Seq(Token), NEW seen \in BOOLEAN, EndsAt(buf, seen) # {},
         NEW last, last = CHOOSE i \in EndsAt(buf, seen) :
                            \A j \in EndsAt(buf, seen) : i <= j,
         NEW k \in Id
  PROVE  /\ last \in 1 .. Len(buf)
         /\ SubSeq(buf, 1, last) \in Seq(Token) /\ SubSeq(buf, 1, last - 1) \in Seq(Token)
         /\ SubSeq(buf, last + 1, Len(buf)) \in Seq(Token)
         /\ Items(SubSeq(buf, 1, last), k) + Items(SubSeq(buf, last + 1, Len(buf)), k)
              <= Items(buf, k)
         /\ Items(SubSeq(buf, 1, last - 1), k) + Items(SubSeq(buf, last + 1, Len(buf)), k)
              <= Items(buf, k)
<1>1. last \in 1 .. Len(buf) /\ Len(buf) \in Nat
  BY EndsAtType, LenProperties, TokenIsTokens
<1> DEFINE a == SubSeq(buf, 1, last)
           b == SubSeq(buf, last + 1, Len(buf))
           c == SubSeq(buf, 1, last - 1)
<1>2. /\ Items(a, k) + Items(b, k) = Items(buf, k)
      /\ Items(a, k) \in Nat /\ Items(b, k) \in Nat /\ a \in Seq(Token) /\ b \in Seq(Token)
  <2>1. last \in 0 .. Len(buf)
    BY <1>1
  <2> QED
    BY <2>1, ItemsCut
<1>3. c \in Seq(Token) /\ Items(c, k) <= Items(a, k) /\ Items(c, k) \in Nat
  <2> DEFINE one == SubSeq(buf, last - 1 + 1, last)
  <2>1. /\ 1 \in 1 .. Len(buf) + 1 /\ last - 1 \in 1 - 1 .. Len(buf)
        /\ last \in last - 1 .. Len(buf)
    BY <1>1
  <2>2. c \o one = a
    BY <2>1, ConcatAdjacentSubSeq, Zenon
  <2>3. c \in Seq(Token) /\ one \in Seq(Token)
    <3>1. /\ 1 \in Nat \ {0} /\ last - 1 \in Nat /\ last - 1 <= Len(buf)
          /\ last - 1 + 1 \in Nat \ {0} /\ last \in Nat /\ last <= Len(buf)
      BY <1>1
    <3> QED
      BY <3>1, SubSeqType, Zenon
  <2> HIDE DEF a, c, one
  <2>4. Items(c \o one, k) = Items(c, k) + Items(one, k) /\ Items(c, k) \in Nat /\ Items(one, k) \in Nat
    BY <2>3, ItemsConcat, Zenon
  <2> QED
    BY <1>2, <2>2, <2>3, <2>4
<1> HIDE DEF a, b, c
<1>4. /\ Items(a, k) + Items(b, k) <= Items(buf, k)
      /\ Items(c, k) + Items(b, k) <= Items(buf, k)
  BY <1>2, <1>3
<1> QED
  BY <1>1, <1>2, <1>3, <1>4 DEF a, b, c

LEMMA ScanListItems ==
  ASSUME NEW in \in Inputs(Id), NEW text \in Seq(Token), NEW buf \in Seq(Token),
         NEW seen \in BOOLEAN, NEW k \in Id,
         Items(text, k) + Items(buf, k) <= Items(in.buf, k)
  PROVE  Given(ScanList(in, text, buf, seen), k) <= Within(in, k)
<1>1. Items(text, k) \in Nat /\ Items(buf, k) \in Nat /\ Items(in.buf, k) \in Nat
  BY ItemsCount, TokenIsTokens DEF Inputs
<1>2. CASE EndsAt(buf, seen) # {}
  <2> DEFINE last == CHOOSE i \in EndsAt(buf, seen) :
                       \A j \in EndsAt(buf, seen) : i <= j
             a == SubSeq(buf, 1, last)
             b == SubSeq(buf, last + 1, Len(buf))
  <2>1. /\ a \in Seq(Token) /\ b \in Seq(Token)
        /\ Items(a, k) + Items(b, k) <= Items(buf, k)
    BY <1>2, EndCuts
  <2>2. ScanList(in, text, buf, seen) = Completes(in, text \o a, b, TRUE)
    BY <1>2, Zenon DEF ScanList
  <2> HIDE DEF a, b
  <2>3. /\ text \o a \in Seq(Token) /\ Items(text \o a, k) = Items(text, k) + Items(a, k)
        /\ Items(a, k) \in Nat
    BY <2>1, ItemsConcat
  <2>4. Items(b, k) \in Nat
    BY <2>1, ItemsCount
  <2>5. Items(text \o a, k) + Items(b, k) <= Items(in.buf, k)
    BY <1>1, <2>1, <2>3, <2>4
  <2> QED
    BY <2>1, <2>2, <2>3, <2>5, CompletesItems
<1>3. CASE EndsAt(buf, seen) = {}
  <2>1. ScanList(in, text, buf, seen)
          = Waits(in, text \o buf, IF buf = << >> THEN "list0" ELSE "list")
    BY <1>3, Zenon DEF ScanList
  <2>2. text \o buf \in Seq(Token) /\ Items(text \o buf, k) = Items(text, k) + Items(buf, k)
    BY ItemsConcat
  <2>3. (IF buf = << >> THEN "list0" ELSE "list") \in ReplyState
    BY DEF ReplyState
  <2> QED
    BY <2>1, <2>2, <2>3, WaitsItems
<1> QED
  BY <1>2, <1>3

(* The end line left between tok and cur is no item of a listing.          *)
LEMMA LeftoverItems ==
  ASSUME NEW held \in Leftover(Id), NEW k \in Id
  PROVE  held \in Seq(Token) /\ Items(held, k) = 0
<1>1. CASE held = << >>
  BY <1>1, ItemsEmpty, EmptySeq
<1>2. CASE held # << >>
  <2>1. PICK id \in Id : held = << [id |-> id, part |-> "end"] >>
    BY <1>2, Zenon DEF Leftover
  <2> DEFINE end == [id |-> id, part |-> "end"]
  <2>2. end \in Token /\ end.part # "item"
    BY DEF Token, Part
  <2> HIDE DEF end
  <2>3. << end >> \in Seq(Token) /\ Items(<< end >>, k) = 0
    BY <2>2, ItemsOfOther
  <2> QED
    BY <2>1, <2>3 DEF end
<1> QED
  BY <1>1, <1>2

LEMMA ScanStatusItems ==
  ASSUME NEW in \in Inputs(Id), NEW multiline \in BOOLEAN, NEW id \in Id,
         in.buf # << >>, NEW k \in Id
  PROVE  Given(ScanStatus(in, multiline, id), k) <= Within(in, k)
<1> DEFINE line == Head(in.buf)
           rest == Tail(in.buf)
           kept == [in EXCEPT !.held = << >>]
           held == Held(in, line)
<1>1. in.buf \in Seq(Token) /\ in.out \in Seq(Token)
  BY TokenIsTokens DEF Inputs
<1>2. /\ Items(<< line >>, k) + Items(rest, k) = Items(in.buf, k)
      /\ Items(<< line >>, k) \in Nat /\ Items(rest, k) \in Nat
      /\ line \in Token /\ << line >> \in Seq(Token) /\ rest \in Seq(Token)
  BY <1>1, ItemsHead
<1>3. kept \in Inputs(Id) /\ kept.buf = in.buf /\ kept.out = in.out
  BY KeptType DEF Inputs
<1>4. CASE line.part \notin {"ok", "err"}
  <2> DEFINE bad == [id |-> id, part |-> "badorigin"]
  <2>1. bad \in Token /\ bad.part # "item"
    BY DEF Token, Part
  <2> HIDE DEF bad
  <2>2. << bad >> \in Seq(Token) /\ Items(<< bad >>, k) = 0
    BY <2>1, ItemsOfOther
  <2>3. Items(<< bad >>, k) + Items(in.buf, k) <= Items(in.buf, k)
    BY <1>1, <2>2, ItemsCount
  <2>4. ScanStatus(in, multiline, id) = Completes(in, << bad >>, in.buf, FALSE)
    BY <1>4, Zenon DEF ScanStatus, bad
  <2> QED
    BY <1>1, <2>2, <2>3, <2>4, CompletesItems
<1>5. CASE line.part \in {"ok", "err"}
  <2>1. held \in Seq(Token) /\ Items(held, k) = Items(<< line >>, k)
    <3> DEFINE one == << line >>
               left == in.held
    <3>1. left \in Leftover(Id)
      BY DEF Inputs
    <3>2. left \in Seq(Token) /\ Items(left, k) = 0
      BY <3>1, LeftoverItems, Zenon
    <3>3. held = left \o one
      <4>1. Append(left, line) = left \o << line >>
        BY <1>2, <3>2, AppendIsConcat
      <4> QED
        BY <4>1, Zenon DEF Held, one
    <3> HIDE DEF held, line, left, one
    <3>4. one \in Seq(Token) /\ Items(one, k) = Items(<< line >>, k) /\ Items(one, k) \in Nat
      BY <1>2 DEF one
    <3>5. left \o one \in Seq(Token) /\ Items(left \o one, k) = Items(left, k) + Items(one, k)
      BY <3>2, <3>4, ItemsConcat
    <3> QED
      BY <3>2, <3>3, <3>4, <3>5
  <2> HIDE DEF held, kept, rest, line
  <2>2. Items(held, k) + Items(rest, k) <= Items(in.buf, k)
    BY <1>1, <1>2, <2>1, ItemsCount
  <2>3. Given(ScanList(kept, held, rest, FALSE), k) <= Within(in, k)
    <3>1. Given(ScanList(kept, held, rest, FALSE), k) <= Within(kept, k)
      BY <1>2, <1>3, <2>1, <2>2, ScanListItems
    <3> QED
      BY <1>3, <3>1 DEF Within
  <2>4. \A success : Given(Completes(in, held, rest, success), k) <= Within(in, k)
    BY <1>2, <2>1, <2>2, CompletesItems
  <2>5. \/ ScanStatus(in, multiline, id) = ScanList(kept, held, rest, FALSE)
        \/ \E success : ScanStatus(in, multiline, id) = Completes(in, held, rest, success)
    BY <1>5, Zenon DEF ScanStatus, held, kept, rest, line
  <2> QED
    BY <2>3, <2>4, <2>5
<1> QED
  BY <1>4, <1>5

LEMMA ParsePopResponseItems ==
  ASSUME NEW in \in Inputs(Id), NEW multiline \in BOOLEAN, NEW id \in Id, NEW k \in Id
  PROVE  Given(parsePopResponse(in, multiline, id), k) <= Within(in, k)
<1>1. in.buf \in Seq(Token) /\ in.state \in ReplyState
  BY TokenIsTokens DEF Inputs
<1>2. << >> \in Seq(Token) /\ Items(<< >>, k) = 0 /\ Items(in.buf, k) \in Nat
  BY <1>1, ItemsEmpty, ItemsCount
<1>3. CASE in.state = "fresh" /\ in.buf = << >>
  <2>1. parsePopResponse(in, multiline, id) = Waits(in, << >>, "status")
    BY <1>3 DEF parsePopResponse
  <2>2. "status" \in ReplyState /\ Items(<< >>, k) <= Items(in.buf, k)
    BY <1>2 DEF ReplyState
  <2>3. Given(Waits(in, << >>, "status"), k) <= Within(in, k)
    BY <1>2, <2>2, WaitsItems, Zenon
  <2> QED
    BY <2>1, <2>3
<1>4. CASE in.state \in {"status", "list0"} /\ in.buf = << >>
  <2>1. \E success : parsePopResponse(in, multiline, id) = Completes(in, << >>, << >>, success)
    BY <1>4 DEF parsePopResponse
  <2>2. Items(<< >>, k) + Items(<< >>, k) <= Items(in.buf, k)
    BY <1>2
  <2> QED
    BY <1>2, <2>1, <2>2, CompletesItems
<1>5. CASE in.state \in {"fresh", "status"} /\ in.buf # << >>
  <2>1. parsePopResponse(in, multiline, id) = ScanStatus(in, multiline, id)
    BY <1>5 DEF parsePopResponse
  <2> QED
    BY <1>5, <2>1, ScanStatusItems
<1>6. CASE in.state \in {"list", "body"} \/ (in.state = "list0" /\ in.buf # << >>)
  <2>1. parsePopResponse(in, multiline, id) = ScanList(in, << >>, in.buf, in.state = "list")
    BY <1>6 DEF parsePopResponse
  <2>2. (in.state = "list") \in BOOLEAN /\ Items(<< >>, k) + Items(in.buf, k) <= Items(in.buf, k)
    BY <1>2
  <2> QED
    BY <1>1, <1>2, <2>1, <2>2, ScanListItems
<1> QED
  BY <1>1, <1>3, <1>4, <1>5, <1>6 DEF ReplyState

LEMMA DestuffMailItems ==
  ASSUME NEW in \in Inputs(Id), NEW k \in Id
  PROVE  Given(destuffMail(in), k) <= Within(in, k)
<1>1. in.buf \in Seq(Token) /\ in.out \in Seq(Token)
  BY TokenIsTokens DEF Inputs
<1>2. << >> \in Seq(Token) /\ Items(<< >>, k) = 0 /\ Items(in.buf, k) \in Nat /\ Items(in.out, k) \in Nat
  BY <1>1, ItemsEmpty, ItemsCount
<1>3. CASE EndsAt(in.buf, TRUE) # {}
  <2> DEFINE last == CHOOSE i \in EndsAt(in.buf, TRUE) :
                       \A j \in EndsAt(in.buf, TRUE) : i <= j
             a == SubSeq(in.buf, 1, last - 1)
             b == SubSeq(in.buf, last + 1, Len(in.buf))
             done == Completes(in, a, b, TRUE)
  <2>1. a \in Seq(Token) /\ b \in Seq(Token) /\ Items(a, k) + Items(b, k) <= Items(in.buf, k)
    BY <1>1, <1>3, EndCuts
  <2>2. destuffMail(in) = [done EXCEPT !.next.held = << in.buf[last] >>]
    BY <1>3, Zenon DEF destuffMail
  <2> HIDE DEF a, b
  <2>3. Given(done, k) <= Within(in, k)
    BY <2>1, CompletesItems
  <2>4. /\ destuffMail(in).out = done.out
        /\ destuffMail(in).next.out = done.next.out /\ destuffMail(in).next.buf = done.next.buf
    BY <2>2 DEF Completes
  <2> HIDE DEF done
  <2> QED
    BY <2>3, <2>4 DEF Given, Within
<1>4. CASE EndsAt(in.buf, TRUE) = {} /\ in.buf = << >> /\ in.state = "body"
  <2>1. destuffMail(in) = Completes(in, << >>, << >>, TRUE)
    BY <1>4, Zenon DEF destuffMail
  <2>2. Items(<< >>, k) + Items(<< >>, k) <= Items(in.buf, k)
    BY <1>2
  <2> QED
    BY <1>2, <2>1, <2>2, CompletesItems
<1>5. CASE EndsAt(in.buf, TRUE) = {} /\ ~(in.buf = << >> /\ in.state = "body")
  <2>1. destuffMail(in) = [Waits(in, << >>, "body") EXCEPT !.out = in.buf]
    BY <1>5, Zenon DEF destuffMail
  <2>2. in.out \o << >> = in.out
    BY <1>1, ConcatEmptySeq
  <2>3. /\ destuffMail(in).out = in.buf
        /\ destuffMail(in).next.out = in.out /\ destuffMail(in).next.buf = << >>
    BY <2>1, <2>2 DEF Waits, Inputs
  <2> QED
    BY <1>2, <2>3 DEF Given, Within
<1> QED
  BY <1>3, <1>4, <1>5

LEMMA StuffMailItems ==
  ASSUME NEW state, NEW lines \in Seq(Token), NEW id \in Id, NEW k \in Id
  PROVE  /\ stuffMail(state, lines, id).out \in Seq(Token)
         /\ Items(stuffMail(state, lines, id).out, k) <= Items(lines, k)
<1> DEFINE e == [id |-> id, part |-> "end"]
<1>1. e \in Token /\ e.part # "item"
  BY DEF Token, Part
<1>2. stuffMail(state, lines, id).out \in {<< e >>, lines}
  BY DEF stuffMail
<1> HIDE DEF e
<1>3. << e >> \in Seq(Token) /\ Items(<< e >>, k) = 0 /\ Items(lines, k) \in Nat
  BY <1>1, ItemsOfOther, ItemsCount
<1> DEFINE one == << e >>
           out == stuffMail(state, lines, id).out
<1>4. one \in Seq(Token) /\ Items(one, k) <= Items(lines, k) /\ Items(lines, k) <= Items(lines, k)
  BY <1>3
<1>5. out = one \/ out = lines
  BY <1>2
<1> HIDE DEF one, out
<1>6. out \in Seq(Token) /\ Items(out, k) <= Items(lines, k)
  BY <1>4, <1>5
<1> QED
  BY <1>6 DEF out

(* What processPopServer makes of a reply before the client gets it.       *)
LEMMA RelayedItems ==
  ASSUME NEW cmd \in Command, NEW out \in Seq(Token), NEW k \in Id
  PROVE  Items(Relayed(cmd, out), k) <= Items(out, k)
<1> DEFINE pipelining == [id |-> cmd.id, part |-> "pipelining"]
           endline    == [id |-> cmd.id, part |-> "end"]
           overread   == [id |-> cmd.id, part |-> "overread"]
           own  == << pipelining, endline >>
           last == out[Len(out)]
           short == SubSeq(out, 1, Len(out) - 1)
           garbled == [out EXCEPT ![Len(out)] = [last EXCEPT !.part = "garbled"]]
           cut  == IF out = << >> THEN << overread >>
                   ELSE IF last.part = "end" THEN short ELSE garbled
<1>1. Items(out, k) \in Nat
  BY ItemsCount
<1>2. /\ pipelining \in Token /\ endline \in Token /\ overread \in Token
      /\ pipelining.part # "item" /\ endline.part # "item" /\ overread.part # "item"
  BY DEF Command, Token, Part
<1>3. own \in Seq(Token) /\ Items(own, k) = 0
  <2> HIDE DEF pipelining, endline
  <2>1. own \in Seq(Token) /\ \A i \in 1 .. Len(own) : own[i] \notin ItemsOf(k)
    BY <1>2 DEF ItemsOf
  <2>2. Count(own, ItemsOf(k)) = 0
    BY <2>1, CountNone, Zenon
  <2> QED
    BY <2>1, <2>2, ItemsCount
<1>4. cut \in Seq(Token) /\ Items(cut, k) <= Items(out, k)
  <2>1. CASE out = << >>
    <3> HIDE DEF overread
    <3> QED
      BY <1>1, <1>2, <2>1, ItemsOfOther
  <2>2. CASE out # << >>
    <3>1. /\ Len(out) \in Nat \ {0} /\ Len(out) \in 1 .. Len(out)
          /\ Len(out) - 1 \in 0 .. Len(out)
      BY <2>2, EmptySeq, LenProperties
    <3>2. short \in Seq(Token) /\ Items(short, k) <= Items(out, k)
      <4>1. /\ short \in Seq(Token) /\ Items(short, k) \in Nat
            /\ Items(SubSeq(out, Len(out) - 1 + 1, Len(out)), k) \in Nat
            /\ Items(short, k) + Items(SubSeq(out, Len(out) - 1 + 1, Len(out)), k) = Items(out, k)
        BY <3>1, ItemsCut, Zenon
      <4> QED
        BY <4>1
    <3>3. garbled \in Seq(Token) /\ Items(garbled, k) <= Items(out, k)
      <4>1. last \in Token
        BY <3>1, ElementOfSeq
      <4>2. /\ [last EXCEPT !.part = "garbled"] \in Token
            /\ [last EXCEPT !.part = "garbled"].part = "garbled"
        BY <4>1 DEF Token, Part
      <4>3. garbled \in Seq(Token) /\ Len(garbled) = Len(out)
        BY <3>1, <4>2, ExceptSeq
      <4>4. \A i \in 1 .. Len(out) : garbled[i] \in ItemsOf(k) => out[i] \in ItemsOf(k)
        <5>1. DOMAIN out = 1 .. Len(out)
          BY LenProperties
        <5>2. ASSUME NEW i \in 1 .. Len(out)
              PROVE  i = Len(out) \/ garbled[i] = out[i]
          BY <5>1
        <5>3. garbled[Len(out)] \notin ItemsOf(k)
          BY <3>1, <4>2, <5>1 DEF ItemsOf
        <5> QED
          BY <5>2, <5>3
      <4> HIDE DEF garbled
      <4>5. Count(garbled, ItemsOf(k)) <= Count(out, ItemsOf(k))
        BY <4>3, <4>4, CountReplaced, Zenon
      <4> QED
        BY <4>3, <4>5, ItemsCount
    <3> QED
      BY <2>2, <3>2, <3>3
  <2> QED
    BY <2>1, <2>2
<1> HIDE DEF cut, own
<1>5. Items(cut \o own, k) = Items(cut, k) + Items(own, k) /\ Items(cut, k) \in Nat
  BY <1>3, <1>4, ItemsConcat
<1>6. Relayed(cmd, out) = IF cmd.kind = "CAPA" THEN cut \o own ELSE out
  BY Zenon DEF Relayed, cut, own
<1> QED
  BY <1>1, <1>3, <1>4, <1>5, <1>6

(* What a read takes of the origin's stream goes to the buffer.            *)
LEMMA FilledItems ==
  ASSUME TypeInv, NEW k \in Id
  PROVE  /\ Within(Filled, k) + Items(ServerRead.left, k) = Within(response, k) + Items(s2p, k)
         /\ Within(Filled, k) \in Nat /\ Within(response, k) \in Nat
         /\ Items(ServerRead.left, k) \in Nat /\ Items(s2p, k) \in Nat
<1> DEFINE over == IF origin = "eof" THEN "eof" ELSE IF origin = "up" THEN "again" ELSE "error"
           room == BufSize - Len(response.buf)
           got == ServerRead.got
           left == ServerRead.left
<1>1. /\ response.out \in Seq(Token) /\ response.buf \in Seq(Token)
      /\ s2p \in Seq(Token) /\ Len(response.buf) \in Nat
  BY LenProperties DEF TypeInv, TypeOK
<1>2. room \in Nat
  BY <1>1, SessionAssumption DEF TypeInv, BuffersFit
<1>3. ServerRead = Read(s2p, room, over)
  BY DEF ServerRead
<1> HIDE DEF room, over
<1>4. got \in Seq(Token) /\ left \in Seq(Token) /\ got \o left = s2p
  BY <1>1, <1>2, <1>3, ReadType, Zenon
<1>5. Filled.buf = response.buf \o got /\ Filled.out = response.out
  BY DEF Filled, TypeInv, TypeOK
<1> HIDE DEF got, left
<1>6. /\ Items(got \o left, k) = Items(got, k) + Items(left, k)
      /\ Items(got, k) \in Nat /\ Items(left, k) \in Nat
  BY <1>4, ItemsConcat, Zenon
<1>7. /\ Items(response.buf \o got, k) = Items(response.buf, k) + Items(got, k)
      /\ Items(response.buf, k) \in Nat
  BY <1>1, <1>4, ItemsConcat, Zenon
<1>8. Items(response.out, k) \in Nat
  BY <1>1, ItemsCount
<1> QED
  BY <1>4, <1>5, <1>6, <1>7, <1>8 DEF Within, left

-----------------------------------------------------------------------------
(* What of command k is on its way through a filter.                       *)
Filtered(k) == Items(filter.in, k) + Items(filter.held, k) + Items(filter.out, k)

(* Every line told, and every line on its way, is one the origin said, and *)
(* no line is in two places.                                               *)
Conserved ==
  \A k \in Id :
    Items(told, k) + Filtered(k) + Within(response, k) + Items(s2p, k) <= Items(said, k)

(* The amounts are numbers.                                                *)
LEMMA Amounts ==
  ASSUME TypeOK, NEW k \in Id
  PROVE  /\ Items(told, k) \in Nat /\ Items(said, k) \in Nat /\ Items(s2p, k) \in Nat
         /\ Filtered(k) \in Nat /\ Within(response, k) \in Nat
         /\ Items(filter.in, k) \in Nat /\ Items(filter.held, k) \in Nat
         /\ Items(filter.out, k) \in Nat
<1>1. /\ told \in Seq(Token) /\ said \in Seq(Token) /\ s2p \in Seq(Token)
      /\ filter.in \in Seq(Token) /\ filter.held \in Seq(Token) /\ filter.out \in Seq(Token)
      /\ response.out \in Seq(Token) /\ response.buf \in Seq(Token)
  BY DEF TypeOK
<1>2. \A s \in Seq(Token) : Items(s, k) \in Nat
  BY ItemsCount
<1>3. /\ Items(told, k) \in Nat /\ Items(said, k) \in Nat /\ Items(s2p, k) \in Nat
      /\ Items(filter.in, k) \in Nat /\ Items(filter.held, k) \in Nat
      /\ Items(filter.out, k) \in Nat
      /\ Items(response.out, k) \in Nat /\ Items(response.buf, k) \in Nat
  BY <1>1, <1>2, Zenon
<1> QED
  BY <1>3 DEF Filtered, Within

(* Lines that go from the reply to the client.                             *)
LEMMA Balance ==
  ASSUME NEW t \in Nat, NEW f \in Nat, NEW w \in Nat, NEW s \in Nat, NEW most \in Nat,
         NEW lines \in Nat, NEW f2 \in Nat, NEW w2 \in Nat, NEW s2 \in Nat, NEW read \in Nat,
         t + f + w + s <= most, f2 <= f, lines + w2 <= read, read + s2 = w + s
  PROVE  t + lines + f2 + w2 + s2 <= most
OBVIOUS

LEMMA ConservedStays ==
  ASSUME Conserved, UNCHANGED << told, filter, response, s2p, said >>
  PROVE  Conserved'
BY DEF Conserved, Filtered, Within

LEMMA InitConserved == Init => Conserved
<1> SUFFICES ASSUME Init, NEW k \in Id
             PROVE  Items(told, k) + Filtered(k) + Within(response, k) + Items(s2p, k)
                      <= Items(said, k)
  BY DEF Conserved
<1>1. Items(<< >>, k) = 0
  BY ItemsEmpty
<1>2. /\ told = << >> /\ said = << >> /\ s2p = << >>
      /\ response.out = << >> /\ response.buf = << >>
      /\ filter.in = << >> /\ filter.held = << >> /\ filter.out = << >>
  BY DEF Init, NoFilter
<1>3. /\ Items(told, k) = 0 /\ Items(said, k) = 0 /\ Items(s2p, k) = 0
      /\ Items(response.out, k) = 0 /\ Items(response.buf, k) = 0
      /\ Items(filter.in, k) = 0 /\ Items(filter.held, k) = 0 /\ Items(filter.out, k) = 0
  BY <1>1, <1>2, Zenon
<1> QED
  BY <1>3 DEF Filtered, Within

LEMMA TellsItems ==
  ASSUME TypeOK, NEW lines \in Seq(Token), Tells(lines), NEW k \in Id
  PROVE  /\ Items(told', k) = Items(told, k) + Items(lines, k)
         /\ Items(told, k) \in Nat /\ Items(lines, k) \in Nat
<1>1. told \in Seq(Token) /\ told' = told \o lines
  BY DEF TypeOK, Tells
<1> QED
  BY <1>1, ItemsConcat

(* copyMsg: what a pipe does not take is lost, nothing is added.           *)
LEMMA WrittenItems ==
  ASSUME TypeOK, NEW lines \in Seq(Token), NEW k \in Id
  PROVE  LET f == Written(lines) IN
         /\ Items(f.in, k) + Items(f.held, k) + Items(f.out, k) <= Filtered(k) + Items(lines, k)
<1>1. /\ filter.in \in Seq(Token) /\ filter.out \in Seq(Token)
      /\ Items(lines, k) \in Nat
      /\ Items(filter.in, k) \in Nat /\ Items(filter.held, k) \in Nat
      /\ Items(filter.out, k) \in Nat
  BY Amounts, ItemsCount DEF TypeOK
<1>2. /\ Items(filter.in \o lines, k) = Items(filter.in, k) + Items(lines, k)
      /\ Items(filter.out \o lines, k) = Items(filter.out, k) + Items(lines, k)
  BY <1>1, ItemsConcat
<1>3. Written(lines) \in {[filter EXCEPT !.in = filter.in \o lines],
                          [filter EXCEPT !.out = filter.out \o lines], filter}
  BY DEF Written
<1> DEFINE f == Written(lines)
<1>4. \/ f.in = filter.in \o lines /\ f.held = filter.held /\ f.out = filter.out
      \/ f.in = filter.in /\ f.held = filter.held /\ f.out = filter.out \o lines
      \/ f.in = filter.in /\ f.held = filter.held /\ f.out = filter.out
  BY <1>3 DEF TypeOK
<1> HIDE DEF f
<1>5. Items(f.in, k) + Items(f.held, k) + Items(f.out, k) <= Filtered(k) + Items(lines, k)
  <2>1. CASE f.in = filter.in \o lines /\ f.held = filter.held /\ f.out = filter.out
    <3>1. /\ Items(f.in, k) = Items(filter.in, k) + Items(lines, k)
          /\ Items(f.held, k) = Items(filter.held, k) /\ Items(f.out, k) = Items(filter.out, k)
      BY <1>2, <2>1, Zenon
    <3> QED
      BY <1>1, <3>1 DEF Filtered
  <2>2. CASE f.in = filter.in /\ f.held = filter.held /\ f.out = filter.out \o lines
    <3>1. /\ Items(f.in, k) = Items(filter.in, k) /\ Items(f.held, k) = Items(filter.held, k)
          /\ Items(f.out, k) = Items(filter.out, k) + Items(lines, k)
      BY <1>2, <2>2, Zenon
    <3> QED
      BY <1>1, <3>1 DEF Filtered
  <2>3. CASE f.in = filter.in /\ f.held = filter.held /\ f.out = filter.out
    <3>1. /\ Items(f.in, k) = Items(filter.in, k) /\ Items(f.held, k) = Items(filter.held, k)
          /\ Items(f.out, k) = Items(filter.out, k)
      BY <2>3, Zenon
    <3> QED
      BY <1>1, <3>1 DEF Filtered
  <2> QED
    BY <1>4, <2>1, <2>2, <2>3
<1> QED
  BY <1>5 DEF f

LEMMA FeedConserves ==
  ASSUME TypeInv, Conserved, Feed
  PROVE  Conserved'
<1> SUFFICES ASSUME NEW k \in Id
             PROVE  Items(told, k)' + Filtered(k)' + Within(response, k)' + Items(s2p, k)'
                      <= Items(said, k)'
  BY DEF Conserved
<1> DEFINE fed == destuffMail(Filled)
           lines == fed.out
           f == Written(lines)
<1>1. Filled \in Inputs(Id) /\ TypeOK
  BY FilledType DEF TypeInv
<1>2. Given(fed, k) <= Within(Filled, k)
  BY <1>1, DestuffMailItems
<1>3. lines \in Seq(Token) /\ fed.next \in Inputs(Id)
  BY <1>1, DestuffMailType, TokenIsTokens DEF Results
<1>4. /\ response' = fed.next /\ s2p' = ServerRead.left /\ filter' = f
      /\ told' = told /\ said' = said
  BY DEF Feed, histVars
<1>5. Given(fed, k) = Items(lines, k) + Within(response, k)'
  BY <1>4 DEF Given, Within
<1>6. Items(f.in, k) + Items(f.held, k) + Items(f.out, k) <= Filtered(k) + Items(lines, k)
  BY <1>1, <1>3, WrittenItems
<1>7. Items(lines, k) \in Nat /\ Within(response, k)' \in Nat
  <2>1. /\ fed.next.out \in Seq(Token) /\ fed.next.buf \in Seq(Token)
    BY <1>3, TokenIsTokens DEF Inputs
  <2>2. Items(lines, k) \in Nat /\ Items(fed.next.out, k) \in Nat /\ Items(fed.next.buf, k) \in Nat
    BY <1>3, <2>1, ItemsCount
  <2> QED
    BY <1>4, <2>2 DEF Within
<1> HIDE DEF fed, lines, f
<1>8. Filtered(k)' <= Filtered(k) + Items(lines, k) /\ Filtered(k)' \in Nat
  <2>1. Filtered(k)' = Items(f.in, k) + Items(f.held, k) + Items(f.out, k)
    BY <1>4 DEF Filtered
  <2>2. TypeOK'
    BY FeedType DEF TypeInv
  <2>3. Filtered(k)' \in Nat
    <3>1. filter.in' \in Seq(Token) /\ filter.held' \in Seq(Token) /\ filter.out' \in Seq(Token)
      BY <2>2 DEF TypeOK
    <3> QED
      BY <3>1, ItemsCount DEF Filtered
  <2> QED
    BY <1>6, <2>1, <2>3
<1>9. /\ Items(told, k) + Filtered(k) + Within(response, k) + Items(s2p, k) <= Items(said, k)
      /\ Items(told, k) \in Nat /\ Items(said, k) \in Nat /\ Filtered(k) \in Nat
  BY <1>1, Amounts DEF Conserved
<1>10. /\ Within(Filled, k) + Items(ServerRead.left, k) = Within(response, k) + Items(s2p, k)
       /\ Within(Filled, k) \in Nat /\ Within(response, k) \in Nat
       /\ Items(ServerRead.left, k) \in Nat /\ Items(s2p, k) \in Nat
  BY FilledItems
<1>11. /\ Items(told, k)' = Items(told, k) /\ Items(said, k)' = Items(said, k)
       /\ Items(s2p, k)' = Items(ServerRead.left, k)
  BY <1>4
<1> QED
  BY <1>2, <1>5, <1>7, <1>8, <1>9, <1>10, <1>11

(* A reply or the end of one: the scanner hands over what the client gets. *)
LEMMA ReplyConserves ==
  ASSUME TypeInv, Conserved, queue # << >>, NEW lines \in Seq(Token),
         \A k \in Id : Items(lines, k) <= Items(Parsed.out, k),
         s2p' = ServerRead.left, response' = Parsed.next, Tells(lines), said' = said,
         filter' = filter \/ \E mode \in {"pipe", "command"} :
                               filter' = [NoFilter EXCEPT !.id = Head(queue).id, !.mode = mode]
  PROVE  Conserved'
<1> SUFFICES ASSUME NEW k \in Id
             PROVE  Items(told, k)' + Filtered(k)' + Within(response, k)' + Items(s2p, k)'
                      <= Items(said, k)'
  BY DEF Conserved
<1> DEFINE out == Parsed.out
           next == Parsed.next
<1>1. TypeOK /\ Filled \in Inputs(Id) /\ Head(queue).id \in Id
  BY FilledType, QueueHead DEF TypeInv
<1>2. Given(Parsed, k) <= Within(Filled, k)
  <2>1. (Head(queue).kind \in Multiline) \in BOOLEAN
    OBVIOUS
  <2> QED
    BY <1>1, <2>1, ParsePopResponseItems, Zenon DEF Parsed
<1>3. /\ out \in Seq(Token) /\ next.out \in Seq(Token) /\ next.buf \in Seq(Token)
  BY ParsedType
<1>4. Items(out, k) \in Nat /\ Items(next.out, k) \in Nat /\ Items(next.buf, k) \in Nat
  BY <1>3, ItemsCount
<1>5. Given(Parsed, k) = Items(out, k) + Within(response, k)' /\ Within(response, k)' \in Nat
  BY <1>4 DEF Given, Within
<1>6. Items(told, k)' = Items(told, k) + Items(lines, k) /\ Items(lines, k) \in Nat
  BY <1>1, TellsItems
<1>7. Filtered(k)' <= Filtered(k) /\ Filtered(k)' \in Nat
  <2>1. CASE filter' = filter
    BY <1>1, <2>1, Amounts DEF Filtered
  <2>2. CASE \E mode \in {"pipe", "command"} :
               filter' = [NoFilter EXCEPT !.id = Head(queue).id, !.mode = mode]
    <3>1. filter'.in = << >> /\ filter'.held = << >> /\ filter'.out = << >>
      BY <2>2 DEF NoFilter
    <3>2. /\ Items(filter'.in, k) = 0 /\ Items(filter'.held, k) = 0
          /\ Items(filter'.out, k) = 0
      BY <3>1, ItemsEmpty, Zenon
    <3> QED
      BY <1>1, <3>2, Amounts DEF Filtered
  <2> QED
    BY <2>1, <2>2
<1>8. /\ Items(told, k) + Filtered(k) + Within(response, k) + Items(s2p, k) <= Items(said, k)
      /\ Items(told, k) \in Nat /\ Items(said, k) \in Nat /\ Filtered(k) \in Nat
  BY <1>1, Amounts DEF Conserved
<1>9. /\ Within(Filled, k) + Items(ServerRead.left, k) = Within(response, k) + Items(s2p, k)
      /\ Within(Filled, k) \in Nat /\ Within(response, k) \in Nat
      /\ Items(ServerRead.left, k) \in Nat /\ Items(s2p, k) \in Nat
  BY FilledItems
<1>10. /\ Items(said, k)' = Items(said, k) /\ Items(s2p, k)' = Items(ServerRead.left, k)
       /\ Items(lines, k) <= Items(out, k)
  OBVIOUS
<1> HIDE DEF out, next
<1>11. Items(lines, k) + Within(response, k)' <= Within(Filled, k)
  BY <1>2, <1>4, <1>5, <1>6, <1>9, <1>10
<1>12. Items(told, k) + Items(lines, k) + Filtered(k)' + Within(response, k)'
           + Items(ServerRead.left, k) <= Items(said, k)
  <2> DEFINE t     == Items(told, k)
             f     == Filtered(k)
             w     == Within(response, k)
             s     == Items(s2p, k)
             most  == Items(said, k)
             given == Items(lines, k)
             f2    == Filtered(k)'
             w2    == Within(response, k)'
             s2    == Items(ServerRead.left, k)
             read  == Within(Filled, k)
  <2>1. /\ t \in Nat /\ f \in Nat /\ w \in Nat /\ s \in Nat /\ most \in Nat
        /\ given \in Nat /\ f2 \in Nat /\ w2 \in Nat /\ s2 \in Nat /\ read \in Nat
        /\ t + f + w + s <= most /\ f2 <= f /\ given + w2 <= read /\ read + s2 = w + s
    BY <1>5, <1>6, <1>7, <1>8, <1>9, <1>11, Zenon
  <2> HIDE DEF t, f, w, s, most, given, f2, w2, s2, read
  <2>2. t + given + f2 + w2 + s2 <= most
    BY <2>1, Balance, Zenon
  <2> QED
    BY <2>2 DEF t, given, f2, w2, s2, most
<1> QED
  BY <1>6, <1>10, <1>12, Zenon

(* processPopServer on a reply that is there, and while it waits for more. *)
LEMMA RespondConserves ==
  ASSUME TypeInv, Conserved, Respond \/ RespondQuit \/ RespondRetrieve
  PROVE  Conserved'
<1> DEFINE lines == Relayed(Head(queue), Parsed.out)
<1>1. RespondDone /\ said' = said
  BY DEF Respond, RespondQuit, RespondRetrieve
<1>2. queue # << >> /\ Head(queue) \in Command
  BY <1>1, Reached, QueueHead DEF RespondDone, TypeInv
<1>3. Parsed.out \in Seq(Token)
  BY <1>2, ParsedType
<1>4. lines \in Seq(Token) /\ \A k \in Id : Items(lines, k) <= Items(Parsed.out, k)
  BY <1>2, <1>3, RelayedType, RelayedItems
<1>5. s2p' = ServerRead.left /\ response' = Parsed.next /\ Tells(lines)
  BY <1>1 DEF RespondDone
<1>6. \/ filter' = filter
      \/ \E mode \in {"pipe", "command"} :
           filter' = [NoFilter EXCEPT !.id = Head(queue).id, !.mode = mode]
  <2>1. FilterModes \subseteq {"pipe", "command"}
    BY DEF FilterModes
  <2> QED
    BY <2>1 DEF Respond, RespondQuit, RespondRetrieve
<1> HIDE DEF lines
<1> QED
  BY <1>1, <1>2, <1>4, <1>5, <1>6, ReplyConserves

LEMMA RespondWaitsConserves ==
  ASSUME TypeInv, Conserved, RespondWaits
  PROVE  Conserved'
<1> SUFFICES ASSUME NEW k \in Id
             PROVE  Items(told, k)' + Filtered(k)' + Within(response, k)' + Items(s2p, k)'
                      <= Items(said, k)'
  BY DEF Conserved
<1>1. TypeOK /\ Filled \in Inputs(Id) /\ queue # << >> /\ Head(queue).id \in Id
  BY FilledType, Reached, QueueHead DEF RespondWaits, TypeInv
<1>2. Given(Parsed, k) <= Within(Filled, k)
  <2>1. (Head(queue).kind \in Multiline) \in BOOLEAN
    OBVIOUS
  <2> QED
    BY <1>1, <2>1, ParsePopResponseItems, Zenon DEF Parsed
<1>3. /\ s2p' = ServerRead.left /\ response' = Parsed.next
      /\ told' = told /\ said' = said /\ filter' = filter
  BY DEF RespondWaits, histVars
<1>4. /\ Items(Parsed.out, k) \in Nat /\ Items(Parsed.next.out, k) \in Nat
      /\ Items(Parsed.next.buf, k) \in Nat
  BY <1>1, ParsedType, ItemsCount
<1>5. Given(Parsed, k) = Items(Parsed.out, k) + Within(response, k)' /\ Within(response, k)' \in Nat
  BY <1>3, <1>4 DEF Given, Within
<1>6. /\ Items(told, k) + Filtered(k) + Within(response, k) + Items(s2p, k) <= Items(said, k)
      /\ Items(told, k) \in Nat /\ Items(said, k) \in Nat /\ Filtered(k) \in Nat
  BY <1>1, Amounts DEF Conserved
<1>7. /\ Within(Filled, k) + Items(ServerRead.left, k) = Within(response, k) + Items(s2p, k)
      /\ Within(Filled, k) \in Nat /\ Within(response, k) \in Nat
      /\ Items(ServerRead.left, k) \in Nat /\ Items(s2p, k) \in Nat
  BY FilledItems
<1>8. /\ Items(told, k)' = Items(told, k) /\ Items(said, k)' = Items(said, k)
      /\ Items(s2p, k)' = Items(ServerRead.left, k) /\ Filtered(k)' = Filtered(k)
  BY <1>3 DEF Filtered
<1> QED
  BY <1>2, <1>4, <1>5, <1>6, <1>7, <1>8

(* The proxy's own answer to an invalid command.                           *)
LEMMA RespondInvalidConserves ==
  ASSUME TypeInv, Conserved, RespondInvalid
  PROVE  Conserved'
<1> SUFFICES ASSUME NEW k \in Id
             PROVE  Items(told, k)' + Filtered(k)' + Within(response, k)' + Items(s2p, k)'
                      <= Items(said, k)'
  BY DEF Conserved
<1> DEFINE e == [id |-> Head(queue).id, part |-> "invalid"]
           one == << e >>
<1>1. TypeOK /\ queue # << >> /\ Head(queue).id \in Id
  BY Reached, QueueHead DEF RespondInvalid, TypeInv
<1>2. e \in Token /\ e.part # "item"
  BY <1>1 DEF Token, Part
<1>3. /\ Tells(one) /\ s2p' = ServerRead.left /\ response' = Filled
      /\ said' = said /\ filter' = filter
  BY DEF RespondInvalid
<1> HIDE DEF e
<1>4. one \in Seq(Token) /\ Items(one, k) = 0
  BY <1>2, ItemsOfOther
<1> HIDE DEF one
<1>5. Items(told, k)' = Items(told, k) + Items(one, k)
  BY <1>1, <1>3, <1>4, TellsItems
<1>6. /\ Items(told, k) + Filtered(k) + Within(response, k) + Items(s2p, k) <= Items(said, k)
      /\ Items(told, k) \in Nat /\ Items(said, k) \in Nat /\ Filtered(k) \in Nat
  BY <1>1, Amounts DEF Conserved
<1>7. /\ Within(Filled, k) + Items(ServerRead.left, k) = Within(response, k) + Items(s2p, k)
      /\ Within(Filled, k) \in Nat /\ Within(response, k) \in Nat
      /\ Items(ServerRead.left, k) \in Nat /\ Items(s2p, k) \in Nat
  BY FilledItems
<1>8. /\ Items(said, k)' = Items(said, k) /\ Items(s2p, k)' = Items(ServerRead.left, k)
      /\ Filtered(k)' = Filtered(k) /\ Within(response, k)' = Within(Filled, k)
  BY <1>3 DEF Filtered, Within
<1> QED
  BY <1>4, <1>5, <1>6, <1>7, <1>8

(* processFilter: what is read from the pipe is given to the client.       *)
LEMMA DrainConserves ==
  ASSUME TypeInv, Conserved, Drain
  PROVE  Conserved'
<1> SUFFICES ASSUME NEW k \in Id
             PROVE  Items(told, k)' + Filtered(k)' + Within(response, k)' + Items(s2p, k)'
                      <= Items(said, k)'
  BY DEF Conserved
<1> DEFINE got  == FilterRead.got
           left == FilterRead.left
           lines == stuffMail(stuffing, got, filter.id).out
<1>1. TypeOK /\ filter.out \in Seq(Token) /\ filter.id \in Id
  BY DEF TypeInv, TypeOK
<1>2. got \in Seq(Token) /\ left \in Seq(Token) /\ got \o left = filter.out
  <2>1. BufSize \in Nat
    BY SessionAssumption
  <2> QED
    BY <1>1, <2>1, ReadType, ZenonT(40) DEF FilterRead
<1>3. /\ Tells(lines) /\ filter' = [filter EXCEPT !.out = left]
      /\ UNCHANGED << response, s2p, said >>
  BY DEF Drain
<1> HIDE DEF got, left
<1>4. /\ Items(got \o left, k) = Items(got, k) + Items(left, k)
      /\ Items(got, k) \in Nat /\ Items(left, k) \in Nat
  BY <1>2, ItemsConcat, Zenon
<1>5. lines \in Seq(Token) /\ Items(lines, k) <= Items(got, k)
  BY <1>1, <1>2, StuffMailItems, Zenon
<1> HIDE DEF lines
<1>6. Items(told, k)' = Items(told, k) + Items(lines, k) /\ Items(lines, k) \in Nat
  BY <1>1, <1>3, <1>5, TellsItems
<1>7. /\ Items(told, k) + Filtered(k) + Within(response, k) + Items(s2p, k) <= Items(said, k)
      /\ Items(told, k) \in Nat /\ Items(said, k) \in Nat /\ Items(s2p, k) \in Nat
      /\ Within(response, k) \in Nat
      /\ Items(filter.in, k) \in Nat /\ Items(filter.held, k) \in Nat
      /\ Filtered(k) = Items(filter.in, k) + Items(filter.held, k) + Items(filter.out, k)
  BY <1>1, Amounts DEF Conserved, Filtered
<1>8. Filtered(k)' = Items(filter.in, k) + Items(filter.held, k) + Items(left, k)
  BY <1>1, <1>3 DEF Filtered, TypeOK
<1>9. /\ Items(said, k)' = Items(said, k) /\ Items(s2p, k)' = Items(s2p, k)
      /\ Within(response, k)' = Within(response, k)
  BY <1>3 DEF Within
<1>10. Items(filter.out, k) = Items(got, k) + Items(left, k)
  BY <1>2, <1>4
<1>11. /\ Items(told, k)' + Filtered(k)' <= Items(told, k) + Filtered(k)
       /\ Items(told, k)' \in Nat /\ Filtered(k)' \in Nat /\ Filtered(k) \in Nat
  <2>1. Filtered(k)' \in Nat /\ Filtered(k) \in Nat
    BY <1>4, <1>7, <1>8, <1>10
  <2>2. Filtered(k)' + Items(got, k) = Filtered(k)
    BY <1>4, <1>7, <1>8, <1>10
  <2>3. Items(told, k)' \in Nat /\ Items(told, k)' <= Items(told, k) + Items(got, k)
    BY <1>4, <1>5, <1>6, <1>7
  <2> QED
    BY <1>4, <1>7, <2>1, <2>2, <2>3
<1> QED
  BY <1>7, <1>9, <1>11

(* The origin says a line more.                                            *)
LEMMA OriginSaysConserves ==
  ASSUME TypeInv, Conserved, OriginSays
  PROVE  Conserved'
<1> SUFFICES ASSUME NEW k \in Id
             PROVE  Items(told, k)' + Filtered(k)' + Within(response, k)' + Items(s2p, k)'
                      <= Items(said, k)'
  BY DEF Conserved
<1> DEFINE e == Head(reply)
<1>1. TypeOK /\ s2p \in Seq(Token) /\ said \in Seq(Token) /\ e \in Token
  BY HeadTailProperties DEF OriginSays, TypeInv, TypeOK
<1>2. /\ s2p' = Append(s2p, e) /\ said' = Append(said, e)
      /\ UNCHANGED << told, filter, response >>
  BY DEF OriginSays, proxyVars
<1> HIDE DEF e
<1>3. /\ Items(s2p, k)' = Items(s2p, k) + Items(<< e >>, k)
      /\ Items(said, k)' = Items(said, k) + Items(<< e >>, k)
      /\ Items(<< e >>, k) \in Nat
  BY <1>1, <1>2, ItemsAppend, Zenon
<1>4. /\ Items(told, k)' = Items(told, k) /\ Filtered(k)' = Filtered(k)
      /\ Within(response, k)' = Within(response, k)
  BY <1>2 DEF Filtered, Within
<1>5. /\ Items(told, k) + Filtered(k) + Within(response, k) + Items(s2p, k) <= Items(said, k)
      /\ Items(told, k) \in Nat /\ Items(said, k) \in Nat /\ Items(s2p, k) \in Nat
      /\ Within(response, k) \in Nat /\ Filtered(k) \in Nat
  BY <1>1, Amounts DEF Conserved
<1> QED
  BY <1>3, <1>4, <1>5

(* A filter moves what it reads and writes, and loses what it held when it *)
(* exits.                                                                  *)
LEMMA FilterConserves ==
  ASSUME TypeInv, Conserved, FilterReads \/ FilterWrites \/ FilterExits
  PROVE  Conserved'
<1> SUFFICES ASSUME NEW k \in Id
             PROVE  Items(told, k)' + Filtered(k)' + Within(response, k)' + Items(s2p, k)'
                      <= Items(said, k)'
  BY DEF Conserved
<1>1. /\ TypeOK
      /\ filter.in \in Seq(Token) /\ filter.held \in Seq(Token) /\ filter.out \in Seq(Token)
  BY DEF TypeInv, TypeOK
<1>2. UNCHANGED << told, said, s2p, response >>
  BY DEF FilterReads, FilterWrites, FilterExits, proxyVars, histVars
<1>3. /\ Items(told, k) + Filtered(k) + Within(response, k) + Items(s2p, k) <= Items(said, k)
      /\ Items(told, k) \in Nat /\ Items(said, k) \in Nat /\ Items(s2p, k) \in Nat
      /\ Within(response, k) \in Nat
      /\ Items(filter.in, k) \in Nat /\ Items(filter.held, k) \in Nat
      /\ Items(filter.out, k) \in Nat
  BY <1>1, Amounts DEF Conserved
<1>4. Items(<< >>, k) = 0
  BY ItemsEmpty
<1>5. Filtered(k)' <= Filtered(k) /\ Filtered(k)' \in Nat
  <2>1. CASE FilterReads
    <3> DEFINE e == Head(filter.in)
               rest == Tail(filter.in)
    <3>1. /\ filter.in # << >>
          /\ filter' = [filter EXCEPT !.held = Append(filter.held, e), !.in = rest]
      BY <2>1 DEF FilterReads
    <3>2. /\ Items(<< e >>, k) + Items(rest, k) = Items(filter.in, k)
          /\ Items(rest, k) \in Nat /\ Items(<< e >>, k) \in Nat /\ e \in Token
      BY <1>1, <3>1, ItemsHead
    <3> HIDE DEF e, rest
    <3>3. Items(Append(filter.held, e), k) = Items(filter.held, k) + Items(<< e >>, k)
      BY <1>1, <3>2, ItemsAppend, Zenon
    <3>4. /\ filter'.in = rest /\ filter'.held = Append(filter.held, e)
          /\ filter'.out = filter.out
      BY <1>1, <3>1 DEF TypeOK
    <3>5. Filtered(k)' = Items(rest, k) + Items(Append(filter.held, e), k) + Items(filter.out, k)
      BY <3>4 DEF Filtered
    <3> QED
      BY <1>3, <3>2, <3>3, <3>5 DEF Filtered
  <2>2. CASE FilterWrites
    <3>1. filter' = [filter EXCEPT !.held = << >>, !.out = filter.out \o filter.held]
      BY <2>2 DEF FilterWrites
    <3>2. /\ filter'.in = filter.in /\ filter'.held = << >>
          /\ filter'.out = filter.out \o filter.held
      BY <1>1, <3>1 DEF TypeOK
    <3>3. Items(filter.out \o filter.held, k) = Items(filter.out, k) + Items(filter.held, k)
      BY <1>1, ItemsConcat, Zenon
    <3>4. /\ Items(filter'.in, k) = Items(filter.in, k) /\ Items(filter'.held, k) = 0
          /\ Items(filter'.out, k) = Items(filter.out, k) + Items(filter.held, k)
      BY <1>4, <3>2, <3>3, Zenon
    <3> QED
      BY <1>3, <3>4 DEF Filtered
  <2>3. CASE FilterExits
    <3>1. filter' = [filter EXCEPT !.mode = "exited", !.in = << >>, !.held = << >>]
      BY <2>3 DEF FilterExits
    <3>2. filter'.in = << >> /\ filter'.held = << >> /\ filter'.out = filter.out
      BY <1>1, <3>1 DEF TypeOK
    <3>4. /\ Items(filter'.in, k) = 0 /\ Items(filter'.held, k) = 0
          /\ Items(filter'.out, k) = Items(filter.out, k)
      BY <1>4, <3>2, Zenon
    <3> QED
      BY <1>3, <3>4 DEF Filtered
  <2> QED
    BY <2>1, <2>2, <2>3
<1>6. Filtered(k) \in Nat
  BY <1>1, Amounts
<1>7. /\ Items(told, k)' = Items(told, k) /\ Items(said, k)' = Items(said, k)
      /\ Items(s2p, k)' = Items(s2p, k) /\ Within(response, k)' = Within(response, k)
  BY <1>2 DEF Within
<1> QED
  BY <1>3, <1>5, <1>6, <1>7

LEMMA ConservedStep == TypeInv /\ Conserved /\ [Next]_vars => Conserved'
<1> SUFFICES ASSUME TypeInv, Conserved, [Next]_vars
             PROVE  Conserved'
  OBVIOUS
<1>1. CASE Feed
  BY <1>1, FeedConserves
<1>2. CASE RespondInvalid
  BY <1>2, RespondInvalidConserves
<1>3. CASE RespondWaits
  BY <1>3, RespondWaitsConserves
<1>4. CASE Respond \/ RespondQuit \/ RespondRetrieve
  BY <1>4, RespondConserves
<1>5. CASE Drain
  BY <1>5, DrainConserves
<1>6. CASE OriginSays
  BY <1>6, OriginSaysConserves
<1>7. CASE FilterReads \/ FilterWrites \/ FilterExits
  BY <1>7, FilterConserves
<1>8. CASE Poll \/ Connect \/ TakeCommand \/ TakeNothing \/ SendNothing \/ SendCommand
           \/ SendFails \/ Finish \/ UNCHANGED vars
  <2>1. UNCHANGED << told, filter, response, s2p, said >>
    BY <1>8 DEF Poll, Connect, TakeCommand, TakeNothing, SendNothing, SendCommand,
       SendFails, Finish, vars, proxyVars, netVars, peerVars, histVars
  <2> QED
    BY <2>1, ConservedStays
<1>9. CASE ClientSends \/ ClientCloses \/ ClientReads
           \/ OriginAccepts \/ OriginServes \/ OriginFails
  <2>1. UNCHANGED << told, filter, response, s2p, said >>
    BY <1>9 DEF ClientSends, ClientCloses, ClientReads, OriginAccepts, OriginServes,
       OriginFails, proxyVars, peerVars, histVars
  <2> QED
    BY <2>1, ConservedStays
<1> QED
  BY <1>1, <1>2, <1>3, <1>4, <1>5, <1>6, <1>7, <1>8, <1>9
     DEF Next, Proxy, ProcessClient, OriginStep

(* No line of a listing or of a message is told twice or made up, whatever *)
(* the client sends, wherever the buffers and pipes break a reply, and     *)
(* whether or not the origin or the filter fails (processPopServer,        *)
(* processFilter, copyMsg and the scanners they share buffers with).       *)
THEOREM NoLineInvented == Spec => []NothingInvented
<1>1. Spec => []TypeInv
  BY TypeCorrect DEF TypeInv
<1>2. TypeInv /\ Conserved /\ [Next]_vars => Conserved'
  BY ConservedStep
<1>3. Init => Conserved
  BY InitConserved
<1>4. TypeInv /\ Conserved => NothingInvented
  <2> SUFFICES ASSUME TypeOK, Conserved, NEW k \in Id
               PROVE  Items(told, k) <= Items(said, k)
    BY DEF NothingInvented, TypeInv
  <2> QED
    BY Amounts DEF Conserved
<1> QED
  BY <1>1, <1>2, <1>3, <1>4, PTL DEF Spec

-----------------------------------------------------------------------------
(* The lines of a sequence that the origin said.                           *)

(* What Relevant keeps of a sequence, place by place.                      *)
Keeps(f, s) ==
  /\ f[0] = << >>
  /\ \A n \in 1 .. Len(s) :
       f[n] = IF FromOrigin(s[n]) THEN Append(f[n - 1], s[n]) ELSE f[n - 1]

LEMMA RelevantKeeps ==
  ASSUME NEW s \in Seq(Token)
  PROVE  \E f \in [0 .. Len(s) -> Seq(Token)] : Keeps(f, s) /\ Relevant(s) = f[Len(s)]
<1> DEFINE N == Len(s)
           step == [n \in 1 .. N |-> [p \in Seq(Token) |->
                      IF FromOrigin(s[n]) THEN Append(p, s[n]) ELSE p]]
           Body(f, n) == IF n = 0 THEN << >>
                         ELSE IF FromOrigin(s[n]) THEN Append(f[n - 1], s[n]) ELSE f[n - 1]
           kept == CHOOSE f : f = [n \in 0 .. N |-> Body(f, n)]
           T == {n \in 0 .. N : kept[n] \in Seq(Token)}
<1>1. N \in Nat /\ << >> \in Seq(Token) /\ \A n \in 1 .. N : s[n] \in Token
  BY LenProperties, ElementOfSeq, EmptySeq
<1>2. step \in [1 .. N -> [Seq(Token) -> Seq(Token)]]
  BY <1>1
<1> HIDE DEF step
<1>3. PICK g \in [0 .. N -> Seq(Token)] :
        g[0] = << >> /\ \A n \in 1 .. N : g[n] = step[n][g[n - 1]]
  <2> DEFINE A == Seq(Token)
             a == << >>
  <2>1. a \in A /\ N \in Nat /\ step \in [1 .. N -> [A -> A]]
    BY <1>1, <1>2
  <2> HIDE DEF A, a, N
  <2>2. \E f \in [0 .. N -> A] : f[0] = a /\ \A n \in 1 .. N : f[n] = step[n][f[n - 1]]
    BY <2>1, Recursion, SMTT(90)
  <2> QED
    BY <2>2 DEF A, a, N
<1>4. ASSUME NEW n \in 1 .. N
      PROVE  g[n] = Body(g, n)
  <2>1. n - 1 \in 0 .. N /\ n # 0
    BY <1>1
  <2>2. g[n - 1] \in Seq(Token)
    BY <2>1
  <2>3. step[n][g[n - 1]] = IF FromOrigin(s[n]) THEN Append(g[n - 1], s[n]) ELSE g[n - 1]
    BY <2>2 DEF step
  <2> QED
    BY <1>3, <2>1, <2>3
<1>5. \A n \in 0 .. N : g[n] = Body(g, n)
  <2>1. \A n \in 0 .. N : n = 0 \/ n \in 1 .. N
    BY <1>1
  <2> QED
    BY <1>3, <1>4, <2>1
<1> HIDE DEF Body
<1>6. g = [n \in 0 .. N |-> Body(g, n)]
  BY <1>3, <1>5
<1>7. kept = [n \in 0 .. N |-> Body(kept, n)]
  BY <1>6
<1>8. Relevant(s) = kept[N]
  BY DEF Relevant, Body
<1> HIDE DEF kept
<1>9. \A n \in 0 .. N : kept[n] = Body(kept, n)
  BY <1>7
<1>10. Keeps(kept, s)
  <2>1. 0 \in 0 .. N /\ \A n \in 1 .. N : n \in 0 .. N /\ n # 0
    BY <1>1
  <2> QED
    BY <1>9, <2>1 DEF Keeps, Body
<1>11. \A n \in 0 .. N : n \in T
  <2>1. 0 \in T
    <3>1. kept[0] = << >> /\ 0 \in 0 .. N
      BY <1>1, <1>10 DEF Keeps
    <3> QED
      BY <1>1, <3>1, Zenon
  <2>2. ASSUME NEW n \in 0 .. N - 1, n \in T
        PROVE  n + 1 \in T
    <3>1. n + 1 \in 1 .. N /\ n + 1 \in 0 .. N /\ (n + 1) - 1 = n /\ n \in 0 .. N
      BY <1>1
    <3>2. kept[n + 1] = IF FromOrigin(s[n + 1]) THEN Append(kept[n], s[n + 1]) ELSE kept[n]
      BY <1>10, <3>1 DEF Keeps
    <3>3. kept[n] \in Seq(Token) /\ s[n + 1] \in Token
      BY <1>1, <2>2, <3>1
    <3>4. Append(kept[n], s[n + 1]) \in Seq(Token)
      BY <3>3, AppendProperties, Zenon
    <3>5. kept[n + 1] \in Seq(Token)
      BY <3>2, <3>3, <3>4, Zenon
    <3> QED
      BY <3>1, <3>5, Zenon
  <2> HIDE DEF T
  <2>3. \A n \in 0 .. N - 1 : n \in T => n + 1 \in T
    BY <2>2
  <2> QED
    BY <1>1, <2>1, <2>3, UpTo, Zenon
<1>12. kept \in [0 .. N -> Seq(Token)]
  BY <1>7, <1>11
<1> QED
  BY <1>8, <1>10, <1>12

LEMMA RelevantEmpty == Relevant(<< >>) = << >>
<1>1. << >> \in Seq(Token) /\ Len(<< >>) = 0
  BY EmptySeq
<1>2. PICK f \in [0 .. Len(<< >>) -> Seq(Token)] :
        Keeps(f, << >>) /\ Relevant(<< >>) = f[Len(<< >>)]
  BY <1>1, RelevantKeeps, Zenon
<1> QED
  BY <1>1, <1>2 DEF Keeps

LEMMA RelevantAppend ==
  ASSUME NEW s \in Seq(Token), NEW e \in Token
  PROVE  Relevant(Append(s, e)) = IF FromOrigin(e) THEN Append(Relevant(s), e) ELSE Relevant(s)
<1> DEFINE t == Append(s, e)
           N == Len(s)
<1>1. /\ t \in Seq(Token) /\ N \in Nat /\ Len(t) = N + 1
      /\ t[N + 1] = e /\ \A i \in 1 .. N : t[i] = s[i]
  BY LenProperties, AppendProperties
<1> HIDE DEF t, N
<1>2. PICK f \in [0 .. Len(s) -> Seq(Token)] : Keeps(f, s) /\ Relevant(s) = f[Len(s)]
  BY RelevantKeeps
<1>3. PICK g \in [0 .. Len(t) -> Seq(Token)] : Keeps(g, t) /\ Relevant(t) = g[Len(t)]
  BY <1>1, RelevantKeeps
<1> DEFINE T == {n \in 0 .. N : g[n] = f[n]}
<1>4. N \in T
  <2>1. 0 \in T
    BY <1>1, <1>2, <1>3 DEF Keeps
  <2>2. ASSUME NEW n \in 0 .. N - 1, n \in T
        PROVE  n + 1 \in T
    <3>1. /\ n + 1 \in 1 .. N /\ n + 1 \in 1 .. N + 1 /\ n + 1 \in 0 .. N
          /\ (n + 1) - 1 = n
      BY <1>1
    <3>2. f[n + 1] = IF FromOrigin(s[n + 1]) THEN Append(f[n], s[n + 1]) ELSE f[n]
      BY <1>2, <3>1 DEF Keeps, N
    <3>3. g[n + 1] = IF FromOrigin(t[n + 1]) THEN Append(g[n], t[n + 1]) ELSE g[n]
      BY <1>1, <1>3, <3>1 DEF Keeps
    <3>4. t[n + 1] = s[n + 1] /\ g[n] = f[n]
      BY <1>1, <2>2, <3>1
    <3> QED
      BY <3>1, <3>2, <3>3, <3>4
  <2> HIDE DEF T
  <2>3. \A n \in 0 .. N - 1 : n \in T => n + 1 \in T
    BY <2>2
  <2>4. \A n \in 0 .. N : n \in T
    BY <1>1, <2>1, <2>3, UpTo
  <2> QED
    BY <1>1, <2>4
<1>5. g[N + 1] = IF FromOrigin(e) THEN Append(g[N], e) ELSE g[N]
  <2>1. N + 1 \in 1 .. N + 1 /\ (N + 1) - 1 = N
    BY <1>1
  <2> QED
    BY <1>1, <1>3, <2>1 DEF Keeps
<1>6. g[N] = Relevant(s)
  BY <1>2, <1>4 DEF N
<1> QED
  BY <1>1, <1>3, <1>5, <1>6 DEF t

LEMMA RelevantType ==
  ASSUME NEW s \in Seq(Token)
  PROVE  Relevant(s) \in Seq(Token)
<1>1. Len(s) \in 0 .. Len(s)
  BY LenProperties
<1> QED
  BY <1>1, RelevantKeeps

LEMMA RelevantConcat ==
  ASSUME NEW s \in Seq(Token), NEW t \in Seq(Token)
  PROVE  Relevant(s \o t) = Relevant(s) \o Relevant(t)
<1> DEFINE N == Len(t)
           part(n) == SubSeq(t, 1, n)
           T == {n \in 0 .. N : Relevant(s \o part(n)) = Relevant(s) \o Relevant(part(n))}
<1>1. N \in Nat
  BY LenProperties
<1>2. ASSUME NEW n \in 0 .. N
      PROVE  part(n) \in Seq(Token)
  <2>1. 1 \in Nat \ {0} /\ n \in Nat /\ n <= Len(t)
    BY <1>1
  <2> QED
    BY <2>1, SubSeqType, Zenon
<1>3. part(0) = << >>
  BY SubSeqEmpty
<1>4. 0 \in T
  <2>1. s \o << >> = s /\ Relevant(s) \o << >> = Relevant(s)
    BY RelevantType, ConcatEmptySeq
  <2>2. Relevant(s \o part(0)) = Relevant(s) \o Relevant(part(0))
    BY <1>3, <2>1, RelevantEmpty, Zenon
  <2>3. 0 \in 0 .. N
    BY <1>1
  <2> HIDE DEF part
  <2> QED
    BY <2>2, <2>3
<1>5. ASSUME NEW n \in 0 .. N - 1, n \in T
      PROVE  n + 1 \in T
  <2>1. /\ n \in 0 .. N /\ n + 1 \in 0 .. N /\ n + 1 \in 1 .. N
        /\ 1 \in 1 .. Len(t) + 1 /\ n \in 1 - 1 .. Len(t) /\ n + 1 \in n .. Len(t)
        /\ (n + 1) - 1 = n
    BY <1>1
  <2> DEFINE p == part(n)
             e == t[n + 1]
  <2>2. e \in Token /\ p \in Seq(Token)
    BY <1>2, <2>1, ElementOfSeq
  <2>3. part(n + 1) = Append(p, e)
    <3>1. /\ 1 \in 1 .. Len(t) /\ n + 1 \in 1 .. Len(t)
      BY <1>1, <2>1
    <3> QED
      BY <2>1, <2>2, <3>1, SubSeqRecursiveSecond, AppendIsConcat
  <2>4. Relevant(s \o p) = Relevant(s) \o Relevant(p)
    BY <1>5
  <2> HIDE DEF part, p, e
  <2>5. s \o Append(p, e) = Append(s \o p, e) /\ s \o p \in Seq(Token)
    BY <2>2, ConcatAppend, ConcatProperties
  <2>6. /\ Relevant(Append(s \o p, e))
             = IF FromOrigin(e) THEN Append(Relevant(s \o p), e) ELSE Relevant(s \o p)
        /\ Relevant(Append(p, e)) = IF FromOrigin(e) THEN Append(Relevant(p), e) ELSE Relevant(p)
    BY <2>2, <2>5, RelevantAppend
  <2>7. Relevant(s) \o Append(Relevant(p), e) = Append(Relevant(s) \o Relevant(p), e)
    BY <2>2, RelevantType, ConcatAppend
  <2>8. Relevant(s \o part(n + 1)) = Relevant(s) \o Relevant(part(n + 1))
    BY <2>3, <2>4, <2>5, <2>6, <2>7, Zenon
  <2> QED
    BY <2>1, <2>8
<1>6. N \in T
  <2> HIDE DEF T
  <2>1. \A n \in 0 .. N - 1 : n \in T => n + 1 \in T
    BY <1>5
  <2>2. \A n \in 0 .. N : n \in T
    BY <1>1, <1>4, <2>1, UpTo
  <2> QED
    BY <1>1, <2>2
<1>7. part(N) = t
  BY SubSeqFull
<1> QED
  BY <1>6, <1>7

(* The lines an origin says.                                               *)
Heard == {e \in Token : FromOrigin(e)}

LEMMA HeardAreTokens == \A s \in Seq(Heard) : s \in Seq(Token)
<1>1. Heard \subseteq Token
  BY DEF Heard
<1> QED
  BY <1>1, SeqMonotonic

LEMMA RelevantAll ==
  ASSUME NEW s \in Seq(Heard)
  PROVE  Relevant(s) = s
<1> DEFINE N == Len(s)
           part(n) == SubSeq(s, 1, n)
           T == {n \in 0 .. N : Relevant(part(n)) = part(n)}
<1>1. s \in Seq(Token) /\ N \in Nat /\ \A n \in 1 .. N : s[n] \in Heard
  BY HeardAreTokens, LenProperties, ElementOfSeq
<1>2. 0 \in T
  <2>1. part(0) = << >>
    BY SubSeqEmpty
  <2>2. Relevant(part(0)) = part(0)
    BY <2>1, RelevantEmpty, Zenon
  <2>3. 0 \in 0 .. N
    BY <1>1
  <2> HIDE DEF part
  <2> QED
    BY <2>2, <2>3
<1>3. ASSUME NEW n \in 0 .. N - 1, n \in T
      PROVE  n + 1 \in T
  <2>1. /\ n \in 0 .. N /\ n + 1 \in 0 .. N /\ n + 1 \in 1 .. N
        /\ 1 \in 1 .. Len(s) /\ n + 1 \in 1 .. Len(s) /\ (n + 1) - 1 = n
        /\ 1 \in Nat \ {0} /\ n \in Nat /\ n <= Len(s)
    BY <1>1
  <2> DEFINE p == part(n)
             e == s[n + 1]
  <2>2. e \in Heard /\ e \in Token /\ FromOrigin(e) /\ p \in Seq(Token)
    <3>1. p \in Seq(Token)
      BY <1>1, <2>1, SubSeqType, Zenon
    <3> QED
      BY <1>1, <2>1, <3>1 DEF Heard
  <2>3. part(n + 1) = Append(p, e)
    BY <1>1, <2>1, <2>2, SubSeqRecursiveSecond, AppendIsConcat
  <2>4. Relevant(p) = p
    BY <1>3
  <2> HIDE DEF part, p, e
  <2>5. Relevant(Append(p, e)) = Append(p, e)
    BY <2>2, <2>4, RelevantAppend
  <2> QED
    BY <2>1, <2>3, <2>5
<1>4. N \in T
  <2> HIDE DEF T
  <2>1. \A n \in 0 .. N - 1 : n \in T => n + 1 \in T
    BY <1>3
  <2>2. \A n \in 0 .. N : n \in T
    BY <1>1, <1>2, <2>1, UpTo
  <2> QED
    BY <1>1, <2>2
<1>5. part(N) = s
  BY SubSeqFull
<1> QED
  BY <1>4, <1>5

LEMMA RelevantOther ==
  ASSUME NEW e \in Token, ~FromOrigin(e)
  PROVE  << e >> \in Seq(Token) /\ Relevant(<< e >>) = << >>
<1> DEFINE none == << >>
<1>1. none \in Seq(Token) /\ << e >> = Append(none, e) /\ << e >> \in Seq(Token)
  OBVIOUS
<1>2. Relevant(none) = << >>
  BY RelevantEmpty
<1> HIDE DEF none
<1>3. Relevant(Append(none, e)) = Relevant(none)
  BY <1>1, RelevantAppend
<1> QED
  BY <1>1, <1>2, <1>3

-----------------------------------------------------------------------------
(* Without a listing that the proxy rewrites (CAPA) and without a message  *)
(* (RETR), what a scanner is given comes out in order.                     *)
Text(in) == Relevant(in.out) \o in.buf

(* A scanner's input as it is between two replies of such a session.       *)
Clean(in) == in \in Inputs(Id) /\ in.held = << >> /\ in.buf \in Seq(Heard)

(* What the scanner hands over, and what it keeps, is what it was given.   *)
Faithful(r, in) ==
  /\ Relevant(r.out) \o Text(r.next) = Text(in)
  /\ r.next.held = << >> /\ r.next.buf \in Seq(Heard)
  /\ r.done \/ r.out = << >>

LEMMA WaitsFaithful ==
  ASSUME NEW in, Clean(in), NEW state
  PROVE  Faithful(Waits(in, in.buf, state), in)
<1> DEFINE r == Waits(in, in.buf, state)
           none == << >>
<1>1. in.out \in Seq(Token) /\ in.buf \in Seq(Token) /\ in.buf \in Seq(Heard)
  BY HeardAreTokens, TokenIsTokens DEF Clean, Inputs
<1>2. /\ r.out = none /\ r.next.out = in.out \o in.buf /\ r.next.buf = none
      /\ r.next.held = in.held
  BY DEF Waits, Clean, Inputs
<1>3. none \in Seq(Heard) /\ none \in Seq(Token) /\ Relevant(none) = none
  BY RelevantEmpty, EmptySeq
<1> HIDE DEF r, none
<1>4. Relevant(r.next.out) = Relevant(in.out) \o in.buf
  BY <1>1, <1>2, RelevantConcat, RelevantAll
<1>5. Relevant(r.next.out) \in Seq(Token)
  BY <1>1, <1>4, RelevantType, ConcatProperties
<1>6. Text(r.next) = Text(in) /\ Text(r.next) \in Seq(Token)
  <2>1. Relevant(r.next.out) \o none = Relevant(r.next.out)
    BY <1>5, ConcatEmptySeq DEF none
  <2> QED
    BY <1>2, <1>4, <1>5, <2>1 DEF Text
<1>7. Relevant(r.out) \o Text(r.next) = Text(in)
  BY <1>2, <1>3, <1>6, ConcatEmptySeq DEF none
<1>8. r.next.held = << >>
  BY <1>2, Zenon DEF Clean
<1> QED
  BY <1>2, <1>3, <1>7, <1>8 DEF Faithful, r, none

LEMMA CompletesFaithful ==
  ASSUME NEW in, Clean(in), NEW out \in Seq(Token), NEW rest \in Seq(Heard),
         Relevant(out) \o rest = in.buf, NEW success
  PROVE  Faithful(Completes(in, out, rest, success), in)
<1> DEFINE r == Completes(in, out, rest, success)
           none == << >>
<1>1. /\ in.out \in Seq(Token) /\ rest \in Seq(Token)
      /\ Relevant(in.out) \in Seq(Token) /\ Relevant(out) \in Seq(Token)
  BY HeardAreTokens, TokenIsTokens, RelevantType DEF Clean, Inputs
<1>2. /\ r.out = in.out \o out /\ r.next.out = none /\ r.next.buf = rest
      /\ r.next.held = << >>
  BY DEF Completes
<1>3. Relevant(none) = none /\ none \o rest = rest
  BY <1>1, RelevantEmpty, ConcatEmptySeq
<1> HIDE DEF r, none
<1>4. Relevant(r.out) = Relevant(in.out) \o Relevant(out)
  BY <1>1, <1>2, RelevantConcat
<1>5. Text(r.next) = rest
  BY <1>2, <1>3 DEF Text
<1>6. (Relevant(in.out) \o Relevant(out)) \o rest = Relevant(in.out) \o (Relevant(out) \o rest)
  <2> DEFINE a == Relevant(in.out)
             b == Relevant(out)
  <2>1. a \in Seq(Token) /\ b \in Seq(Token) /\ rest \in Seq(Token)
    BY <1>1
  <2> HIDE DEF a, b
  <2>2. (a \o b) \o rest = a \o (b \o rest)
    BY <2>1, Associative, Zenon
  <2> QED
    BY <2>2, Zenon DEF a, b
<1>7. Relevant(r.out) \o Text(r.next) = Text(in)
  BY <1>4, <1>5, <1>6 DEF Text
<1>8. r.next.held = << >> /\ r.done
  <2>1. r.done = TRUE
    BY DEF Completes, r
  <2> QED
    BY <1>2, <2>1, Zenon
<1> QED
  BY <1>2, <1>7, <1>8 DEF Faithful, r

LEMMA ScanListFaithful ==
  ASSUME NEW in, Clean(in), NEW head \in Seq(Heard), NEW buf \in Seq(Heard),
         head \o buf = in.buf, NEW seen \in BOOLEAN
  PROVE  Faithful(ScanList(in, head, buf, seen), in)
<1>0. head \in Seq(Token) /\ buf \in Seq(Token)
  BY HeardAreTokens
<1>1. CASE EndsAt(buf, seen) # {}
  <2> DEFINE last == CHOOSE i \in EndsAt(buf, seen) :
                       \A j \in EndsAt(buf, seen) : i <= j
             a == SubSeq(buf, 1, last)
             b == SubSeq(buf, last + 1, Len(buf))
  <2>1. last \in 1 .. Len(buf)
    BY <1>0, <1>1, EndsAtType, TokenIsTokens
  <2>2. last \in 0 .. Len(buf)
    BY <2>1
  <2> HIDE DEF last
  <2>3. a \in Seq(Heard) /\ b \in Seq(Heard) /\ a \o b = buf
    BY <2>2, Cut
  <2>4. ScanList(in, head, buf, seen) = Completes(in, head \o a, b, TRUE)
    BY <1>1, Zenon DEF ScanList, last
  <2> HIDE DEF a, b
  <2>5. head \o a \in Seq(Heard) /\ (head \o a) \o b = head \o (a \o b)
    <3>1. head \o a \in Seq(Heard)
      BY <2>3, ConcatProperties
    <3>2. head \in Seq(Token) /\ a \in Seq(Token) /\ b \in Seq(Token)
      BY <2>3, HeardAreTokens
    <3>3. (head \o a) \o b = head \o (a \o b)
      BY <3>2, Associative, Zenon
    <3> QED
      BY <3>1, <3>3
  <2>6. head \o a \in Seq(Token) /\ Relevant(head \o a) = head \o a
    BY <2>5, RelevantAll, HeardAreTokens
  <2>7. Relevant(head \o a) \o b = in.buf
    BY <2>3, <2>5, <2>6
  <2> QED
    BY <2>3, <2>4, <2>6, <2>7, CompletesFaithful
<1>2. CASE EndsAt(buf, seen) = {}
  <2>1. ScanList(in, head, buf, seen)
          = Waits(in, in.buf, IF buf = << >> THEN "list0" ELSE "list")
    BY <1>2, Zenon DEF ScanList
  <2> QED
    BY <2>1, WaitsFaithful
<1> QED
  BY <1>1, <1>2

LEMMA ScanStatusFaithful ==
  ASSUME NEW in, Clean(in), NEW multiline \in BOOLEAN, NEW id \in Id, in.buf # << >>
  PROVE  Faithful(ScanStatus(in, multiline, id), in)
<1> DEFINE line == Head(in.buf)
           rest == Tail(in.buf)
           one  == << line >>
           kept == [in EXCEPT !.held = << >>]
<1>1. /\ in.buf \in Seq(Heard) /\ line \in Heard /\ rest \in Seq(Heard)
      /\ one \in Seq(Heard) /\ one \o rest = in.buf
  BY HeadTailProperties DEF Clean
<1>2. in.buf \in Seq(Token) /\ one \in Seq(Token)
  BY <1>1, HeardAreTokens
<1>3. kept = in
  <2>1. in.held = << >>
    BY DEF Clean, Inputs
  <2> QED
    BY <2>1 DEF Clean, Inputs
<1>4. CASE line.part \notin {"ok", "err"}
  <2> DEFINE bad == [id |-> id, part |-> "badorigin"]
             out == << bad >>
  <2>1. bad \in Token /\ ~FromOrigin(bad)
    BY DEF Token, Part, FromOrigin
  <2> HIDE DEF bad
  <2>2. out \in Seq(Token) /\ Relevant(out) = << >>
    BY <2>1, RelevantOther
  <2>3. << >> \o in.buf = in.buf
    BY <1>2, ConcatEmptySeq
  <2>4. ScanStatus(in, multiline, id) = Completes(in, out, in.buf, FALSE)
    BY <1>4, Zenon DEF ScanStatus, bad
  <2> HIDE DEF out
  <2>5. Relevant(out) \o in.buf = in.buf
    BY <2>2, <2>3
  <2> QED
    BY <1>1, <2>2, <2>4, <2>5, CompletesFaithful
<1>5. CASE line.part \in {"ok", "err"}
  <2>1. Held(in, line) = one
    <3>1. Append(<< >>, line) = << line >>
      OBVIOUS
    <3> QED
      BY <3>1, Zenon DEF Held, Clean, one
  <2>2. \/ ScanStatus(in, multiline, id) = ScanList(kept, Held(in, line), rest, FALSE)
        \/ \E success : ScanStatus(in, multiline, id) = Completes(in, Held(in, line), rest, success)
    BY <1>5, Zenon DEF ScanStatus
  <2>3. \/ ScanStatus(in, multiline, id) = ScanList(in, one, rest, FALSE)
        \/ \E success : ScanStatus(in, multiline, id) = Completes(in, one, rest, success)
    BY <1>3, <2>1, <2>2, Zenon
  <2> HIDE DEF one, rest
  <2>4. Faithful(ScanList(in, one, rest, FALSE), in)
    BY <1>1, ScanListFaithful
  <2>5. \A success : Faithful(Completes(in, one, rest, success), in)
    <3>1. Relevant(one) \o rest = in.buf
      BY <1>1, RelevantAll
    <3> QED
      BY <1>1, <1>2, <3>1, CompletesFaithful
  <2> QED
    BY <2>3, <2>4, <2>5
<1> QED
  BY <1>4, <1>5

LEMMA ParsePopResponseFaithful ==
  ASSUME NEW in, Clean(in), NEW multiline \in BOOLEAN, NEW id \in Id
  PROVE  Faithful(parsePopResponse(in, multiline, id), in)
<1> DEFINE none == << >>
<1>1. in.buf \in Seq(Heard) /\ in.buf \in Seq(Token) /\ in.state \in ReplyState
  BY HeardAreTokens DEF Clean, Inputs
<1>2. /\ none \in Seq(Token) /\ none \in Seq(Heard) /\ Relevant(none) = none
      /\ none \o none = none /\ none \o in.buf = in.buf
  BY <1>1, RelevantEmpty, EmptySeq, ConcatEmptySeq
<1>3. CASE in.state = "fresh" /\ in.buf = none
  <2>1. parsePopResponse(in, multiline, id) = Waits(in, in.buf, "status")
    BY <1>3 DEF parsePopResponse
  <2> QED
    BY <2>1, WaitsFaithful
<1>4. CASE in.state \in {"status", "list0"} /\ in.buf = none
  <2>1. \E success : parsePopResponse(in, multiline, id) = Completes(in, none, none, success)
    BY <1>4 DEF parsePopResponse
  <2> HIDE DEF none
  <2>2. Relevant(none) \o none = in.buf
    BY <1>2, <1>4
  <2> QED
    BY <1>2, <2>1, <2>2, CompletesFaithful
<1>5. CASE in.state \in {"fresh", "status"} /\ in.buf # none
  <2>1. parsePopResponse(in, multiline, id) = ScanStatus(in, multiline, id)
    BY <1>5 DEF parsePopResponse
  <2> QED
    BY <1>5, <2>1, ScanStatusFaithful
<1>6. CASE in.state \in {"list", "body"} \/ (in.state = "list0" /\ in.buf # none)
  <2>1. parsePopResponse(in, multiline, id) = ScanList(in, none, in.buf, in.state = "list")
    BY <1>6 DEF parsePopResponse
  <2>2. (in.state = "list") \in BOOLEAN
    OBVIOUS
  <2> HIDE DEF none
  <2> QED
    BY <1>1, <1>2, <2>1, <2>2, ScanListFaithful
<1> QED
  BY <1>1, <1>3, <1>4, <1>5, <1>6 DEF ReplyState

-----------------------------------------------------------------------------
(* A session whose client retrieves no message and asks for no             *)
(* capabilities: no filter is ever opened, and a scanner holds nothing     *)
(* back.  What the client was told, what the scanner holds and what is on  *)
(* its way make up what the origin said.                                   *)
Unfiltered == Kinds \intersect {"CAPA", "RETR"} = {}

VerbatimInv ==
  /\ response.held = << >>
  /\ said \in Seq(Heard) /\ reply \in Seq(Heard)
  /\ s2p \in Seq(Heard) /\ response.buf \in Seq(Heard)
  /\ Relevant(told) \o (Text(response) \o s2p) = said

LEMMA VerbatimStays ==
  ASSUME VerbatimInv, reply' \in Seq(Heard),
         UNCHANGED << response, said, s2p, told >>
  PROVE  VerbatimInv'
BY DEF VerbatimInv, Text

LEMMA GreetingHeard ==
  ASSUME NEW id \in Id, NEW part \in {"ok", "err", "item", "end"}
  PROVE  << [id |-> id, part |-> part] >> \in Seq(Heard)
<1>1. [id |-> id, part |-> part] \in Heard
  BY DEF Heard, Token, Part, FromOrigin
<1> QED
  BY <1>1

LEMMA VerbatimInit == Init => VerbatimInv
<1> SUFFICES ASSUME Init PROVE VerbatimInv
  OBVIOUS
<1> DEFINE none == << >>
<1>1. /\ response.buf = none /\ response.out = none
      /\ response.held = << >> /\ s2p = none /\ said = none /\ told = none
  BY DEF Init
<1>2. reply \in Seq(Heard)
  <2>1. 0 \in Id
    BY SessionAssumption DEF Id
  <2> QED
    BY <2>1, GreetingHeard DEF Init
<1>4. none \in Seq(Heard) /\ Relevant(none) = none /\ none \o none = none
  BY RelevantEmpty, EmptySeq, ConcatEmptySeq
<1>5. response.held = << >>
  BY <1>1, Zenon
<1> HIDE DEF none
<1>6. Relevant(told) \o (Text(response) \o s2p) = said
  BY <1>1, <1>4, Zenon DEF Text
<1> QED
  BY <1>1, <1>2, <1>4, <1>5, <1>6 DEF VerbatimInv

(* What fillBuffer adds to the scanner's input.                            *)
LEMMA FilledText ==
  ASSUME TypeInv, VerbatimInv
  PROVE  /\ Clean(Filled) /\ ServerRead.left \in Seq(Heard)
         /\ Text(Filled) \in Seq(Token)
         /\ Text(Filled) \o ServerRead.left = Text(response) \o s2p
<1> DEFINE over == IF origin = "eof" THEN "eof" ELSE IF origin = "up" THEN "again" ELSE "error"
           room == BufSize - Len(response.buf)
           got  == ServerRead.got
           left == ServerRead.left
           R    == Relevant(response.out)
           buf  == response.buf
<1>1. /\ buf \in Seq(Heard) /\ s2p \in Seq(Heard) /\ response.held = << >>
      /\ response \in Inputs(Id) /\ Filled \in Inputs(Id)
      /\ buf \in Seq(Token) /\ s2p \in Seq(Token) /\ R \in Seq(Token)
  <2>1. response.out \in Seq(Token)
    BY DEF TypeInv, TypeOK
  <2> QED
    BY <2>1, FilledType, ResponseType, HeardAreTokens, RelevantType DEF TypeInv, VerbatimInv
<1>2. room \in Nat
  <2>1. Len(buf) \in Nat
    BY <1>1, LenProperties
  <2> QED
    BY <2>1, SessionAssumption DEF TypeInv, BuffersFit
<1>3. ServerRead = Read(s2p, room, over)
  BY DEF ServerRead
<1> HIDE DEF room, over
<1>4. got \in Seq(Heard) /\ left \in Seq(Heard) /\ got \o left = s2p
  <2>1. s2p \in Seq(Heard)
    BY <1>1
  <2> QED
    BY <1>2, <1>3, <2>1, ReadType, Zenon
<1>5. got \in Seq(Token) /\ left \in Seq(Token)
  BY <1>4, HeardAreTokens
<1>6. Filled.buf = buf \o got /\ Filled.out = response.out /\ Filled.held = response.held
  BY <1>1 DEF Filled, Inputs
<1>7. Filled.held = << >>
  BY <1>1, <1>6, Zenon
<1> HIDE DEF got, left, R, buf
<1>8. buf \o got \in Seq(Heard) /\ buf \o got \in Seq(Token)
  BY <1>1, <1>4, ConcatProperties, HeardAreTokens
<1>9. Text(Filled) = R \o (buf \o got) /\ Text(response) = R \o buf
  BY <1>6 DEF Text, R, buf
<1>10. R \o (buf \o got) \in Seq(Token)
  BY <1>1, <1>8, ConcatProperties
<1>11. /\ R \in Seq(Token) /\ buf \in Seq(Token) /\ got \in Seq(Token)
       /\ left \in Seq(Token)
  BY <1>1, <1>5
<1>12. /\ (R \o (buf \o got)) \o left = R \o ((buf \o got) \o left)
       /\ (R \o buf) \o (got \o left) = R \o ((buf \o got) \o left)
  <2>1. (R \o buf) \o (got \o left) = R \o ((buf \o got) \o left)
    <3> DEFINE more == got \o left
    <3>1. R \in Seq(Token) /\ buf \in Seq(Token) /\ more \in Seq(Token)
      BY <1>11, ConcatProperties
    <3>2. (buf \o got) \o left = buf \o more
      BY <1>11, Associative, Zenon
    <3> HIDE DEF more
    <3>3. (R \o buf) \o more = R \o (buf \o more)
      BY <3>1, Associative, Zenon
    <3> QED
      BY <3>2, <3>3 DEF more
  <2>2. (R \o (buf \o got)) \o left = R \o ((buf \o got) \o left)
    <3> DEFINE more == buf \o got
    <3>1. R \in Seq(Token) /\ more \in Seq(Token) /\ left \in Seq(Token)
      BY <1>8, <1>11
    <3> HIDE DEF more
    <3>2. (R \o more) \o left = R \o (more \o left)
      BY <3>1, Associative, Zenon
    <3> QED
      BY <3>2 DEF more
  <2> QED
    BY <2>1, <2>2
<1>13. Text(Filled) \o left = Text(response) \o s2p
  BY <1>4, <1>9, <1>12, Zenon
<1> QED
  BY <1>1, <1>4, <1>6, <1>7, <1>8, <1>9, <1>10, <1>13 DEF Clean, left

(* A block tells the client what it takes out of the scanner.              *)
HandsOver(lines) ==
  /\ Relevant(lines) \o Text(response') = Text(Filled)
  /\ s2p' = ServerRead.left /\ told' = told \o lines
  /\ said' = said /\ reply' = reply

LEMMA TellsVerbatim ==
  ASSUME TypeInv, VerbatimInv, NEW lines \in Seq(Token), HandsOver(lines),
         response'.out \in Seq(Token), response'.buf \in Seq(Heard), response'.held = << >>
  PROVE  VerbatimInv'
<1> DEFINE a == Relevant(told)
           b == Relevant(lines)
           c == Text(response')
           d == ServerRead.left
<1>1. a \in Seq(Token) /\ b \in Seq(Token) /\ told \in Seq(Token)
  <2>1. told \in Seq(Token)
    BY DEF TypeInv, TypeOK
  <2> QED
    BY <2>1, RelevantType
<1>2. c \in Seq(Token)
  <2>1. Relevant(response'.out) \in Seq(Token) /\ response'.buf \in Seq(Token)
    BY RelevantType, HeardAreTokens
  <2> QED
    BY <2>1, ConcatProperties DEF Text
<1>3. d \in Seq(Token) /\ d \in Seq(Heard) /\ Text(Filled) \o d = Text(response) \o s2p
  BY FilledText, HeardAreTokens
<1>4. Relevant(told') = a \o b
  BY <1>1, RelevantConcat DEF HandsOver
<1>5. Text(response)' = c
  BY DEF Text
<1>6. a \o (Text(response) \o s2p) = said /\ b \o c = Text(Filled)
  BY DEF VerbatimInv, HandsOver
<1>7. /\ s2p' = d /\ said' = said /\ reply' = reply
      /\ said \in Seq(Heard) /\ reply \in Seq(Heard)
  BY DEF VerbatimInv, HandsOver
<1> HIDE DEF a, b, c, d
<1>8. (a \o b) \o (c \o d) = a \o ((b \o c) \o d)
  <2>1. a \in Seq(Token) /\ b \in Seq(Token) /\ c \in Seq(Token) /\ d \in Seq(Token)
    BY <1>1, <1>2, <1>3
  <2>2. b \o c \in Seq(Token) /\ c \o d \in Seq(Token)
    BY <2>1, ConcatProperties
  <2>3. (a \o b) \o (c \o d) = a \o (b \o (c \o d))
    <3> DEFINE e == c \o d
    <3>1. a \in Seq(Token) /\ b \in Seq(Token) /\ e \in Seq(Token)
      BY <2>1, <2>2
    <3> HIDE DEF e
    <3>2. \A t, u \in Seq(Token) : (a \o t) \o u = a \o (t \o u)
      BY <3>1, Associative, Zenon
    <3>3. \A u \in Seq(Token) : (a \o b) \o u = a \o (b \o u)
      BY <3>1, <3>2, Zenon
    <3>4. (a \o b) \o e = a \o (b \o e)
      BY <3>1, <3>3, Zenon
    <3> QED
      BY <3>4 DEF e
  <2>4. (b \o c) \o d = b \o (c \o d)
    <3>1. b \in Seq(Token) /\ c \in Seq(Token) /\ d \in Seq(Token)
      BY <2>1
    <3>2. \A t, u \in Seq(Token) : (b \o t) \o u = b \o (t \o u)
      BY <3>1, Associative, Zenon
    <3>3. \A u \in Seq(Token) : (b \o c) \o u = b \o (c \o u)
      BY <3>1, <3>2, Zenon
    <3> QED
      BY <3>1, <3>3, Zenon
  <2> QED
    BY <2>3, <2>4, Zenon
<1>9. (a \o b) \o (c \o d) = said
  BY <1>3, <1>6, <1>8, Zenon
<1>10. Relevant(told') \o (Text(response)' \o s2p') = said'
  BY <1>4, <1>5, <1>7, <1>9
<1> QED
  BY <1>3, <1>7, <1>10 DEF VerbatimInv

LEMMA ParsedFaithful ==
  ASSUME TypeInv, VerbatimInv, queue # << >>
  PROVE  Faithful(Parsed, Filled)
<1>1. Clean(Filled) /\ Head(queue).id \in Id /\ (Head(queue).kind \in Multiline) \in BOOLEAN
  BY FilledText, QueueHead DEF TypeInv
<1> QED
  BY <1>1, ParsePopResponseFaithful, Zenon DEF Parsed

LEMMA RespondInvalidVerbatim ==
  ASSUME TypeInv, VerbatimInv, RespondInvalid
  PROVE  VerbatimInv'
<1> DEFINE e == [id |-> Head(queue).id, part |-> "invalid"]
           lines == << e >>
<1>1. queue # << >> /\ Head(queue).id \in Id
  BY Reached, QueueHead DEF RespondInvalid, TypeInv
<1>2. e \in Token /\ ~FromOrigin(e)
  BY <1>1 DEF Token, Part, FromOrigin
<1>3. /\ told' = told \o lines /\ s2p' = ServerRead.left /\ response' = Filled
      /\ said' = said /\ reply' = reply
  BY DEF RespondInvalid, Tells
<1> HIDE DEF e
<1>4. lines \in Seq(Token) /\ Relevant(lines) = << >>
  BY <1>2, RelevantOther
<1> HIDE DEF lines
<1>5. /\ Clean(Filled) /\ Text(Filled) \in Seq(Token)
      /\ << >> \o Text(Filled) = Text(Filled)
  BY FilledText, ConcatEmptySeq
<1>6. response'.out \in Seq(Token) /\ response'.buf \in Seq(Heard) /\ response'.held = << >>
  BY <1>3, <1>5, TokenIsTokens DEF Clean, Inputs
<1>7. Relevant(lines) \o Text(response') = Text(Filled)
  BY <1>3, <1>4, <1>5
<1> QED
  BY <1>3, <1>4, <1>6, <1>7, TellsVerbatim DEF HandsOver

LEMMA RespondWaitsVerbatim ==
  ASSUME TypeInv, VerbatimInv, RespondWaits
  PROVE  VerbatimInv'
<1> DEFINE lines == << >>
<1>1. queue # << >>
  BY Reached DEF RespondWaits
<1>2. Faithful(Parsed, Filled) /\ Parsed.next.out \in Seq(Token)
  BY <1>1, ParsedFaithful, ParsedType
<1>3. ~Parsed.done /\ s2p' = ServerRead.left /\ response' = Parsed.next
  BY DEF RespondWaits
<1>4. Parsed.out = lines
  BY <1>2, <1>3, Zenon DEF Faithful
<1>5. told' = told /\ said' = said /\ reply' = reply
  BY DEF RespondWaits, histVars
<1>6. told \o lines = told /\ lines \in Seq(Token)
  BY ConcatEmptySeq, EmptySeq DEF TypeInv, TypeOK
<1> HIDE DEF lines
<1>7. /\ Relevant(lines) \o Text(response') = Text(Filled)
      /\ response'.held = << >> /\ response'.buf \in Seq(Heard) /\ response'.out \in Seq(Token)
  BY <1>2, <1>3, <1>4, Zenon DEF Faithful
<1>8. told' = told \o lines
  BY <1>5, <1>6
<1> QED
  BY <1>3, <1>5, <1>6, <1>7, <1>8, TellsVerbatim DEF HandsOver

LEMMA RespondVerbatim ==
  ASSUME TypeInv, Unfiltered, KnownInv, VerbatimInv, Respond \/ RespondQuit
  PROVE  VerbatimInv'
<1> DEFINE lines == Parsed.out
<1>1. RespondDone /\ said' = said /\ reply' = reply
  BY DEF Respond, RespondQuit
<1>2. queue # << >>
  BY <1>1, Reached DEF RespondDone
<1>3. Head(queue).kind # "CAPA"
  BY <1>2, KnownHead DEF Unfiltered
<1>4. told' = told \o lines /\ s2p' = ServerRead.left /\ response' = Parsed.next
  BY <1>1, <1>3 DEF RespondDone, Relayed, Tells
<1>5. Faithful(Parsed, Filled) /\ Parsed.next.out \in Seq(Token) /\ lines \in Seq(Token)
  BY <1>2, ParsedFaithful, ParsedType
<1>6. /\ Relevant(lines) \o Text(response') = Text(Filled)
      /\ response'.held = << >> /\ response'.buf \in Seq(Heard) /\ response'.out \in Seq(Token)
  BY <1>4, <1>5, Zenon DEF Faithful
<1> HIDE DEF lines
<1> QED
  BY <1>1, <1>4, <1>5, <1>6, TellsVerbatim DEF HandsOver

(* The origin only says what an origin says.                               *)
LEMMA RepliesHeard ==
  ASSUME NEW cmd \in Command
  PROVE  Replies(cmd) \subseteq Seq(Heard)
<1> SUFFICES ASSUME NEW r \in Replies(cmd)
             PROVE  r \in Seq(Heard)
  OBVIOUS
<1>1. cmd.id \in Id
  BY DEF Command
<1> DEFINE line(part) == << [id |-> cmd.id, part |-> part] >>
<1>2. line("ok") \in Seq(Heard) /\ line("err") \in Seq(Heard) /\ line("end") \in Seq(Heard)
  BY <1>1, GreetingHeard, Zenon
<1>3. ASSUME NEW n \in MinLines .. MaxLines
      PROVE  line("ok") \o Lines(cmd.id, n) \o line("end") \in Seq(Heard)
  <2>1. n \in Nat
    BY <1>3, SessionAssumption
  <2>2. [id |-> cmd.id, part |-> "item"] \in Heard
    BY <1>1 DEF Heard, Token, Part, FromOrigin
  <2>3. Lines(cmd.id, n) \in Seq(Heard)
    BY <2>1, <2>2, SeqDef DEF Lines
  <2> HIDE DEF line
  <2> QED
    BY <1>2, <2>3, ConcatProperties
<1>4. \/ r = line("err") \/ r = line("ok")
      \/ \E n \in MinLines .. MaxLines : r = line("ok") \o Lines(cmd.id, n) \o line("end")
  BY DEF Replies
<1> HIDE DEF line
<1> QED
  BY <1>2, <1>3, <1>4

LEMMA OriginSaysVerbatim ==
  ASSUME TypeInv, VerbatimInv, OriginSays
  PROVE  VerbatimInv'
<1> DEFINE e == Head(reply)
           a == Relevant(told)
           b == Text(response)
<1>1. /\ e \in Heard /\ Tail(reply) \in Seq(Heard) /\ e \in Token
  <2>1. reply \in Seq(Heard) /\ reply # << >>
    BY DEF OriginSays, VerbatimInv
  <2> QED
    BY <2>1, HeadTailProperties DEF Heard
<1>2. /\ s2p' = Append(s2p, e) /\ said' = Append(said, e) /\ reply' = Tail(reply)
      /\ UNCHANGED << response, told >>
  BY DEF OriginSays, proxyVars
<1>3. /\ a \in Seq(Token) /\ b \in Seq(Token) /\ s2p \in Seq(Token) /\ said \in Seq(Token)
  <2>1. /\ Relevant(response.out) \in Seq(Token) /\ response.buf \in Seq(Token)
        /\ told \in Seq(Token) /\ s2p \in Seq(Token) /\ said \in Seq(Token)
    BY RelevantType DEF TypeInv, TypeOK
  <2> QED
    BY <2>1, RelevantType, ConcatProperties DEF Text
<1>4. /\ s2p' \in Seq(Heard) /\ said' \in Seq(Heard)
  BY <1>1, <1>2, AppendProperties DEF VerbatimInv
<1>5. a \o (b \o s2p) = said /\ s2p \in Seq(Heard) /\ said \in Seq(Heard)
  BY DEF VerbatimInv
<1>6. Relevant(told)' = a /\ Text(response)' = b
  BY <1>2 DEF Text
<1> HIDE DEF e, a, b
<1>7. b \o s2p \in Seq(Token) /\ b \o Append(s2p, e) = Append(b \o s2p, e)
  BY <1>1, <1>3, ConcatProperties, ConcatAppend
<1>8. a \o Append(b \o s2p, e) = Append(a \o (b \o s2p), e)
  BY <1>1, <1>3, <1>7, ConcatAppend, SMTT(30)
<1>9. Relevant(told)' \o (Text(response)' \o s2p') = said'
  BY <1>2, <1>5, <1>6, <1>7, <1>8
<1> QED
  BY <1>1, <1>2, <1>4, <1>9 DEF VerbatimInv

LEMMA VerbatimStep ==
  ASSUME Unfiltered
  PROVE  TypeInv /\ KnownInv /\ Filterless /\ VerbatimInv /\ [Next]_vars => VerbatimInv'
<1> SUFFICES ASSUME TypeInv, KnownInv, Filterless, VerbatimInv, [Next]_vars
             PROVE  VerbatimInv'
  OBVIOUS
<1>1. CASE Feed \/ Drain
  BY <1>1, NoFilterBlock
<1>2. CASE RespondInvalid
  BY <1>2, RespondInvalidVerbatim
<1>3. CASE RespondWaits
  BY <1>3, RespondWaitsVerbatim
<1>4. CASE Respond \/ RespondQuit
  BY <1>4, RespondVerbatim
<1>5. CASE RespondRetrieve
  <2>1. queue # << >> /\ Head(queue).kind = "RETR"
    BY <1>5, Reached DEF RespondRetrieve, RespondDone
  <2> QED
    BY <2>1, KnownHead DEF Unfiltered
<1>6. CASE OriginSays
  BY <1>6, OriginSaysVerbatim
<1>7. CASE OriginServes
  <2>1. /\ p2s # << >> /\ reply' \in Replies(Head(p2s))
        /\ UNCHANGED << response, said, s2p, told >>
    BY <1>7 DEF OriginServes, proxyVars, histVars
  <2>2. Head(p2s) \in Command
    BY <2>1, HeadTailProperties DEF TypeInv, TypeOK
  <2>3. reply' \in Seq(Heard)
    BY <2>1, <2>2, RepliesHeard
  <2> QED
    BY <2>1, <2>3, VerbatimStays DEF VerbatimInv
<1>8. CASE OriginFails
  <2>1. reply' = << >> /\ UNCHANGED << response, said, s2p, told >>
    BY <1>8 DEF OriginFails, proxyVars, histVars
  <2> QED
    BY <2>1, VerbatimStays, EmptySeq DEF VerbatimInv
<1>9. CASE Connect \/ TakeCommand \/ TakeNothing \/ SendNothing \/ SendCommand
           \/ SendFails \/ Finish
  <2>1. UNCHANGED << response, said, s2p, told, reply >>
    BY <1>9 DEF Connect, TakeCommand, TakeNothing, SendNothing, SendCommand,
       SendFails, Finish, netVars, histVars
  <2> QED
    BY <2>1, VerbatimStays DEF VerbatimInv
<1>10. CASE Poll \/ ClientSends \/ ClientCloses \/ ClientReads \/ OriginAccepts
            \/ FilterReads \/ FilterWrites \/ FilterExits \/ UNCHANGED vars
  <2>1. UNCHANGED << response, said, s2p, told, reply >>
    BY <1>10 DEF Poll, ClientSends, ClientCloses, ClientReads, OriginAccepts, FilterReads,
       FilterWrites, FilterExits, vars, proxyVars, netVars, peerVars, histVars
  <2> QED
    BY <2>1, VerbatimStays DEF VerbatimInv
<1> QED
  BY <1>1, <1>2, <1>3, <1>4, <1>5, <1>6, <1>7, <1>8, <1>9, <1>10
     DEF Next, Proxy, ProcessClient, OriginStep

(* The client of a session without RETR and CAPA is told what the origin   *)
(* said, word for word, wherever a read breaks a reply or a write waits    *)
(* for room, and also when the origin fails in the middle of a reply       *)
(* (fillBuffer, processPopServer and the scanner's saved output).  Only    *)
(* the proxy's own lines come in between.                                  *)
THEOREM ToldVerbatim ==
  ASSUME Unfiltered
  PROVE  Spec => []Verbatim
<1>1. Spec => []TypeInv
  BY TypeCorrect DEF TypeInv
<1>2. Spec => []KnownInv
  BY KnownAlways
<1>3. Spec => []Filterless
  BY FilterlessAlways DEF Unfiltered
<1>4. Init => VerbatimInv
  BY VerbatimInit
<1>5. TypeInv /\ KnownInv /\ Filterless /\ VerbatimInv /\ [Next]_vars => VerbatimInv'
  BY VerbatimStep
<1>6. TypeInv /\ VerbatimInv => Verbatim
  <2> SUFFICES ASSUME TypeInv, VerbatimInv
               PROVE  Verbatim
    OBVIOUS
  <2> DEFINE a == Relevant(told)
             b == Text(response) \o s2p
  <2>1. a \in Seq(Token)
    BY RelevantType DEF TypeInv, TypeOK
  <2>2. b \in Seq(Token)
    <3>1. /\ Relevant(response.out) \in Seq(Token) /\ response.buf \in Seq(Token)
          /\ s2p \in Seq(Token)
      BY RelevantType DEF TypeInv, TypeOK
    <3> QED
      BY <3>1, ConcatProperties DEF Text
  <2>3. said = a \o b
    BY DEF VerbatimInv
  <2> HIDE DEF a, b
  <2>4. Len(a) <= Len(said) /\ \A i \in 1 .. Len(a) : a[i] = said[i]
    <3>1. /\ Len(said) = Len(a) + Len(b) /\ Len(a) \in Nat /\ Len(b) \in Nat
          /\ \A i \in 1 .. Len(a) + Len(b) : said[i] = IF i <= Len(a) THEN a[i] ELSE b[i - Len(a)]
      BY <2>1, <2>2, <2>3, ConcatProperties, LenProperties
    <3> QED
      BY <3>1
  <2> QED
    BY <2>4 DEF Verbatim, IsPrefixOf, a
<1> QED
  BY <1>1, <1>2, <1>3, <1>4, <1>5, <1>6, PTL DEF Spec
=============================================================================
