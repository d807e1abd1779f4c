--------------------------- MODULE BuffersProofs ----------------------------
(***************************************************************************)
(* What a read takes and leaves, for every stream and every room, with the *)
(* facts on sequences that the proofs about the scanners share.            *)
(***************************************************************************)
EXTENDS Buffers, SequenceTheorems, WellFoundedInduction, TLAPS

(* A set of natural numbers that is not empty has a least element.         *)
LEMMA LeastElement ==
  ASSUME NEW T, T \subseteq Nat, T # {}
  PROVE  \E i \in T : \A j \in T : i <= j
<1>1. IsWellFoundedOn(OpToRel(<, Nat), Nat)
  BY NatLessThanWellFounded
<1>2. PICK i \in T : \A j \in T : ~(<< j, i >> \in OpToRel(<, Nat))
  BY <1>1, WFMin, Zenon
<1>3. \A j \in T : ~(j < i)
  BY <1>2 DEF OpToRel
<1> QED
  BY <1>3

(* Induction up to a bound, for a set.                                     *)
LEMMA UpTo ==
  ASSUME NEW N \in Nat, NEW T, 0 \in T, \A n \in 0 .. N - 1 : n \in T => n + 1 \in T
  PROVE  \A n \in 0 .. N : n \in T
<1> DEFINE U == {n \in 0 .. N : n \notin T}
<1> SUFFICES ASSUME U # {}
             PROVE  FALSE
  OBVIOUS
<1>1. U \subseteq Nat
  OBVIOUS
<1>2. \A n \in U : n \in 0 .. N /\ n \notin T
  OBVIOUS
<1>3. \A n \in 0 .. N : n \notin T => n \in U
  OBVIOUS
<1> HIDE DEF U
<1>4. PICK m \in U : \A n \in U : m <= n
  BY <1>1, LeastElement
<1>5. m \in 0 .. N /\ m # 0 /\ m \notin T
  BY <1>2, <1>4
<1>6. PICK p \in 0 .. N - 1 : m = p + 1
  BY <1>5
<1>7. p \notin T
  BY <1>5, <1>6
<1>8. p \in U
  BY <1>3, <1>6, <1>7
<1> QED
  BY <1>4, <1>6, <1>8

(* What a definition by recursion up to a bound defines exists.            *)
LEMMA Recursion ==
  ASSUME NEW A, NEW a \in A, NEW N \in Nat, NEW step \in [1 .. N -> [A -> A]]
  PROVE  \E f \in [0 .. N -> A] : f[0] = a /\ \A n \in 1 .. N : f[n] = step[n][f[n - 1]]
<1> DEFINE Runs(f, m) == f[0] = a /\ \A n \in 1 .. m : f[n] = step[n][f[n - 1]]
           T == {m \in 0 .. N : \E f \in [0 .. m -> A] : Runs(f, m)}
<1>1. 0 \in T
  <2> DEFINE g == [n \in 0 .. 0 |-> a]
  <2>1. g \in [0 .. 0 -> A] /\ Runs(g, 0)
    OBVIOUS
  <2> HIDE DEF g, Runs
  <2> QED
    BY <2>1
<1>2. ASSUME NEW m \in 0 .. N - 1, m \in T
      PROVE  m + 1 \in T
  <2>1. PICK f \in [0 .. m -> A] : Runs(f, m)
    BY <1>2
  <2> DEFINE g == [n \in 0 .. m + 1 |-> IF n = m + 1 THEN step[m + 1][f[m]] ELSE f[n]]
  <2>2. g \in [0 .. m + 1 -> A]
    <3>1. m + 1 \in 1 .. N /\ f[m] \in A
      OBVIOUS
    <3>2. step[m + 1][f[m]] \in A
      BY <3>1
    <3> QED
      BY <3>2
  <2>3. g[0] = a /\ \A n \in 0 .. m : g[n] = f[n]
    BY <2>1
  <2>4. g[m + 1] = step[m + 1][g[m]]
    <3>1. g[m + 1] = step[m + 1][f[m]]
      OBVIOUS
    <3>2. g[m] = f[m]
      BY <2>3
    <3> HIDE DEF g
    <3> QED
      BY <3>1, <3>2
  <2>5. ASSUME NEW n \in 1 .. m
        PROVE  g[n] = step[n][g[n - 1]]
    <3>1. n \in 0 .. m /\ n - 1 \in 0 .. m
      OBVIOUS
    <3>2. g[n] = f[n] /\ g[n - 1] = f[n - 1]
      BY <2>3, <3>1
    <3> QED
      BY <2>1, <3>2
  <2> HIDE DEF g
  <2>6. Runs(g, m + 1)
    <3>1. \A n \in 1 .. m + 1 : n \in 1 .. m \/ n = m + 1
      OBVIOUS
    <3>2. (m + 1) - 1 = m
      OBVIOUS
    <3> QED
      BY <2>3, <2>4, <2>5, <3>1, <3>2
  <2>7. m + 1 \in 0 .. N
    OBVIOUS
  <2> QED
    BY <2>2, <2>6, <2>7
<1> HIDE DEF T
<1>3. N \in T
  <2>1. \A n \in 0 .. N - 1 : n \in T => n + 1 \in T
    BY <1>2
  <2>2. \A n \in 0 .. N : n \in T
    BY <1>1, <2>1, UpTo
  <2> QED
    BY <2>2
<1> QED
  BY <1>3 DEF T

(* A part of a sequence is a sequence, and no longer.                      *)
LEMMA SubSeqType ==
  ASSUME NEW S, NEW seq \in Seq(S), NEW m \in Nat \ {0}, NEW n \in Nat, n <= Len(seq)
  PROVE  /\ SubSeq(seq, m, n) \in Seq(S)
         /\ Len(SubSeq(seq, m, n)) <= Len(seq)
<1>1. \A i \in m .. n : seq[i] \in S
  BY ElementOfSeq, LenProperties
<1>2. m \in Int /\ n \in Int /\ Len(seq) \in Nat
  BY LenProperties
<1>3. /\ SubSeq(seq, m, n) \in Seq(S)
      /\ Len(SubSeq(seq, m, n)) = IF m <= n THEN n - m + 1 ELSE 0
  BY <1>1, <1>2, SubSeqProperties
<1> QED
  BY <1>2, <1>3

LEMMA ConcatAppend ==
  ASSUME NEW S, NEW s \in Seq(S), NEW t \in Seq(S), NEW e \in S
  PROVE  s \o Append(t, e) = Append(s \o t, e)
<1> DEFINE one == << e >>
           st  == s \o t
<1>1. one \in Seq(S) /\ st \in Seq(S) /\ Append(t, e) = t \o one
  BY ConcatProperties, AppendIsConcat
<1>2. Append(st, e) = st \o one
  BY <1>1, AppendIsConcat
<1> HIDE DEF one
<1>3. st \o one = s \o (t \o one)
  BY <1>1, ConcatAssociative
<1> QED
  BY <1>1, <1>2, <1>3

(* A sequence is what a cut makes of it.                                   *)
LEMMA Cut ==
  ASSUME NEW S, NEW seq \in Seq(S), NEW n \in 0 .. Len(seq)
  PROVE  /\ SubSeq(seq, 1, n) \in Seq(S) /\ SubSeq(seq, n + 1, Len(seq)) \in Seq(S)
         /\ SubSeq(seq, 1, n) \o SubSeq(seq, n + 1, Len(seq)) = seq
         /\ Len(SubSeq(seq, n + 1, Len(seq))) <= Len(seq)
<1>1. /\ Len(seq) \in Nat /\ n \in Nat /\ n <= Len(seq)
      /\ 1 \in Nat \ {0} /\ n + 1 \in Nat \ {0} /\ Len(seq) <= Len(seq)
      /\ 1 \in 1 .. Len(seq) + 1 /\ n \in 1 - 1 .. Len(seq) /\ Len(seq) \in n .. Len(seq)
  BY LenProperties
<1>2. SubSeq(seq, 1, n) \o SubSeq(seq, n + 1, Len(seq)) = SubSeq(seq, 1, Len(seq))
  BY <1>1, ConcatAdjacentSubSeq, Zenon
<1>3. SubSeq(seq, 1, n) \in Seq(S)
  BY <1>1, SubSeqType, Zenon
<1>4. SubSeq(seq, n + 1, Len(seq)) \in Seq(S) /\ Len(SubSeq(seq, n + 1, Len(seq))) <= Len(seq)
  BY <1>1, SubSeqType, Zenon
<1> QED
  BY <1>2, <1>3, <1>4, SubSeqFull, Zenon

(* A read takes a prefix of the stream that fits the room.                 *)
LEMMA ReadType ==
  ASSUME NEW S, NEW stream \in Seq(S), NEW room \in Nat, NEW over
  PROVE  LET r == Read(stream, room, over) IN
         /\ r.got \in Seq(S) /\ r.left \in Seq(S) /\ r.count \in {"data", "eof", over}
         /\ Len(r.got) \in Nat /\ Len(r.got) <= room
         /\ r.got \o r.left = stream
<1> DEFINE r == Read(stream, room, over)
           n == IF Len(stream) <= room THEN Len(stream) ELSE room
<1>1. Len(stream) \in Nat /\ n \in Nat /\ n <= Len(stream) /\ n <= room
  BY LenProperties
<1>2. /\ r.got = SubSeq(stream, 1, n) /\ r.left = SubSeq(stream, n + 1, Len(stream))
      /\ r.count \in {"data", "eof", over}
  BY DEF Read
<1> HIDE DEF n, r
<1>3. /\ 1 \in Nat \ {0} /\ n + 1 \in Nat \ {0} /\ Len(stream) <= Len(stream)
      /\ \A i \in 1 .. n : stream[i] \in S
  BY <1>1, ElementOfSeq
<1>4. r.got \in Seq(S) /\ r.left \in Seq(S)
  BY <1>1, <1>2, <1>3, SubSeqType, Zenon
<1>5. Len(r.got) = n
  <2>1. 1 \in Int /\ n \in Int
    BY <1>1
  <2>2. Len(SubSeq(stream, 1, n)) = IF 1 <= n THEN n - 1 + 1 ELSE 0
    BY <1>3, <2>1, SubSeqProperties
  <2> QED
    BY <1>1, <1>2, <2>2
<1>6. r.got \o r.left = stream
  <2>1. /\ 1 \in 1 .. Len(stream) + 1 /\ n \in 1 - 1 .. Len(stream)
        /\ Len(stream) \in n .. Len(stream)
    BY <1>1
  <2>2. SubSeq(stream, 1, n) \o SubSeq(stream, n + 1, Len(stream))
          = SubSeq(stream, 1, Len(stream))
    BY <2>1, ConcatAdjacentSubSeq, Zenon
  <2> QED
    BY <1>2, <2>2, SubSeqFull, Zenon
<1> QED
  BY <1>1, <1>2, <1>4, <1>5, <1>6 DEF r
=============================================================================
