-------------------------- MODULE TcpRpcServerProofs --------------------------
(***************************************************************************)
(* Proofs about TcpRpcServer, for all requests, connections and sizes of   *)
(* the buffers, over the bytes that Cobs and CobsFrame make of requests.   *)
(***************************************************************************)
EXTENDS TcpRpcServer, SequenceTheorems, FiniteSetTheorems, WellFoundedInduction, TLAPS

-----------------------------------------------------------------------------
(* Induction, and recursive functions that follow a loop. *)

LEMMA Induction ==
  ASSUME NEW T \in SUBSET Nat, 0 \in T, \A n \in T : n + 1 \in T
  PROVE  T = Nat
<1> DEFINE Below == {p \in Nat \X Nat : p[1] < p[2]}
<1>1. IsWellFoundedOn(Below, Nat)
  BY NatLessThanWellFounded DEF OpToRel
<1>2. SUFFICES ASSUME Nat \ T # {} PROVE FALSE
  OBVIOUS
<1>3. PICK m \in Nat \ T : \A k \in Nat \ T : <<k, m>> \notin Below
  BY <1>1, <1>2, WFMin
<1>4. m # 0 /\ m - 1 \in Nat
  OBVIOUS
<1>5. <<m - 1, m>> \in Below
  BY <1>4
<1>6. m - 1 \in T
  BY <1>3, <1>4, <1>5
<1>. QED BY <1>4, <1>6

\* Induction up to a bound.
LEMMA UpTo ==
  ASSUME NEW N \in Nat, NEW T, 0 \in T, \A n \in 0 .. N - 1 : n \in T => n + 1 \in T
  PROVE  0 .. N \subseteq T
<1> DEFINE U == {n \in Nat : n =< N => n \in T}
<1>1. 0 \in U
  OBVIOUS
<1>2. \A n \in U : n + 1 \in U
  OBVIOUS
<1>3. U = Nat
  <2>. HIDE DEF U
  <2>1. U \in SUBSET Nat
    BY DEF U
  <2>. QED BY <1>1, <1>2, <2>1, Induction
<1>. QED BY <1>3

\* g is what a loop over s has made of base after each of its rounds.
Rounds(g, Step, base, s) ==
  \A n \in 0 .. Len(s) : g[n] = IF n = 0 THEN base ELSE Step[<<g[n - 1], s[n]>>]

LEMMA LoopExists ==
  ASSUME NEW A, NEW B, NEW Step \in [A \X B -> A], NEW base \in A, NEW s \in Seq(B)
  PROVE  \E g \in [0 .. Len(s) -> A] : Rounds(g, Step, base, s)
<1> DEFINE Loops(g, m) ==
             \A n \in 0 .. m : g[n] = IF n = 0 THEN base ELSE Step[<<g[n - 1], s[n]>>]
           T == {m \in Nat : \E g \in [0 .. m -> A] : Loops(g, m)}
<1>0. Len(s) \in Nat /\ \A i \in 1 .. Len(s) : s[i] \in B
  BY LenProperties, ElementOfSeq
<1>1. 0 \in T
  <2> DEFINE g == [n \in 0 .. 0 |-> base]
  <2>1. g \in [0 .. 0 -> A] /\ Loops(g, 0)
    OBVIOUS
  <2>. QED BY <2>1
<1>2. ASSUME NEW m \in 0 .. Len(s) - 1, m \in T PROVE m + 1 \in T
  <2>1. SUFFICES \E g \in [0 .. m + 1 -> A] : Loops(g, m + 1)
    BY <1>0
  <2>2. PICK g \in [0 .. m -> A] : Loops(g, m)
    BY <1>2
  <2> DEFINE h == [n \in 0 .. m + 1 |-> IF n = m + 1 THEN Step[<<g[m], s[m + 1]>>] ELSE g[n]]
  <2>3. g[m] \in A /\ s[m + 1] \in B
    BY <1>0
  <2>4. h \in [0 .. m + 1 -> A]
    BY <2>3
  <2>5. ASSUME NEW n \in 0 .. m + 1
        PROVE  h[n] = IF n = 0 THEN base ELSE Step[<<h[n - 1], s[n]>>]
    <3>1. CASE n = m + 1
      <4>1. h[n] = Step[<<g[m], s[n]>>] /\ n - 1 = m /\ h[m] = g[m] /\ n # 0
        BY <3>1
      <4>. QED BY <4>1
    <3>2. CASE n # m + 1
      <4>1. n \in 0 .. m /\ h[n] = g[n] /\ (n # 0 => h[n - 1] = g[n - 1])
        BY <3>2
      <4>2. g[n] = IF n = 0 THEN base ELSE Step[<<g[n - 1], s[n]>>]
        BY <2>2, <4>1
      <4>. QED BY <4>1, <4>2
    <3>. QED BY <3>1, <3>2
  <2>. QED BY <2>4, <2>5
<1>3. 0 .. Len(s) \subseteq T
  <2>. HIDE DEF T
  <2>. QED BY <1>0, <1>1, <1>2, UpTo
<1>4. PICK g \in [0 .. Len(s) -> A] : Loops(g, Len(s))
  BY <1>0, <1>3
<1>. QED BY <1>4 DEF Rounds

-----------------------------------------------------------------------------
(* The encoder. *)

Encoder == [closed : Seq(Bytes), block : {b \in Seq(Bytes) : Len(b) < MaxCode}]
Empty == [closed |-> << >>, block |-> << >>]

LEMMA Join ==
  ASSUME NEW S, NEW s \in Seq(S), NEW t \in Seq(S)
  PROVE  /\ s \o t \in Seq(S) /\ Len(s \o t) = Len(s) + Len(t)
         /\ \A i \in 1 .. Len(s) : (s \o t)[i] = s[i]
         /\ \A i \in 1 .. Len(t) : (s \o t)[Len(s) + i] = t[i]
BY ConcatProperties, LenProperties

LEMMA CodeBounds == MaxCode \in Nat /\ MaxCode > 1 /\ MaxCode =< 255
BY CodeAssumption, ServerAssumption

LEMMA CodeInBytes == \A n \in Nat : n < MaxCode => n + 1 \in Bytes
BY CodeBounds DEF Bytes

LEMMA Single == \A S : \A e \in S : <<e>> \in Seq(S) /\ Len(<<e>>) = 1 /\ <<e>>[1] = e
OBVIOUS

LEMMA ClosedIs ==
  ASSUME NEW acc \in Encoder
  PROVE  /\ Closed(acc) \in Seq(Bytes)
         /\ Len(Closed(acc)) = Len(acc.closed) + 1 + Len(acc.block)
         /\ \A i \in 1 .. Len(acc.closed) : Closed(acc)[i] = acc.closed[i]
         /\ Closed(acc)[Len(acc.closed) + 1] = Len(acc.block) + 1
         /\ \A i \in 1 .. Len(acc.block) : Closed(acc)[Len(acc.closed) + 1 + i] = acc.block[i]
<1> DEFINE a == acc.closed
           b == acc.block
           code == Len(b) + 1
           c == <<code>>
<1>1. a \in Seq(Bytes) /\ b \in Seq(Bytes) /\ Len(b) < MaxCode
  BY DEF Encoder
<1>2. Len(a) \in Nat /\ Len(b) \in Nat
  BY <1>1, LenProperties
<1>3. c \in Seq(Bytes) /\ Len(c) = 1 /\ c[1] = code
  <2>1. code \in Bytes
    BY <1>1, <1>2, CodeInBytes
  <2>. HIDE DEF code
  <2>. QED BY <2>1, Single
<1>4. Closed(acc) = a \o c \o b
  BY DEF Closed
<1>. HIDE DEF a, b, c
<1>5. /\ a \o c \in Seq(Bytes) /\ Len(a \o c) = Len(a) + Len(c)
      /\ \A i \in 1 .. Len(a) : (a \o c)[i] = a[i]
      /\ \A i \in 1 .. Len(c) : (a \o c)[Len(a) + i] = c[i]
  <2>1. a \in Seq(Bytes) /\ c \in Seq(Bytes)
    BY <1>1, <1>3
  <2>. QED BY <2>1, Join
<1> DEFINE d == a \o c
<1>6. /\ d \o b \in Seq(Bytes) /\ Len(d \o b) = Len(d) + Len(b)
      /\ \A i \in 1 .. Len(d) : (d \o b)[i] = d[i]
      /\ \A i \in 1 .. Len(b) : (d \o b)[Len(d) + i] = b[i]
  <2>. HIDE DEF d
  <2>1. d \in Seq(Bytes)
    BY <1>5 DEF d
  <2>. QED BY <1>1, <2>1, Join
<1>7. /\ Len(d) = Len(a) + 1 /\ d[Len(a) + 1] = code
      /\ \A i \in 1 .. Len(a) : d[i] = a[i]
  BY <1>2, <1>3, <1>5
<1>8. Closed(acc) = d \o b
  BY <1>4
<1>. HIDE DEF d
<1>9. /\ Len(d \o b) = Len(a) + 1 + Len(b)
      /\ \A i \in 1 .. Len(a) : (d \o b)[i] = a[i]
      /\ (d \o b)[Len(a) + 1] = code
      /\ \A i \in 1 .. Len(b) : (d \o b)[Len(a) + 1 + i] = b[i]
  BY <1>2, <1>6, <1>7
<1>. QED BY <1>6, <1>8, <1>9 DEF a, b

\* One pass of the encoder's loop goes on with the block, or closes it.
LEMMA EncodeByteIs ==
  ASSUME NEW acc \in Encoder, NEW byte \in Bytes
  PROVE  /\ EncodeByte(acc, byte) \in Encoder
         /\ \/ /\ EncodeByte(acc, byte) = [closed |-> acc.closed, block |-> Append(acc.block, byte)]
               /\ byte # 0 /\ Len(acc.block) + 1 # MaxCode
            \/ /\ EncodeByte(acc, byte) = [closed |-> Closed(acc), block |-> << >>]
               /\ byte = 0 /\ Len(acc.block) + 1 # MaxCode
            \/ /\ EncodeByte(acc, byte) = [closed |-> Closed(acc), block |-> <<byte>>]
               /\ Len(acc.block) + 1 = MaxCode
<1> DEFINE a == acc.closed
           b == acc.block
           e == EncodeByte(acc, byte)
<1>1. acc = [closed |-> a, block |-> b] /\ a \in Seq(Bytes) /\ b \in Seq(Bytes) /\ Len(b) < MaxCode
  BY DEF Encoder
<1>2. Closed(acc) \in Seq(Bytes)
  BY ClosedIs
<1>3. Len(b) \in Nat /\ MaxCode \in Nat /\ MaxCode > 1
  BY <1>1, LenProperties, CodeAssumption
<1>4. CASE byte # 0 /\ Len(b) + 1 # MaxCode
  <2>1. e = [closed |-> a, block |-> Append(b, byte)]
    BY <1>1, <1>4 DEF EncodeByte
  <2>2. Append(b, byte) \in Seq(Bytes) /\ Len(Append(b, byte)) = Len(b) + 1
    BY <1>1, AppendProperties
  <2>3. Len(b) + 1 < MaxCode
    BY <1>1, <1>3, <1>4
  <2>. HIDE DEF a, b
  <2>4. [closed |-> a, block |-> Append(b, byte)] \in Encoder
    BY <1>1, <2>2, <2>3 DEF Encoder
  <2>. QED BY <1>4, <2>1, <2>4 DEF a, b
<1>5. CASE ~(byte # 0 /\ Len(b) + 1 # MaxCode)
  <2> DEFINE n == IF Len(b) + 1 = MaxCode THEN <<byte>> ELSE << >>
             cl == Closed(acc)
  <2>1. e = [closed |-> cl, block |-> n]
    BY <1>5 DEF EncodeByte
  <2>2. n \in Seq(Bytes) /\ Len(n) < MaxCode
    BY <1>3
  <2>3. [closed |-> cl, block |-> n] \in Encoder
    <3>. HIDE DEF n, cl
    <3>1. cl \in Seq(Bytes)
      BY <1>2 DEF cl
    <3>. QED BY <2>2, <3>1 DEF Encoder
  <2>. QED BY <1>5, <2>1, <2>3
<1>. QED BY <1>4, <1>5

LEMMA EncodingLoop ==
  ASSUME NEW x \in Seq(Bytes)
  PROVE  /\ Encoding(x)[0] = Empty
         /\ \A n \in 0 .. Len(x) : Encoding(x)[n] \in Encoder
         /\ \A n \in 1 .. Len(x) : Encoding(x)[n] = EncodeByte(Encoding(x)[n - 1], x[n])
<1> DEFINE Step == [p \in Encoder \X Bytes |-> EncodeByte(p[1], p[2])]
           Is(acc) == acc = [n \in 0 .. Len(x) |->
                               IF n = 0 THEN Empty ELSE EncodeByte(acc[n - 1], x[n])]
<1>1. Step \in [Encoder \X Bytes -> Encoder]
  BY EncodeByteIs
<1>2. Empty \in Encoder
  <2>1. << >> \in Seq(Bytes) /\ Len(<< >>) = 0 /\ 0 < MaxCode
    BY EmptySeq, CodeAssumption
  <2>. QED BY <2>1 DEF Empty, Encoder
<1>3. PICK g \in [0 .. Len(x) -> Encoder] : Rounds(g, Step, Empty, x)
  <2>. HIDE DEF Step
  <2>. QED BY <1>1, <1>2, LoopExists
<1>4. Len(x) \in Nat /\ \A i \in 1 .. Len(x) : x[i] \in Bytes
  BY LenProperties, ElementOfSeq
<1>5. ASSUME NEW n \in 0 .. Len(x)
      PROVE  g[n] = IF n = 0 THEN Empty ELSE EncodeByte(g[n - 1], x[n])
  <2>1. g[n] = IF n = 0 THEN Empty ELSE Step[<<g[n - 1], x[n]>>]
    BY <1>3 DEF Rounds
  <2>2. CASE n # 0
    <3>1. g[n - 1] \in Encoder /\ x[n] \in Bytes
      BY <1>3, <1>4, <2>2
    <3>. QED BY <2>1, <2>2, <3>1
  <2>. QED BY <2>1, <2>2
<1>6. Is(g)
  BY <1>3, <1>5
<1>7. Encoding(x) = CHOOSE acc : Is(acc)
  BY DEF Encoding, Empty
<1>8. Is(Encoding(x))
  <2>. HIDE DEF Is
  <2>. QED BY <1>6, <1>7
<1> DEFINE f == Encoding(x)
<1>9. f = [n \in 0 .. Len(x) |-> IF n = 0 THEN Empty ELSE EncodeByte(f[n - 1], x[n])]
  BY <1>8
<1>. HIDE DEF f, Is, Step
<1>10. \A n \in 0 .. Len(x) : f[n] = IF n = 0 THEN Empty ELSE EncodeByte(f[n - 1], x[n])
  BY <1>9
<1> DEFINE T == {n \in 0 .. Len(x) : f[n] \in Encoder}
<1>11. 0 \in T
  BY <1>2, <1>4, <1>10
<1>12. ASSUME NEW n \in 0 .. Len(x) - 1, n \in T PROVE n + 1 \in T
  <2> DEFINE m == n + 1
  <2>1. m \in 1 .. Len(x) /\ m \in 0 .. Len(x) /\ m # 0 /\ m - 1 = n
    BY <1>4
  <2>. HIDE DEF m
  <2>2. f[m] = EncodeByte(f[n], x[m]) /\ f[n] \in Encoder /\ x[m] \in Bytes
    BY <1>4, <1>10, <1>12, <2>1
  <2>3. f[m] \in Encoder
    BY <2>2, EncodeByteIs
  <2>. QED BY <2>1, <2>3 DEF m
<1>13. 0 .. Len(x) \subseteq T
  <2>. HIDE DEF T
  <2>. QED BY <1>4, <1>11, <1>12, UpTo
<1>14. \A n \in 1 .. Len(x) : f[n] = EncodeByte(f[n - 1], x[n])
  BY <1>4, <1>10
<1>15. f[0] = Empty
  BY <1>4, <1>10
<1>. QED BY <1>13, <1>14, <1>15 DEF f

LEMMA EncodedBytes ==
  ASSUME NEW x \in Seq(Bytes)
  PROVE  Cobs_encode(x) \in Seq(Bytes) /\ Len(Cobs_encode(x)) > 0
<1>1. Len(x) \in Nat
  BY LenProperties
<1>2. Encoding(x)[Len(x)] \in Encoder
  BY <1>1, EncodingLoop
<1> DEFINE acc == Encoding(x)[Len(x)]
           a == acc.closed
           b == acc.block
<1>3. Cobs_encode(x) = Closed(acc)
  BY DEF Cobs_encode
<1>. HIDE DEF acc
<1>4. acc \in Encoder
  BY <1>2 DEF acc
<1>5. Len(a) \in Nat /\ Len(b) \in Nat
  BY <1>4, LenProperties DEF Encoder
<1>6. Closed(acc) \in Seq(Bytes) /\ Len(Closed(acc)) = Len(a) + 1 + Len(b)
  BY <1>4, ClosedIs
<1>. HIDE DEF a, b
<1> DEFINE e == Closed(acc)
<1>7. e \in Seq(Bytes) /\ Len(e) = Len(a) + 1 + Len(b)
  BY <1>6
<1>. HIDE DEF e
<1>8. Len(e) > 0
  BY <1>5, <1>7
<1>. QED BY <1>3, <1>7, <1>8 DEF e

-----------------------------------------------------------------------------
(* The deframer. *)

LEMMA Part ==
  ASSUME NEW S, NEW s \in Seq(S), NEW m \in Int, NEW n \in Int, 1 =< m, n =< Len(s)
  PROVE  /\ SubSeq(s, m, n) \in Seq(S)
         /\ Len(SubSeq(s, m, n)) = IF m =< n THEN n - m + 1 ELSE 0
         /\ \A i \in 1 .. n - m + 1 : SubSeq(s, m, n)[i] = s[m + i - 1]
<1>1. \A i \in m .. n : s[i] \in S
  BY LenProperties, ElementOfSeq
<1>. QED BY <1>1, SubSeqProperties

\* No delimiter at the places from m to n.
Clear(bytes, m, n) == \A i \in m .. n : bytes[i] # Delimiter

LEMMA FirstDelimiterIs ==
  ASSUME NEW s \in Seq(Bytes)
  PROVE  \/ FirstDelimiter(s) = 0 /\ Clear(s, 1, Len(s))
         \/ /\ FirstDelimiter(s) \in 1 .. Len(s)
            /\ s[FirstDelimiter(s)] = Delimiter
            /\ Clear(s, 1, FirstDelimiter(s) - 1)
<1> DEFINE I == {i \in 1 .. Len(s) : s[i] = Delimiter}
           k == CHOOSE i \in I : \A j \in I : i =< j
<1>1. FirstDelimiter(s) = IF I # {} THEN k ELSE 0
  BY DEF FirstDelimiter, SelectInSeq, Min
<1>2. CASE I = {}
  BY <1>1, <1>2 DEF Clear
<1>3. CASE I # {}
  <2>1. \E i \in I : \A j \in I : i =< j
    <3>1. I \in SUBSET Nat /\ I # {}
      BY <1>3
    <3>. HIDE DEF I
    <3>2. PICK i \in I : \A j \in I : <<j, i>> \notin OpToRel(<, Nat)
      BY <3>1, NatLessThanWellFounded, WFMin
    <3>3. \A j \in I : ~(j < i)
      BY <3>1, <3>2 DEF OpToRel
    <3>. QED BY <3>1, <3>3
  <2>2. k \in I /\ \A j \in I : k =< j
    <3>. HIDE DEF I
    <3>. QED BY <2>1
  <2>3. Len(s) \in Nat
    BY LenProperties
  <2>. HIDE DEF k
  <2>4. k \in 1 .. Len(s) /\ s[k] = Delimiter
    BY <2>2
  <2>5. \A i \in 1 .. k - 1 : i \notin I
    BY <2>2, <2>3
  <2>6. \A i \in 1 .. k - 1 : s[i] # Delimiter
    BY <2>3, <2>4, <2>5
  <2>. QED BY <1>1, <1>3, <2>4, <2>6 DEF Clear
<1>. QED BY <1>2, <1>3

\* What FIND_EOF makes of the bytes: the frame up to the delimiter k, or as much of it
\* as there is, or an error.
EofIs(r, work, bytes, k) ==
  \/ /\ k \in 1 .. Len(bytes) /\ Len(work) + k - 1 < FifoDepth
     /\ r = [state |-> "DECODE", work |-> work \o SubSeq(bytes, 1, k - 1),
             left |-> SubSeq(bytes, k + 1, Len(bytes))]
     /\ work \o SubSeq(bytes, 1, k - 1) \in Seq(Bytes)
     /\ Len(work \o SubSeq(bytes, 1, k - 1)) = Len(work) + k - 1
  \/ /\ k = 0 /\ Len(work) + Len(bytes) =< FifoDepth
     /\ r = [state |-> "FIND_EOF", work |-> work \o bytes, left |-> << >>]
     /\ work \o bytes \in Seq(Bytes)
     /\ Len(work \o bytes) = Len(work) + Len(bytes)
  \/ \E w \in Seq(Bytes), a \in 0 .. Len(bytes) :
       /\ r = [state |-> "ERROR", work |-> w, left |-> SubSeq(bytes, a + 1, Len(bytes))]
       /\ Len(w) =< FifoDepth
       /\ k > 0 => Len(work) + k - 1 >= FifoDepth
       /\ k = 0 => Len(work) + Len(bytes) > FifoDepth

LEMMA FindEofIs ==
  ASSUME NEW work \in Seq(Bytes), Len(work) =< FifoDepth, NEW bytes \in Seq(Bytes),
         NEW k, k = FirstDelimiter(bytes)
  PROVE  EofIs(FindEof(work, bytes), work, bytes, k)
<1> DEFINE part == IF k = 0 THEN bytes ELSE SubSeq(bytes, 1, k - 1)
           frame == work \o part
           copied == FifoDepth - Len(work)
           r == FindEof(work, bytes)
<1>1. /\ k = 0 \/ k \in 1 .. Len(bytes)
      /\ Len(work) \in Nat /\ Len(bytes) \in Nat /\ FifoDepth \in Nat
  BY FirstDelimiterIs, LenProperties, FifoAssumption
<1>2. r = CASE k > 0 /\ Len(frame) < FifoDepth ->
                 [state |-> "DECODE", work |-> frame, left |-> SubSeq(bytes, k + 1, Len(bytes))]
            [] k = 0 /\ Len(frame) =< FifoDepth ->
                 [state |-> "FIND_EOF", work |-> frame, left |-> << >>]
            [] OTHER ->
                 [state |-> "ERROR", work |-> SubSeq(frame, 1, FifoDepth),
                  left |-> SubSeq(bytes, copied + 1, Len(bytes))]
  BY DEF FindEof, WorkSize
<1>3. part \in Seq(Bytes) /\ Len(part) = IF k = 0 THEN Len(bytes) ELSE k - 1
  <2>1. CASE k = 0
    BY <2>1
  <2>2. CASE k \in 1 .. Len(bytes)
    <3>1. 1 \in Int /\ k - 1 \in Int /\ k - 1 =< Len(bytes) /\ 1 =< 1 /\ k # 0
      BY <1>1, <2>2
    <3>2. /\ SubSeq(bytes, 1, k - 1) \in Seq(Bytes)
          /\ Len(SubSeq(bytes, 1, k - 1)) = IF 1 =< k - 1 THEN k - 1 - 1 + 1 ELSE 0
      BY <3>1, Part
    <3>3. Len(SubSeq(bytes, 1, k - 1)) = k - 1
      BY <1>1, <2>2, <3>2
    <3>. QED BY <3>1, <3>2, <3>3
  <2>. QED BY <1>1, <2>1, <2>2
<1>4. frame \in Seq(Bytes) /\ Len(frame) = Len(work) + Len(part)
  <2>. HIDE DEF part
  <2>. QED BY <1>3, Join
<1>5. CASE k > 0 /\ Len(frame) < FifoDepth
  <2>1. r = [state |-> "DECODE", work |-> frame, left |-> SubSeq(bytes, k + 1, Len(bytes))]
    BY <1>2, <1>5
  <2>2. part = SubSeq(bytes, 1, k - 1) /\ k \in 1 .. Len(bytes)
    BY <1>1, <1>5
  <2>3. Len(part) = k - 1
    BY <1>3, <2>2
  <2>. HIDE DEF r, part
  <2>4. Len(frame) = Len(work) + k - 1
    BY <1>1, <1>4, <2>2, <2>3
  <2>5. Len(work) + k - 1 < FifoDepth
    BY <1>5, <2>4
  <2>. QED BY <1>4, <2>1, <2>2, <2>4, <2>5 DEF r, EofIs
<1>6. CASE k = 0 /\ Len(frame) =< FifoDepth
  <2>1. r = [state |-> "FIND_EOF", work |-> frame, left |-> << >>]
    BY <1>2, <1>6
  <2>2. part = bytes
    BY <1>6
  <2>. HIDE DEF r, part
  <2>3. Len(frame) = Len(work) + Len(bytes)
    BY <1>4, <2>2
  <2>. QED BY <1>4, <1>6, <2>1, <2>2, <2>3 DEF r, EofIs
<1>7. CASE ~(k > 0 /\ Len(frame) < FifoDepth) /\ ~(k = 0 /\ Len(frame) =< FifoDepth)
  <2> DEFINE w == SubSeq(frame, 1, FifoDepth)
  <2>1. r = [state |-> "ERROR", work |-> w, left |-> SubSeq(bytes, copied + 1, Len(bytes))]
    BY <1>2, <1>7
  <2>2. /\ Len(frame) >= FifoDepth
        /\ k > 0 => Len(work) + k - 1 >= FifoDepth
        /\ k = 0 => Len(work) + Len(bytes) > FifoDepth
    <3> DEFINE l == Len(frame)
    <3>. HIDE DEF part
    <3>1. l = Len(work) + Len(part)
      BY <1>4
    <3>. HIDE DEF l
    <3>2. CASE k = 0
      BY <1>1, <1>3, <1>7, <3>1, <3>2 DEF l
    <3>3. CASE k \in 1 .. Len(bytes)
      BY <1>1, <1>3, <1>7, <3>1, <3>3 DEF l
    <3>. QED BY <1>1, <3>2, <3>3
  <2>3. w \in Seq(Bytes) /\ Len(w) = FifoDepth
    <3>. HIDE DEF frame
    <3>1. 1 \in Int /\ FifoDepth \in Int /\ 1 =< 1 /\ 1 =< FifoDepth
      BY FifoAssumption
    <3>0. frame \in Seq(Bytes) /\ FifoDepth =< Len(frame)
      BY <1>1, <1>4, <2>2, LenProperties
    <3>2. w \in Seq(Bytes) /\ Len(w) = IF 1 =< FifoDepth THEN FifoDepth - 1 + 1 ELSE 0
      BY <3>0, <3>1, Part
    <3>. QED BY <3>1, <3>2
  <2>4. copied \in 0 .. Len(bytes)
    BY <1>1, <2>2
  <2>5. Len(w) =< FifoDepth
    BY <1>1, <2>3
  <2>6. /\ k > 0 => Len(work) + k - 1 >= FifoDepth
        /\ k = 0 => Len(work) + Len(bytes) > FifoDepth
    BY <2>2
  <2>. HIDE DEF w, copied, frame, part, r
  <2>. QED BY <2>1, <2>3, <2>4, <2>5, <2>6 DEF r, EofIs
<1>. QED BY <1>5, <1>6, <1>7

LEMMA PartOfPart ==
  ASSUME NEW S, NEW s \in Seq(S), NEW b \in 0 .. Len(s), NEW m \in Int, NEW n \in Int,
         1 =< m, n =< Len(s) - b
  PROVE  SubSeq(SubSeq(s, b + 1, Len(s)), m, n) = SubSeq(s, b + m, b + n)
<1> DEFINE t == SubSeq(s, b + 1, Len(s))
           u == SubSeq(t, m, n)
           v == SubSeq(s, b + m, b + n)
           L == Len(s)
<1>1. L \in Nat
  BY LenProperties
<1>2. /\ t \in Seq(S) /\ Len(t) = L - b
      /\ \A i \in 1 .. L - b : t[i] = s[b + i]
  <2>1. b + 1 \in Int /\ L \in Int /\ 1 =< b + 1 /\ L =< Len(s)
    BY <1>1
  <2> DEFINE c == b + 1
  <2>2. /\ t \in Seq(S) /\ Len(t) = IF c =< L THEN L - c + 1 ELSE 0
        /\ \A i \in 1 .. L - c + 1 : t[i] = s[c + i - 1]
    <3>1. t = SubSeq(s, c, L) /\ c \in Int /\ 1 =< c
      BY <2>1
    <3>. HIDE DEF c, t
    <3>. QED BY <2>1, <3>1, Part
  <2>3. Len(t) = L - b
    <3>. HIDE DEF t, L
    <3>. QED BY <1>1, <2>2 DEF L
  <2>4. \A i \in 1 .. L - b : t[i] = s[b + i]
    <3>. HIDE DEF t, L
    <3>1. L - c + 1 = L - b /\ \A i \in 1 .. L - b : c + i - 1 = b + i
      BY <1>1
    <3>. QED BY <2>2, <3>1
  <2>. QED BY <2>2, <2>3, <2>4
<1>. HIDE DEF t
<1>3. /\ u \in Seq(S) /\ Len(u) = IF m =< n THEN n - m + 1 ELSE 0
      /\ \A i \in 1 .. n - m + 1 : u[i] = t[m + i - 1]
  <2>1. n =< Len(t)
    BY <1>2
  <2>. QED BY <1>2, <2>1, Part
<1> DEFINE c == b + m
           d == b + n
<1>4. /\ v \in Seq(S) /\ Len(v) = IF c =< d THEN d - c + 1 ELSE 0
      /\ \A i \in 1 .. d - c + 1 : v[i] = s[c + i - 1]
  <2>1. c \in Int /\ d \in Int /\ 1 =< c /\ d =< Len(s) /\ v = SubSeq(s, c, d)
    BY <1>1
  <2>. HIDE DEF c, d, v
  <2>. QED BY <2>1, Part
<1>5. Len(u) = Len(v)
  <2>. HIDE DEF u, v
  <2>. QED BY <1>3, <1>4
<1>. HIDE DEF u, v
<1>6. ASSUME NEW i \in 1 .. Len(u) PROVE u[i] = v[i]
  <2>1. i \in 1 .. n - m + 1 /\ m =< n
    BY <1>3
  <2>2. u[i] = t[m + i - 1] /\ m + i - 1 \in 1 .. L - b
    BY <1>1, <1>3, <2>1
  <2>3. t[m + i - 1] = s[b + (m + i - 1)]
    BY <1>2, <2>2
  <2>4. i \in 1 .. d - c + 1 /\ c + i - 1 = b + (m + i - 1)
    BY <2>1
  <2>5. v[i] = s[c + i - 1]
    BY <1>4, <2>4
  <2>. QED BY <2>2, <2>3, <2>4, <2>5
<1>. QED BY <1>3, <1>4, <1>5, <1>6, SeqEqual DEF u, v, t

\* The frame after its first b bytes is w so far: in FIND_EOF what the work buffer
\* has, in INIT nothing, after the delimiter at b.
Starts(d, bytes, b, w) ==
  \/ d.state = "FIND_EOF" /\ b = 0 /\ w = d.work
  \/ /\ d.state = "INIT" /\ w = << >>
     /\ b \in 1 .. Len(bytes) /\ bytes[b] = Delimiter /\ Clear(bytes, 1, b - 1)

\* The first delimiter after b is at a.
EndsAt(bytes, b, a) ==
  a \in b + 1 .. Len(bytes) /\ bytes[a] = Delimiter /\ Clear(bytes, b + 1, a - 1)

TooLong(w, bytes, b) ==
  \/ \E a \in b + 1 .. Len(bytes) : EndsAt(bytes, b, a) /\ Len(w) + (a - 1 - b) >= FifoDepth
  \/ Clear(bytes, b + 1, Len(bytes)) /\ Len(w) + (Len(bytes) - b) > FifoDepth

\* What is left of the bytes after the first a.
From(bytes, a) == SubSeq(bytes, a + 1, Len(bytes))

Framed(r, w, bytes, b, a) ==
  /\ r.state = "DECODE" /\ EndsAt(bytes, b, a)
  /\ r.work = w \o SubSeq(bytes, b + 1, a - 1)
Unfinished(r, w, bytes, b, a) ==
  /\ r.state = "FIND_EOF" /\ a = Len(bytes) /\ Clear(bytes, b + 1, a)
  /\ r.work = w \o SubSeq(bytes, b + 1, a)
Overflowed(r, w, bytes, b) == r.state = "ERROR" /\ TooLong(w, bytes, b)

LEMMA ClearFrom ==
  ASSUME NEW s \in Seq(Bytes), NEW b \in 0 .. Len(s), NEW t, t = From(s, b), NEW k \in 0 .. Len(s) - b
  PROVE  /\ t \in Seq(Bytes) /\ Len(t) = Len(s) - b
         /\ \A i \in 1 .. Len(s) - b : t[i] = s[b + i]
         /\ Clear(t, 1, k) => Clear(s, b + 1, b + k)
<1> DEFINE L == Len(s)
           c == b + 1
<1>1. L \in Nat
  BY LenProperties
<1>2. /\ t \in Seq(Bytes) /\ Len(t) = IF c =< L THEN L - c + 1 ELSE 0
      /\ \A i \in 1 .. L - c + 1 : t[i] = s[c + i - 1]
  <2>1. c \in Int /\ L \in Int /\ 1 =< c /\ L =< Len(s) /\ t = SubSeq(s, c, L)
    BY <1>1 DEF From
  <2>. HIDE DEF c
  <2>. QED BY <2>1, Part
<1>3. Len(t) = L - b
  BY <1>1, <1>2
<1>4. \A i \in 1 .. L - b : t[i] = s[b + i]
  <2>1. L - c + 1 = L - b /\ \A i \in 1 .. L - b : c + i - 1 = b + i
    BY <1>1
  <2>. QED BY <1>2, <2>1
<1>5. Clear(t, 1, k) => Clear(s, b + 1, b + k)
  <2>. SUFFICES ASSUME Clear(t, 1, k), NEW j \in b + 1 .. b + k PROVE s[j] # Delimiter
    BY DEF Clear
  <2> DEFINE i == j - b
  <2>1. i \in 1 .. k /\ i \in 1 .. L - b /\ b + i = j
    BY <1>1
  <2>. HIDE DEF i
  <2>. QED BY <1>4, <2>1 DEF Clear
<1>. QED BY <1>2, <1>3, <1>4, <1>5

\* What FIND_EOF makes of the bytes behind the place b: it stops at a place a with a
\* frame, with part of one, or with an error.
Ends(f, w, bytes, b) ==
  \E a \in b .. Len(bytes) :
    /\ f = [state |-> f.state, work |-> f.work, left |-> From(bytes, a)]
    /\ f.work \in Seq(Bytes) /\ Len(f.work) =< FifoDepth
    /\ Framed(f, w, bytes, b, a) \/ Unfinished(f, w, bytes, b, a) \/ Overflowed(f, w, bytes, b)

LEMMA FindEofFrom ==
  ASSUME NEW w \in Seq(Bytes), Len(w) =< FifoDepth, NEW s \in Seq(Bytes),
         NEW b \in 0 .. Len(s), NEW r, r = FindEof(w, From(s, b))
  PROVE  Ends(r, w, s, b)
<1> DEFINE t == From(s, b)
           k == FirstDelimiter(t)
           L == Len(s)
           N == L - b
<1>0. L \in Nat /\ b \in Nat /\ N \in Nat /\ Len(w) \in Nat /\ FifoDepth \in Nat
  BY LenProperties, FifoAssumption
<1>1. /\ t \in Seq(Bytes) /\ Len(t) = N
      /\ \A i \in 1 .. N : t[i] = s[b + i]
  <2>1. 0 \in 0 .. Len(s) - b
    BY <1>0
  <2>. QED BY <2>1, ClearFrom
<1>2. \A j \in 0 .. N : Clear(t, 1, j) => Clear(s, b + 1, b + j)
  BY ClearFrom
<1>3. \/ k = 0 /\ Clear(t, 1, N)
      \/ k \in 1 .. N /\ t[k] = Delimiter /\ Clear(t, 1, k - 1)
  <2>. HIDE DEF t
  <2>. QED BY <1>1, FirstDelimiterIs
<1>4. k \in 1 .. N => EndsAt(s, b, b + k)
  <2>. SUFFICES ASSUME k \in 1 .. N PROVE EndsAt(s, b, b + k)
    OBVIOUS
  <2>. HIDE DEF k, t
  <2> DEFINE a == b + k
             j == k - 1
  <2>1. a \in b + 1 .. Len(s) /\ j \in 0 .. N /\ b + j = a - 1 /\ k # 0
    BY <1>0
  <2>2. s[a] = Delimiter /\ Clear(t, 1, j)
    BY <1>1, <1>3, <2>1
  <2>. HIDE DEF a, j
  <2>3. Clear(s, b + 1, a - 1)
    BY <1>2, <2>1, <2>2
  <2>. QED BY <2>1, <2>2, <2>3 DEF EndsAt, a
<1>5. k = 0 => Clear(s, b + 1, L)
  <2>1. b + N = L /\ N \in 0 .. N
    BY <1>0
  <2>. QED BY <1>0, <1>2, <1>3, <2>1
<1>6. \A m \in 1 .. N + 1, n \in 0 .. N : SubSeq(t, m, n) = SubSeq(s, b + m, b + n)
  BY <1>0, PartOfPart DEF From
<1>7. \/ /\ k \in 1 .. N /\ Len(w) + k - 1 < FifoDepth
         /\ r = [state |-> "DECODE", work |-> w \o SubSeq(t, 1, k - 1), left |-> SubSeq(t, k + 1, N)]
         /\ w \o SubSeq(t, 1, k - 1) \in Seq(Bytes)
         /\ Len(w \o SubSeq(t, 1, k - 1)) = Len(w) + k - 1
      \/ /\ k = 0 /\ Len(w) + N =< FifoDepth
         /\ r = [state |-> "FIND_EOF", work |-> w \o t, left |-> << >>]
         /\ w \o t \in Seq(Bytes)
         /\ Len(w \o t) = Len(w) + N
      \/ \E e \in Seq(Bytes), j \in 0 .. N :
           /\ r = [state |-> "ERROR", work |-> e, left |-> SubSeq(t, j + 1, N)]
           /\ Len(e) =< FifoDepth
           /\ k > 0 => Len(w) + k - 1 >= FifoDepth
           /\ k = 0 => Len(w) + N > FifoDepth
  <2>1. r = FindEof(w, t)
    OBVIOUS
  <2>. HIDE DEF t, N, k
  <2>2. k = FirstDelimiter(t) /\ Len(t) = N /\ t \in Seq(Bytes)
    BY <1>1 DEF k
  <2>3. EofIs(FindEof(w, t), w, t, k)
    BY <2>2, FindEofIs
  <2>4. EofIs(r, w, t, k)
    BY <2>1, <2>3
  <2>. QED BY <2>2, <2>4, Zenon DEF EofIs
<1>. HIDE DEF t, k
<1>8. \A j \in 0 .. N : SubSeq(t, j + 1, N) = From(s, b + j)
  <2>. TAKE j \in 0 .. N
  <2> DEFINE m == j + 1
  <2>1. m \in 1 .. N + 1 /\ N \in 0 .. N /\ b + m = b + j + 1 /\ b + N = Len(s)
    BY <1>0
  <2>. HIDE DEF m, N
  <2>2. SubSeq(t, m, N) = SubSeq(s, b + m, b + N)
    BY <1>6, <2>1
  <2>. QED BY <2>1, <2>2 DEF From, m
<1>9. CASE k \in 1 .. N /\ r.state = "DECODE"
  <2> DEFINE a == b + k
             f == w \o SubSeq(t, 1, k - 1)
  <2>1. /\ r = [state |-> "DECODE", work |-> f, left |-> SubSeq(t, k + 1, N)]
        /\ f \in Seq(Bytes) /\ Len(f) = Len(w) + k - 1 /\ Len(w) + k - 1 < FifoDepth
    BY <1>7, <1>9
  <2>2. SubSeq(t, k + 1, N) = From(s, a) /\ k \in 0 .. N
    BY <1>0, <1>8, <1>9
  <2>3. SubSeq(t, 1, k - 1) = SubSeq(s, b + 1, a - 1)
    <3>1. k - 1 \in 0 .. N /\ 1 \in 1 .. N + 1 /\ b + (k - 1) = a - 1
      BY <1>0, <1>9
    <3>. QED BY <1>6, <3>1
  <2>4. a \in b .. Len(s) /\ Len(f) =< FifoDepth
    <3>1. a \in b .. Len(s)
      BY <1>0, <1>9
    <3>2. Len(w) + k - 1 =< FifoDepth
      BY <1>0, <1>9, <2>1
    <3>. HIDE DEF f
    <3>. QED BY <2>1, <3>1, <3>2
  <2>5. EndsAt(s, b, a) /\ f = w \o SubSeq(s, b + 1, a - 1)
    BY <1>4, <1>9, <2>3
  <2>. HIDE DEF a, f
  <2>6. Framed(r, w, s, b, a)
    <3>1. r.state = "DECODE" /\ r.work = f
      BY <2>1
    <3>. HIDE DEF EndsAt
    <3>. QED BY <2>5, <3>1 DEF Framed
  <2>7. r = [state |-> "DECODE", work |-> f, left |-> From(s, a)]
    BY <2>1, <2>2
  <2>8. r.work = f /\ r = [state |-> r.state, work |-> r.work, left |-> From(s, a)]
    BY <2>7
  <2>9. r.work \in Seq(Bytes) /\ Len(r.work) =< FifoDepth
    BY <2>1, <2>4, <2>8
  <2>. QED BY <2>4, <2>6, <2>8, <2>9 DEF Ends
<1>10. CASE k = 0 /\ r.state = "FIND_EOF"
  <2> DEFINE a == Len(s)
             f == w \o t
  <2>1. /\ r = [state |-> "FIND_EOF", work |-> f, left |-> << >>]
        /\ f \in Seq(Bytes) /\ Len(f) = Len(w) + N /\ Len(w) + N =< FifoDepth
    BY <1>7, <1>10
  <2>2. From(s, a) = << >>
    BY <1>0, SubSeqEmpty DEF From
  <2>3. a \in b .. Len(s)
    BY <1>0
  <2>4. Clear(s, b + 1, a) /\ f = w \o SubSeq(s, b + 1, a)
    BY <1>5, <1>10 DEF t, From
  <2>5. Len(f) =< FifoDepth
    <3>. HIDE DEF f
    <3>. QED BY <2>1
  <2>. HIDE DEF f
  <2>6. Unfinished(r, w, s, b, a)
    <3>1. r.state = "FIND_EOF" /\ r.work = f
      BY <2>1
    <3>2. a = Len(s)
      BY DEF a
    <3>. HIDE DEF a
    <3>. QED BY <2>4, <3>1, <3>2 DEF Unfinished
  <2>7. r.work = f /\ r = [state |-> r.state, work |-> r.work, left |-> From(s, a)]
    BY <2>1, <2>2
  <2>. HIDE DEF a
  <2>8. r.work \in Seq(Bytes) /\ Len(r.work) =< FifoDepth
    BY <2>1, <2>5, <2>7
  <2>. QED BY <2>3, <2>6, <2>7, <2>8 DEF Ends
<1>11. CASE r.state = "ERROR"
  <2>1. PICK e \in Seq(Bytes), j \in 0 .. N :
           /\ r = [state |-> "ERROR", work |-> e, left |-> SubSeq(t, j + 1, N)]
           /\ Len(e) =< FifoDepth
           /\ k > 0 => Len(w) + k - 1 >= FifoDepth
           /\ k = 0 => Len(w) + N > FifoDepth
    BY <1>7, <1>11
  <2> DEFINE a == b + j
  <2>2. SubSeq(t, j + 1, N) = From(s, a) /\ a \in b .. Len(s)
    BY <1>0, <1>8
  <2>3. TooLong(w, s, b)
    <3>1. CASE k = 0
      BY <1>5, <2>1, <3>1 DEF TooLong
    <3>2. CASE k \in 1 .. N
      <4> DEFINE c == b + k
      <4>1. c \in b + 1 .. Len(s) /\ c - 1 - b = k - 1 /\ k > 0
        BY <1>0, <3>2
      <4>2. EndsAt(s, b, c)
        BY <1>4, <3>2
      <4>3. Len(w) + (c - 1 - b) >= FifoDepth
        BY <1>0, <2>1, <3>2, <4>1
      <4>. HIDE DEF c
      <4>. QED BY <4>1, <4>2, <4>3 DEF TooLong
    <3>. QED BY <1>3, <3>1, <3>2
  <2>. HIDE DEF a
  <2>4. Overflowed(r, w, s, b)
    BY <2>1, <2>3 DEF Overflowed
  <2>5. r = [state |-> "ERROR", work |-> e, left |-> From(s, a)]
    BY <2>1, <2>2
  <2>6. r.work = e /\ r = [state |-> r.state, work |-> r.work, left |-> From(s, a)]
    BY <2>5
  <2>7. r.work \in Seq(Bytes) /\ Len(r.work) =< FifoDepth
    BY <2>1, <2>6
  <2>. QED BY <2>2, <2>4, <2>6, <2>7 DEF Ends
<1>12. r.state \in {"DECODE", "FIND_EOF", "ERROR"} /\ (r.state = "DECODE" => k \in 1 .. N)
       /\ (r.state = "FIND_EOF" => k = 0)
  BY <1>7
<1>. QED BY <1>9, <1>10, <1>11, <1>12

-----------------------------------------------------------------------------
(* A call of the deframer. *)

Undecodable(w, bytes, b) ==
  \E a \in b + 1 .. Len(bytes) :
    EndsAt(bytes, b, a) /\ Cobs_decode(w \o SubSeq(bytes, b + 1, a - 1)) = DecodeError

\* Why a call gets no message and does not have the beginning of one either.
Drops(d, bytes, chunk) ==
  \/ ~Fits(d, chunk)
  \/ d.state = "ERROR"
  \/ d.state = "INIT" /\ Clear(bytes, 1, Len(bytes))
  \/ \E b \in 0 .. Len(bytes), w \in Seq(Bytes) :
       Starts(d, bytes, b, w) /\ (TooLong(w, bytes, b) \/ Undecodable(w, bytes, b))

Dropped(d, bytes, chunk, r) ==
  r.d.state \in {"INIT", "ERROR"} /\ r.msg = << >> /\ Drops(d, bytes, chunk)

Begun(d, bytes, r, a) ==
  /\ r.d.state = "FIND_EOF" /\ r.msg = << >> /\ a = Len(bytes)
  /\ \E b \in 0 .. a, w \in Seq(Bytes) :
       /\ Starts(d, bytes, b, w) /\ Clear(bytes, b + 1, a)
       /\ r.d.work = w \o SubSeq(bytes, b + 1, a)

Got(d, bytes, r, a) ==
  /\ r.d.state = "INIT"
  /\ \E b \in 0 .. a, w \in Seq(Bytes) :
       /\ Starts(d, bytes, b, w) /\ EndsAt(bytes, b, a)
       /\ r.msg = Cobs_decode(w \o SubSeq(bytes, b + 1, a - 1))
       /\ r.msg # DecodeError

GoodDeframer(d) == d \in Deframers(Bytes) /\ Len(d.fifo) =< FifoDepth /\ Len(d.work) =< FifoDepth

Outcome(d, bytes, chunk, r, a) ==
  /\ r.d.fifo = From(bytes, a)
  /\ Dropped(d, bytes, chunk, r) \/ Begun(d, bytes, r, a) \/ Got(d, bytes, r, a)

\* The deframer's first step, on all bytes it has.
Found(d, bytes) == IF d.state = "INIT" THEN FindSof(bytes) ELSE FindEof(d.work, bytes)

\* What a call makes of what it found.
Called(r, d, chunk, f) ==
  /\ ~Fits(d, chunk) \/ d.state = "ERROR" =>
       r = [d |-> [state |-> "INIT", fifo |-> << >>, work |-> d.work], msg |-> << >>]
  /\ Fits(d, chunk) /\ d.state # "ERROR" =>
       /\ f.state # "DECODE" =>
            r = [d |-> [state |-> AtRest(f.state), fifo |-> f.left, work |-> f.work],
                 msg |-> << >>]
       /\ f.state = "DECODE" /\ Cobs_decode(f.work) = DecodeError =>
            r = [d |-> [state |-> "INIT", fifo |-> << >>, work |-> f.work], msg |-> << >>]
       /\ f.state = "DECODE" /\ Cobs_decode(f.work) # DecodeError =>
            r = [d |-> [state |-> "INIT", fifo |-> f.left, work |-> f.work],
                 msg |-> Cobs_decode(f.work)]

LEMMA CallCases ==
  ASSUME NEW d, NEW chunk, NEW f, f = Found(d, d.fifo \o chunk),
         NEW r, r = Cobs_deframer(d, chunk)
  PROVE  Called(r, d, chunk, f)
<1> DEFINE flushed == [Cobs_deframer_init EXCEPT !.work = d.work]
           first == [d |-> flushed, msg |-> << >>]
           second == [d |-> [state |-> AtRest(f.state), fifo |-> f.left, work |-> f.work],
                      msg |-> << >>]
           third == [d |-> [state |-> "INIT", fifo |-> << >>, work |-> f.work], msg |-> << >>]
           fourth == [d |-> [state |-> "INIT", fifo |-> f.left, work |-> f.work],
                      msg |-> Cobs_decode(f.work)]
           out == IF ~Fits(d, chunk) \/ d.state = "ERROR" THEN first
                  ELSE IF f.state # "DECODE" THEN second
                  ELSE IF Cobs_decode(f.work) = DecodeError THEN third
                  ELSE fourth
<1>1. Cobs_deframer(d, chunk) = out
  BY DEF Cobs_deframer, Found
<1>2. flushed = [state |-> "INIT", fifo |-> << >>, work |-> d.work]
  BY DEF Cobs_deframer_init
<1>. HIDE DEF flushed, first, second, third, fourth
<1>3. ~Fits(d, chunk) \/ d.state = "ERROR" => r = first
  BY <1>1
<1>4. Fits(d, chunk) /\ d.state # "ERROR" =>
        /\ f.state # "DECODE" => r = second
        /\ f.state = "DECODE" /\ Cobs_decode(f.work) = DecodeError => r = third
        /\ f.state = "DECODE" /\ Cobs_decode(f.work) # DecodeError => r = fourth
  BY <1>1
<1>. QED BY <1>2, <1>3, <1>4 DEF Called, first, second, third, fourth

\* Where the frame starts, or that there is none.
LEMMA FoundStarts ==
  ASSUME NEW d, GoodDeframer(d), d.state # "ERROR", NEW bytes \in Seq(Bytes),
         NEW f, f = Found(d, bytes)
  PROVE  \/ /\ d.state = "INIT" /\ Clear(bytes, 1, Len(bytes))
            /\ f = [state |-> "FIND_SOF", work |-> << >>, left |-> << >>]
         \/ \E b \in 0 .. Len(bytes), w \in Seq(Bytes) :
              /\ Starts(d, bytes, b, w) /\ Len(w) =< FifoDepth
              /\ f = FindEof(w, From(bytes, b))
<1>1. Len(bytes) \in Nat /\ FifoDepth \in Nat
  BY LenProperties, FifoAssumption
<1>2. CASE d.state = "INIT"
  <2> DEFINE k == FirstDelimiter(bytes)
  <2>1. f = FindSof(bytes)
    BY <1>2 DEF Found
  <2>2. \/ k = 0 /\ Clear(bytes, 1, Len(bytes))
        \/ k \in 1 .. Len(bytes) /\ bytes[k] = Delimiter /\ Clear(bytes, 1, k - 1)
    BY FirstDelimiterIs
  <2>3. f = IF k = 0 THEN [state |-> "FIND_SOF", work |-> << >>, left |-> << >>]
            ELSE FindEof(<< >>, From(bytes, k))
    BY <2>1 DEF FindSof, From
  <2>. HIDE DEF k
  <2>4. CASE k = 0
    BY <1>2, <2>2, <2>3, <2>4
  <2>5. CASE k # 0
    <3> DEFINE w == << >>
    <3>1. k \in 0 .. Len(bytes) /\ k # 0
      BY <2>2, <2>5
    <3>2. Starts(d, bytes, k, w)
      BY <1>2, <2>2, <2>5 DEF Starts
    <3>3. w \in Seq(Bytes) /\ Len(w) =< FifoDepth
      BY <1>1
    <3>4. f = FindEof(w, From(bytes, k))
      BY <2>3, <2>5
    <3>. HIDE DEF w
    <3>. QED BY <3>1, <3>2, <3>3, <3>4
  <2>. QED BY <2>4, <2>5
<1>3. CASE d.state = "FIND_EOF"
  <2> DEFINE w == d.work
  <2>1. w \in Seq(Bytes) /\ Len(w) =< FifoDepth
    BY DEF GoodDeframer, Deframers
  <2>2. From(bytes, 0) = bytes
    BY SubSeqFull DEF From
  <2>3. f = FindEof(w, From(bytes, 0))
    BY <1>3, <2>2 DEF Found
  <2>4. Starts(d, bytes, 0, w) /\ 0 \in 0 .. Len(bytes)
    BY <1>1, <1>3 DEF Starts
  <2>. HIDE DEF w
  <2>. QED BY <2>1, <2>3, <2>4
<1>. QED BY <1>2, <1>3 DEF GoodDeframer, Deframers

LEMMA LeftFits ==
  ASSUME NEW bytes \in Seq(Bytes), NEW a \in 0 .. Len(bytes)
  PROVE  From(bytes, a) \in Seq(Bytes) /\ Len(From(bytes, a)) =< Len(bytes)
<1>1. Len(bytes) \in Nat /\ 0 \in 0 .. Len(bytes) - a
  BY LenProperties
<1>2. From(bytes, a) \in Seq(Bytes) /\ Len(From(bytes, a)) = Len(bytes) - a
  BY <1>1, ClearFrom
<1>. QED BY <1>1, <1>2

LEMMA CallIs ==
  ASSUME NEW d, GoodDeframer(d), NEW chunk \in Seq(Bytes),
         NEW bytes, bytes = d.fifo \o chunk, NEW r, r = Cobs_deframer(d, chunk)
  PROVE  /\ GoodDeframer(r.d)
         /\ \E a \in 0 .. Len(bytes) : Outcome(d, bytes, chunk, r, a)
<1> DEFINE f == Found(d, bytes)
<1>1. /\ d.fifo \in Seq(Bytes) /\ d.work \in Seq(Bytes)
      /\ d.state \in {"INIT", "FIND_EOF", "ERROR"}
      /\ Len(d.work) =< FifoDepth
  BY DEF GoodDeframer, Deframers
<1>2. bytes \in Seq(Bytes) /\ Len(bytes) = Len(d.fifo) + Len(chunk)
  BY <1>1, Join
<1>3. Len(bytes) \in Nat /\ FifoDepth \in Nat
  BY <1>2, LenProperties, FifoAssumption
<1>4. From(bytes, Len(bytes)) = << >> /\ << >> \in Seq(Bytes) /\ Len(<< >>) =< FifoDepth
  BY <1>3, SubSeqEmpty DEF From
<1>5. ASSUME NEW st \in {"INIT", "FIND_EOF", "ERROR"}, NEW w \in Seq(Bytes), Len(w) =< FifoDepth,
             NEW a \in 0 .. Len(bytes), Fits(d, chunk)
      PROVE  /\ GoodDeframer([state |-> st, fifo |-> From(bytes, a), work |-> w])
             /\ GoodDeframer([state |-> st, fifo |-> << >>, work |-> w])
  <2>1. Len(bytes) =< FifoDepth
    BY <1>2, <1>5 DEF Fits
  <2>2. From(bytes, a) \in Seq(Bytes) /\ Len(From(bytes, a)) =< FifoDepth
    <3>1. From(bytes, a) \in Seq(Bytes) /\ Len(From(bytes, a)) =< Len(bytes)
      BY <1>2, LeftFits
    <3>2. Len(From(bytes, a)) \in Nat
      BY <3>1, LenProperties
    <3>. QED BY <1>3, <2>1, <3>1, <3>2
  <2>. QED BY <1>4, <1>5, <2>2 DEF GoodDeframer, Deframers
<1>6. CASE ~Fits(d, chunk) \/ d.state = "ERROR"
  <2> DEFINE e == [state |-> "INIT", fifo |-> << >>, work |-> d.work]
  <2>1. f = Found(d, d.fifo \o chunk)
    OBVIOUS
  <2>. HIDE DEF f
  <2>2. r = [d |-> e, msg |-> << >>]
    BY <1>6, <2>1, CallCases DEF Called
  <2>. HIDE DEF e
  <2>3. r.d = e /\ r.msg = << >>
    BY <2>2
  <2>4. GoodDeframer(e)
    BY <1>1, <1>4 DEF GoodDeframer, Deframers, e
  <2>5. Dropped(d, bytes, chunk, r)
    BY <1>6, <2>3 DEF Dropped, Drops, e
  <2>6. r.d.fifo = From(bytes, Len(bytes))
    BY <1>4, <2>3 DEF e
  <2>7. Len(bytes) \in 0 .. Len(bytes)
    BY <1>3
  <2>. HIDE DEF e
  <2>. QED BY <2>3, <2>4, <2>5, <2>6, <2>7 DEF Outcome
<1>7. CASE Fits(d, chunk) /\ d.state = "INIT" /\ Clear(bytes, 1, Len(bytes))
           /\ f = [state |-> "FIND_SOF", work |-> << >>, left |-> << >>]
  <2> DEFINE e == [state |-> "INIT", fifo |-> << >>, work |-> << >>]
  <2>1. r = [d |-> e, msg |-> << >>]
    <3>1. f.state = "FIND_SOF" /\ f.work = << >> /\ f.left = << >> /\ d.state # "ERROR"
      BY <1>7
    <3>0. f = Found(d, d.fifo \o chunk)
      OBVIOUS
    <3>. HIDE DEF f
    <3>2. r = [d |-> [state |-> AtRest(f.state), fifo |-> f.left, work |-> f.work], msg |-> << >>]
      BY <1>7, <3>0, <3>1, CallCases DEF Called
    <3>. QED BY <3>1, <3>2 DEF AtRest
  <2>2. r.d = e /\ r.msg = << >>
    BY <2>1
  <2>3. GoodDeframer(e)
    BY <1>4 DEF GoodDeframer, Deframers
  <2>4. Dropped(d, bytes, chunk, r)
    BY <1>7, <2>2 DEF Dropped, Drops
  <2>5. r.d.fifo = From(bytes, Len(bytes)) /\ Len(bytes) \in 0 .. Len(bytes)
    BY <1>3, <1>4, <2>2
  <2>. HIDE DEF e
  <2>. QED BY <2>2, <2>3, <2>4, <2>5 DEF Outcome
<1>8. ASSUME Fits(d, chunk), d.state # "ERROR",
             NEW b \in 0 .. Len(bytes), NEW w \in Seq(Bytes),
             Starts(d, bytes, b, w), Len(w) =< FifoDepth, f = FindEof(w, From(bytes, b))
      PROVE  /\ GoodDeframer(r.d)
             /\ \E a \in 0 .. Len(bytes) : Outcome(d, bytes, chunk, r, a)
  <2>. HIDE DEF f
  <2>0. Ends(f, w, bytes, b)
    <3>1. /\ bytes \in Seq(Bytes) /\ w \in Seq(Bytes) /\ Len(w) =< FifoDepth
          /\ b \in 0 .. Len(bytes) /\ f = FindEof(w, From(bytes, b))
      BY <1>2, <1>8
    <3>. QED BY <3>1, FindEofFrom
  <2>1. PICK a \in b .. Len(bytes) :
           /\ f = [state |-> f.state, work |-> f.work, left |-> From(bytes, a)]
           /\ f.work \in Seq(Bytes) /\ Len(f.work) =< FifoDepth
           /\ Framed(f, w, bytes, b, a) \/ Unfinished(f, w, bytes, b, a) \/ Overflowed(f, w, bytes, b)
    BY <2>0, Zenon DEF Ends
  <2>2. a \in 0 .. Len(bytes) /\ b \in 0 .. a /\ f.left = From(bytes, a)
    BY <1>3, <2>1
  <2> DEFINE after(state, left) == [state |-> state, fifo |-> left, work |-> f.work]
  <2>3. /\ f.state # "DECODE" => r = [d |-> after(AtRest(f.state), f.left), msg |-> << >>]
        /\ f.state = "DECODE" /\ Cobs_decode(f.work) = DecodeError =>
             r = [d |-> after("INIT", << >>), msg |-> << >>]
        /\ f.state = "DECODE" /\ Cobs_decode(f.work) # DecodeError =>
             r = [d |-> after("INIT", f.left), msg |-> Cobs_decode(f.work)]
    <3>1. f = Found(d, d.fifo \o chunk)
      BY DEF f
    <3>2. d.state # "ERROR" /\ Fits(d, chunk) /\ GoodDeframer(d)
      BY <1>8
    <3>3. Called(r, d, chunk, f)
      BY <3>1, CallCases
    <3>. QED BY <3>2, <3>3 DEF Called
  <2>4. CASE Framed(f, w, bytes, b, a)
    <3>1. /\ f.state = "DECODE" /\ EndsAt(bytes, b, a)
          /\ f.work = w \o SubSeq(bytes, b + 1, a - 1)
      BY <2>4 DEF Framed
    <3>2. CASE Cobs_decode(f.work) = DecodeError
      <4>1. r = [d |-> after("INIT", << >>), msg |-> << >>]
        BY <2>3, <3>1, <3>2
      <4>2. r.d = [state |-> "INIT", fifo |-> << >>, work |-> f.work] /\ r.msg = << >>
        BY <4>1
      <4>3. GoodDeframer(r.d)
        BY <1>5, <1>8, <2>1, <2>2, <4>2
      <4>4. r.d.state = "INIT" /\ r.d.fifo = << >>
        BY <4>2
      <4>5. Undecodable(w, bytes, b)
        BY <3>1, <3>2 DEF Undecodable, EndsAt
      <4>6. Drops(d, bytes, chunk)
        BY <1>8, <4>5 DEF Drops
      <4>7. Dropped(d, bytes, chunk, r)
        BY <4>2, <4>4, <4>6 DEF Dropped
      <4>8. r.d.fifo = From(bytes, Len(bytes)) /\ Len(bytes) \in 0 .. Len(bytes)
        BY <1>3, <1>4, <4>4
      <4>. QED BY <4>3, <4>7, <4>8 DEF Outcome
    <3>3. CASE Cobs_decode(f.work) # DecodeError
      <4>1. r = [d |-> after("INIT", f.left), msg |-> Cobs_decode(f.work)]
        BY <2>3, <3>1, <3>3
      <4>2. /\ r.d = [state |-> "INIT", fifo |-> From(bytes, a), work |-> f.work]
            /\ r.msg = Cobs_decode(f.work)
        BY <2>2, <4>1
      <4>3. GoodDeframer(r.d)
        BY <1>5, <1>8, <2>1, <2>2, <4>2
      <4>4. r.d.state = "INIT" /\ r.d.fifo = From(bytes, a)
        BY <4>2
      <4>5. Got(d, bytes, r, a)
        BY <1>8, <2>2, <3>1, <3>3, <4>2, <4>4 DEF Got
      <4>. QED BY <2>2, <4>3, <4>4, <4>5 DEF Outcome
    <3>. QED BY <3>2, <3>3
  <2>5. CASE Unfinished(f, w, bytes, b, a)
    <3>1. /\ f.state = "FIND_EOF" /\ a = Len(bytes) /\ Clear(bytes, b + 1, a)
          /\ f.work = w \o SubSeq(bytes, b + 1, a)
      BY <2>5 DEF Unfinished
    <3>2. r = [d |-> after("FIND_EOF", f.left), msg |-> << >>]
      BY <2>3, <3>1 DEF AtRest
    <3>3. r.d = [state |-> "FIND_EOF", fifo |-> From(bytes, a), work |-> f.work] /\ r.msg = << >>
      BY <2>2, <3>2
    <3>4. GoodDeframer(r.d)
      BY <1>5, <1>8, <2>1, <2>2, <3>3
    <3>5. r.d.state = "FIND_EOF" /\ r.d.fifo = From(bytes, a) /\ r.d.work = f.work
      BY <3>3
    <3>6. Begun(d, bytes, r, a)
      BY <1>8, <2>2, <3>1, <3>3, <3>5 DEF Begun
    <3>. QED BY <2>2, <3>4, <3>5, <3>6 DEF Outcome
  <2>6. CASE Overflowed(f, w, bytes, b)
    <3>1. f.state = "ERROR" /\ TooLong(w, bytes, b)
      BY <2>6 DEF Overflowed
    <3>2. r = [d |-> after("ERROR", f.left), msg |-> << >>]
      BY <2>3, <3>1 DEF AtRest
    <3>3. r.d = [state |-> "ERROR", fifo |-> From(bytes, a), work |-> f.work] /\ r.msg = << >>
      BY <2>2, <3>2
    <3>4. GoodDeframer(r.d)
      BY <1>5, <1>8, <2>1, <2>2, <3>3
    <3>5. r.d.state = "ERROR" /\ r.d.fifo = From(bytes, a)
      BY <3>3
    <3>6. Drops(d, bytes, chunk)
      BY <1>8, <3>1 DEF Drops
    <3>7. Dropped(d, bytes, chunk, r)
      BY <3>3, <3>5, <3>6 DEF Dropped
    <3>. QED BY <2>2, <3>4, <3>5, <3>7 DEF Outcome
  <2>. QED BY <2>1, <2>4, <2>5, <2>6
<1>. QED BY <1>1, <1>2, <1>6, <1>7, <1>8, FoundStarts

-----------------------------------------------------------------------------
(* Requests: their place in the order of all, which is their first byte. *)

Rank(m) == (m.conn - 1) * MaxRequests + m.seqn

LEMMA TimesMonotone ==
  ASSUME NEW a \in Nat, NEW b \in Nat, a =< b, NEW c \in Nat
  PROVE  a * c =< b * c /\ a * c \in Nat /\ b * c \in Nat
<1>1. PICK d \in Nat : b = a + d
  <2>1. b - a \in Nat /\ b = a + (b - a)
    OBVIOUS
  <2>. QED BY <2>1
<1>2. b * c = a * c + d * c
  BY <1>1
<1>3. a * c \in Nat /\ d * c \in Nat
  BY <1>1
<1>. QED BY <1>2, <1>3

LEMMA RankBytes ==
  ASSUME NEW m \in Msgs
  PROVE  Rank(m) \in Bytes /\ Rank(m) \in 1 .. 255
<1>1. /\ m.conn \in 1 .. MaxConns /\ m.seqn \in 1 .. MaxRequests
      /\ MaxConns \in Nat /\ MaxRequests \in Nat /\ MaxConns * MaxRequests =< 255
  BY ServerAssumption DEF Msgs, Conns
<1> DEFINE a == m.conn - 1
           p == a * MaxRequests
           q == MaxConns * MaxRequests
<1>2. a \in Nat /\ a + 1 =< MaxConns
  BY <1>1
<1>3. (a + 1) * MaxRequests = p + MaxRequests
  BY <1>1, <1>2
<1>4. (a + 1) * MaxRequests =< q /\ p \in Nat
  <2>1. a + 1 \in Nat
    BY <1>2
  <2>. QED BY <1>1, <1>2, <2>1, TimesMonotone
<1>5. Rank(m) = p + m.seqn
  BY DEF Rank
<1>6. q =< 255 /\ m.seqn \in 1 .. MaxRequests /\ MaxRequests \in Nat
  BY <1>1
<1>7. q \in Nat
  BY <1>1
<1> DEFINE n == m.seqn
<1>. HIDE DEF p, q, n
<1>8. p + MaxRequests =< q
  BY <1>3, <1>4
<1>9. n \in 1 .. MaxRequests
  BY <1>6 DEF n
<1>10. p + n \in 1 .. 255
  BY <1>4, <1>6, <1>7, <1>8, <1>9
<1>. QED BY <1>5, <1>10 DEF Bytes, n

Before(a, b) == a.conn < b.conn \/ (a.conn = b.conn /\ a.seqn < b.seqn)

LEMMA EarlierConn ==
  ASSUME NEW a \in Msgs, NEW b \in Msgs, a.conn < b.conn
  PROVE  Rank(a) < Rank(b)
<1>1. /\ a.conn \in 1 .. MaxConns /\ a.seqn \in 1 .. MaxRequests
      /\ b.conn \in 1 .. MaxConns /\ b.seqn \in 1 .. MaxRequests
      /\ MaxConns \in Nat /\ MaxRequests \in Nat
  BY ServerAssumption DEF Msgs, Conns
<1> DEFINE x == a.conn - 1
           y == b.conn - 1
           p == x * MaxRequests
           q == y * MaxRequests
<1>2. x \in Nat /\ y \in Nat /\ x + 1 =< y /\ x + 1 \in Nat
  BY <1>1
<1>3. (x + 1) * MaxRequests = p + MaxRequests
  BY <1>1, <1>2
<1>4. (x + 1) * MaxRequests =< q /\ q \in Nat /\ p \in Nat
  BY <1>1, <1>2, TimesMonotone
<1>5. Rank(a) = p + a.seqn /\ Rank(b) = q + b.seqn
  BY DEF Rank
<1>. HIDE DEF p, q
<1>. QED BY <1>1, <1>3, <1>4, <1>5

LEMMA RankOrders ==
  ASSUME NEW a \in Msgs, NEW b \in Msgs
  PROVE  /\ Rank(a) < Rank(b) <=> Before(a, b)
         /\ Rank(a) = Rank(b) => a.conn = b.conn /\ a.seqn = b.seqn
<1>1. /\ a.conn \in Nat /\ a.seqn \in Nat /\ b.conn \in Nat /\ b.seqn \in Nat
      /\ MaxRequests \in Nat
  BY ServerAssumption DEF Msgs, Conns
<1>2. Rank(a) \in 1 .. 255 /\ Rank(b) \in 1 .. 255
  BY RankBytes
<1>3. CASE a.conn < b.conn
  <2>1. Rank(a) < Rank(b)
    BY <1>3, EarlierConn
  <2>. QED BY <1>1, <1>2, <1>3, <2>1 DEF Before
<1>4. CASE b.conn < a.conn
  <2>1. Rank(b) < Rank(a)
    BY <1>4, EarlierConn
  <2>2. ~(Rank(a) < Rank(b)) /\ Rank(a) # Rank(b)
    <3>1. \A x, y \in Int : y < x => ~(x < y) /\ x # y
      OBVIOUS
    <3>2. Rank(a) \in Int /\ Rank(b) \in Int
      BY <1>2
    <3>. QED BY <2>1, <3>1, <3>2
  <2>3. ~(a.conn < b.conn) /\ a.conn # b.conn
    BY <1>1, <1>4
  <2>. QED BY <2>2, <2>3 DEF Before
<1>5. CASE a.conn = b.conn
  <2> DEFINE p == (a.conn - 1) * MaxRequests
  <2>1. Rank(a) = p + a.seqn /\ Rank(b) = p + b.seqn
    BY <1>5 DEF Rank
  <2>2. p \in Int
    BY <1>1
  <2>. HIDE DEF p
  <2>3. /\ Rank(a) < Rank(b) <=> a.seqn < b.seqn
        /\ Rank(a) = Rank(b) => a.seqn = b.seqn
    BY <1>1, <2>1, <2>2
  <2>4. ~(a.conn < b.conn)
    BY <1>1, <1>5
  <2>. QED BY <1>5, <2>3, <2>4 DEF Before
<1>. QED BY <1>1, <1>3, <1>4, <1>5

LEMMA PayloadIs ==
  ASSUME NEW m \in Msgs
  PROVE  /\ Payload(m) \in Seq(Bytes)
         /\ m.tail \in Seq(Bytes)
         /\ Len(Payload(m)) = 1 + Len(m.tail)
         /\ Payload(m)[1] = Rank(m)
         /\ \A i \in 1 .. Len(m.tail) : Payload(m)[1 + i] = m.tail[i]
<1> DEFINE s == <<Rank(m)>>
           t == m.tail
<1>1. s \in Seq(Bytes) /\ Len(s) = 1 /\ s[1] = Rank(m)
  BY RankBytes, Single
<1>2. t \in Seq(Bytes)
  BY ServerAssumption DEF Msgs, Bytes
<1>3. Payload(m) = s \o t
  BY DEF Payload, Rank
<1>. HIDE DEF s, t
<1>4. /\ s \o t \in Seq(Bytes) /\ Len(s \o t) = Len(s) + Len(t)
      /\ \A i \in 1 .. Len(s) : (s \o t)[i] = s[i]
      /\ \A i \in 1 .. Len(t) : (s \o t)[Len(s) + i] = t[i]
  BY <1>1, <1>2, Join
<1>5. /\ Len(s \o t) = 1 + Len(t) /\ (s \o t)[1] = Rank(m)
      /\ \A i \in 1 .. Len(t) : (s \o t)[1 + i] = t[i]
  BY <1>1, <1>4
<1>. QED BY <1>2, <1>3, <1>4, <1>5 DEF t

\* A request's first byte says which it is, and its tail is no beginning of another.
LEMMA PayloadOnce ==
  ASSUME NEW m \in Msgs, NEW u \in Msgs, NEW j \in 0 .. Len(Payload(m)),
         Payload(u) = SubSeq(Payload(m), 1, j)
  PROVE  u = m
<1> DEFINE p == Payload(m)
           q == Payload(u)
<1>1. /\ p \in Seq(Bytes) /\ m.tail \in Seq(Bytes) /\ Len(p) = 1 + Len(m.tail) /\ p[1] = Rank(m)
      /\ \A i \in 1 .. Len(m.tail) : p[1 + i] = m.tail[i]
  BY PayloadIs
<1>2. /\ q \in Seq(Bytes) /\ u.tail \in Seq(Bytes) /\ Len(q) = 1 + Len(u.tail) /\ q[1] = Rank(u)
      /\ \A i \in 1 .. Len(u.tail) : q[1 + i] = u.tail[i]
  BY PayloadIs
<1>3. Len(m.tail) \in Nat /\ Len(u.tail) \in Nat
  BY <1>1, <1>2, LenProperties
<1>. HIDE DEF p, q
<1> DEFINE x == m.tail
           y == u.tail
<1>4. Len(q) = (IF 1 =< j THEN j - 1 + 1 ELSE 0) /\ \A i \in 1 .. j - 1 + 1 : q[i] = p[1 + i - 1]
  <2>1. 1 \in Int /\ j \in Int /\ 1 =< 1 /\ j =< Len(p)
    BY <1>1, <1>3 DEF p
  <2>2. q = SubSeq(p, 1, j)
    BY DEF p, q
  <2>. QED BY <1>1, <2>1, <2>2, Part
<1>. HIDE DEF x, y
<1>5. Len(q) = 1 + Len(y) /\ Len(p) = 1 + Len(x) /\ Len(x) \in Nat /\ Len(y) \in Nat
  BY <1>1, <1>2, <1>3 DEF x, y
<1>6. j = 1 + Len(y) /\ \A i \in 1 .. j : q[i] = p[i]
  <2>1. j \in Int
    OBVIOUS
  <2>. QED BY <1>4, <1>5, <2>1
<1>7. Len(y) =< Len(x)
  <2>1. j =< Len(p)
    BY DEF p
  <2>. QED BY <1>5, <1>6, <2>1
<1>8. Rank(u) = Rank(m)
  <2>1. 1 \in 1 .. j
    BY <1>5, <1>6
  <2>. QED BY <1>1, <1>2, <1>6, <2>1
<1>9. \A i \in 1 .. Len(y) : y[i] = x[i]
  <2>. TAKE i \in 1 .. Len(y)
  <2>1. 1 + i \in 1 .. j /\ i \in 1 .. Len(x)
    BY <1>5, <1>6, <1>7
  <2>2. q[1 + i] = p[1 + i]
    BY <1>6, <2>1
  <2>. QED BY <1>1, <1>2, <2>1, <2>2 DEF x, y
<1>10. IsPrefix(y, x)
  <2>1. 1 \in Int /\ Len(y) \in Int /\ 1 =< 1 /\ Len(y) =< Len(y) /\ Len(y) =< Len(x)
    BY <1>5, <1>7
  <2>2. x \in Seq(Bytes) /\ y \in Seq(Bytes)
    BY <1>1, <1>2 DEF x, y
  <2>3. SubSeq(y, 1, Len(y)) = y
    BY <2>2, SubSeqFull
  <2> DEFINE z == SubSeq(x, 1, Len(y))
  <2>4. /\ z \in Seq(Bytes) /\ Len(z) = IF 1 =< Len(y) THEN Len(y) - 1 + 1 ELSE 0
        /\ \A i \in 1 .. Len(y) - 1 + 1 : z[i] = x[1 + i - 1]
    BY <2>1, <2>2, Part
  <2>. HIDE DEF z
  <2>5. Len(z) = Len(y) /\ \A i \in 1 .. Len(y) : z[i] = y[i]
    BY <1>5, <1>9, <2>4
  <2>6. z = y
    BY <2>2, <2>4, <2>5, SeqEqual
  <2>. QED BY <1>7, <2>3, <2>6 DEF IsPrefix, z
<1>11. y = x
  <2>1. x \in Tails /\ y \in Tails
    BY DEF Msgs, x, y
  <2>. QED BY <1>10, <2>1, ServerAssumption
<1>12. u.conn = m.conn /\ u.seqn = m.seqn
  BY <1>8, RankOrders
<1>. QED BY <1>11, <1>12 DEF Msgs, x, y

LEMMA PayloadDistinct ==
  ASSUME NEW m \in Msgs, NEW u \in Msgs, Payload(u) = Payload(m)
  PROVE  u = m
<1>1. Payload(m) \in Seq(Bytes)
  BY PayloadIs
<1>2. Len(Payload(m)) \in 0 .. Len(Payload(m)) /\ SubSeq(Payload(m), 1, Len(Payload(m))) = Payload(m)
  BY <1>1, LenProperties, SubSeqFull
<1>. QED BY <1>2, PayloadOnce

-----------------------------------------------------------------------------
(* Types. *)

Answers == [seqn : Msgs, status : Fates, callset : BOOLEAN]
Frame(m) == Cobs_framer(Payload(m))

LEMMA FrameIs ==
  ASSUME NEW m \in Msgs
  PROVE  /\ Encodings[m] = Cobs_encode(Payload(m))
         /\ Encodings[m] \in Seq(Bytes) /\ Len(Encodings[m]) > 0
         /\ Frame(m) \in Seq(Bytes)
         /\ Len(Frame(m)) = Len(Encodings[m]) + 2
         /\ Frame(m)[1] = Delimiter
         /\ \A i \in 1 .. Len(Encodings[m]) : Frame(m)[1 + i] = Encodings[m][i]
         /\ Frame(m)[Len(Encodings[m]) + 2] = Delimiter
         /\ \A s \in Seq(Bytes) :
              s \o <<Delimiter>> \o Encodings[m] \o <<Delimiter>> = s \o Frame(m)
<1> DEFINE e == Encodings[m]
           z == <<Delimiter>>
           f == Frame(m)
<1>1. e = Cobs_encode(Payload(m))
  BY DEF Encodings, encode
<1>2. e \in Seq(Bytes) /\ Len(e) > 0
  BY <1>1, PayloadIs, EncodedBytes
<1>3. z \in Seq(Bytes) /\ Len(z) = 1 /\ z[1] = Delimiter
  <2>1. Delimiter \in Bytes
    BY DEF Delimiter, Bytes
  <2>. QED BY <2>1, Single
<1>4. f = z \o e \o z
  BY <1>1 DEF Frame, Cobs_framer
<1>. HIDE DEF e, z, f
<1> DEFINE g == z \o e
<1>5. /\ g \in Seq(Bytes) /\ Len(g) = Len(z) + Len(e)
      /\ \A i \in 1 .. Len(z) : g[i] = z[i]
      /\ \A i \in 1 .. Len(e) : g[Len(z) + i] = e[i]
  <2>1. z \in Seq(Bytes) /\ e \in Seq(Bytes)
    BY <1>2, <1>3
  <2>. QED BY <2>1, Join
<1>6. f = g \o z
  <2>1. z \o e \o z = g \o z
    OBVIOUS
  <2>. QED BY <1>4, <2>1
<1>. HIDE DEF g
<1>7. /\ f \in Seq(Bytes) /\ Len(f) = Len(g) + Len(z)
      /\ \A i \in 1 .. Len(g) : f[i] = g[i]
      /\ \A i \in 1 .. Len(z) : f[Len(g) + i] = z[i]
  <2>1. g \in Seq(Bytes) /\ z \in Seq(Bytes)
    BY <1>3, <1>5
  <2>2. /\ g \o z \in Seq(Bytes) /\ Len(g \o z) = Len(g) + Len(z)
        /\ \A i \in 1 .. Len(g) : (g \o z)[i] = g[i]
        /\ \A i \in 1 .. Len(z) : (g \o z)[Len(g) + i] = z[i]
    BY <2>1, Join
  <2>. QED BY <1>6, <2>2
<1>8. Len(e) \in Nat /\ Len(g) = 1 + Len(e)
  BY <1>2, <1>3, <1>5, LenProperties
<1>9. Len(f) = Len(e) + 2 /\ f[1] = Delimiter /\ f[Len(e) + 2] = Delimiter
  <2>1. 1 \in 1 .. Len(g) /\ 1 \in 1 .. Len(z)
    BY <1>3, <1>8
  <2>2. f[1] = g[1] /\ g[1] = z[1] /\ f[Len(g) + 1] = z[1]
    BY <1>5, <1>7, <2>1
  <2>3. Len(f) = Len(e) + 2 /\ Len(g) + 1 = Len(e) + 2
    BY <1>3, <1>7, <1>8
  <2>. QED BY <1>3, <2>2, <2>3
<1>10. \A i \in 1 .. Len(e) : f[1 + i] = e[i]
  <2>. TAKE i \in 1 .. Len(e)
  <2>1. 1 + i \in 1 .. Len(g)
    BY <1>8
  <2>2. f[1 + i] = g[1 + i] /\ g[1 + i] = e[i]
    BY <1>3, <1>5, <1>7, <2>1
  <2>. QED BY <2>2
<1>11. ASSUME NEW s \in Seq(Bytes) PROVE s \o z \o e \o z = s \o f
  <2>1. (s \o z) \o e = s \o g
    BY <1>2, <1>3, ConcatAssociative DEF g
  <2>2. (s \o g) \o z = s \o (g \o z)
    BY <1>3, <1>5, ConcatAssociative
  <2>. QED BY <1>6, <2>1, <2>2
<1>. QED BY <1>1, <1>2, <1>7, <1>9, <1>10, <1>11 DEF e, f, z

LEMMA RepliesAre ==
  ASSUME NEW m \in Msgs
  PROVE  /\ Reply1(m) = <<[seqn |-> m, status |-> "ok", callset |-> TRUE]>>
         /\ Reply1(m) \in Seq(Answers)
         /\ ProtoRpc_exec([seqn |-> m, no_reply |-> FALSE, fate |-> "bad"]) \in Seq(Answers)
<1> DEFINE ok == [seqn |-> m, status |-> "ok", callset |-> TRUE]
           bad == [seqn |-> m, status |-> "bad", callset |-> FALSE]
<1>1. Reply1(m) = <<ok>>
  BY DEF Reply1, ProtoRpc_exec, Executes, Reply
<1>2. ProtoRpc_exec([seqn |-> m, no_reply |-> FALSE, fate |-> "bad"]) = <<bad>>
  BY DEF ProtoRpc_exec, Executes, Reply
<1>3. ok \in Answers /\ bad \in Answers
  BY DEF Answers, Fates
<1>4. <<ok>> \in Seq(Answers) /\ <<bad>> \in Seq(Answers)
  <2>. HIDE DEF ok, bad
  <2>. QED BY <1>3, Single
<1>. QED BY <1>1, <1>2, <1>4

\* The requests that were sent leave room for one more of any client.
LEMMA SentRoom ==
  ASSUME asked \in [Conns -> Seq(Msgs)], NEW c \in Conns, Cardinality(Sent) < MaxRequests
  PROVE  Len(asked[c]) + 1 \in 1 .. MaxRequests
<1> DEFINE I == 1 .. MaxRequests
           f == [n \in I |-> <<c, n>>]
<1>1. MaxRequests \in Nat /\ MaxConns \in Nat /\ Len(asked[c]) \in Nat
  BY ServerAssumption, LenProperties
<1>2. IsFiniteSet(Sent)
  <2>1. IsFiniteSet(Conns) /\ IsFiniteSet(I)
    BY <1>1, FS_Interval DEF Conns
  <2>2. IsFiniteSet(Conns \X I)
    BY <2>1, FS_Product
  <2>3. Sent \in SUBSET (Conns \X I)
    BY DEF Sent
  <2>. QED BY <2>2, <2>3, FS_Subset
<1>3. Cardinality(I) = MaxRequests
  <2>1. 1 \in Int /\ MaxRequests \in Int
    BY <1>1
  <2>2. Cardinality(I) = IF 1 > MaxRequests THEN 0 ELSE MaxRequests - 1 + 1
    BY <2>1, FS_Interval
  <2>. QED BY <1>1, <2>2
<1>4. SUFFICES ASSUME MaxRequests =< Len(asked[c]) PROVE FALSE
  BY <1>1
<1>5. f \in Injection(I, Sent)
  <2>1. \A n \in I : <<c, n>> \in Sent
    BY <1>1, <1>4 DEF Sent
  <2>2. f \in [I -> Sent]
    BY <2>1
  <2>3. \A a, b \in I : f[a] = f[b] => a = b
    OBVIOUS
  <2>. QED BY <2>2, <2>3 DEF Injection, IsInjective
<1>6. Cardinality(I) =< Cardinality(Sent)
  <2>. HIDE DEF f
  <2>. QED BY <1>2, <1>5, FS_Injection
<1>7. Cardinality(Sent) \in Nat
  BY <1>2, FS_CardinalityType
<1>. QED BY <1>1, <1>3, <1>6, <1>7

LEMMA InitTypes == Init => TypeOK
<1>. SUFFICES ASSUME Init PROVE TypeOK
  OBVIOUS
<1>1. /\ << >> \in Seq(Bytes) /\ << >> \in Seq(Msgs) /\ << >> \in Seq(Answers)
      /\ << >> \in Seq(Conns) /\ Len(<< >>) =< FifoDepth
  BY FifoAssumption
<1>2. deframer = [state |-> "INIT", fifo |-> << >>, work |-> << >>]
  BY DEF Init, Cobs_deframer_init
<1>3. GoodDeframer(deframer)
  BY <1>1, <1>2 DEF GoodDeframer, Deframers
<1>. QED BY <1>1, <1>3 DEF Init, TypeOK, GoodDeframer, Answers

LEMMA SendTypes ==
  ASSUME TypeOK, NEW c \in Conns, NEW tail \in Tails, Send(c, tail)
  PROVE  TypeOK'
<1> DEFINE m == [conn |-> c, seqn |-> Len(asked[c]) + 1, tail |-> tail]
<1>1. asked[c] \in Seq(Msgs) /\ up[c] \in Seq(Bytes)
  BY DEF TypeOK
<1>2. m \in Msgs
  <2>1. Len(asked[c]) + 1 \in 1 .. MaxRequests
    BY SentRoom DEF TypeOK, Send
  <2>. QED BY <2>1 DEF Msgs
<1>3. /\ asked' = [asked EXCEPT ![c] = Append(@, m)]
      /\ up' = [up EXCEPT ![c] = @ \o <<Delimiter>> \o Encodings[m] \o <<Delimiter>>]
      /\ patient' = (patient /\ AllAnswered(c) /\ Len(Encodings[m]) < FifoDepth)
      /\ UNCHANGED <<client, answers, backlog, sock, deframer, executed>>
  BY DEF Send
<1>. HIDE DEF m
<1>4. Append(asked[c], m) \in Seq(Msgs)
  BY <1>1, <1>2, AppendProperties
<1>5. up[c] \o <<Delimiter>> \o Encodings[m] \o <<Delimiter>> \in Seq(Bytes)
  <2>1. /\ Frame(m) \in Seq(Bytes)
        /\ up[c] \o <<Delimiter>> \o Encodings[m] \o <<Delimiter>> = up[c] \o Frame(m)
    BY <1>1, <1>2, FrameIs
  <2>2. up[c] \o Frame(m) \in Seq(Bytes)
    BY <1>1, <2>1, Join
  <2>. QED BY <2>1, <2>2
<1>6. asked' \in [Conns -> Seq(Msgs)]
  BY <1>3, <1>4 DEF TypeOK
<1>7. up' \in [Conns -> Seq(Bytes)]
  BY <1>3, <1>5 DEF TypeOK
<1>8. patient' \in BOOLEAN
  BY <1>3, Zenon
<1>. QED BY <1>3, <1>6, <1>7, <1>8 DEF TypeOK

LEMMA BreakTypes ==
  ASSUME TypeOK, NEW c \in Conns, Break(c)
  PROVE  TypeOK'
<1>1. PICK k \in 0 .. Len(up[c]) : up' = [up EXCEPT ![c] = SubSeq(@, 1, k)]
  BY DEF Break
<1>2. up[c] \in Seq(Bytes)
  BY DEF TypeOK
<1>3. SubSeq(up[c], 1, k) \in Seq(Bytes)
  <2>1. 1 \in Int /\ k \in Int /\ 1 =< 1 /\ k =< Len(up[c])
    BY <1>2, LenProperties
  <2>. QED BY <1>2, <2>1, Part
<1>4. up' \in [Conns -> Seq(Bytes)]
  BY <1>1, <1>3 DEF TypeOK
<1>. QED BY <1>4 DEF TypeOK, Break

LEMMA WriteTypes ==
  ASSUME TypeOK, NEW c \in Conns, NEW reply \in Seq(Answers), TcpSocket_write(c, reply)
  PROVE  answers' \in [Conns -> Seq(Answers)]
<1>1. answers \in [Conns -> Seq(Answers)]
  BY DEF TypeOK, Answers
<1>2. answers[c] \o reply \in Seq(Answers)
  <2>1. answers[c] \in Seq(Answers)
    BY <1>1
  <2>. QED BY <2>1, Join
<1>. QED BY <1>1, <1>2 DEF TcpSocket_write

\* What a read of n bytes gives, and what it leaves.
LEMMA ReadBytes ==
  ASSUME NEW s \in Seq(Bytes), NEW n \in 1 .. FifoDepth, n =< Len(s)
  PROVE  SubSeq(s, 1, n) \in Seq(Bytes) /\ SubSeq(s, n + 1, Len(s)) \in Seq(Bytes)
<1>1. Len(s) \in Nat /\ n \in Nat
  BY LenProperties, FifoAssumption
<1>2. SubSeq(s, 1, n) \in Seq(Bytes)
  <2>1. 1 \in Int /\ n \in Int /\ 1 =< 1
    BY <1>1
  <2>. QED BY <2>1, Part
<1>3. SubSeq(s, n + 1, Len(s)) \in Seq(Bytes)
  <2>1. n + 1 \in Int /\ Len(s) \in Int /\ 1 =< n + 1 /\ Len(s) =< Len(s)
    BY <1>1
  <2> DEFINE k == n + 1
  <2>. HIDE DEF k
  <2>2. SubSeq(s, k, Len(s)) \in Seq(Bytes)
    BY <2>1, Part DEF k
  <2>. QED BY <2>2 DEF k
<1>. QED BY <1>2, <1>3

LEMMA ReadTypes == ASSUME TypeOK, Read PROVE TypeOK'
<1>1. sock \in Conns
  BY DEF Read
<1>2. PICK n \in 1 .. FifoDepth : TcpSocket_read(n) /\ rpc_callback(SubSeq(up[sock], 1, n))
  BY DEF Read
<1> DEFINE chunk == SubSeq(up[sock], 1, n)
           r == Cobs_deframer(deframer, chunk)
<1>3. up[sock] \in Seq(Bytes)
  BY <1>1 DEF TypeOK
<1>4. chunk \in Seq(Bytes) /\ SubSeq(up[sock], n + 1, Len(up[sock])) \in Seq(Bytes)
  BY <1>2, <1>3, ReadBytes DEF TcpSocket_read
<1>5. up' \in [Conns -> Seq(Bytes)]
  BY <1>2, <1>4 DEF TypeOK, TcpSocket_read
<1>6. GoodDeframer(deframer)
  BY DEF TypeOK, GoodDeframer
<1>7. /\ deframer' = r.d
      /\ \/ \E m \in SentAs(r.msg) : Handled(m)
         \/ SentAs(r.msg) = {} /\ NotHandled
         \/ /\ \E m \in Msgs :
                 TcpSocket_write(sock, ProtoRpc_exec([seqn |-> m, no_reply |-> FALSE,
                                                      fate |-> "bad"]))
            /\ UNCHANGED executed
  BY <1>2 DEF rpc_callback
<1>. HIDE DEF chunk
<1>8. GoodDeframer(deframer')
  <2>1. GoodDeframer(r.d)
    BY <1>4, <1>6, CallIs
  <2>. QED BY <1>7, <2>1
<1>. HIDE DEF r
<1>9. executed' \in Seq(Msgs) /\ answers' \in [Conns -> Seq(Answers)]
  <2>1. CASE \E m \in SentAs(r.msg) : Handled(m)
    <3>1. PICK m \in Msgs : Handled(m)
      BY <2>1 DEF SentAs
    <3>2. executed' = Append(executed, m) /\ TcpSocket_write(sock, Reply1(m))
      BY <3>1 DEF Handled
    <3>3. executed' \in Seq(Msgs)
      BY <3>2, AppendProperties DEF TypeOK
    <3>. QED BY <1>1, <3>2, <3>3, RepliesAre, WriteTypes
  <2>2. CASE NotHandled
    BY <2>2 DEF NotHandled, TypeOK, Answers
  <2>3. CASE \E m \in Msgs :
               /\ TcpSocket_write(sock, ProtoRpc_exec([seqn |-> m, no_reply |-> FALSE,
                                                       fate |-> "bad"]))
               /\ UNCHANGED executed
    <3>1. PICK m \in Msgs :
               /\ TcpSocket_write(sock, ProtoRpc_exec([seqn |-> m, no_reply |-> FALSE,
                                                       fate |-> "bad"]))
               /\ UNCHANGED executed
      BY <2>3
    <3>2. executed' \in Seq(Msgs)
      BY <3>1 DEF TypeOK
    <3>. QED BY <1>1, <3>1, <3>2, RepliesAre, WriteTypes
  <2>. QED BY <1>7, <2>1, <2>2, <2>3
<1>10. UNCHANGED <<client, asked, backlog, sock, patient>>
  BY DEF Read
<1>. QED BY <1>5, <1>8, <1>9, <1>10 DEF TypeOK, GoodDeframer, Answers

LEMMA OtherTypes ==
  ASSUME TypeOK,
         \/ \E c \in Conns : Connect(c) \/ Close(c)
         \/ TcpServer_init \/ TcpSocket_listen \/ Accept \/ AcceptFails
         \/ ReadEnd \/ ReadError \/ UNCHANGED vars
  PROVE  TypeOK'
<1>1. ASSUME NEW c \in Conns, Connect(c) PROVE TypeOK'
  <2>1. backlog' \in Seq(Conns)
    BY <1>1, AppendProperties DEF TypeOK, Connect
  <2>. QED BY <1>1, <2>1 DEF TypeOK, Connect
<1>2. ASSUME NEW c \in Conns, Close(c) PROVE TypeOK'
  <2>1. patient' \in BOOLEAN
    <3>1. patient' = (patient /\ AllAnswered(c))
      BY <1>2 DEF Close
    <3>. QED BY <3>1, Zenon
  <2>. QED BY <1>2, <2>1 DEF TypeOK, Close
<1>3. CASE TcpServer_init \/ TcpSocket_listen \/ AcceptFails
  BY <1>3 DEF TypeOK, TcpServer_init, TcpSocket_listen, AcceptFails, clientVars
<1>4. CASE Accept
  <2>1. Head(backlog) \in Conns /\ Tail(backlog) \in Seq(Conns)
    BY <1>4, HeadTailProperties DEF TypeOK, Accept
  <2>. QED BY <1>4, <2>1 DEF TypeOK, Accept, TcpSocket_accept, clientVars
<1>5. CASE ReadEnd \/ ReadError
  BY <1>5 DEF TypeOK, ReadEnd, ReadError, TcpSocket_close, clientVars
<1>6. CASE UNCHANGED vars
  BY <1>6 DEF TypeOK, vars
<1>. QED BY <1>1, <1>2, <1>3, <1>4, <1>5, <1>6

LEMMA StepTypes == TypeOK /\ [Next]_vars => TypeOK'
BY SendTypes, BreakTypes, ReadTypes, OtherTypes DEF Next, Server

\* Whatever clients send, leave unfinished or break off, the deframer keeps to its
\* buffers, and each variable of the server to its type.
THEOREM ServerTypeCorrect == Spec => []TypeOK
BY InitTypes, StepTypes, PTL DEF Spec

-----------------------------------------------------------------------------
(* The decoder. *)

Places == Nat \ {0}

\* g goes from place to place, each later than the last, until it is past the end.
Follows(g, L, next, base, Step) ==
  \A p \in Places : g[p] = IF p > L THEN base[p] ELSE Step[<<p, g[next[p]]>>]

Onward(L, next) == \A p \in 1 .. L : next[p] > p

LEMMA FollowsExists ==
  ASSUME NEW L \in Nat, NEW next \in [1 .. L -> Nat], Onward(L, next),
         NEW A, NEW base \in [Places -> A], NEW Step \in [(1 .. L) \X A -> A]
  PROVE  \E g \in [Places -> A] : Follows(g, L, next, base, Step)
<1> DEFINE At(g, p) == g[p] = IF p > L THEN base[p] ELSE Step[<<p, g[next[p]]>>]
           T == {n \in 0 .. L : \E g \in [Places -> A] : \A p \in Places : p > L - n => At(g, p)}
<1>1. 0 \in T
  <2>1. \A p \in Places : p > L - 0 => At(base, p)
    OBVIOUS
  <2>. QED BY <2>1
<1>2. ASSUME NEW n \in 0 .. L - 1, n \in T PROVE n + 1 \in T
  <2>1. PICK g \in [Places -> A] : \A p \in Places : p > L - n => At(g, p)
    BY <1>2
  <2> DEFINE k == L - n
             h == [p \in Places |-> IF p = k THEN Step[<<k, g[next[k]]>>] ELSE g[p]]
  <2>2. k \in 1 .. L /\ k \in Places /\ next[k] \in Places /\ next[k] > k
    BY DEF Onward, Places
  <2>3. g[next[k]] \in A
    BY <2>2
  <2>4. Step[<<k, g[next[k]]>>] \in A
    BY <2>2, <2>3
  <2>. HIDE DEF k
  <2>5. h \in [Places -> A]
    BY <2>4
  <2>6. ASSUME NEW p \in Places, p >= k PROVE At(h, p)
    <3>1. CASE p = k
      <4>1. ~(p > L) /\ next[k] # k
        BY <2>2, <3>1
      <4>2. h[next[k]] = g[next[k]] /\ h[k] = Step[<<k, g[next[k]]>>]
        BY <2>2, <4>1
      <4>. HIDE DEF h
      <4>. QED BY <3>1, <4>1, <4>2
    <3>2. CASE p > k
      <4>1. At(g, p) /\ h[p] = g[p]
        BY <2>1, <2>2, <2>6, <3>2 DEF k, Places
      <4>2. CASE p > L
        <5>. HIDE DEF h
        <5>. QED BY <4>1, <4>2
      <4>3. CASE ~(p > L)
        <5>1. p \in 1 .. L
          BY <4>3 DEF Places
        <5>2. next[p] \in Places /\ next[p] # k
          BY <2>2, <3>2, <5>1 DEF Onward, Places
        <5>3. h[next[p]] = g[next[p]]
          BY <5>2
        <5>. HIDE DEF h
        <5>. QED BY <4>1, <4>3, <5>3
      <4>. QED BY <4>2, <4>3
    <3>. QED BY <2>2, <2>6, <3>1, <3>2 DEF Places
  <2> DEFINE m == n + 1
  <2>7. m \in 0 .. L /\ L - m = k - 1
    BY DEF k
  <2>. HIDE DEF h, m
  <2>8. \A p \in Places : p > L - m => At(h, p)
    <3>. SUFFICES ASSUME NEW p \in Places, p > L - m PROVE At(h, p)
      OBVIOUS
    <3>1. p >= k
      BY <2>2, <2>7 DEF Places
    <3>. QED BY <2>6, <3>1
  <2>9. m \in T
    <3>. HIDE DEF At
    <3>. QED BY <2>5, <2>7, <2>8
  <2>. QED BY <2>9 DEF m
<1>3. L \in T
  <2>. HIDE DEF T
  <2>1. 0 .. L \subseteq T
    BY <1>1, <1>2, UpTo
  <2>. QED BY <2>1
<1>4. PICK g \in [Places -> A] : \A p \in Places : p > L - L => At(g, p)
  <2>. HIDE DEF At
  <2>. QED BY <1>3
<1>5. \A p \in Places : At(g, p)
  BY <1>4 DEF Places
<1>. QED BY <1>5 DEF Follows

LEMMA NextCodes ==
  ASSUME NEW w \in Seq(Bytes)
  PROVE  \A p \in 1 .. Len(w) : NextCode(w, p) \in Nat /\ NextCode(w, p) > p
<1>1. \A p \in 1 .. Len(w) : w[p] \in Bytes
  BY ElementOfSeq
<1>2. Len(w) \in Nat
  BY LenProperties
<1>. TAKE p \in 1 .. Len(w)
<1>a. p \in Nat
  BY <1>2
<1>b. w[p] \in Bytes
  BY <1>1
<1>c. w[p] \in Nat
  <2>1. Bytes \subseteq Nat
    BY DEF Bytes
  <2>. QED BY <1>b, <2>1
<1>3. p \in Nat /\ w[p] \in Nat
  BY <1>a, <1>c
<1> DEFINE a == w[p]
<1>4. p + 1 \in Nat /\ p + 1 > p
  BY <1>3
<1>5. a # 0 => p + a \in Nat /\ p + a > p
  BY <1>3
<1>. QED BY <1>4, <1>5 DEF NextCode

LEMMA PastIs ==
  ASSUME NEW w \in Seq(Bytes)
  PROVE  \A p \in Places :
           Past(w)[p] = IF p > Len(w) THEN p ELSE Past(w)[NextCode(w, p)]
<1> DEFINE L == Len(w)
           next == [p \in 1 .. L |-> NextCode(w, p)]
           base == [p \in Places |-> p]
           Step == [q \in (1 .. L) \X Places |-> q[2]]
           Is(f) == f = [p \in Nat \ {0} |-> IF p > Len(w) THEN p ELSE f[NextCode(w, p)]]
<1>1. L \in Nat
  BY LenProperties
<1>2. next \in [1 .. L -> Nat] /\ Onward(L, next)
  BY NextCodes DEF Onward
<1>3. base \in [Places -> Places] /\ Step \in [(1 .. L) \X Places -> Places]
  OBVIOUS
<1>4. PICK g \in [Places -> Places] : Follows(g, L, next, base, Step)
  <2>. HIDE DEF L, next, base, Step
  <2>. QED BY <1>1, <1>2, <1>3, FollowsExists
<1>5. ASSUME NEW p \in Places PROVE g[p] = IF p > Len(w) THEN p ELSE g[NextCode(w, p)]
  <2>1. g[p] = IF p > L THEN base[p] ELSE Step[<<p, g[next[p]]>>]
    BY <1>4 DEF Follows
  <2>2. CASE p > L
    BY <2>1, <2>2
  <2>3. CASE ~(p > L)
    <3>1. p \in 1 .. L
      BY <1>1, <2>3 DEF Places
    <3>2. next[p] = NextCode(w, p) /\ next[p] \in Places
      BY <3>1, NextCodes DEF Places
    <3>3. g[next[p]] \in Places
      BY <3>2
    <3>. QED BY <2>1, <2>3, <3>1, <3>2, <3>3
  <2>. QED BY <2>2, <2>3
<1>6. Is(g)
  BY <1>5 DEF Places
<1>7. Past(w) = CHOOSE f : Is(f)
  BY DEF Past
<1>8. Is(Past(w))
  <2>. HIDE DEF Is
  <2>. QED BY <1>6, <1>7
<1> DEFINE f == Past(w)
<1>9. f = [p \in Places |-> IF p > Len(w) THEN p ELSE f[NextCode(w, p)]]
  BY <1>8 DEF Places
<1>. HIDE DEF f, Is
<1>10. \A p \in Places : f[p] = IF p > Len(w) THEN p ELSE f[NextCode(w, p)]
  BY <1>9
<1>. QED BY <1>10 DEF f

\* What the decoder finds in memory.
Memory(w) == Bytes \cup {w[i] : i \in Nat}

Writes(w, p, rest) ==
  SubSeq(w, p + 1, NextCode(w, p) - 1)
    \o (IF NextCode(w, p) = Len(w) + 1 THEN << >> ELSE Zero(w, p) \o rest)

LEMMA WritesBytes ==
  ASSUME NEW w \in Seq(Bytes), NEW p \in 1 .. Len(w), NEW rest \in Seq(Memory(w))
  PROVE  Writes(w, p, rest) \in Seq(Memory(w))
<1> DEFINE M == Memory(w)
           a == SubSeq(w, p + 1, NextCode(w, p) - 1)
           z == Zero(w, p)
           b == IF NextCode(w, p) = Len(w) + 1 THEN << >> ELSE z \o rest
<1>1. p \in Nat /\ NextCode(w, p) \in Nat
  BY NextCodes
<1>2. a \in Seq(M)
  <2> DEFINE m == p + 1
             n == NextCode(w, p) - 1
  <2>1. m \in Int /\ n \in Int /\ \A i \in m .. n : w[i] \in M
    BY <1>1 DEF Memory
  <2>. HIDE DEF m, n, M
  <2>2. SubSeq(w, m, n) \in Seq(M)
    BY <2>1, SubSeqProperties
  <2>. QED BY <2>2 DEF m, n
<1>3. z \in Seq(M)
  <2>1. 0 \in M
    BY DEF Memory, Bytes
  <2>. HIDE DEF M
  <2>2. <<0>> \in Seq(M) /\ << >> \in Seq(M)
    BY <2>1, Single
  <2>. QED BY <2>2 DEF Zero
<1>. HIDE DEF M, a, z
<1>4. z \o rest \in Seq(M) /\ << >> \in Seq(M)
  <2>1. rest \in Seq(M)
    BY DEF M
  <2>. QED BY <1>3, <2>1, Join
<1>5. b \in Seq(M)
  BY <1>4
<1>. HIDE DEF b
<1>6. a \o b \in Seq(M)
  BY <1>2, <1>5, Join
<1>. QED BY <1>6 DEF Writes, a, b, z, M

LEMMA OutputIs ==
  ASSUME NEW w \in Seq(Bytes)
  PROVE  \A p \in Places :
           /\ Output(w)[p] = IF p > Len(w) THEN << >> ELSE Writes(w, p, Output(w)[NextCode(w, p)])
           /\ Output(w)[p] \in Seq(Memory(w))
<1> DEFINE L == Len(w)
           A == Seq(Memory(w))
           next == [p \in 1 .. L |-> NextCode(w, p)]
           base == [p \in Places |-> << >>]
           Step == [q \in (1 .. L) \X A |-> Writes(w, q[1], q[2])]
           Is(f) == f = [p \in Nat \ {0} |->
                           IF p > Len(w) THEN << >>
                           ELSE SubSeq(w, p + 1, NextCode(w, p) - 1)
                                  \o (IF NextCode(w, p) = Len(w) + 1 THEN << >>
                                      ELSE Zero(w, p) \o f[NextCode(w, p)])]
<1>1. L \in Nat
  BY LenProperties
<1>2. next \in [1 .. L -> Nat] /\ Onward(L, next)
  BY NextCodes DEF Onward
<1>3. base \in [Places -> A] /\ Step \in [(1 .. L) \X A -> A]
  <2>1. << >> \in A
    OBVIOUS
  <2>2. \A p \in 1 .. L, rest \in A : Writes(w, p, rest) \in A
    BY WritesBytes
  <2>. HIDE DEF A
  <2>. QED BY <2>1, <2>2
<1>4. PICK g \in [Places -> A] : Follows(g, L, next, base, Step)
  <2>. HIDE DEF L, next, base, Step, A
  <2>. QED BY <1>1, <1>2, <1>3, FollowsExists
<1>5. ASSUME NEW p \in Places
      PROVE  g[p] = IF p > Len(w) THEN << >> ELSE Writes(w, p, g[NextCode(w, p)])
  <2>1. g[p] = IF p > L THEN base[p] ELSE Step[<<p, g[next[p]]>>]
    BY <1>4 DEF Follows
  <2>2. CASE p > L
    BY <2>1, <2>2
  <2>3. CASE ~(p > L)
    <3>1. p \in 1 .. L
      BY <1>1, <2>3 DEF Places
    <3>2. next[p] = NextCode(w, p) /\ next[p] \in Places
      BY <3>1, NextCodes DEF Places
    <3>3. g[next[p]] \in A
      BY <3>2
    <3>4. Step[<<p, g[next[p]]>>] = Writes(w, p, g[next[p]])
      <4>. HIDE DEF A
      <4>. QED BY <3>1, <3>3
    <3>. QED BY <2>1, <2>3, <3>2, <3>4
  <2>. QED BY <2>2, <2>3
<1>6. Is(g)
  BY <1>5 DEF Places, Writes
<1>7. Output(w) = CHOOSE f : Is(f)
  BY DEF Output
<1>8. Is(Output(w))
  <2>. HIDE DEF Is
  <2>. QED BY <1>6, <1>7
<1> DEFINE f == Output(w)
<1>9. f = [p \in Places |-> IF p > Len(w) THEN << >> ELSE Writes(w, p, f[NextCode(w, p)])]
  BY <1>8 DEF Places, Writes
<1>. HIDE DEF f, Is
<1>10. \A p \in Places : f[p] = IF p > Len(w) THEN << >> ELSE Writes(w, p, f[NextCode(w, p)])
  BY <1>9
<1> DEFINE T == {n \in 0 .. L : \A p \in Places : p > L - n => f[p] \in A}
<1>11. 0 \in T
  <2>1. << >> \in A
    OBVIOUS
  <2>. HIDE DEF A
  <2>2. \A p \in Places : p > L - 0 => f[p] \in A
    BY <1>1, <1>10, <2>1 DEF Places
  <2>. QED BY <1>1, <2>2
<1>12. ASSUME NEW n \in 0 .. L - 1, n \in T PROVE n + 1 \in T
  <2> DEFINE m == n + 1
             k == L - n
  <2>1. m \in 0 .. L /\ L - m = k - 1 /\ k \in 1 .. L /\ k \in Places /\ ~(k > L)
    BY <1>1 DEF Places
  <2>a. NextCode(w, k) \in Nat /\ NextCode(w, k) > k
    <3>. HIDE DEF k
    <3>. QED BY <2>1, NextCodes
  <2>b. k \in Nat
    BY <2>1
  <2>2. NextCode(w, k) \in Places /\ NextCode(w, k) > k
    <3> DEFINE n1 == NextCode(w, k)
    <3>. HIDE DEF n1, k
    <3>1. n1 \in Nat /\ n1 > k => n1 # 0
      BY <2>b
    <3>. QED BY <2>a, <3>1 DEF Places, n1
  <2>3. \A p \in Places : p > k => f[p] \in A
    BY <1>12
  <2>4. f[k] \in A
    <3>1. f[NextCode(w, k)] \in A
      BY <2>2, <2>3
    <3>2. Writes(w, k, f[NextCode(w, k)]) \in A
      BY <2>1, <3>1, WritesBytes
    <3>. HIDE DEF A
    <3>. QED BY <1>10, <2>1, <3>2
  <2>. HIDE DEF k, m, A
  <2>5. \A p \in Places : p > L - m => f[p] \in A
    <3>. SUFFICES ASSUME NEW p \in Places, p > L - m PROVE f[p] \in A
      OBVIOUS
    <3>1. p = k \/ p > k
      BY <2>1 DEF Places
    <3>. QED BY <2>3, <2>4, <3>1
  <2>. QED BY <2>1, <2>5 DEF m
<1>13. L \in T
  <2>. HIDE DEF T
  <2>1. 0 .. L \subseteq T
    BY <1>1, <1>11, <1>12, UpTo
  <2>. QED BY <1>1, <2>1
<1>14. \A p \in Places : f[p] \in A
  <2>. HIDE DEF A
  <2>. QED BY <1>1, <1>13 DEF Places
<1>. QED BY <1>10, <1>14 DEF f

-----------------------------------------------------------------------------
(* What the decoder makes of the beginning of an encoding. *)

Cl(x, n) == Encoding(x)[n].closed
Bl(x, n) == Encoding(x)[n].block

LEMMA EncoderIs ==
  ASSUME NEW x \in Seq(Bytes), NEW n \in 0 .. Len(x)
  PROVE  /\ Encoding(x)[n] \in Encoder
         /\ Cl(x, n) \in Seq(Bytes) /\ Bl(x, n) \in Seq(Bytes)
         /\ Len(Cl(x, n)) \in Nat /\ Len(Bl(x, n)) \in Nat /\ Len(Bl(x, n)) < MaxCode
<1>1. Encoding(x)[n] \in Encoder
  BY EncodingLoop
<1>2. /\ Cl(x, n) \in Seq(Bytes) /\ Bl(x, n) \in Seq(Bytes) /\ Len(Bl(x, n)) < MaxCode
  BY <1>1 DEF Encoder, Cl, Bl
<1>. QED BY <1>1, <1>2, LenProperties

LEMMA EncodingStep ==
  ASSUME NEW x \in Seq(Bytes), NEW n \in 0 .. Len(x) - 1, NEW m, m = n + 1
  PROVE  \/ Cl(x, m) = Cl(x, n) /\ Bl(x, m) = Append(Bl(x, n), x[m])
         \/ /\ Cl(x, m) = Closed(Encoding(x)[n]) /\ Bl(x, m) = << >>
            /\ x[m] = 0 /\ Len(Bl(x, n)) + 1 # MaxCode
         \/ /\ Cl(x, m) = Closed(Encoding(x)[n]) /\ Bl(x, m) = <<x[m]>>
            /\ Len(Bl(x, n)) + 1 = MaxCode
<1> DEFINE s == Encoding(x)[n]
           t == Encoding(x)[m]
           e == EncodeByte(s, x[m])
<1>0. Len(x) \in Nat /\ \A i \in 1 .. Len(x) : x[i] \in Bytes
  BY LenProperties, ElementOfSeq
<1>1. m \in 1 .. Len(x) /\ m - 1 = n /\ n \in 0 .. Len(x)
  BY <1>0
<1>2. t = e /\ s \in Encoder /\ x[m] \in Bytes
  BY <1>0, <1>1, EncodingLoop
<1>. HIDE DEF s, t, e
<1>3. \/ /\ e = [closed |-> s.closed, block |-> Append(s.block, x[m])]
      \/ /\ e = [closed |-> Closed(s), block |-> << >>]
         /\ x[m] = 0 /\ Len(s.block) + 1 # MaxCode
      \/ /\ e = [closed |-> Closed(s), block |-> <<x[m]>>]
         /\ Len(s.block) + 1 = MaxCode
  BY <1>2, EncodeByteIs DEF e
<1>4. \/ t.closed = s.closed /\ t.block = Append(s.block, x[m])
      \/ /\ t.closed = Closed(s) /\ t.block = << >>
         /\ x[m] = 0 /\ Len(s.block) + 1 # MaxCode
      \/ /\ t.closed = Closed(s) /\ t.block = <<x[m]>>
         /\ Len(s.block) + 1 = MaxCode
  BY <1>2, <1>3
<1>. QED BY <1>4 DEF s, t, Cl, Bl

\* The bytes after the last code word are the last ones read.
LEMMA BlockIs ==
  ASSUME NEW x \in Seq(Bytes)
  PROVE  \A n \in 0 .. Len(x) :
           /\ Len(Bl(x, n)) =< n
           /\ Bl(x, n) = SubSeq(x, n - Len(Bl(x, n)) + 1, n)
<1> DEFINE Ok(n) == /\ Len(Bl(x, n)) =< n
                    /\ Bl(x, n) = SubSeq(x, n - Len(Bl(x, n)) + 1, n)
           T == {n \in 0 .. Len(x) : Ok(n)}
<1>0. Len(x) \in Nat /\ \A i \in 1 .. Len(x) : x[i] \in Bytes
  BY LenProperties, ElementOfSeq
<1>1. 0 \in T
  <2>1. Encoding(x)[0] = Empty
    BY EncodingLoop
  <2>2. Bl(x, 0) = << >>
    BY <2>1 DEF Bl, Empty
  <2>3. SubSeq(x, 0 - 0 + 1, 0) = << >>
    BY SubSeqEmpty
  <2>4. Len(Bl(x, 0)) = 0
    BY <2>2
  <2>5. 0 - Len(Bl(x, 0)) + 1 = 0 - 0 + 1 /\ Len(Bl(x, 0)) =< 0
    BY <2>4
  <2>6. Ok(0)
    BY <2>2, <2>3, <2>5
  <2>7. 0 \in 0 .. Len(x)
    BY <1>0
  <2>. HIDE DEF Ok
  <2>. QED BY <2>6, <2>7
<1>2. ASSUME NEW n \in 0 .. Len(x) - 1, n \in T PROVE n + 1 \in T
  <2> DEFINE m == n + 1
             l == Len(Bl(x, n))
  <2>1. m \in 0 .. Len(x) /\ m \in 1 .. Len(x) /\ m - 1 = n /\ n \in 0 .. Len(x) /\ n \in Nat
        /\ m = n + 1
    BY <1>0
  <2>. HIDE DEF m
  <2>2. l \in Nat /\ l =< n /\ Bl(x, n) = SubSeq(x, n - l + 1, n) /\ Bl(x, n) \in Seq(Bytes)
    BY <1>2, <2>1, EncoderIs
  <2>. HIDE DEF l
  <2>3. CASE Bl(x, m) = Append(Bl(x, n), x[m])
    <3> DEFINE k == n - l + 1
    <3>1. k \in 1 .. Len(x) /\ m \in k .. Len(x)
      BY <1>0, <2>1, <2>2
    <3>. HIDE DEF k
    <3>2. SubSeq(x, k, m) = SubSeq(x, k, m - 1) \o <<x[m]>>
      BY <3>1, SubSeqRecursiveSecond
    <3>3. Append(Bl(x, n), x[m]) = Bl(x, n) \o <<x[m]>>
      BY <2>2
    <3>4. Bl(x, m) = SubSeq(x, k, m)
      BY <2>1, <2>2, <2>3, <3>2, <3>3 DEF k
    <3>5. Len(Bl(x, m)) = l + 1
      BY <2>2, <2>3, AppendProperties DEF l
    <3>6. m - (l + 1) + 1 = k /\ l + 1 =< m
      BY <2>1, <2>2 DEF k
    <3>7. Ok(m)
      BY <3>4, <3>5, <3>6
    <3>. QED BY <2>1, <3>7 DEF m
  <2>4. CASE Bl(x, m) = << >>
    <3>1. SubSeq(x, m + 1, m) = << >>
      BY <2>1, SubSeqEmpty
    <3>2. Len(Bl(x, m)) = 0 /\ m - 0 + 1 = m + 1 /\ 0 =< m
      BY <2>1, <2>4
    <3>3. Ok(m)
      BY <2>4, <3>1, <3>2
    <3>. QED BY <2>1, <3>3 DEF m
  <2>5. CASE Bl(x, m) = <<x[m]>>
    <3>0. m \in m .. Len(x)
      BY <1>0, <2>1
    <3>1. SubSeq(x, m, m) = SubSeq(x, m, m - 1) \o <<x[m]>>
      BY <2>1, <3>0, SubSeqRecursiveSecond
    <3>2. SubSeq(x, m, m - 1) = << >>
      BY <2>1, SubSeqEmpty
    <3>3. << >> \o <<x[m]>> = <<x[m]>>
      OBVIOUS
    <3>4. Len(Bl(x, m)) = 1 /\ m - 1 + 1 = m /\ 1 =< m
      BY <2>1, <2>5
    <3>5. Ok(m)
      BY <2>5, <3>1, <3>2, <3>3, <3>4
    <3>. QED BY <2>1, <3>5 DEF m
  <2>. QED BY <2>1, <2>3, <2>4, <2>5, EncodingStep
<1>3. 0 .. Len(x) \subseteq T
  <2>. HIDE DEF T
  <2>. QED BY <1>0, <1>1, <1>2, UpTo
<1>. QED BY <1>3

\* s is how t begins.
Begins(s, t) == Len(s) =< Len(t) /\ \A i \in 1 .. Len(s) : t[i] = s[i]

LEMMA BeginsTransitive ==
  ASSUME NEW s \in Seq(Bytes), NEW t \in Seq(Bytes), NEW u \in Seq(Bytes), Begins(s, t), Begins(t, u)
  PROVE  Begins(s, u)
<1>1. Len(s) \in Nat /\ Len(t) \in Nat /\ Len(u) \in Nat
  BY LenProperties
<1>. QED BY <1>1 DEF Begins

LEMMA ClosedBegins ==
  ASSUME NEW acc \in Encoder
  PROVE  Begins(acc.closed, Closed(acc))
<1> DEFINE a == acc.closed
           b == acc.block
           c == Closed(acc)
<1>1. a \in Seq(Bytes) /\ b \in Seq(Bytes)
  BY DEF Encoder
<1>2. Len(a) \in Nat /\ Len(b) \in Nat
  BY <1>1, LenProperties
<1>3. Len(c) = Len(a) + 1 + Len(b) /\ \A i \in 1 .. Len(a) : c[i] = a[i]
  BY ClosedIs
<1>. HIDE DEF a, b, c
<1>4. Len(a) =< Len(c)
  BY <1>2, <1>3
<1>5. Begins(a, c)
  BY <1>3, <1>4 DEF Begins
<1>. QED BY <1>5 DEF a, c

\* What is closed stays.
LEMMA ClosedStays ==
  ASSUME NEW x \in Seq(Bytes), NEW n \in 0 .. Len(x)
  PROVE  \A m \in n .. Len(x) : Begins(Cl(x, n), Cl(x, m))
<1> DEFINE D == Len(x) - n
           T == {d \in 0 .. D : Begins(Cl(x, n), Cl(x, n + d))}
<1>0. Len(x) \in Nat /\ D \in Nat /\ n \in Nat
  BY LenProperties
<1>1. 0 \in T
  <2>1. n + 0 = n /\ Len(Cl(x, n)) \in Nat
    BY <1>0, EncoderIs
  <2>2. Begins(Cl(x, n), Cl(x, n))
    BY <2>1 DEF Begins
  <2>. QED BY <1>0, <2>1, <2>2
<1>2. ASSUME NEW d \in 0 .. D - 1, d \in T PROVE d + 1 \in T
  <2> DEFINE k == n + d
             m == k + 1
  <2>1. /\ k \in 0 .. Len(x) - 1 /\ k \in 0 .. Len(x) /\ m = k + 1 /\ m \in 0 .. Len(x)
        /\ n + (d + 1) = m /\ d + 1 \in 0 .. D
    BY <1>0
  <2>. HIDE DEF k, m
  <2>2. Begins(Cl(x, n), Cl(x, k))
    BY <1>2 DEF k
  <2>3. Begins(Cl(x, k), Cl(x, m))
    <3>1. Cl(x, m) = Cl(x, k) \/ Cl(x, m) = Closed(Encoding(x)[k])
      BY <2>1, EncodingStep
    <3>2. Begins(Cl(x, k), Closed(Encoding(x)[k]))
      BY <2>1, EncoderIs, ClosedBegins DEF Cl
    <3>3. Begins(Cl(x, k), Cl(x, k))
      <4>1. Len(Cl(x, k)) \in Nat
        BY <2>1, EncoderIs
      <4>. QED BY <4>1 DEF Begins
    <3>. QED BY <3>1, <3>2, <3>3
  <2>4. Begins(Cl(x, n), Cl(x, m))
    <3>1. Cl(x, n) \in Seq(Bytes) /\ Cl(x, k) \in Seq(Bytes) /\ Cl(x, m) \in Seq(Bytes)
      BY <2>1, EncoderIs
    <3>. QED BY <2>2, <2>3, <3>1, BeginsTransitive
  <2>. QED BY <2>1, <2>4
<1>3. 0 .. D \subseteq T
  <2>. HIDE DEF T
  <2>. QED BY <1>0, <1>1, <1>2, UpTo
<1>. TAKE m \in n .. Len(x)
<1> DEFINE d == m - n
<1>4. d \in 0 .. D /\ n + d = m
  BY <1>0
<1>. HIDE DEF d, D
<1>5. d \in T
  BY <1>3, <1>4
<1>. QED BY <1>4, <1>5

\* The block that the decoder finds behind what is closed.
LEMMA BlockDecoded ==
  ASSUME NEW acc \in Encoder, NEW w \in Seq(Bytes), NEW p, p = Len(acc.closed) + 1,
         p =< Len(w), w[p] = Len(acc.block) + 1
  PROVE  /\ NextCode(w, p) = Len(Closed(acc)) + 1
         /\ NextCode(w, p) - p = Len(acc.block) + 1
<1> DEFINE a == Len(acc.closed)
           b == Len(acc.block)
           c == Len(Closed(acc))
<1>1. a \in Nat /\ b \in Nat
  BY LenProperties DEF Encoder
<1>2. c = a + 1 + b
  BY ClosedIs
<1>3. p = a + 1 /\ w[p] = b + 1
  OBVIOUS
<1>. HIDE DEF a, b, c
<1>4. w[p] # 0
  BY <1>1, <1>3
<1>5. NextCode(w, p) = p + w[p]
  BY <1>4 DEF NextCode
<1> DEFINE n == NextCode(w, p)
<1>6. n = (a + 1) + (b + 1)
  BY <1>3, <1>5
<1>. HIDE DEF n
<1>7. n = c + 1 /\ n - (a + 1) = b + 1
  BY <1>1, <1>2, <1>6
<1>. QED BY <1>3, <1>7 DEF b, c, n

LEMMA BlockCopied ==
  ASSUME NEW acc \in Encoder, NEW w \in Seq(Bytes), NEW p, p = Len(acc.closed) + 1,
         Begins(Closed(acc), w)
  PROVE  /\ p =< Len(w) /\ w[p] = Len(acc.block) + 1
         /\ SubSeq(w, p + 1, Len(Closed(acc))) = acc.block
<1> DEFINE a == Len(acc.closed)
           blk == acc.block
           b == Len(blk)
           cl == Closed(acc)
           c == Len(cl)
<1>1. a \in Nat /\ b \in Nat /\ blk \in Seq(Bytes) /\ Len(w) \in Nat
  BY LenProperties DEF Encoder
<1>2. /\ c = a + 1 + b /\ cl[a + 1] = b + 1
      /\ \A i \in 1 .. b : cl[a + 1 + i] = blk[i]
  BY ClosedIs
<1>3. c =< Len(w) /\ \A i \in 1 .. c : w[i] = cl[i]
  BY DEF Begins
<1>4. p = a + 1
  OBVIOUS
<1> DEFINE m == p + 1
           s == SubSeq(w, m, c)
<1>. HIDE DEF a, blk, cl, c
<1>5. p =< Len(w) /\ p \in 1 .. c /\ w[p] = b + 1
  <2>1. p \in 1 .. c /\ p =< Len(w)
    BY <1>1, <1>2, <1>3, <1>4
  <2>. QED BY <1>2, <1>3, <1>4, <2>1
<1>a. m = a + 2
  BY <1>1, <1>4
<1>. HIDE DEF b, m
<1>6. m \in Int /\ c \in Int /\ 1 =< m /\ c =< Len(w) /\ c - m + 1 = b
      /\ (m =< c <=> b > 0)
  BY <1>1, <1>2, <1>3, <1>a
<1>7. /\ s \in Seq(Bytes) /\ Len(s) = IF m =< c THEN c - m + 1 ELSE 0
      /\ \A i \in 1 .. c - m + 1 : s[i] = w[m + i - 1]
  BY <1>6, Part
<1>8. Len(s) = b
  BY <1>1, <1>6, <1>7
<1>. HIDE DEF s
<1>9. ASSUME NEW i \in 1 .. b PROVE s[i] = blk[i]
  <2>1. s[i] = w[m + i - 1]
    BY <1>6, <1>7
  <2>2. m + i - 1 = a + 1 + i /\ a + 1 + i \in 1 .. c
    BY <1>1, <1>2, <1>a
  <2>. QED BY <1>2, <1>3, <2>1, <2>2
<1>10. s = blk
  <2>1. Len(s) = Len(blk)
    BY <1>8 DEF b
  <2>2. \A i \in 1 .. Len(s) : s[i] = blk[i]
    BY <1>8, <1>9
  <2>. QED BY <1>1, <1>7, <2>1, <2>2, SeqEqual
<1>11. s = acc.block /\ b = Len(acc.block) /\ c = Len(Closed(acc))
  BY <1>10 DEF b, blk, c, cl
<1>12. SubSeq(w, p + 1, Len(Closed(acc))) = acc.block
  BY <1>11 DEF s, m
<1>. QED BY <1>5, <1>11, <1>12

-----------------------------------------------------------------------------
(* From block to block. *)

\* The decoder has written what the closed blocks stand for and is behind them.
Decoded(w, x, n) ==
  /\ Past(w)[1] = Past(w)[Len(Cl(x, n)) + 1]
  /\ Output(w)[1] = SubSeq(x, 1, n - Len(Bl(x, n))) \o Output(w)[Len(Cl(x, n)) + 1]

BlockRead(acc, w, p, q) ==
  /\ p \in Places /\ q \in Places /\ p =< Len(w) /\ q =< Len(w) + 1 /\ q \in Nat
  /\ Past(w)[p] = Past(w)[q]
  /\ Output(w)[p] = acc.block \o (IF q = Len(w) + 1 THEN << >>
                                  ELSE (IF Len(acc.block) + 1 = MaxCode THEN << >> ELSE <<0>>)
                                         \o Output(w)[q])

\* The decoder at the code word of a block that is there as a whole.
LEMMA BlockStep ==
  ASSUME NEW acc \in Encoder, NEW w \in Seq(Bytes), Begins(Closed(acc), w),
         NEW p, p = Len(acc.closed) + 1, NEW q, q = Len(Closed(acc)) + 1
  PROVE  BlockRead(acc, w, p, q)
<1> DEFINE a == Len(acc.closed)
           c == Len(Closed(acc))
           L == Len(w)
<1>1. p =< L /\ w[p] = Len(acc.block) + 1 /\ SubSeq(w, p + 1, c) = acc.block
  BY BlockCopied
<1>2. NextCode(w, p) = q /\ NextCode(w, p) - p = Len(acc.block) + 1
  BY <1>1, BlockDecoded
<1>3. a \in Nat /\ c \in Nat /\ L \in Nat /\ c =< L
  <2>1. acc.closed \in Seq(Bytes) /\ Closed(acc) \in Seq(Bytes)
    BY ClosedIs DEF Encoder
  <2>2. c =< L
    BY DEF Begins
  <2>. QED BY <2>1, <2>2, LenProperties
<1>4. p = a + 1 /\ q = c + 1
  OBVIOUS
<1>. HIDE DEF a, c, L
<1>5. /\ p \in Nat /\ p # 0 /\ q \in Nat /\ q # 0 /\ q =< L + 1 /\ q - 1 = c
      /\ ~(p > L)
  BY <1>1, <1>3, <1>4
<1>6. p \in Places /\ q \in Places
  BY <1>5 DEF Places
<1>7. Past(w)[p] = Past(w)[NextCode(w, p)]
  BY <1>5, <1>6, PastIs DEF L
<1>8. Output(w)[p] = Writes(w, p, Output(w)[NextCode(w, p)])
  BY <1>5, <1>6, OutputIs DEF L
<1> DEFINE o == Output(w)[q]
<1>9. Output(w)[p] = Writes(w, p, o)
  BY <1>2, <1>8
<1>. HIDE DEF o
<1>10. Zero(w, p) = IF Len(acc.block) + 1 = MaxCode THEN << >> ELSE <<0>>
  BY <1>2 DEF Zero
<1>11. Writes(w, p, o) = SubSeq(w, p + 1, c) \o (IF q = L + 1 THEN << >> ELSE Zero(w, p) \o o)
  BY <1>2, <1>5 DEF Writes, L
<1>12. Output(w)[p] = acc.block \o (IF q = L + 1 THEN << >> ELSE Zero(w, p) \o o)
  BY <1>1, <1>9, <1>11
<1>. QED BY <1>1, <1>2, <1>5, <1>6, <1>7, <1>10, <1>12 DEF L, o, BlockRead

Associates(s, t, u) == (s \o t) \o u = s \o (t \o u)

LEMMA Associative ==
  ASSUME NEW S, NEW s \in Seq(S), NEW t \in Seq(S), NEW u \in Seq(S)
  PROVE  Associates(s, t, u)
BY ConcatAssociative DEF Associates

Regrouped(s, t, u, z, o) == s \o (t \o (z \o o)) = (u \o z) \o o

LEMMA Regroup ==
  ASSUME NEW S, NEW s \in Seq(S), NEW t \in Seq(S), NEW u \in Seq(S), NEW z \in Seq(S),
         NEW o \in Seq(S), s \o t = u
  PROVE  Regrouped(s, t, u, z, o)
<1>1. z \o o \in Seq(S)
  BY Join
<1> DEFINE e == z \o o
<1>2. e \in Seq(S)
  BY <1>1
<1>. HIDE DEF e
<1>3. Associates(s, t, e) /\ Associates(u, z, o)
  BY <1>2, Associative
<1>4. (s \o t) \o e = s \o (t \o e)
  BY <1>3 DEF Associates
<1>5. (u \o z) \o o = u \o (z \o o)
  BY <1>3 DEF Associates
<1>6. s \o (t \o e) = (u \o z) \o o
  BY <1>4, <1>5 DEF e
<1>. QED BY <1>6 DEF Regrouped, e

\* Three parts of a message, and what follows.
LEMMA Parts ==
  ASSUME NEW S, NEW x \in Seq(S), NEW n \in 0 .. Len(x), NEW l \in 0 .. n,
         NEW z \in Seq(S), NEW o \in Seq(S)
  PROVE  Regrouped(SubSeq(x, 1, n - l), SubSeq(x, n - l + 1, n), SubSeq(x, 1, n), z, o)
<1> DEFINE k == n - l
           s == SubSeq(x, 1, k)
           m == k + 1
           t == SubSeq(x, m, n)
           u == SubSeq(x, 1, n)
<1>1. Len(x) \in Nat /\ n \in Nat /\ \A i \in 1 .. Len(x) : x[i] \in S
  BY LenProperties, ElementOfSeq
<1>2. k \in 0 .. n /\ k \in Int /\ n \in Int /\ m \in Int /\ k =< Len(x) /\ n =< Len(x) /\ 1 =< m
  BY <1>1
<1>3. s \o t = u
  <2>1. 1 \in 1 .. Len(x) + 1 /\ k \in 1 - 1 .. Len(x) /\ n \in k .. Len(x)
    BY <1>1, <1>2
  <2>. HIDE DEF k
  <2>. QED BY <2>1, ConcatAdjacentSubSeq
<1>4. s \in Seq(S) /\ t \in Seq(S) /\ u \in Seq(S)
  <2>. HIDE DEF k, m
  <2>1. 1 \in Int /\ 1 =< 1
    OBVIOUS
  <2>2. s \in Seq(S)
    BY <1>2, <2>1, Part
  <2>3. t \in Seq(S)
    BY <1>2, Part
  <2>4. u \in Seq(S)
    BY <1>2, <2>1, Part
  <2>. QED BY <2>2, <2>3, <2>4
<1>. HIDE DEF s, t, u
<1>5. Regrouped(s, t, u, z, o)
  BY <1>3, <1>4, Regroup
<1>. QED BY <1>5 DEF s, t, u, m, k

\* A closed block takes the decoder on.
LEMMA DecodedStep ==
  ASSUME NEW x \in Seq(Bytes), NEW w \in Seq(Bytes), NEW n \in 0 .. Len(x) - 1,
         NEW m, m = n + 1, Decoded(w, x, n), Cl(x, m) = Closed(Encoding(x)[n]),
         Begins(Cl(x, m), w), Len(Cl(x, m)) < Len(w),
         \/ Bl(x, m) = << >> /\ x[m] = 0 /\ Len(Bl(x, n)) + 1 # MaxCode
         \/ Bl(x, m) = <<x[m]>> /\ Len(Bl(x, n)) + 1 = MaxCode
  PROVE  Decoded(w, x, m)
<1> DEFINE acc == Encoding(x)[n]
           l == Len(Bl(x, n))
           p == Len(Cl(x, n)) + 1
           q == Len(Cl(x, m)) + 1
           z == IF l + 1 = MaxCode THEN << >> ELSE <<0>>
           o == Output(w)[q]
           S == Memory(w)
           s == SubSeq(x, 1, n - l)
<1>1. /\ n \in 0 .. Len(x) /\ n \in Nat /\ Len(x) \in Nat /\ m \in 1 .. Len(x) /\ m - 1 = n
      /\ Len(w) \in Nat
  BY LenProperties
<1>2. /\ acc \in Encoder /\ acc.closed = Cl(x, n) /\ acc.block = Bl(x, n)
      /\ l \in Nat /\ l =< n /\ Bl(x, n) = SubSeq(x, n - l + 1, n)
  BY <1>1, EncoderIs, BlockIs DEF Cl, Bl
<1>. HIDE DEF acc, l, p, q
<1>3. BlockRead(acc, w, p, q)
  <2>1. acc \in Encoder /\ Begins(Closed(acc), w) /\ p = Len(acc.closed) + 1
        /\ q = Len(Closed(acc)) + 1
    BY <1>2 DEF acc, p, q
  <2>. QED BY <2>1, BlockStep
<1>12. p \in Places /\ q \in Places /\ q \in Nat /\ Past(w)[p] = Past(w)[q]
  BY <1>3 DEF BlockRead
<1>4. q # Len(w) + 1
  <2>1. Len(Cl(x, m)) \in Nat
    BY <1>1, EncoderIs
  <2>2. Len(Cl(x, m)) + 1 # Len(w) + 1
    BY <1>1, <2>1
  <2>. QED BY <2>2 DEF q
<1>5. Output(w)[p] = SubSeq(x, n - l + 1, n) \o (z \o o)
  BY <1>2, <1>3, <1>4 DEF l, BlockRead
<1>6. Past(w)[1] = Past(w)[q] /\ Output(w)[1] = s \o Output(w)[p]
  BY <1>12 DEF Decoded, p, l
<1>7. x \in Seq(S) /\ z \in Seq(S) /\ o \in Seq(S)
  <2>1. Bytes \subseteq S /\ 0 \in S
    BY DEF Memory, Bytes
  <2>2. o \in Seq(S)
    BY <1>12, OutputIs
  <2>. HIDE DEF S
  <2>3. x \in Seq(S)
    BY <2>1, SeqMonotonic
  <2>. QED BY <2>1, <2>2, <2>3
<1>8. Regrouped(s, SubSeq(x, n - l + 1, n), SubSeq(x, 1, n), z, o)
  <2>1. n \in 0 .. Len(x) /\ l \in 0 .. n
    BY <1>1, <1>2
  <2>. HIDE DEF z, o, S
  <2>. QED BY <1>7, <2>1, Parts
<1>9. Output(w)[1] = (SubSeq(x, 1, n) \o z) \o o
  BY <1>5, <1>6, <1>8 DEF Regrouped
<1>10. SubSeq(x, 1, n) \o z = SubSeq(x, 1, m - Len(Bl(x, m)))
  <2>1. SubSeq(x, 1, n) \in Seq(Bytes)
    <3>1. 1 \in Int /\ n \in Int /\ 1 =< 1 /\ n =< Len(x)
      BY <1>1
    <3>. QED BY <3>1, Part
  <2>2. CASE Bl(x, m) = << >> /\ x[m] = 0 /\ l + 1 # MaxCode
    <3>1. 1 \in 1 .. Len(x) /\ m \in 1 .. Len(x)
      BY <1>1
    <3>2. SubSeq(x, 1, m) = SubSeq(x, 1, m - 1) \o <<x[m]>>
      BY <3>1, SubSeqRecursiveSecond
    <3>3. m - Len(Bl(x, m)) = m
      BY <1>1, <2>2
    <3>. QED BY <1>1, <2>2, <3>2, <3>3
  <2>3. CASE Bl(x, m) = <<x[m]>> /\ l + 1 = MaxCode
    <3>1. m - Len(Bl(x, m)) = n
      BY <1>1, <2>3
    <3>2. SubSeq(x, 1, n) \o << >> = SubSeq(x, 1, n)
      BY <2>1, ConcatEmptySeq
    <3>. QED BY <2>3, <3>1, <3>2
  <2>. QED BY <2>2, <2>3 DEF l
<1>11. Output(w)[1] = SubSeq(x, 1, m - Len(Bl(x, m))) \o o
  BY <1>9, <1>10
<1>. QED BY <1>6, <1>11 DEF Decoded, q

-----------------------------------------------------------------------------
(* The decoder on the beginning of an encoding. *)

LEMMA DecodedUpTo ==
  ASSUME NEW x \in Seq(Bytes), NEW w \in Seq(Bytes)
  PROVE  \A n \in 0 .. Len(x) :
           Begins(Cl(x, n), w) /\ Len(Cl(x, n)) < Len(w) => Decoded(w, x, n)
<1> DEFINE T == {n \in 0 .. Len(x) :
                   Begins(Cl(x, n), w) /\ Len(Cl(x, n)) < Len(w) => Decoded(w, x, n)}
<1>0. Len(x) \in Nat /\ Len(w) \in Nat
  BY LenProperties
<1>1. 0 \in T
  <2>1. Encoding(x)[0] = Empty
    BY EncodingLoop
  <2>2. Cl(x, 0) = << >> /\ Bl(x, 0) = << >>
    BY <2>1 DEF Cl, Bl, Empty
  <2>3. Len(Cl(x, 0)) + 1 = 1 /\ 0 - Len(Bl(x, 0)) = 0
    BY <2>2
  <2>4. SubSeq(x, 1, 0) = << >>
    BY SubSeqEmpty
  <2>5. Output(w)[1] \in Seq(Memory(w))
    BY OutputIs DEF Places
  <2>6. << >> \o Output(w)[1] = Output(w)[1]
    BY <2>5, ConcatEmptySeq
  <2>7. Decoded(w, x, 0)
    BY <2>3, <2>4, <2>6 DEF Decoded
  <2>. QED BY <1>0, <2>7
<1>2. ASSUME NEW n \in 0 .. Len(x) - 1, n \in T PROVE n + 1 \in T
  <2> DEFINE m == n + 1
             l == Len(Bl(x, n))
  <2>1. m \in 0 .. Len(x) /\ n \in 0 .. Len(x) /\ m = n + 1 /\ n \in Nat
    BY <1>0
  <2>. HIDE DEF m
  <2>2. SUFFICES ASSUME Begins(Cl(x, m), w), Len(Cl(x, m)) < Len(w) PROVE Decoded(w, x, m)
    BY <2>1 DEF m
  <2>3. l \in Nat /\ Bl(x, n) \in Seq(Bytes) /\ Len(Cl(x, n)) \in Nat /\ Len(Cl(x, m)) \in Nat
        /\ Cl(x, n) \in Seq(Bytes) /\ Cl(x, m) \in Seq(Bytes)
    BY <2>1, EncoderIs
  <2>. HIDE DEF l
  <2>4. CASE Cl(x, m) = Cl(x, n) /\ Bl(x, m) = Append(Bl(x, n), x[m])
    <3>1. Len(Bl(x, m)) = l + 1
      BY <2>3, <2>4, AppendProperties DEF l
    <3>2. m - (l + 1) = n - l
      BY <2>1, <2>3
    <3>3. Decoded(w, x, n)
      BY <1>2, <2>1, <2>2, <2>4
    <3>. QED BY <2>4, <3>1, <3>2, <3>3 DEF Decoded, l
  <2>5. CASE /\ Cl(x, m) = Closed(Encoding(x)[n])
             /\ \/ Bl(x, m) = << >> /\ x[m] = 0 /\ Len(Bl(x, n)) + 1 # MaxCode
                \/ Bl(x, m) = <<x[m]>> /\ Len(Bl(x, n)) + 1 = MaxCode
    <3>1. Encoding(x)[n] \in Encoder
      BY <2>1, EncoderIs
    <3>2. Begins(Cl(x, n), Cl(x, m))
      BY <2>5, <3>1, ClosedBegins DEF Cl
    <3>3. Begins(Cl(x, n), w)
      BY <2>2, <2>3, <3>2, BeginsTransitive
    <3>4. Len(Cl(x, n)) =< Len(Cl(x, m))
      BY <3>2 DEF Begins
    <3>5. Len(Cl(x, n)) < Len(w)
      BY <1>0, <2>2, <2>3, <3>4
    <3>6. Decoded(w, x, n)
      BY <1>2, <2>1, <3>3, <3>5
    <3>. QED BY <2>1, <2>2, <2>5, <3>6, DecodedStep
  <2>. QED BY <2>1, <2>4, <2>5, EncodingStep
<1>3. 0 .. Len(x) \subseteq T
  <2>. HIDE DEF T
  <2>. QED BY <1>0, <1>1, <1>2, UpTo
<1>. QED BY <1>3

LEMMA BeginsShorter ==
  ASSUME NEW s \in Seq(Bytes), NEW t \in Seq(Bytes), NEW u \in Seq(Bytes),
         Begins(s, u), Begins(t, u), Len(s) =< Len(t)
  PROVE  Begins(s, t)
<1>1. Len(s) \in Nat /\ Len(t) \in Nat
  BY LenProperties
<1>2. \A i \in 1 .. Len(s) : i \in 1 .. Len(t)
  BY <1>1
<1>. QED BY <1>2 DEF Begins

\* The last block that w has the code word of.
LastBlock(x, w, n) ==
  /\ n \in 0 .. Len(x)
  /\ Begins(Cl(x, n), w) /\ Len(Cl(x, n)) < Len(w)
  /\ Begins(w, Closed(Encoding(x)[n]))
  /\ Len(w) = Len(Cobs_encode(x)) => n = Len(x)

LEMMA HasLastBlock ==
  ASSUME NEW x \in Seq(Bytes), NEW w \in Seq(Bytes), w # << >>, Begins(w, Cobs_encode(x))
  PROVE  \E n \in 0 .. Len(x) : LastBlock(x, w, n)
<1> DEFINE N == Len(x)
           e == Cobs_encode(x)
           I == {n \in 0 .. N : Len(Cl(x, n)) < Len(w)}
<1>0. N \in Nat /\ Len(w) \in Nat /\ Len(w) > 0 /\ e \in Seq(Bytes) /\ Len(e) \in Nat
  BY LenProperties, EncodedBytes, EmptySeq
<1>1. 0 \in I
  <2>1. Encoding(x)[0] = Empty
    BY EncodingLoop
  <2>2. Len(Cl(x, 0)) = 0
    BY <2>1 DEF Cl, Empty
  <2>. QED BY <1>0, <2>2
<1>2. \A n \in 0 .. N : Begins(Cl(x, n), e)
  <2>. TAKE n \in 0 .. N
  <2>1. N \in n .. N /\ N \in 0 .. N
    BY <1>0
  <2>2. Begins(Cl(x, n), Cl(x, N))
    BY <2>1, ClosedStays
  <2>3. Begins(Cl(x, N), e)
    BY <2>1, EncoderIs, ClosedBegins DEF Cl, Cobs_encode
  <2>4. Cl(x, n) \in Seq(Bytes) /\ Cl(x, N) \in Seq(Bytes)
    BY <2>1, EncoderIs
  <2>. HIDE DEF e, N
  <2>. QED BY <1>0, <2>2, <2>3, <2>4, BeginsTransitive
<1>3. PICK n \in I : n = N \/ n + 1 \notin I
  <2>1. CASE \A n \in 0 .. N - 1 : n \in I => n + 1 \in I
    <3>. HIDE DEF I, N
    <3>1. 0 .. N \subseteq I
      BY <1>0, <1>1, <2>1, UpTo
    <3>. QED BY <1>0, <3>1
  <2>2. CASE ~(\A n \in 0 .. N - 1 : n \in I => n + 1 \in I)
    <3>. HIDE DEF I
    <3>. QED BY <2>2
  <2>. QED BY <2>1, <2>2
<1> DEFINE q == Closed(Encoding(x)[n])
<1>4. n \in 0 .. N /\ Len(Cl(x, n)) < Len(w) /\ Cl(x, n) \in Seq(Bytes) /\ Encoding(x)[n] \in Encoder
  BY EncoderIs
<1>5. Begins(Cl(x, n), w)
  <2>1. Len(Cl(x, n)) =< Len(w)
    BY <1>0, <1>4, EncoderIs
  <2>2. Begins(Cl(x, n), e) /\ Begins(w, e)
    BY <1>2, <1>4
  <2>. HIDE DEF e
  <2>. QED BY <1>0, <1>4, <2>1, <2>2, BeginsShorter
<1>6. CASE n = N
  <2>1. q = e
    BY <1>6 DEF Cobs_encode
  <2>. QED BY <1>4, <1>5, <1>6, <2>1 DEF LastBlock
<1>7. CASE n # N /\ n + 1 \notin I
  <2> DEFINE m == n + 1
  <2>1. m \in 0 .. N /\ n \in 0 .. N - 1 /\ m \notin I
    BY <1>0, <1>4, <1>7
  <2>2. Len(Cl(x, m)) \in Nat /\ Cl(x, m) \in Seq(Bytes) /\ ~(Len(Cl(x, m)) < Len(w))
    BY <2>1, EncoderIs
  <2>3. Cl(x, m) # Cl(x, n)
    BY <1>4, <2>2
  <2>4. Cl(x, m) = q
    BY <2>1, <2>3, EncodingStep
  <2>5. Begins(w, q)
    <3>1. Begins(w, e) /\ Begins(q, e)
      BY <1>2, <2>1, <2>4
    <3>2. Len(w) =< Len(q) /\ q \in Seq(Bytes)
      BY <1>0, <2>2, <2>4
    <3>. HIDE DEF e, q
    <3>. QED BY <1>0, <3>1, <3>2, BeginsShorter
  <2>6. Len(w) # Len(e)
    <3> DEFINE a == Encoding(x)[N]
    <3>1. N \in m .. N /\ N \in 0 .. N
      BY <1>0, <2>1
    <3>2. Begins(Cl(x, m), Cl(x, N))
      BY <2>1, <3>1, ClosedStays
    <3>3. Len(Cl(x, m)) =< Len(Cl(x, N)) /\ Len(Cl(x, N)) \in Nat /\ a \in Encoder /\ Len(a.block) \in Nat
      BY <3>1, <3>2, EncoderIs DEF Begins, Bl
    <3>4. Len(e) = Len(Cl(x, N)) + 1 + Len(a.block)
      BY <3>3, ClosedIs DEF Cobs_encode, Cl
    <3> DEFINE cm == Len(Cl(x, m))
               cN == Len(Cl(x, N))
               b == Len(a.block)
    <3>5. /\ Len(e) = cN + 1 + b /\ cm =< cN /\ cm \in Nat /\ cN \in Nat /\ b \in Nat
          /\ ~(cm < Len(w)) /\ Len(w) \in Nat
      BY <1>0, <2>2, <3>3, <3>4
    <3>. HIDE DEF e, cm, cN, b
    <3>. QED BY <3>5
  <2>. QED BY <1>4, <1>5, <2>5, <2>6 DEF LastBlock
<1>. QED BY <1>3, <1>6, <1>7

\* What the decoder makes of it: the message up to there when the block is whole.
LEMMA DecodeAt ==
  ASSUME NEW x \in Seq(Bytes), NEW w \in Seq(Bytes), NEW n, LastBlock(x, w, n)
  PROVE  Cobs_decode(w) = IF Len(w) = Len(Closed(Encoding(x)[n])) THEN SubSeq(x, 1, n)
                          ELSE DecodeError
<1> DEFINE acc == Encoding(x)[n]
           cl == Closed(acc)
           p == Len(Cl(x, n)) + 1
           q == Len(cl) + 1
           L == Len(w)
           l == Len(Bl(x, n))
<1>1. /\ n \in 0 .. Len(x) /\ n \in Nat /\ Len(x) \in Nat
      /\ acc \in Encoder /\ acc.closed = Cl(x, n) /\ acc.block = Bl(x, n)
      /\ cl \in Seq(Bytes) /\ Len(cl) \in Nat /\ L \in Nat
      /\ l \in Nat /\ l =< n /\ Bl(x, n) = SubSeq(x, n - l + 1, n)
      /\ Len(Cl(x, n)) \in Nat
  <2>1. n \in 0 .. Len(x) /\ Len(x) \in Nat
    BY LenProperties DEF LastBlock
  <2>2. acc \in Encoder /\ acc.closed = Cl(x, n) /\ acc.block = Bl(x, n)
    BY <2>1, EncoderIs DEF Cl, Bl
  <2>3. cl \in Seq(Bytes)
    <3>. HIDE DEF acc
    <3>. QED BY <2>2, ClosedIs
  <2>. QED BY <2>1, <2>2, <2>3, EncoderIs, BlockIs, LenProperties
<1>2. Decoded(w, x, n)
  BY <1>1, DecodedUpTo DEF LastBlock
<1>3. L =< Len(cl) /\ Len(Cl(x, n)) < L /\ (\A i \in 1 .. L : cl[i] = w[i]) /\ w # << >>
  <2>1. Begins(w, cl) /\ Len(Cl(x, n)) < L
    BY DEF LastBlock
  <2>2. w # << >>
    BY <1>1, <2>1
  <2>. QED BY <2>1, <2>2 DEF Begins
<1>4. p \in 1 .. L /\ p \in Places /\ q \in Places /\ q \in Nat /\ q > L
  BY <1>1, <1>3 DEF Places
<1>5. w[p] = l + 1
  <2>1. cl[Len(acc.closed) + 1] = Len(acc.block) + 1
    <3>. HIDE DEF acc
    <3>. QED BY <1>1, ClosedIs
  <2>2. cl[p] = l + 1
    BY <1>1, <2>1
  <2>. HIDE DEF cl, p, l
  <2>. QED BY <1>3, <1>4, <2>2
<1>6. NextCode(w, p) = q
  <2>. HIDE DEF acc, L
  <2>1. p = Len(acc.closed) + 1 /\ p =< Len(w) /\ w[p] = Len(acc.block) + 1
    BY <1>1, <1>4, <1>5 DEF L
  <2>. HIDE DEF p
  <2>2. NextCode(w, p) = Len(Closed(acc)) + 1
    BY <1>1, <2>1, BlockDecoded
  <2>. QED BY <2>2 DEF q
<1>7. Past(w)[1] = q
  <2>1. Past(w)[1] = Past(w)[p]
    BY <1>2 DEF Decoded
  <2>2. Past(w)[p] = Past(w)[q]
    <3>1. ~(p > Len(w))
      BY <1>1, <1>4
    <3>. HIDE DEF p, q
    <3>. QED BY <1>4, <1>6, <3>1, PastIs
  <2>3. Past(w)[q] = q
    <3>. HIDE DEF q
    <3>. QED BY <1>4, PastIs DEF L
  <2>. QED BY <2>1, <2>2, <2>3
<1>8. CASE L # Len(cl)
  <2>1. q # L + 1
    BY <1>1, <1>8
  <2>. QED BY <1>7, <1>8, <2>1 DEF Cobs_decode
<1>9. CASE L = Len(cl)
  <2>1. q = L + 1
    BY <1>9
  <2>2. w = cl
    <3>. HIDE DEF cl
    <3>. QED BY <1>1, <1>3, <1>9, SeqEqual
  <2>3. Cobs_decode(w) = Output(w)[1]
    BY <1>3, <1>7, <2>1 DEF Cobs_decode
  <2>4. BlockRead(acc, w, p, q)
    <3>. HIDE DEF acc
    <3>1. Begins(Closed(acc), w) /\ p = Len(acc.closed) + 1 /\ q = Len(Closed(acc)) + 1
      BY <1>1, <2>2 DEF Begins
    <3>. HIDE DEF p, q
    <3>. QED BY <1>1, <3>1, BlockStep
  <2>5. Output(w)[p] = Bl(x, n) \o << >>
    BY <1>1, <2>1, <2>4 DEF BlockRead
  <2>6. Bl(x, n) \o << >> = Bl(x, n)
    BY <1>1, EncoderIs, ConcatEmptySeq
  <2>7. Output(w)[1] = SubSeq(x, 1, n - l) \o SubSeq(x, n - l + 1, n)
    BY <1>1, <1>2, <2>5, <2>6 DEF Decoded
  <2>8. SubSeq(x, 1, n - l) \o SubSeq(x, n - l + 1, n) = SubSeq(x, 1, n)
    <3> DEFINE k == n - l
    <3>1. 1 \in 1 .. Len(x) + 1 /\ k \in 1 - 1 .. Len(x) /\ n \in k .. Len(x)
      BY <1>1
    <3>. HIDE DEF k
    <3>2. SubSeq(x, 1, k) \o SubSeq(x, k + 1, n) = SubSeq(x, 1, n)
      BY <3>1, ConcatAdjacentSubSeq
    <3>. QED BY <3>2 DEF k
  <2>. QED BY <1>9, <2>3, <2>7, <2>8
<1>. QED BY <1>8, <1>9

\* Part of an encoding is either refused or the beginning of the message.
LEMMA DecodePart ==
  ASSUME NEW x \in Seq(Bytes), NEW w \in Seq(Bytes), w # << >>, Begins(w, Cobs_encode(x))
  PROVE  Cobs_decode(w) = DecodeError \/ \E n \in 0 .. Len(x) : Cobs_decode(w) = SubSeq(x, 1, n)
BY HasLastBlock, DecodeAt

\* Cobs_decode undoes Cobs_encode, for every message and every greatest code word: the byte
\* that closes a full block is not lost, though it may be a zero in the encoding.
THEOREM RoundTrip ==
  ASSUME NEW x \in Seq(Bytes)
  PROVE  Cobs_decode(Cobs_encode(x)) = x
<1> DEFINE e == Cobs_encode(x)
<1>1. e \in Seq(Bytes) /\ Len(e) > 0
  BY EncodedBytes
<1>2. Len(e) \in Nat /\ e # << >>
  BY <1>1, LenProperties
<1>3. Begins(e, e)
  BY <1>2 DEF Begins
<1>4. PICK n \in 0 .. Len(x) : LastBlock(x, e, n)
  BY <1>1, <1>2, <1>3, HasLastBlock
<1>5. n = Len(x) /\ e = Closed(Encoding(x)[n])
  BY <1>4 DEF LastBlock, Cobs_encode
<1>6. Cobs_decode(e) = SubSeq(x, 1, n)
  <2>. HIDE DEF e
  <2>. QED BY <1>1, <1>4, <1>5, DecodeAt
<1>. QED BY <1>5, <1>6, SubSeqFull

-----------------------------------------------------------------------------
(* The bytes that the deframer has and has not done with. *)

\* The frame it is in the middle of, from its delimiter on.
Opened(d) == IF d.state = "FIND_EOF" THEN <<Delimiter>> \o d.work ELSE << >>
Held(d) == Opened(d) \o d.fifo

WorkClear(d) == d.state = "FIND_EOF" => Clear(d.work, 1, Len(d.work))

\* A frame lies between the delimiters at h and k.
Encloses(z, h, k) ==
  /\ h \in 1 .. k - 1 /\ z[h] = Delimiter /\ z[k] = Delimiter
  /\ Clear(z, h + 1, k - 1)

\* A call is done with the first k bytes, and its message is the frame they end with.
DoneWith(z, r, k) ==
  /\ Held(r.d) = From(z, k) /\ WorkClear(r.d)
  /\ \/ r.msg = << >>
     \/ \E h \in 1 .. k - 1 :
          Encloses(z, h, k) /\ r.msg = Cobs_decode(SubSeq(z, h + 1, k - 1)) /\ r.msg # DecodeError

\* Some call is done with part of the bytes.
Finishes(z, r) == \E k \in 0 .. Len(z) : DoneWith(z, r, k)

LEMMA FromJoined ==
  ASSUME NEW p \in Seq(Bytes), NEW s \in Seq(Bytes), NEW a \in 0 .. Len(s), NEW k, k = Len(p) + a
  PROVE  From(p \o s, k) = From(s, a)
<1> DEFINE z == p \o s
           t == From(z, k)
           u == From(s, a)
<1>1. Len(p) \in Nat /\ Len(s) \in Nat
  BY LenProperties
<1>2. /\ z \in Seq(Bytes) /\ Len(z) = Len(p) + Len(s)
      /\ \A i \in 1 .. Len(s) : z[Len(p) + i] = s[i]
  BY Join
<1>. HIDE DEF z
<1>3. k \in 0 .. Len(z) /\ Len(z) - k = Len(s) - a /\ k \in Nat
  BY <1>1, <1>2
<1>4. /\ t \in Seq(Bytes) /\ Len(t) = Len(z) - k
      /\ \A i \in 1 .. Len(z) - k : t[i] = z[k + i]
  <2>1. 0 \in 0 .. Len(z) - k
    BY <1>1, <1>3
  <2>. QED BY <1>2, <1>3, <2>1, ClearFrom
<1>5. /\ u \in Seq(Bytes) /\ Len(u) = Len(s) - a
      /\ \A i \in 1 .. Len(s) - a : u[i] = s[a + i]
  <2>1. 0 \in 0 .. Len(s) - a
    BY <1>1
  <2>. QED BY <2>1, ClearFrom
<1>. HIDE DEF t, u
<1>6. Len(t) = Len(u)
  BY <1>3, <1>4, <1>5
<1>7. ASSUME NEW i \in 1 .. Len(t) PROVE t[i] = u[i]
  <2>1. i \in 1 .. Len(z) - k /\ i \in 1 .. Len(s) - a
    BY <1>3, <1>4
  <2>2. a + i \in 1 .. Len(s) /\ k + i = Len(p) + (a + i)
    BY <1>1, <2>1
  <2>. QED BY <1>2, <1>4, <1>5, <2>1, <2>2
<1>. QED BY <1>4, <1>5, <1>6, <1>7, SeqEqual DEF t, u, z

Joined(u, s, t) ==
  /\ u \in Seq(Bytes) /\ Len(u) = Len(s) + Len(t)
  /\ \A i \in 1 .. Len(s) : u[i] = s[i]
  /\ \A i \in 1 .. Len(t) : u[Len(s) + i] = t[i]

LEMMA JoinedIs ==
  ASSUME NEW s \in Seq(Bytes), NEW t \in Seq(Bytes)
  PROVE  Joined(s \o t, s, t)
BY Join DEF Joined

Middle(z, k, w, s, a) == SubSeq(z, 1 + 1, k - 1) = w \o SubSeq(s, 0 + 1, a - 1)

\* The middle of a frame that began in the work buffer.
LEMMA MiddleJoined ==
  ASSUME NEW e \in Bytes, NEW w \in Seq(Bytes), NEW s \in Seq(Bytes), NEW a \in 1 .. Len(s),
         NEW k, k = 1 + Len(w) + a, NEW p, Joined(p, <<e>>, w), NEW z, Joined(z, p, s)
  PROVE  Middle(z, k, w, s, a)
<1> DEFINE n == a - 1
           t == SubSeq(z, 2, k - 1)
           v == SubSeq(s, 1, n)
           u == w \o v
<1>1. Len(w) \in Nat /\ Len(s) \in Nat /\ n \in Nat /\ n =< Len(s) /\ n \in Int /\ 1 \in Int
  BY LenProperties
<1>2. Len(<<e>>) = 1
  OBVIOUS
<1>3. p \in Seq(Bytes) /\ Len(p) = 1 + Len(w) /\ \A i \in 1 .. Len(w) : p[1 + i] = w[i]
  BY <1>2 DEF Joined
<1>4. /\ z \in Seq(Bytes) /\ Len(z) = Len(p) + Len(s)
      /\ \A i \in 1 .. Len(p) : z[i] = p[i]
      /\ \A i \in 1 .. Len(s) : z[Len(p) + i] = s[i]
  BY DEF Joined
<1>. HIDE DEF n
<1>5. /\ v \in Seq(Bytes) /\ Len(v) = (IF 1 =< n THEN n - 1 + 1 ELSE 0)
      /\ \A i \in 1 .. n - 1 + 1 : v[i] = s[1 + i - 1]
  <2>1. 1 =< 1
    OBVIOUS
  <2>. QED BY <1>1, <2>1, Part
<1>6. Len(v) = n /\ \A i \in 1 .. n : v[i] = s[i]
  BY <1>1, <1>5
<1>. HIDE DEF v
<1>7. /\ u \in Seq(Bytes) /\ Len(u) = Len(w) + n
      /\ \A i \in 1 .. Len(w) : u[i] = w[i]
      /\ \A i \in 1 .. n : u[Len(w) + i] = v[i]
  <2>1. Joined(u, w, v)
    BY <1>5, JoinedIs
  <2>. HIDE DEF u
  <2>. QED BY <1>6, <2>1 DEF Joined
<1>. HIDE DEF u
<1>8. k - 1 \in Int /\ 2 \in Int /\ 1 =< 2 /\ k - 1 =< Len(z) /\ k - 1 - 2 + 1 = Len(w) + n
      /\ (2 =< k - 1 <=> Len(w) + n > 0)
  BY <1>1, <1>3, <1>4 DEF n
<1> DEFINE l == k - 1
<1>. HIDE DEF l
<1>9. /\ t \in Seq(Bytes) /\ Len(t) = (IF 2 =< l THEN l - 2 + 1 ELSE 0)
      /\ \A i \in 1 .. l - 2 + 1 : t[i] = z[2 + i - 1]
  <2>1. l \in Int /\ 2 \in Int /\ 1 =< 2 /\ l =< Len(z) /\ t = SubSeq(z, 2, l)
    BY <1>8 DEF l
  <2>. HIDE DEF t
  <2>. QED BY <1>4, <2>1, Part
<1>. HIDE DEF t
<1>10. Len(t) = Len(u)
  BY <1>1, <1>7, <1>8, <1>9 DEF l
<1>11. ASSUME NEW i \in 1 .. Len(t) PROVE t[i] = u[i]
  <2>1. i \in 1 .. Len(w) + n /\ i \in 1 .. l - 2 + 1 /\ 2 + i - 1 = 1 + i
    BY <1>7, <1>8, <1>9, <1>10 DEF l
  <2>2. t[i] = z[1 + i]
    BY <1>9, <2>1
  <2>3. CASE i \in 1 .. Len(w)
    <3>1. 1 + i \in 1 .. Len(p)
      BY <1>1, <1>3, <2>3
    <3>. QED BY <1>3, <1>4, <1>7, <2>2, <2>3, <3>1
  <2>4. CASE i \notin 1 .. Len(w)
    <3> DEFINE j == i - Len(w)
    <3>1. j \in 1 .. n /\ i = Len(w) + j /\ 1 + i = Len(p) + j /\ j \in 1 .. Len(s)
      BY <1>1, <1>3, <2>1, <2>4
    <3>. HIDE DEF j
    <3>2. z[1 + i] = s[j] /\ u[i] = v[j] /\ v[j] = s[j]
      BY <1>4, <1>6, <1>7, <3>1
    <3>. QED BY <2>2, <3>2
  <2>. QED BY <2>3, <2>4
<1>12. t = u
  BY <1>7, <1>9, <1>10, <1>11, SeqEqual
<1>. QED BY <1>12 DEF t, u, v, n, Middle

LEMMA HeldParts ==
  ASSUME NEW d, GoodDeframer(d), NEW chunk \in Seq(Bytes)
  PROVE  /\ Opened(d) \in Seq(Bytes) /\ d.fifo \in Seq(Bytes) /\ d.work \in Seq(Bytes)
         /\ d.fifo \o chunk \in Seq(Bytes) /\ Held(d) \in Seq(Bytes)
         /\ Held(d) \o chunk = Opened(d) \o (d.fifo \o chunk)
         /\ d.state = "FIND_EOF" => Joined(Opened(d), <<Delimiter>>, d.work)
         /\ d.state # "FIND_EOF" => Opened(d) = << >>
<1>1. d.fifo \in Seq(Bytes) /\ d.work \in Seq(Bytes)
  BY DEF GoodDeframer, Deframers
<1>2. <<Delimiter>> \in Seq(Bytes) /\ << >> \in Seq(Bytes)
  BY DEF Delimiter, Bytes
<1> DEFINE f == <<Delimiter>>
           o == Opened(d)
           a == d.fifo
<1>. HIDE DEF f, a
<1>3. Joined(f \o d.work, f, d.work)
  BY <1>1, <1>2, JoinedIs DEF f
<1>4. /\ d.state = "FIND_EOF" => o = f \o d.work
      /\ d.state # "FIND_EOF" => o = << >>
  BY DEF Opened, f
<1>5. o \in Seq(Bytes)
  BY <1>2, <1>3, <1>4 DEF Joined
<1>. HIDE DEF o
<1>6. Joined(a \o chunk, a, chunk) /\ Joined(o \o a, o, a) /\ Associates(o, a, chunk)
  BY <1>1, <1>5, JoinedIs, Associative DEF a
<1>7. Held(d) = o \o a
  BY DEF Held, o, a
<1>8. Held(d) \o chunk = o \o (a \o chunk)
  BY <1>6, <1>7 DEF Associates
<1>9. Held(d) \in Seq(Bytes) /\ a \o chunk \in Seq(Bytes)
  BY <1>6, <1>7 DEF Joined
<1>. QED BY <1>1, <1>3, <1>4, <1>5, <1>8, <1>9 DEF o, a, f

\* What a call that found the beginning of a frame keeps.
LEMMA BegunHolds ==
  ASSUME NEW bytes \in Seq(Bytes), NEW b \in 1 .. Len(bytes), bytes[b] = Delimiter,
         NEW k, k = b - 1
  PROVE  (<<Delimiter>> \o (<< >> \o SubSeq(bytes, b + 1, Len(bytes)))) \o << >> = From(bytes, k)
<1> DEFINE L == Len(bytes)
           n == b + 1
           s == SubSeq(bytes, n, L)
           f == <<Delimiter>>
<1>1. L \in Nat /\ b \in Nat /\ k + 1 = b /\ b - 1 \in b - 1 .. L /\ b \in 1 .. L + 1 /\ b \in b .. L
      /\ L \in b .. L /\ b \in b - 1 .. L
  BY LenProperties
<1>2. SubSeq(bytes, b, b) \o SubSeq(bytes, b + 1, L) = SubSeq(bytes, b, L)
  BY <1>1, ConcatAdjacentSubSeq
<1>3. SubSeq(bytes, b, b) = f
  <2>1. SubSeq(bytes, b, b) = SubSeq(bytes, b, b - 1) \o <<bytes[b]>>
    BY <1>1, SubSeqRecursiveSecond
  <2>2. SubSeq(bytes, b, b - 1) = << >>
    BY <1>1, SubSeqEmpty
  <2>3. << >> \o f = f
    OBVIOUS
  <2>. QED BY <2>1, <2>2, <2>3
<1>4. From(bytes, k) = f \o s
  BY <1>1, <1>2, <1>3 DEF From
<1>5. s \in Seq(Bytes)
  <2>1. n \in Int /\ L \in Int /\ 1 =< n /\ L =< Len(bytes)
    BY <1>1
  <2>. HIDE DEF n
  <2>. QED BY <2>1, Part
<1>6. f \in Seq(Bytes)
  BY DEF Delimiter, Bytes
<1>. HIDE DEF s, f
<1>7. << >> \o s = s /\ f \o s \in Seq(Bytes)
  BY <1>5, <1>6, ConcatEmptySeq, Join
<1> DEFINE g == f \o s
<1>8. g \o << >> = g
  <2>1. g \in Seq(Bytes)
    BY <1>7
  <2>. HIDE DEF g
  <2>. QED BY <2>1, ConcatEmptySeq
<1>. QED BY <1>4, <1>7, <1>8 DEF f, s

LEMMA GoesOn ==
  ASSUME NEW bytes \in Seq(Bytes), NEW w \in Seq(Bytes), NEW f \in Seq(Bytes)
  PROVE  (f \o (w \o SubSeq(bytes, 0 + 1, Len(bytes)))) \o << >> = (f \o w) \o bytes
<1>1. SubSeq(bytes, 0 + 1, Len(bytes)) = bytes
  BY SubSeqFull
<1>2. Associates(f, w, bytes)
  BY Associative
<1> DEFINE g == (f \o w) \o bytes
<1>3. g \o << >> = g
  <2>1. f \o w \in Seq(Bytes)
    BY Join
  <2> DEFINE h == f \o w
  <2>. HIDE DEF h
  <2>2. h \in Seq(Bytes)
    BY <2>1 DEF h
  <2>3. h \o bytes \in Seq(Bytes)
    BY <2>2, Join
  <2> DEFINE e == h \o bytes
  <2>. HIDE DEF e
  <2>4. e \in Seq(Bytes)
    BY <2>3 DEF e
  <2>5. e \o << >> = e
    BY <2>4, ConcatEmptySeq
  <2>. QED BY <2>5 DEF e, h
<1>. QED BY <1>1, <1>2, <1>3 DEF Associates

\* A call, outside a frame.
LEMMA IdleHolds ==
  ASSUME NEW d, GoodDeframer(d), d.state # "FIND_EOF", NEW z \in Seq(Bytes), NEW r,
         GoodDeframer(r.d), NEW chunk, NEW a \in 0 .. Len(z), Outcome(d, z, chunk, r, a)
  PROVE  Finishes(z, r)
<1>0. Len(z) \in Nat /\ a \in Nat
  BY LenProperties
<1>1. r.d.fifo = From(z, a)
  BY DEF Outcome
<1>a. ASSUME r.d.state # "FIND_EOF" PROVE Held(r.d) = From(z, a) /\ WorkClear(r.d)
  <2>1. Opened(r.d) = << >> /\ r.d.fifo \in Seq(Bytes)
    BY <1>a, HeldParts
  <2>. QED BY <1>1, <1>a, <2>1, ConcatEmptySeq DEF Held, WorkClear
<1>2. CASE Dropped(d, z, chunk, r)
  <2>1. DoneWith(z, r, a)
    BY <1>2, <1>a DEF Dropped, DoneWith
  <2>. QED BY <2>1 DEF Finishes
<1>3. CASE Begun(d, z, r, a)
  <2>1. PICK b \in 0 .. a, w \in Seq(Bytes) :
          /\ Starts(d, z, b, w) /\ Clear(z, b + 1, a)
          /\ r.d.work = w \o SubSeq(z, b + 1, a)
    BY <1>3 DEF Begun
  <2>2. /\ b \in 1 .. Len(z) /\ z[b] = Delimiter /\ w = << >>
        /\ r.d.state = "FIND_EOF" /\ r.msg = << >> /\ a = Len(z)
    BY <1>3, <2>1 DEF Starts, Begun
  <2> DEFINE k == b - 1
             s == SubSeq(z, b + 1, Len(z))
  <2>3. From(z, a) = << >>
    BY <1>0, <2>2, SubSeqEmpty DEF From
  <2>4. Held(r.d) = (<<Delimiter>> \o (<< >> \o s)) \o << >>
    BY <1>1, <2>1, <2>2, <2>3 DEF Held, Opened
  <2>5. Held(r.d) = From(z, k) /\ k \in 0 .. Len(z)
    BY <1>0, <2>2, <2>4, BegunHolds
  <2>6. WorkClear(r.d)
    <3> DEFINE n == Len(z) - b
    <3>1. s = From(z, b) /\ n \in 0 .. Len(z) - b /\ b \in 0 .. Len(z)
      BY <1>0, <2>2 DEF From
    <3>2. s \in Seq(Bytes) /\ Len(s) = n /\ \A i \in 1 .. n : s[i] = z[b + i]
      BY <3>1, ClearFrom
    <3>3. r.d.work = s
      <4>. HIDE DEF s
      <4>. QED BY <2>1, <2>2, <3>2, ConcatEmptySeq DEF s
    <3>. HIDE DEF s
    <3>4. \A i \in 1 .. n : b + i \in b + 1 .. a
      BY <1>0, <2>2
    <3>5. \A i \in 1 .. n : s[i] # Delimiter
      BY <2>1, <3>2, <3>4 DEF Clear
    <3>. HIDE DEF n
    <3>. QED BY <3>2, <3>3, <3>5 DEF WorkClear, Clear
  <2>7. DoneWith(z, r, k)
    <3>. HIDE DEF k
    <3>. QED BY <2>2, <2>5, <2>6 DEF DoneWith
  <2>. QED BY <2>5, <2>7 DEF Finishes
<1>4. CASE Got(d, z, r, a)
  <2>1. PICK b \in 0 .. a, w \in Seq(Bytes) :
          /\ Starts(d, z, b, w) /\ EndsAt(z, b, a)
          /\ r.msg = Cobs_decode(w \o SubSeq(z, b + 1, a - 1))
          /\ r.msg # DecodeError
    BY <1>4 DEF Got
  <2>2. b \in 1 .. Len(z) /\ z[b] = Delimiter /\ w = << >> /\ r.d.state = "INIT"
    BY <1>4, <2>1 DEF Starts, Got
  <2>3. a \in b + 1 .. Len(z) /\ z[a] = Delimiter /\ Clear(z, b + 1, a - 1) /\ b \in 1 .. a - 1
    BY <1>0, <2>1, <2>2 DEF EndsAt
  <2>4. w \o SubSeq(z, b + 1, a - 1) = SubSeq(z, b + 1, a - 1)
    <3> DEFINE m == b + 1
               n == a - 1
    <3>1. m \in Int /\ n \in Int /\ 1 =< m /\ n =< Len(z)
      BY <1>0, <2>2, <2>3
    <3>. HIDE DEF m, n
    <3>2. SubSeq(z, m, n) \in Seq(Bytes)
      BY <3>1, Part
    <3>3. << >> \o SubSeq(z, m, n) = SubSeq(z, m, n)
      BY <3>2, ConcatEmptySeq
    <3>. QED BY <2>2, <3>3 DEF m, n
  <2>5. Encloses(z, b, a)
    BY <2>2, <2>3 DEF Encloses
  <2>6. DoneWith(z, r, a)
    BY <1>a, <2>1, <2>2, <2>3, <2>4, <2>5 DEF DoneWith
  <2>. QED BY <2>6 DEF Finishes
<1>. QED BY <1>2, <1>3, <1>4 DEF Outcome

Concat(z, p, s) == z = p \o s

\* A call, in the middle of a frame.
LEMMA BusyHolds ==
  ASSUME NEW d, GoodDeframer(d), WorkClear(d), d.state = "FIND_EOF",
         NEW chunk \in Seq(Bytes), NEW bytes \in Seq(Bytes), NEW r, GoodDeframer(r.d),
         NEW p, p = Opened(d), NEW z, Concat(z, p, bytes),
         NEW a \in 0 .. Len(bytes), Outcome(d, bytes, chunk, r, a)
  PROVE  Finishes(z, r)
<1>0. Len(bytes) \in Nat /\ a \in Nat /\ p \in Seq(Bytes) /\ Len(p) \in Nat
      /\ d.work \in Seq(Bytes) /\ Len(d.work) \in Nat
  <2>1. p \in Seq(Bytes) /\ d.work \in Seq(Bytes)
    BY HeldParts
  <2>. QED BY <2>1, LenProperties
<1>1. r.d.fifo = From(bytes, a)
  BY DEF Outcome
<1>2. Joined(p, <<Delimiter>>, d.work) /\ Joined(z, p, bytes)
  BY <1>0, HeldParts, JoinedIs DEF Concat
<1>3. Len(z) = Len(p) + Len(bytes) /\ Len(p) = 1 + Len(d.work) /\ p[1] = Delimiter
      /\ (\A i \in 1 .. Len(d.work) : p[1 + i] = d.work[i])
      /\ (\A i \in 1 .. Len(p) : z[i] = p[i])
      /\ (\A i \in 1 .. Len(bytes) : z[Len(p) + i] = bytes[i])
  <2>1. Len(<<Delimiter>>) = 1 /\ <<Delimiter>>[1] = Delimiter /\ 1 \in 1 .. 1
    OBVIOUS
  <2>. QED BY <1>2, <2>1 DEF Joined
<1> DEFINE k == Len(p) + a
<1>4. k \in 0 .. Len(z) /\ 0 \in 0 .. Len(z)
  BY <1>0, <1>3
<1>5. From(z, k) = From(bytes, a)
  BY <1>0, FromJoined DEF Concat
<1>a. ASSUME r.d.state # "FIND_EOF" PROVE Held(r.d) = From(z, k) /\ WorkClear(r.d)
  <2>. HIDE DEF k
  <2>1. Opened(r.d) = << >> /\ r.d.fifo \in Seq(Bytes)
    BY <1>a, HeldParts
  <2>. QED BY <1>1, <1>5, <1>a, <2>1, ConcatEmptySeq DEF Held, WorkClear
<1>. HIDE DEF k
<1>6. CASE Dropped(d, bytes, chunk, r)
  <2>1. DoneWith(z, r, k)
    BY <1>6, <1>a DEF Dropped, DoneWith
  <2>. QED BY <1>4, <2>1 DEF Finishes
<1>7. CASE Begun(d, bytes, r, a)
  <2>1. PICK b \in 0 .. a, w \in Seq(Bytes) :
          /\ Starts(d, bytes, b, w) /\ Clear(bytes, b + 1, a)
          /\ r.d.work = w \o SubSeq(bytes, b + 1, a)
    BY <1>7 DEF Begun
  <2>2. b = 0 /\ w = d.work /\ r.d.state = "FIND_EOF" /\ r.msg = << >> /\ a = Len(bytes)
    BY <1>7, <2>1 DEF Starts, Begun
  <2>3. r.d.fifo = << >>
    BY <1>0, <1>1, <2>2, SubSeqEmpty DEF From
  <2> DEFINE f == <<Delimiter>>
             s == SubSeq(bytes, 0 + 1, Len(bytes))
  <2>4. Held(r.d) = (f \o (w \o s)) \o << >>
    BY <2>1, <2>2, <2>3 DEF Held, Opened
  <2>5. f \in Seq(Bytes)
    BY DEF Delimiter, Bytes
  <2>6. p = f \o w
    BY <2>2 DEF Opened
  <2>7. Held(r.d) = z
    <3>. HIDE DEF f
    <3>1. (f \o (w \o s)) \o << >> = (f \o w) \o bytes
      BY <2>5, GoesOn
    <3>. QED BY <2>4, <2>6, <3>1 DEF Concat
  <2>8. From(z, 0) = z
    <3>1. z \in Seq(Bytes)
      BY <1>2 DEF Joined
    <3>. QED BY <3>1, SubSeqFull DEF From
  <2>9. WorkClear(r.d)
    <3>1. s = bytes
      BY SubSeqFull
    <3>2. Joined(r.d.work, w, bytes)
      BY <2>1, <2>2, <3>1, JoinedIs
    <3> DEFINE v == r.d.work
    <3>. HIDE DEF v
    <3>3. /\ Len(v) = Len(w) + Len(bytes) /\ \A i \in 1 .. Len(w) : v[i] = w[i]
          /\ \A i \in 1 .. Len(bytes) : v[Len(w) + i] = bytes[i]
      BY <3>2 DEF Joined, v
    <3>4. (\A i \in 1 .. Len(w) : w[i] # Delimiter) /\ \A i \in 1 .. Len(bytes) : bytes[i] # Delimiter
      BY <2>1, <2>2 DEF WorkClear, Clear
    <3>5. ASSUME NEW i \in 1 .. Len(v) PROVE v[i] # Delimiter
      <4>1. CASE i \in 1 .. Len(w)
        BY <3>3, <3>4, <4>1
      <4>2. CASE i \notin 1 .. Len(w)
        <5> DEFINE j == i - Len(w)
        <5>1. j \in 1 .. Len(bytes) /\ i = Len(w) + j
          BY <1>0, <2>2, <3>3, <4>2
        <5>. HIDE DEF j
        <5>. QED BY <3>3, <3>4, <5>1
      <4>. QED BY <4>1, <4>2
    <3>. QED BY <3>5 DEF WorkClear, Clear, v
  <2>10. DoneWith(z, r, 0)
    <3>1. Held(r.d) = From(z, 0)
      BY <2>7, <2>8
    <3>. QED BY <2>2, <2>9, <3>1 DEF DoneWith
  <2>. QED BY <1>4, <2>10 DEF Finishes
<1>8. CASE Got(d, bytes, r, a)
  <2>1. PICK b \in 0 .. a, w \in Seq(Bytes) :
          /\ Starts(d, bytes, b, w) /\ EndsAt(bytes, b, a)
          /\ r.msg = Cobs_decode(w \o SubSeq(bytes, b + 1, a - 1))
          /\ r.msg # DecodeError
    BY <1>8 DEF Got
  <2>2. b = 0 /\ w = d.work /\ r.d.state = "INIT"
    BY <1>8, <2>1 DEF Starts, Got
  <2>3. a \in 1 .. Len(bytes) /\ bytes[a] = Delimiter /\ Clear(bytes, 1, a - 1)
    BY <2>1, <2>2 DEF EndsAt
  <2>4. SubSeq(z, 1 + 1, k - 1) = w \o SubSeq(bytes, 0 + 1, a - 1)
    <3>1. k = 1 + Len(w) + a /\ Delimiter \in Bytes
      BY <1>3, <2>2 DEF k, Delimiter, Bytes
    <3>2. Joined(p, <<Delimiter>>, w)
      BY <1>2, <2>2
    <3>3. Middle(z, k, w, bytes, a)
      BY <1>2, <2>3, <3>1, <3>2, MiddleJoined
    <3>. QED BY <3>3 DEF Middle
  <2>5. r.msg = Cobs_decode(SubSeq(z, 1 + 1, k - 1))
    BY <2>1, <2>2, <2>4
  <2>6. Encloses(z, 1, k)
    <3>1. 1 \in 1 .. k - 1 /\ k \in Nat
      BY <1>0, <1>3, <2>3 DEF k
    <3>2. z[1] = Delimiter
      <4>1. 1 \in 1 .. Len(p)
        BY <1>0, <1>3
      <4>. QED BY <1>3, <4>1
    <3>3. z[k] = Delimiter
      BY <1>3, <2>3 DEF k
    <3>4. ASSUME NEW i \in 2 .. k - 1 PROVE z[i] # Delimiter
      <4>1. CASE i \in 2 .. Len(p)
        <5> DEFINE j == i - 1
        <5>1. j \in 1 .. Len(d.work) /\ i = 1 + j /\ i \in 1 .. Len(p)
          BY <1>0, <1>3, <4>1
        <5>. HIDE DEF j
        <5>2. z[i] = p[i] /\ p[1 + j] = d.work[j]
          BY <1>3, <5>1
        <5>3. d.work[j] # Delimiter
          BY <5>1 DEF WorkClear, Clear
        <5>. QED BY <5>1, <5>2, <5>3
      <4>2. CASE i \notin 2 .. Len(p)
        <5> DEFINE j == i - Len(p)
        <5>1. j \in 1 .. a - 1 /\ i = Len(p) + j /\ j \in 1 .. Len(bytes)
          <6>1. Len(p) \in Nat /\ a \in Nat /\ i \in Int /\ i >= 2 /\ i =< k - 1
            BY <1>0, <1>3
          <6>2. i > Len(p)
            BY <4>2, <6>1
          <6>3. k - 1 = Len(p) + a - 1 /\ a - 1 < Len(bytes) /\ Len(bytes) \in Nat
            BY <1>0, <1>3, <2>3 DEF k
          <6>4. j \in 1 .. a - 1 /\ i = Len(p) + j
            BY <6>1, <6>2, <6>3
          <6>. QED BY <6>1, <6>3, <6>4
        <5>. HIDE DEF j
        <5>2. z[i] = bytes[j]
          BY <1>3, <5>1
        <5>3. bytes[j] # Delimiter
          BY <2>3, <5>1 DEF Clear
        <5>. QED BY <5>2, <5>3
      <4>. QED BY <4>1, <4>2
    <3>5. Clear(z, 1 + 1, k - 1)
      <4>1. 1 + 1 = 2
        OBVIOUS
      <4>. QED BY <3>4, <4>1 DEF Clear
    <3>. QED BY <3>1, <3>2, <3>3, <3>5 DEF Encloses
  <2>7. \E h \in 1 .. k - 1 :
          Encloses(z, h, k) /\ r.msg = Cobs_decode(SubSeq(z, h + 1, k - 1)) /\ r.msg # DecodeError
    <3>1. 1 \in 1 .. k - 1
      BY <2>6 DEF Encloses
    <3>. QED BY <2>1, <2>5, <2>6, <3>1
  <2>8. DoneWith(z, r, k)
    <3>1. Held(r.d) = From(z, k) /\ WorkClear(r.d)
      BY <1>a, <2>2
    <3>. QED BY <2>7, <3>1 DEF DoneWith
  <2>. QED BY <1>4, <2>8 DEF Finishes
<1>. QED BY <1>6, <1>7, <1>8 DEF Outcome

\* A call of the deframer is done with the bytes up to some place, and gets a message only
\* from between two delimiters.
LEMMA HeldIs ==
  ASSUME NEW d, GoodDeframer(d), WorkClear(d), NEW chunk \in Seq(Bytes),
         NEW r, r = Cobs_deframer(d, chunk), NEW z, z = Held(d) \o chunk
  PROVE  Finishes(z, r)
<1> DEFINE bytes == d.fifo \o chunk
           p == Opened(d)
<1>1. bytes \in Seq(Bytes) /\ z = p \o bytes /\ (d.state # "FIND_EOF" => p = << >>)
  BY HeldParts
<1>2. GoodDeframer(r.d) /\ \E a \in 0 .. Len(bytes) : Outcome(d, bytes, chunk, r, a)
  BY CallIs
<1>3. CASE d.state = "FIND_EOF"
  <2>. HIDE DEF bytes, p
  <2>1. p = Opened(d) /\ Concat(z, p, bytes)
    BY <1>1 DEF p, Concat
  <2>2. bytes \in Seq(Bytes) /\ GoodDeframer(r.d)
    BY <1>1, <1>2
  <2>3. PICK a \in 0 .. Len(bytes) : Outcome(d, bytes, chunk, r, a)
    BY <1>2
  <2>. QED BY <1>3, <2>1, <2>2, <2>3, BusyHolds
<1>4. CASE d.state # "FIND_EOF"
  <2>1. z = bytes
    <3>. HIDE DEF bytes, p
    <3>. QED BY <1>1, <1>4, ConcatEmptySeq
  <2>. HIDE DEF bytes
  <2>. QED BY <1>1, <1>2, <1>4, <2>1, IdleHolds
<1>. QED BY <1>3, <1>4

-----------------------------------------------------------------------------
(* Bytes of the line and the requests they belong to. *)

\* A byte of a frame: the request and the place in its frame.
Tags == {t \in [msg : Msgs, at : Nat] : t.at \in 1 .. Len(Frame(t.msg))}
ByteAt(t) == Frame(t.msg)[t.at]

Tagged(R, bytes) ==
  /\ R \in Seq(Tags) /\ Len(R) = Len(bytes)
  /\ \A i \in 1 .. Len(R) : bytes[i] = ByteAt(R[i])

\* After a byte comes the next one of the frame, or the first one of a later frame:
\* a client that broke down may have left the rest of its frame out.
Links(t, u) ==
  \/ u.msg = t.msg /\ u.at = t.at + 1
  \/ u.at = 1 /\ Rank(t.msg) < Rank(u.msg)

Linked(R) == \A i \in 1 .. Len(R) - 1 : Links(R[i], R[i + 1])

FrameTags(m) == [i \in 1 .. Len(Frame(m)) |-> [msg |-> m, at |-> i]]

LEMMA TagIs ==
  ASSUME NEW t \in Tags
  PROVE  /\ t.msg \in Msgs /\ t.at \in Nat /\ t.at \in 1 .. Len(Frame(t.msg))
         /\ Rank(t.msg) \in Nat
<1>1. t.msg \in Msgs /\ t.at \in Nat /\ t.at \in 1 .. Len(Frame(t.msg))
  BY DEF Tags
<1>2. Rank(t.msg) \in 1 .. 255
  BY <1>1, RankBytes
<1> DEFINE r == Rank(t.msg)
<1>3. r \in 1 .. 255
  BY <1>2
<1>. HIDE DEF r
<1>4. r \in Nat
  BY <1>3
<1>. QED BY <1>1, <1>4 DEF r

LEMMA FrameTagsAre ==
  ASSUME NEW m \in Msgs
  PROVE  /\ Tagged(FrameTags(m), Frame(m)) /\ Linked(FrameTags(m))
         /\ Len(FrameTags(m)) = Len(Frame(m))
         /\ FrameTags(m)[1].at = 1
         /\ \A i \in 1 .. Len(FrameTags(m)) : FrameTags(m)[i].msg = m
<1> DEFINE R == FrameTags(m)
           L == Len(Frame(m))
<1>1. L \in Nat /\ L >= 2
  <2>1. L = Len(Encodings[m]) + 2 /\ Encodings[m] \in Seq(Bytes)
    BY FrameIs
  <2>2. Len(Encodings[m]) \in Nat
    BY <2>1, LenProperties
  <2>. QED BY <2>1, <2>2
<1>2. \A i \in 1 .. L : [msg |-> m, at |-> i] \in Tags
  BY <1>1 DEF Tags
<1>3. R \in [1 .. L -> Tags]
  BY <1>2 DEF FrameTags
<1>4. R \in Seq(Tags) /\ Len(R) = L
  BY <1>1, <1>3
<1>5. \A i \in 1 .. L : R[i] = [msg |-> m, at |-> i]
  BY DEF FrameTags
<1>. HIDE DEF R
<1>6. \A i \in 1 .. L : R[i].msg = m /\ R[i].at = i
  <2>. TAKE i \in 1 .. L
  <2>1. R[i] = [msg |-> m, at |-> i]
    BY <1>5
  <2>. QED BY <2>1
<1>7. Tagged(R, Frame(m))
  BY <1>4, <1>6 DEF Tagged, ByteAt
<1>8. Linked(R)
  <2>. SUFFICES ASSUME NEW i \in 1 .. Len(R) - 1 PROVE Links(R[i], R[i + 1])
    BY DEF Linked
  <2>1. i \in 1 .. L /\ i + 1 \in 1 .. L
    BY <1>1, <1>4
  <2>. QED BY <1>6, <2>1 DEF Links
<1>9. R[1].at = 1
  <2>1. 1 \in 1 .. L
    BY <1>1
  <2>. QED BY <1>6, <2>1
<1>. QED BY <1>4, <1>6, <1>7, <1>8, <1>9 DEF R

\* A stretch of tagged bytes.
LEMMA StretchTagged ==
  ASSUME NEW bytes \in Seq(Bytes), NEW R, Tagged(R, bytes), Linked(R),
         NEW m \in Int, NEW n \in Int, 1 =< m, n =< Len(bytes), NEW Q, Q = SubSeq(R, m, n)
  PROVE  /\ Tagged(Q, SubSeq(bytes, m, n)) /\ Linked(Q)
         /\ Len(Q) = IF m =< n THEN n - m + 1 ELSE 0
         /\ \A i \in 1 .. Len(Q) : Q[i] = R[m + i - 1] /\ m + i - 1 \in 1 .. Len(R)
<1> DEFINE s == SubSeq(bytes, m, n)
<1>1. /\ R \in Seq(Tags) /\ Len(R) = Len(bytes) /\ Len(R) \in Nat
      /\ \A i \in 1 .. Len(R) : bytes[i] = ByteAt(R[i])
  BY LenProperties DEF Tagged
<1>2. /\ Q \in Seq(Tags) /\ Len(Q) = IF m =< n THEN n - m + 1 ELSE 0
      /\ \A i \in 1 .. n - m + 1 : Q[i] = R[m + i - 1]
  BY <1>1, Part
<1>3. /\ s \in Seq(Bytes) /\ Len(s) = IF m =< n THEN n - m + 1 ELSE 0
      /\ \A i \in 1 .. n - m + 1 : s[i] = bytes[m + i - 1]
  BY <1>1, Part
<1>. HIDE DEF s
<1>4. \A i \in 1 .. Len(Q) : i \in 1 .. n - m + 1 /\ m + i - 1 \in 1 .. Len(R) /\ m =< n
  BY <1>1, <1>2
<1>5. \A i \in 1 .. Len(Q) : Q[i] = R[m + i - 1] /\ s[i] = bytes[m + i - 1]
  BY <1>2, <1>3, <1>4
<1>6. Tagged(Q, s)
  <2>1. \A i \in 1 .. Len(Q) : s[i] = ByteAt(Q[i])
    BY <1>1, <1>4, <1>5
  <2>. QED BY <1>2, <1>3, <2>1 DEF Tagged
<1>7. Linked(Q)
  <2>. SUFFICES ASSUME NEW i \in 1 .. Len(Q) - 1 PROVE Links(Q[i], Q[i + 1])
    BY DEF Linked
  <2>1. i \in 1 .. Len(Q) /\ i + 1 \in 1 .. Len(Q)
    BY <1>2
  <2> DEFINE j == m + i - 1
  <2>2. Q[i] = R[j] /\ j \in 1 .. Len(R) - 1 /\ Q[i + 1] = R[j + 1]
    <3>0. i \in Int /\ m + (i + 1) - 1 = j + 1
      BY <1>1
    <3>1. Q[i + 1] = R[j + 1] /\ j + 1 \in 1 .. Len(R)
      <4> DEFINE n1 == i + 1
      <4>1. Q[n1] = R[m + n1 - 1] /\ m + n1 - 1 \in 1 .. Len(R)
        <5>. HIDE DEF n1
        <5>. QED BY <1>4, <1>5, <2>1 DEF n1
      <4>. QED BY <3>0, <4>1
    <3>2. j \in 1 .. Len(R) /\ Q[i] = R[j]
      BY <1>4, <1>5, <2>1
    <3>3. j \in 1 .. Len(R) - 1
      BY <1>1, <3>1, <3>2
    <3>. QED BY <3>1, <3>2, <3>3
  <2>. HIDE DEF j
  <2>. QED BY <2>2 DEF Linked
<1>. QED BY <1>2, <1>4, <1>5, <1>6, <1>7 DEF s

\* Tagged bytes with later ones behind them.
LEMMA JoinTagged ==
  ASSUME NEW s \in Seq(Bytes), NEW t \in Seq(Bytes), NEW R, NEW Q,
         Tagged(R, s), Linked(R), Tagged(Q, t), Linked(Q), Len(Q) > 0 => Q[1].at = 1,
         \A i \in 1 .. Len(R) : \A j \in 1 .. Len(Q) : Rank(R[i].msg) < Rank(Q[j].msg)
  PROVE  /\ Tagged(R \o Q, s \o t) /\ Linked(R \o Q)
         /\ Len(R \o Q) = Len(R) + Len(Q)
         /\ \A i \in 1 .. Len(R) : (R \o Q)[i] = R[i]
         /\ \A i \in 1 .. Len(Q) : (R \o Q)[Len(R) + i] = Q[i]
<1> DEFINE u == s \o t
           U == R \o Q
<1>1. /\ R \in Seq(Tags) /\ Q \in Seq(Tags) /\ Len(R) = Len(s) /\ Len(Q) = Len(t)
      /\ Len(R) \in Nat /\ Len(Q) \in Nat
      /\ \A i \in 1 .. Len(R) : s[i] = ByteAt(R[i])
      /\ \A i \in 1 .. Len(Q) : t[i] = ByteAt(Q[i])
  BY LenProperties DEF Tagged
<1>2. /\ U \in Seq(Tags) /\ Len(U) = Len(R) + Len(Q)
      /\ \A i \in 1 .. Len(R) : U[i] = R[i]
      /\ \A i \in 1 .. Len(Q) : U[Len(R) + i] = Q[i]
  BY <1>1, Join
<1>3. /\ u \in Seq(Bytes) /\ Len(u) = Len(s) + Len(t)
      /\ \A i \in 1 .. Len(s) : u[i] = s[i]
      /\ \A i \in 1 .. Len(t) : u[Len(s) + i] = t[i]
  BY Join
<1>. HIDE DEF u, U
<1>4. \A i \in 1 .. Len(U) : i \in 1 .. Len(R) \/ \E j \in 1 .. Len(Q) : i = Len(R) + j
  <2>. TAKE i \in 1 .. Len(U)
  <2>1. CASE i \notin 1 .. Len(R)
    <3>1. i - Len(R) \in 1 .. Len(Q) /\ i = Len(R) + (i - Len(R))
      BY <1>1, <1>2, <2>1
    <3>. QED BY <3>1
  <2>. QED BY <2>1
<1>5. Tagged(U, u)
  <2>1. \A i \in 1 .. Len(U) : u[i] = ByteAt(U[i])
    <3>. TAKE i \in 1 .. Len(U)
    <3>1. CASE i \in 1 .. Len(R)
      BY <1>1, <1>2, <1>3, <3>1
    <3>2. CASE \E j \in 1 .. Len(Q) : i = Len(R) + j
      BY <1>1, <1>2, <1>3, <3>2
    <3>. QED BY <1>4, <3>1, <3>2
  <2>. QED BY <1>1, <1>2, <1>3, <2>1 DEF Tagged
<1>6. Linked(U)
  <2>. SUFFICES ASSUME NEW i \in 1 .. Len(U) - 1 PROVE Links(U[i], U[i + 1])
    BY DEF Linked
  <2>0. i \in 1 .. Len(U) /\ i \in Nat
    BY <1>1, <1>2
  <2>1. CASE i \in 1 .. Len(R) - 1
    <3>1. i \in 1 .. Len(R) /\ i + 1 \in 1 .. Len(R)
      BY <1>1, <2>1
    <3>. QED BY <1>2, <2>1, <3>1 DEF Linked
  <2>2. CASE i = Len(R)
    <3>1. i \in 1 .. Len(R) /\ 1 \in 1 .. Len(Q) /\ Len(Q) > 0
      BY <1>1, <1>2, <2>2
    <3>2. U[i] = R[i] /\ U[i + 1] = Q[1]
      BY <1>2, <2>2, <3>1
    <3>. QED BY <3>1, <3>2 DEF Links
  <2>3. CASE i > Len(R)
    <3> DEFINE j == i - Len(R)
    <3>1. j \in 1 .. Len(Q) - 1 /\ j \in 1 .. Len(Q) /\ j + 1 \in 1 .. Len(Q)
          /\ i = Len(R) + j /\ i + 1 = Len(R) + (j + 1)
      BY <1>1, <1>2, <2>0, <2>3
    <3>. HIDE DEF j
    <3>2. U[i] = Q[j] /\ U[i + 1] = Q[j + 1]
      BY <1>2, <3>1
    <3>. QED BY <3>1, <3>2 DEF Linked
  <2>. QED BY <1>1, <2>0, <2>1, <2>2, <2>3
<1>. QED BY <1>2, <1>5, <1>6 DEF u, U

\* Requests come in their order.
LEMMA RanksGrow ==
  ASSUME NEW R \in Seq(Tags), Linked(R), NEW k \in 1 .. Len(R)
  PROVE  \A i \in k .. Len(R) : Rank(R[k].msg) =< Rank(R[i].msg)
<1> DEFINE D == Len(R) - k
           T == {d \in 0 .. D : Rank(R[k].msg) =< Rank(R[k + d].msg)}
<1>0. Len(R) \in Nat /\ D \in Nat /\ k \in Nat
  BY LenProperties
<1>a. \A i \in 1 .. Len(R) : R[i] \in Tags /\ Rank(R[i].msg) \in Nat
  BY ElementOfSeq, TagIs
<1>1. 0 \in T
  <2>1. k + 0 = k /\ Rank(R[k].msg) \in Nat
    BY <1>0, <1>a
  <2>. QED BY <1>0, <2>1
<1>2. ASSUME NEW d \in 0 .. D - 1, d \in T PROVE d + 1 \in T
  <2> DEFINE i == k + d
  <2>1. i \in 1 .. Len(R) - 1 /\ i \in 1 .. Len(R) /\ i + 1 \in 1 .. Len(R) /\ k + (d + 1) = i + 1
        /\ d + 1 \in 0 .. D
    BY <1>0
  <2>2. Rank(R[k].msg) =< Rank(R[i].msg)
    BY <1>2
  <2>. HIDE DEF i
  <2>3. R[i + 1].msg = R[i].msg \/ Rank(R[i].msg) < Rank(R[i + 1].msg)
    BY <2>1 DEF Linked, Links
  <2> DEFINE a == Rank(R[k].msg)
             b == Rank(R[i].msg)
             c == Rank(R[i + 1].msg)
  <2>4. a \in Nat /\ b \in Nat /\ c \in Nat /\ a =< b /\ (c = b \/ b < c)
    BY <1>a, <2>1, <2>2, <2>3
  <2>. HIDE DEF a, b, c
  <2>5. a =< c
    BY <2>4
  <2>. QED BY <2>1, <2>5 DEF a, c
<1>3. 0 .. D \subseteq T
  <2>. HIDE DEF T
  <2>. QED BY <1>0, <1>1, <1>2, UpTo
<1>. TAKE i \in k .. Len(R)
<1> DEFINE d == i - k
<1>4. d \in 0 .. D /\ k + d = i
  BY <1>0
<1>. HIDE DEF d, D
<1>5. d \in T
  BY <1>3, <1>4
<1>. QED BY <1>4, <1>5

-----------------------------------------------------------------------------
(* What is found between two delimiters. *)

\* No request's encoding has a delimiter in it.
NoZeroInside == \A m \in Msgs : \A i \in 1 .. Len(Encodings[m]) : Encodings[m][i] # Delimiter

LastPlace(m) == Len(Encodings[m]) + 2

\* The places of a frame: the delimiters are at its ends.
LEMMA PlaceIs ==
  ASSUME NoZeroInside, NEW t \in Tags
  PROVE  /\ LastPlace(t.msg) \in Nat /\ LastPlace(t.msg) > 2
         /\ t.at \in 1 .. LastPlace(t.msg)
         /\ ByteAt(t) = Delimiter <=> (t.at = 1 \/ t.at = LastPlace(t.msg))
         /\ ByteAt(t) # Delimiter =>
              t.at - 1 \in 1 .. Len(Encodings[t.msg]) /\ ByteAt(t) = Encodings[t.msg][t.at - 1]
<1> DEFINE m == t.msg
           n == Len(Encodings[m])
<1>1. m \in Msgs /\ t.at \in 1 .. Len(Frame(m))
  BY TagIs
<1>2. /\ Encodings[m] \in Seq(Bytes) /\ n > 0 /\ Len(Frame(m)) = n + 2
      /\ Frame(m)[1] = Delimiter /\ Frame(m)[n + 2] = Delimiter
      /\ \A i \in 1 .. n : Frame(m)[1 + i] = Encodings[m][i]
  BY <1>1, FrameIs
<1>3. \A i \in 1 .. n : Encodings[m][i] # Delimiter
  BY <1>1 DEF NoZeroInside
<1>4. n \in Nat
  BY <1>2, LenProperties
<1>5. ByteAt(t) = Frame(m)[t.at]
  BY DEF ByteAt
<1>. HIDE DEF m, n
<1>6. t.at = 1 \/ t.at = n + 2 \/ (t.at - 1 \in 1 .. n /\ t.at = 1 + (t.at - 1))
  BY <1>1, <1>2, <1>4
<1>7. CASE t.at = 1 \/ t.at = n + 2
  BY <1>1, <1>2, <1>4, <1>5, <1>7 DEF LastPlace, m, n
<1>8. CASE t.at - 1 \in 1 .. n /\ t.at = 1 + (t.at - 1)
  <2> DEFINE i == t.at - 1
  <2>1. i \in 1 .. n /\ t.at = 1 + i
    BY <1>8
  <2>. HIDE DEF i
  <2>2. Frame(m)[t.at] = Encodings[m][i] /\ Encodings[m][i] # Delimiter
    BY <1>2, <1>3, <2>1
  <2>3. t.at # 1 /\ t.at # n + 2 /\ t.at \in 1 .. n + 2 /\ n + 2 > 2 /\ n + 2 \in Nat
    BY <1>4, <2>1
  <2>. QED BY <1>5, <2>1, <2>2, <2>3 DEF LastPlace, m, n, i
<1>. QED BY <1>6, <1>7, <1>8

\* The next byte after the last one of a frame begins a later frame.
LEMMA AfterLast ==
  ASSUME NoZeroInside, NEW t \in Tags, NEW v \in Tags, Links(t, v), t.at = LastPlace(t.msg)
  PROVE  v.at = 1 /\ Rank(t.msg) < Rank(v.msg) /\ ByteAt(v) = Delimiter
<1>1. v.at # t.at + 1 \/ v.msg # t.msg
  BY PlaceIs
<1>2. v.at = 1 /\ Rank(t.msg) < Rank(v.msg)
  BY <1>1 DEF Links
<1>. QED BY <1>2, PlaceIs

TagsFrom(R, h, d) == R[h + d].msg = R[h].msg /\ R[h + d].at = 1 + d

\* Up to the next delimiter the bytes are those of one frame.
LEMMA RunsOn ==
  ASSUME NoZeroInside, NEW z \in Seq(Bytes), NEW R, Tagged(R, z), Linked(R),
         NEW k \in 1 .. Len(z), NEW h \in 1 .. k - 1, Clear(z, h + 1, k - 1), R[h].at = 1
  PROVE  \A d \in 0 .. k - 1 - h : TagsFrom(R, h, d)
<1> DEFINE D == k - 1 - h
           T == {d \in 0 .. D : TagsFrom(R, h, d)}
<1>0. /\ R \in Seq(Tags) /\ Len(R) = Len(z) /\ Len(R) \in Nat /\ k \in Nat /\ h \in Nat
      /\ \A i \in 1 .. Len(R) : R[i] \in Tags /\ z[i] = ByteAt(R[i])
  BY LenProperties, ElementOfSeq DEF Tagged
<1>b. Len(R) \in Nat /\ k \in Nat /\ h \in Nat /\ k \in 1 .. Len(R) /\ h \in 1 .. k - 1
  BY <1>0
<1>1. 0 \in T
  <2>1. h + 0 = h /\ 1 + 0 = 1 /\ 0 \in 0 .. D
    BY <1>b
  <2>. QED BY <2>1 DEF TagsFrom
<1>2. ASSUME NEW d \in 0 .. D - 1, d \in T PROVE d + 1 \in T
  <2> DEFINE i == h + d
  <2>1. /\ i \in 1 .. Len(R) - 1 /\ i \in 1 .. Len(R) /\ i + 1 \in 1 .. Len(R)
        /\ h + (d + 1) = i + 1 /\ d + 1 \in 0 .. D /\ i + 1 \in h + 1 .. k - 1
        /\ 1 + (d + 1) = (1 + d) + 1
    <3>1. d \in Int /\ 0 =< d /\ d =< k - 1 - h - 1
      BY <1>b
    <3>. HIDE DEF T
    <3>2. i \in 1 .. Len(R) - 1 /\ i \in 1 .. Len(R) /\ i + 1 \in 1 .. Len(R)
      BY <1>b, <3>1
    <3>3. /\ h + (d + 1) = i + 1 /\ d + 1 \in 0 .. D /\ i + 1 \in h + 1 .. k - 1
          /\ 1 + (d + 1) = (1 + d) + 1
      BY <1>b, <3>1
    <3>. QED BY <3>2, <3>3
  <2>2. R[i].msg = R[h].msg /\ R[i].at = 1 + d
    BY <1>2 DEF TagsFrom
  <2>. HIDE DEF i
  <2>3. Links(R[i], R[i + 1])
    BY <2>1 DEF Linked
  <2>4. ByteAt(R[i + 1]) # Delimiter /\ R[i + 1] \in Tags
    BY <1>0, <2>1 DEF Clear
  <2>5. R[i + 1].at # 1
    BY <2>4, PlaceIs
  <2>6. R[i + 1].msg = R[h].msg /\ R[i + 1].at = 1 + (d + 1)
    BY <2>1, <2>2, <2>3, <2>5 DEF Links
  <2>. QED BY <2>1, <2>6 DEF TagsFrom
<1>3. 0 .. D \subseteq T
  <2>1. D \in Nat
    BY <1>0
  <2>. HIDE DEF T, D
  <2>. QED BY <1>1, <1>2, <2>1, UpTo
<1>. QED BY <1>3

\* What is decoded from the beginning of a frame up to a delimiter can only be its own request.
LEMMA PartDecoded ==
  ASSUME NoZeroInside, NEW z \in Seq(Bytes), NEW R, Tagged(R, z), Linked(R),
         NEW k \in 1 .. Len(z), NEW h \in 1 .. k - 1, Clear(z, h + 1, k - 1), R[h].at = 1,
         NEW u \in Msgs, Payload(u) # DecodeError,
         Cobs_decode(SubSeq(z, h + 1, k - 1)) = Payload(u)
  PROVE  u = R[h].msg
<1> DEFINE n == k - 1 - h
           a == h + 1
           b == k - 1
           m == R[h].msg
           w == SubSeq(z, a, b)
           x == Payload(m)
           e == Encodings[m]
<1>1. /\ R \in Seq(Tags) /\ Len(R) = Len(z) /\ Len(R) \in Nat
      /\ \A i \in 1 .. Len(R) : R[i] \in Tags /\ z[i] = ByteAt(R[i])
  BY LenProperties, ElementOfSeq DEF Tagged
<1>2. Len(R) \in Nat /\ k \in 1 .. Len(R) /\ k \in Nat /\ h \in Nat /\ h \in 1 .. Len(R)
      /\ h \in 1 .. k - 1 /\ k \in 1 .. Len(z)
  BY <1>1
<1>3. m \in Msgs
  BY <1>1, <1>2, TagIs
<1>4. x \in Seq(Bytes) /\ e = Cobs_encode(x) /\ e \in Seq(Bytes) /\ Len(e) \in Nat
  BY <1>3, PayloadIs, FrameIs, LenProperties
<1>5. w \in Seq(Bytes) /\ Len(w) = n /\ \A i \in 1 .. n : w[i] = z[a + i - 1]
  <2>1. a \in Int /\ b \in Int /\ 1 =< a /\ b =< Len(z) /\ b - a + 1 = n
        /\ (a =< b <=> n > 0) /\ n \in Nat
    BY <1>2
  <2>. HIDE DEF a, b, n
  <2>2. /\ w \in Seq(Bytes) /\ Len(w) = (IF a =< b THEN b - a + 1 ELSE 0)
        /\ \A i \in 1 .. b - a + 1 : w[i] = z[a + i - 1]
    BY <2>1, Part
  <2>3. Len(w) = n
    <3>. HIDE DEF w
    <3>. QED BY <2>1, <2>2
  <2>. QED BY <2>1, <2>2, <2>3
<1>. HIDE DEF w
<1>6. ASSUME NEW i \in 1 .. n PROVE i \in 1 .. Len(e) /\ e[i] = w[i]
  <2> DEFINE j == h + i
             t == R[j]
  <2>1. i \in Int /\ 1 =< i /\ i =< n /\ n \in Int
    BY <1>2
  <2>2. i \in 0 .. n /\ j \in a .. b /\ j \in 1 .. Len(R) /\ a + i - 1 = j /\ (1 + i) - 1 = i
    BY <1>2, <2>1
  <2>3. t.msg = m /\ t.at = 1 + i
    BY <2>2, RunsOn DEF TagsFrom
  <2>. HIDE DEF j
  <2>4. t \in Tags /\ z[j] = ByteAt(t)
    BY <1>1, <2>2
  <2>5. z[j] # Delimiter
    <3>1. Clear(z, a, b)
      OBVIOUS
    <3>. HIDE DEF a, b
    <3>. QED BY <2>2, <3>1 DEF Clear
  <2>. HIDE DEF t, m
  <2>6. t.at - 1 \in 1 .. Len(Encodings[t.msg]) /\ ByteAt(t) = Encodings[t.msg][t.at - 1]
    BY <2>4, <2>5, PlaceIs
  <2>7. t.at - 1 = i
    BY <2>2, <2>3
  <2>8. w[i] = z[j]
    BY <1>5, <2>2
  <2>. HIDE DEF n
  <2>. QED BY <2>3, <2>4, <2>6, <2>7, <2>8 DEF m
<1>7. Begins(w, e)
  <2>1. n =< Len(e)
    <3>1. CASE n = 0
      BY <1>4, <3>1
    <3>2. CASE n # 0
      <4>1. n \in 1 .. n
        BY <1>2, <3>2
      <4>2. n \in 1 .. Len(e)
        BY <1>6, <4>1
      <4>. QED BY <1>4, <4>2
    <3>. QED BY <3>1, <3>2
  <2>. HIDE DEF n, e
  <2>. QED BY <1>5, <1>6, <2>1 DEF Begins
<1>8. w # << >>
  <2>1. Cobs_decode(<< >>) = DecodeError
    BY DEF Cobs_decode
  <2>2. Cobs_decode(w) = Payload(u)
    BY DEF w
  <2>. QED BY <2>1, <2>2
<1>9. Cobs_decode(w) = DecodeError \/ \E j \in 0 .. Len(x) : Cobs_decode(w) = SubSeq(x, 1, j)
  <2>1. Begins(w, Cobs_encode(x))
    BY <1>4, <1>7
  <2>. HIDE DEF x
  <2>. QED BY <1>4, <1>5, <1>8, <2>1, DecodePart
<1>10. PICK j \in 0 .. Len(x) : Payload(u) = SubSeq(x, 1, j)
  BY <1>9 DEF w
<1>. HIDE DEF m
<1>. QED BY <1>3, <1>10, PayloadOnce DEF m

\* The bytes behind a frame are of later requests.
LaterThan(R, k, u) == \A i \in k + 1 .. Len(R) : Rank(u) < Rank(R[i].msg)

LEMMA LaterFrom ==
  ASSUME NEW R \in Seq(Tags), Linked(R), NEW u \in Msgs, NEW k \in 1 .. Len(R),
         Rank(u) < Rank(R[k].msg)
  PROVE  \A i \in k .. Len(R) : Rank(u) < Rank(R[i].msg)
<1>1. \A i \in k .. Len(R) : Rank(R[k].msg) =< Rank(R[i].msg)
  BY RanksGrow
<1>. TAKE i \in k .. Len(R)
<1>2. Len(R) \in Nat
  BY LenProperties
<1>3. i \in 1 .. Len(R)
  BY <1>2
<1>4. R[i] \in Tags /\ R[k] \in Tags
  BY <1>3, ElementOfSeq
<1> DEFINE a == Rank(u)
           b == Rank(R[k].msg)
           c == Rank(R[i].msg)
<1>5. b \in Nat /\ c \in Nat
  BY <1>4, TagIs
<1>6. a \in 1 .. 255
  BY RankBytes
<1>7. b =< c /\ a < b
  BY <1>1
<1>. HIDE DEF a, b, c
<1>8. a < c
  BY <1>5, <1>6, <1>7
<1>. QED BY <1>8 DEF a, c

\* A frame that is found and decoded to a request is the one it began with, and later ones follow.
LEMMA FrameFound ==
  ASSUME NoZeroInside, NEW z \in Seq(Bytes), NEW R, Tagged(R, z), Linked(R),
         NEW k \in 1 .. Len(z), NEW h, Encloses(z, h, k),
         NEW u \in Msgs, Payload(u) # DecodeError,
         Cobs_decode(SubSeq(z, h + 1, k - 1)) = Payload(u)
  PROVE  h \in 1 .. Len(R) /\ u = R[h].msg /\ LaterThan(R, k, u)
<1>1. /\ R \in Seq(Tags) /\ Len(R) = Len(z) /\ Len(R) \in Nat
      /\ \A i \in 1 .. Len(R) : R[i] \in Tags /\ z[i] = ByteAt(R[i])
  BY LenProperties, ElementOfSeq DEF Tagged
<1>2. /\ h \in 1 .. k - 1 /\ z[h] = Delimiter /\ z[k] = Delimiter
      /\ Clear(z, h + 1, k - 1)
  BY DEF Encloses
<1>3. Len(R) \in Nat /\ k \in 1 .. Len(R) /\ k \in Nat /\ h \in Nat /\ h \in 1 .. Len(R)
      /\ h \in 1 .. Len(R) - 1 /\ h \in 1 .. k - 1 /\ h + 1 \in 1 .. Len(R)
      /\ k - 1 \in 1 .. Len(R) /\ k - 1 \in 1 .. Len(R) - 1 /\ (k - 1) + 1 = k
  BY <1>1, <1>2
<1>4. R[h].at = 1
  <2>1. SUFFICES ASSUME R[h].at # 1 PROVE FALSE
    OBVIOUS
  <2>2. ByteAt(R[h]) = Delimiter /\ R[h] \in Tags /\ R[h + 1] \in Tags /\ Links(R[h], R[h + 1])
    BY <1>1, <1>2, <1>3 DEF Linked
  <2>3. R[h].at = LastPlace(R[h].msg)
    BY <2>1, <2>2, PlaceIs
  <2>4. ByteAt(R[h + 1]) = Delimiter
    BY <2>2, <2>3, AfterLast
  <2>5. z[h + 1] = Delimiter
    BY <1>1, <1>3, <2>4
  <2>6. h + 1 = k
    <3>1. h + 1 \notin h + 1 .. k - 1
      BY <1>2, <2>5 DEF Clear
    <3>. QED BY <1>3, <3>1
  <2>7. SubSeq(z, h + 1, k - 1) = << >>
    <3>1. h + 1 > k - 1 /\ h + 1 \in Int /\ k - 1 \in Int
      BY <1>3, <2>6
    <3> DEFINE a == h + 1
               b == k - 1
    <3>. HIDE DEF a, b
    <3>2. a > b /\ a \in Int /\ b \in Int
      BY <3>1 DEF a, b
    <3>3. SubSeq(z, a, b) = << >>
      BY <3>2, SubSeqEmpty
    <3>. QED BY <3>3 DEF a, b
  <2>8. Cobs_decode(<< >>) = DecodeError
    BY DEF Cobs_decode
  <2>. QED BY <2>7, <2>8
<1>5. u = R[h].msg
  BY <1>2, <1>4, PartDecoded
<1>6. TagsFrom(R, h, k - 1 - h)
  <2>1. k - 1 - h \in 0 .. k - 1 - h
    BY <1>3
  <2>. QED BY <1>2, <1>4, <2>1, RunsOn
<1>7. R[k - 1].msg = u
  <2>1. h + (k - 1 - h) = k - 1
    BY <1>3
  <2>. QED BY <1>5, <1>6, <2>1 DEF TagsFrom
<1>8. /\ R[k - 1] \in Tags /\ R[k] \in Tags /\ ByteAt(R[k]) = Delimiter /\ Links(R[k - 1], R[k])
  <2> DEFINE j == k - 1
  <2>1. j \in 1 .. Len(R) - 1 /\ j \in 1 .. Len(R) /\ j + 1 = k
    BY <1>3
  <2>. HIDE DEF j
  <2>2. Links(R[j], R[j + 1])
    BY <2>1 DEF Linked
  <2>3. R[j] \in Tags /\ R[k] \in Tags /\ ByteAt(R[k]) = Delimiter
    BY <1>1, <1>2, <1>3, <2>1
  <2>. QED BY <2>1, <2>2, <2>3 DEF j
<1>9. LaterThan(R, k, u)
  <2>1. CASE Rank(u) < Rank(R[k].msg)
    <3>1. \A i \in k .. Len(R) : Rank(u) < Rank(R[i].msg)
      BY <1>1, <1>3, <2>1, LaterFrom
    <3>2. \A i \in k + 1 .. Len(R) : i \in k .. Len(R)
      BY <1>3
    <3>. QED BY <3>1, <3>2 DEF LaterThan
  <2>2. CASE ~(Rank(u) < Rank(R[k].msg))
    <3>1. R[k].msg = u /\ R[k].at = R[k - 1].at + 1
      BY <1>7, <1>8, <2>2 DEF Links
    <3>2. R[k].at # 1
      <4>1. R[k - 1].at >= 1 /\ R[k - 1].at \in Nat
        BY <1>8, TagIs
      <4>. QED BY <3>1, <4>1
    <3>3. R[k].at = LastPlace(R[k].msg)
      BY <1>8, <3>2, PlaceIs
    <3>4. CASE k = Len(R)
      <4>1. \A i \in k + 1 .. Len(R) : FALSE
        BY <1>3, <3>4
      <4>. QED BY <4>1 DEF LaterThan
    <3>5. CASE k # Len(R)
      <4> DEFINE j == k + 1
      <4>1. k \in 1 .. Len(R) - 1 /\ j \in 1 .. Len(R)
        BY <1>3, <3>5
      <4>2. Links(R[k], R[j])
        BY <4>1 DEF Linked
      <4>. HIDE DEF j
      <4>3. Rank(u) < Rank(R[j].msg)
        <5>1. R[j] \in Tags
          BY <1>1, <4>1
        <5>. QED BY <1>8, <3>1, <3>3, <4>2, <5>1, AfterLast
      <4>4. \A i \in j .. Len(R) : Rank(u) < Rank(R[i].msg)
        BY <1>1, <4>1, <4>3, LaterFrom
      <4>. QED BY <4>4 DEF LaterThan, j
    <3>. QED BY <3>4, <3>5
  <2>. QED BY <2>1, <2>2
<1>. QED BY <1>3, <1>5, <1>9

-----------------------------------------------------------------------------
(* The order of requests: the inductive invariant. *)

\* What the server has not done with, in the deframer and on the connection it serves.
Unread == IF sock \in Conns THEN Held(deframer) \o up[sock] ELSE Held(deframer)

Asked(m) == m.seqn =< Len(asked[m.conn]) /\ asked[m.conn][m.seqn] = m

Waiting(c) == \E i \in 1 .. Len(backlog) : backlog[i] = c

\* It is c's turn, or it was.
Served(c) == /\ \A e \in Conns : Waiting(e) => c < e
             /\ sock \in Conns => c =< sock

\* Clients come in order, and wait in order.
NewInv == \A c \in Conns : client[c] = "new" => asked[c] = << >> /\ up[c] = << >>
MetInv == \A c \in Conns : \A e \in Conns : e < c /\ client[c] # "new" => client[e] # "new"
SockInv == sock \in Conns => client[sock] # "new"
QueueInv == \A c \in Conns : Waiting(c) => client[c] # "new" /\ (sock \in Conns => sock < c)
Ascending == \A i \in 1 .. Len(backlog) : \A j \in 1 .. Len(backlog) :
               i < j => backlog[i] < backlog[j]

\* What a client that waits has sent: frames of its own, in their order.
Sends(c, R) ==
  /\ Tagged(R, up[c]) /\ Linked(R) /\ (Len(R) > 0 => R[1].at = 1)
  /\ \A i \in 1 .. Len(R) : R[i].msg.conn = c /\ Asked(R[i].msg)
WaitInv == \A c \in Conns : Waiting(c) => \E R : Sends(c, R)

\* What is not done with are frames, in their order, of requests that come after those done.
ToDo(R) == \A i \in 1 .. Len(R) :
             /\ Asked(R[i].msg) /\ Served(R[i].msg.conn)
             /\ \A j \in 1 .. Len(executed) : Rank(executed[j]) < Rank(R[i].msg)
LineInv == \E R : Tagged(R, Unread) /\ Linked(R) /\ ToDo(R)
DoneInv == /\ \A j \in 1 .. Len(executed) : Asked(executed[j]) /\ Served(executed[j].conn)
           /\ \A i \in 1 .. Len(executed) : \A j \in 1 .. Len(executed) :
                i < j => Rank(executed[i]) < Rank(executed[j])

OrderInv == /\ WorkClear(deframer) /\ NewInv /\ MetInv /\ SockInv /\ QueueInv
            /\ Ascending /\ WaitInv /\ LineInv /\ DoneInv

\* Requests that were asked stay so, and those of clients served too.
AskedStays == \A m \in Msgs : Asked(m) => Asked(m)'
ServedStays == \A m \in Msgs : Asked(m) /\ Served(m.conn) => Served(m.conn)'

LEMMA TagsMsgs ==
  ASSUME NEW R, NEW bytes, Tagged(R, bytes)
  PROVE  R \in Seq(Tags) /\ \A i \in 1 .. Len(R) : R[i] \in Tags /\ R[i].msg \in Msgs
<1>1. R \in Seq(Tags)
  BY DEF Tagged
<1>2. \A i \in 1 .. Len(R) : R[i] \in Tags
  BY <1>1, ElementOfSeq
<1>. QED BY <1>1, <1>2, TagIs

LEMMA ToDoStays ==
  ASSUME NEW R, NEW bytes, Tagged(R, bytes), ToDo(R), AskedStays, ServedStays,
         executed' = executed
  PROVE  ToDo(R)'
<1>. SUFFICES ASSUME NEW i \in 1 .. Len(R)
              PROVE  /\ Asked(R[i].msg)' /\ Served(R[i].msg.conn)'
                     /\ \A j \in 1 .. Len(executed') : Rank(executed'[j]) < Rank(R[i].msg)
  BY DEF ToDo
<1> DEFINE m == R[i].msg
<1>1. m \in Msgs
  BY TagsMsgs
<1>2. /\ Asked(m) /\ Served(m.conn)
      /\ \A j \in 1 .. Len(executed) : Rank(executed[j]) < Rank(m)
  BY DEF ToDo
<1>. HIDE DEF m
<1>3. Asked(m)' /\ Served(m.conn)'
  BY <1>1, <1>2 DEF AskedStays, ServedStays
<1>. QED BY <1>2, <1>3 DEF m

LEMMA DoneStays ==
  ASSUME TypeOK, DoneInv, AskedStays, ServedStays, executed' = executed
  PROVE  DoneInv'
<1>1. ASSUME NEW j \in 1 .. Len(executed) PROVE Asked(executed[j])' /\ Served(executed[j].conn)'
  <2>1. PICK m \in Msgs : m = executed[j]
    BY ElementOfSeq DEF TypeOK
  <2>2. Asked(m) /\ Served(m.conn)
    BY <2>1 DEF DoneInv
  <2>3. Asked(m)' /\ Served(m.conn)'
    BY <2>2 DEF AskedStays, ServedStays
  <2>4. executed'[j] = m
    BY <2>1
  <2>. QED BY <2>3, <2>4 DEF Asked, Served
<1>. QED BY <1>1 DEF DoneInv

\* The client whose bytes they are, one of those that still wait.
LEMMA SendsStays ==
  ASSUME NEW c, NEW R, Sends(c, R), AskedStays, up'[c] = up[c]
  PROVE  Sends(c, R)'
<1>1. Tagged(R, up[c]) /\ Linked(R)
  BY DEF Sends
<1>2. \A i \in 1 .. Len(R) : R[i].msg \in Msgs
  BY <1>1, TagsMsgs
<1>3. \A i \in 1 .. Len(R) : Asked(R[i].msg)'
  BY <1>2 DEF Sends, AskedStays
<1>. QED BY <1>3 DEF Sends

LEMMA SockIs ==
  ASSUME TypeOK
  PROVE  /\ sock \in Int /\ Conns \subseteq Nat \ {0}
         /\ None \notin Conns /\ Stopped \notin Conns /\ Starting \notin Conns /\ Bound \notin Conns
<1>1. MaxConns \in Nat
  BY ServerAssumption
<1>2. Conns \subseteq Nat \ {0}
  BY <1>1 DEF Conns
<1>3. None = 0 /\ Stopped = -1 /\ Starting = -2 /\ Bound = -3
  BY DEF None, Stopped, Starting, Bound
<1>4. None \notin Conns /\ Stopped \notin Conns /\ Starting \notin Conns /\ Bound \notin Conns
  BY <1>1, <1>3 DEF Conns
<1>5. sock \in Conns \/ sock \in {None, Starting, Bound, Stopped}
  BY DEF TypeOK
<1>6. sock \in Int
  <2>1. CASE sock \in Conns
    BY <1>2, <2>1
  <2>2. CASE sock \in {None, Starting, Bound, Stopped}
    BY <1>3, <2>2
  <2>. QED BY <1>5, <2>1, <2>2
<1>. QED BY <1>2, <1>4, <1>6

\* A step that reads and sends nothing.
LEMMA Quiet ==
  ASSUME TypeOK, OrderInv, UNCHANGED <<up, asked, executed, deframer>>, Unread' = Unread, ServedStays
  PROVE  WorkClear(deframer)' /\ LineInv' /\ DoneInv'
<1>1. AskedStays
  BY DEF AskedStays, Asked
<1>2. PICK R : Tagged(R, Unread) /\ Linked(R) /\ ToDo(R)
  BY DEF OrderInv, LineInv
<1>3. ToDo(R)'
  BY <1>1, <1>2, ToDoStays
<1>4. LineInv'
  BY <1>2, <1>3 DEF LineInv
<1>5. DoneInv'
  BY <1>1, DoneStays DEF OrderInv
<1>6. WorkClear(deframer)'
  BY DEF OrderInv, WorkClear
<1>. QED BY <1>4, <1>5, <1>6

\* One that leaves the queue alone.
LEMMA QuietQueue ==
  ASSUME TypeOK, OrderInv, UNCHANGED <<up, asked, backlog>>, sock' = sock \/ sock' \notin Conns
  PROVE  /\ Ascending' /\ WaitInv'
         /\ \A c \in Conns : Waiting(c)' <=> Waiting(c)
         /\ \A c \in Conns : Served(c) => Served(c)'
<1>1. \A c \in Conns : Waiting(c)' <=> Waiting(c)
  BY DEF Waiting
<1>2. Ascending'
  BY DEF OrderInv, Ascending
<1>3. AskedStays
  BY DEF AskedStays, Asked
<1>4. WaitInv'
  <2>. SUFFICES ASSUME NEW c \in Conns, Waiting(c)' PROVE (\E R : Sends(c, R))'
    BY DEF WaitInv
  <2>1. Waiting(c)
    BY <1>1
  <2>2. PICK R : Sends(c, R)
    BY <2>1 DEF OrderInv, WaitInv
  <2>3. Sends(c, R)'
    BY <1>3, <2>2, SendsStays
  <2>. QED BY <2>3
<1>5. \A c \in Conns : Served(c) => Served(c)'
  BY <1>1 DEF Served
<1>. QED BY <1>1, <1>2, <1>4, <1>5

LEMMA InitOrder == Init => OrderInv
<1>. SUFFICES ASSUME Init PROVE OrderInv
  OBVIOUS
<1>1. /\ client = [c \in Conns |-> "new"] /\ up = [c \in Conns |-> << >>]
      /\ asked = [c \in Conns |-> << >>] /\ backlog = << >> /\ sock = Starting
      /\ executed = << >> /\ deframer = [state |-> "INIT", fifo |-> << >>, work |-> << >>]
  BY DEF Init, Cobs_deframer_init
<1>2. deframer.state = "INIT" /\ deframer.fifo = << >>
  BY <1>1
<1>3. sock \notin Conns
  BY <1>1, SockIs, InitTypes
<1>4. Len(backlog) = 0 /\ \A c \in Conns : ~Waiting(c)
  BY <1>1 DEF Waiting
<1>5. NewInv /\ MetInv /\ SockInv /\ QueueInv /\ WaitInv
  BY <1>1, <1>3, <1>4 DEF NewInv, MetInv, SockInv, QueueInv, WaitInv
<1>6. Ascending
  BY <1>4 DEF Ascending
<1>7. WorkClear(deframer)
  BY <1>2 DEF WorkClear
<1>8. Unread = << >>
  <2>1. Held(deframer) = << >> \o << >>
    BY <1>2 DEF Held, Opened
  <2>. QED BY <1>3, <2>1 DEF Unread
<1>9. LineInv
  <2>1. << >> \in Seq(Tags) /\ Len(<< >>) = 0
    OBVIOUS
  <2>2. Tagged(<< >>, << >>) /\ Linked(<< >>) /\ ToDo(<< >>)
    BY <2>1 DEF Tagged, Linked, ToDo
  <2>. QED BY <1>8, <2>2 DEF LineInv
<1>10. DoneInv
  BY <1>1 DEF DoneInv
<1>. QED BY <1>5, <1>6, <1>7, <1>9, <1>10 DEF OrderInv

\* Steps of the thread that read nothing and take nobody from the queue.
LEMMA IdleOrder ==
  ASSUME TypeOK, OrderInv, UNCHANGED <<client, up, asked, backlog, executed, deframer>>,
         \/ sock' = sock
         \/ sock' \notin Conns /\ sock \notin Conns
         \/ sock' \notin Conns /\ sock \in Conns /\ up[sock] = << >>
  PROVE  OrderInv'
<1>1. GoodDeframer(deframer)
  BY DEF TypeOK, GoodDeframer
<1>2. Held(deframer) \in Seq(Bytes)
  <2>1. << >> \in Seq(Bytes)
    OBVIOUS
  <2>. QED BY <1>1, <2>1, HeldParts
<1>3. Unread' = Unread
  <2>1. CASE sock \in Conns /\ up[sock] = << >> /\ sock' \notin Conns
    <3>1. Unread = Held(deframer) \o << >> /\ Unread' = Held(deframer)
      BY <2>1 DEF Unread
    <3>. QED BY <1>2, <3>1, ConcatEmptySeq
  <2>2. CASE sock' = sock \/ (sock \notin Conns /\ sock' \notin Conns)
    BY <2>2 DEF Unread
  <2>. QED BY <2>1, <2>2
<1>4. /\ Ascending' /\ WaitInv'
      /\ \A c \in Conns : Waiting(c)' <=> Waiting(c)
      /\ \A c \in Conns : Served(c) => Served(c)'
  BY QuietQueue
<1>5. ServedStays
  BY <1>4 DEF ServedStays, Msgs
<1>6. WorkClear(deframer)' /\ LineInv' /\ DoneInv'
  BY <1>3, <1>5, Quiet
<1>7. NewInv' /\ MetInv'
  BY DEF OrderInv, NewInv, MetInv
<1>8. SockInv' /\ QueueInv'
  BY <1>4 DEF OrderInv, SockInv, QueueInv
<1>. QED BY <1>4, <1>6, <1>7, <1>8 DEF OrderInv

LEMMA CloseOrder ==
  ASSUME TypeOK, OrderInv, NEW c \in Conns, Close(c)
  PROVE  OrderInv'
<1>1. /\ client' = [client EXCEPT ![c] = "closed"] /\ client[c] = "open"
      /\ UNCHANGED <<up, asked, backlog, executed, deframer, sock>>
  BY DEF Close
<1>2. \A e \in Conns : client'[e] = "new" <=> client[e] = "new"
  BY <1>1 DEF TypeOK
<1>3. /\ Ascending' /\ WaitInv'
      /\ \A e \in Conns : Waiting(e)' <=> Waiting(e)
      /\ \A e \in Conns : Served(e) => Served(e)'
  BY <1>1, QuietQueue
<1>4. ServedStays
  BY <1>3 DEF ServedStays, Msgs
<1>5. Unread' = Unread
  BY <1>1 DEF Unread
<1>6. WorkClear(deframer)' /\ LineInv' /\ DoneInv'
  BY <1>1, <1>4, <1>5, Quiet
<1>7. NewInv' /\ MetInv'
  BY <1>1, <1>2 DEF OrderInv, NewInv, MetInv
<1>8. SockInv' /\ QueueInv'
  BY <1>1, <1>2, <1>3 DEF OrderInv, SockInv, QueueInv
<1>. QED BY <1>3, <1>6, <1>7, <1>8 DEF OrderInv

LEMMA ConnectOrder ==
  ASSUME TypeOK, OrderInv, NEW c \in Conns, Connect(c)
  PROVE  OrderInv'
<1>1. /\ client' = [client EXCEPT ![c] = "open"] /\ client[c] = "new"
      /\ \A e \in Conns : e < c => client[e] # "new"
      /\ backlog' = Append(backlog, c)
      /\ UNCHANGED <<up, asked, executed, deframer, sock>>
  BY DEF Connect
<1>2. Conns \subseteq Nat
  BY SockIs
<1>3. \A e \in Conns : client'[e] = "new" <=> client[e] = "new" /\ e # c
  BY <1>1 DEF TypeOK
<1>4. /\ Len(backlog) \in Nat /\ Len(backlog') = Len(backlog) + 1
      /\ \A i \in 1 .. Len(backlog) : backlog'[i] = backlog[i] /\ backlog[i] \in Conns
      /\ backlog'[Len(backlog) + 1] = c
  <2>1. backlog \in Seq(Conns)
    BY DEF TypeOK
  <2>. QED BY <1>1, <2>1, AppendProperties, LenProperties, ElementOfSeq
<1>5. \A e \in Conns : Waiting(e)' <=> Waiting(e) \/ e = c
  <2>. TAKE e \in Conns
  <2>1. ASSUME Waiting(e)' PROVE Waiting(e) \/ e = c
    <3>1. PICK i \in 1 .. Len(backlog) + 1 : backlog'[i] = e
      BY <1>4, <2>1 DEF Waiting
    <3>2. i \in 1 .. Len(backlog) \/ i = Len(backlog) + 1
      BY <1>4
    <3>. QED BY <1>4, <3>1, <3>2 DEF Waiting
  <2>2. ASSUME Waiting(e) PROVE Waiting(e)'
    <3>1. PICK i \in 1 .. Len(backlog) : backlog[i] = e
      BY <2>2 DEF Waiting
    <3>2. i \in 1 .. Len(backlog') /\ backlog'[i] = e
      BY <1>4, <3>1
    <3>. QED BY <3>2 DEF Waiting
  <2>3. ASSUME e = c PROVE Waiting(e)'
    <3>1. Len(backlog) + 1 \in 1 .. Len(backlog')
      BY <1>4
    <3>. QED BY <1>4, <2>3, <3>1 DEF Waiting
  <2>. QED BY <2>1, <2>2, <2>3
<1>6. \A e \in Conns : client[e] # "new" => e < c
  <2>. SUFFICES ASSUME NEW e \in Conns, client[e] # "new" PROVE e < c
    OBVIOUS
  <2>1. ~(c < e)
    BY <1>1 DEF OrderInv, MetInv
  <2>2. e # c /\ e \in Nat /\ c \in Nat
    BY <1>1, <1>2
  <2>. QED BY <2>1, <2>2
<1>7. ServedStays
  <2>. SUFFICES ASSUME NEW m \in Msgs, Asked(m), Served(m.conn) PROVE Served(m.conn)'
    BY DEF ServedStays
  <2> DEFINE e == m.conn
  <2>1. e \in Conns /\ m.seqn \in Nat \ {0}
    BY ServerAssumption DEF Msgs
  <2>2. asked[e] # << >>
    <3>1. Len(asked[e]) >= m.seqn
      BY <2>1 DEF Asked, TypeOK
    <3>2. Len(<< >>) = 0
      OBVIOUS
    <3>. QED BY <2>1, <3>1, <3>2
  <2>3. e < c
    BY <1>6, <2>1, <2>2 DEF OrderInv, NewInv
  <2>. HIDE DEF e
  <2>4. Served(e)'
    <3>1. Served(e)
      BY DEF e
    <3>. QED BY <1>1, <1>5, <2>3, <3>1 DEF Served
  <2>. QED BY <2>4 DEF e
<1>8. Unread' = Unread
  BY <1>1 DEF Unread
<1>9. WorkClear(deframer)' /\ LineInv' /\ DoneInv'
  BY <1>1, <1>7, <1>8, Quiet
<1>10. NewInv' /\ MetInv' /\ SockInv'
  <2>1. NewInv'
    BY <1>1, <1>3 DEF OrderInv, NewInv
  <2>2. MetInv'
    <3>. SUFFICES ASSUME NEW d \in Conns, NEW e \in Conns, e < d, client'[d] # "new"
                  PROVE  client'[e] # "new"
      BY DEF MetInv
    <3>1. CASE d = c
      BY <1>1, <1>3, <3>1
    <3>2. CASE d # c
      BY <1>3, <3>2 DEF OrderInv, MetInv
    <3>. QED BY <3>1, <3>2
  <2>3. SockInv'
    BY <1>1, <1>3 DEF OrderInv, SockInv
  <2>. QED BY <2>1, <2>2, <2>3
<1>11. QueueInv'
  <2>. SUFFICES ASSUME NEW e \in Conns, Waiting(e)'
                PROVE  client'[e] # "new" /\ (sock' \in Conns => sock' < e)
    BY DEF QueueInv
  <2>1. CASE Waiting(e)
    BY <1>1, <1>3, <2>1 DEF OrderInv, QueueInv
  <2>2. CASE e = c
    BY <1>1, <1>3, <1>6, <2>2 DEF OrderInv, SockInv
  <2>. QED BY <1>5, <2>1, <2>2
<1>12. Ascending'
  <2>. SUFFICES ASSUME NEW i \in 1 .. Len(backlog'), NEW j \in 1 .. Len(backlog'), i < j
                PROVE  backlog'[i] < backlog'[j]
    BY DEF Ascending
  <2>1. i \in 1 .. Len(backlog) /\ (j \in 1 .. Len(backlog) \/ j = Len(backlog) + 1)
    BY <1>4
  <2>2. CASE j \in 1 .. Len(backlog)
    BY <1>4, <2>1, <2>2 DEF OrderInv, Ascending
  <2>3. CASE j = Len(backlog) + 1
    <3>1. Waiting(backlog[i]) /\ backlog[i] \in Conns
      BY <1>4, <2>1 DEF Waiting
    <3>2. backlog[i] < c
      BY <1>6, <3>1 DEF OrderInv, QueueInv
    <3>. QED BY <1>4, <2>1, <2>3, <3>2
  <2>. QED BY <2>1, <2>2, <2>3
<1>13. WaitInv'
  <2>1. AskedStays
    BY <1>1 DEF AskedStays, Asked
  <2>. SUFFICES ASSUME NEW e \in Conns, Waiting(e)' PROVE (\E R : Sends(e, R))'
    BY DEF WaitInv
  <2>2. CASE Waiting(e)
    <3>1. PICK R : Sends(e, R)
      BY <2>2 DEF OrderInv, WaitInv
    <3>2. Sends(e, R)'
      BY <1>1, <2>1, <3>1, SendsStays
    <3>. QED BY <3>2
  <2>3. CASE e = c
    <3>1. up'[e] = << >>
      BY <1>1, <2>3 DEF OrderInv, NewInv
    <3>2. << >> \in Seq(Tags) /\ Len(<< >>) = 0
      OBVIOUS
    <3>3. Tagged(<< >>, << >>) /\ Linked(<< >>)
      BY <3>2 DEF Tagged, Linked
    <3>4. Sends(e, << >>)'
      BY <3>1, <3>2, <3>3 DEF Sends
    <3>. QED BY <3>4
  <2>. QED BY <1>5, <2>2, <2>3
<1>. QED BY <1>9, <1>10, <1>11, <1>12, <1>13 DEF OrderInv

\* The unread bytes are bytes.
LEMMA UnreadIs ==
  ASSUME TypeOK
  PROVE  /\ GoodDeframer(deframer) /\ Held(deframer) \in Seq(Bytes) /\ Unread \in Seq(Bytes)
         /\ \A c \in Conns : up[c] \in Seq(Bytes)
<1>1. GoodDeframer(deframer)
  BY DEF TypeOK, GoodDeframer
<1>2. << >> \in Seq(Bytes)
  OBVIOUS
<1>3. Held(deframer) \in Seq(Bytes)
  BY <1>1, <1>2, HeldParts
<1>4. \A c \in Conns : up[c] \in Seq(Bytes)
  BY DEF TypeOK
<1>5. Unread \in Seq(Bytes)
  <2>1. CASE sock \in Conns
    <3>1. Held(deframer) \o up[sock] \in Seq(Bytes)
      BY <1>3, <1>4, <2>1, Join
    <3>. QED BY <2>1, <3>1 DEF Unread
  <2>2. CASE sock \notin Conns
    BY <1>3, <2>2 DEF Unread
  <2>. QED BY <2>1, <2>2
<1>. QED BY <1>1, <1>3, <1>4, <1>5

\* The beginning of what is to be read.
LEMMA LineCut ==
  ASSUME NEW bytes \in Seq(Bytes), NEW R, Tagged(R, bytes), Linked(R),
         NEW k \in 0 .. Len(bytes)
  PROVE  \E Q : /\ Tagged(Q, SubSeq(bytes, 1, k)) /\ Linked(Q) /\ Len(Q) = k
                /\ \A i \in 1 .. Len(Q) : i \in 1 .. Len(R) /\ Q[i] = R[i]
<1> DEFINE Q == SubSeq(R, 1, k)
<1>1. Len(bytes) \in Nat /\ k \in Int /\ 1 \in Int /\ 1 =< 1 /\ k =< Len(bytes)
  BY LenProperties
<1>2. /\ Tagged(Q, SubSeq(bytes, 1, k)) /\ Linked(Q)
      /\ Len(Q) = IF 1 =< k THEN k - 1 + 1 ELSE 0
      /\ \A i \in 1 .. Len(Q) : Q[i] = R[1 + i - 1] /\ 1 + i - 1 \in 1 .. Len(R)
  BY <1>1, StretchTagged
<1>. HIDE DEF Q
<1>3. Len(Q) = k
  BY <1>1, <1>2
<1>4. \A i \in 1 .. Len(Q) : 1 + i - 1 = i
  BY <1>1, <1>3
<1>5. \A i \in 1 .. Len(Q) : i \in 1 .. Len(R) /\ Q[i] = R[i]
  BY <1>2, <1>4
<1>. QED BY <1>2, <1>3, <1>5

\* Its end.
LEMMA LineFrom ==
  ASSUME NEW bytes \in Seq(Bytes), NEW R, Tagged(R, bytes), Linked(R),
         NEW k \in 0 .. Len(bytes)
  PROVE  \E Q : /\ Tagged(Q, From(bytes, k)) /\ Linked(Q)
                /\ \A i \in 1 .. Len(Q) : k + i \in 1 .. Len(R) /\ Q[i] = R[k + i]
<1> DEFINE a == k + 1
           n == Len(bytes)
           Q == SubSeq(R, a, n)
<1>1. n \in Nat /\ a \in Int /\ n \in Int /\ 1 =< a /\ n =< Len(bytes)
  BY LenProperties
<1>2. /\ Tagged(Q, SubSeq(bytes, a, n)) /\ Linked(Q)
      /\ Len(Q) = IF a =< n THEN n - a + 1 ELSE 0
      /\ \A i \in 1 .. Len(Q) : Q[i] = R[a + i - 1] /\ a + i - 1 \in 1 .. Len(R)
  <2>. HIDE DEF a, n
  <2>. QED BY <1>1, StretchTagged
<1>. HIDE DEF Q
<1>3. Len(Q) \in Nat
  <2>. HIDE DEF a, n
  <2>. QED BY <1>1, <1>2
<1>4. \A i \in 1 .. Len(Q) : a + i - 1 = k + i
  BY <1>3
<1>5. \A i \in 1 .. Len(Q) : k + i \in 1 .. Len(R) /\ Q[i] = R[k + i]
  <2>. HIDE DEF a, n
  <2>. QED BY <1>2, <1>4
<1>. QED BY <1>2, <1>5 DEF From

PrefixJoined(s, t, k) ==
  \E j \in 0 .. Len(s \o t) : s \o SubSeq(t, 1, k) = SubSeq(s \o t, 1, j)

LEMMA PrefixIs ==
  ASSUME NEW s \in Seq(Bytes), NEW t \in Seq(Bytes), NEW k \in 0 .. Len(t)
  PROVE  PrefixJoined(s, t, k)
<1> DEFINE u == s \o t
           v == SubSeq(t, 1, k)
           w == s \o v
           j == Len(s) + k
           x == SubSeq(u, 1, j)
<1>1. Len(s) \in Nat /\ Len(t) \in Nat /\ k \in Int /\ 1 \in Int /\ 1 =< 1 /\ k =< Len(t)
      /\ k >= 0
  BY LenProperties
<1>2. Joined(u, s, t)
  BY JoinedIs
<1>3. /\ v \in Seq(Bytes) /\ Len(v) = (IF 1 =< k THEN k - 1 + 1 ELSE 0)
      /\ \A i \in 1 .. k - 1 + 1 : v[i] = t[1 + i - 1]
  BY <1>1, Part
<1>. HIDE DEF u, v
<1>4. Len(v) = k /\ \A i \in 1 .. k : v[i] = t[i]
  BY <1>1, <1>3
<1>5. Joined(w, s, v)
  BY <1>3, JoinedIs
<1>. HIDE DEF w
<1>6. u \in Seq(Bytes) /\ j \in Int /\ j =< Len(u) /\ j >= 0 /\ Len(u) = Len(s) + Len(t)
  BY <1>1, <1>2 DEF Joined
<1>7. /\ x \in Seq(Bytes) /\ Len(x) = (IF 1 =< j THEN j - 1 + 1 ELSE 0)
      /\ \A i \in 1 .. j - 1 + 1 : x[i] = u[1 + i - 1]
  <2>. HIDE DEF j
  <2>. QED BY <1>1, <1>6, Part
<1>. HIDE DEF x
<1>8. Len(x) = j /\ \A i \in 1 .. j : x[i] = u[i]
  <2>. HIDE DEF j
  <2>. QED BY <1>6, <1>7
<1>9. w \in Seq(Bytes) /\ Len(w) = j
  BY <1>4, <1>5 DEF Joined
<1>10. ASSUME NEW i \in 1 .. Len(w) PROVE w[i] = x[i]
  <2>1. i \in 1 .. j
    BY <1>9
  <2>2. CASE i \in 1 .. Len(s)
    <3>. HIDE DEF j
    <3>. QED BY <1>2, <1>5, <1>8, <2>1, <2>2 DEF Joined
  <2>3. CASE i \notin 1 .. Len(s)
    <3> DEFINE l == i - Len(s)
    <3>1. l \in 1 .. k /\ l \in 1 .. Len(t) /\ i = Len(s) + l
      BY <1>1, <2>1, <2>3
    <3>. HIDE DEF l, j
    <3>2. w[i] = v[l]
      BY <1>4, <1>5, <3>1 DEF Joined
    <3>3. u[i] = t[l]
      BY <1>2, <3>1 DEF Joined
    <3>. QED BY <1>4, <1>8, <2>1, <3>1, <3>2, <3>3
  <2>. QED BY <2>2, <2>3
<1>11. w = x
  BY <1>7, <1>8, <1>9, <1>10, SeqEqual
<1>12. j \in 0 .. Len(u)
  BY <1>6
<1>. QED BY <1>11, <1>12 DEF PrefixJoined, w, v, x, u

\* A client that breaks down takes the end of its bytes with it.
LEMMA BreakOrder ==
  ASSUME TypeOK, OrderInv, NEW c \in Conns, Break(c)
  PROVE  OrderInv'
<1>1. /\ client' = [client EXCEPT ![c] = "broken"] /\ client[c] = "open"
      /\ UNCHANGED <<asked, backlog, executed, deframer, sock>>
  BY DEF Break
<1>2. PICK k \in 0 .. Len(up[c]) : up' = [up EXCEPT ![c] = SubSeq(up[c], 1, k)]
  BY DEF Break
<1>3. /\ up'[c] = SubSeq(up[c], 1, k) /\ \A e \in Conns \ {c} : up'[e] = up[e]
      /\ up[c] \in Seq(Bytes)
  BY <1>2 DEF TypeOK
<1>4. \A e \in Conns : client'[e] = "new" <=> client[e] = "new"
  BY <1>1 DEF TypeOK
<1>5. \A e \in Conns : Waiting(e)' <=> Waiting(e)
  BY <1>1 DEF Waiting
<1>6. AskedStays /\ ServedStays
  <2>1. \A e \in Conns : Served(e) => Served(e)'
    BY <1>1, <1>5 DEF Served
  <2>. QED BY <1>1, <2>1 DEF AskedStays, ServedStays, Asked, Msgs
<1>7. NewInv' /\ MetInv' /\ SockInv' /\ QueueInv' /\ Ascending'
  <2>1. NewInv'
    <3>. SUFFICES ASSUME NEW e \in Conns, client'[e] = "new" PROVE asked'[e] = << >> /\ up'[e] = << >>
      BY DEF NewInv
    <3>1. client[e] = "new" /\ e # c
      BY <1>1, <1>4
    <3>. QED BY <1>1, <1>3, <3>1 DEF OrderInv, NewInv
  <2>2. MetInv' /\ SockInv' /\ QueueInv' /\ Ascending'
    BY <1>1, <1>4, <1>5 DEF OrderInv, MetInv, SockInv, QueueInv, Ascending
  <2>. QED BY <2>1, <2>2
<1>8. WaitInv'
  <2>. SUFFICES ASSUME NEW e \in Conns, Waiting(e)' PROVE (\E R : Sends(e, R))'
    BY DEF WaitInv
  <2>1. PICK R : Sends(e, R)
    BY <1>5 DEF OrderInv, WaitInv
  <2>2. CASE e # c
    <3>1. Sends(e, R)'
      BY <1>3, <1>6, <2>1, <2>2, SendsStays
    <3>. QED BY <3>1
  <2>3. CASE e = c
    <3>1. /\ Tagged(R, up[c]) /\ Linked(R) /\ (Len(R) > 0 => R[1].at = 1)
          /\ \A i \in 1 .. Len(R) : R[i].msg.conn = c /\ Asked(R[i].msg)
      BY <2>1, <2>3 DEF Sends
    <3>2. PICK Q : /\ Tagged(Q, SubSeq(up[c], 1, k)) /\ Linked(Q) /\ Len(Q) = k
                   /\ \A i \in 1 .. Len(Q) : i \in 1 .. Len(R) /\ Q[i] = R[i]
      BY <1>3, <3>1, LineCut
    <3>3. \A i \in 1 .. Len(Q) : Q[i].msg.conn = c /\ Asked(Q[i].msg)'
      BY <1>1, <3>1, <3>2 DEF Asked
    <3>4. Len(Q) > 0 => Q[1].at = 1
      <4>. SUFFICES ASSUME Len(Q) > 0 PROVE Q[1].at = 1
        OBVIOUS
      <4>1. 1 \in 1 .. Len(Q) /\ Len(R) \in Nat
        BY <3>1, <3>2, LenProperties DEF Tagged
      <4>2. Q[1] = R[1] /\ Len(R) > 0
        BY <3>2, <4>1
      <4>. QED BY <3>1, <4>2
    <3>5. Sends(e, Q)'
      BY <1>3, <2>3, <3>2, <3>3, <3>4 DEF Sends
    <3>. QED BY <3>5
  <2>. QED BY <2>2, <2>3
<1>9. \E j \in 0 .. Len(Unread) : Unread' = SubSeq(Unread, 1, j)
  <2>0. Len(Unread) \in Nat /\ Unread \in Seq(Bytes)
    BY UnreadIs, LenProperties
  <2>1. CASE c = sock
    <3> DEFINE h == Held(deframer)
               s == up[c]
    <3>1. h \in Seq(Bytes) /\ s \in Seq(Bytes) /\ Unread = h \o s /\ Unread' = h \o SubSeq(s, 1, k)
      BY <1>1, <1>3, <2>1, UnreadIs DEF Unread
    <3>. HIDE DEF h, s
    <3>2. k \in 0 .. Len(s)
      BY DEF s
    <3>3. PrefixJoined(h, s, k)
      BY <3>1, <3>2, PrefixIs
    <3>. QED BY <3>1, <3>3 DEF PrefixJoined
  <2>2. CASE c # sock
    <3>1. Unread' = Unread
      BY <1>1, <1>3, <2>2 DEF Unread
    <3>2. Unread = SubSeq(Unread, 1, Len(Unread)) /\ Len(Unread) \in 0 .. Len(Unread)
      BY <2>0, SubSeqFull
    <3>. QED BY <3>1, <3>2
  <2>. QED BY <2>1, <2>2
<1>10. LineInv'
  <2>1. PICK j \in 0 .. Len(Unread) : Unread' = SubSeq(Unread, 1, j)
    BY <1>9
  <2>2. PICK R : Tagged(R, Unread) /\ Linked(R) /\ ToDo(R)
    BY DEF OrderInv, LineInv
  <2>3. PICK Q : /\ Tagged(Q, SubSeq(Unread, 1, j)) /\ Linked(Q) /\ Len(Q) = j
                 /\ \A i \in 1 .. Len(Q) : i \in 1 .. Len(R) /\ Q[i] = R[i]
    BY <2>2, UnreadIs, LineCut
  <2>4. ToDo(Q)
    BY <2>2, <2>3 DEF ToDo
  <2>5. ToDo(Q)'
    BY <1>1, <1>6, <2>3, <2>4, ToDoStays
  <2>. QED BY <2>1, <2>3, <2>5 DEF LineInv
<1>11. WorkClear(deframer)' /\ DoneInv'
  BY <1>1, <1>6, DoneStays DEF OrderInv, WorkClear
<1>. QED BY <1>7, <1>8, <1>10, <1>11 DEF OrderInv

LEMMA JoinedTags ==
  ASSUME NEW s \in Seq(Bytes), NEW t \in Seq(Bytes), NEW R, NEW Q,
         Tagged(R, s), Linked(R), Tagged(Q, t), Linked(Q), Len(Q) > 0 => Q[1].at = 1,
         \A i \in 1 .. Len(R) : \A j \in 1 .. Len(Q) : Rank(R[i].msg) < Rank(Q[j].msg)
  PROVE  \E U : /\ Tagged(U, s \o t) /\ Linked(U)
                /\ \A i \in 1 .. Len(U) : \/ i \in 1 .. Len(R) /\ U[i] = R[i]
                                          \/ \E j \in 1 .. Len(Q) : U[i] = Q[j] /\ i = Len(R) + j
<1> DEFINE U == R \o Q
<1>1. /\ Tagged(U, s \o t) /\ Linked(U) /\ Len(U) = Len(R) + Len(Q)
      /\ \A i \in 1 .. Len(R) : U[i] = R[i]
      /\ \A i \in 1 .. Len(Q) : U[Len(R) + i] = Q[i]
  BY JoinTagged
<1>2. Len(R) \in Nat /\ Len(Q) \in Nat
  BY LenProperties DEF Tagged
<1>. HIDE DEF U
<1>3. ASSUME NEW i \in 1 .. Len(U)
      PROVE  \/ i \in 1 .. Len(R) /\ U[i] = R[i]
             \/ \E j \in 1 .. Len(Q) : U[i] = Q[j] /\ i = Len(R) + j
  <2>1. CASE i \in 1 .. Len(R)
    BY <1>1, <2>1
  <2>2. CASE i \notin 1 .. Len(R)
    <3> DEFINE j == i - Len(R)
    <3>1. j \in 1 .. Len(Q) /\ i = Len(R) + j
      BY <1>1, <1>2, <2>2
    <3>. HIDE DEF j
    <3>2. U[i] = Q[j]
      BY <1>1, <3>1
    <3>. QED BY <3>1, <3>2
  <2>. QED BY <2>1, <2>2
<1>. QED BY <1>1, <1>3

\* What is sent comes after all that was.
SentLast(m) == \A u \in Msgs : Asked(u) /\ u.conn =< m.conn => Rank(u) < Rank(m)

LEMMA SendIs ==
  ASSUME TypeOK, NEW c \in Conns, NEW tail \in Tails, Send(c, tail),
         NEW m, m = [conn |-> c, seqn |-> Len(asked[c]) + 1, tail |-> tail]
  PROVE  /\ m \in Msgs /\ m.conn = c /\ SentLast(m) /\ Asked(m)'
         /\ AskedStays
         /\ up' = [up EXCEPT ![c] = up[c] \o Frame(m)]
         /\ \A e \in Conns \ {c} : asked'[e] = asked[e]
<1>1. Len(asked[c]) + 1 \in 1 .. MaxRequests
  BY SentRoom DEF TypeOK, Send
<1>2. m \in Msgs /\ m.conn = c /\ m.seqn = Len(asked[c]) + 1
  BY <1>1 DEF Msgs
<1>3. asked' = [asked EXCEPT ![c] = Append(asked[c], m)]
  BY DEF Send
<1>4. up' = [up EXCEPT ![c] = up[c] \o <<Delimiter>> \o Encodings[m] \o <<Delimiter>>]
  BY DEF Send
<1>5. up' = [up EXCEPT ![c] = up[c] \o Frame(m)]
  BY <1>2, <1>4, FrameIs DEF TypeOK
<1>6. asked[c] \in Seq(Msgs) /\ Len(asked[c]) \in Nat
  BY LenProperties DEF TypeOK
<1>7. asked'[c] = Append(asked[c], m) /\ \A e \in Conns \ {c} : asked'[e] = asked[e]
  BY <1>3 DEF TypeOK
<1>8. /\ Len(asked'[c]) = Len(asked[c]) + 1
      /\ \A i \in 1 .. Len(asked[c]) : asked'[c][i] = asked[c][i]
      /\ asked'[c][Len(asked[c]) + 1] = m
  BY <1>2, <1>6, <1>7, AppendProperties
<1>9. Asked(m)'
  BY <1>2, <1>6, <1>8 DEF Asked
<1>10. AskedStays
  <2>. SUFFICES ASSUME NEW u \in Msgs, Asked(u) PROVE Asked(u)'
    BY DEF AskedStays
  <2>1. u.conn \in Conns /\ u.seqn \in Nat \ {0}
    BY ServerAssumption DEF Msgs
  <2>2. CASE u.conn = c
    <3>1. u.seqn \in 1 .. Len(asked[c]) /\ asked[c][u.seqn] = u
      BY <1>6, <2>1, <2>2 DEF Asked
    <3>2. asked'[c][u.seqn] = u /\ u.seqn =< Len(asked'[c])
      BY <1>6, <1>8, <3>1
    <3>. QED BY <2>2, <3>2 DEF Asked
  <2>3. CASE u.conn # c
    BY <1>7, <2>1, <2>3 DEF Asked
  <2>. QED BY <2>2, <2>3
<1>11. SentLast(m)
  <2>. SUFFICES ASSUME NEW u \in Msgs, Asked(u), u.conn =< c PROVE Rank(u) < Rank(m)
    BY <1>2 DEF SentLast
  <2>1. u.conn \in Nat /\ u.seqn \in Nat /\ c \in Nat
    BY ServerAssumption, SockIs DEF Msgs
  <2>2. Before(u, m)
    <3>1. CASE u.conn = c
      <4>1. u.seqn < m.seqn
        BY <1>2, <1>6, <2>1, <3>1 DEF Asked
      <4>. QED BY <1>2, <3>1, <4>1 DEF Before
    <3>2. CASE u.conn # c
      <4>1. u.conn < c
        BY <2>1, <3>2
      <4>. QED BY <1>2, <4>1 DEF Before
    <3>. QED BY <3>1, <3>2
  <2>. QED BY <1>2, <2>2, RankOrders
<1>. QED BY <1>2, <1>5, <1>7, <1>9, <1>10, <1>11

LEMMA SendOrder ==
  ASSUME TypeOK, OrderInv, NEW c \in Conns, NEW tail \in Tails, Send(c, tail)
  PROVE  OrderInv'
<1>1. PICK m : m = [conn |-> c, seqn |-> Len(asked[c]) + 1, tail |-> tail]
  OBVIOUS
<1>2. /\ m \in Msgs /\ m.conn = c /\ SentLast(m) /\ Asked(m)'
      /\ AskedStays
      /\ up' = [up EXCEPT ![c] = up[c] \o Frame(m)]
      /\ \A e \in Conns \ {c} : asked'[e] = asked[e]
  BY <1>1, SendIs
<1>3. client[c] = "open" /\ UNCHANGED <<client, backlog, executed, deframer, sock>>
  BY DEF Send
<1>4. /\ up'[c] = up[c] \o Frame(m) /\ \A e \in Conns \ {c} : up'[e] = up[e]
      /\ up[c] \in Seq(Bytes)
  BY <1>2 DEF TypeOK
<1>5. \A e \in Conns : Waiting(e)' <=> Waiting(e)
  BY <1>3 DEF Waiting
<1>6. \A e \in Conns : Served(e) <=> Served(e)'
  BY <1>3, <1>5 DEF Served
<1>7. ServedStays
  BY <1>6 DEF ServedStays, Msgs
<1>8. NewInv' /\ MetInv' /\ SockInv' /\ QueueInv' /\ Ascending'
  <2>1. NewInv'
    <3>. SUFFICES ASSUME NEW e \in Conns, client'[e] = "new" PROVE asked'[e] = << >> /\ up'[e] = << >>
      BY DEF NewInv
    <3>1. client[e] = "new" /\ e # c
      BY <1>3
    <3>. QED BY <1>2, <1>4, <3>1 DEF OrderInv, NewInv
  <2>2. MetInv' /\ SockInv' /\ QueueInv' /\ Ascending'
    BY <1>3, <1>5 DEF OrderInv, MetInv, SockInv, QueueInv, Ascending
  <2>. QED BY <2>1, <2>2
<1> DEFINE Q == FrameTags(m)
<1>9. /\ Tagged(Q, Frame(m)) /\ Linked(Q) /\ Len(Q) > 0 /\ Q[1].at = 1
      /\ \A i \in 1 .. Len(Q) : Q[i].msg = m
      /\ Frame(m) \in Seq(Bytes)
  <2>1. /\ Tagged(Q, Frame(m)) /\ Linked(Q) /\ Len(Q) = Len(Frame(m)) /\ Q[1].at = 1
        /\ \A i \in 1 .. Len(Q) : Q[i].msg = m
    BY <1>2, FrameTagsAre
  <2>2. /\ Len(Frame(m)) = Len(Encodings[m]) + 2 /\ Frame(m) \in Seq(Bytes)
        /\ Encodings[m] \in Seq(Bytes)
    BY <1>2, FrameIs
  <2>3. Len(Encodings[m]) \in Nat
    BY <2>2, LenProperties
  <2>4. Len(Q) > 0
    <3>. HIDE DEF Q
    <3>. QED BY <2>1, <2>2, <2>3
  <2>. QED BY <2>1, <2>2, <2>4
<1>. HIDE DEF Q
<1>10. WaitInv'
  <2>. SUFFICES ASSUME NEW e \in Conns, Waiting(e)' PROVE (\E R : Sends(e, R))'
    BY DEF WaitInv
  <2>1. PICK R : Sends(e, R)
    BY <1>5 DEF OrderInv, WaitInv
  <2>2. CASE e # c
    <3>1. Sends(e, R)'
      BY <1>2, <1>4, <2>1, <2>2, SendsStays
    <3>. QED BY <3>1
  <2>3. CASE e = c
    <3>1. /\ Tagged(R, up[c]) /\ Linked(R) /\ (Len(R) > 0 => R[1].at = 1)
          /\ \A i \in 1 .. Len(R) : R[i].msg.conn = c /\ Asked(R[i].msg)
      BY <2>1, <2>3 DEF Sends
    <3>2. \A i \in 1 .. Len(R) : R[i].msg \in Msgs
      BY <3>1, TagsMsgs
    <3>3. \A i \in 1 .. Len(R) : Rank(R[i].msg) < Rank(m)
      <4>1. c =< c
        BY SockIs
      <4>. QED BY <1>2, <3>1, <3>2, <4>1 DEF SentLast
    <3>4. \A i \in 1 .. Len(R) : \A j \in 1 .. Len(Q) : Rank(R[i].msg) < Rank(Q[j].msg)
      BY <1>9, <3>3
    <3>5. PICK U : /\ Tagged(U, up[c] \o Frame(m)) /\ Linked(U)
                   /\ \A i \in 1 .. Len(U) : \/ i \in 1 .. Len(R) /\ U[i] = R[i]
                                             \/ \E j \in 1 .. Len(Q) : U[i] = Q[j] /\ i = Len(R) + j
      <4> DEFINE s == up[c]
                 f == Frame(m)
      <4>1. s \in Seq(Bytes) /\ f \in Seq(Bytes)
        BY <1>4, <1>9
      <4>2. Tagged(R, s) /\ Linked(R) /\ Tagged(Q, f) /\ Linked(Q) /\ (Len(Q) > 0 => Q[1].at = 1)
        BY <1>9, <3>1
      <4>. HIDE DEF s, f
      <4>3. \E U : /\ Tagged(U, s \o f) /\ Linked(U)
                   /\ \A i \in 1 .. Len(U) : \/ i \in 1 .. Len(R) /\ U[i] = R[i]
                                             \/ \E j \in 1 .. Len(Q) : U[i] = Q[j] /\ i = Len(R) + j
        BY <3>4, <4>1, <4>2, JoinedTags
      <4>. QED BY <4>3 DEF s, f
    <3>6. \A i \in 1 .. Len(U) : U[i].msg.conn = c /\ Asked(U[i].msg)'
      <4>1. \A i \in 1 .. Len(R) : R[i].msg.conn = c /\ Asked(R[i].msg)'
        BY <1>2, <3>1, <3>2 DEF AskedStays
      <4>. QED BY <1>2, <1>9, <3>5, <4>1
    <3>7. Len(U) > 0 => U[1].at = 1
      <4>. SUFFICES ASSUME Len(U) > 0 PROVE U[1].at = 1
        OBVIOUS
      <4>1. 1 \in 1 .. Len(U) /\ Len(R) \in Nat
        BY <3>1, <3>5, LenProperties DEF Tagged
      <4>2. CASE 1 \in 1 .. Len(R) /\ U[1] = R[1]
        <5>1. Len(R) > 0
          BY <4>1, <4>2
        <5>. QED BY <3>1, <4>2, <5>1
      <4>3. CASE \E j \in 1 .. Len(Q) : U[1] = Q[j] /\ 1 = Len(R) + j
        <5>1. PICK j \in 1 .. Len(Q) : U[1] = Q[j] /\ 1 = Len(R) + j
          BY <4>3
        <5>2. j = 1
          BY <4>1, <5>1
        <5>. QED BY <1>9, <5>1, <5>2
      <4>. QED BY <3>5, <4>1, <4>2, <4>3
    <3>8. Sends(e, U)'
      BY <1>4, <2>3, <3>5, <3>6, <3>7 DEF Sends
    <3>. QED BY <3>8
  <2>. QED BY <2>2, <2>3
<1>11. PICK R : Tagged(R, Unread) /\ Linked(R) /\ ToDo(R)
  BY DEF OrderInv, LineInv
<1>12. ToDo(R)'
  BY <1>2, <1>3, <1>7, <1>11, ToDoStays
<1>13. LineInv'
  <2>1. CASE c # sock
    <3>1. Unread' = Unread
      BY <1>3, <1>4, <2>1 DEF Unread
    <3>. QED BY <1>11, <1>12, <3>1 DEF LineInv
  <2>2. CASE c = sock
    <3> DEFINE h == Held(deframer)
               s == up[c]
               f == Frame(m)
    <3>1. h \in Seq(Bytes) /\ s \in Seq(Bytes) /\ f \in Seq(Bytes)
          /\ Unread = h \o s /\ Unread' = h \o (s \o f) /\ Unread \in Seq(Bytes)
      BY <1>3, <1>4, <1>9, <2>2, UnreadIs DEF Unread
    <3>2. Unread' = Unread \o f
      <4>. HIDE DEF h, s, f
      <4>1. Associates(h, s, f)
        BY <3>1, Associative
      <4>. QED BY <3>1, <4>1 DEF Associates
    <3>. HIDE DEF h, s
    <3>3. \A i \in 1 .. Len(R) : R[i].msg \in Msgs
      BY <1>11, TagsMsgs
    <3>4. \A i \in 1 .. Len(R) : Rank(R[i].msg) < Rank(m)
      BY <1>2, <1>11, <2>2, <3>3 DEF SentLast, ToDo, Served
    <3>5. \A i \in 1 .. Len(R) : \A j \in 1 .. Len(Q) : Rank(R[i].msg) < Rank(Q[j].msg)
      BY <1>9, <3>4
    <3>6. PICK U : /\ Tagged(U, Unread \o f) /\ Linked(U)
                   /\ \A i \in 1 .. Len(U) : \/ i \in 1 .. Len(R) /\ U[i] = R[i]
                                             \/ \E j \in 1 .. Len(Q) : U[i] = Q[j] /\ i = Len(R) + j
      <4>1. Tagged(Q, f) /\ Linked(Q) /\ (Len(Q) > 0 => Q[1].at = 1)
        BY <1>9
      <4>2. Unread \in Seq(Bytes) /\ f \in Seq(Bytes)
        BY <3>1
      <4>. HIDE DEF f
      <4>. QED BY <1>11, <3>5, <4>1, <4>2, JoinedTags
    <3>7. Served(c)'
      <4>1. Served(c)
        <5>1. \A e \in Conns : Waiting(e) => c < e
          BY <2>2 DEF OrderInv, QueueInv
        <5>2. c =< sock
          BY <2>2, SockIs
        <5>. QED BY <5>1, <5>2 DEF Served
      <4>. QED BY <1>6, <4>1
    <3>8. \A j \in 1 .. Len(executed) : Rank(executed[j]) < Rank(m)
      <4>. TAKE j \in 1 .. Len(executed)
      <4>1. executed[j] \in Msgs
        BY ElementOfSeq DEF TypeOK
      <4>2. Asked(executed[j]) /\ executed[j].conn =< c
        BY <2>2 DEF OrderInv, DoneInv, Served
      <4>. QED BY <1>2, <4>1, <4>2 DEF SentLast
    <3>9. ToDo(U)'
      <4>. SUFFICES ASSUME NEW i \in 1 .. Len(U)
                    PROVE  /\ Asked(U[i].msg)' /\ Served(U[i].msg.conn)'
                           /\ \A j \in 1 .. Len(executed') : Rank(executed'[j]) < Rank(U[i].msg)
        BY DEF ToDo
      <4>1. CASE i \in 1 .. Len(R) /\ U[i] = R[i]
        BY <1>12, <4>1 DEF ToDo
      <4>2. CASE \E j \in 1 .. Len(Q) : U[i] = Q[j] /\ i = Len(R) + j
        <5>1. U[i].msg = m
          BY <1>9, <4>2
        <5>. QED BY <1>2, <1>3, <3>7, <3>8, <5>1
      <4>. QED BY <3>6, <4>1, <4>2
    <3>. QED BY <3>2, <3>6, <3>9 DEF LineInv
  <2>. QED BY <2>1, <2>2
<1>14. WorkClear(deframer)' /\ DoneInv'
  BY <1>2, <1>3, <1>7, DoneStays DEF OrderInv, WorkClear
<1>. QED BY <1>8, <1>10, <1>13, <1>14 DEF OrderInv

\* The next client, with what it sent meanwhile.
LEMMA AcceptOrder ==
  ASSUME TypeOK, OrderInv, Accept
  PROVE  OrderInv'
<1>1. /\ sock = None /\ backlog # << >> /\ sock' = Head(backlog) /\ backlog' = Tail(backlog)
      /\ UNCHANGED <<client, up, asked, executed, deframer>>
  BY DEF Accept, TcpSocket_accept, clientVars
<1>2. sock \notin Conns /\ Conns \subseteq Nat
  BY <1>1, SockIs
<1>3. backlog \in Seq(Conns) /\ Len(backlog) \in Nat
  BY LenProperties DEF TypeOK
<1>4. /\ Len(backlog') = Len(backlog) - 1
      /\ \A i \in 1 .. Len(backlog') : backlog'[i] = backlog[i + 1]
  BY <1>1, <1>3, HeadTailProperties
<1>5. Len(backlog) > 0 /\ 1 \in 1 .. Len(backlog)
  BY <1>1, <1>3, EmptySeq
<1>6. PICK c \in Conns : c = sock' /\ c = backlog[1] /\ Waiting(c)
  <2>1. Head(backlog) \in Conns /\ Head(backlog) = backlog[1]
    BY <1>1, <1>3, HeadTailProperties
  <2>. QED BY <1>1, <1>5, <2>1 DEF Waiting
<1>7. \A e \in Conns : Waiting(e)' => Waiting(e) /\ c < e
  <2>. SUFFICES ASSUME NEW e \in Conns, Waiting(e)' PROVE Waiting(e) /\ c < e
    OBVIOUS
  <2>1. PICK i \in 1 .. Len(backlog') : backlog'[i] = e
    BY DEF Waiting
  <2> DEFINE j == i + 1
  <2>2. j \in 1 .. Len(backlog) /\ 1 < j
    BY <1>3, <1>4
  <2>3. backlog[j] = e
    BY <1>4, <2>1
  <2>. HIDE DEF j
  <2>4. backlog[1] < backlog[j]
    BY <1>5, <2>2 DEF OrderInv, Ascending
  <2>. QED BY <1>6, <2>2, <2>3, <2>4 DEF Waiting
<1>8. AskedStays
  BY <1>1 DEF AskedStays, Asked
<1>9. \A e \in Conns : Served(e) => e < c /\ Served(e)'
  <2>. SUFFICES ASSUME NEW e \in Conns, Served(e) PROVE e < c /\ Served(e)'
    OBVIOUS
  <2>1. e < c
    BY <1>6 DEF Served
  <2>2. e =< sock'
    BY <1>2, <1>6, <2>1
  <2>3. \A d \in Conns : Waiting(d)' => e < d
    BY <1>7 DEF Served
  <2>. QED BY <2>1, <2>2, <2>3 DEF Served
<1>10. ServedStays
  BY <1>9 DEF ServedStays, Msgs
<1>11. Served(c)'
  <2>1. c =< sock'
    BY <1>2, <1>6
  <2>. QED BY <1>7, <2>1 DEF Served
<1>12. NewInv' /\ MetInv' /\ SockInv'
  <2>1. NewInv' /\ MetInv'
    BY <1>1 DEF OrderInv, NewInv, MetInv
  <2>2. client[c] # "new"
    BY <1>6 DEF OrderInv, QueueInv
  <2>. QED BY <1>1, <1>6, <2>1, <2>2 DEF SockInv
<1>13. QueueInv'
  BY <1>1, <1>6, <1>7 DEF OrderInv, QueueInv
<1>14. Ascending'
  <2>. SUFFICES ASSUME NEW i \in 1 .. Len(backlog'), NEW j \in 1 .. Len(backlog'), i < j
                PROVE  backlog'[i] < backlog'[j]
    BY DEF Ascending
  <2> DEFINE a == i + 1
             b == j + 1
  <2>1. a \in 1 .. Len(backlog) /\ b \in 1 .. Len(backlog) /\ a < b
    BY <1>3, <1>4
  <2>2. backlog'[i] = backlog[a] /\ backlog'[j] = backlog[b]
    BY <1>4
  <2>. HIDE DEF a, b
  <2>. QED BY <2>1, <2>2 DEF OrderInv, Ascending
<1>15. WaitInv'
  <2>. SUFFICES ASSUME NEW e \in Conns, Waiting(e)' PROVE (\E R : Sends(e, R))'
    BY DEF WaitInv
  <2>1. PICK R : Sends(e, R)
    BY <1>7 DEF OrderInv, WaitInv
  <2>2. Sends(e, R)'
    BY <1>1, <1>8, <2>1, SendsStays
  <2>. QED BY <2>2
<1>16. PICK R : Tagged(R, Unread) /\ Linked(R) /\ ToDo(R)
  BY DEF OrderInv, LineInv
<1>17. PICK Q : Sends(c, Q)
  BY <1>6 DEF OrderInv, WaitInv
<1>18. ToDo(R)'
  BY <1>1, <1>8, <1>10, <1>16, ToDoStays
<1>19. /\ Tagged(Q, up[c]) /\ Linked(Q) /\ (Len(Q) > 0 => Q[1].at = 1)
       /\ \A i \in 1 .. Len(Q) : Q[i].msg.conn = c /\ Asked(Q[i].msg)
  BY <1>17 DEF Sends
<1>20. /\ \A i \in 1 .. Len(R) : R[i].msg \in Msgs
       /\ \A i \in 1 .. Len(Q) : Q[i].msg \in Msgs
  BY <1>16, <1>19, TagsMsgs
<1>21. \A u \in Msgs : \A v \in Msgs : Served(u.conn) /\ v.conn = c => Rank(u) < Rank(v)
  <2>. SUFFICES ASSUME NEW u \in Msgs, NEW v \in Msgs, Served(u.conn), v.conn = c
                PROVE  Rank(u) < Rank(v)
    OBVIOUS
  <2>1. u.conn \in Conns
    BY DEF Msgs
  <2>2. Before(u, v)
    BY <1>9, <2>1 DEF Before
  <2>. QED BY <2>2, RankOrders
<1>22. \A i \in 1 .. Len(R) : \A j \in 1 .. Len(Q) : Rank(R[i].msg) < Rank(Q[j].msg)
  BY <1>16, <1>19, <1>20, <1>21 DEF ToDo
<1>23. Unread = Held(deframer) /\ Unread' = Unread \o up[c] /\ Unread \in Seq(Bytes)
       /\ up[c] \in Seq(Bytes)
  BY <1>1, <1>2, <1>6, UnreadIs DEF Unread
<1>24. PICK U : /\ Tagged(U, Unread \o up[c]) /\ Linked(U)
                /\ \A i \in 1 .. Len(U) : \/ i \in 1 .. Len(R) /\ U[i] = R[i]
                                          \/ \E j \in 1 .. Len(Q) : U[i] = Q[j] /\ i = Len(R) + j
  BY <1>16, <1>19, <1>22, <1>23, JoinedTags
<1>25. ToDo(U)'
  <2>. SUFFICES ASSUME NEW i \in 1 .. Len(U)
                PROVE  /\ Asked(U[i].msg)' /\ Served(U[i].msg.conn)'
                       /\ \A j \in 1 .. Len(executed') : Rank(executed'[j]) < Rank(U[i].msg)
    BY DEF ToDo
  <2>1. CASE i \in 1 .. Len(R) /\ U[i] = R[i]
    BY <1>18, <2>1 DEF ToDo
  <2>2. CASE \E j \in 1 .. Len(Q) : U[i] = Q[j] /\ i = Len(R) + j
    <3>1. PICK j \in 1 .. Len(Q) : U[i] = Q[j]
      BY <2>2
    <3>2. PICK m \in Msgs : m = Q[j].msg
      BY <1>20
    <3>3. m.conn = c /\ Asked(m)
      BY <1>19, <3>2
    <3>4. Asked(m)' /\ Served(m.conn)'
      BY <1>8, <1>11, <3>3 DEF AskedStays
    <3>5. \A l \in 1 .. Len(executed) : Rank(executed[l]) < Rank(m)
      <4>. TAKE l \in 1 .. Len(executed)
      <4>1. executed[l] \in Msgs
        BY ElementOfSeq DEF TypeOK
      <4>2. Served(executed[l].conn)
        BY DEF OrderInv, DoneInv
      <4>. QED BY <1>21, <3>3, <4>1, <4>2
    <3>. QED BY <1>1, <3>1, <3>2, <3>4, <3>5
  <2>. QED BY <1>24, <2>1, <2>2
<1>26. LineInv'
  BY <1>23, <1>24, <1>25 DEF LineInv
<1>27. WorkClear(deframer)' /\ DoneInv'
  BY <1>1, <1>8, <1>10, DoneStays DEF OrderInv, WorkClear
<1>. QED BY <1>12, <1>13, <1>14, <1>15, <1>26, <1>27 DEF OrderInv

\* What follows does not matter to a frame.
EnclosedIn(z, y, h, k) == Encloses(y, h, k) /\ SubSeq(y, h + 1, k - 1) = SubSeq(z, h + 1, k - 1)

LEMMA EnclosesJoined ==
  ASSUME NEW z \in Seq(Bytes), NEW rest \in Seq(Bytes), NEW k \in 0 .. Len(z), NEW h,
         Encloses(z, h, k), NEW y, Joined(y, z, rest)
  PROVE  EnclosedIn(z, y, h, k)
<1> DEFINE a == h + 1
           b == k - 1
           s == SubSeq(z, a, b)
           t == SubSeq(y, a, b)
<1>1. Len(z) \in Nat /\ Len(rest) \in Nat
  BY LenProperties
<1>2. h \in 1 .. k - 1 /\ z[h] = Delimiter /\ z[k] = Delimiter /\ Clear(z, a, b)
  BY DEF Encloses
<1>3. y \in Seq(Bytes) /\ Len(y) = Len(z) + Len(rest) /\ \A i \in 1 .. Len(z) : y[i] = z[i]
  BY DEF Joined
<1>4. /\ h \in 1 .. Len(z) /\ k \in 1 .. Len(z) /\ a \in Int /\ b \in Int /\ 1 =< a
      /\ b =< Len(z) /\ b =< Len(y)
  BY <1>1, <1>2, <1>3
<1>5. \A i \in a .. b : i \in 1 .. Len(z)
  BY <1>1, <1>4
<1>. HIDE DEF a, b
<1>6. /\ s \in Seq(Bytes) /\ Len(s) = IF a =< b THEN b - a + 1 ELSE 0
      /\ \A i \in 1 .. b - a + 1 : s[i] = z[a + i - 1]
  BY <1>4, Part
<1>7. /\ t \in Seq(Bytes) /\ Len(t) = IF a =< b THEN b - a + 1 ELSE 0
      /\ \A i \in 1 .. b - a + 1 : t[i] = y[a + i - 1]
  BY <1>3, <1>4, Part
<1>. HIDE DEF s, t
<1>8. ASSUME NEW i \in 1 .. Len(t) PROVE t[i] = s[i]
  <2>1. i \in 1 .. b - a + 1 /\ a + i - 1 \in a .. b
    BY <1>4, <1>7
  <2>2. y[a + i - 1] = z[a + i - 1]
    BY <1>3, <1>5, <2>1
  <2>. QED BY <1>6, <1>7, <2>1, <2>2
<1>9. t = s
  <2>1. Len(t) = Len(s)
    BY <1>6, <1>7
  <2>. QED BY <1>6, <1>7, <1>8, <2>1, SeqEqual
<1>10. Clear(y, a, b)
  BY <1>2, <1>3, <1>5 DEF Clear
<1>11. Encloses(y, h, k)
  BY <1>2, <1>3, <1>4, <1>10 DEF Encloses, a, b
<1>. QED BY <1>9, <1>11 DEF EnclosedIn, s, t, a, b

FromKept(z, rest, k) == From(z \o rest, k) = From(z, k) \o rest

LEMMA FromThen ==
  ASSUME NEW z \in Seq(Bytes), NEW rest \in Seq(Bytes), NEW k \in 0 .. Len(z)
  PROVE  FromKept(z, rest, k)
<1> DEFINE y == z \o rest
           t == From(y, k)
           u == From(z, k)
           v == u \o rest
<1>1. Len(z) \in Nat /\ Len(rest) \in Nat /\ k \in Nat
  BY LenProperties
<1>2. Joined(y, z, rest)
  BY JoinedIs
<1>. HIDE DEF y
<1>3. y \in Seq(Bytes) /\ Len(y) = Len(z) + Len(rest)
      /\ (\A i \in 1 .. Len(z) : y[i] = z[i])
      /\ (\A i \in 1 .. Len(rest) : y[Len(z) + i] = rest[i])
  BY <1>2 DEF Joined
<1>4. /\ u \in Seq(Bytes) /\ Len(u) = Len(z) - k
      /\ \A i \in 1 .. Len(z) - k : u[i] = z[k + i]
  <2>1. 0 \in 0 .. Len(z) - k
    BY <1>1
  <2>. QED BY <2>1, ClearFrom
<1>5. /\ t \in Seq(Bytes) /\ Len(t) = Len(y) - k
      /\ \A i \in 1 .. Len(y) - k : t[i] = y[k + i]
  <2>1. 0 \in 0 .. Len(y) - k /\ k \in 0 .. Len(y)
    BY <1>1, <1>3
  <2>. QED BY <1>3, <2>1, ClearFrom
<1>. HIDE DEF u, t
<1>6. Joined(v, u, rest)
  BY <1>4, JoinedIs
<1>. HIDE DEF v
<1>7. v \in Seq(Bytes) /\ Len(v) = Len(u) + Len(rest)
      /\ (\A i \in 1 .. Len(u) : v[i] = u[i])
      /\ (\A i \in 1 .. Len(rest) : v[Len(u) + i] = rest[i])
  BY <1>6 DEF Joined
<1>8. Len(t) = Len(v)
  BY <1>1, <1>3, <1>4, <1>5, <1>7
<1>9. ASSUME NEW i \in 1 .. Len(t) PROVE t[i] = v[i]
  <2>1. i \in 1 .. Len(y) - k
    BY <1>5
  <2>2. t[i] = y[k + i]
    BY <1>5, <2>1
  <2>3. CASE i \in 1 .. Len(u)
    <3>1. i \in 1 .. Len(z) - k /\ k + i \in 1 .. Len(z)
      BY <1>1, <1>4, <2>3
    <3>2. v[i] = u[i] /\ u[i] = z[k + i]
      BY <1>4, <1>7, <2>3, <3>1
    <3>3. y[k + i] = z[k + i]
      BY <1>3, <3>1
    <3>. QED BY <2>2, <3>2, <3>3
  <2>4. CASE i \notin 1 .. Len(u)
    <3> DEFINE j == i - Len(u)
    <3>1. j \in 1 .. Len(rest) /\ i = Len(u) + j /\ k + i = Len(z) + j
      BY <1>1, <1>3, <1>4, <2>1, <2>4
    <3>. HIDE DEF j
    <3>2. v[i] = rest[j]
      BY <1>7, <3>1
    <3>3. y[k + i] = rest[j]
      BY <1>3, <3>1
    <3>. QED BY <2>2, <3>2, <3>3
  <2>. QED BY <2>3, <2>4
<1>10. t = v
  BY <1>5, <1>7, <1>8, <1>9, SeqEqual
<1>. QED BY <1>10 DEF FromKept, t, v, u, y

\* The bytes a read gets, and those that it leaves.
ReadOff(h, s, n, z) ==
  /\ z \in Seq(Bytes) /\ z = h \o SubSeq(s, 1, n)
  /\ SubSeq(s, 1, n) \in Seq(Bytes) /\ SubSeq(s, n + 1, Len(s)) \in Seq(Bytes)
  /\ h \o s = z \o SubSeq(s, n + 1, Len(s))

LEMMA ReadOffIs ==
  ASSUME NEW h \in Seq(Bytes), NEW s \in Seq(Bytes), NEW n \in 1 .. FifoDepth, n =< Len(s),
         NEW z, z = h \o SubSeq(s, 1, n)
  PROVE  ReadOff(h, s, n, z)
<1> DEFINE t == SubSeq(s, 1, n)
           u == SubSeq(s, n + 1, Len(s))
<1>1. t \in Seq(Bytes) /\ u \in Seq(Bytes)
  BY ReadBytes
<1>2. t \o u = s
  <2>1. Len(s) \in Nat /\ n \in Nat
    BY LenProperties, FifoAssumption
  <2>2. 1 \in 1 .. Len(s) + 1 /\ n \in 1 - 1 .. Len(s) /\ Len(s) \in n .. Len(s)
    BY <2>1
  <2>3. SubSeq(s, 1, n) \o SubSeq(s, n + 1, Len(s)) = SubSeq(s, 1, Len(s))
    BY <2>2, ConcatAdjacentSubSeq
  <2>. QED BY <2>3, SubSeqFull
<1>. HIDE DEF t, u
<1>3. Associates(h, t, u) /\ Joined(h \o t, h, t)
  BY <1>1, Associative, JoinedIs
<1>4. h \o s = (h \o t) \o u
  BY <1>2, <1>3 DEF Associates
<1>5. h \o t \in Seq(Bytes)
  BY <1>3 DEF Joined
<1>. QED BY <1>1, <1>4, <1>5 DEF ReadOff, t, u

\* A message that is a request ends the frame of that request, which is done with.
LEMMA MessageIs ==
  ASSUME NoZeroInside, NEW z \in Seq(Bytes), NEW rest \in Seq(Bytes), NEW r,
         NEW k \in 0 .. Len(z), DoneWith(z, r, k), NEW y \in Seq(Bytes), Concat(y, z, rest),
         NEW R, Tagged(R, y), Linked(R), NEW m \in Msgs, Payload(m) = r.msg
  PROVE  \E h \in 1 .. Len(R) : m = R[h].msg /\ LaterThan(R, k, m)
<1>1. r.msg # << >>
  <2>1. Len(Payload(m)) = 1 + Len(m.tail) /\ m.tail \in Seq(Bytes)
    BY PayloadIs
  <2>2. Len(m.tail) \in Nat /\ Len(<< >>) = 0
    BY <2>1, LenProperties
  <2>3. Len(Payload(m)) # 0
    BY <2>1, <2>2
  <2>. QED BY <2>2, <2>3
<1>2. PICK h \in 1 .. k - 1 :
        Encloses(z, h, k) /\ r.msg = Cobs_decode(SubSeq(z, h + 1, k - 1)) /\ r.msg # DecodeError
  BY <1>1 DEF DoneWith
<1>3. EnclosedIn(z, y, h, k)
  <2>1. Joined(y, z, rest)
    BY JoinedIs DEF Concat
  <2>2. Encloses(z, h, k)
    BY <1>2
  <2>. QED BY <2>1, <2>2, EnclosesJoined
<1>4. Encloses(y, h, k) /\ Cobs_decode(SubSeq(y, h + 1, k - 1)) = Payload(m)
      /\ Payload(m) # DecodeError
  BY <1>2, <1>3 DEF EnclosedIn
<1>5. k \in 1 .. Len(y)
  <2>1. Joined(y, z, rest)
    BY JoinedIs DEF Concat
  <2>2. Len(y) = Len(z) + Len(rest) /\ Len(z) \in Nat /\ Len(rest) \in Nat
    BY <2>1, LenProperties DEF Joined
  <2>3. h \in 1 .. k - 1
    OBVIOUS
  <2>. QED BY <2>2, <2>3
<1>6. h \in 1 .. Len(R) /\ m = R[h].msg /\ LaterThan(R, k, m)
  BY <1>4, <1>5, FrameFound
<1>. QED BY <1>6

\* What the call keeps and what was not read are what was unread, less the first k bytes.
ReadParts(z, rest, r, k) ==
  /\ z \in Seq(Bytes) /\ rest \in Seq(Bytes) /\ k \in 0 .. Len(z)
  /\ DoneWith(z, r, k) /\ Unread = z \o rest /\ Unread' = From(z, k) \o rest
  /\ deframer' = r.d
  /\ \/ UNCHANGED executed
     \/ \E m \in Msgs : Payload(m) = r.msg /\ executed' = Append(executed, m)

LEMMA ReadIs ==
  ASSUME TypeOK, OrderInv, Read
  PROVE  \E z, rest, r, k : ReadParts(z, rest, r, k)
<1>1. sock \in Conns /\ UNCHANGED sock
  BY DEF Read
<1>2. PICK n \in 1 .. FifoDepth : TcpSocket_read(n) /\ rpc_callback(SubSeq(up[sock], 1, n))
  BY DEF Read
<1>3. PICK s \in Seq(Bytes) : s = up[sock]
  BY <1>1, UnreadIs
<1>4. PICK d : d = deframer
  OBVIOUS
<1> DEFINE chunk == SubSeq(s, 1, n)
           rest == SubSeq(s, n + 1, Len(s))
           h == Held(d)
<1>5. n =< Len(s) /\ up'[sock] = rest
  BY <1>1, <1>2, <1>3 DEF TcpSocket_read, TypeOK
<1>6. PICK r : /\ r = Cobs_deframer(d, chunk) /\ deframer' = r.d
               /\ \/ UNCHANGED executed
                  \/ \E m \in Msgs : Payload(m) = r.msg /\ executed' = Append(executed, m)
  BY <1>2, <1>3, <1>4 DEF rpc_callback, Handled, NotHandled, SentAs
<1>7. GoodDeframer(d) /\ WorkClear(d) /\ h \in Seq(Bytes)
  BY <1>4, UnreadIs DEF OrderInv
<1>8. PICK z : z = h \o chunk
  OBVIOUS
<1>9. ReadOff(h, s, n, z)
  <2>. HIDE DEF h
  <2>. QED BY <1>5, <1>7, <1>8, ReadOffIs
<1>10. z \in Seq(Bytes) /\ chunk \in Seq(Bytes) /\ rest \in Seq(Bytes) /\ h \o s = z \o rest
  BY <1>9 DEF ReadOff
<1>11. Finishes(z, r)
  <2>1. z = Held(d) \o chunk /\ r = Cobs_deframer(d, chunk) /\ chunk \in Seq(Bytes)
    BY <1>6, <1>8, <1>10
  <2>. HIDE DEF chunk
  <2>. QED BY <1>7, <2>1, HeldIs
<1>12. PICK k \in 0 .. Len(z) : DoneWith(z, r, k)
  BY <1>11 DEF Finishes
<1>13. Unread = z \o rest
  <2>1. Unread = h \o s
    BY <1>1, <1>3, <1>4 DEF Unread
  <2>. QED BY <1>10, <2>1
<1>14. Unread' = From(z, k) \o rest
  <2>1. Held(r.d) = From(z, k)
    BY <1>12 DEF DoneWith
  <2>2. Unread' = Held(deframer') \o up'[sock]
    BY <1>1 DEF Unread, Held, Opened
  <2>. QED BY <1>5, <1>6, <2>1, <2>2
<1>. HIDE DEF rest, h, chunk
<1>15. ReadParts(z, rest, r, k)
  BY <1>6, <1>10, <1>12, <1>13, <1>14 DEF ReadParts
<1>. QED BY <1>15

LEMMA ReadOrder ==
  ASSUME NoZeroInside, TypeOK, OrderInv, Read
  PROVE  OrderInv'
<1>1. sock \in Conns /\ UNCHANGED <<client, asked, backlog, sock>>
  BY DEF Read
<1>2. \A e \in Conns \ {sock} : up'[e] = up[e]
  BY DEF Read, TcpSocket_read, TypeOK
<1>3. \A e \in Conns : Waiting(e)' <=> Waiting(e)
  BY <1>1 DEF Waiting
<1>4. AskedStays /\ ServedStays
  <2>1. \A e \in Conns : Served(e) => Served(e)'
    BY <1>1, <1>3 DEF Served
  <2>. QED BY <1>1, <2>1 DEF AskedStays, ServedStays, Asked, Msgs
<1>5. NewInv' /\ MetInv' /\ SockInv' /\ QueueInv' /\ Ascending'
  <2>1. NewInv'
    <3>. SUFFICES ASSUME NEW e \in Conns, client'[e] = "new" PROVE asked'[e] = << >> /\ up'[e] = << >>
      BY DEF NewInv
    <3>1. client[e] = "new" /\ e # sock
      BY <1>1 DEF OrderInv, SockInv
    <3>. QED BY <1>1, <1>2, <3>1 DEF OrderInv, NewInv
  <2>2. MetInv' /\ SockInv' /\ QueueInv' /\ Ascending'
    BY <1>1, <1>3 DEF OrderInv, MetInv, SockInv, QueueInv, Ascending
  <2>. QED BY <2>1, <2>2
<1>6. WaitInv'
  <2>. SUFFICES ASSUME NEW e \in Conns, Waiting(e)' PROVE (\E R : Sends(e, R))'
    BY DEF WaitInv
  <2>1. PICK R : Sends(e, R)
    BY <1>3 DEF OrderInv, WaitInv
  <2>2. sock < e
    BY <1>1, <1>3 DEF OrderInv, QueueInv
  <2>3. up'[e] = up[e]
    <3>1. sock # e
      BY <2>2, SockIs
    <3>. QED BY <1>2, <3>1
  <2>4. Sends(e, R)'
    BY <1>4, <2>1, <2>3, SendsStays
  <2>. QED BY <2>4
<1>a. PICK z, rest, r, k : ReadParts(z, rest, r, k)
  BY ReadIs
<1>7. /\ z \in Seq(Bytes) /\ rest \in Seq(Bytes)
      /\ DoneWith(z, r, k) /\ Unread = z \o rest /\ Unread' = From(z, k) \o rest
      /\ deframer' = r.d
      /\ \/ UNCHANGED executed
         \/ \E m \in Msgs : Payload(m) = r.msg /\ executed' = Append(executed, m)
  BY <1>a DEF ReadParts
<1>b. k \in 0 .. Len(z)
  BY <1>a DEF ReadParts
<1>c. z \in Seq(Bytes) /\ rest \in Seq(Bytes)
  BY <1>7
<1>8. WorkClear(deframer)'
  <2>1. WorkClear(r.d)
    BY <1>7 DEF DoneWith
  <2>. QED BY <1>7, <2>1 DEF WorkClear
<1>9. PICK y \in Seq(Bytes) : y = Unread
  BY UnreadIs
<1>10. PICK R : Tagged(R, y) /\ Linked(R) /\ ToDo(R)
  BY <1>9 DEF OrderInv, LineInv
<1>11. k \in 0 .. Len(y) /\ Unread' = From(y, k)
  <2>1. Joined(y, z, rest)
    BY <1>7, <1>9, JoinedIs
  <2>2. Len(y) = Len(z) + Len(rest) /\ Len(z) \in Nat /\ Len(rest) \in Nat
    BY <2>1, LenProperties DEF Joined
  <2>3. FromKept(z, rest, k)
    BY <1>b, <1>c, FromThen
  <2>4. k \in 0 .. Len(y)
    BY <1>b, <2>2
  <2>. QED BY <1>7, <1>9, <2>3, <2>4 DEF FromKept
<1>12. PICK Q : /\ Tagged(Q, From(y, k)) /\ Linked(Q)
                /\ \A i \in 1 .. Len(Q) : k + i \in 1 .. Len(R) /\ Q[i] = R[k + i]
  BY <1>10, <1>11, LineFrom
<1>13. ToDo(Q)
  BY <1>10, <1>12 DEF ToDo
<1>14. CASE UNCHANGED executed
  <2>1. ToDo(Q)'
    BY <1>4, <1>12, <1>13, <1>14, ToDoStays
  <2>2. LineInv'
    BY <1>11, <1>12, <2>1 DEF LineInv
  <2>3. DoneInv'
    BY <1>4, <1>14, DoneStays DEF OrderInv
  <2>. QED BY <1>5, <1>6, <1>8, <2>2, <2>3 DEF OrderInv
<1>15. CASE \E m \in Msgs : Payload(m) = r.msg /\ executed' = Append(executed, m)
  <2>1. PICK m \in Msgs : Payload(m) = r.msg /\ executed' = Append(executed, m)
    BY <1>15
  <2>2. PICK h \in 1 .. Len(R) : m = R[h].msg /\ LaterThan(R, k, m)
    <3>1. Concat(y, z, rest) /\ DoneWith(z, r, k)
      BY <1>7, <1>9 DEF Concat
    <3>. QED BY <1>b, <1>c, <1>10, <2>1, <3>1, MessageIs
  <2>3. /\ Asked(m) /\ Served(m.conn)
        /\ \A j \in 1 .. Len(executed) : Rank(executed[j]) < Rank(m)
    BY <1>10, <2>2 DEF ToDo
  <2>4. Asked(m)' /\ Served(m.conn)'
    BY <1>4, <2>3 DEF AskedStays, ServedStays
  <2>5. /\ Len(executed) \in Nat /\ Len(executed') = Len(executed) + 1
        /\ \A j \in 1 .. Len(executed) : executed'[j] = executed[j]
        /\ executed'[Len(executed) + 1] = m
    <3>1. executed \in Seq(Msgs)
      BY DEF TypeOK
    <3>. QED BY <2>1, <3>1, AppendProperties, LenProperties
  <2>6. \A j \in 1 .. Len(executed') : j \in 1 .. Len(executed) \/ j = Len(executed) + 1
    BY <2>5
  <2>7. \A i \in 1 .. Len(Q) : Rank(m) < Rank(Q[i].msg)
    <3>. TAKE i \in 1 .. Len(Q)
    <3>1. k + i \in 1 .. Len(R) /\ Q[i] = R[k + i]
      BY <1>12
    <3>2. k + i \in k + 1 .. Len(R)
      <4>1. k \in Nat /\ i \in Nat /\ i >= 1
        BY <1>11
      <4>. QED BY <3>1, <4>1
    <3>. QED BY <2>2, <3>1, <3>2 DEF LaterThan
  <2>8. ToDo(Q)'
    <3>. SUFFICES ASSUME NEW i \in 1 .. Len(Q)
                  PROVE  /\ Asked(Q[i].msg)' /\ Served(Q[i].msg.conn)'
                         /\ \A j \in 1 .. Len(executed') : Rank(executed'[j]) < Rank(Q[i].msg)
      BY DEF ToDo
    <3>1. PICK u \in Msgs : u = Q[i].msg
      BY <1>12, TagsMsgs
    <3>2. /\ Asked(u) /\ Served(u.conn)
          /\ \A j \in 1 .. Len(executed) : Rank(executed[j]) < Rank(u)
      BY <1>13, <3>1 DEF ToDo
    <3>3. Asked(u)' /\ Served(u.conn)'
      BY <1>4, <3>2 DEF AskedStays, ServedStays
    <3>4. \A j \in 1 .. Len(executed') : Rank(executed'[j]) < Rank(u)
      BY <2>5, <2>6, <2>7, <3>1, <3>2
    <3>. QED BY <3>1, <3>3, <3>4
  <2>9. LineInv'
    BY <1>11, <1>12, <2>8 DEF LineInv
  <2>10. ASSUME NEW j \in 1 .. Len(executed') PROVE Asked(executed[j])' /\ Served(executed[j].conn)'
    <3>1. CASE j \in 1 .. Len(executed)
      <4>1. PICK u \in Msgs : u = executed[j]
        BY <3>1, ElementOfSeq DEF TypeOK
      <4>2. Asked(u) /\ Served(u.conn)
        BY <3>1, <4>1 DEF OrderInv, DoneInv
      <4>3. Asked(u)' /\ Served(u.conn)'
        BY <1>4, <4>2 DEF AskedStays, ServedStays
      <4>4. executed'[j] = u
        BY <2>5, <3>1, <4>1
      <4>. QED BY <4>3, <4>4 DEF Asked, Served
    <3>2. CASE j = Len(executed) + 1
      BY <2>4, <2>5, <3>2 DEF Asked, Served
    <3>. QED BY <2>6, <3>1, <3>2
  <2>11. ASSUME NEW i \in 1 .. Len(executed'), NEW j \in 1 .. Len(executed'), i < j
         PROVE  Rank(executed'[i]) < Rank(executed'[j])
    <3>1. i \in 1 .. Len(executed)
      BY <2>5, <2>11
    <3>2. CASE j \in 1 .. Len(executed)
      BY <2>5, <2>11, <3>1, <3>2 DEF OrderInv, DoneInv
    <3>3. CASE j = Len(executed) + 1
      BY <2>3, <2>5, <3>1, <3>3
    <3>. QED BY <2>6, <3>2, <3>3
  <2>12. DoneInv'
    BY <2>10, <2>11 DEF DoneInv
  <2>. QED BY <1>5, <1>6, <1>8, <2>9, <2>12 DEF OrderInv
<1>. QED BY <1>7, <1>14, <1>15

LEMMA StepOrder ==
  ASSUME NoZeroInside
  PROVE  TypeOK /\ OrderInv /\ [Next]_vars => OrderInv'
<1>. SUFFICES ASSUME TypeOK, OrderInv, [Next]_vars PROVE OrderInv'
  OBVIOUS
<1>1. ASSUME NEW c \in Conns, Connect(c) PROVE OrderInv'
  BY <1>1, ConnectOrder
<1>2. ASSUME NEW c \in Conns, NEW tail \in Tails, Send(c, tail) PROVE OrderInv'
  BY <1>2, SendOrder
<1>3. ASSUME NEW c \in Conns, Close(c) PROVE OrderInv'
  BY <1>3, CloseOrder
<1>4. ASSUME NEW c \in Conns, Break(c) PROVE OrderInv'
  BY <1>4, BreakOrder
<1>5. CASE TcpServer_init
  <2>1. /\ UNCHANGED <<client, up, asked, backlog, executed, deframer>>
        /\ sock = Starting /\ sock' \in {Bound, Stopped}
    BY <1>5 DEF TcpServer_init, clientVars
  <2>2. sock \notin Conns /\ sock' \notin Conns
    BY <2>1, SockIs
  <2>. QED BY <2>1, <2>2, IdleOrder
<1>6. CASE TcpSocket_listen
  <2>1. /\ UNCHANGED <<client, up, asked, backlog, executed, deframer>>
        /\ sock = Bound /\ sock' \in {None, Stopped}
    BY <1>6 DEF TcpSocket_listen, clientVars
  <2>2. sock \notin Conns /\ sock' \notin Conns
    BY <2>1, SockIs
  <2>. QED BY <2>1, <2>2, IdleOrder
<1>7. CASE AcceptFails
  <2>1. /\ UNCHANGED <<client, up, asked, backlog, executed, deframer>>
        /\ sock = None /\ sock' = Stopped
    BY <1>7 DEF AcceptFails, clientVars
  <2>2. sock \notin Conns /\ sock' \notin Conns
    BY <2>1, SockIs
  <2>. QED BY <2>1, <2>2, IdleOrder
<1>8. CASE ReadEnd \/ ReadError
  <2>1. /\ UNCHANGED <<client, up, asked, backlog, executed, deframer>>
        /\ sock \in Conns /\ up[sock] = << >> /\ sock' = None
    BY <1>8 DEF ReadEnd, ReadError, TcpSocket_close, clientVars
  <2>2. sock' \notin Conns
    BY <2>1, SockIs
  <2>. QED BY <2>1, <2>2, IdleOrder
<1>9. CASE UNCHANGED vars
  <2>1. UNCHANGED <<client, up, asked, backlog, executed, deframer>> /\ sock' = sock
    BY <1>9 DEF vars
  <2>. QED BY <2>1, IdleOrder
<1>10. CASE Accept
  BY <1>10, AcceptOrder
<1>11. CASE Read
  BY <1>11, ReadOrder
<1>. QED BY <1>1, <1>2, <1>3, <1>4, <1>5, <1>6, <1>7, <1>8, <1>9, <1>10, <1>11 DEF Next, Server

LEMMA OrderShown == TypeOK /\ OrderInv => ExecutedInOrder
<1>. SUFFICES ASSUME TypeOK, OrderInv PROVE ExecutedInOrder
  OBVIOUS
<1>1. executed \in Seq(Msgs) /\ asked \in [Conns -> Seq(Msgs)]
  BY DEF TypeOK
<1>2. DOMAIN executed = 1 .. Len(executed) /\ \A j \in 1 .. Len(executed) : executed[j] \in Msgs
  BY <1>1, LenProperties, ElementOfSeq
<1>3. ASSUME NEW m \in ToSet(executed) PROVE m \in ToSet(asked[m.conn])
  <2>1. PICK j \in 1 .. Len(executed) : m = executed[j]
    BY <1>2, <1>3 DEF ToSet
  <2>2. m \in Msgs /\ Asked(m)
    BY <1>2, <2>1 DEF OrderInv, DoneInv
  <2>3. m.conn \in Conns /\ m.seqn \in Nat \ {0}
    BY <2>2, ServerAssumption DEF Msgs
  <2>4. m.seqn \in DOMAIN asked[m.conn] /\ asked[m.conn][m.seqn] = m
    BY <1>1, <2>2, <2>3 DEF Asked
  <2>. QED BY <2>4 DEF ToSet
<1>4. ASSUME NEW i \in DOMAIN executed, NEW j \in DOMAIN executed, i < j
      PROVE  Before(executed[i], executed[j])
  <2>1. Rank(executed[i]) < Rank(executed[j])
    BY <1>2, <1>4 DEF OrderInv, DoneInv
  <2>. QED BY <1>2, <2>1, RankOrders
<1>. QED BY <1>3, <1>4 DEF ExecutedInOrder, Before

\* Whatever clients leave in the deframer, however TCP cuts their streams up and wherever a
\* client breaks down, rpc_callback runs handlers only for requests that were sent, each at most
\* once and in the order in which they were sent, as long as no request's encoding has a delimiter
\* in it.
THEOREM RequestsInOrder ==
  ASSUME NoZeroInside
  PROVE  Spec => []ExecutedInOrder
<1>1. Init => TypeOK /\ OrderInv
  BY InitTypes, InitOrder
<1>2. TypeOK /\ OrderInv /\ [Next]_vars => (TypeOK /\ OrderInv)'
  BY StepTypes, StepOrder
<1>3. TypeOK /\ OrderInv => ExecutedInOrder
  BY OrderShown
<1>. QED BY <1>1, <1>2, <1>3, PTL DEF Spec

-----------------------------------------------------------------------------
(* Requests without a delimiter in their encodings. *)

\* No zero closes a full block.
NoZeroCloses(x) == \A n \in 1 .. Len(x) : Len(Bl(x, n - 1)) + 1 = MaxCode => x[n] # 0

HasNone(s) == \A i \in 1 .. Len(s) : s[i] # 0

LEMMA ClosedHasNone ==
  ASSUME NEW acc \in Encoder, HasNone(acc.closed), HasNone(acc.block)
  PROVE  HasNone(Closed(acc))
<1> DEFINE a == Len(acc.closed)
           b == Len(acc.block)
           c == Closed(acc)
<1>1. a \in Nat /\ b \in Nat
  BY LenProperties DEF Encoder
<1>2. /\ Len(c) = a + 1 + b
      /\ \A i \in 1 .. a : c[i] = acc.closed[i]
      /\ c[a + 1] = b + 1
      /\ \A i \in 1 .. b : c[a + 1 + i] = acc.block[i]
  BY ClosedIs
<1>. HIDE DEF c, a, b
<1>3. ASSUME NEW i \in 1 .. Len(c) PROVE c[i] # 0
  <2>1. CASE i \in 1 .. a
    BY <1>2, <2>1 DEF HasNone, a
  <2>2. CASE i = a + 1
    <3>1. b + 1 # 0
      BY <1>1
    <3>. QED BY <1>2, <2>2, <3>1
  <2>3. CASE i > a + 1
    <3> DEFINE j == i - (a + 1)
    <3>1. j \in 1 .. b /\ i = a + 1 + j
      <4>1. i \in Int /\ i =< a + 1 + b
        BY <1>1, <1>2
      <4>. QED BY <1>1, <2>3, <4>1
    <3>. HIDE DEF j
    <3>2. c[i] = acc.block[j]
      BY <1>2, <3>1
    <3>. QED BY <3>1, <3>2 DEF HasNone, b
  <2>. QED BY <1>1, <1>2, <2>1, <2>2, <2>3
<1>. QED BY <1>3 DEF HasNone, c

LEMMA EncodingHasNone ==
  ASSUME NEW x \in Seq(Bytes), NoZeroCloses(x)
  PROVE  HasNone(Cobs_encode(x))
<1> DEFINE T == {n \in 0 .. Len(x) : HasNone(Cl(x, n)) /\ HasNone(Bl(x, n))}
<1>0. Len(x) \in Nat /\ \A i \in 1 .. Len(x) : x[i] \in Bytes
  BY LenProperties, ElementOfSeq
<1>1. 0 \in T
  <2>1. Cl(x, 0) = << >> /\ Bl(x, 0) = << >> /\ Len(<< >>) = 0
    BY EncodingLoop DEF Cl, Bl, Empty
  <2>2. HasNone(<< >>)
    BY DEF HasNone
  <2>. QED BY <1>0, <2>1, <2>2
<1>2. ASSUME NEW n \in 0 .. Len(x) - 1, n \in T PROVE n + 1 \in T
  <2> DEFINE m == n + 1
             acc == Encoding(x)[n]
  <2>1. m \in 1 .. Len(x) /\ m \in 0 .. Len(x) /\ n \in 0 .. Len(x) /\ m - 1 = n /\ m = n + 1
    BY <1>0
  <2>2. HasNone(Cl(x, n)) /\ HasNone(Bl(x, n))
    BY <1>2
  <2>3. acc \in Encoder /\ Bl(x, n) \in Seq(Bytes) /\ acc.closed = Cl(x, n) /\ acc.block = Bl(x, n)
    BY <2>1, EncoderIs DEF Cl, Bl
  <2>4. HasNone(Closed(acc))
    BY <2>2, <2>3, ClosedHasNone
  <2>5. x[m] \in Bytes /\ (Len(Bl(x, n)) + 1 = MaxCode => x[m] # 0)
    <3>. HIDE DEF m
    <3>. QED BY <1>0, <2>1 DEF NoZeroCloses
  <2>. HIDE DEF m, acc
  <2>6. \/ Cl(x, m) = Cl(x, n) /\ Bl(x, m) = Append(Bl(x, n), x[m]) /\ x[m] # 0
        \/ Cl(x, m) = Closed(acc) /\ Bl(x, m) = << >>
        \/ Cl(x, m) = Closed(acc) /\ Bl(x, m) = <<x[m]>> /\ x[m] # 0
    <3>1. Encoding(x)[m] = EncodeByte(acc, x[m])
      BY <2>1, EncodingLoop DEF acc
    <3>2. \/ EncodeByte(acc, x[m]) = [closed |-> acc.closed, block |-> Append(acc.block, x[m])] /\ x[m] # 0
          \/ EncodeByte(acc, x[m]) = [closed |-> Closed(acc), block |-> << >>]
          \/ /\ EncodeByte(acc, x[m]) = [closed |-> Closed(acc), block |-> <<x[m]>>]
             /\ Len(acc.block) + 1 = MaxCode
      BY <2>3, <2>5, EncodeByteIs
    <3>. QED BY <2>3, <2>5, <3>1, <3>2 DEF Cl, Bl
  <2>7. CASE Cl(x, m) = Cl(x, n) /\ Bl(x, m) = Append(Bl(x, n), x[m]) /\ x[m] # 0
    <3>1. HasNone(Append(Bl(x, n), x[m]))
      <4> DEFINE s == Bl(x, n)
                 e == x[m]
      <4>1. s \in Seq(Bytes) /\ e \in Bytes /\ HasNone(s) /\ e # 0 /\ Len(s) \in Nat
        BY <2>2, <2>3, <2>5, <2>7, LenProperties
      <4>. HIDE DEF s, e
      <4>2. /\ Len(Append(s, e)) = Len(s) + 1 /\ Append(s, e)[Len(s) + 1] = e
            /\ \A i \in 1 .. Len(s) : Append(s, e)[i] = s[i]
        BY <4>1, AppendProperties
      <4>3. \A i \in 1 .. Len(s) + 1 : i \in 1 .. Len(s) \/ i = Len(s) + 1
        BY <4>1
      <4>4. HasNone(Append(s, e))
        BY <4>1, <4>2, <4>3 DEF HasNone
      <4>. QED BY <4>4 DEF s, e
    <3>. QED BY <2>1, <2>2, <2>7, <3>1 DEF m
  <2>8. CASE Cl(x, m) = Closed(acc) /\ Bl(x, m) = << >>
    <3>1. HasNone(<< >>)
      BY DEF HasNone
    <3>. QED BY <2>1, <2>4, <2>8, <3>1 DEF m
  <2>9. CASE Cl(x, m) = Closed(acc) /\ Bl(x, m) = <<x[m]>> /\ x[m] # 0
    <3>1. HasNone(<<x[m]>>)
      BY <2>9 DEF HasNone
    <3>. QED BY <2>1, <2>4, <2>9, <3>1 DEF m
  <2>. QED BY <2>6, <2>7, <2>8, <2>9
<1>3. Len(x) \in T
  <2>1. 0 .. Len(x) \subseteq T
    <3>. HIDE DEF T
    <3>. QED BY <1>0, <1>1, <1>2, UpTo
  <2>. QED BY <1>0, <2>1
<1>4. HasNone(Cl(x, Len(x))) /\ HasNone(Bl(x, Len(x)))
  BY <1>3
<1>5. Encoding(x)[Len(x)] \in Encoder
  BY <1>0, EncodingLoop
<1>. QED BY <1>4, <1>5, ClosedHasNone DEF Cobs_encode, Cl, Bl

\* The hypothesis of RequestsInOrder holds when the byte that closes a full block, in the loop of
\* Cobs_encode, is never a zero.
THEOREM NoneInside ==
  ASSUME \A m \in Msgs : NoZeroCloses(Payload(m))
  PROVE  NoZeroInside
<1>. SUFFICES ASSUME NEW m \in Msgs
              PROVE  \A i \in 1 .. Len(Encodings[m]) : Encodings[m][i] # Delimiter
  BY DEF NoZeroInside
<1>1. Payload(m) \in Seq(Bytes) /\ Encodings[m] = Cobs_encode(Payload(m)) /\ NoZeroCloses(Payload(m))
  BY PayloadIs, FrameIs
<1>2. HasNone(Encodings[m])
  BY <1>1, EncodingHasNone
<1>. QED BY <1>2 DEF HasNone, Delimiter

\* It does when no request is longer than a full block, which Cobs_encode then never closes before
\* the last byte.
THEOREM ShortRequests ==
  ASSUME \A t \in Tails : Len(t) + 1 < MaxCode
  PROVE  NoZeroInside
<1>. SUFFICES ASSUME NEW m \in Msgs PROVE NoZeroCloses(Payload(m))
  BY NoneInside
<1> DEFINE x == Payload(m)
<1>1. x \in Seq(Bytes) /\ Len(x) = 1 + Len(m.tail) /\ m.tail \in Seq(Bytes) /\ m.tail \in Tails
  BY PayloadIs DEF Msgs
<1>2. Len(x) \in Nat /\ Len(x) < MaxCode /\ MaxCode \in Nat
  BY <1>1, LenProperties, CodeBounds
<1>. HIDE DEF x
<1>. SUFFICES ASSUME NEW n \in 1 .. Len(x) PROVE Len(Bl(x, n - 1)) + 1 # MaxCode
  BY DEF NoZeroCloses, x
<1> DEFINE l == n - 1
<1>3. l \in 0 .. Len(x)
  BY <1>2
<1>. HIDE DEF l
<1>4. Len(Bl(x, l)) =< l /\ Len(Bl(x, l)) \in Nat
  BY <1>1, <1>3, BlockIs, EncoderIs
<1>5. l < Len(x)
  BY <1>2 DEF l
<1> DEFINE b == Len(Bl(x, l))
<1>6. b + 1 # MaxCode
  <2>1. b \in Nat /\ b =< l /\ l \in Int
    BY <1>3, <1>4
  <2>. HIDE DEF b
  <2>. QED BY <1>2, <1>5, <2>1
<1>. QED BY <1>6 DEF l

-----------------------------------------------------------------------------
(* Clients that wait: the deframer and one frame, which comes in parts. *)

\* The deframer has the frame f up to its byte o + b, and the bytes go on from byte o + 1.
Continues(f, w, bytes, b, o) ==
  /\ o \in Nat /\ b \in 0 .. Len(bytes) /\ o + b >= 1 /\ o + Len(bytes) =< Len(f)
  /\ \A i \in 1 .. Len(bytes) : bytes[i] = f[o + i]
  /\ Len(w) = o + b - 1
  /\ \A i \in 1 .. Len(w) : w[i] = f[1 + i]

Continued(f, w, bytes, b, o, a) == w \o SubSeq(bytes, b + 1, a) = SubSeq(f, 2, o + a)

LEMMA ContinuedTo ==
  ASSUME NEW f \in Seq(Bytes), NEW w \in Seq(Bytes), NEW bytes \in Seq(Bytes), NEW b, NEW o,
         Continues(f, w, bytes, b, o), NEW a \in b .. Len(bytes)
  PROVE  Continued(f, w, bytes, b, o, a)
<1> DEFINE m == b + 1
           n == o + a
           s == SubSeq(bytes, m, a)
           t == SubSeq(f, 2, n)
           u == w \o s
<1>1. Len(f) \in Nat /\ Len(w) \in Nat /\ Len(bytes) \in Nat
  BY LenProperties
<1>2. /\ o \in Nat /\ b \in 0 .. Len(bytes) /\ o + b >= 1 /\ o + Len(bytes) =< Len(f)
      /\ \A i \in 1 .. Len(bytes) : bytes[i] = f[o + i]
      /\ Len(w) = o + b - 1
      /\ \A i \in 1 .. Len(w) : w[i] = f[1 + i]
  BY DEF Continues
<1>3. m \in Int /\ a \in Int /\ 1 =< m /\ a =< Len(bytes) /\ n \in Int /\ n =< Len(f) /\ b =< a /\ b \in Nat
      /\ m = b + 1 /\ n = o + a
  BY <1>1, <1>2
<1>. HIDE DEF m, n
<1>4. /\ s \in Seq(Bytes) /\ Len(s) = IF m =< a THEN a - m + 1 ELSE 0
      /\ \A i \in 1 .. a - m + 1 : s[i] = bytes[m + i - 1]
  BY <1>3, Part
<1>5. /\ t \in Seq(Bytes) /\ Len(t) = IF 2 =< n THEN n - 2 + 1 ELSE 0
      /\ \A i \in 1 .. n - 2 + 1 : t[i] = f[2 + i - 1]
  BY <1>3, Part
<1>. HIDE DEF s, t
<1>6. Len(s) = a - b /\ Len(t) = n - 1
  BY <1>1, <1>2, <1>3, <1>4, <1>5
<1>7. Joined(u, w, s)
  BY <1>4, JoinedIs
<1>. HIDE DEF u
<1>8. /\ u \in Seq(Bytes) /\ Len(u) = Len(w) + Len(s)
      /\ \A i \in 1 .. Len(w) : u[i] = w[i]
      /\ \A i \in 1 .. Len(s) : u[Len(w) + i] = s[i]
  BY <1>7 DEF Joined
<1>9. Len(u) = Len(t)
  BY <1>1, <1>2, <1>3, <1>6, <1>8
<1>10. ASSUME NEW i \in 1 .. Len(t) PROVE u[i] = t[i]
  <2>1. i \in 1 .. n - 2 + 1 /\ 2 + i - 1 = 1 + i
    BY <1>3, <1>6
  <2>2. t[i] = f[1 + i]
    BY <1>5, <2>1
  <2>3. CASE i \in 1 .. Len(w)
    BY <1>2, <1>8, <2>2, <2>3
  <2>4. CASE i \notin 1 .. Len(w)
    <3> DEFINE j == i - Len(w)
    <3>1. j \in 1 .. Len(s) /\ i = Len(w) + j
      BY <1>1, <1>6, <1>8, <1>9, <2>4
    <3>2. j \in 1 .. a - m + 1 /\ m + j - 1 \in 1 .. Len(bytes) /\ o + (m + j - 1) = 1 + i
      BY <1>1, <1>2, <1>3, <1>6, <3>1
    <3>. HIDE DEF j
    <3>3. u[i] = s[j] /\ s[j] = bytes[m + j - 1]
      BY <1>4, <1>8, <3>1, <3>2
    <3>4. bytes[m + j - 1] = f[o + (m + j - 1)]
      <4> DEFINE l == m + j - 1
      <4>1. l \in 1 .. Len(bytes)
        BY <3>2
      <4>. HIDE DEF l
      <4>2. bytes[l] = f[o + l]
        BY <1>2, <4>1
      <4>. QED BY <4>2 DEF l
    <3>. QED BY <2>2, <3>2, <3>3, <3>4
  <2>. QED BY <2>3, <2>4
<1>11. u = t
  BY <1>5, <1>8, <1>9, <1>10, SeqEqual
<1>. QED BY <1>11 DEF Continued, u, t, s, m, n

\* A frame has its delimiters at its ends and its encoding between them.
WholeFrame(f, e) ==
  /\ f \in Seq(Bytes) /\ Len(e) \in Nat /\ Len(e) > 0 /\ Len(f) = Len(e) + 2
  /\ \A i \in 1 .. Len(f) : f[i] = Delimiter <=> (i = 1 \/ i = Len(f))
  /\ SubSeq(f, 2, Len(f) - 1) = e

LEMMA FrameWhole ==
  ASSUME NoZeroInside, NEW m \in Msgs
  PROVE  WholeFrame(Frame(m), Encodings[m])
<1> DEFINE f == Frame(m)
           e == Encodings[m]
           n == Len(f) - 1
           t == SubSeq(f, 2, n)
<1>1. /\ e \in Seq(Bytes) /\ Len(e) > 0 /\ f \in Seq(Bytes) /\ Len(f) = Len(e) + 2
      /\ f[1] = Delimiter /\ f[Len(e) + 2] = Delimiter
      /\ \A i \in 1 .. Len(e) : f[1 + i] = e[i]
  BY FrameIs
<1>2. Len(e) \in Nat /\ \A i \in 1 .. Len(e) : e[i] # Delimiter
  BY <1>1, LenProperties DEF NoZeroInside
<1>. HIDE DEF f, e
<1>3. ASSUME NEW i \in 1 .. Len(f), i # 1, i # Len(f) PROVE f[i] # Delimiter
  <2> DEFINE j == i - 1
  <2>1. j \in 1 .. Len(e) /\ i = 1 + j
    BY <1>1, <1>2, <1>3
  <2>. HIDE DEF j
  <2>. QED BY <1>1, <1>2, <2>1
<1>4. n \in Int /\ n =< Len(f) /\ n = Len(e) + 1
  BY <1>1, <1>2
<1>. HIDE DEF n
<1>5. /\ t \in Seq(Bytes) /\ Len(t) = IF 2 =< n THEN n - 2 + 1 ELSE 0
      /\ \A i \in 1 .. n - 2 + 1 : t[i] = f[2 + i - 1]
  BY <1>1, <1>4, Part
<1>. HIDE DEF t
<1>6. Len(t) = Len(e)
  BY <1>1, <1>2, <1>4, <1>5
<1>7. ASSUME NEW i \in 1 .. Len(t) PROVE t[i] = e[i]
  <2>1. i \in 1 .. n - 2 + 1 /\ 2 + i - 1 = 1 + i /\ i \in 1 .. Len(e)
    BY <1>2, <1>4, <1>6
  <2>. QED BY <1>1, <1>5, <2>1
<1>8. t = e
  BY <1>1, <1>5, <1>6, <1>7, SeqEqual
<1>9. \A i \in 1 .. Len(f) : f[i] = Delimiter <=> (i = 1 \/ i = Len(f))
  BY <1>1, <1>3
<1>. QED BY <1>1, <1>2, <1>8, <1>9 DEF WholeFrame, f, e, t, n

\* Where a frame that goes on can end, and that it fits.
LEMMA ContinuedEnds ==
  ASSUME NEW f, NEW e, WholeFrame(f, e), Len(e) < FifoDepth,
         NEW w \in Seq(Bytes), NEW bytes \in Seq(Bytes), NEW b, NEW o,
         Continues(f, w, bytes, b, o), o + b < Len(f)
  PROVE  /\ \A a : EndsAt(bytes, b, a) => a = Len(bytes) /\ o + a = Len(f)
         /\ Clear(bytes, b + 1, Len(bytes)) => o + Len(bytes) < Len(f)
         /\ ~TooLong(w, bytes, b)
<1>1. /\ Len(bytes) \in Nat /\ Len(f) \in Nat /\ Len(e) \in Nat /\ Len(f) = Len(e) + 2
      /\ FifoDepth \in Nat
      /\ \A i \in 1 .. Len(f) : f[i] = Delimiter <=> (i = 1 \/ i = Len(f))
  BY LenProperties, FifoAssumption DEF WholeFrame
<1>2. /\ o \in Nat /\ b \in 0 .. Len(bytes) /\ o + b >= 1 /\ o + Len(bytes) =< Len(f)
      /\ \A i \in 1 .. Len(bytes) : bytes[i] = f[o + i]
      /\ Len(w) = o + b - 1
  BY DEF Continues
<1>3. ASSUME NEW a, EndsAt(bytes, b, a) PROVE a = Len(bytes) /\ o + a = Len(f)
  <2>1. a \in b + 1 .. Len(bytes) /\ bytes[a] = Delimiter
    BY <1>3 DEF EndsAt
  <2>2. a \in 1 .. Len(bytes) /\ o + a \in 1 .. Len(f) /\ o + a # 1
    BY <1>1, <1>2, <2>1
  <2>3. f[o + a] = Delimiter
    BY <1>2, <2>1, <2>2
  <2>4. o + a = Len(f)
    <3> DEFINE j == o + a
    <3>1. j \in 1 .. Len(f) /\ j # 1 /\ f[j] = Delimiter
      BY <2>2, <2>3
    <3>. HIDE DEF j
    <3>2. j = Len(f)
      BY <1>1, <3>1
    <3>. QED BY <3>2 DEF j
  <2>. QED BY <1>1, <1>2, <2>2, <2>4
<1>4. ASSUME Clear(bytes, b + 1, Len(bytes)) PROVE o + Len(bytes) < Len(f)
  <2>1. CASE b = Len(bytes)
    BY <1>2, <2>1
  <2>2. CASE b # Len(bytes)
    <3>1. Len(bytes) \in b + 1 .. Len(bytes) /\ Len(bytes) \in 1 .. Len(bytes)
      BY <1>1, <1>2, <2>2
    <3>2. bytes[Len(bytes)] # Delimiter /\ bytes[Len(bytes)] = f[o + Len(bytes)]
      BY <1>2, <1>4, <3>1 DEF Clear
    <3>3. o + Len(bytes) # Len(f)
      <4>1. Len(f) \in 1 .. Len(f)
        BY <1>1
      <4>2. f[Len(f)] = Delimiter
        BY <1>1, <4>1
      <4>. QED BY <3>2, <4>2
    <3>. QED BY <1>1, <1>2, <3>3
  <2>. QED BY <2>1, <2>2
<1>5. ASSUME TooLong(w, bytes, b) PROVE FALSE
  <2>1. ASSUME NEW a, EndsAt(bytes, b, a), Len(w) + (a - 1 - b) >= FifoDepth PROVE FALSE
    <3>1. a = Len(bytes) /\ o + a = Len(f)
      BY <1>3, <2>1
    <3>. QED BY <1>1, <1>2, <2>1, <3>1
  <2>2. CASE Clear(bytes, b + 1, Len(bytes)) /\ Len(w) + (Len(bytes) - b) > FifoDepth
    <3>1. o + Len(bytes) < Len(f)
      BY <1>4, <2>2
    <3>. QED BY <1>1, <1>2, <2>2, <3>1
  <2>. QED BY <1>5, <2>1, <2>2 DEF TooLong
<1>. QED BY <1>3, <1>4, <1>5

\* A deframer that has nothing but part of the frame f, and gets more of it.
Expects(d, chunk, f) ==
  /\ GoodDeframer(d) /\ d.fifo = << >> /\ d.state # "ERROR"
  /\ chunk \in Seq(Bytes) /\ Len(chunk) \in 1 .. FifoDepth
  /\ Begins(Held(d) \o chunk, f)

LEMMA CallContinues ==
  ASSUME NEW f, NEW e, WholeFrame(f, e), NEW d, NEW chunk, Expects(d, chunk, f)
  PROVE  \E o \in Nat :
           /\ Len(Held(d) \o chunk) = o + Len(chunk)
           /\ d.state = "INIT" => o = 0 /\ ~Clear(chunk, 1, Len(chunk))
           /\ \A b, w : Starts(d, chunk, b, w) =>
                Continues(f, w, chunk, b, o) /\ o + b < Len(f) /\ w \in Seq(Bytes)
<1>1. /\ f \in Seq(Bytes) /\ Len(f) \in Nat /\ Len(e) \in Nat /\ Len(e) > 0 /\ Len(f) = Len(e) + 2
      /\ \A i \in 1 .. Len(f) : f[i] = Delimiter <=> (i = 1 \/ i = Len(f))
      /\ chunk \in Seq(Bytes) /\ Len(chunk) \in Nat /\ Len(chunk) >= 1
  BY LenProperties, FifoAssumption DEF WholeFrame, Expects
<1>2. Held(d) = Opened(d) /\ Opened(d) \in Seq(Bytes) /\ d.work \in Seq(Bytes) /\ Len(d.work) \in Nat
  <2>1. GoodDeframer(d) /\ d.fifo = << >>
    BY DEF Expects
  <2>2. Opened(d) \in Seq(Bytes) /\ d.work \in Seq(Bytes)
    BY <1>1, <2>1, HeldParts
  <2> DEFINE p == Opened(d)
  <2>. HIDE DEF p
  <2>3. p \o << >> = p
    BY <2>2, ConcatEmptySeq DEF p
  <2>. QED BY <2>1, <2>2, <2>3, LenProperties DEF Held, p
<1> DEFINE p == Opened(d)
           z == p \o chunk
<1>3. Joined(z, p, chunk)
  <2>. HIDE DEF p
  <2>. QED BY <1>1, <1>2, JoinedIs DEF p
<1>4. Begins(z, f)
  BY <1>2 DEF Expects
<1>. HIDE DEF z
<1>5. CASE d.state = "INIT"
  <2>1. p = << >> /\ Len(p) = 0
    BY <1>5 DEF Opened
  <2>. HIDE DEF p
  <2>2. Len(z) = Len(chunk) /\ (\A i \in 1 .. Len(chunk) : z[0 + i] = chunk[i]) /\ Len(z) =< Len(f)
        /\ \A i \in 1 .. Len(z) : f[i] = z[i]
    BY <1>1, <1>3, <1>4, <2>1 DEF Joined, Begins
  <2>3. \A i \in 1 .. Len(chunk) : chunk[i] = f[i] /\ 0 + i = i
    <3>. TAKE i \in 1 .. Len(chunk)
    <3>1. 0 + i = i /\ i \in 1 .. Len(z)
      BY <2>2
    <3>. QED BY <2>2, <3>1
  <2>4. chunk[1] = Delimiter /\ 1 \in 1 .. Len(chunk)
    <3>1. 1 \in 1 .. Len(chunk) /\ 1 \in 1 .. Len(f)
      BY <1>1
    <3>. QED BY <1>1, <2>3, <3>1
  <2>5. ~Clear(chunk, 1, Len(chunk))
    BY <2>4 DEF Clear
  <2>6. ASSUME NEW b, NEW w, Starts(d, chunk, b, w)
        PROVE  Continues(f, w, chunk, b, 0) /\ 0 + b < Len(f) /\ w \in Seq(Bytes)
    <3>1. w = << >> /\ b \in 1 .. Len(chunk) /\ Clear(chunk, 1, b - 1)
      BY <1>5, <2>6 DEF Starts
    <3>2. b = 1
      <4>. SUFFICES ASSUME b # 1 PROVE FALSE
        OBVIOUS
      <4>1. 1 \in 1 .. b - 1
        BY <1>1, <3>1
      <4>. QED BY <2>4, <3>1, <4>1 DEF Clear
    <3>3. Len(w) = 0 /\ w \in Seq(Bytes) /\ \A i \in 1 .. Len(w) : w[i] = f[1 + i]
      BY <3>1
    <3>. QED BY <1>1, <2>2, <2>3, <3>1, <3>2, <3>3 DEF Continues
  <2>7. Len(z) = 0 + Len(chunk)
    BY <1>1, <2>2
  <2>. QED BY <1>2, <1>5, <2>5, <2>6, <2>7 DEF z, p
<1>6. CASE d.state = "FIND_EOF"
  <2> DEFINE o == 1 + Len(d.work)
  <2>1. /\ Len(p) = o /\ o \in Nat /\ p \in Seq(Bytes)
        /\ \A i \in 1 .. Len(d.work) : p[1 + i] = d.work[i]
    <3>1. Joined(p, <<Delimiter>>, d.work) /\ p \in Seq(Bytes)
      BY <1>1, <1>6, HeldParts DEF Expects
    <3>. QED BY <1>2, <3>1 DEF Joined
  <2>. HIDE DEF p
  <2>2. /\ Len(z) = o + Len(chunk) /\ Len(z) =< Len(f)
        /\ (\A i \in 1 .. Len(chunk) : z[o + i] = chunk[i])
        /\ (\A i \in 1 .. o : z[i] = p[i])
        /\ \A i \in 1 .. Len(z) : f[i] = z[i]
    BY <1>3, <1>4, <2>1 DEF Joined, Begins
  <2>3. \A i \in 1 .. Len(chunk) : chunk[i] = f[o + i]
    <3>. TAKE i \in 1 .. Len(chunk)
    <3>1. o + i \in 1 .. Len(z)
      BY <1>1, <2>1, <2>2
    <3>. QED BY <2>2, <3>1
  <2>4. \A i \in 1 .. Len(d.work) : d.work[i] = f[1 + i]
    <3>. TAKE i \in 1 .. Len(d.work)
    <3>1. 1 + i \in 1 .. o /\ 1 + i \in 1 .. Len(z)
      BY <1>1, <1>2, <2>1, <2>2
    <3>. QED BY <2>1, <2>2, <3>1
  <2>5. ASSUME NEW b, NEW w, Starts(d, chunk, b, w)
        PROVE  Continues(f, w, chunk, b, o) /\ o + b < Len(f) /\ w \in Seq(Bytes)
    <3>1. w = d.work /\ b = 0
      BY <1>6, <2>5 DEF Starts
    <3>2. Len(w) = o + b - 1 /\ o + b >= 1 /\ o + b < Len(f) /\ b \in 0 .. Len(chunk)
          /\ o + Len(chunk) =< Len(f)
      BY <1>1, <1>2, <2>1, <2>2, <3>1
    <3>. HIDE DEF o
    <3>. QED BY <1>2, <2>1, <2>3, <2>4, <3>1, <3>2 DEF Continues
  <2>. HIDE DEF o
  <2>6. o \in Nat /\ d.state # "INIT" /\ Len(Held(d) \o chunk) = o + Len(chunk)
    BY <1>2, <1>6, <2>1, <2>2 DEF z, p
  <2>. QED BY <2>5, <2>6
<1>. QED BY <1>5, <1>6 DEF Expects, GoodDeframer, Deframers

\* The call has kept part of the frame, or has the message of all of it.
Advanced(d, chunk, r, f, e) ==
  /\ r.d.fifo = << >> /\ r.d.state # "ERROR"
  /\ Len(Held(d) \o chunk) < Len(f) => r.msg = << >> /\ Held(r.d) = Held(d) \o chunk
  /\ Len(Held(d) \o chunk) = Len(f) => r.msg = Cobs_decode(e) /\ Held(r.d) = << >>

\* What it keeps of a frame that has begun.
LEMMA BegunFrame ==
  ASSUME NEW f \in Seq(Bytes), f[1] = Delimiter, NEW z \in Seq(Bytes), Begins(z, f), Len(z) >= 1
  PROVE  (<<Delimiter>> \o SubSeq(f, 2, Len(z))) \o << >> = z
<1> DEFINE n == Len(z)
           m == 2
           g == <<Delimiter>>
           s == SubSeq(f, m, n)
           u == g \o s
<1>1. n \in Nat /\ n >= 1 /\ n =< Len(f) /\ \A i \in 1 .. n : f[i] = z[i]
  BY LenProperties DEF Begins
<1>2. g \in Seq(Bytes) /\ Len(g) = 1 /\ g[1] = Delimiter
  BY Single DEF Delimiter, Bytes
<1>3. n \in Int /\ m \in Int /\ 1 =< m /\ n =< Len(f) /\ m = 2 /\ n = Len(z)
  BY <1>1
<1>. HIDE DEF n, m, g
<1>4. /\ s \in Seq(Bytes) /\ Len(s) = IF m =< n THEN n - m + 1 ELSE 0
      /\ \A i \in 1 .. n - m + 1 : s[i] = f[m + i - 1]
  BY <1>3, Part
<1>. HIDE DEF s
<1>5. Joined(u, g, s)
  BY <1>2, <1>4, JoinedIs
<1>. HIDE DEF u
<1>6. /\ u \in Seq(Bytes) /\ Len(u) = Len(g) + Len(s)
      /\ \A i \in 1 .. Len(g) : u[i] = g[i]
      /\ \A i \in 1 .. Len(s) : u[Len(g) + i] = s[i]
  BY <1>5 DEF Joined
<1>7. Len(s) = n - 1 /\ Len(u) = n
  BY <1>1, <1>2, <1>3, <1>4, <1>6
<1>8. ASSUME NEW i \in 1 .. Len(u) PROVE u[i] = z[i]
  <2>1. CASE i = 1
    <3>1. 1 \in 1 .. Len(g) /\ 1 \in 1 .. n
      BY <1>1, <1>2
    <3>. QED BY <1>1, <1>2, <1>6, <2>1, <3>1
  <2>2. CASE i # 1
    <3> DEFINE j == i - 1
    <3>1. j \in 1 .. Len(s) /\ j \in 1 .. n - m + 1 /\ i = 1 + j /\ m + j - 1 = i /\ i \in 1 .. n
      BY <1>1, <1>3, <1>7, <2>2
    <3>. HIDE DEF j
    <3>2. u[i] = s[j] /\ s[j] = f[i] /\ f[i] = z[i]
      BY <1>1, <1>2, <1>4, <1>6, <3>1
    <3>. QED BY <3>2
  <2>. QED BY <2>1, <2>2
<1>9. u = z
  BY <1>3, <1>6, <1>7, <1>8, SeqEqual
<1>10. z \o << >> = z
  BY ConcatEmptySeq
<1>. QED BY <1>9, <1>10 DEF u, s, g, n, m

\* A deframer that has nothing but part of a frame that fits keeps all that comes of it, and at
\* its end gets its message.
LEMMA FrameCall ==
  ASSUME NEW f, NEW e, WholeFrame(f, e), Len(e) < FifoDepth, Cobs_decode(e) # DecodeError,
         NEW d, NEW chunk, Expects(d, chunk, f), NEW r, r = Cobs_deframer(d, chunk)
  PROVE  Advanced(d, chunk, r, f, e)
<1> DEFINE z == Held(d) \o chunk
           L == Len(chunk)
<1>1. /\ GoodDeframer(d) /\ d.fifo = << >> /\ d.state # "ERROR" /\ chunk \in Seq(Bytes)
      /\ L \in Nat /\ L =< FifoDepth /\ f \in Seq(Bytes) /\ Len(f) \in Nat /\ Begins(z, f)
      /\ Held(d) \in Seq(Bytes) /\ z \in Seq(Bytes) /\ SubSeq(f, 2, Len(f) - 1) = e
      /\ Len(f) > 2
  <2>1. /\ GoodDeframer(d) /\ d.fifo = << >> /\ d.state # "ERROR" /\ chunk \in Seq(Bytes)
        /\ L \in 1 .. FifoDepth /\ f \in Seq(Bytes) /\ Begins(z, f)
        /\ SubSeq(f, 2, Len(f) - 1) = e /\ Len(f) = Len(e) + 2 /\ Len(e) \in Nat /\ Len(e) > 0
    BY DEF Expects, WholeFrame
  <2>2. Held(d) \in Seq(Bytes)
    BY <2>1, HeldParts
  <2> DEFINE h == Held(d)
  <2>. HIDE DEF h
  <2>3. h \o chunk \in Seq(Bytes)
    BY <2>1, <2>2, Join DEF h
  <2>4. L \in Nat /\ L =< FifoDepth
    BY <2>1, FifoAssumption
  <2>. QED BY <2>1, <2>2, <2>3, <2>4 DEF h
<1>2. PICK o \in Nat :
           /\ Len(z) = o + L
           /\ d.state = "INIT" => o = 0 /\ ~Clear(chunk, 1, L)
           /\ \A b, w : Starts(d, chunk, b, w) =>
                Continues(f, w, chunk, b, o) /\ o + b < Len(f) /\ w \in Seq(Bytes)
  BY CallContinues
<1>3. d.fifo \o chunk = chunk
  BY <1>1, ConcatEmptySeq
<1>4. PICK a \in 0 .. L : Outcome(d, chunk, chunk, r, a)
  BY <1>1, <1>3, CallIs
<1>. HIDE DEF z
<1>5. ASSUME NEW b, NEW w, Starts(d, chunk, b, w)
      PROVE  /\ \A c : EndsAt(chunk, b, c) => c = L /\ o + c = Len(f)
             /\ Clear(chunk, b + 1, L) => o + L < Len(f)
             /\ ~TooLong(w, chunk, b)
             /\ \A c \in b .. L : Continued(f, w, chunk, b, o, c)
             /\ b \in 0 .. L /\ w \in Seq(Bytes)
  <2>1. Continues(f, w, chunk, b, o) /\ o + b < Len(f) /\ w \in Seq(Bytes)
    BY <1>2, <1>5
  <2>2. /\ \A c : EndsAt(chunk, b, c) => c = L /\ o + c = Len(f)
        /\ Clear(chunk, b + 1, L) => o + L < Len(f)
        /\ ~TooLong(w, chunk, b)
    BY <1>1, <2>1, ContinuedEnds
  <2>3. ASSUME NEW c \in b .. L PROVE Continued(f, w, chunk, b, o, c)
    <3>1. f \in Seq(Bytes) /\ chunk \in Seq(Bytes) /\ w \in Seq(Bytes) /\ c \in b .. Len(chunk)
      BY <1>1, <2>1, <2>3
    <3>2. Continues(f, w, chunk, b, o)
      BY <2>1
    <3>. QED BY <3>1, <3>2, ContinuedTo
  <2>. QED BY <2>1, <2>2, <2>3 DEF Continues
\* What lies before the end is the encoding.
<1>6. ASSUME NEW b, NEW w, Starts(d, chunk, b, w), NEW c, EndsAt(chunk, b, c)
      PROVE  c = L /\ o + L = Len(f) /\ w \o SubSeq(chunk, b + 1, c - 1) = e
  <2>1. c = L /\ o + c = Len(f) /\ b \in 0 .. L
    BY <1>5, <1>6
  <2>2. c \in b + 1 .. L
    BY <1>6 DEF EndsAt
  <2>3. c - 1 \in b .. L /\ o + (c - 1) = Len(f) - 1
    BY <1>1, <2>1, <2>2
  <2> DEFINE l == c - 1
  <2>4. l \in b .. L /\ o + l = Len(f) - 1
    BY <2>3
  <2>. HIDE DEF l
  <2>5. w \o SubSeq(chunk, b + 1, l) = SubSeq(f, 2, o + l)
    BY <1>5, <1>6, <2>4 DEF Continued
  <2>. QED BY <1>1, <2>1, <2>4, <2>5 DEF l
<1>7. r.d.fifo = From(chunk, a)
  BY <1>4 DEF Outcome
<1>8. From(chunk, L) = << >>
  BY <1>1, SubSeqEmpty DEF From
<1>9. ~Dropped(d, chunk, chunk, r)
  <2>1. Fits(d, chunk)
    <3>1. Len(d.fifo) = 0
      BY <1>1
    <3>. QED BY <1>1, <3>1 DEF Fits
  <2>2. ~(d.state = "INIT" /\ Clear(chunk, 1, Len(chunk)))
    BY <1>2
  <2>3. ASSUME NEW b, NEW w, Starts(d, chunk, b, w)
        PROVE  ~TooLong(w, chunk, b) /\ ~Undecodable(w, chunk, b)
    <3>1. ~TooLong(w, chunk, b)
      BY <1>5, <2>3
    <3>2. SUFFICES ASSUME NEW c, EndsAt(chunk, b, c),
                          Cobs_decode(w \o SubSeq(chunk, b + 1, c - 1)) = DecodeError
                   PROVE  FALSE
      BY <3>1 DEF Undecodable
    <3>3. w \o SubSeq(chunk, b + 1, c - 1) = e
      BY <1>6, <2>3, <3>2
    <3>. QED BY <3>2, <3>3
  <2>. QED BY <1>1, <2>1, <2>2, <2>3 DEF Dropped, Drops
<1>10. CASE Begun(d, chunk, r, a)
  <2>1. PICK b \in 0 .. a, w \in Seq(Bytes) :
          Starts(d, chunk, b, w) /\ Clear(chunk, b + 1, a) /\ r.d.work = w \o SubSeq(chunk, b + 1, a)
    BY <1>10 DEF Begun
  <2>2. r.d.state = "FIND_EOF" /\ r.msg = << >> /\ a = L
    BY <1>10 DEF Begun
  <2>3. o + L < Len(f) /\ L \in b .. L
    BY <1>1, <1>5, <2>1, <2>2
  <2>4. r.d.work = SubSeq(f, 2, o + L)
    BY <1>5, <2>1, <2>2, <2>3 DEF Continued
  <2>5. r.d.fifo = << >>
    BY <1>7, <1>8, <2>2
  <2>6. Held(r.d) = z
    <3>1. o + L = Len(z) /\ Len(z) >= 1
      <4>1. L >= 1
        BY FifoAssumption DEF Expects
      <4>. QED BY <1>1, <1>2, <4>1
    <3>2. f[1] = Delimiter
      <4>1. 1 \in 1 .. Len(f)
        BY <1>1
      <4>. QED BY <4>1 DEF WholeFrame
    <3>3. (<<Delimiter>> \o SubSeq(f, 2, Len(z))) \o << >> = z
      BY <1>1, <3>1, <3>2, BegunFrame
    <3>4. Held(r.d) = (<<Delimiter>> \o SubSeq(f, 2, Len(z))) \o << >>
      BY <2>2, <2>4, <2>5, <3>1 DEF Held, Opened
    <3>. QED BY <3>3, <3>4
  <2>7. Len(z) # Len(f)
    BY <1>2, <2>3
  <2>. QED BY <2>2, <2>5, <2>6, <2>7 DEF Advanced, z
<1>11. CASE Got(d, chunk, r, a)
  <2>1. PICK b \in 0 .. a, w \in Seq(Bytes) :
          /\ Starts(d, chunk, b, w) /\ EndsAt(chunk, b, a)
          /\ r.msg = Cobs_decode(w \o SubSeq(chunk, b + 1, a - 1))
    BY <1>11 DEF Got
  <2>2. a = L /\ o + L = Len(f) /\ w \o SubSeq(chunk, b + 1, a - 1) = e
    BY <1>6, <2>1
  <2>3. r.d.state = "INIT" /\ r.d.fifo = << >>
    BY <1>7, <1>8, <1>11, <2>2 DEF Got
  <2>4. Held(r.d) = << >>
    BY <2>3 DEF Held, Opened
  <2>5. ~(Len(z) < Len(f))
    BY <1>1, <1>2, <2>2
  <2>. QED BY <2>1, <2>2, <2>3, <2>4, <2>5 DEF Advanced, z
<1>. QED BY <1>4, <1>9, <1>10, <1>11 DEF Outcome

-----------------------------------------------------------------------------
(* Clients that wait: the replies to their requests. *)

LEMMA RepliesLoop ==
  ASSUME NEW s \in Seq(Msgs)
  PROVE  /\ RepliesTo(s)[0] = << >>
         /\ \A n \in 0 .. Len(s) : RepliesTo(s)[n] \in Seq(Answers)
         /\ \A n \in 1 .. Len(s) : RepliesTo(s)[n] = RepliesTo(s)[n - 1] \o Reply1(s[n])
<1> DEFINE A == Seq(Answers)
           base == << >>
           Step == [p \in A \X Msgs |-> p[1] \o Reply1(p[2])]
           Is(acc) == acc = [n \in 0 .. Len(s) |->
                               IF n = 0 THEN base ELSE acc[n - 1] \o Reply1(s[n])]
<1>0. ASSUME NEW a \in A, NEW m \in Msgs PROVE a \o Reply1(m) \in A
  <2>1. Reply1(m) \in Seq(Answers)
    BY RepliesAre
  <2> DEFINE r == Reply1(m)
  <2>. HIDE DEF r
  <2>2. a \o r \in Seq(Answers)
    BY <2>1, Join DEF r
  <2>. QED BY <2>2 DEF r
<1>1. Step \in [A \X Msgs -> A]
  <2>. HIDE DEF A
  <2>. QED BY <1>0
<1>2. base \in A
  OBVIOUS
<1>3. PICK g \in [0 .. Len(s) -> A] : Rounds(g, Step, base, s)
  <2>. HIDE DEF Step, A, base
  <2>. QED BY <1>1, <1>2, LoopExists
<1>4. Len(s) \in Nat /\ \A i \in 1 .. Len(s) : s[i] \in Msgs
  BY LenProperties, ElementOfSeq
<1>5. ASSUME NEW n \in 0 .. Len(s)
      PROVE  g[n] = IF n = 0 THEN base ELSE g[n - 1] \o Reply1(s[n])
  <2>1. g[n] = IF n = 0 THEN base ELSE Step[<<g[n - 1], s[n]>>]
    BY <1>3 DEF Rounds
  <2>2. CASE n # 0
    <3>. HIDE DEF A
    <3>0. n \in 1 .. Len(s) /\ n - 1 \in 0 .. Len(s)
      BY <1>4, <2>2
    <3>1. g[n - 1] \in A /\ s[n] \in Msgs
      BY <1>3, <1>4, <3>0
    <3>. QED BY <2>1, <2>2, <3>1
  <2>. QED BY <2>1, <2>2
<1>6. Is(g)
  BY <1>3, <1>5
<1>7. RepliesTo(s) = CHOOSE acc : Is(acc)
  BY DEF RepliesTo
<1>8. Is(RepliesTo(s))
  <2>. HIDE DEF Is
  <2>. QED BY <1>6, <1>7
<1> DEFINE f == RepliesTo(s)
<1>9. f = [n \in 0 .. Len(s) |-> IF n = 0 THEN base ELSE f[n - 1] \o Reply1(s[n])]
  BY <1>8
<1>. HIDE DEF f, Is, Step, base, A
<1>10. \A n \in 0 .. Len(s) : f[n] = IF n = 0 THEN base ELSE f[n - 1] \o Reply1(s[n])
  BY <1>9
<1> DEFINE T == {n \in 0 .. Len(s) : f[n] \in A}
<1>11. 0 \in T
  BY <1>2, <1>4, <1>10
<1>12. ASSUME NEW n \in 0 .. Len(s) - 1, n \in T PROVE n + 1 \in T
  <2> DEFINE m == n + 1
  <2>1. m \in 1 .. Len(s) /\ m \in 0 .. Len(s) /\ m # 0 /\ m - 1 = n
    BY <1>4
  <2>. HIDE DEF m
  <2>2. f[m] = f[n] \o Reply1(s[m]) /\ f[n] \in A /\ s[m] \in Msgs
    BY <1>4, <1>10, <1>12, <2>1
  <2>3. f[m] \in A
    BY <1>0, <2>2
  <2>. QED BY <2>1, <2>3 DEF m
<1>13. 0 .. Len(s) \subseteq T
  <2>. HIDE DEF T
  <2>. QED BY <1>4, <1>11, <1>12, UpTo
<1>14. \A n \in 1 .. Len(s) : f[n] = f[n - 1] \o Reply1(s[n])
  BY <1>4, <1>10
<1>15. f[0] = base
  BY <1>4, <1>10
<1>. QED BY <1>13, <1>14, <1>15 DEF f, A, base

\* Another request does not change the replies to those before it.
LEMMA RepliesAppend ==
  ASSUME NEW s \in Seq(Msgs), NEW m \in Msgs, NEW t, t = Append(s, m)
  PROVE  RepliesTo(t)[Len(s)] = RepliesTo(s)[Len(s)]
<1>1. /\ t \in Seq(Msgs) /\ Len(t) = Len(s) + 1 /\ Len(s) \in Nat
      /\ \A i \in 1 .. Len(s) : t[i] = s[i]
  BY AppendProperties, LenProperties
<1> DEFINE f == RepliesTo(s)
           g == RepliesTo(t)
           T == {n \in 0 .. Len(s) : g[n] = f[n]}
<1>2. f[0] = << >> /\ \A n \in 1 .. Len(s) : f[n] = f[n - 1] \o Reply1(s[n])
  BY RepliesLoop
<1>3. g[0] = << >> /\ \A n \in 1 .. Len(t) : g[n] = g[n - 1] \o Reply1(t[n])
  BY <1>1, RepliesLoop
<1>. HIDE DEF f, g
<1>4. 0 \in T
  BY <1>1, <1>2, <1>3
<1>5. ASSUME NEW n \in 0 .. Len(s) - 1, n \in T PROVE n + 1 \in T
  <2> DEFINE k == n + 1
  <2>1. k \in 1 .. Len(s) /\ k \in 0 .. Len(s) /\ k \in 1 .. Len(t) /\ k - 1 = n
    BY <1>1
  <2>. HIDE DEF k
  <2>2. g[k] = g[n] \o Reply1(t[k]) /\ f[k] = f[n] \o Reply1(s[k]) /\ t[k] = s[k] /\ g[n] = f[n]
    BY <1>1, <1>2, <1>3, <1>5, <2>1
  <2>. QED BY <2>1, <2>2 DEF k
<1>6. 0 .. Len(s) \subseteq T
  <2>. HIDE DEF T
  <2>. QED BY <1>1, <1>4, <1>5, UpTo
<1>. QED BY <1>1, <1>6 DEF f, g

\* The last request has one reply more than those before it.
LEMMA LastReply ==
  ASSUME NEW s \in Seq(Msgs), s # << >>, NEW n, n = Len(s)
  PROVE  /\ s[n] \in Msgs
         /\ RepliesTo(s)[n] = RepliesTo(s)[n - 1] \o Reply1(s[n])
         /\ RepliesTo(s)[n] # RepliesTo(s)[n - 1]
<1>1. n \in Nat /\ n \in 1 .. n /\ n - 1 \in 0 .. n
  BY LenProperties
<1>2. s[n] \in Msgs
  BY <1>1, ElementOfSeq
<1>3. RepliesTo(s)[n] = RepliesTo(s)[n - 1] \o Reply1(s[n]) /\ RepliesTo(s)[n - 1] \in Seq(Answers)
  BY <1>1, RepliesLoop
<1> DEFINE a == RepliesTo(s)[n - 1]
           r == Reply1(s[n])
<1>4. r \in Seq(Answers) /\ Len(r) = 1
  <2> DEFINE m == s[n]
             ok == [seqn |-> m, status |-> "ok", callset |-> TRUE]
  <2>1. Reply1(m) = <<ok>> /\ Reply1(m) \in Seq(Answers)
    BY <1>2, RepliesAre
  <2>. HIDE DEF m, ok
  <2>2. Len(<<ok>>) = 1
    OBVIOUS
  <2>3. Reply1(m) \in Seq(Answers) /\ Len(Reply1(m)) = 1
    BY <2>1, <2>2
  <2>. QED BY <2>3 DEF m
<1>5. a \in Seq(Answers) /\ Len(a) \in Nat
  BY <1>3, LenProperties
<1>. HIDE DEF a, r
<1>6. Len(a \o r) = Len(a) + 1
  <2>1. Len(a \o r) = Len(a) + Len(r)
    BY <1>4, <1>5, Join
  <2>. QED BY <1>4, <2>1
<1>7. a \o r # a
  BY <1>5, <1>6
<1>. QED BY <1>2, <1>3, <1>7 DEF a, r

-----------------------------------------------------------------------------
(* While all clients wait, a connection has one request on its way at most. *)

\* The bytes of a connection that are not done with.
Stream(c) == IF c = sock THEN Held(deframer) \o up[c] ELSE up[c]

Settled(c) == AllAnswered(c) /\ Stream(c) = << >>

LastAsked(c) == asked[c][Len(asked[c])]

\* All requests but the last are answered, and that one is on its way.
Owed(c) ==
  /\ client[c] = "open" /\ asked[c] # << >> /\ up[c] # << >>
  /\ answers[c] = RepliesTo(asked[c])[Len(asked[c]) - 1]
  /\ Len(Encodings[LastAsked(c)]) < FifoDepth
  /\ Stream(c) = Frame(LastAsked(c))

WaitsInv ==
  /\ deframer.fifo = << >> /\ deframer.state # "ERROR"
  /\ sock \notin Conns => Held(deframer) = << >>
  /\ \A c \in Conns : Settled(c) \/ Owed(c)

LEMMA InitWaits == Init => WaitsInv
<1>. SUFFICES ASSUME Init PROVE WaitsInv
  OBVIOUS
<1>1. deframer = [state |-> "INIT", fifo |-> << >>, work |-> << >>]
  BY DEF Init, Cobs_deframer_init
<1>2. deframer.fifo = << >> /\ deframer.state # "ERROR" /\ Held(deframer) = << >>
  BY <1>1 DEF Held, Opened
<1>3. ASSUME NEW c \in Conns PROVE Settled(c)
  <2> DEFINE s == << >>
  <2>1. s \in Seq(Msgs) /\ Len(s) = 0
    OBVIOUS
  <2>2. asked[c] = s /\ up[c] = << >> /\ answers[c] = << >>
    BY DEF Init
  <2>. HIDE DEF s
  <2>3. RepliesTo(s)[0] = << >>
    BY <2>1, RepliesLoop
  <2>4. AllAnswered(c)
    BY <2>1, <2>2, <2>3 DEF AllAnswered
  <2>5. << >> \o << >> = << >>
    OBVIOUS
  <2>. QED BY <1>2, <2>2, <2>4, <2>5 DEF Settled, Stream
<1>. QED BY <1>2, <1>3 DEF WaitsInv

\* A client that owes has not had its last reply.
LEMMA OwedUnanswered ==
  ASSUME TypeOK, NEW c \in Conns, Owed(c)
  PROVE  ~AllAnswered(c) /\ LastAsked(c) \in Msgs
<1>1. asked[c] \in Seq(Msgs) /\ asked[c] # << >>
  BY DEF TypeOK, Owed
<1> DEFINE s == asked[c]
           n == Len(s)
<1>2. RepliesTo(s)[n] # RepliesTo(s)[n - 1] /\ s[n] \in Msgs
  <2>1. s \in Seq(Msgs) /\ s # << >>
    BY <1>1
  <2>. HIDE DEF s
  <2>. QED BY <2>1, LastReply
<1>. QED BY <1>2 DEF Owed, AllAnswered, LastAsked

\* Steps that move no byte and no reply; the connection served changes when nothing is held.
LEMMA QuietWaits ==
  ASSUME TypeOK, WaitsInv, UNCHANGED <<up, asked, answers, deframer>>,
         \A c \in Conns : client[c] = "open" => client'[c] = "open" \/ AllAnswered(c),
         sock' = sock \/ Held(deframer) = << >>
  PROVE  WaitsInv'
<1>1. Held(deframer)' = Held(deframer)
  BY DEF Held, Opened
<1>2. ASSUME NEW c \in Conns PROVE Stream(c)' = Stream(c)
  <2>1. CASE sock' = sock
    BY <1>1, <2>1 DEF Stream
  <2>2. CASE Held(deframer) = << >>
    <3>1. << >> \o up[c] = up[c]
      <4>1. up[c] \in Seq(Bytes)
        BY DEF TypeOK
      <4>. QED BY <4>1, ConcatEmptySeq
    <3>. QED BY <1>1, <2>2, <3>1 DEF Stream
  <2>. QED BY <2>1, <2>2
<1>3. ASSUME NEW c \in Conns PROVE Settled(c)' \/ Owed(c)'
  <2>1. AllAnswered(c)' <=> AllAnswered(c)
    BY DEF AllAnswered
  <2>2. CASE Settled(c)
    BY <1>2, <2>1, <2>2 DEF Settled
  <2>3. CASE Owed(c)
    <3>1. ~AllAnswered(c)
      BY <2>3, OwedUnanswered
    <3>2. client'[c] = "open"
      BY <2>3, <3>1 DEF Owed
    <3>3. LastAsked(c)' = LastAsked(c)
      BY DEF LastAsked
    <3>. QED BY <1>2, <2>3, <3>2, <3>3 DEF Owed
  <2>. QED BY <2>2, <2>3 DEF WaitsInv
<1>4. sock' \notin Conns => Held(deframer)' = << >>
  BY <1>1 DEF WaitsInv
<1>. QED BY <1>3, <1>4 DEF WaitsInv

LEMMA SendWaits ==
  ASSUME NoZeroInside, TypeOK, WaitsInv, NEW c \in Conns, NEW tail \in Tails, Send(c, tail),
         AllAnswered(c),
         Len(Encodings[[conn |-> c, seqn |-> Len(asked[c]) + 1, tail |-> tail]]) < FifoDepth
  PROVE  WaitsInv'
<1> DEFINE m == [conn |-> c, seqn |-> Len(asked[c]) + 1, tail |-> tail]
<1>1. asked[c] \in Seq(Msgs) /\ up[c] \in Seq(Bytes)
  BY DEF TypeOK
<1>2. m \in Msgs
  <2>1. Len(asked[c]) + 1 \in 1 .. MaxRequests
    BY SentRoom DEF TypeOK, Send
  <2>. QED BY <2>1 DEF Msgs
<1>3. /\ asked' = [asked EXCEPT ![c] = Append(@, m)]
      /\ up' = [up EXCEPT ![c] = @ \o <<Delimiter>> \o Encodings[m] \o <<Delimiter>>]
      /\ client[c] = "open"
      /\ UNCHANGED <<client, answers, backlog, sock, deframer, executed>>
  BY DEF Send
<1>4. Len(Encodings[m]) < FifoDepth
  OBVIOUS
<1>. HIDE DEF m
<1>5. PICK s \in Seq(Msgs) : s = asked[c]
  BY <1>1
<1>6. /\ asked'[c] = Append(s, m) /\ up'[c] = up[c] \o Frame(m)
      /\ \A e \in Conns \ {c} : asked'[e] = asked[e] /\ up'[e] = up[e]
  <2>1. up[c] \o <<Delimiter>> \o Encodings[m] \o <<Delimiter>> = up[c] \o Frame(m)
    BY <1>1, <1>2, FrameIs
  <2>. QED BY <1>3, <1>5, <2>1 DEF TypeOK
<1>7. Held(deframer)' = Held(deframer)
  BY <1>3 DEF Held, Opened
<1>8. ASSUME NEW e \in Conns \ {c} PROVE Settled(e)' \/ Owed(e)'
  <2>1. Stream(e)' = Stream(e) /\ LastAsked(e)' = LastAsked(e) /\ (AllAnswered(e)' <=> AllAnswered(e))
    BY <1>3, <1>6, <1>7 DEF Stream, LastAsked, AllAnswered
  <2>2. CASE Settled(e)
    BY <2>1, <2>2 DEF Settled
  <2>3. CASE Owed(e)
    BY <1>3, <1>6, <2>1, <2>3 DEF Owed
  <2>. QED BY <2>2, <2>3 DEF WaitsInv
<1>9. Owed(c)'
  <2>1. Stream(c) = << >>
    <3>1. ~Owed(c)
      BY OwedUnanswered
    <3>. QED BY <3>1 DEF WaitsInv, Settled
  <2>2. Frame(m) \in Seq(Bytes) /\ Frame(m) # << >>
    <3>1. Frame(m) \in Seq(Bytes) /\ Len(Frame(m)) = Len(Encodings[m]) + 2 /\ Encodings[m] \in Seq(Bytes)
      BY <1>2, FrameIs
    <3>2. Len(Encodings[m]) \in Nat /\ Len(<< >>) = 0
      BY <3>1, LenProperties
    <3>3. Len(Frame(m)) # 0
      BY <3>1, <3>2
    <3>. QED BY <3>1, <3>2, <3>3
  <2>3. PICK h \in Seq(Bytes), u \in Seq(Bytes) : h = Held(deframer) /\ u = up[c]
    <3>1. Held(deframer) \in Seq(Bytes)
      BY UnreadIs
    <3>. QED BY <1>1, <3>1
  <2>4. PICK f \in Seq(Bytes) : f = Frame(m)
    BY <2>2
  <2>5. h \o (u \o f) = (h \o u) \o f /\ << >> \o f = f
    <3>1. Associates(h, u, f)
      BY Associative
    <3>. QED BY <3>1, ConcatEmptySeq DEF Associates
  <2>6. up'[c] = u \o f
    BY <1>6, <2>3, <2>4
  <2>7. Stream(c)' = f
    <3>1. CASE c = sock
      <4>1. h \o u = << >>
        BY <2>1, <2>3, <3>1 DEF Stream
      <4>2. Stream(c)' = h \o up'[c]
        BY <1>3, <1>7, <2>3, <3>1 DEF Stream
      <4>. QED BY <2>5, <2>6, <4>1, <4>2
    <3>2. CASE c # sock
      <4>1. u = << >>
        BY <2>1, <2>3, <3>2 DEF Stream
      <4>2. Stream(c)' = up'[c]
        BY <1>3, <3>2 DEF Stream
      <4>. QED BY <2>5, <2>6, <4>1, <4>2
    <3>. QED BY <3>1, <3>2
  <2>8. up'[c] # << >>
    <3>1. Len(u \o f) = Len(u) + Len(f) /\ Len(u) \in Nat /\ Len(f) \in Nat /\ Len(f) # 0
      BY <2>2, <2>4, Join, LenProperties, EmptySeq
    <3>2. Len(u \o f) # 0
      BY <3>1
    <3>. QED BY <2>6, <3>2
  <2>9. PICK t \in Seq(Msgs) : t = Append(s, m)
    BY <1>2, AppendProperties
  <2>10. /\ Len(t) = Len(s) + 1 /\ t[Len(t)] = m /\ t # << >> /\ Len(t) - 1 = Len(s)
    <3>1. Len(s) \in Nat
      BY LenProperties
    <3>2. Len(t) = Len(s) + 1 /\ t[Len(s) + 1] = m
      BY <1>2, <2>9, AppendProperties
    <3>. QED BY <3>1, <3>2
  <2>11. asked'[c] = t /\ LastAsked(c)' = m
    BY <1>6, <2>9, <2>10 DEF LastAsked
  <2>12. answers'[c] = RepliesTo(t)[Len(s)]
    <3>1. RepliesTo(t)[Len(s)] = RepliesTo(s)[Len(s)]
      BY <1>2, <2>9, RepliesAppend
    <3>. QED BY <1>3, <1>5, <3>1 DEF AllAnswered
  <2>. QED BY <1>3, <1>4, <2>4, <2>7, <2>8, <2>10, <2>11, <2>12 DEF Owed
<1>10. /\ deframer'.fifo = << >> /\ deframer'.state # "ERROR"
       /\ sock' \notin Conns => Held(deframer)' = << >>
  BY <1>3, <1>7 DEF WaitsInv
<1>. QED BY <1>8, <1>9, <1>10 DEF WaitsInv

LEMMA PayloadNotEmpty ==
  ASSUME NEW m \in Msgs
  PROVE  Payload(m) # << >> /\ Payload(m) # DecodeError
<1> DEFINE x == Payload(m)
<1>1. Len(x) = 1 + Len(m.tail) /\ m.tail \in Seq(Bytes) /\ x[1] = Rank(m)
  BY PayloadIs
<1>2. Len(m.tail) \in Nat /\ Len(<< >>) = 0 /\ Rank(m) \in 1 .. 255
  BY <1>1, LenProperties, RankBytes
<1> DEFINE r == Rank(m)
           y == <<-1>>
<1>3. y[1] = -1
  OBVIOUS
<1>. HIDE DEF x, r, y
<1>4. Len(x) # 0
  <2>1. Len(m.tail) + 1 # 0
    BY <1>2
  <2>. QED BY <1>1, <1>2, <2>1
<1>5. x[1] # -1
  <2>1. r \in 1 .. 255 /\ x[1] = r
    BY <1>1, <1>2 DEF r
  <2>2. r # -1
    BY <2>1
  <2>. QED BY <2>1, <2>2
<1>. QED BY <1>2, <1>3, <1>4, <1>5 DEF DecodeError, x, y

\* The reply of a call with the message x.
Replied(x) ==
  \/ \E u \in SentAs(x) : Handled(u)
  \/ SentAs(x) = {} /\ NotHandled
  \/ SentAs(x) = {} /\ x # << >>

LEMMA RepliedNone ==
  ASSUME Replied(<< >>)
  PROVE  UNCHANGED answers
<1>1. SentAs(<< >>) = {}
  BY PayloadNotEmpty DEF SentAs
<1>. QED BY <1>1 DEF Replied, NotHandled

LEMMA RepliedOnce ==
  ASSUME NEW m \in Msgs, Replied(Payload(m)), client[sock] = "open"
  PROVE  answers' = [answers EXCEPT ![sock] = @ \o Reply1(m)]
<1>1. m \in SentAs(Payload(m))
  BY DEF SentAs
<1>2. PICK u \in SentAs(Payload(m)) : Handled(u)
  BY <1>1 DEF Replied
<1>3. u = m
  BY <1>2, PayloadDistinct DEF SentAs
<1>. QED BY <1>2, <1>3 DEF Handled, TcpSocket_write

\* What is left of a frame once the bytes z of it have been seen.
LEMMA RestOfFrame ==
  ASSUME NEW f \in Seq(Bytes), NEW z \in Seq(Bytes), NEW rest \in Seq(Bytes), Concat(f, z, rest)
  PROVE  /\ Begins(z, f)
         /\ Len(z) < Len(f) => rest # << >>
         /\ Len(z) = Len(f) => rest = << >>
         /\ Len(z) =< Len(f) /\ Len(z) \in Nat /\ Len(f) \in Nat
<1>1. Joined(f, z, rest)
  BY JoinedIs DEF Concat
<1>2. Len(f) = Len(z) + Len(rest) /\ \A i \in 1 .. Len(z) : f[i] = z[i]
  BY <1>1 DEF Joined
<1>3. Len(z) \in Nat /\ Len(rest) \in Nat /\ Len(f) \in Nat /\ Len(<< >>) = 0
  BY LenProperties
<1>4. Len(rest) = 0 => rest = << >>
  BY EmptySeq
<1>5. Len(z) =< Len(f)
  BY <1>2, <1>3
<1>6. Len(z) < Len(f) => Len(rest) # 0
  BY <1>2, <1>3
<1>7. Len(z) = Len(f) => Len(rest) = 0
  BY <1>2, <1>3
<1>. QED BY <1>2, <1>3, <1>4, <1>5, <1>6, <1>7 DEF Begins

LEMMA ReadWaits ==
  ASSUME NoZeroInside, TypeOK, WaitsInv, Read
  PROVE  WaitsInv'
<1>1. sock \in Conns /\ UNCHANGED <<client, asked, backlog, sock, patient>>
  BY DEF Read
<1>2. PICK n \in 1 .. FifoDepth : TcpSocket_read(n) /\ rpc_callback(SubSeq(up[sock], 1, n))
  BY DEF Read
<1>3. PICK s \in Seq(Bytes) : s = up[sock]
  BY <1>1, UnreadIs
<1>4. PICK d : d = deframer
  OBVIOUS
<1>5. PICK h \in Seq(Bytes) : h = Held(d)
  BY <1>4, UnreadIs
<1> DEFINE chunk == SubSeq(s, 1, n)
           rest == SubSeq(s, n + 1, Len(s))
<1>6. n =< Len(s) /\ up' = [up EXCEPT ![sock] = rest]
  BY <1>2, <1>3 DEF TcpSocket_read
<1>7. Owed(sock)
  <2>1. s # << >>
    <3>1. n >= 1 /\ n \in Nat /\ Len(s) \in Nat
      BY FifoAssumption, LenProperties
    <3>2. Len(s) # 0 /\ Len(<< >>) = 0
      BY <1>6, <3>1
    <3>. QED BY <3>2
  <2>2. Stream(sock) = h \o s
    BY <1>3, <1>4, <1>5 DEF Stream
  <2>3. h \o s # << >>
    <3>1. Len(h \o s) = Len(h) + Len(s) /\ Len(h) \in Nat /\ Len(s) \in Nat
      BY Join, LenProperties
    <3>2. Len(s) # 0
      BY <2>1, EmptySeq
    <3>3. Len(h \o s) # 0 /\ Len(<< >>) = 0
      BY <3>1, <3>2
    <3>. QED BY <3>3
  <2>. QED BY <1>1, <2>2, <2>3 DEF WaitsInv, Settled
<1>8. PICK m \in Msgs : m = LastAsked(sock)
  BY <1>1, <1>7, OwedUnanswered
<1>9. PICK f \in Seq(Bytes) : f = Frame(m)
  BY FrameIs
<1>10. PICK e : e = Encodings[m]
  OBVIOUS
<1>11. WholeFrame(f, e) /\ Len(e) < FifoDepth /\ h \o s = f /\ client[sock] = "open"
  <2>1. Stream(sock) = h \o s
    BY <1>3, <1>4, <1>5 DEF Stream
  <2>. QED BY <1>7, <1>8, <1>9, <1>10, <2>1, FrameWhole DEF Owed
<1>12. Cobs_decode(e) = Payload(m) /\ Cobs_decode(e) # DecodeError
  <2>1. e = Cobs_encode(Payload(m)) /\ Payload(m) \in Seq(Bytes)
    BY <1>10, FrameIs, PayloadIs
  <2>. QED BY <2>1, RoundTrip, PayloadNotEmpty
<1>13. PICK z : z = h \o chunk
  OBVIOUS
<1>14. ReadOff(h, s, n, z)
  BY <1>6, <1>13, ReadOffIs
<1>15. z \in Seq(Bytes) /\ chunk \in Seq(Bytes) /\ rest \in Seq(Bytes) /\ Concat(f, z, rest)
  BY <1>11, <1>14 DEF ReadOff, Concat
<1>16. Len(chunk) = n
  <2>1. n \in Nat /\ n >= 1
    BY FifoAssumption
  <2>2. 1 \in Int /\ n \in Int /\ 1 =< 1 /\ n =< Len(s)
    BY <1>6, <2>1
  <2>3. Len(SubSeq(s, 1, n)) = IF 1 =< n THEN n - 1 + 1 ELSE 0
    BY <2>2, Part
  <2>. QED BY <2>1, <2>3
<1>17. PICK r : r = Cobs_deframer(d, chunk) /\ deframer' = r.d /\ Replied(r.msg)
  BY <1>2, <1>3, <1>4 DEF rpc_callback, Replied
<1>. HIDE DEF chunk, rest
<1>18. /\ Begins(z, f)
       /\ Len(z) < Len(f) => rest # << >>
       /\ Len(z) = Len(f) => rest = << >>
       /\ Len(z) =< Len(f) /\ Len(z) \in Nat /\ Len(f) \in Nat
  BY <1>15, RestOfFrame
<1>19. Expects(d, chunk, f)
  <2>1. GoodDeframer(d) /\ d.fifo = << >> /\ d.state # "ERROR"
    BY <1>4, UnreadIs DEF WaitsInv
  <2>. QED BY <1>5, <1>13, <1>15, <1>16, <1>18, <2>1 DEF Expects
<1>20. Advanced(d, chunk, r, f, e)
  BY <1>11, <1>12, <1>17, <1>19, FrameCall
<1>21. /\ r.d.fifo = << >> /\ r.d.state # "ERROR"
       /\ Len(z) < Len(f) => r.msg = << >> /\ Held(r.d) = z
       /\ Len(z) = Len(f) => r.msg = Payload(m) /\ Held(r.d) = << >>
  BY <1>5, <1>12, <1>13, <1>20 DEF Advanced
<1>22. Held(deframer)' = Held(r.d)
  BY <1>17 DEF Held, Opened
<1>23. up'[sock] = rest /\ \A c \in Conns \ {sock} : up'[c] = up[c]
  BY <1>1, <1>6 DEF TypeOK
<1>24. Stream(sock)' = Held(r.d) \o rest
  BY <1>1, <1>22, <1>23 DEF Stream
<1>25. LastAsked(sock)' = m
  BY <1>1, <1>8 DEF LastAsked
<1>26. CASE Len(z) < Len(f)
  <2>1. UNCHANGED answers
    BY <1>17, <1>21, <1>26, RepliedNone
  <2>2. Stream(sock)' = f
    BY <1>15, <1>21, <1>24, <1>26 DEF Concat
  <2>3. Owed(sock)'
    BY <1>1, <1>7, <1>9, <1>10, <1>11, <1>18, <1>23, <1>25, <1>26, <2>1, <2>2 DEF Owed
  <2>4. \A c \in Conns \ {sock} : answers'[c] = answers[c]
    BY <2>1
  <2>5. ASSUME NEW c \in Conns \ {sock} PROVE Settled(c)' \/ Owed(c)'
    BY <1>1, <1>23, <2>4 DEF WaitsInv, Settled, Owed, AllAnswered, Stream, LastAsked
  <2>. QED BY <1>1, <1>17, <1>21, <2>3, <2>5 DEF WaitsInv
<1>27. CASE Len(z) = Len(f)
  <2>1. answers' = [answers EXCEPT ![sock] = @ \o Reply1(m)]
    BY <1>11, <1>17, <1>21, <1>27, RepliedOnce
  <2>2. /\ answers'[sock] = answers[sock] \o Reply1(m)
        /\ \A c \in Conns \ {sock} : answers'[c] = answers[c]
    BY <1>1, <2>1 DEF TypeOK
  <2>3. Stream(sock)' = << >>
    <3>1. rest = << >> /\ Held(r.d) = << >> /\ << >> \o << >> = << >>
      BY <1>18, <1>21, <1>27
    <3>. QED BY <1>24, <3>1
  <2>4. AllAnswered(sock)'
    <3>1. PICK q \in Seq(Msgs) : q = asked[sock]
      BY <1>1 DEF TypeOK
    <3>2. q # << >> /\ q[Len(q)] = m /\ answers[sock] = RepliesTo(q)[Len(q) - 1]
      BY <1>7, <1>8, <3>1 DEF Owed, LastAsked
    <3>3. RepliesTo(q)[Len(q)] = RepliesTo(q)[Len(q) - 1] \o Reply1(q[Len(q)])
      BY <3>2, LastReply
    <3>4. answers'[sock] = RepliesTo(q)[Len(q)]
      BY <2>2, <3>2, <3>3
    <3>. QED BY <1>1, <3>1, <3>4 DEF AllAnswered
  <2>5. ASSUME NEW c \in Conns \ {sock} PROVE Settled(c)' \/ Owed(c)'
    BY <1>1, <1>23, <2>2 DEF WaitsInv, Settled, Owed, AllAnswered, Stream, LastAsked
  <2>. QED BY <1>1, <1>17, <1>21, <2>3, <2>4, <2>5 DEF WaitsInv, Settled
<1>. QED BY <1>18, <1>26, <1>27

\* A step after which all clients have waited was taken when they had, and sends no request and
\* closes no connection before the reply.
LEMMA PatientBefore ==
  ASSUME [Next]_vars, patient'
  PROVE  /\ patient
         /\ \A c \in Conns : Close(c) => AllAnswered(c)
         /\ \A c \in Conns : ~Break(c)
         /\ \A c \in Conns, tail \in Tails : Send(c, tail) =>
              /\ AllAnswered(c)
              /\ Len(Encodings[[conn |-> c, seqn |-> Len(asked[c]) + 1, tail |-> tail]]) < FifoDepth
<1>1. ASSUME NEW c \in Conns, Close(c) PROVE patient /\ AllAnswered(c)
  <2>1. patient' = (patient /\ AllAnswered(c))
    BY <1>1 DEF Close
  <2>. QED BY <2>1, Zenon
<1>2. ASSUME NEW c \in Conns, NEW tail \in Tails, Send(c, tail)
      PROVE  /\ patient /\ AllAnswered(c)
             /\ Len(Encodings[[conn |-> c, seqn |-> Len(asked[c]) + 1, tail |-> tail]]) < FifoDepth
  <2> DEFINE m == [conn |-> c, seqn |-> Len(asked[c]) + 1, tail |-> tail]
  <2>1. patient' = (patient /\ AllAnswered(c) /\ Len(Encodings[m]) < FifoDepth)
    BY <1>2 DEF Send
  <2>. QED BY <2>1, Zenon
<1>3. ASSUME NEW c \in Conns, Break(c) PROVE FALSE
  <2>1. patient' = FALSE
    BY <1>3 DEF Break
  <2>. QED BY <2>1, Zenon
<1>4. \/ \E c \in Conns : Close(c) \/ Break(c) \/ \E tail \in Tails : Send(c, tail)
      \/ UNCHANGED patient
  BY DEF Next, Server, Connect, TcpServer_init, TcpSocket_listen, Accept, Read, ReadEnd, ReadError,
         AcceptFails, clientVars, vars
<1>5. patient
  <2>1. CASE UNCHANGED patient
    BY <2>1, Zenon
  <2>. QED BY <1>1, <1>2, <1>3, <1>4, <2>1
<1>. QED BY <1>1, <1>2, <1>3, <1>5

LEMMA StepWaits ==
  ASSUME NoZeroInside, TypeOK, WaitsInv, [Next]_vars, patient'
  PROVE  WaitsInv'
<1>1. ASSUME NEW c \in Conns, Connect(c) PROVE WaitsInv'
  <2>1. \A e \in Conns : client[e] = "open" => client'[e] = "open"
    BY <1>1 DEF Connect, TypeOK
  <2>2. UNCHANGED <<up, asked, answers, deframer, sock>>
    BY <1>1 DEF Connect
  <2>. QED BY <2>1, <2>2, QuietWaits
<1>2. ASSUME NEW c \in Conns, NEW tail \in Tails, Send(c, tail) PROVE WaitsInv'
  BY <1>2, PatientBefore, SendWaits
<1>3. ASSUME NEW c \in Conns, Close(c) PROVE WaitsInv'
  <2>1. AllAnswered(c)
    BY <1>3, PatientBefore
  <2>2. \A e \in Conns : client[e] = "open" => client'[e] = "open" \/ AllAnswered(e)
    BY <1>3, <2>1 DEF Close, TypeOK
  <2>3. UNCHANGED <<up, asked, answers, deframer, sock>>
    BY <1>3 DEF Close
  <2>. QED BY <2>2, <2>3, QuietWaits
<1>4. ASSUME NEW c \in Conns, Break(c) PROVE WaitsInv'
  BY <1>4, PatientBefore
\* Nothing is held when the connection served changes.
<1>5. CASE TcpServer_init \/ TcpSocket_listen \/ Accept \/ AcceptFails
  <2>1. UNCHANGED <<client, up, asked, answers, deframer>>
    BY <1>5 DEF TcpServer_init, TcpSocket_listen, Accept, AcceptFails, clientVars
  <2>2. sock \notin Conns
    BY <1>5, SockIs DEF TcpServer_init, TcpSocket_listen, Accept, AcceptFails
  <2>. QED BY <2>1, <2>2, QuietWaits DEF WaitsInv
<1>6. CASE ReadEnd \/ ReadError
  <2>1. UNCHANGED <<client, up, asked, answers, deframer>> /\ sock \in Conns /\ up[sock] = << >>
    BY <1>6 DEF ReadEnd, ReadError, clientVars
  <2>2. Stream(sock) = << >>
    BY <2>1 DEF WaitsInv, Settled, Owed
  <2>3. Held(deframer) = << >>
    <3>1. PICK h \in Seq(Bytes) : h = Held(deframer)
      BY UnreadIs
    <3>2. h \o << >> = h
      BY ConcatEmptySeq
    <3>. QED BY <2>1, <2>2, <3>1, <3>2 DEF Stream
  <2>. QED BY <2>1, <2>3, QuietWaits
<1>7. CASE Read
  BY <1>7, ReadWaits
<1>8. CASE UNCHANGED vars
  BY <1>8, QuietWaits DEF vars
<1>. QED BY <1>1, <1>2, <1>3, <1>4, <1>5, <1>6, <1>7, <1>8 DEF Next, Server

LEMMA WaitsShown ==
  ASSUME TypeOK, WaitsInv
  PROVE  \A c \in Conns : (c = sock /\ up[c] = << >>) \/ client[c] = "closed" => AllAnswered(c)
BY DEF WaitsInv, Settled, Owed

\* While all clients wait, whatever the requests, their number and the sizes of the buffers, what
\* rpc_callback has been given in whatever parts is answered on its connection, and nothing else
\* is: the deframer is empty between a reply and the next request.
THEOREM RepliesToPatient ==
  ASSUME NoZeroInside
  PROVE  Spec => []PatientAnswered
<1> DEFINE I == patient => WaitsInv
<1>1. Init => TypeOK /\ I
  BY InitTypes, InitWaits
<1>2. TypeOK /\ I /\ [Next]_vars => (TypeOK /\ I)'
  <2>1. ASSUME TypeOK, I, [Next]_vars, patient' PROVE WaitsInv'
    <3>1. WaitsInv
      BY <2>1, PatientBefore
    <3>. QED BY <2>1, <3>1, StepWaits
  <2>. QED BY <2>1, StepTypes
<1>3. TypeOK /\ I => PatientAnswered
  BY WaitsShown DEF PatientAnswered
<1>. HIDE DEF I
<1>. QED BY <1>1, <1>2, <1>3, PTL DEF Spec
=============================================================================
