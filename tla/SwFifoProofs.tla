----------------------------- MODULE SwFifoProofs -----------------------------
(***************************************************************************)
(* For every depth, item set and batch length: the indices of SwFifo stay  *)
(* inside the memory, and SwFifo implements FifoQueue.                     *)
(*                                                                         *)
(* The refinement maps the queue to Contents, the slots from the read      *)
(* index on.  Each function of the code has a lemma that says what it does *)
(* to Contents (or copies out of it); TypeOK is inductive on its own and   *)
(* is the only invariant they need.                                        *)
(***************************************************************************)
EXTENDS SwFifo, SequenceTheorems, TLAPS

USE DepthAssumption, MaxBatchAssumption

-----------------------------------------------------------------------------
(* What a caller passes. *)

\* An array of items is a sequence of items.
LEMMA BatchIsSeq ==
  ASSUME NEW items \in Batches
  PROVE  /\ items \in Seq(Items)
         /\ Len(items) \in Nat
         /\ items \in [1 .. Len(items) -> Items]
BY DEF Batches

-----------------------------------------------------------------------------
(* The index arithmetic. *)

\* The number of items is within the depth, wherever the indices are.
LEMMA CountBounds ==
  ASSUME wrIdx \in Slots, rdIdx \in Slots
  PROVE  /\ count \in 0 .. Depth
         /\ isEmpty <=> count = 0
BY DEF Slots, count, isEmpty

\* The indices wrap back into the memory as long as they advance by the
\* depth at most.
LEMMA AdvanceInSlots ==
  ASSUME NEW idx \in Slots, NEW n \in 0 .. Depth
  PROVE  Advance(idx, n) \in Slots
BY DEF Slots, Advance

\* The contents are a sequence of items, as long as the count says.
LEMMA ContentsIsSeq ==
  ASSUME TypeOK
  PROVE  /\ Contents \in Seq(Items)
         /\ Len(Contents) = count
         /\ count \in 0 .. Depth
         /\ \A i \in 1 .. count : Contents[i] = mem[Advance(rdIdx, i - 1)]
<1>1. count \in 0 .. Depth
  BY CountBounds DEF TypeOK
<1>2. ASSUME NEW i \in 1 .. count PROVE mem[Advance(rdIdx, i - 1)] \in Items
  <2>1. i - 1 \in 0 .. Depth
    BY <1>1
  <2>2. Advance(rdIdx, i - 1) \in Slots
    BY <2>1, AdvanceInSlots DEF TypeOK
  <2> QED
    BY <2>2 DEF TypeOK
<1>3. Contents \in [1 .. count -> Items]
  BY <1>2 DEF Contents
<1> QED
  BY <1>1, <1>3 DEF Contents

-----------------------------------------------------------------------------
(* What each function does to the contents. *)

\* SwFifo_peek copies out the oldest items, as many as asked for and there are.
LEMMA PeekedIsPrefix ==
  ASSUME TypeOK, NEW num \in Counts
  PROVE  /\ Peeked(num) = SubSeq(Contents, 1, Least(num, Len(Contents)))
         /\ Len(Peeked(num)) = Least(num, count)
<1> DEFINE n == Least(num, count)
           S == SubSeq(Contents, 1, n)
<1>1. count \in 0 .. Depth /\ Len(Contents) = count /\ Contents \in Seq(Items)
  BY ContentsIsSeq
<1>2. n \in 0 .. count
  BY <1>1 DEF Least, Counts
<1>3. S = [i \in 1 .. n |-> Contents[i]]
  BY <1>1, <1>2
<1>4. CASE isEmpty
  <2>1. count = 0
    BY <1>4, CountBounds DEF TypeOK
  <2> QED
    BY <1>1, <1>2, <1>3, <1>4, <2>1 DEF Peeked
<1>5. CASE ~isEmpty
  <2>1. Peeked(num) = circRead(n)
    BY <1>5 DEF Peeked
  <2>2. circRead(n) = [i \in 1 .. n |-> Contents[i]]
    <3>1. ASSUME NEW i \in 1 .. n
          PROVE  (IF rdIdx + n > Depth /\ i > Depth - rdIdx + 1
                  THEN mem[i - (Depth - rdIdx + 1) - 1]
                  ELSE mem[rdIdx + i - 1]) = Contents[i]
      <4>1. Contents[i] = mem[Advance(rdIdx, i - 1)]
        BY <1>1, <1>2, ContentsIsSeq
      <4> QED
        BY <1>1, <1>2, <4>1 DEF Advance, TypeOK, Slots
    <3> HIDE DEF n
    <3> QED
      BY <3>1 DEF circRead
  <2> QED
    BY <1>1, <1>2, <1>3, <2>1, <2>2
<1> QED
  BY <1>4, <1>5

\* SwFifo_ack removes the oldest items.
LEMMA AckDropsPrefix ==
  ASSUME TypeOK, NEW num \in 0 .. count,
         rdIdx' = Advance(rdIdx, num), UNCHANGED <<mem, wrIdx>>
  PROVE  Contents' = SubSeq(Contents, num + 1, Len(Contents))
<1>1. count \in 0 .. Depth /\ Len(Contents) = count /\ Contents \in Seq(Items)
  BY ContentsIsSeq
<1>2. count' = count - num
  BY <1>1 DEF count, Advance, TypeOK, Slots
<1>3. Contents' = [i \in 1 .. count - num |-> mem[Advance(Advance(rdIdx, num), i - 1)]]
  BY <1>2 DEF Contents, Advance
<1>4. SubSeq(Contents, num + 1, Len(Contents))
        = [i \in 1 .. count - num |-> Contents[num + i]]
  BY <1>1
<1>5. ASSUME NEW i \in 1 .. count - num
      PROVE  mem[Advance(Advance(rdIdx, num), i - 1)] = Contents[num + i]
  <2>1. Contents[num + i] = mem[Advance(rdIdx, num + i - 1)]
    BY <1>1, ContentsIsSeq
  <2>2. Advance(Advance(rdIdx, num), i - 1) = Advance(rdIdx, num + i - 1)
    BY <1>1 DEF Advance, TypeOK, Slots
  <2> QED
    BY <2>1, <2>2
<1> QED
  BY <1>3, <1>4, <1>5

\* A SwFifo_write that finds room appends its items, in order.
LEMMA WriteAppends ==
  ASSUME TypeOK, NEW items \in Batches, avail >= Len(items),
         mem' = circWrite(mem, items), wrIdx' = Advance(wrIdx, Len(items)),
         UNCHANGED rdIdx
  PROVE  Contents' = Contents \o items
<1> DEFINE n == Len(items)
<1>1. count \in 0 .. Depth /\ Len(Contents) = count /\ Contents \in Seq(Items)
  BY ContentsIsSeq
<1>2. n \in 0 .. Depth - count /\ items \in Seq(Items)
  BY <1>1, BatchIsSeq DEF avail
<1> HIDE DEF n
<1>3. count' = count + n
  BY <1>1, <1>2 DEF count, Advance, TypeOK, Slots, n
<1>4. Contents' = [i \in 1 .. count + n |-> mem'[Advance(rdIdx, i - 1)]]
  BY <1>3 DEF Contents, Advance
<1>5. Contents \o items =
        [i \in 1 .. count + n |-> IF i =< count THEN Contents[i] ELSE items[i - count]]
  <2>1. Contents \o items =
          [i \in 1 .. Len(Contents) + Len(items) |->
             IF i =< Len(Contents) THEN Contents[i] ELSE items[i - Len(Contents)]]
    <3> DEFINE cat == Contents \o items
    <3>1. /\ cat \in Seq(Items)
          /\ Len(cat) = Len(Contents) + Len(items)
          /\ \A i \in 1 .. Len(Contents) + Len(items) :
               cat[i] = IF i =< Len(Contents) THEN Contents[i]
                                              ELSE items[i - Len(Contents)]
      BY <1>1, <1>2, ConcatProperties
    <3> HIDE DEF cat
    <3>2. cat = [i \in 1 .. Len(cat) |-> cat[i]]
      BY <3>1
    <3> QED
      BY <3>1, <3>2 DEF cat
  <2> QED
    BY <1>1, <2>1 DEF n
<1>6. ASSUME NEW i \in 1 .. count + n
      PROVE  mem'[Advance(rdIdx, i - 1)] =
               IF i =< count THEN Contents[i] ELSE items[i - count]
  <2> DEFINE s == Advance(rdIdx, i - 1)
             w == Depth - wrIdx + 1
  <2>1. s \in Slots
    BY <1>1, <1>2, AdvanceInSlots DEF TypeOK
  <2>2. mem'[s] = IF s >= wrIdx /\ s < wrIdx + n THEN items[s - wrIdx + 1]
                  ELSE IF wrIdx + n > Depth /\ s < n - w
                       THEN items[w + s + 1] ELSE mem[s]
    BY <2>1 DEF circWrite, n
  <2>3. CASE i =< count
    <3>1. Contents[i] = mem[s]
      BY <1>1, <2>3, ContentsIsSeq
    <3>2. ~(s >= wrIdx /\ s < wrIdx + n) /\ ~(wrIdx + n > Depth /\ s < n - w)
      BY <1>1, <1>2, <2>3 DEF count, Advance, TypeOK, Slots
    <3> QED
      BY <2>2, <2>3, <3>1, <3>2
  <2>4. CASE i > count
    <3>1. \/ s >= wrIdx /\ s < wrIdx + n /\ s - wrIdx + 1 = i - count
          \/ /\ ~(s >= wrIdx /\ s < wrIdx + n)
             /\ wrIdx + n > Depth /\ s < n - w /\ w + s + 1 = i - count
      BY <1>1, <1>2, <2>4 DEF count, Advance, TypeOK, Slots
    <3>2. i - count # 0 /\ ~(i =< count)
      BY <1>1, <2>4
    <3>3. mem'[s] = items[i - count]
      <4> HIDE DEF s, w
      <4> QED
        BY <2>2, <3>1
    <3> QED
      BY <3>2, <3>3
  <2> QED
    BY <1>1, <1>2, <2>3, <2>4
<1> QED
  BY <1>4, <1>5, <1>6

-----------------------------------------------------------------------------
(* The theorems. *)

\* Type correctness: however the calls follow each other, both indices stay
\* within the Depth + 1 slots of the memory, which only ever hold items.
THEOREM TypeCorrect == Spec => []TypeOK
<1>1. Init => TypeOK
  BY DEF Init, TypeOK, Slots, Result
<1>2. TypeOK /\ [Next]_vars => TypeOK'
  <2> SUFFICES ASSUME TypeOK, [Next]_vars PROVE TypeOK'
    OBVIOUS
  <2>1. ASSUME NEW items \in Batches, Write(items) PROVE TypeOK'
    <3>1. CASE avail >= Len(items) /\ mem' = circWrite(mem, items)
               /\ wrIdx' = Advance(wrIdx, Len(items))
               /\ res' = Result("write", 0, << >>) /\ UNCHANGED rdIdx
      <4>1. Len(items) \in 0 .. Depth
        BY <3>1, BatchIsSeq, CountBounds DEF avail, TypeOK
      <4>2. wrIdx' \in Slots
        BY <3>1, <4>1, AdvanceInSlots DEF TypeOK
      <4>3. mem' \in [Slots -> Items]
        BY <3>1, <4>1, BatchIsSeq DEF circWrite, TypeOK, Slots
      <4> QED
        BY <3>1, <4>2, <4>3 DEF TypeOK, Result
    <3>2. CASE res' = Result("write", -1, << >>) /\ UNCHANGED <<mem, wrIdx, rdIdx>>
      BY <3>2 DEF TypeOK, Result
    <3> QED
      BY <2>1, <3>1, <3>2 DEF Write
  <2>2. ASSUME NEW num \in Counts
        PROVE  Peeked(num) \in Seq(Items) /\ Len(Peeked(num)) \in 0 .. count
    <3>1. Contents \in Seq(Items) /\ Len(Contents) = count /\ count \in 0 .. Depth
      BY ContentsIsSeq
    <3>2. Least(num, count) \in 0 .. count
      BY <3>1 DEF Least, Counts
    <3>3. SubSeq(Contents, 1, Least(num, count)) \in Seq(Items)
      BY <3>1, <3>2
    <3> QED
      BY <3>1, <3>2, <3>3, PeekedIsPrefix
  <2>3. ASSUME NEW num \in Counts, Peek(num) PROVE TypeOK'
    BY <2>2, <2>3 DEF Peek, TypeOK, Result
  <2>4. ASSUME NEW num \in Counts, Ack(num) PROVE TypeOK'
    <3>1. num \in 0 .. Depth
      BY <2>4, CountBounds DEF Ack, TypeOK, Counts
    <3> QED
      BY <2>4, <3>1, AdvanceInSlots DEF Ack, TypeOK, Result
  <2>5. ASSUME NEW num \in Counts, Read(num) PROVE TypeOK'
    <3>1. Len(Peeked(num)) \in 0 .. Depth
      BY <2>2, CountBounds DEF TypeOK
    <3>2. rdIdx' \in Slots
      BY <2>5, <3>1, AdvanceInSlots DEF Read, TypeOK
    <3> QED
      BY <2>2, <2>5, <3>1, <3>2 DEF Read, TypeOK, Result
  <2>6. CASE Flush
    BY <2>6 DEF Flush, TypeOK, Slots, Result
  <2>7. CASE Query
    <3>1. count \in 0 .. Depth
      BY CountBounds DEF TypeOK
    <3>2. \E op \in {"getCount", "getAvail", "isEmpty", "isFull"}, n \in Int :
            res' = Result(op, n, << >>)
      BY <2>7, <3>1 DEF Query, avail
    <3> QED
      BY <2>7, <3>2 DEF Query, TypeOK, Result
  <2>8. CASE UNCHANGED vars
    BY <2>8 DEF vars, TypeOK
  <2> QED
    BY <2>1, <2>3, <2>4, <2>5, <2>6, <2>7, <2>8 DEF Next
<1> QED
  BY <1>1, <1>2, PTL DEF Spec

\* Refinement: every behaviour of the circular array is one of the bounded
\* queue.  Each call has the same outcome on both, stores and removes the same
\* items, and returns the same count and the same items in the same order.
THEOREM Refinement == Spec => ImplementsQueue
<1>1. TypeOK /\ Init => Abstract!Init
  <2> SUFFICES ASSUME TypeOK, Init PROVE Abstract!Init
    OBVIOUS
  <2>1. Contents = << >>
    BY ContentsIsSeq DEF Init, count
  <2> QED
    BY <2>1 DEF Init, Abstract!Init, Result, Abstract!Result
<1>2. TypeOK /\ TypeOK' /\ [Next]_vars => [Abstract!Next]_(Abstract!vars)
  <2> SUFFICES ASSUME TypeOK, TypeOK', [Next]_vars
               PROVE  Abstract!Next \/ UNCHANGED Abstract!vars
    OBVIOUS
  <2> USE DEF Result, Abstract!Result, Least, Abstract!Least
  <2>1. /\ Contents \in Seq(Items)
        /\ Len(Contents) = count
        /\ count \in 0 .. Depth
        /\ isEmpty <=> Contents = << >>
    BY ContentsIsSeq, CountBounds DEF TypeOK
  <2>2. UNCHANGED <<mem, wrIdx, rdIdx>> => Contents' = Contents
    BY DEF Contents, count
  <2>3. ASSUME NEW items \in Batches, Write(items) PROVE Abstract!Write(items)
    <3>1. Len(items) \in Nat
      BY BatchIsSeq
    <3>2. CASE avail < Len(items)
      BY <2>1, <2>2, <2>3, <3>1, <3>2 DEF Write, avail, Abstract!Write
    <3>3. CASE avail >= Len(items)
      <4>1. Contents' = Contents \o items
        BY <2>1, <2>3, <3>1, <3>3, WriteAppends DEF Write, avail
      <4> QED
        BY <2>1, <2>3, <3>1, <3>3, <4>1 DEF Write, avail, Abstract!Write
    <3> QED
      BY <2>1, <3>1, <3>2, <3>3 DEF avail
  <2>4. ASSUME NEW num \in Counts, Peek(num) PROVE Abstract!Peek(num)
    BY <2>1, <2>2, <2>4, PeekedIsPrefix DEF Peek, Abstract!Peek
  <2>5. ASSUME NEW num \in Counts, Ack(num) PROVE Abstract!Ack(num)
    <3>1. num \in 0 .. count
      BY <2>1, <2>5 DEF Ack, Counts
    <3> QED
      BY <2>1, <2>5, <3>1, AckDropsPrefix DEF Ack, Abstract!Ack
  <2>6. ASSUME NEW num \in Counts, Read(num) PROVE Abstract!Read(num)
    <3> DEFINE n == Least(num, Len(Contents))
    <3>1. /\ Peeked(num) = SubSeq(Contents, 1, n)
          /\ Len(Peeked(num)) = n
          /\ n \in 0 .. count
      BY <2>1, PeekedIsPrefix DEF Counts
    <3>2. Contents' = SubSeq(Contents, n + 1, Len(Contents))
      <4>1. rdIdx' = Advance(rdIdx, n)
        BY <2>6, <3>1 DEF Read, Advance, TypeOK, Slots
      <4> QED
        BY <2>6, <3>1, <4>1, AckDropsPrefix DEF Read
    <3> QED
      BY <2>6, <3>1, <3>2 DEF Read, Abstract!Read
  <2>7. CASE Flush
    <3>1. count' = 0
      BY <2>7 DEF Flush, count
    <3>2. Contents' = << >>
      BY <3>1 DEF Contents
    <3> QED
      BY <2>7, <3>2 DEF Flush, Abstract!Next, Abstract!Flush
  <2>8. CASE Query
    BY <2>1, <2>2, <2>8 DEF Query, avail, isFull, Abstract!Next, Abstract!Query
  <2>9. CASE UNCHANGED vars
    BY <2>2, <2>9 DEF vars, Abstract!vars
  <2>10. Batches = Abstract!Batches /\ Counts = Abstract!Counts
    BY DEF Batches, Counts, Abstract!Batches, Abstract!Counts
  <2> QED
    BY <2>3, <2>4, <2>5, <2>6, <2>7, <2>8, <2>9, <2>10 DEF Next, Abstract!Next
<1> QED
  BY <1>1, <1>2, TypeCorrect, PTL DEF Spec, ImplementsQueue, Abstract!Spec
=============================================================================
