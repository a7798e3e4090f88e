---------------------------- MODULE TraceRamProofs ----------------------------
(***************************************************************************)
(* First CircBuffer: for every depth, every set of reading threads and     *)
(* every stream of writes by one thread, the contents are never torn, the  *)
(* write index never overruns the read index, and reads return the stream  *)
(* in order.  The argument is CircInv, of module CircBuffer.  Its heart is *)
(* StaleSpaceInv: between the unlocked computation and the mutex, readers  *)
(* and flushes can only make the real space larger than the computed one.  *)
(* A write therefore purges enough, sometimes too much, and never too      *)
(* little.                                                                 *)
(*                                                                         *)
(* Then TraceRam, which uses CircBuffer as its module allows, so that all  *)
(* this holds there, and whose handlers tell the truth about the buffer.   *)
(* The invariant is TraceInv together with CircInv.                        *)
(***************************************************************************)
EXTENDS TraceRam, TLAPS

USE CircThreadsAssumption, CircSizesAssumption

-----------------------------------------------------------------------------
(* The index arithmetic. *)

LEMMA CountInRange ==
  ASSUME wr_idx \in Slots, rd_idx \in Slots
  PROVE  count \in 0 .. Depth
BY DEF Slots, count

LEMMA AdvanceInSlots ==
  ASSUME NEW idx \in Slots, NEW n \in 0 .. Depth
  PROVE  Advance(idx, n) \in Slots
BY DEF Slots, Advance

\* Nobody between two steps: the indices say how many bytes were written and
\* not removed.
LEMMA CountIsGap ==
  ASSUME CircInv, owner = NoThread
  PROVE  count = gap /\ gap \in 0 .. Depth
BY DEF CircInv, TypeOK, GapInv, count, Slots

\* A removal of n of the gap oldest bytes keeps the rest of them in place.
LEMMA RemovalKeepsContents ==
  ASSUME TypeOK, removed \in Nat, ContentsInv, NEW n \in 0 .. Depth,
         gap =< Depth,
         UNCHANGED <<buf, written>>,
         rd_idx' = Advance(rd_idx, n), removed' = removed + n
  PROVE  ContentsInv'
<1> SUFFICES ASSUME NEW i \in 1 .. gap' PROVE buf[Advance(rd_idx', i - 1)] = removed' + i
  BY DEF ContentsInv
<1>1. gap' = gap - n /\ gap \in Int
  BY DEF gap, TypeOK
<1>2. n + i \in 1 .. gap
  BY <1>1
<1>3. Advance(rd_idx', i - 1) = Advance(rd_idx, n + i - 1)
  BY <1>1, <1>2 DEF Advance, TypeOK, Slots
<1>4. buf[Advance(rd_idx, (n + i) - 1)] = removed + (n + i)
  BY <1>2 DEF ContentsInv
<1> QED
  BY <1>1, <1>3, <1>4

-----------------------------------------------------------------------------
(* The writer's steps. *)

LEMMA WriteAvailStep ==
  ASSUME CircInv, NEW n \in Sizes, WriteAvail(n)
  PROVE  CircInv'
<1> USE DEF CircInv, WriteAvail
<1>1. TypeOK'
  <2>1. avail' \in 0 .. Depth /\ avail \in 0 .. Depth
    BY CountInRange DEF TypeOK, avail, count
  <2> QED
    BY <2>1 DEF TypeOK, Threads
<1>2. MutexInv'
  BY DEF MutexInv, TypeOK, Threads
<1>3. GapInv'
  <2>1. owner # Writer
    BY DEF MutexInv
  <2> QED
    BY <2>1 DEF GapInv, gap
<1>4. StaleSpaceInv'
  <2> SUFFICES ASSUME owner \notin Readers PROVE avail =< Depth - gap
    BY DEF StaleSpaceInv, gap
  <2>1. owner = NoThread
    BY DEF MutexInv, TypeOK, Threads
  <2> QED
    BY <2>1, CountIsGap DEF avail
<1>5. ContentsInv'
  BY DEF ContentsInv, gap, Advance
<1> QED
  BY <1>1, <1>2, <1>3, <1>4, <1>5

LEMMA WritePurgeStep ==
  ASSUME CircInv, WritePurge
  PROVE  CircInv'
<1> USE DEF CircInv, WritePurge
<1> DEFINE p == Purged(size, avail_space)
<1>1. p \in 0 .. size /\ size \in 0 .. Depth
  BY DEF TypeOK, Purged
<1>2. gap \in 0 .. Depth /\ gap' = gap - p
  BY <1>1 DEF GapInv, gap, TypeOK
<1>3. TypeOK'
  <2>1. rd_idx' \in Slots
    BY <1>1, AdvanceInSlots DEF TypeOK
  <2> QED
    BY <2>1 DEF TypeOK, Threads
<1>4. MutexInv'
  BY DEF MutexInv, TypeOK, Threads
<1>5. GapInv'
  <2>1. avail_space =< Depth - gap /\ avail_space \in 0 .. Depth
    BY DEF StaleSpaceInv, TypeOK
  <2>2. 0 =< gap' + size' /\ gap' + size' =< Depth
    BY <1>1, <1>2, <2>1 DEF Purged
  <2>3. gap \in { wr_idx - rd_idx, wr_idx - rd_idx + Depth + 1,
                  wr_idx - rd_idx - (Depth + 1) }
    BY DEF GapInv
  <2>4. gap' \in { wr_idx' - rd_idx', wr_idx' - rd_idx' + Depth + 1,
                   wr_idx' - rd_idx' - (Depth + 1) }
    <3>1. wr_idx' = wr_idx /\ rd_idx' = Advance(rd_idx, p)
      OBVIOUS
    <3>2. p \in 0 .. Depth
      BY <1>1
    <3>3. wr_idx \in Slots /\ rd_idx \in Slots
      BY DEF TypeOK
    <3> HIDE DEF CircInv, WritePurge, p
    <3> QED
      BY <1>2, <2>3, <3>1, <3>2, <3>3 DEF Advance, Slots
  <2> QED
    BY <2>2, <2>4 DEF GapInv
<1>6. StaleSpaceInv'
  BY DEF StaleSpaceInv, TypeOK, Threads
<1>7. ContentsInv'
  BY <1>1, <1>2, RemovalKeepsContents
<1>8. removed' \in Nat
  BY <1>1
<1> QED
  BY <1>3, <1>4, <1>5, <1>6, <1>7, <1>8

LEMMA WriteCopyStep ==
  ASSUME CircInv, WriteCopy
  PROVE  CircInv'
<1> USE DEF CircInv, WriteCopy
<1>1. owner = Writer /\ owner \notin Readers
  BY DEF MutexInv
<1>2. /\ size \in 0 .. Depth
      /\ gap \in Int
      /\ gap + size \in 0 .. Depth
      /\ gap' = gap + size
  BY <1>1 DEF GapInv, gap, TypeOK
<1>3. gap \in { wr_idx - rd_idx, wr_idx - rd_idx + Depth + 1,
                wr_idx - rd_idx - (Depth + 1) }
  BY <1>1 DEF GapInv
<1>4. TypeOK'
  <2>1. circ_write(size) \in [Slots -> Nat]
    BY <1>2 DEF circ_write, TypeOK, Slots
  <2>2. wr_idx' \in Slots
    BY <1>2, AdvanceInSlots DEF TypeOK
  <2> QED
    BY <1>2, <2>1, <2>2 DEF TypeOK, Threads
<1>5. MutexInv'
  BY DEF MutexInv, TypeOK, Threads
<1>6. GapInv'
  BY <1>2, <1>3 DEF GapInv, Advance, TypeOK, Slots
<1>7. StaleSpaceInv'
  BY DEF StaleSpaceInv, TypeOK, Threads
<1>8. ContentsInv'
  <2> SUFFICES ASSUME NEW i \in 1 .. gap + size
               PROVE  circ_write(size)[Advance(rd_idx, i - 1)] = removed + i
    BY <1>2 DEF ContentsInv
  <2> DEFINE s == Advance(rd_idx, i - 1)
             w == Depth - wr_idx + 1
  <2>1. s \in Slots
    BY <1>2, AdvanceInSlots DEF TypeOK
  <2>2. circ_write(size)[s] =
          IF s >= wr_idx /\ s < wr_idx + size THEN written + (s - wr_idx) + 1
          ELSE IF wr_idx + size > Depth /\ s < size - w THEN written + w + s + 1
          ELSE buf[s]
    BY <2>1 DEF circ_write
  <2>3. CASE i =< gap
    <3>1. buf[s] = removed + i
      BY <2>3, <1>2 DEF ContentsInv
    <3>2. ~(s >= wr_idx /\ s < wr_idx + size) /\ ~(wr_idx + size > Depth /\ s < size - w)
      BY <1>2, <1>3, <2>3 DEF Advance, TypeOK, Slots
    <3> QED
      BY <2>2, <3>1, <3>2
  <2>4. CASE i > gap
    <3>1. written = removed + gap
      BY DEF gap, TypeOK
    <3>2. \/ s >= wr_idx /\ s < wr_idx + size /\ (s - wr_idx) + 1 = i - gap
          \/ /\ ~(s >= wr_idx /\ s < wr_idx + size)
             /\ wr_idx + size > Depth /\ s < size - w /\ w + s + 1 = i - gap
      BY <1>2, <1>3, <2>4 DEF Advance, TypeOK, Slots
    <3>3. s \in Int /\ w \in Int
      BY <2>1 DEF TypeOK, Slots
    <3>4. circ_write(size)[s] = written + (i - gap)
      <4>1. written \in Int /\ wr_idx \in Int /\ i \in Int
        BY DEF TypeOK, Slots
      <4> HIDE DEF s, w, CircInv, WriteCopy
      <4> QED
        BY <1>2, <2>2, <3>2, <3>3, <4>1
    <3> QED
      BY <1>2, <3>1, <3>4
  <2> QED
    BY <1>2, <2>3, <2>4
<1> QED
  BY <1>4, <1>5, <1>6, <1>7, <1>8

-----------------------------------------------------------------------------
(* The readers' steps. *)

\* What a read takes: as many of the oldest bytes as it asks for and there are.
LEMMA ReadTakes ==
  ASSUME CircInv, NEW t \in Readers, NEW n \in ReadSizes, Read(t, n)
  PROVE  LET k == Least(n, count)
         IN  /\ k \in 0 .. gap
             /\ gap \in 0 .. Depth
             /\ rd_idx' = Advance(rd_idx, k)
             /\ removed' = removed + k
             /\ got' = [i \in 1 .. k |-> removed + i]
<1> DEFINE k == Least(n, count)
<1>1. count = gap /\ gap \in 0 .. Depth
  BY CountIsGap DEF Read
<1>2. k \in 0 .. gap
  BY <1>1 DEF Least
<1>3. rd_idx' = Advance(rd_idx, k)
  BY <1>1, <1>2 DEF Read, Advance, CircInv, TypeOK, Slots
<1>4. got' = [i \in 1 .. k |-> removed + i]
  <2>1. CASE count = 0
    BY <1>1, <1>2, <2>1 DEF Read
  <2>2. CASE count # 0
    <3>1. got' = circ_read(k)
      BY <2>2 DEF Read
    <3>2. ASSUME NEW i \in 1 .. k
          PROVE  (IF rd_idx + k > Depth /\ i > Depth - rd_idx + 1
                  THEN buf[i - (Depth - rd_idx + 1) - 1]
                  ELSE buf[rd_idx + i - 1]) = removed + i
      <4>1. buf[Advance(rd_idx, i - 1)] = removed + i
        BY <1>1, <1>2 DEF CircInv, ContentsInv
      <4> QED
        BY <1>1, <1>2, <4>1 DEF Advance, CircInv, TypeOK, Slots
    <3> HIDE DEF k
    <3> QED
      BY <3>1, <3>2 DEF circ_read
  <2> QED
    BY <2>1, <2>2
<1> QED
  BY <1>1, <1>2, <1>3, <1>4 DEF Read

LEMMA ReadStep ==
  ASSUME CircInv, NEW t \in Readers, NEW n \in ReadSizes, Read(t, n)
  PROVE  CircInv'
<1> USE DEF CircInv
<1> DEFINE k == Least(n, count)
<1>1. /\ k \in 0 .. gap
      /\ gap \in 0 .. Depth
      /\ rd_idx' = Advance(rd_idx, k)
      /\ removed' = removed + k
      /\ got' = [i \in 1 .. k |-> removed + i]
      /\ owner = NoThread
      /\ UNCHANGED <<buf, wr_idx, owner, pc, size, avail_space, written>>
  BY ReadTakes DEF Read
<1> HIDE DEF k
<1>2. gap' = gap - k
  BY <1>1 DEF gap, TypeOK
<1>3. TypeOK'
  <2>1. rd_idx' \in Slots
    BY <1>1, AdvanceInSlots DEF TypeOK
  <2>2. got' \in Seq(Nat)
    BY <1>1
  <2> QED
    BY <1>1, <2>1, <2>2 DEF TypeOK
<1>4. MutexInv'
  BY <1>1 DEF MutexInv
<1>5. GapInv'
  <2>1. gap' \in 0 .. Depth
    BY <1>1, <1>2
  <2>2. gap' \in { wr_idx' - rd_idx', wr_idx' - rd_idx' + Depth + 1,
                   wr_idx' - rd_idx' - (Depth + 1) }
    BY <1>1, <1>2 DEF GapInv, Advance, TypeOK, Slots
  <2> QED
    BY <1>1, <2>1, <2>2 DEF GapInv
<1>6. StaleSpaceInv'
  BY <1>1, <1>2 DEF StaleSpaceInv, TypeOK
<1>7. ContentsInv'
  BY <1>1, RemovalKeepsContents
<1>8. removed' \in Nat
  BY <1>1
<1> QED
  BY <1>3, <1>4, <1>5, <1>6, <1>7, <1>8

LEMMA FlushWrStep ==
  ASSUME CircInv, NEW t \in Readers, FlushWr(t)
  PROVE  CircInv'
<1> USE DEF CircInv, FlushWr
<1>1. TypeOK'
  BY DEF TypeOK, Threads, Slots
<1>2. MutexInv'
  BY DEF MutexInv, TypeOK, Threads
<1>3. GapInv'
  BY DEF GapInv, gap
<1>4. StaleSpaceInv'
  BY DEF StaleSpaceInv
<1>5. ContentsInv'
  BY DEF ContentsInv, gap, Advance
<1> QED
  BY <1>1, <1>2, <1>3, <1>4, <1>5

LEMMA FlushRdStep ==
  ASSUME CircInv, NEW t \in Readers, FlushRd(t)
  PROVE  CircInv'
<1> USE DEF CircInv, FlushRd
<1>1. gap' = 0 /\ owner = t
  BY DEF gap, TypeOK, MutexInv
<1>2. TypeOK'
  BY DEF TypeOK, Threads, Slots
<1>3. MutexInv'
  BY DEF MutexInv, TypeOK, Threads
<1>4. GapInv'
  BY <1>1 DEF GapInv, TypeOK
<1>5. StaleSpaceInv'
  BY <1>1 DEF StaleSpaceInv, TypeOK
<1>6. ContentsInv'
  BY <1>1 DEF ContentsInv
<1>7. removed' \in Nat
  BY DEF TypeOK
<1> QED
  BY <1>2, <1>3, <1>4, <1>5, <1>6, <1>7

-----------------------------------------------------------------------------
(* The theorems. *)

LEMMA CircInit == Init => CircInv
BY DEF Init, CircInv, TypeOK, MutexInv, GapInv, StaleSpaceInv, ContentsInv,
       gap, Slots, Threads

LEMMA CircStep ==
  ASSUME CircInv, [Next]_vars
  PROVE  CircInv'
<1>1. CASE UNCHANGED vars
  BY <1>1 DEF vars, CircInv, TypeOK, MutexInv, GapInv, StaleSpaceInv,
              ContentsInv, gap, Advance
<1> QED
  BY <1>1, WriteAvailStep, WritePurgeStep, WriteCopyStep, ReadStep,
     FlushWrStep, FlushRdStep DEF Next

\* The inductive invariant holds in every reachable state.
THEOREM Inductive == Spec => []CircInv
BY CircInit, CircStep, PTL DEF Spec

\* Type correctness: the indices stay inside the memory at every step.
THEOREM CircTypeCorrect == Spec => []TypeOK
<1>1. CircInv => TypeOK
  BY DEF CircInv
<1> QED
  BY <1>1, Inductive, PTL

\* The write index never overruns the read index, although the available space
\* is computed without the mutex.
THEOREM NeverOverruns == Spec => []NoOverrun
<1>1. CircInv => NoOverrun
  BY CountIsGap DEF NoOverrun, gap
<1> QED
  BY <1>1, Inductive, PTL

\* Whoever takes the mutex finds the newest bytes of the stream, whole.
THEOREM AlwaysHoldsNewest == Spec => []HoldsNewest
<1>1. CircInv => HoldsNewest
  <2> SUFFICES ASSUME CircInv, owner = NoThread, NEW i \in 1 .. count
               PROVE  buf[Advance(rd_idx, i - 1)] = written - count + i
    BY DEF HoldsNewest
  <2>1. count = gap /\ gap \in 0 .. Depth
    BY CountIsGap
  <2>2. buf[Advance(rd_idx, i - 1)] = removed + i
    BY <2>1 DEF CircInv, ContentsInv
  <2>3. written - count = removed
    BY <2>1 DEF CircInv, TypeOK, gap
  <2> QED
    BY <2>2, <2>3
<1> QED
  BY <1>1, Inductive, PTL

\* Reads return the stream in order, each byte once at most.
THEOREM AlwaysReadsInOrder == Spec => ReadsInOrder
<1> DEFINE Good == /\ removed' >= removed
                   /\ got' # got => \A i \in 1 .. Len(got') : got'[i] = removed + i
<1>1. CircInv /\ [Next]_vars => [Good]_vars
  <2> SUFFICES ASSUME CircInv, Next PROVE Good
    BY DEF vars
  <2>1. removed \in Nat /\ written \in Nat /\ removed =< removed
    BY DEF CircInv, TypeOK
  <2>2. ASSUME NEW n \in Sizes, WriteAvail(n) PROVE Good
    BY <2>1, <2>2 DEF WriteAvail
  <2>3. CASE WritePurge
    <3>1. Purged(size, avail_space) >= 0 /\ Purged(size, avail_space) \in Int
      BY DEF Purged, CircInv, TypeOK
    <3> QED
      BY <2>1, <2>3, <3>1 DEF WritePurge
  <2>4. CASE WriteCopy
    BY <2>1, <2>4 DEF WriteCopy
  <2>5. ASSUME NEW t \in Readers, NEW n \in ReadSizes, Read(t, n) PROVE Good
    <3> DEFINE k == Least(n, count)
    <3>1. /\ k \in 0 .. gap
          /\ gap \in 0 .. Depth
          /\ removed' = removed + k
          /\ got' = [i \in 1 .. k |-> removed + i]
      BY <2>5, ReadTakes
    <3> HIDE DEF k
    <3>2. Len(got') = k
      BY <3>1
    <3> QED
      BY <2>1, <3>1, <3>2
  <2>6. ASSUME NEW t \in Readers, FlushWr(t) PROVE Good
    BY <2>1, <2>6 DEF FlushWr
  <2>7. ASSUME NEW t \in Readers, FlushRd(t) PROVE Good
    <3>1. owner = t
      BY <2>7 DEF FlushRd, CircInv, MutexInv
    <3>2. written >= removed
      BY <2>1, <3>1 DEF CircInv, GapInv, gap
    <3> QED
      BY <2>1, <2>7, <3>2 DEF FlushRd
  <2> QED
    BY <2>2, <2>3, <2>4, <2>5, <2>6, <2>7 DEF Next
<1> QED
  BY <1>1, Inductive, PTL DEF Spec, ReadsInOrder

-----------------------------------------------------------------------------
(* TraceRam. *)

Inv == CircInv /\ TraceInv

\* The empty sequence of a read is a read of nothing.
LEMMA EmptyRead ==
  ASSUME NEW n \in Nat, circ_read(n) = << >>
  PROVE  n = 0
<1>1. DOMAIN circ_read(n) = 1 .. n
  BY DEF circ_read
<1>2. 1 .. n = {}
  BY <1>1
<1> QED
  BY <1>2

\* Every step of TraceRam is one that CircBuffer allows, or none.
LEMMA StepIsCircStep ==
  ASSUME TraceInv, TraceNext
  PROVE  [Next]_vars
<1>1. CASE Tracing
  BY <1>1 DEF Tracing, Trace, ram_output, Next
<1>2. CASE Output
  BY <1>2 DEF Output, Next
<1>3. CASE Handler
  <2>1. CASE NextRead
    BY <2>1, TraceRamAssumption DEF NextRead, Next, TraceInv, TraceTypeOK
  <2> QED
    BY <1>3, <2>1 DEF Handler, gettraceramstatus, enabletraceram, disabletraceram,
                      Disable, SetTracing, getnexttraceram, NextCount
<1>4. ASSUME NEW t \in Others, Other(t) PROVE Next
  BY <1>4 DEF Other, Others, Next
<1> QED
  BY <1>1, <1>2, <1>3, <1>4 DEF TraceNext

-----------------------------------------------------------------------------
(* The tracing thread. *)

LEMMA TracingStep ==
  ASSUME Inv, Tracing
  PROVE  TraceInv'
<1> USE DEF Inv, TraceInv, rpcVars
<1>1. ASSUME NEW n \in Sizes, Trace(n) PROVE TraceInv'
  <2>1. TraceTypeOK'
    BY <1>1, CircSizesAssumption DEF Trace, TraceTypeOK
  <2>2. QuietInv'
    BY <1>1 DEF Trace, QuietInv, Quiet, gap, vars
  <2>3. CountedInv'
    BY <1>1 DEF Trace, CountedInv, gap, vars
  <2> QED
    BY <2>1, <2>2, <2>3
<1>2. ASSUME NEW n \in Sizes, ram_output(n) PROVE TraceInv'
  <2>1. n \in Nat /\ n > 0
    BY CircSizesAssumption
  <2>2. TraceTypeOK'
    BY <1>2, <2>1 DEF ram_output, TraceTypeOK
  <2>3. ~quiet
    BY <1>2, <2>1 DEF ram_output, QuietInv, Quiet
  <2>4. QuietInv'
    BY <1>2, <2>3 DEF ram_output, QuietInv
  <2>5. owner # Writer
    BY <1>2 DEF ram_output, WriteAvail, CircInv, MutexInv
  <2>6. CountedInv'
    BY <1>2, <2>5 DEF ram_output, WriteAvail, CountedInv, gap
  <2> QED
    BY <2>2, <2>4, <2>6
<1> QED
  BY <1>1, <1>2 DEF Tracing

LEMMA OutputStep ==
  ASSUME Inv, Output
  PROVE  TraceInv'
<1> USE DEF Inv, TraceInv, traceVars, rpcVars
<1>1. TraceTypeOK'
  BY DEF Output, TraceTypeOK
<1>2. ~quiet
  BY DEF Output, WritePurge, WriteCopy, QuietInv, Quiet
<1>3. QuietInv'
  BY <1>2 DEF Output, QuietInv
<1>4. size \in Nat /\ avail_space \in Nat /\ written \in Nat /\ removed \in Nat
  BY DEF CircInv, TypeOK
<1>5. Writer # NoThread
  BY CircThreadsAssumption
<1>6. CASE WritePurge
  <2>1. owner # Writer /\ owner' = Writer /\ size' = size
    BY <1>5, <1>6 DEF WritePurge
  <2>2. gap' = gap - Purged(size, avail_space)
    BY <1>4, <1>6 DEF WritePurge, gap, Purged
  <2>3. gap > 0 => gap' + size' > 0
    BY <1>4, <2>1, <2>2 DEF Purged, gap
  <2>4. CountedInv'
    BY <2>1, <2>3 DEF Output, CountedInv
  <2> QED
    BY <1>1, <1>3, <2>4
<1>7. CASE WriteCopy
  <2>1. owner = Writer /\ owner' # Writer
    BY <1>5, <1>7 DEF WriteCopy, CircInv, MutexInv
  <2>2. gap' = gap + size
    BY <1>4, <1>7 DEF WriteCopy, gap
  <2>3. CountedInv'
    BY <2>1, <2>2 DEF Output, CountedInv
  <2> QED
    BY <1>1, <1>3, <2>3
<1> QED
  BY <1>6, <1>7 DEF Output

-----------------------------------------------------------------------------
(* Other readers. *)

LEMMA OtherStep ==
  ASSUME Inv, NEW t \in Others, Other(t)
  PROVE  TraceInv'
<1> USE DEF Inv, TraceInv, rpcVars
<1>1. t \in Readers /\ t # Writer /\ t # NoThread /\ Writer # NoThread
  BY CircThreadsAssumption DEF Others
<1>2. written \in Nat /\ removed \in Nat /\ written' = written
  BY DEF CircInv, TypeOK, Other, Read, FlushWr, FlushRd
<1>3. owner # Writer /\ owner' # Writer
  BY <1>1 DEF Other, Read, FlushWr, FlushRd, CircInv, MutexInv
<1>4. pc'[Writer] = pc[Writer]
  BY <1>1 DEF Other, Read, FlushWr, FlushRd, CircInv, TypeOK, Threads
<1>5. TraceTypeOK'
  BY DEF Other, TraceTypeOK
<1>6. gap = 0 => gap' = 0
  <2>1. ASSUME NEW n \in ReadSizes, Read(t, n), gap = 0 PROVE gap' = 0
    <3>1. count = 0
      BY <2>1, CountIsGap DEF Read
    <3>2. Least(n, count) = 0
      BY <3>1, CircSizesAssumption DEF Least
    <3> QED
      BY <1>2, <2>1, <3>2 DEF Read, gap
  <2>2. CASE FlushWr(t)
    BY <2>2 DEF FlushWr, gap
  <2>3. CASE FlushRd(t)
    BY <1>2, <2>3 DEF FlushRd, gap
  <2> QED
    BY <2>1, <2>2, <2>3 DEF Other
<1>7. QuietInv'
  BY <1>4, <1>6 DEF Other, QuietInv, Quiet
<1>8. CountedInv'
  BY <1>2, <1>3 DEF Other, CountedInv, gap
<1> QED
  BY <1>5, <1>7, <1>8

-----------------------------------------------------------------------------
(* The handlers. *)

\* A handler that is done: the next call is awaited, and the reply is its own.
LEMMA Answered ==
  ASSUME NEW error \in BOOLEAN, NEW empty \in BOOLEAN, Answer(error, empty)
  PROVE  /\ call' = Idle
         /\ call' \in [at : {"idle", "read", "count", "disable"},
                       max_size : ReadSizes \cup {0}, num_read : Nat]
         /\ call'.at = "idle"
         /\ reply' \in [error : BOOLEAN, empty : BOOLEAN]
         /\ reply'.error = error /\ reply'.empty = empty
BY DEF Answer, Idle

\* The handlers that begin and end with the buffer as it is.
LEMMA Status ==
  ASSUME Inv, gettraceramstatus \/ NextCount
  PROVE  TraceInv'
<1>1. PICK empty \in BOOLEAN : Answer(FALSE, empty) /\ empty = (count = 0)
  BY DEF gettraceramstatus, NextCount
<1>2. /\ owner = NoThread /\ UNCHANGED vars /\ UNCHANGED <<enabled, queued, taken>>
      /\ quiet' = quiet \/ quiet' = Quiet
  BY DEF gettraceramstatus, NextCount
<1>3. UNCHANGED gap /\ UNCHANGED Quiet
  BY <1>2 DEF vars, gap, Quiet
<1>4. Quiet \in BOOLEAN
  BY DEF Quiet
<1>5. TraceTypeOK'
  BY <1>1, <1>2, <1>4, Answered DEF TraceTypeOK, Inv, TraceInv
<1>6. count = gap
  BY <1>2, CountIsGap DEF Inv
<1>7. QuietInv'
  <2>1. quiet' => Quiet'
    BY <1>2, <1>3, Zenon DEF QuietInv, Inv, TraceInv
  <2>2. reply'.empty => gap' = 0
    BY <1>1, <1>3, <1>6, Answered
  <2> QED
    BY <2>1, <2>2 DEF QuietInv
<1>8. CountedInv'
  BY <1>1, Answered DEF CountedInv
<1> QED
  BY <1>5, <1>7, <1>8 DEF TraceInv

LEMMA Switch ==
  ASSUME Inv, enabletraceram \/ disabletraceram \/ Disable
  PROVE  TraceInv'
<1>1. CASE disabletraceram
  <2>1. /\ call' \in [at : {"idle", "read", "count", "disable"},
                      max_size : ReadSizes \cup {0}, num_read : Nat]
        /\ call'.at = "disable" /\ call' # Idle
    BY <1>1 DEF disabletraceram, Idle
  <2>2. TraceTypeOK'
    BY <1>1, <2>1 DEF disabletraceram, TraceTypeOK, Inv, TraceInv
  <2>3. QuietInv'
    BY <1>1, <2>1 DEF disabletraceram, QuietInv, Quiet, Inv, TraceInv, vars
  <2>4. CountedInv'
    BY <2>1 DEF CountedInv
  <2> QED
    BY <2>2, <2>3, <2>4 DEF TraceInv
<1>2. ASSUME NEW on \in BOOLEAN, SetTracing(on) PROVE TraceInv'
  <2>1. Answer(FALSE, FALSE) /\ ~quiet' /\ quiet' \in BOOLEAN
    BY <1>2 DEF SetTracing
  <2>2. TraceTypeOK'
    BY <1>2, <2>1, Answered DEF SetTracing, TraceTypeOK, Inv, TraceInv
  <2>3. QuietInv'
    BY <2>1 DEF QuietInv
  <2>4. CountedInv'
    BY <2>1, Answered DEF CountedInv
  <2> QED
    BY <2>2, <2>3, <2>4 DEF TraceInv
<1> QED
  BY <1>1, <1>2 DEF enabletraceram, Disable

LEMMA Counts ==
  ASSUME Inv, NEW n \in ReadSizes, getnexttraceram(n)
  PROVE  TraceInv'
<1>1. /\ owner = NoThread /\ NoThread # Writer /\ UNCHANGED vars
      /\ UNCHANGED <<enabled, queued>> /\ quiet' = Quiet /\ taken' = FALSE
  BY CircThreadsAssumption DEF getnexttraceram
<1>2. UNCHANGED gap /\ UNCHANGED Quiet /\ UNCHANGED owner
  BY <1>1 DEF vars, gap, Quiet
<1>3. Quiet \in BOOLEAN
  BY DEF Quiet
<1>4. count = gap /\ gap \in Nat
  BY <1>1, CountIsGap, CircSizesAssumption DEF Inv
<1>5. CASE count = 0
  <2>1. Answer(FALSE, TRUE)
    BY <1>5 DEF getnexttraceram
  <2>2. TraceTypeOK'
    BY <1>1, <1>3, <2>1, Answered DEF TraceTypeOK, Inv, TraceInv
  <2>3. QuietInv'
    BY <1>1, <1>2, <1>4, <1>5 DEF QuietInv
  <2>4. CountedInv'
    BY <2>1, Answered DEF CountedInv
  <2> QED
    BY <2>2, <2>3, <2>4 DEF TraceInv
<1>6. CASE count # 0
  <2>1. /\ call' = [Idle EXCEPT !.at = "read", !.max_size = n]
        /\ UNCHANGED reply
    BY <1>6 DEF getnexttraceram
  <2>2. /\ call' \in [at : {"idle", "read", "count", "disable"},
                      max_size : ReadSizes \cup {0}, num_read : Nat]
        /\ call'.at = "read" /\ call'.max_size = n /\ call' # Idle
    BY <2>1 DEF Idle
  <2>3. TraceTypeOK'
    BY <1>1, <1>3, <2>1, <2>2 DEF TraceTypeOK, Inv, TraceInv
  <2>4. QuietInv'
    BY <1>1, <1>2, <2>2 DEF QuietInv
  <2>5. CountedInv'
    BY <1>1, <1>2, <1>4, <1>6 DEF CountedInv
  <2> QED
    BY <2>3, <2>4, <2>5 DEF TraceInv
<1> QED
  BY <1>5, <1>6

LEMMA Reads ==
  ASSUME Inv, NextRead
  PROVE  TraceInv'
<1>1. call.at = "read" /\ Read(Server, call.max_size) /\ call.max_size \in ReadSizes
  BY DEF NextRead, Inv, TraceInv, TraceTypeOK
<1>2. CircInv' /\ TraceTypeOK
  BY <1>1, ReadStep, TraceRamAssumption DEF Inv, TraceInv
<1>3. Len(got') \in Nat
  BY <1>2 DEF CircInv, TypeOK
<1>4. /\ call'.at # "read"
      /\ TraceTypeOK'
  <2>1. CASE got' = << >>
    BY <1>2, <2>1, Answered DEF NextRead, TraceTypeOK
  <2>2. CASE got' # << >>
    BY <1>2, <1>3, <2>2 DEF NextRead, TraceTypeOK
  <2> QED
    BY <2>1, <2>2
<1>5. reply'.empty => call' # Idle
  <2>1. CASE got' = << >>
    BY <2>1, Answered DEF NextRead
  <2>2. CASE got' # << >>
    <3>1. call' = [call EXCEPT !.at = "count", !.num_read = Len(got')]
      BY <2>2 DEF NextRead
    <3>2. call'.at = "count"
      BY <1>2, <3>1 DEF TraceTypeOK
    <3> QED
      BY <3>2 DEF Idle
  <2> QED
    BY <2>1, <2>2
<1>6. QuietInv'
  BY <1>1, <1>5 DEF NextRead, Read, QuietInv, Quiet, Inv, TraceInv
<1>7. CountedInv'
  BY <1>4 DEF CountedInv
<1> QED
  BY <1>4, <1>6, <1>7 DEF TraceInv

-----------------------------------------------------------------------------
(* The theorems. *)

LEMMA TraceInductive == TraceSpec => []Inv
<1>1. TraceInit => Inv
  <2>1. TraceInit => CircInv
    BY CircInit DEF TraceInit
  <2>2. TraceInit => TraceInv
    <3> SUFFICES ASSUME TraceInit PROVE TraceInv
      OBVIOUS
    <3>1. call \in [at : {"idle", "read", "count", "disable"},
                   max_size : ReadSizes \cup {0}, num_read : Nat]
      BY DEF TraceInit, Idle
    <3>2. reply \in [error : BOOLEAN, empty : BOOLEAN]
      BY DEF TraceInit
    <3>3. ~quiet /\ quiet \in BOOLEAN /\ taken \in BOOLEAN
      BY Zenon DEF TraceInit
    <3>4. call.at = "idle"
      BY DEF TraceInit, Idle
    <3> QED
      BY <3>1, <3>2, <3>3, <3>4 DEF TraceInit, TraceInv, TraceTypeOK, QuietInv, CountedInv
  <2> QED
    BY <2>1, <2>2 DEF Inv
<1>2. Inv /\ [TraceNext]_allVars => Inv'
  <2>1. ASSUME Inv, TraceNext PROVE TraceInv'
    BY <2>1, TracingStep, OutputStep, OtherStep, Status, Switch, Counts, Reads
       DEF TraceNext, Handler
  <2>2. ASSUME Inv, [Next]_vars PROVE CircInv'
    BY <2>2, CircStep DEF Inv
  <2>3. ASSUME Inv, UNCHANGED allVars PROVE TraceInv'
    BY <2>3 DEF allVars, traceVars, rpcVars, vars, Inv, TraceInv, TraceTypeOK, QuietInv,
                Quiet, CountedInv, gap
  <2>4. ASSUME Inv, [TraceNext]_allVars PROVE [Next]_vars
    BY <2>4, StepIsCircStep DEF Inv, allVars
  <2> QED
    BY <2>1, <2>2, <2>3, <2>4 DEF Inv
<1> QED
  BY <1>1, <1>2, PTL DEF TraceSpec

\* TraceRam uses CircBuffer as CircBuffer's own specification allows: what is
\* proved of CircBuffer holds here.
THEOREM UsesCircBuffer == TraceSpec => Spec
<1>1. TraceInit => Init
  BY DEF TraceInit
<1>2. Inv /\ [TraceNext]_allVars => [Next]_vars
  BY StepIsCircStep DEF Inv, allVars
<1> QED
  BY <1>1, <1>2, TraceInductive, PTL DEF TraceSpec, Spec

\* Once tracing has stopped, a host that is told that the buffer is empty has
\* read it all.
THEOREM EmptyIsTrue == TraceSpec => []EmptyIsFinal
<1>1. Inv => EmptyIsFinal
  BY CountIsGap DEF Inv, TraceInv, QuietInv, EmptyIsFinal
<1> QED
  BY <1>1, TraceInductive, PTL

\* The tracing thread never makes getnexttraceram fail.
THEOREM ErrorsAreTaken == TraceSpec => ErrorMeansTaken
<1> DEFINE Good == call.at = "read" /\ reply'.error /\ call'.at = "idle"
                     => taken \/ call.max_size = 0
<1>1. ASSUME Inv, TraceNext PROVE Good
  <2> SUFFICES ASSUME call.at = "read", call'.at = "idle", ~taken
               PROVE  call.max_size = 0
    OBVIOUS
  <2>1. call # Idle /\ call' # call
    BY DEF Idle
  <2>2. NextRead
    BY <1>1, <2>1 DEF TraceNext, Tracing, Trace, ram_output, Output, Other, Handler,
       gettraceramstatus, enabletraceram, disabletraceram, Disable, getnexttraceram,
       NextCount, traceVars, rpcVars
  <2>3. got' = << >>
    BY <1>1, <2>2 DEF NextRead, Inv, TraceInv, TraceTypeOK
  <2>4. /\ owner = NoThread /\ call.max_size \in Nat
        /\ (count # 0 => got' = circ_read(Least(call.max_size, count)))
    BY <1>1, <2>2, CircSizesAssumption DEF NextRead, Read, Inv, TraceInv, TraceTypeOK
  <2>5. count = gap /\ gap > 0 /\ gap \in Nat
    BY <1>1, <2>4, CountIsGap, CircThreadsAssumption, CircSizesAssumption
       DEF Inv, TraceInv, CountedInv
  <2>6. Least(call.max_size, count) \in Nat
    BY <2>4, <2>5 DEF Least
  <2>7. Least(call.max_size, count) = 0
    BY <2>3, <2>4, <2>5, <2>6, EmptyRead
  <2> QED
    BY <2>4, <2>5, <2>7 DEF Least
<1>2. Inv /\ [TraceNext]_allVars => [Good]_allVars
  BY <1>1
<1> QED
  BY <1>2, TraceInductive, PTL DEF TraceSpec, ErrorMeansTaken
=============================================================================
