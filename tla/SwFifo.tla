-------------------------------- MODULE SwFifo --------------------------------
(***************************************************************************)
(* modules/SwFifo: a software fifo over a circular array of Depth + 1      *)
(* slots, one slot more than it stores so that full and empty differ.      *)
(*                                                                         *)
(* One action per function of SwFifo.c.  The lock and unlock macros expand *)
(* to nothing in this build (USE_MUTEX is undefined), and every fifo of    *)
(* the repository belongs to one deframer and is used by one thread, so    *)
(* calls do not overlap here.  Items are atoms: every caller passes        *)
(* itemSize = sizeof(uint8_t), and the wrap of circWrite and circRead is   *)
(* the one of that size.                                                   *)
(***************************************************************************)
EXTENDS Integers, Sequences

CONSTANTS Items,     \* the bytes a caller may store
          Depth,     \* fifo->depth
          MaxBatch   \* longest array of items one call passes (bound)

ASSUME DepthAssumption == Depth \in Nat \ {0}
ASSUME MaxBatchAssumption == MaxBatch \in Nat

VARIABLES mem,     \* fifo->mem
          wrIdx,   \* fifo->wrIdx
          rdIdx,   \* fifo->rdIdx
          res      \* what the last call returned, and the items it copied out

vars == <<mem, wrIdx, rdIdx, res>>

Slots == 0 .. Depth
Batches == UNION { [1 .. n -> Items] : n \in 0 .. MaxBatch }
Counts == 0 .. MaxBatch

Result(op, ret, data) == [op |-> op, ret |-> ret, data |-> data]
Least(a, b) == IF a < b THEN a ELSE b

-----------------------------------------------------------------------------
(* The macros. *)

\* MUTANT: wraps one slot late, past the last slot.
AdvanceLate(idx, n) ==
  IF idx + n > Depth + 1 THEN idx + n - (Depth + 1) ELSE idx + n

\* inc_wrIdx and inc_rdIdx: at most one wrap.
Advance(idx, n) == IF idx + n > Depth THEN idx + n - (Depth + 1) ELSE idx + n

count == IF wrIdx >= rdIdx THEN wrIdx - rdIdx ELSE (Depth - rdIdx) + wrIdx + 1
avail == Depth - count
isEmpty == wrIdx = rdIdx
isFull == count = Depth

-----------------------------------------------------------------------------
(* The two copies between the caller's array and the circular memory. *)

\* numToWrap items fit before the end of the memory, the rest go to its start.
circWrite(m, items) ==
  LET numToWrap == Depth - wrIdx + 1
  IN  [s \in Slots |->
         IF s >= wrIdx /\ s < wrIdx + Len(items) THEN items[s - wrIdx + 1]
         ELSE IF wrIdx + Len(items) > Depth /\ s < Len(items) - numToWrap
              THEN items[numToWrap + s + 1]
              ELSE m[s]]

\* MUTANT: forgets that the memory has one slot more than the depth.
circReadShort(num) ==
  LET numToWrap == Depth - rdIdx
  IN  [i \in 1 .. num |->
         IF rdIdx + num > Depth /\ i > numToWrap
         THEN mem[i - numToWrap - 1]
         ELSE mem[rdIdx + i - 1]]

circRead(num) ==
  LET numToWrap == Depth - rdIdx + 1
  IN  [i \in 1 .. num |->
         IF rdIdx + num > Depth /\ i > numToWrap
         THEN mem[i - numToWrap - 1]
         ELSE mem[rdIdx + i - 1]]

-----------------------------------------------------------------------------
(* The functions. *)

\* SwFifo_init with mem = NULL: malloc does not clear the memory.
Init == /\ mem \in [Slots -> Items]
        /\ wrIdx = 0
        /\ rdIdx = 0
        /\ res = Result("init", 0, << >>)

\* SwFifo_write
Write(items) ==
  \/ /\ avail < Len(items)
     /\ res' = Result("write", -1, << >>)
     /\ UNCHANGED <<mem, wrIdx, rdIdx>>
  \/ /\ avail >= Len(items)
     /\ mem' = circWrite(mem, items)
     /\ wrIdx' = Advance(wrIdx, Len(items))
     /\ res' = Result("write", 0, << >>)
     /\ UNCHANGED rdIdx

\* What SwFifo_peek copies: nothing from an empty fifo, num items at most.
Peeked(num) == IF isEmpty THEN << >> ELSE circRead(Least(num, count))

\* SwFifo_peek
Peek(num) ==
  /\ res' = Result("peek", Len(Peeked(num)), Peeked(num))
  /\ UNCHANGED <<mem, wrIdx, rdIdx>>

\* SwFifo_ack does not look at the count: acknowledging what a peek returned
\* is the caller's duty, and the only caller, SwFifo_read, does.
Ack(num) ==
  /\ num =< count
  /\ rdIdx' = Advance(rdIdx, num)
  /\ res' = Result("ack", 0, << >>)
  /\ UNCHANGED <<mem, wrIdx>>

\* SwFifo_read: a peek, then an ack of what it returned.
Read(num) ==
  /\ res' = Result("read", Len(Peeked(num)), Peeked(num))
  /\ rdIdx' = IF Len(Peeked(num)) > 0 THEN Advance(rdIdx, Len(Peeked(num)))
                                      ELSE rdIdx
  /\ UNCHANGED <<mem, wrIdx>>

\* SwFifo_flush
Flush == /\ wrIdx' = 0
         /\ rdIdx' = 0
         /\ res' = Result("flush", 0, << >>)
         /\ UNCHANGED mem

\* SwFifo_getCount, SwFifo_getAvail, SwFifo_isEmpty and SwFifo_isFull
Query ==
  /\ \/ res' = Result("getCount", count, << >>)
     \/ res' = Result("getAvail", avail, << >>)
     \/ res' = Result("isEmpty", IF isEmpty THEN 1 ELSE 0, << >>)
     \/ res' = Result("isFull", IF isFull THEN 1 ELSE 0, << >>)
  /\ UNCHANGED <<mem, wrIdx, rdIdx>>

Next == \/ \E items \in Batches : Write(items)
        \/ \E num \in Counts : Peek(num) \/ Ack(num) \/ Read(num)
        \/ Flush
        \/ Query

Spec == Init /\ [][Next]_vars

-----------------------------------------------------------------------------
(* Properties. *)

\* The indices stay inside the Depth + 1 slots and the slots hold items: no
\* sequence of calls moves an index past the end of the memory.
TypeOK ==
  /\ mem \in [Slots -> Items]
  /\ wrIdx \in Slots
  /\ rdIdx \in Slots
  /\ res \in [op : {"init", "write", "peek", "ack", "read", "flush",
                    "getCount", "getAvail", "isEmpty", "isFull"},
              ret : Int, data : Seq(Items)]

\* The items in the fifo, oldest first: count slots from the read index on.
Contents == [i \in 1 .. count |-> mem[Advance(rdIdx, i - 1)]]

Abstract == INSTANCE FifoQueue WITH queue <- Contents

\* The circular array behaves, call by call and returned value by returned
\* value, as a bounded first-in first-out queue whose writes are all or nothing.
ImplementsQueue == Abstract!Spec
=============================================================================
