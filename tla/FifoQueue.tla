------------------------------ MODULE FifoQueue ------------------------------
(***************************************************************************)
(* What SwFifo promises its callers: a bounded first-in first-out queue.   *)
(* A write stores all of its items or none of them, a read removes the     *)
(* oldest items, a peek shows them without removing them.  `queue' holds   *)
(* the items, oldest first; `res' is what the last call returned, so that  *)
(* an implementation has to return the same values and not only keep the   *)
(* same items.                                                             *)
(***************************************************************************)
EXTENDS Integers, Sequences

CONSTANTS Items,     \* the items a caller may store
          Depth,     \* number of items the queue can hold
          MaxBatch   \* longest array of items one call passes (bound)

VARIABLES queue, res

vars == <<queue, res>>

\* The arrays of items a caller can pass, and the counts it can ask for.
Batches == UNION { [1 .. n -> Items] : n \in 0 .. MaxBatch }
Counts == 0 .. MaxBatch

Result(op, ret, data) == [op |-> op, ret |-> ret, data |-> data]

Least(a, b) == IF a < b THEN a ELSE b

-----------------------------------------------------------------------------

Init == /\ queue = << >>
        /\ res = Result("init", 0, << >>)

Write(items) ==
  \/ /\ Len(queue) + Len(items) =< Depth
     /\ queue' = queue \o items
     /\ res' = Result("write", 0, << >>)
  \/ /\ Len(queue) + Len(items) > Depth
     /\ res' = Result("write", -1, << >>)
     /\ UNCHANGED queue

Peek(num) ==
  LET n == Least(num, Len(queue))
  IN  /\ res' = Result("peek", n, SubSeq(queue, 1, n))
      /\ UNCHANGED queue

Ack(num) ==
  /\ num =< Len(queue)
  /\ queue' = SubSeq(queue, num + 1, Len(queue))
  /\ res' = Result("ack", 0, << >>)

Read(num) ==
  LET n == Least(num, Len(queue))
  IN  /\ res' = Result("read", n, SubSeq(queue, 1, n))
      /\ queue' = SubSeq(queue, n + 1, Len(queue))

Flush == /\ queue' = << >>
         /\ res' = Result("flush", 0, << >>)

Query ==
  /\ \/ res' = Result("getCount", Len(queue), << >>)
     \/ res' = Result("getAvail", Depth - Len(queue), << >>)
     \/ res' = Result("isEmpty", IF queue = << >> THEN 1 ELSE 0, << >>)
     \/ res' = Result("isFull", IF Len(queue) = Depth THEN 1 ELSE 0, << >>)
  /\ UNCHANGED queue

Next == \/ \E items \in Batches : Write(items)
        \/ \E num \in Counts : Peek(num) \/ Ack(num) \/ Read(num)
        \/ Flush
        \/ Query

Spec == Init /\ [][Next]_vars
=============================================================================
