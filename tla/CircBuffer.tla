------------------------------ MODULE CircBuffer ------------------------------
(***************************************************************************)
(* modules/CircBuffer as modules/TraceRam uses it: one thread, Zephyr's    *)
(* tracing thread, writes packets of trace data through ram_output, and    *)
(* other threads read, flush and query the buffer, each under the mutex.   *)
(*                                                                         *)
(* CircBuffer_write computes the available space before it takes the       *)
(* mutex, so it is three steps here: the unlocked computation, the lock    *)
(* and the purge, the copy and the unlock.  CircBuffer_flush is two, as an *)
(* unlocked computation can see the indices between its two stores.        *)
(*                                                                         *)
(* A byte is its position in the stream of written bytes, 0 is memory that *)
(* was never written.                                                      *)
(***************************************************************************)
EXTENDS Integers, Sequences

CONSTANTS Writer,      \* the thread that writes
          Readers,     \* the threads that read and flush
          NoThread,    \* the owner of a free mutex
          Depth,       \* circ->buf_size
          Sizes,       \* sizes of the writes
          ReadSizes,   \* sizes a reader asks for
          MaxWritten   \* bytes written in a behaviour, at most (bound)

ASSUME CircThreadsAssumption == /\ Writer \notin Readers
                                /\ NoThread \notin Readers \cup {Writer}
\* A write longer than the memory would not wrap back into it: trace packets
\* are far shorter than the buffer.
ASSUME CircSizesAssumption == /\ Depth \in Nat \ {0}
                              /\ Sizes \subseteq 1 .. Depth
                              /\ ReadSizes \subseteq Nat
                              /\ MaxWritten \in Nat

VARIABLES buf,           \* circ->buf
          wr_idx,        \* circ->wr_idx
          rd_idx,        \* circ->rd_idx
          owner,         \* the thread that holds circ->mtx
          pc,            \* where each thread is in its call
          size,          \* CircBuffer_write's argument
          avail_space,   \* CircBuffer_write's local variable
          got,           \* the bytes the last CircBuffer_read copied out
          written,       \* bytes written so far (history)
          removed        \* bytes read, purged or flushed so far (history)

vars == <<buf, wr_idx, rd_idx, owner, pc, size, avail_space, got,
          written, removed>>

Threads == Readers \cup {Writer}
Slots == 0 .. Depth
Least(a, b) == IF a < b THEN a ELSE b

-----------------------------------------------------------------------------
(* The macros. *)

\* MUTANT: wraps one slot late, past the last slot.
AdvanceLate(idx, n) ==
  IF idx + n > Depth + 1 THEN idx + n - (Depth + 1) ELSE idx + n

\* inc_wr_idx and inc_rd_idx
Advance(idx, n) == IF idx + n > Depth THEN idx + n - (Depth + 1) ELSE idx + n

count == IF wr_idx >= rd_idx THEN wr_idx - rd_idx
                             ELSE (Depth - rd_idx) + wr_idx + 1
avail == Depth - count

-----------------------------------------------------------------------------
(* The two copies. *)

\* The next n bytes of the stream go to the slots from wr_idx on.
circ_write(n) ==
  LET numToWrap == Depth - wr_idx + 1
  IN  [s \in Slots |->
         IF s >= wr_idx /\ s < wr_idx + n THEN written + (s - wr_idx) + 1
         ELSE IF wr_idx + n > Depth /\ s < n - numToWrap
              THEN written + numToWrap + s + 1
              ELSE buf[s]]

\* MUTANT: the part that wrapped is read from the second slot on.
circ_readSkip(n) ==
  LET numToWrap == Depth - rd_idx + 1
  IN  [i \in 1 .. n |->
         IF rd_idx + n > Depth /\ i > numToWrap
         THEN buf[i - numToWrap]
         ELSE buf[rd_idx + i - 1]]

circ_read(n) ==
  LET numToWrap == Depth - rd_idx + 1
  IN  [i \in 1 .. n |->
         IF rd_idx + n > Depth /\ i > numToWrap
         THEN buf[i - numToWrap - 1]
         ELSE buf[rd_idx + i - 1]]

-----------------------------------------------------------------------------
(* The writer. *)

\* CircBuffer_init
Init == /\ buf = [s \in Slots |-> 0]
        /\ wr_idx = 0
        /\ rd_idx = 0
        /\ owner = NoThread
        /\ pc = [t \in Threads |-> "idle"]
        /\ size = 0
        /\ avail_space = 0
        /\ got = << >>
        /\ written = 0
        /\ removed = 0

\* CircBuffer_write up to the mutex: the space is computed without it.
WriteAvail(n) ==
  /\ pc[Writer] = "idle"
  /\ written + n =< MaxWritten
  /\ size' = n
  /\ avail_space' = avail
  /\ pc' = [pc EXCEPT ![Writer] = "lock"]
  /\ UNCHANGED <<buf, wr_idx, rd_idx, owner, got, written, removed>>

\* MUTANT: the oldest bytes stay.
PurgeNothing(n, space) == 0

\* How many of the oldest bytes a write of n bytes purges.
Purged(n, space) == IF n > space THEN n - space ELSE 0

\* The mutex, and the purge of as many bytes as do not fit.
WritePurge ==
  /\ pc[Writer] = "lock"
  /\ owner = NoThread
  /\ owner' = Writer
  /\ rd_idx' = Advance(rd_idx, Purged(size, avail_space))
  /\ removed' = removed + Purged(size, avail_space)
  /\ pc' = [pc EXCEPT ![Writer] = "copy"]
  /\ UNCHANGED <<buf, wr_idx, size, avail_space, got, written>>

\* The copy, the write index, and the unlock.
WriteCopy ==
  /\ pc[Writer] = "copy"
  /\ buf' = circ_write(size)
  /\ wr_idx' = Advance(wr_idx, size)
  /\ written' = written + size
  /\ owner' = NoThread
  /\ pc' = [pc EXCEPT ![Writer] = "idle"]
  /\ UNCHANGED <<rd_idx, size, avail_space, got, removed>>

-----------------------------------------------------------------------------
(* The readers. *)

\* CircBuffer_read: all of it is under the mutex, and rd_idx is all it changes.
Read(t, n) ==
  /\ pc[t] = "idle"
  /\ owner = NoThread
  /\ LET num_to_read == Least(n, count)
     IN  /\ got' = IF count = 0 THEN << >> ELSE circ_read(num_to_read)
         /\ rd_idx' = IF count = 0 THEN rd_idx ELSE Advance(rd_idx, num_to_read)
         /\ removed' = removed + num_to_read
  /\ UNCHANGED <<buf, wr_idx, owner, pc, size, avail_space, written>>

\* CircBuffer_flush: the mutex and its first store ...
FlushWr(t) ==
  /\ pc[t] = "idle"
  /\ owner = NoThread
  /\ owner' = t
  /\ wr_idx' = 0
  /\ pc' = [pc EXCEPT ![t] = "flush"]
  /\ UNCHANGED <<buf, rd_idx, size, avail_space, got, written, removed>>

\* MUTANT: the read index keeps its place.
FlushRdKeeps(t) ==
  /\ pc[t] = "flush"
  /\ owner' = NoThread
  /\ removed' = written
  /\ pc' = [pc EXCEPT ![t] = "idle"]
  /\ UNCHANGED <<buf, wr_idx, rd_idx, size, avail_space, got, written>>

\* ... and its second store and the unlock.
FlushRd(t) ==
  /\ pc[t] = "flush"
  /\ rd_idx' = 0
  /\ removed' = written
  /\ owner' = NoThread
  /\ pc' = [pc EXCEPT ![t] = "idle"]
  /\ UNCHANGED <<buf, wr_idx, size, avail_space, got, written>>

Next == \/ \E n \in Sizes : WriteAvail(n)
        \/ WritePurge
        \/ WriteCopy
        \/ \E t \in Readers :
             \/ \E n \in ReadSizes : Read(t, n)
             \/ FlushWr(t)
             \/ FlushRd(t)

Spec == Init /\ [][Next]_vars

-----------------------------------------------------------------------------
(* Properties. *)

\* The indices stay inside the memory at every step, even those that other
\* threads' unlocked computations can see.
TypeOK ==
  /\ buf \in [Slots -> Nat]
  /\ wr_idx \in Slots
  /\ rd_idx \in Slots
  /\ owner \in Threads \cup {NoThread}
  /\ pc \in [Threads -> {"idle", "lock", "copy", "flush"}]
  /\ size \in 0 .. Depth
  /\ avail_space \in 0 .. Depth
  /\ got \in Seq(Nat)
  /\ written \in Nat

\* Whoever takes the mutex finds exactly the newest bytes of the stream, oldest
\* first and without a hole: a stale available space, a concurrent read and a
\* concurrent flush never tear the contents.
HoldsNewest ==
  owner = NoThread =>
    \A i \in 1 .. count : buf[Advance(rd_idx, i - 1)] = written - count + i

\* Every byte written is in the buffer or was removed by a read, a purge or a
\* flush: the write index never overruns the read index, which would silently
\* turn a full buffer into an almost empty one.  That rests on a stale
\* available space never being larger than the real one.
NoOverrun ==
  owner = NoThread => count = written - removed

\* A read returns the bytes that follow those removed before it: no byte is
\* read twice and none is read out of order, whichever thread reads and
\* whatever was flushed or purged in between.
ReadsInOrder ==
  [][ /\ removed' >= removed
      /\ got' # got => \A i \in 1 .. Len(got') : got'[i] = removed + i ]_vars

-----------------------------------------------------------------------------
(* The inductive invariant behind HoldsNewest, NoOverrun and ReadsInOrder. *)

gap == written - removed

\* The mutex is held exactly by the thread that is between its two steps.
MutexInv ==
  /\ owner = Writer <=> pc[Writer] = "copy"
  /\ \A t \in Readers : owner = t <=> pc[t] = "flush"
  /\ pc[Writer] \in {"idle", "lock", "copy"}
  /\ \A t \in Readers : pc[t] \in {"idle", "flush"}

\* While it purges, the writer may move the read index past the write index,
\* but never further than its own bytes will move the write index.
GapInv ==
  /\ owner = Writer => /\ 0 =< gap + size
                       /\ gap + size =< Depth
  /\ owner # Writer => gap \in 0 .. Depth
  /\ owner \notin Readers => gap \in { wr_idx - rd_idx,
                                       wr_idx - rd_idx + Depth + 1,
                                       wr_idx - rd_idx - (Depth + 1) }
  /\ owner \in Readers => wr_idx = 0

\* The space the writer computed may be stale, but only too small (once a
\* flush is complete, any space is).
StaleSpaceInv ==
  pc[Writer] = "lock" /\ owner \notin Readers => avail_space =< Depth - gap

ContentsInv == \A i \in 1 .. gap : buf[Advance(rd_idx, i - 1)] = removed + i

CircInv == /\ TypeOK
           /\ removed \in Nat
           /\ MutexInv
           /\ GapInv
           /\ StaleSpaceInv
           /\ ContentsInv

=============================================================================
