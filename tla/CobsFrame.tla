------------------------------- MODULE CobsFrame -------------------------------
(***************************************************************************)
(* modules/Cobs/src/Cobs_frame.c: the framer and the deframer, as          *)
(* operators on bytes.  A deframer is the record of what Cobs_Deframer     *)
(* keeps from one call to the next: its state, the bytes of its fifo, and  *)
(* the first `count' bytes of its work buffer.                             *)
(***************************************************************************)
EXTENDS Cobs

CONSTANT FifoDepth   \* buf_depth, the size of the fifo and of the work buffer

ASSUME FifoAssumption == FifoDepth \in Nat \ {0}

Delimiter == 0
Cobs_framer(bytes) == <<Delimiter>> \o Cobs_encode(bytes) \o <<Delimiter>>

-----------------------------------------------------------------------------

Deframers(bytes) ==
  [state : {"INIT", "FIND_EOF", "ERROR"}, fifo : Seq(bytes), work : Seq(bytes)]

Cobs_deframer_init == [state |-> "INIT", fifo |-> << >>, work |-> << >>]

\* SwFifo_write takes all new bytes or none.
Fits(d, chunk) == Len(d.fifo) + Len(chunk) =< FifoDepth

\* MUTANT: the work buffer is checked one byte late.
WorkSizeLate == FifoDepth + 1

\* work_size, checked before each byte, the end of the frame included.
WorkSize == FifoDepth

\* Where the first delimiter is, 0 if there is none.
FirstDelimiter(bytes) == SelectInSeq(bytes, LAMBDA b : b = Delimiter)

\* FIND_EOF: bytes go to the work buffer up to the next delimiter, until the fifo
\* is empty or the work buffer full.
FindEof(work, bytes) ==
  LET eof == FirstDelimiter(bytes)
      frame == work \o (IF eof = 0 THEN bytes ELSE SubSeq(bytes, 1, eof - 1))
      copied == WorkSize - Len(work)
  IN  CASE eof > 0 /\ Len(frame) < WorkSize ->
             [state |-> "DECODE", work |-> frame, left |-> SubSeq(bytes, eof + 1, Len(bytes))]
        [] eof = 0 /\ Len(frame) =< WorkSize ->
             [state |-> "FIND_EOF", work |-> frame, left |-> << >>]
        [] OTHER ->
             [state |-> "ERROR", work |-> SubSeq(frame, 1, WorkSize),
              left |-> SubSeq(bytes, copied + 1, Len(bytes))]

\* INIT and FIND_SOF: bytes before the first delimiter are discarded, and the
\* frame starts with an empty work buffer.
FindSof(bytes) ==
  LET sof == FirstDelimiter(bytes)
  IN  IF sof = 0 THEN [state |-> "FIND_SOF", work |-> << >>, left |-> << >>]
      ELSE FindEof(<< >>, SubSeq(bytes, sof + 1, Len(bytes)))

\* MUTANT: a frame whose end has not come is forgotten.
AtRestForgets(state) == "INIT"

\* The state kept when the fifo is exhausted, or the work buffer full: ERROR
\* waits for the next call, which discards the bytes it brings.
AtRest(state) == IF state = "FIND_SOF" THEN "INIT" ELSE state

\* One call with new bytes: the deframer after it, and the message it got, empty
\* if none.  It gets one message at most and leaves what follows in the fifo.
Cobs_deframer(d, chunk) ==
  LET flushed == [Cobs_deframer_init EXCEPT !.work = d.work]
      bytes == d.fifo \o chunk
      r == IF d.state = "INIT" THEN FindSof(bytes) ELSE FindEof(d.work, bytes)
      after(state, left) == [state |-> state, fifo |-> left, work |-> r.work]
      decoded == Cobs_decode(r.work)
  IN  IF ~Fits(d, chunk) \/ d.state = "ERROR" THEN [d |-> flushed, msg |-> << >>]
      ELSE IF r.state # "DECODE" THEN [d |-> after(AtRest(r.state), r.left), msg |-> << >>]
      ELSE IF decoded = DecodeError THEN [d |-> after("INIT", << >>), msg |-> << >>]
      ELSE [d |-> after("INIT", r.left), msg |-> decoded]
=============================================================================
