------------------------------- MODULE SlipFrame -------------------------------
(***************************************************************************)
(* modules/slip: the SLIP framer and the deframer, as operators.           *)
(*                                                                         *)
(* A byte with a role in the protocol is its name, every other byte is     *)
(* DATA.  The delimiter, one byte on the wire, is written SOF or EOF after *)
(* the end of the frame at which the framer put it: the deframer treats    *)
(* the two alike, only properties tell them apart.                         *)
(*                                                                         *)
(* A deframer is the record of what slip_deframer_ctx and the caller's     *)
(* output buffer keep from one call to the next; its fifo is the bounded   *)
(* queue that SwFifo implements.  One call is Deframe.                     *)
(***************************************************************************)
EXTENDS Integers, Sequences, SequencesExt

CONSTANTS FifoDepth,   \* depth of deframer->fifo, twice the mtu
          BufOutMax    \* buf_out_max, the size of the caller's output buffer

ASSUME SlipAssumption == FifoDepth \in Nat \ {0} /\ BufOutMax \in Nat \ {0}

PayloadBytes == {"END", "ESC", "ESC_END", "ESC_ESC", "DATA"}
Delimiters == {"SOF", "EOF"}
Bytes == PayloadBytes \cup Delimiters

-----------------------------------------------------------------------------
(* slip_framer *)

\* MUTANT: an ESC in the payload is sent as it is.
EscapedEndOnly(c) == IF c = "END" THEN <<"ESC", "ESC_END">> ELSE <<c>>

Escaped(c) == CASE c = "END" -> <<"ESC", "ESC_END">>
                [] c = "ESC" -> <<"ESC", "ESC_ESC">>
                [] OTHER     -> <<c>>

\* What buf_out holds after each byte of the payload.
Framing(payload) ==
  LET buf_out[k \in 0 .. Len(payload)] ==
        IF k = 0 THEN <<"SOF">> ELSE buf_out[k - 1] \o Escaped(payload[k])
  IN  buf_out

slip_framer(payload) == Framing(payload)[Len(payload)] \o <<"EOF">>

-----------------------------------------------------------------------------
(* slip_deframer *)

\* state and get_escaped of the context, the bytes of its fifo, and the idx
\* bytes of a frame that the output buffer holds so far.
Deframers == [state : {"INIT", "FIND_SOF", "FIND_EOF"}, get_escaped : BOOLEAN,
              fifo : Seq(Bytes), out : Seq(Bytes)]

slip_deframer_init ==
  [state |-> "INIT", get_escaped |-> FALSE, fifo |-> << >>, out |-> << >>]

\* MUTANT: keeps what the output buffer and the escape flag hold.
StartKeeps(d) == IF d.state = "INIT" THEN [d EXCEPT !.state = "FIND_SOF"] ELSE d

\* The INIT case, which the next call after a frame or an error goes through.
Start(d) == IF d.state = "INIT"
            THEN [d EXCEPT !.state = "FIND_SOF", !.out = << >>, !.get_escaped = FALSE]
            ELSE d

Put(d, c) == [d EXCEPT !.out = Append(@, c), !.get_escaped = FALSE]

\* MUTANT: looks at the output buffer one byte late.
OutFullLate(d) == Len(d.out) = BufOutMax + 1

\* Checked before the next byte is read: a frame that fills the buffer is refused.
OutFull(d) == Len(d.out) = BufOutMax

\* One byte of the fifo, in FIND_SOF or FIND_EOF.  `ret' is "more" while the
\* loop goes on, "frame" for the return of idx, else the error returned.
Byte(d, c) ==
  LET more(e) == [d |-> e, ret |-> "more"]
      stop(r) == [d |-> [d EXCEPT !.state = "INIT"], ret |-> r]
  IN  CASE d.state = "FIND_SOF" ->
             more(IF c \in Delimiters THEN [d EXCEPT !.state = "FIND_EOF"] ELSE d)
        [] d.state = "FIND_EOF" /\ OutFull(d) -> stop("EOVERFLOW")
        [] OTHER ->
             CASE c \in Delimiters                  -> stop("frame")
               [] c = "ESC"                         -> more([d EXCEPT !.get_escaped = TRUE])
               [] c = "ESC_ESC" /\ d.get_escaped    -> more(Put(d, "ESC"))
               [] c = "ESC_END" /\ d.get_escaped    -> more(Put(d, "END"))
               [] c \in {"DATA", "END"} /\ d.get_escaped -> stop("EINVAL")
               [] OTHER                             -> more(Put(d, c))

\* What one round of the while loop makes of its result so far.
LoopStep(acc, c) ==
  IF acc.ret # "more" THEN acc
  ELSE LET b == Byte(acc.d, c) IN [d |-> b.d, ret |-> b.ret, used |-> acc.used + 1]

\* The while loop after each byte of the fifo, of which it reads none once one
\* has made the call return.
Loop(d) ==
  LET acc[n \in 0 .. Len(d.fifo)] ==
        IF n = 0 THEN [d |-> Start(d), ret |-> "more", used |-> 0]
        ELSE LoopStep(acc[n - 1], d.fifo[n])
  IN  acc

\* One call with new bytes: the deframer after it, what it returns and the
\* frame in the output buffer if it returns one.  It returns one frame at most,
\* what it does not read stays in the fifo for the next call.  An error flushes
\* the fifo, and new bytes that do not fit the fifo are dropped with all it holds.
Deframe(d, chunk) ==
  IF Len(d.fifo) + Len(chunk) > FifoDepth
  THEN [d |-> [d EXCEPT !.fifo = << >>, !.state = "INIT"], frame |-> << >>,
        ret |-> "fifo full"]
  ELSE LET all == d.fifo \o chunk
           r == Loop([d EXCEPT !.fifo = all])[Len(all)]
       IN  [d |-> [r.d EXCEPT !.fifo = IF r.ret = "frame" THEN SubSeq(all, r.used + 1, Len(all))
                                       ELSE << >>],
            frame |-> IF r.ret = "frame" THEN r.d.out ELSE << >>,
            ret |-> r.ret]
=============================================================================
