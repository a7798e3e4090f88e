-------------------------------- MODULE Cobs --------------------------------
(***************************************************************************)
(* modules/Cobs/src/Cobs.c: the encoder and the decoder, byte by byte.     *)
(*                                                                         *)
(* An encoding is a sequence of blocks: a code word, which is the length   *)
(* of the block, and bytes that are not 0.  A block stands for its bytes   *)
(* and a 0, the last one and those of full length for their bytes alone.   *)
(***************************************************************************)
EXTENDS Integers, Sequences, SequencesExt

CONSTANT MaxCode   \* the greatest code word; 255 in the code

ASSUME CodeAssumption == MaxCode \in Nat /\ MaxCode > 1

\* The encoder has the encoding up to a code word, `closed', and the bytes after
\* that code word, `block'; this puts the code word between them.
Closed(acc) == acc.closed \o <<Len(acc.block) + 1>> \o acc.block

\* MUTANT: a full block starts the next one without the byte that closed it.
EncodeByteDrops(acc, byte) ==
  LET count == Len(acc.block) + 1
  IN  IF byte # 0 /\ count # MaxCode
      THEN [acc EXCEPT !.block = Append(@, byte)]
      ELSE [closed |-> Closed(acc), block |-> << >>]

\* One pass of the encoder's loop.  The byte that closes a full block is the first
\* of the next one, be it 0 or not.
EncodeByte(acc, byte) ==
  LET count == Len(acc.block) + 1
  IN  IF byte # 0 /\ count # MaxCode
      THEN [acc EXCEPT !.block = Append(@, byte)]
      ELSE [closed |-> Closed(acc),
            block |-> IF count = MaxCode THEN <<byte>> ELSE << >>]

\* The encoder after each byte.
Encoding(bytes) ==
  LET acc[n \in 0 .. Len(bytes)] ==
        IF n = 0 THEN [closed |-> << >>, block |-> << >>] ELSE EncodeByte(acc[n - 1], bytes[n])
  IN  acc

Cobs_encode(bytes) == Closed(Encoding(bytes)[Len(bytes)])

DecodeError == <<-1>>

\* The code word after the one at p.
NextCode(enc, p) == p + (IF enc[p] = 0 THEN 1 ELSE enc[p])

\* Where the decoder is, from the code word at p on, when it is past the last block.
Past(enc) ==
  LET past[p \in Nat \ {0}] == IF p > Len(enc) THEN p ELSE past[NextCode(enc, p)]
  IN  past

\* What the block at p stands for after its bytes.
Zero(enc, p) == IF NextCode(enc, p) - p = MaxCode THEN << >> ELSE <<0>>

\* What it writes from the code word at p on.
Output(enc) ==
  LET out[p \in Nat \ {0}] ==
        IF p > Len(enc) THEN << >>
        ELSE SubSeq(enc, p + 1, NextCode(enc, p) - 1)
               \o (IF NextCode(enc, p) = Len(enc) + 1 THEN << >>
                   ELSE Zero(enc, p) \o out[NextCode(enc, p)])
  IN  out

\* From code word to code word.  A block that ends past the encoding makes the
\* decoder follow whatever is in memory until its output is full, an error; so
\* does an encoding without a code word.
Cobs_decode(enc) ==
  IF enc = << >> \/ Past(enc)[1] # Len(enc) + 1 THEN DecodeError ELSE Output(enc)[1]
=============================================================================
