------------------------------- MODULE MCSwFifo -------------------------------
(* SwFifo with a depth small enough that every write and read wraps, and with *)
(* arrays longer than the fifo, so that writes are also refused.              *)
EXTENDS SwFifo
=============================================================================
