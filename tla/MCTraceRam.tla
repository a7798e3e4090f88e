------------------------------ MODULE MCTraceRam ------------------------------
(* CircBuffer with four slots, so that a few packets wrap it several times,   *)
(* writes that fill it exactly and writes that do not, and two threads that   *)
(* read: the RPC server's and one that flushes too.                           *)
EXTENDS TraceRam
=============================================================================
