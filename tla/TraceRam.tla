------------------------------- MODULE TraceRam -------------------------------
(***************************************************************************)
(* modules/TraceRam and the handlers of modules/SystemRpc that use it, on  *)
(* top of CircBuffer: Zephyr's tracing core (external) collects trace data *)
(* while it is enabled, its thread hands them to ram_output, and the       *)
(* thread of the RPC server switches tracing on and off and reads the      *)
(* buffer out for a host, one getnexttraceram after the other.             *)
(*                                                                         *)
(* Each call of CircBuffer takes the mutex for itself, so getnexttraceram  *)
(* is three steps: the count, the read and the count after it.  The other  *)
(* readers are application threads, which may read and flush at any time.  *)
(***************************************************************************)
EXTENDS CircBuffer

CONSTANTS Server,      \* the reader that runs the RPC handlers
          MaxQueued    \* bytes the tracing core holds, at most (bound)

ASSUME TraceRamAssumption == Server \in Readers /\ MaxQueued \in Nat

VARIABLES enabled,     \* is_tracing_enabled()
          queued,      \* bytes in the tracing core that its thread has yet to output
          call,        \* where the handler is, with its argument
          reply,       \* the last reply: an error, or whether it tells that the
                       \* buffer is empty (a count of 0, no data, empty_on_read)
          quiet,       \* nothing could be traced when the call came (history)
          taken        \* others removed bytes since the call counted (history)

rpcVars == <<call, reply, quiet>>
traceVars == <<enabled, queued, rpcVars, taken>>
allVars == <<vars, traceVars>>

Others == Readers \ {Server}
Idle == [at |-> "idle", max_size |-> 0, num_read |-> 0]

\* No trace data are collected, waiting or on their way into the buffer.
Quiet == ~enabled /\ queued = 0 /\ pc[Writer] = "idle"

\* ram_init; the core may be configured to start enabled.
TraceInit ==
  /\ Init
  /\ enabled \in BOOLEAN
  /\ queued = 0
  /\ call = Idle
  /\ reply = [error |-> FALSE, empty |-> FALSE]
  /\ quiet = FALSE
  /\ taken = FALSE

-----------------------------------------------------------------------------
(* The tracing core and its thread. *)

Trace(n) ==
  /\ enabled
  /\ queued + n =< MaxQueued
  /\ queued' = queued + n
  /\ UNCHANGED <<vars, enabled, rpcVars, taken>>

\* ram_output calls CircBuffer_write with what the core has.
ram_output(n) ==
  /\ n =< queued
  /\ WriteAvail(n)
  /\ queued' = queued - n
  /\ UNCHANGED <<enabled, rpcVars, taken>>

Output == /\ WritePurge \/ WriteCopy
          /\ UNCHANGED traceVars

\* TraceRam_read and TraceRam_flush, called by an application's thread.
Other(t) ==
  /\ (\E n \in ReadSizes : Read(t, n)) \/ FlushWr(t) \/ FlushRd(t)
  /\ taken' = (call.at = "read" /\ (taken \/ removed' # removed))
  /\ UNCHANGED <<enabled, queued, rpcVars>>

-----------------------------------------------------------------------------
(* The handlers. *)

\* What a handler that is done replies.
Answer(error, empty) ==
  /\ call' = Idle
  /\ reply' = [error |-> error, empty |-> empty]

\* gettraceramstatus: the count, and the state, which is only the server's.
gettraceramstatus ==
  /\ call = Idle
  /\ owner = NoThread
  /\ Answer(FALSE, count = 0)
  /\ quiet' = Quiet
  /\ UNCHANGED <<vars, enabled, queued, taken>>

\* TraceRam_enable and TraceRam_disable hold the mutex around the command.
SetTracing(on) ==
  /\ owner = NoThread
  /\ enabled' = on
  /\ Answer(FALSE, FALSE)
  /\ quiet' = FALSE
  /\ UNCHANGED <<vars, queued, taken>>

enabletraceram == call = Idle /\ SetTracing(TRUE)

\* disabletraceram sleeps first, while tracing goes on ...
disabletraceram ==
  /\ call = Idle
  /\ call' = [Idle EXCEPT !.at = "disable"]
  /\ UNCHANGED <<vars, enabled, queued, reply, quiet, taken>>

\* ... and then disables it.
Disable == call.at = "disable" /\ SetTracing(FALSE)

\* MUTANT: reads an empty buffer too.
getnexttraceramUnchecked(n) ==
  /\ call = Idle
  /\ owner = NoThread
  /\ call' = [Idle EXCEPT !.at = "read", !.max_size = n]
  /\ quiet' = Quiet
  /\ taken' = FALSE
  /\ UNCHANGED <<vars, enabled, queued, reply>>

\* getnexttraceram up to TraceRam_getCount, which may end it.
getnexttraceram(n) ==
  /\ call = Idle
  /\ owner = NoThread
  /\ IF count = 0 THEN Answer(FALSE, TRUE)
                  ELSE /\ call' = [Idle EXCEPT !.at = "read", !.max_size = n]
                       /\ UNCHANGED reply
  /\ quiet' = Quiet
  /\ taken' = FALSE
  /\ UNCHANGED <<vars, enabled, queued>>

\* TraceRam_read, an error when it returns nothing.
NextRead ==
  /\ call.at = "read"
  /\ Read(Server, call.max_size)
  /\ IF got' = << >> THEN Answer(TRUE, FALSE)
                     ELSE /\ call' = [call EXCEPT !.at = "count", !.num_read = Len(got')]
                          /\ UNCHANGED reply
  /\ taken' = FALSE
  /\ UNCHANGED <<enabled, queued, quiet>>

\* MUTANT: takes a read that was not cut short for one that emptied the buffer.
NextCountGuess ==
  /\ call.at = "count"
  /\ owner = NoThread
  /\ Answer(FALSE, call.num_read =< call.max_size)
  /\ UNCHANGED <<vars, enabled, queued, quiet, taken>>

\* empty_on_read, from a second count.
NextCount ==
  /\ call.at = "count"
  /\ owner = NoThread
  /\ Answer(FALSE, count = 0)
  /\ UNCHANGED <<vars, enabled, queued, quiet, taken>>

-----------------------------------------------------------------------------

Tracing == \E n \in Sizes : Trace(n) \/ ram_output(n)
Handler == \/ gettraceramstatus \/ enabletraceram \/ disabletraceram \/ Disable
           \/ \E n \in ReadSizes : getnexttraceram(n)
           \/ NextRead \/ NextCount

TraceNext == Tracing \/ Output \/ Handler \/ \E t \in Others : Other(t)

TraceSpec == TraceInit /\ [][TraceNext]_allVars

-----------------------------------------------------------------------------
(* Properties. *)

\* getnexttraceram reports an error only when another thread removed bytes
\* between its count and its read (or the host asked for none): what the tracing
\* thread writes and purges in between never makes it fail.
ErrorMeansTaken ==
  [][call.at = "read" /\ reply'.error /\ call'.at = "idle"
        => taken \/ call.max_size = 0]_allVars

\* A host that has stopped tracing, and then is told that the buffer is empty,
\* has everything: no byte is in the buffer until it enables tracing again.
EmptyIsFinal ==
  reply.empty /\ quiet /\ call = Idle /\ owner = NoThread => count = 0

-----------------------------------------------------------------------------
(* What makes the two properties inductive, with CircInv. *)

TraceTypeOK ==
  /\ enabled \in BOOLEAN /\ queued \in Nat
  /\ call \in [at : {"idle", "read", "count", "disable"},
               max_size : ReadSizes \cup {0}, num_read : Nat]
  /\ call.at = "read" => call.max_size \in ReadSizes
  /\ reply \in [error : BOOLEAN, empty : BOOLEAN]
  /\ quiet \in BOOLEAN /\ taken \in BOOLEAN

\* Once quiet, the buffer only ever gets emptier.
QuietInv == /\ quiet => Quiet
            /\ reply.empty /\ quiet /\ call = Idle => gap = 0

\* What the handler counted is still there, unless another thread took it: a
\* purge is made up for by the bytes it makes room for.
CountedInv ==
  call.at = "read" /\ ~taken => IF owner = Writer THEN gap + size > 0 ELSE gap > 0

TraceInv == TraceTypeOK /\ QuietInv /\ CountedInv
=============================================================================
