-------------------------------- MODULE SwTimer --------------------------------
(***************************************************************************)
(* modules/SwTimer: a timer that is set and then tested, or started and    *)
(* read, by one thread.  Time is the hardware's cycle counter, of which    *)
(* k_cycle_get_32 gives the low 32 bits, so that a capture and a count     *)
(* taken later are ordered in either way.                                  *)
(***************************************************************************)
EXTENDS Integers

CONSTANTS W,               \* values of a uint32_t; 2^32 in the code
          CYCLES_PER_US,   \* cycles of the counter in a microsecond
          Intervals,       \* microseconds the application asks for
          MaxElapsed       \* cycles between two captures, at most (bound)

ASSUME TimerAssumption == /\ W \in Nat \ {0}
                          /\ CYCLES_PER_US \in Nat \ {0}
                          /\ Intervals \subseteq Nat
                          /\ MaxElapsed \in Nat

Counts == 0 .. W - 1
Uint32(n) == n % W

VARIABLES count,      \* k_cycle_get_32()
          swt_state,  \* swt->state
          capture,    \* swt->capture
          delay_us,   \* swt->delay_us, in cycles for all its name
          result,     \* what SwTimer_toc returned last
          elapsed,    \* cycles since the capture (history)
          tested,     \* of these, how many when it was last tested (history)
          gap,        \* and the most between two tests (history)
          measured,   \* cycles since the capture when SwTimer_toc was called (history)
          asked       \* cycles in the interval asked for (history)

timerVars ==
  <<count, swt_state, capture, delay_us, result, elapsed, tested, gap, measured, asked>>

\* The memory of a timer is static.
TimerInit ==
  /\ count = 0
  /\ swt_state = "IDLE" /\ capture = 0 /\ delay_us = 0
  /\ result = 0
  /\ elapsed = 0 /\ tested = 0 /\ gap = 0 /\ measured = 0
  /\ asked = 0

\* MUTANT: the count at which the counter wraps is left out.
DeltaShort(cnt, ref) == Uint32(IF cnt > ref THEN cnt - ref ELSE W - 1 - ref + cnt)

\* DELTA(cnt, ref), in 32 bits.
Delta(cnt, ref) == Uint32(IF cnt > ref THEN cnt - ref ELSE W - 1 - ref + cnt + 1)

-----------------------------------------------------------------------------

\* The counter runs, however long it takes from one call to the next.
Cycle == /\ elapsed < MaxElapsed
         /\ count' = IF count = W - 1 THEN 0 ELSE count + 1
         /\ elapsed' = elapsed + 1
         /\ UNCHANGED <<swt_state, capture, delay_us, result, tested, gap, measured, asked>>

Captured == capture' = count /\ elapsed' = 0 /\ tested' = 0 /\ gap' = 0

SwTimer_tic == /\ Captured
               /\ UNCHANGED <<count, swt_state, delay_us, result, measured, asked>>

SwTimer_toc == /\ result' = Delta(count, capture) \div CYCLES_PER_US
               /\ measured' = elapsed
               /\ UNCHANGED <<count, swt_state, capture, delay_us, elapsed, tested, gap, asked>>

\* MUTANT: the interval keeps the width it was asked for in.
SwTimer_setUsWide(us) ==
  /\ Captured
  /\ asked' = us * CYCLES_PER_US
  /\ delay_us' = us * CYCLES_PER_US
  /\ swt_state' = "RUNNING"
  /\ UNCHANGED <<count, result, measured>>

SwTimer_setUs(us) ==
  /\ Captured
  /\ asked' = us * CYCLES_PER_US
  /\ delay_us' = Uint32(us * CYCLES_PER_US)
  /\ swt_state' = "RUNNING"
  /\ UNCHANGED <<count, result, measured>>

\* MUTANT: the cycle that completes the interval is not counted.
RunDownLate == Delta(count, capture) > delay_us

RunDown == Delta(count, capture) >= delay_us

\* One that has expired, or does not run, is true without a look at the counter.
SwTimer_test ==
  /\ swt_state = "RUNNING"
  /\ swt_state' = IF RunDown THEN "EXPIRED" ELSE "RUNNING"
  /\ tested' = elapsed
  /\ gap' = IF elapsed - tested > gap THEN elapsed - tested ELSE gap
  /\ UNCHANGED <<count, capture, delay_us, result, elapsed, measured, asked>>

TimerNext == \/ Cycle \/ SwTimer_tic \/ SwTimer_toc \/ SwTimer_test
             \/ \E us \in Intervals : SwTimer_setUs(us)

TimerSpec == TimerInit /\ [][TimerNext]_timerVars

-----------------------------------------------------------------------------
(* Properties. *)

TimerTypeOK ==
  /\ {count, capture, delay_us} \subseteq Counts
  /\ swt_state \in {"IDLE", "RUNNING", "EXPIRED"}
  /\ result \in 0 .. (W - 1) \div CYCLES_PER_US
  /\ elapsed \in 0 .. MaxElapsed
  /\ tested \in 0 .. elapsed
  /\ gap \in 0 .. elapsed
  /\ measured \in 0 .. MaxElapsed
  /\ asked \in Nat

\* Wherever the counter wraps and however late a test comes, a timer does not
\* expire before its interval is over.  Of an interval that does not fit in 32
\* bits of cycles, 18 s at 240 MHz, only the rest is waited for.
NeverEarly ==
  [][swt_state = "RUNNING" /\ swt_state' = "EXPIRED" => elapsed >= Uint32(asked)]_timerVars

\* The first test after the interval finds the timer expired.  The tests must not
\* be so far apart that the counter comes round to the capture between two.
InTime ==
  swt_state = "RUNNING" /\ gap =< W - delay_us => tested = 0 \/ tested < delay_us

\* What SwTimer_toc returns is the time since the capture, until the counter
\* comes round.
MeasuresElapsed == measured < W => result = measured \div CYCLES_PER_US

-----------------------------------------------------------------------------
(* What makes them inductive. *)

Types == /\ count \in Counts /\ capture \in Counts /\ delay_us \in Counts
         /\ elapsed \in Nat /\ tested \in Nat /\ gap \in Nat /\ asked \in Nat
         /\ tested =< elapsed

\* The difference of the counts is what has elapsed, until the counter comes round
\* to the capture, and never more.
DeltaInv == /\ Delta(count, capture) =< elapsed
            /\ elapsed < W => Delta(count, capture) = elapsed

TimerInv == /\ Types
            /\ DeltaInv
            /\ delay_us = Uint32(asked)
            /\ InTime
            /\ MeasuresElapsed
=============================================================================
