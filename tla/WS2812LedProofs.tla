---------------------------- MODULE WS2812LedProofs ----------------------------
(***************************************************************************)
(* Proofs of the safety properties of WS2812Led for any number of pixels   *)
(* and of methods and any set of effects: the pace of an effect, the mode  *)
(* after a method, and the list.  Each has an invariant of its own; that   *)
(* of the list needs the types, the others need nothing else.              *)
(*                                                                         *)
(* The effects are paced by SwTimer, of whose timers WS2812Led models the  *)
(* states alone.  The second part is about their 32-bit differences, for   *)
(* counters of any width and any time between two calls: what they say of  *)
(* the time elapsed, and so when a timer expires and what SwTimer_toc      *)
(* returns.                                                                *)
(***************************************************************************)
EXTENDS WS2812Led, SwTimer, TLAPS

-----------------------------------------------------------------------------
(* The pace of an effect. *)

LEMMA PacedInit == Init => PacedInv
BY DEF Init, PacedInv, EffectPaced, LoopBegins

\* Methods leave the timer alone or start it, and only those that start it set a
\* mode that needs it.
LEMMA PacedApp == ASSUME PacedInv, App PROVE PacedInv'
<1> USE DEF PacedInv, EffectPaced, LoopBegins
<1>1. CASE WS2812Led_addSegment
  BY <1>1 DEF WS2812Led_addSegment, segVars
<1>2. CASE fill_solid
  BY <1>2 DEF fill_solid, Command, loopVars
<1>3. CASE fill_solid_rgb
  BY <1>3 DEF fill_solid_rgb, Command, loopVars
<1>4. CASE single
  BY <1>4 DEF single, Command, loopVars
<1>5. CASE blink
  BY <1>5 DEF blink, Command, loopVars
<1>6. ASSUME NEW on \in BOOLEAN, show(on) PROVE PacedInv'
  BY <1>6 DEF show, loopVars
<1>7. ASSUME NEW e \in Effects, Begin(e) PROVE PacedInv'
  BY <1>7 DEF Begin, Command, loopVars
<1>8. CASE AddNoMemory \/ AddAnother
  BY <1>8 DEF AddNoMemory, AddAnother, segVars, loopVars
<1> QED
  BY <1>1, <1>2, <1>3, <1>4, <1>5, <1>6, <1>7, <1>8 DEF App

\* A pass reaches its drawing with a timer that runs, and ends with it.
LEMMA PacedLoop == ASSUME PacedInv, Loop PROVE PacedInv'
<1> USE DEF PacedInv, EffectPaced, LoopBegins, appVars
<1>1. CASE LoopSwitch
  BY <1>1 DEF LoopSwitch, segVars
<1>2. CASE LoopTest
  BY <1>2 DEF LoopTest, Ending
<1>3. CASE LoopToggle
  BY <1>3 DEF LoopToggle
<1>4. CASE LoopRearm
  BY <1>4 DEF LoopRearm
<1>5. CASE LoopDraw
  BY <1>5 DEF LoopDraw
<1>6. CASE LoopDrawn
  BY <1>6 DEF LoopDrawn, segVars, Ending
<1>7. CASE LoopMode
  BY <1>7 DEF LoopMode
<1> QED
  BY <1>1, <1>2, <1>3, <1>4, <1>5, <1>6, <1>7 DEF Loop

LEMMA PacedMain == ASSUME PacedInv, Main \/ UNCHANGED vars PROVE PacedInv'
BY DEF PacedInv, EffectPaced, LoopBegins, Main, MainInit, MainCopy, MainUpdate, vars,
       segVars, loopVars, appVars

\* EffectPaced: an effect's timer is never left expired or idle by methods that
\* come between the steps of segment_loop.
THEOREM KeepsPace == Spec => []EffectPaced
<1>1. PacedInv /\ [Next]_vars => PacedInv'
  BY PacedApp, PacedLoop, PacedMain DEF Next
<1>2. PacedInv => EffectPaced
  BY DEF PacedInv
<1> QED
  BY PacedInit, <1>1, <1>2, PTL DEF Spec

-----------------------------------------------------------------------------
(* The mode after a method. *)

LEMMA HoldsInit == Init => HoldsInv
BY DEF Init, HoldsInv, LoopBegins

\* A method in the middle of a pass notes the effect of that pass in raced.
LEMMA HoldsCommand ==
  ASSUME HoldsInv, NEW method, NEW newMode, Command(method, newMode) PROVE HoldsInv'
<1>1. mode' = last'.mode
  BY DEF Command
<1>2. loop' = loop /\ effect' = effect
  BY DEF Command, loopVars
<1>3. loop # "switch" => raced' = effect
  BY DEF Command
<1> QED
  BY <1>1, <1>2, <1>3 DEF HoldsInv, LoopBegins, Command

LEMMA HoldsApp == ASSUME HoldsInv, App PROVE HoldsInv'
<1>1. CASE WS2812Led_addSegment
  BY <1>1 DEF WS2812Led_addSegment, segVars, HoldsInv, LoopBegins
<1>2. CASE fill_solid
  BY <1>2, HoldsCommand DEF fill_solid
<1>3. CASE fill_solid_rgb
  BY <1>3, HoldsCommand DEF fill_solid_rgb
<1>4. CASE single
  BY <1>4, HoldsCommand DEF single
<1>5. CASE blink
  BY <1>5, HoldsCommand DEF blink
<1>6. ASSUME NEW on \in BOOLEAN, show(on) PROVE HoldsInv'
  BY <1>6 DEF show, loopVars, HoldsInv, LoopBegins
<1>7. ASSUME NEW e \in Effects, Begin(e) PROVE HoldsInv'
  BY <1>7, HoldsCommand DEF Begin
<1>8. CASE AddNoMemory \/ AddAnother
  BY <1>8 DEF AddNoMemory, AddAnother, segVars, loopVars, HoldsInv, LoopBegins
<1> QED
  BY <1>1, <1>2, <1>3, <1>4, <1>5, <1>6, <1>7, <1>8 DEF App

LEMMA HoldsLoop == ASSUME HoldsInv, Loop PROVE HoldsInv'
<1> USE DEF HoldsInv, LoopBegins, appVars
<1>1. CASE LoopSwitch
  BY <1>1 DEF LoopSwitch, segVars
<1>2. CASE LoopTest
  BY <1>2 DEF LoopTest, Ending
<1>3. CASE LoopToggle
  BY <1>3 DEF LoopToggle
<1>4. CASE LoopRearm
  BY <1>4 DEF LoopRearm
<1>5. CASE LoopDraw
  BY <1>5 DEF LoopDraw
<1>6. CASE LoopDrawn
  BY <1>6 DEF LoopDrawn, segVars, Ending
<1>7. CASE LoopMode
  BY <1>7 DEF LoopMode
<1> QED
  BY <1>1, <1>2, <1>3, <1>4, <1>5, <1>6, <1>7 DEF Loop

LEMMA HoldsMain == ASSUME HoldsInv, Main \/ UNCHANGED vars PROVE HoldsInv'
BY DEF HoldsInv, LoopBegins, Main, MainInit, MainCopy, MainUpdate, vars, segVars, loopVars, appVars

\* CommandHolds: a method is undone only by the pass that it came into.
THEOREM MethodsHold == Spec => []CommandHolds
<1>1. HoldsInv /\ [Next]_vars => HoldsInv'
  BY HoldsApp, HoldsLoop, HoldsMain DEF Next
<1>2. HoldsInv => CommandHolds
  BY DEF HoldsInv, CommandHolds
<1> QED
  BY HoldsInit, <1>1, <1>2, PTL DEF Spec

-----------------------------------------------------------------------------
(* The list. *)

\* The list and the invariant are disturbed by WS2812Led_addSegment and by the
\* beginning of led_main alone.
LEMMA AddedOther ==
  ASSUME AddedInv,
         UNCHANGED <<initialized, segments>>,
         main' = main \/ (main \notin {"list", "give"} /\ main' \notin {"list", "give"})
  PROVE  AddedInv' /\ SegmentsKept
BY DEF AddedInv, SegmentsKept

LEMMA AddedCommand ==
  ASSUME AddedInv, NEW method, NEW newMode, Command(method, newMode)
  PROVE  AddedInv' /\ SegmentsKept
BY AddedOther DEF Command, mainVars

LEMMA AddedApp ==
  ASSUME TypeOK, AddedInv, App PROVE AddedInv' /\ SegmentsKept
<1>1. CASE WS2812Led_addSegment
  <2>1. AddedInv'
    BY <1>1 DEF WS2812Led_addSegment, mainVars, AddedInv
  <2>2. SegmentsKept
    <3>1. segments \in Seq(Nat) /\ Len(segments) \in Nat
      BY DEF TypeOK
    <3>2. segments' = Append(segments, Len(segments))
      BY <1>1 DEF WS2812Led_addSegment
    <3> QED
      BY <3>1, <3>2 DEF SegmentsKept
  <2> QED
    BY <2>1, <2>2
<1>2. CASE fill_solid
  BY <1>2, AddedCommand DEF fill_solid
<1>3. CASE fill_solid_rgb
  BY <1>3, AddedCommand DEF fill_solid_rgb
<1>4. CASE single
  BY <1>4, AddedCommand DEF single
<1>5. CASE blink
  BY <1>5, AddedCommand DEF blink
<1>6. ASSUME NEW on \in BOOLEAN, show(on) PROVE AddedInv' /\ SegmentsKept
  BY <1>6, AddedOther DEF show, mainVars
<1>7. ASSUME NEW e \in Effects, Begin(e) PROVE AddedInv' /\ SegmentsKept
  BY <1>7, AddedCommand DEF Begin
<1>8. CASE AddNoMemory \/ AddAnother
  BY <1>8, AddedOther DEF AddNoMemory, AddAnother, mainVars
<1> QED
  BY <1>1, <1>2, <1>3, <1>4, <1>5, <1>6, <1>7, <1>8 DEF App

LEMMA AddedLoop == ASSUME AddedInv, Loop PROVE AddedInv' /\ SegmentsKept
BY AddedOther DEF Loop, LoopSwitch, LoopTest, LoopToggle, LoopRearm, LoopDraw,
                  LoopDrawn, LoopMode, appVars, mainVars

LEMMA AddedMain ==
  ASSUME AddedInv, Main \/ UNCHANGED vars
  PROVE  AddedInv' /\ SegmentsKept
<1>1. CASE MainInit
  BY <1>1 DEF MainInit, appVars, AddedInv, SegmentsKept
<1>2. CASE MainCopy
  BY <1>2, AddedOther DEF MainCopy, appVars
<1>3. ASSUME NEW ok \in BOOLEAN, MainUpdate(ok) PROVE AddedInv' /\ SegmentsKept
  BY <1>3, AddedOther DEF MainUpdate, appVars
<1>4. CASE UNCHANGED vars
  BY <1>4, AddedOther DEF vars, appVars, mainVars
<1> QED
  BY <1>1, <1>2, <1>3, <1>4 DEF Main

-----------------------------------------------------------------------------
(* The types. *)

LEMMA TypeInit == Init => TypeOK
<1> SUFFICES ASSUME Init PROVE TypeOK
  OBVIOUS
<1>1. state \in BOOLEAN /\ use_rgb_pixels \in BOOLEAN
  BY DEF Init
<1>2. /\ app = "adding" /\ initialized = 0 /\ segments = << >> /\ main = "list" /\ k = 0
      /\ leds = Fill(Black) /\ strip = Fill(Black) /\ mode = "STATIC"
      /\ pixels \in [Pixels -> Colors] /\ rgb_pixels \in [Pixels -> Colors]
      /\ timer = "IDLE" /\ loop = "none" /\ effect = "STATIC"
      /\ last = [method |-> "none", mode |-> "STATIC"] /\ raced = "none" /\ commands = 0
  BY DEF Init
<1> QED
  BY <1>1, <1>2, LedAssumption DEF TypeOK, Fill, Pixels, Colors, Black, Lit, Modes

\* A method writes whole colours to pixels of the segment and sets a mode.
LEMMA TypeCommand ==
  ASSUME TypeOK,
         NEW method \in {"off", "fill", "fill_rgb", "single", "effect"},
         NEW newMode \in Modes, Command(method, newMode),
         state' \in BOOLEAN, use_rgb_pixels' \in BOOLEAN,
         pixels' \in [Pixels -> Colors], rgb_pixels' \in [Pixels -> Colors],
         timer' \in {"IDLE", "RUNNING", "EXPIRED"}
  PROVE  TypeOK'
<1>1. /\ UNCHANGED <<app, initialized, segments, mainVars, loopVars>>
      /\ mode' \in Modes /\ raced' \in Modes \cup {"none"}
      /\ last' \in [method : {"none", "off", "fill", "fill_rgb", "single", "effect"}, mode : Modes]
      /\ commands' \in 0 .. MaxCommands
  BY LedAssumption DEF Command, TypeOK
<1> QED
  BY <1>1 DEF TypeOK, mainVars, loopVars

LEMMA TypeApp == ASSUME TypeOK, App PROVE TypeOK'
<1> USE DEF TypeOK
<1>1. CASE AddNoMemory \/ AddAnother
  BY <1>1 DEF AddNoMemory, AddAnother, mainVars, segVars, loopVars
<1>2. CASE WS2812Led_addSegment
  <2>1. segments' \in Seq(Nat)
    BY <1>2 DEF WS2812Led_addSegment
  <2>2. app' \in {"added", "failed"} /\ loop' \in {"switch", loop}
    BY <1>2 DEF WS2812Led_addSegment
  <2> QED
    BY <1>2, <2>1, <2>2 DEF WS2812Led_addSegment, mainVars, segVars
<1>3. CASE fill_solid
  BY <1>3, TypeCommand DEF fill_solid, Fill, Modes
<1>4. CASE fill_solid_rgb
  BY <1>4, TypeCommand DEF fill_solid_rgb, Fill, Modes
<1>5. CASE single
  BY <1>5, TypeCommand DEF single, Modes
<1>6. CASE blink
  BY <1>6, TypeCommand DEF blink, Modes
<1>7. ASSUME NEW on \in BOOLEAN, show(on) PROVE TypeOK'
  BY <1>7, LedAssumption DEF show, mainVars, loopVars
<1>8. ASSUME NEW e \in Effects, Begin(e) PROVE TypeOK'
  <2>1. e \in Modes /\ Command("effect", e) /\ UNCHANGED state /\ timer' = "RUNNING"
    BY <1>8, LedAssumption DEF Begin, Modes
  <2>2. use_rgb_pixels' \in BOOLEAN
    BY <1>8 DEF Begin
  <2>3. pixels' \in [Pixels -> Colors] /\ rgb_pixels' \in [Pixels -> Colors]
    BY <1>8 DEF Begin, Fill, Colors
  <2> QED
    BY <2>1, <2>2, <2>3, TypeCommand
<1> QED
  BY <1>1, <1>2, <1>3, <1>4, <1>5, <1>6, <1>7, <1>8 DEF App

LEMMA TypeLoop == ASSUME TypeOK, Loop PROVE TypeOK'
<1> USE DEF TypeOK, appVars, mainVars
<1>1. CASE LoopSwitch
  BY <1>1 DEF LoopSwitch, segVars
<1>2. CASE LoopTest
  BY <1>2 DEF LoopTest, Ending
<1>3. CASE LoopToggle
  <2>1. state' \in BOOLEAN
    BY <1>3 DEF LoopToggle
  <2> QED
    BY <1>3, <2>1 DEF LoopToggle
<1>4. CASE LoopRearm
  BY <1>4 DEF LoopRearm
<1>5. CASE LoopDraw
  BY <1>5 DEF LoopDraw, Modes
<1>6. CASE LoopDrawn
  BY <1>6 DEF LoopDrawn, segVars, Ending
<1>7. CASE LoopMode
  BY <1>7 DEF LoopMode
<1> QED
  BY <1>1, <1>2, <1>3, <1>4, <1>5, <1>6, <1>7 DEF Loop

LEMMA TypeMain == ASSUME TypeOK, Main \/ UNCHANGED vars PROVE TypeOK'
<1> USE DEF TypeOK, appVars, segVars, loopVars
<1>1. CASE MainInit
  <2>1. segments' \in Seq(Nat)
    <3>1. segments' \in {<< >>, segments}
      BY <1>1 DEF MainInit
    <3>2. << >> \in Seq(Nat)
      OBVIOUS
    <3> QED
      BY <3>1, <3>2
  <2>2. main' \in {"list", "give", "copy", "update", "dead"} /\ initialized' \in 0 .. 1
    BY <1>1 DEF MainInit
  <2> QED
    BY <1>1, <2>1, <2>2 DEF MainInit
<1>2. CASE MainCopy
  <2>1. leds' \in [Pixels -> Colors]
    BY <1>2 DEF MainCopy, Shown, Colors, Black
  <2>2. k' \in Pixels /\ main' \in {"copy", "update"}
    BY <1>2, LedAssumption DEF MainCopy, Pixels
  <2> QED
    BY <1>2, <2>1, <2>2 DEF MainCopy
<1>3. ASSUME NEW ok \in BOOLEAN, MainUpdate(ok) PROVE TypeOK'
  BY <1>3 DEF MainUpdate
<1>4. CASE UNCHANGED vars
  BY <1>4 DEF vars, mainVars
<1> QED
  BY <1>1, <1>2, <1>3, <1>4 DEF Main

\* TypeOK: led_main and the methods index the arrays of the segment inside their
\* NumPixels, and every variable keeps its type.
THEOREM LedTypeCorrect == Spec => []TypeOK
<1>1. TypeOK /\ [Next]_vars => TypeOK'
  BY TypeApp, TypeLoop, TypeMain DEF Next
<1> QED
  BY TypeInit, <1>1, PTL DEF Spec

-----------------------------------------------------------------------------
(* The list, with the types. *)

\* AddedStays: led_main never initialises the list after a segment was added, and
\* every segment keeps its place and its number.
THEOREM SegmentsStay == Spec => AddedStays
<1>1. Init => AddedInv
  BY DEF Init, AddedInv
<1>2. TypeOK /\ AddedInv /\ [Next]_vars => AddedInv' /\ SegmentsKept
  BY AddedApp, AddedLoop, AddedMain DEF Next
<1>3. TypeOK /\ AddedInv /\ [Next]_vars => AddedInv'
  BY <1>2
<1>4. TypeOK /\ AddedInv /\ [Next]_vars => [SegmentsKept]_vars
  BY <1>2
<1> QED
  BY LedTypeCorrect, <1>1, <1>3, <1>4, PTL DEF Spec, AddedStays

-----------------------------------------------------------------------------
(* SwTimer: arithmetic. *)

LEMMA Cut == \A n \in Nat : Uint32(n) \in Counts
BY TimerAssumption DEF Uint32, Counts

LEMMA Fits == \A n \in Counts : Uint32(n) = n
BY TimerAssumption DEF Uint32, Counts

LEMMA ComesRound == Uint32(W) = 0
BY TimerAssumption DEF Uint32

\* The two branches of the macro, and the one value that its second cuts.
LEMMA DeltaIs ==
  ASSUME NEW c \in Counts, NEW r \in Counts
  PROVE  Delta(c, r) = IF c >= r THEN c - r ELSE W - r + c
<1>1. CASE c > r
  <2>1. c - r \in Counts
    BY <1>1, TimerAssumption DEF Counts
  <2>2. Delta(c, r) = Uint32(c - r)
    BY <1>1 DEF Delta
  <2>3. Delta(c, r) = c - r
    BY <2>1, <2>2, Fits
  <2>. QED BY <1>1, <2>3 DEF Counts
<1>2. CASE c = r
  <2>1. W - 1 - r + c + 1 = W
    BY <1>2, TimerAssumption DEF Counts
  <2>2. ~(c > r)
    BY <1>2 DEF Counts
  <2>3. Delta(c, r) = Uint32(W)
    BY <2>1, <2>2 DEF Delta
  <2>. QED BY <1>2, <2>3, ComesRound DEF Counts
<1>3. CASE c < r
  <2>1. W - 1 - r + c + 1 = W - r + c /\ W - r + c \in Counts
    BY <1>3, TimerAssumption DEF Counts
  <2>2. ~(c > r)
    BY <1>3 DEF Counts
  <2>3. Delta(c, r) = Uint32(W - r + c)
    BY <2>1, <2>2 DEF Delta
  <2>4. Delta(c, r) = W - r + c
    BY <2>1, <2>3, Fits
  <2>. QED BY <1>3, <2>4 DEF Counts
<1>. QED BY <1>1, <1>2, <1>3 DEF Counts

LEMMA DeltaRange == \A c, r \in Counts : Delta(c, r) \in Counts
BY DeltaIs, TimerAssumption DEF Counts

-----------------------------------------------------------------------------
(* SwTimer: the invariant. *)

LEMMA InitTimer == TimerInit => TimerInv
<1>. SUFFICES ASSUME TimerInit PROVE TimerInv
  OBVIOUS
<1>1. 0 \in Counts
  BY TimerAssumption DEF Counts
<1>2. Types
  BY <1>1 DEF TimerInit, Types
<1>3. Delta(count, capture) = 0
  BY <1>1, DeltaIs DEF TimerInit
<1>4. DeltaInv
  BY <1>3 DEF TimerInit, DeltaInv
<1>5. delay_us = Uint32(asked)
  BY <1>1, Fits DEF TimerInit
<1>6. InTime
  BY DEF TimerInit, InTime
<1>7. 0 \div CYCLES_PER_US = 0
  BY TimerAssumption
<1>8. MeasuresElapsed
  BY <1>7 DEF TimerInit, MeasuresElapsed
<1>. QED BY <1>2, <1>4, <1>5, <1>6, <1>8 DEF TimerInv

\* The difference counts with the counter, until it comes round.
LEMMA CycleTimer == ASSUME TimerInv, Cycle PROVE TimerInv'
<1>1. Types'
  BY TimerAssumption DEF Cycle, TimerInv, Types, Counts
<1>2. Delta(count', capture') = IF Delta(count, capture) = W - 1 THEN 0
                                ELSE Delta(count, capture) + 1
  <2>1. count \in Counts /\ count' \in Counts /\ capture \in Counts /\ capture' = capture
    BY <1>1 DEF Cycle, TimerInv, Types
  <2>2. Delta(count, capture) = IF count >= capture THEN count - capture
                                                    ELSE W - capture + count
    BY <2>1, DeltaIs
  <2>3. Delta(count', capture) = IF count' >= capture THEN count' - capture
                                                      ELSE W - capture + count'
    BY <2>1, DeltaIs
  <2>. QED BY <2>1, <2>2, <2>3, TimerAssumption DEF Cycle, Counts
<1>3. Delta(count, capture) \in Counts
  BY DeltaRange DEF TimerInv, Types
<1>4. DeltaInv'
  BY <1>2, <1>3, TimerAssumption DEF Cycle, TimerInv, DeltaInv, Types, Counts
<1>5. InTime' /\ MeasuresElapsed' /\ delay_us' = Uint32(asked')
  BY DEF Cycle, TimerInv, InTime, MeasuresElapsed
<1>. QED BY <1>1, <1>4, <1>5 DEF TimerInv

LEMMA CapturedDelta == ASSUME Types, Captured, count' = count PROVE DeltaInv'
<1>1. Delta(count', capture') = 0
  BY DeltaIs DEF Captured, Types, Counts
<1>. QED BY <1>1 DEF Captured, DeltaInv

LEMMA TicTimer == ASSUME TimerInv, SwTimer_tic PROVE TimerInv'
<1>1. Types' /\ InTime' /\ MeasuresElapsed' /\ delay_us' = Uint32(asked')
  BY DEF SwTimer_tic, Captured, TimerInv, Types, InTime, MeasuresElapsed
<1>2. DeltaInv'
  BY CapturedDelta DEF SwTimer_tic, TimerInv
<1>. QED BY <1>1, <1>2 DEF TimerInv

LEMMA TocTimer == ASSUME TimerInv, SwTimer_toc PROVE TimerInv'
<1>1. Types' /\ InTime' /\ DeltaInv' /\ delay_us' = Uint32(asked')
  BY DEF SwTimer_toc, TimerInv, Types, InTime, DeltaInv
<1>2. MeasuresElapsed'
  BY DEF SwTimer_toc, TimerInv, DeltaInv, MeasuresElapsed
<1>. QED BY <1>1, <1>2 DEF TimerInv

LEMMA SetTimer ==
  ASSUME TimerInv, NEW us \in Intervals, SwTimer_setUs(us) PROVE TimerInv'
<1>1. us * CYCLES_PER_US \in Nat
  BY TimerAssumption
<1>2. Types'
  BY <1>1, Cut DEF SwTimer_setUs, Captured, TimerInv, Types
<1>3. InTime' /\ MeasuresElapsed' /\ delay_us' = Uint32(asked')
  BY DEF SwTimer_setUs, Captured, TimerInv, InTime, MeasuresElapsed
<1>4. DeltaInv'
  BY CapturedDelta DEF SwTimer_setUs, TimerInv
<1>. QED BY <1>2, <1>3, <1>4 DEF TimerInv

\* Between two tests the counter does not come round, so that the second one sees
\* all that has elapsed.
LEMMA TestTimer == ASSUME TimerInv, SwTimer_test PROVE TimerInv'
<1>1. Types' /\ MeasuresElapsed' /\ DeltaInv' /\ delay_us' = Uint32(asked')
  BY DEF SwTimer_test, TimerInv, Types, MeasuresElapsed, DeltaInv
<1>2. InTime'
  <2>. SUFFICES ASSUME swt_state' = "RUNNING", gap' =< W - delay_us PROVE elapsed < delay_us
    BY DEF SwTimer_test, InTime
  <2>1. ~RunDown /\ swt_state = "RUNNING"
    BY DEF SwTimer_test
  <2>2. /\ elapsed - tested =< W - delay_us
        /\ gap =< W - delay_us
    BY TimerAssumption DEF SwTimer_test, TimerInv, Types, Counts
  <2>3. Delta(count, capture) \in Counts
    BY DeltaRange DEF TimerInv, Types
  <2>4. Delta(count, capture) < delay_us /\ delay_us > 0
    BY <2>1, <2>3 DEF RunDown, TimerInv, Types, Counts
  <2>5. tested = 0 \/ tested < delay_us
    BY <2>1, <2>2 DEF TimerInv, InTime
  <2>6. elapsed < W
    BY <2>2, <2>4, <2>5, TimerAssumption DEF TimerInv, Types, Counts
  <2>. QED BY <2>4, <2>6 DEF TimerInv, DeltaInv
<1>. QED BY <1>1, <1>2 DEF TimerInv

LEMMA StepTimer == TimerInv /\ [TimerNext]_timerVars => TimerInv'
<1>1. ASSUME TimerInv, UNCHANGED timerVars PROVE TimerInv'
  BY <1>1 DEF timerVars, TimerInv, Types, DeltaInv, InTime, MeasuresElapsed
<1>. QED BY CycleTimer, TicTimer, TocTimer, SetTimer, TestTimer, <1>1 DEF TimerNext

\* The difference that DELTA takes of the count and the capture is the time elapsed.
THEOREM TimerInvariant == TimerSpec => []TimerInv
BY InitTimer, StepTimer, PTL DEF TimerSpec

-----------------------------------------------------------------------------
(* SwTimer: the types, whose bounds the differences give. *)

LEMMA MoreDivided ==
  ASSUME NEW a \in Nat, NEW b \in Nat, a =< b
  PROVE  /\ a \div CYCLES_PER_US \in Nat
         /\ a \div CYCLES_PER_US =< b \div CYCLES_PER_US
BY TimerAssumption

LEMMA TocTypes == ASSUME TimerTypeOK, SwTimer_toc PROVE TimerTypeOK'
<1>1. count \in Counts /\ capture \in Counts
  BY DEF TimerTypeOK
<1>2. Delta(count, capture) \in 0 .. W - 1 /\ W - 1 \in Nat
  BY <1>1, DeltaRange, TimerAssumption DEF Counts
<1>3. result' \in 0 .. (W - 1) \div CYCLES_PER_US
  <2> DEFINE d == Delta(count, capture)
  <2>1. result' = d \div CYCLES_PER_US
    BY DEF SwTimer_toc
  <2>2. d \in Nat /\ d =< W - 1
    BY <1>2
  <2> HIDE DEF d
  <2>3. /\ d \div CYCLES_PER_US \in Nat
        /\ d \div CYCLES_PER_US =< (W - 1) \div CYCLES_PER_US
        /\ (W - 1) \div CYCLES_PER_US \in Nat
    BY <1>2, <2>2, MoreDivided
  <2>. QED BY <2>1, <2>3
<1>4. UNCHANGED <<count, swt_state, capture, delay_us, elapsed, tested, gap, asked>>
      /\ measured' = elapsed
  BY DEF SwTimer_toc
<1>. QED BY <1>3, <1>4 DEF TimerTypeOK, Counts

LEMMA StepTypes ==
  ASSUME TimerTypeOK, [TimerNext]_timerVars
  PROVE  TimerTypeOK'
<1>. USE TimerAssumption
<1>1. CASE Cycle
  BY <1>1 DEF Cycle, TimerTypeOK, Counts
<1>2. CASE SwTimer_tic
  BY <1>2 DEF SwTimer_tic, Captured, TimerTypeOK, Counts
<1>3. CASE SwTimer_toc
  BY <1>3, TocTypes
<1>4. CASE SwTimer_test
  BY <1>4 DEF SwTimer_test, TimerTypeOK, Counts
<1>5. ASSUME NEW us \in Intervals, SwTimer_setUs(us) PROVE TimerTypeOK'
  <2>1. us * CYCLES_PER_US \in Nat
    OBVIOUS
  <2>2. delay_us' \in Counts /\ asked' \in Nat
    BY <1>5, <2>1, Cut DEF SwTimer_setUs
  <2>. QED BY <1>5, <2>2 DEF SwTimer_setUs, Captured, TimerTypeOK, Counts
<1>6. CASE UNCHANGED timerVars
  BY <1>6 DEF timerVars, TimerTypeOK, Counts
<1>. QED BY <1>1, <1>2, <1>3, <1>4, <1>5, <1>6 DEF TimerNext

\* Differences of counts, intervals and what SwTimer_toc divides stay in 32 bits.
THEOREM TimerTypeCorrect == TimerSpec => []TimerTypeOK
<1>1. 0 \div CYCLES_PER_US = 0 /\ 0 \in 0 .. (W - 1) \div CYCLES_PER_US
  <2>1. W - 1 \in Nat
    BY TimerAssumption
  <2>. QED BY <2>1, MoreDivided, TimerAssumption
<1>2. TimerInit => TimerTypeOK
  BY <1>1, TimerAssumption DEF TimerInit, TimerTypeOK, Counts
<1>. QED BY <1>2, StepTypes, PTL DEF TimerSpec

-----------------------------------------------------------------------------
(* SwTimer: what the timers promise. *)

\* The first SwTimer_test after an interval finds the timer expired, for any
\* interval and however the counter wraps, if tests are not too far apart.
THEOREM ExpiresInTime == TimerSpec => []InTime
<1>1. TimerInv => InTime
  BY DEF TimerInv
<1>. QED BY TimerInvariant, <1>1, PTL

\* SwTimer_toc returns the time since the capture.
THEOREM Measures == TimerSpec => []MeasuresElapsed
<1>1. TimerInv => MeasuresElapsed
  BY DEF TimerInv
<1>. QED BY TimerInvariant, <1>1, PTL

\* No SwTimer_test is true before the interval that was set is over.
THEOREM ExpiresNeverEarly == TimerSpec => NeverEarly
<1>1. ASSUME TimerInv, [TimerNext]_timerVars, swt_state = "RUNNING", swt_state' = "EXPIRED"
      PROVE  elapsed >= Uint32(asked)
  <2>1. CASE SwTimer_test
    <3>1. Delta(count, capture) >= delay_us
      BY <1>1, <2>1 DEF SwTimer_test, RunDown
    <3>2. Delta(count, capture) \in Counts
      BY <1>1, DeltaRange DEF TimerInv, Types
    <3>. QED BY <1>1, <3>1, <3>2 DEF TimerInv, DeltaInv, Types, Counts
  <2>2. CASE ~SwTimer_test
    BY <1>1, <2>2 DEF TimerNext, Cycle, SwTimer_tic, SwTimer_toc, SwTimer_setUs, Captured, timerVars
  <2>. QED BY <2>1, <2>2
<1>2. TimerInv /\ [TimerNext]_timerVars
        => [swt_state = "RUNNING" /\ swt_state' = "EXPIRED" => elapsed >= Uint32(asked)]_timerVars
  BY <1>1
<1>. QED BY TimerInvariant, <1>2, PTL DEF TimerSpec, NeverEarly
=============================================================================
