------------------------------- MODULE WS2812Led -------------------------------
(***************************************************************************)
(* modules/WS2812Led: a strip and the segment that covers it, as           *)
(* WS2812Led_init makes them.  Three threads share the segment without a   *)
(* lock: the application calls its methods, segment_loop goes on with an   *)
(* effect that a method began, and led_main copies the pixels to the leds. *)
(* The application may add another segment: that call does not come past   *)
(* the semaphore, so a second segment has no pixels here.                  *)
(*                                                                         *)
(* The application's thread has the higher priority (the two others are    *)
(* given the lowest, 15) and a method does not block, so a method is one   *)
(* action, which comes between any two steps of the others.  An effect's   *)
(* delay is not zero, so the call that begins it leaves its timer running. *)
(*                                                                         *)
(* A colour is whether a pixel is lit.  What an effect draws is left open: *)
(* any pixel, in any order, on or off.                                     *)
(***************************************************************************)
EXTENDS Integers, Sequences

CONSTANTS NumPixels,     \* pixels of the segment
          Effects,       \* the effects the application uses
          MaxCommands    \* methods the application calls, at most (bound)

HsvEffects == {"TWINKLE", "SPARKLE", "BLEND"}
RgbEffects == {"METEOR", "DISSOLVE", "FIRE"}

ASSUME LedAssumption == /\ NumPixels \in Nat \ {0}
                        /\ Effects \subseteq HsvEffects \cup RgbEffects
                        /\ MaxCommands \in Nat

Pixels == 0 .. NumPixels - 1
Black == 0
Lit == 1
Colors == {Black, Lit}
Modes == {"STATIC", "BLINK"} \cup HsvEffects \cup RgbEffects
Fill(c) == [p \in Pixels |-> c]

VARIABLES app,          \* application: "adding", "added", "failed", or "again"
                        \* while it adds another segment
          initialized,  \* strip->initialized, a semaphore
          segments,     \* strip->segments: the number of each
          main,         \* where led_main is
          k,            \* the pixel led_main copies next
          leds,         \* led_main's array
          strip,        \* what the strip shows
          mode, state, use_rgb_pixels, pixels, rgb_pixels,
          timer,        \* state of segment->timer
          loop,         \* where segment_loop is
          effect,       \* the effect segment_loop is in, or was last in
          last,         \* the last method called and its mode (history)
          raced,        \* the effect it came into the middle of (history)
          commands      \* methods called

mainVars == <<main, k, leds, strip>>
segVars == <<mode, state, use_rgb_pixels, pixels, rgb_pixels, timer>>
loopVars == <<loop, effect>>
appVars == <<app, last, raced, commands>>
vars == <<appVars, initialized, segments, mainVars, segVars, loopVars>>

\* WS2812Led_init has made led_main's thread and calls WS2812Led_addSegment; or
\* WS2812Led_init_strip has made it and the application calls it itself.
\* The pixels' memory comes from malloc, all else is static.
Init == /\ app = "adding" /\ initialized = 0 /\ segments = << >>
        /\ main = "list" /\ k = 0 /\ leds = Fill(Black) /\ strip = Fill(Black)
        /\ mode = "STATIC" /\ state = FALSE /\ use_rgb_pixels = FALSE
        /\ pixels \in [Pixels -> Colors] /\ rgb_pixels \in [Pixels -> Colors]
        /\ timer = "IDLE"
        /\ loop = "none" /\ effect = "STATIC"
        /\ last = [method |-> "none", mode |-> "STATIC"]
        /\ raced = "none" /\ commands = 0

-----------------------------------------------------------------------------
(* The application. *)

\* No memory for the pixels: WS2812Led_addSegment returns before it waits.
AddNoMemory ==
  /\ app = "adding"
  /\ app' = "failed"
  /\ UNCHANGED <<last, raced, commands, initialized, segments, mainVars, segVars, loopVars>>

\* The application calls WS2812Led_addSegment for one more segment, and there is
\* memory for it; without, the call returns and nothing is changed.
AddAnother ==
  /\ app = "added"
  /\ app' = "again"
  /\ UNCHANGED <<last, raced, commands, initialized, segments, mainVars, segVars, loopVars>>

\* Waits for led_main to have made the list, taking the semaphore that it gives
\* once, appends the segment with the next number and makes the thread of its segment_loop, which may fail: the segment
\* stays in the list.  `loop' is the thread of the first segment.
WS2812Led_addSegment ==
  /\ app \in {"adding", "again"}
  /\ initialized = 1
  /\ initialized' = 0
  /\ segments' = Append(segments, Len(segments))
  /\ \/ app' = "added" /\ loop' = IF app = "adding" THEN "switch" ELSE loop
     \/ app' = "failed" /\ UNCHANGED loop
  /\ UNCHANGED <<last, raced, commands, mainVars, segVars, effect>>

\* A method is called, which came into the middle of an effect or did not.
Command(method, newMode) ==
  /\ app = "added"
  /\ commands < MaxCommands
  /\ commands' = commands + 1
  /\ mode' = newMode
  /\ last' = [method |-> method, mode |-> newMode]
  /\ raced' = IF loop = "switch" THEN "none" ELSE effect
  /\ UNCHANGED <<app, initialized, segments, mainVars, loopVars>>

\* The fills with HSV colours; off fills with black.
fill_solid ==
  \E c \in Colors :
    /\ Command(IF c = Black THEN "off" ELSE "fill", "STATIC")
    /\ pixels' = Fill(c)
    /\ UNCHANGED <<state, use_rgb_pixels, rgb_pixels, timer>>

fill_solid_rgb ==
  \E c \in Colors :
    /\ Command("fill_rgb", "STATIC")
    /\ rgb_pixels' = Fill(c)
    /\ UNCHANGED <<state, use_rgb_pixels, pixels, timer>>

single ==
  \E p \in Pixels, c \in Colors :
    /\ Command("single", "STATIC")
    /\ \/ pixels' = [pixels EXCEPT ![p] = c] /\ UNCHANGED rgb_pixels
       \/ rgb_pixels' = [rgb_pixels EXCEPT ![p] = c] /\ UNCHANGED pixels
    /\ UNCHANGED <<state, use_rgb_pixels, timer>>

\* show and hide leave the mode, and so the last command, alone.
show(on) ==
  /\ app = "added"
  /\ commands < MaxCommands
  /\ commands' = commands + 1
  /\ state' = on
  /\ UNCHANGED <<app, last, raced, initialized, segments, mainVars, loopVars,
                 mode, use_rgb_pixels, pixels, rgb_pixels, timer>>

\* The first call of an effect, init = true.
Begin(e) ==
  /\ Command("effect", e)
  /\ use_rgb_pixels' = (e \in RgbEffects)
  /\ pixels' = IF e = "BLEND" THEN Fill(Lit)
               ELSE IF e \in HsvEffects THEN Fill(Black) ELSE pixels
  /\ rgb_pixels' = IF e = "DISSOLVE" THEN Fill(Lit)
                   ELSE IF e \in RgbEffects THEN Fill(Black) ELSE rgb_pixels
  /\ timer' = "RUNNING"
  /\ UNCHANGED state

\* blink either starts the timer or, when it has run down, toggles the state.
blink ==
  /\ Command("effect", "BLINK")
  /\ timer' = "RUNNING"
  /\ \/ UNCHANGED state
     \/ timer = "RUNNING" /\ state' = ~state
  /\ UNCHANGED <<use_rgb_pixels, pixels, rgb_pixels>>

App == \/ AddNoMemory \/ WS2812Led_addSegment \/ AddAnother
       \/ fill_solid \/ fill_solid_rgb \/ single \/ blink
       \/ \E on \in BOOLEAN : show(on)
       \/ \E e \in Effects : Begin(e)

-----------------------------------------------------------------------------
(* segment_loop *)

\* MUTANT: goes on with the effect it was last in.
LoopSwitchLast ==
  /\ loop = "switch"
  /\ mode # "STATIC" \/ effect # "STATIC"
  /\ effect' = IF effect # "STATIC" THEN effect ELSE mode
  /\ loop' = "test"
  /\ UNCHANGED <<appVars, initialized, segments, mainVars, segVars>>

LoopSwitch ==
  /\ loop = "switch"
  /\ mode # "STATIC"
  /\ effect' = mode
  /\ loop' = "test"
  /\ UNCHANGED <<appVars, initialized, segments, mainVars, segVars>>

\* Where an effect ends: blend alone does not end by writing its mode.
Ending == IF effect = "BLEND" THEN "switch" ELSE "mode"

\* SwTimer_test: true when the timer has run down, and when it does not run.
\* blink starts a timer that does not run.
LoopTest ==
  /\ loop = "test"
  /\ \/ timer = "RUNNING" /\ timer' = timer /\ loop' = Ending
     \/ timer = "RUNNING" /\ timer' = "EXPIRED"
                          /\ loop' = IF effect = "BLINK" THEN "toggle" ELSE "rearm"
     \/ timer # "RUNNING" /\ timer' = timer /\ loop' = "rearm"
  /\ UNCHANGED <<appVars, initialized, segments, mainVars, effect,
                 mode, state, use_rgb_pixels, pixels, rgb_pixels>>

\* The step of blink.
LoopToggle ==
  /\ loop = "toggle"
  /\ state' = ~state
  /\ loop' = "rearm"
  /\ UNCHANGED <<appVars, initialized, segments, mainVars, effect,
                 mode, use_rgb_pixels, pixels, rgb_pixels, timer>>

\* MUTANT: the timer is not started again.
LoopRearmNot ==
  /\ loop = "rearm"
  /\ loop' = IF effect = "BLINK" THEN "mode" ELSE "draw"
  /\ UNCHANGED <<appVars, initialized, segments, mainVars, effect, segVars>>

LoopRearm ==
  /\ loop = "rearm"
  /\ timer' = "RUNNING"
  /\ loop' = IF effect = "BLINK" THEN "mode" ELSE "draw"
  /\ UNCHANGED <<appVars, initialized, segments, mainVars, effect,
                 mode, state, use_rgb_pixels, pixels, rgb_pixels>>

\* A pixel, or the mode that fill_solid sets when an effect blanks the segment.
LoopDraw ==
  /\ loop = "draw"
  /\ \/ /\ effect \in HsvEffects
        /\ \E p \in Pixels, c \in Colors : pixels' = [pixels EXCEPT ![p] = c]
        /\ UNCHANGED <<rgb_pixels, mode, loop>>
     \/ /\ effect \in RgbEffects
        /\ \E p \in Pixels, c \in Colors : rgb_pixels' = [rgb_pixels EXCEPT ![p] = c]
        /\ UNCHANGED <<pixels, mode, loop>>
     \/ /\ effect \in HsvEffects
        /\ mode' = "STATIC"
        /\ loop' = IF effect = "BLEND" THEN "mode" ELSE "draw"
        /\ UNCHANGED <<pixels, rgb_pixels>>
  /\ UNCHANGED <<appVars, initialized, segments, mainVars, effect,
                 state, use_rgb_pixels, timer>>

LoopDrawn ==
  /\ loop = "draw"
  /\ loop' = Ending
  /\ UNCHANGED <<appVars, initialized, segments, mainVars, effect, segVars>>

LoopMode ==
  /\ loop = "mode"
  /\ mode' = effect
  /\ loop' = "switch"
  /\ UNCHANGED <<appVars, initialized, segments, mainVars, effect,
                 state, use_rgb_pixels, pixels, rgb_pixels, timer>>

-----------------------------------------------------------------------------
(* led_main *)

\* MUTANT: gives the semaphore before it makes the list.
MainInitLate ==
  /\ \/ main = "list" /\ main' = "give" /\ initialized' = 1 /\ UNCHANGED segments
     \/ main = "give" /\ main' = "copy" /\ segments' = << >> /\ UNCHANGED initialized
  /\ UNCHANGED <<appVars, k, leds, strip, segVars, loopVars>>

\* CList_init, then the semaphore.
MainInit ==
  /\ \/ main = "list" /\ main' = "give" /\ segments' = << >> /\ UNCHANGED initialized
     \/ main = "give" /\ main' \in {"copy", "dead"} /\ initialized' = 1
        /\ UNCHANGED segments   \* "dead" when malloc fails
  /\ UNCHANGED <<appVars, k, leds, strip, segVars, loopVars>>

\* MUTANT: skips a hidden pixel.
ShownStale(p) == IF ~state THEN leds[p] ELSE IF use_rgb_pixels THEN rgb_pixels[p] ELSE pixels[p]

\* What a pixel of the segment looks like.
Shown(p) == IF ~state THEN Black ELSE IF use_rgb_pixels THEN rgb_pixels[p] ELSE pixels[p]

\* MUTANT: goes one pixel too far.
MainCopyPast ==
  /\ main = "copy"
  /\ IF segments # << >> THEN /\ leds' = [leds EXCEPT ![k] = Shown(k)]
                              /\ k' = (k + 1) % (NumPixels + 1)
                              /\ main' = IF k = NumPixels THEN "update" ELSE "copy"
                         ELSE main' = "update" /\ UNCHANGED <<leds, k>>
  /\ UNCHANGED <<strip, appVars, initialized, segments, segVars, loopVars>>

\* A pixel, or nothing while there is no segment.
MainCopy ==
  /\ main = "copy"
  /\ IF segments # << >> THEN /\ leds' = [leds EXCEPT ![k] = Shown(k)]
                              /\ k' = (k + 1) % NumPixels
                              /\ main' = IF k + 1 = NumPixels THEN "update" ELSE "copy"
                         ELSE main' = "update" /\ UNCHANGED <<leds, k>>
  /\ UNCHANGED <<strip, appVars, initialized, segments, segVars, loopVars>>

\* led_strip_update_rgb; the frame is copied anew after an error too.
MainUpdate(ok) ==
  /\ main = "update"
  /\ strip' = IF ok THEN leds ELSE strip
  /\ main' = "copy"
  /\ UNCHANGED <<k, leds, appVars, initialized, segments, segVars, loopVars>>

Main == MainInit \/ MainCopy \/ \E ok \in BOOLEAN : MainUpdate(ok)
Loop == LoopSwitch \/ LoopTest \/ LoopToggle \/ LoopRearm \/ LoopDraw \/ LoopDrawn \/ LoopMode

Next == App \/ Main \/ Loop

\* Both threads are scheduled, a pass through an effect ends, and the led driver
\* does not fail for ever.
Spec == /\ Init /\ [][Next]_vars
        /\ WF_vars(Main) /\ SF_vars(MainUpdate(TRUE))
        /\ WF_vars(Loop) /\ WF_vars(LoopDrawn)
        /\ WF_vars(WS2812Led_addSegment)
-----------------------------------------------------------------------------
(* Properties. *)

TypeOK ==
  /\ app \in {"adding", "added", "again", "failed"}
  /\ initialized \in 0 .. 1
  /\ segments \in Seq(Nat)
  /\ main \in {"list", "give", "copy", "update", "dead"}
  /\ k \in Pixels
  /\ leds \in [Pixels -> Colors] /\ strip \in [Pixels -> Colors]
  /\ mode \in Modes /\ state \in BOOLEAN /\ use_rgb_pixels \in BOOLEAN
  /\ pixels \in [Pixels -> Colors] /\ rgb_pixels \in [Pixels -> Colors]
  /\ timer \in {"IDLE", "RUNNING", "EXPIRED"}
  /\ loop \in {"none", "switch", "test", "toggle", "rearm", "draw", "mode"}
  /\ effect \in Modes
  /\ last \in [method : {"none", "off", "fill", "fill_rgb", "single", "effect"}, mode : Modes]
  /\ raced \in Modes \cup {"none"}
  /\ commands \in 0 .. MaxCommands

SegmentsKept == \A i \in DOMAIN segments : i \in DOMAIN segments' /\ segments'[i] = segments[i]

\* A segment that was added stays in the list, in its place: the semaphore keeps
\* the application from appending before led_main initialises the list, whichever
\* thread comes first.
AddedStays == [][SegmentsKept]_vars

\* However a method comes between the steps of segment_loop, an effect's timer
\* is running whenever the thread is not about to start it: an effect keeps its
\* pace, and does not draw at every pass.
EffectPaced ==
  loop \notin {"toggle", "rearm"} =>
    /\ timer # "EXPIRED"
    /\ mode # "STATIC" => timer = "RUNNING"

\* Between two passes the mode is that of the last method called, unless the
\* method came into the middle of a pass, and then it may be that pass's effect:
\* a method called while segment_loop sleeps is never undone.
CommandHolds ==
  mode \in {last.mode, raced} \/ (mode = "STATIC" /\ loop \in {"draw", "mode"})

Image == [p \in Pixels |-> IF ~state THEN Black
                           ELSE IF use_rgb_pixels THEN rgb_pixels[p] ELSE pixels[p]]

\* Once nothing is drawn any more, the strip comes to show what the segment
\* holds: no write of a method is lost between the array and the leds.
Displayed ==
  <>[](app # "adding" /\ main # "dead" /\ mode = "STATIC" /\ loop \in {"none", "switch"})
    => <>[](strip = Image)

-----------------------------------------------------------------------------
(* What makes the properties inductive. *)

\* segment_loop runs when the segment was added.
LoopBegins == app = "adding" => loop = "none"

\* The timer runs wherever a pass can still write its effect's mode.
PacedInv == /\ EffectPaced
            /\ loop \in {"draw", "mode"} => timer = "RUNNING"
            /\ LoopBegins

\* The effect of a pass is one that the mode may be, and blend, which does not
\* end by writing its mode, leaves no STATIC behind.
HoldsInv ==
  /\ mode \in {last.mode, raced} \/ /\ mode = "STATIC"
                                    /\ loop = "mode" \/ (loop = "draw" /\ effect # "BLEND")
  /\ loop \notin {"none", "switch"} => effect \in {last.mode, raced}
  /\ LoopBegins

\* Nothing is appended before the semaphore is given, and it is given when the
\* list is made.
AddedInv == main \in {"list", "give"} => initialized = 0 /\ segments = << >>
=============================================================================
