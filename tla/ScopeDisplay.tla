---------------------------- MODULE ScopeDisplay ----------------------------
(***************************************************************************)
(* What the display half of the scope clock promises: a vector monitor     *)
(* with a front frame on the screen and one back frame.  The beam draws    *)
(* the front frame line by line, in order, travelling between lines only   *)
(* while dark; a finished back frame replaces the front frame only after   *)
(* the last line, and is then never skipped.  Between two lines it may      *)
(* fail for good, which leaves the beam dark.                              *)
(*                                                                         *)
(* Scopeclock implements this specification with two DMA buffers, a task,  *)
(* two interrupt handlers and the I2S peripheral.                          *)
(***************************************************************************)
EXTENDS Naturals

CONSTANTS
  Frames,     \* what a picture may show
  BootFrame,  \* what both pictures show before the clock knows the time
  Parts,      \* Parts[f]: number of lines ("parts") of frame f
  None        \* no frame

VARIABLES
  front,      \* the frame on the screen
  line,       \* the line of it drawn last (0 before the first one)
  ready,      \* the finished back frame, or None
  drawing,    \* TRUE while the back frame is being drawn
  beam        \* "dark", "aimed" (dark, at a line's start), "lit", "traced", "failed"

vars == <<front, line, ready, drawing, beam>>

Init ==
  /\ front = BootFrame
  /\ line = 0
  /\ ready = BootFrame
  /\ drawing = FALSE
  /\ beam = "dark"

-----------------------------------------------------------------------------

\* The beam is dark and moves to the start of the next line of the frame.
NextLine ==
  /\ beam = "dark"
  /\ line < Parts[front]
  /\ line' = line + 1
  /\ beam' = "aimed"
  /\ UNCHANGED <<front, ready, drawing>>

\* All lines are drawn and there is no new frame: show the same one again.
Repeat ==
  /\ beam = "dark"
  /\ line = Parts[front]
  /\ ready = None
  /\ line' = 1
  /\ beam' = "aimed"
  /\ UNCHANGED <<front, ready, drawing>>

\* All lines are drawn and a new frame is ready: it takes the screen.
Flip ==
  /\ beam = "dark"
  /\ line = Parts[front]
  /\ ready # None
  /\ front' = ready
  /\ ready' = None
  /\ line' = 1
  /\ beam' = "aimed"
  /\ UNCHANGED drawing

Light      == beam = "aimed"  /\ beam' = "lit"    /\ UNCHANGED <<front, line, ready, drawing>>
Trace      == beam = "lit"    /\ beam' = "traced" /\ UNCHANGED <<front, line, ready, drawing>>
Extinguish == beam = "traced" /\ beam' = "dark"   /\ UNCHANGED <<front, line, ready, drawing>>

\* The hardware fails while the beam is dark, and it stays dark.
Fail ==
  /\ beam \in {"dark", "aimed"}
  /\ beam' = "failed"
  /\ UNCHANGED <<front, line, ready, drawing>>

BeamStep == NextLine \/ Repeat \/ Flip \/ Light \/ Trace \/ Extinguish \/ Fail

\* Drawing into the back frame starts only when it has been shown.
StartFrame ==
  /\ ready = None
  /\ ~drawing
  /\ drawing' = TRUE
  /\ UNCHANGED <<front, line, ready, beam>>

FinishFrame ==
  /\ drawing
  /\ ready' \in Frames
  /\ drawing' = FALSE
  /\ UNCHANGED <<front, line, beam>>

PainterStep == StartFrame \/ FinishFrame

Next == BeamStep \/ PainterStep

SafetySpec == Init /\ [][Next]_vars
=============================================================================
