----------------------------- MODULE Scopeclock -----------------------------
(***************************************************************************)
(* The display pipeline of src/src/scopeclock.rs and src/src/high_level.S: *)
(*                                                                         *)
(*   scopeclock_task    takes the free buffer, draws, hands the picture on *)
(*   I2S0 interrupt     level 7 handler: blanks the beam, raises           *)
(*   FROM_CPU_INTR3     level 3 handler: update_frame, the next DMA line   *)
(*   I2S / DMA / DAC    hardware, at its own speed                         *)
(*                                                                         *)
(* There is one core.  A task statement runs only while no handler is      *)
(* active; update_frame runs inside critical_section::with, which masks    *)
(* level 3 but neither level 7 nor the hardware.                           *)
(***************************************************************************)
EXTENDS Naturals

CONSTANTS
  TxBuffer1, TxBuffer2, \* the two 50000 byte DMA buffers
  Frames,               \* what a picture may show
  BootFrame,            \* what is drawn before the time is known
  Parts,                \* Parts[f]: length of Picture.parts when it shows f
  None,                 \* Option::None
  DelayCoversStart,     \* delay_nanos(10) outlasts the start-up of the DMA
  LineOutlastsArming,   \* no line is output before int_ena is written
  DmaMayFail            \* wait() and write_dma() may return an error

Buffers == {TxBuffer1, TxBuffer2}
Picture == [tx_buffer : Buffers, frame : Frames, current_part : Nat]

\* Picture pic with current_part set to n.
AtPart(pic, n) ==
  [tx_buffer |-> pic.tx_buffer, frame |-> pic.frame, current_part |-> n]

ASSUME ScopeclockAssumption ==
  /\ TxBuffer1 # TxBuffer2
  /\ BootFrame \in Frames
  /\ Parts \in [Frames -> Nat \ {0}]
  /\ None \notin Buffers /\ None \notin Frames /\ None \notin Picture
  /\ DelayCoversStart \in BOOLEAN
  /\ LineOutlastsArming \in BOOLEAN
  /\ DmaMayFail \in BOOLEAN

VARIABLES
  canvas,           \* DMA_DATA.canvas: a free buffer or None
  next_display,     \* DMA_DATA.next_display: a finished picture or None
  current_display,  \* CURRENT_DISPLAY
  mem,              \* what each buffer holds; None while it is half drawn
  task, pen,        \* scopeclock_task: where it is, the buffer it holds
  boot,             \* how far scopeclock_init has got
  uf,               \* where the running update_frame is ("off": not running)
  transfer,         \* TRANSFER is Some
  nmi,              \* "blank" inside the level 7 handler, else "off"
  sw_int,           \* DPORT_CPU_INTR_FROM_CPU_3 is raised
  int_ena, tx_rempty, \* I2S interrupt enable and raw "FIFO empty" flag
  z_blank,          \* GPIO32: TRUE blanks the beam
  dma, tx_slice,    \* state of the I2S DMA and the picture part it reads
  dac               \* where the beam is: <<frame, part>>

swap   == <<canvas, next_display, current_display>>
paint  == <<mem, task, pen>>
irq    == <<nmi, sw_int, int_ena>>
output == <<dma, tx_slice, dac>>
vars   == <<swap, paint, boot, uf, transfer, irq, tx_rempty, z_blank, output>>

\* scopeclock_init has drawn both pictures and is about to call update_frame.
Init ==
  /\ canvas = None
  /\ next_display    = [tx_buffer |-> TxBuffer1, frame |-> BootFrame, current_part |-> 0]
  /\ current_display = [tx_buffer |-> TxBuffer2, frame |-> BootFrame, current_part |-> 0]
  /\ mem = [b \in Buffers |-> BootFrame]
  /\ task = "poll" /\ pen = None
  /\ boot = "frame" /\ uf = "enter" /\ transfer = FALSE
  /\ nmi = "off" /\ sw_int = FALSE /\ int_ena = FALSE /\ tx_rempty = FALSE
  /\ z_blank = TRUE
  /\ dma = "idle" /\ tx_slice = current_display /\ dac = <<None, 0>>

-----------------------------------------------------------------------------
(* scopeclock_task                                                         *)

TaskRuns == boot = "done" /\ uf = "off" /\ nmi = "off"

\* dma_data.canvas.take() finds a buffer: from here on it is half drawn.
TakeCanvas ==
  /\ TaskRuns /\ task = "poll" /\ canvas # None
  /\ pen' = canvas
  /\ canvas' = None
  /\ mem' = [mem EXCEPT ![canvas] = None]
  /\ task' = "draw"
  /\ UNCHANGED <<next_display, current_display, boot, uf, transfer, irq,
                 tx_rempty, z_blank, output>>

NoCanvas ==
  /\ TaskRuns /\ task = "poll" /\ canvas = None
  /\ task' = "sleep"
  /\ UNCHANGED <<swap, mem, pen, boot, uf, transfer, irq, tx_rempty, z_blank, output>>

\* draw_picture returns: the buffer shows whatever the time was.
Draw ==
  /\ TaskRuns /\ task = "draw"
  /\ \E f \in Frames : mem' = [mem EXCEPT ![pen] = f]
  /\ task' = "publish"
  /\ UNCHANGED <<swap, pen, boot, uf, transfer, irq, tx_rempty, z_blank, output>>

\* dma_data.next_display.replace(drawing): an older picture would be dropped.
Publish ==
  /\ TaskRuns /\ task = "publish"
  /\ next_display' = [tx_buffer |-> pen, frame |-> mem[pen], current_part |-> 0]
  /\ pen' = None
  /\ task' = "sleep"
  /\ UNCHANGED <<canvas, current_display, mem, boot, uf, transfer, irq,
                 tx_rempty, z_blank, output>>

\* Timer::after(5 ms) expires.
Wake ==
  /\ TaskRuns /\ task = "sleep"
  /\ task' = "poll"
  /\ UNCHANGED <<swap, mem, pen, boot, uf, transfer, irq, tx_rempty, z_blank, output>>

Task == TakeCanvas \/ NoCanvas \/ Draw \/ Publish \/ Wake

-----------------------------------------------------------------------------
(* update_frame                                                            *)

At(pc) == uf = pc /\ nmi = "off"

\* TRANSFER.take() and clear_int() on it, if there is a transfer.
Enter ==
  /\ At("enter")
  /\ transfer' = FALSE
  /\ tx_rempty' = (tx_rempty /\ ~transfer)
  /\ uf' = "reclaim"
  /\ UNCHANGED <<swap, paint, boot, irq, z_blank, output>>

\* The part of pic that is sent; the mutant does not grab CURRENT_DISPLAY
\* again after it was swapped.
StaleSlice(pic) == AtPart(current_display, pic.current_part)
SliceOf(pic) == pic

\* write_dma of the first sample of part pic.current_part of pic, which is
\* the current picture from now on.
Preload(pic) ==
  /\ current_display' = pic
  /\ tx_slice' = SliceOf(pic)
  /\ dma' = "starting"
  /\ uf' = "settle"
  /\ UNCHANGED <<paint, boot, transfer, irq, tx_rempty, z_blank, dac>>

Reclaimed == At("reclaim") /\ dma = "idle"  \* t.wait() has returned

\* parts.get(current_part) is None; the mutant is off by one.
OnePastLastPart == current_display.current_part > Parts[current_display.frame]
AllPartsDrawn == current_display.current_part >= Parts[current_display.frame]

\* There is a picture to swap in; the mutant waits for a free canvas as well.
HasNextAndCanvas == next_display # None /\ canvas # None
HasNext == next_display # None

\* The buffer that becomes the canvas; the mutant reads it after the swap.
FreedAfterSwap == next_display.tx_buffer
FreedBuffer == current_display.tx_buffer

AdvancePart ==
  /\ Reclaimed /\ ~AllPartsDrawn
  /\ Preload(AtPart(current_display, current_display.current_part + 1))
  /\ UNCHANGED <<canvas, next_display>>

\* select_next_picture: canvas <- current <- next <- None.
SwapPicture ==
  /\ Reclaimed /\ AllPartsDrawn /\ HasNext
  /\ canvas' = FreedBuffer
  /\ Preload(AtPart(next_display, 1))
  /\ next_display' = None

\* select_next_picture found nothing ("Missed frame").
RepeatPicture ==
  /\ Reclaimed /\ AllPartsDrawn /\ ~HasNext
  /\ Preload(AtPart(current_display, 1))
  /\ UNCHANGED <<canvas, next_display>>

\* transfer.wait() of the first sample is over; write_dma of the whole part.
StartLine ==
  /\ At("settle") /\ dma = "idle"
  /\ dma' = "starting"
  /\ tx_rempty' = FALSE
  /\ transfer' = TRUE
  /\ uf' = "light"
  /\ UNCHANGED <<swap, paint, boot, irq, z_blank, tx_slice, dac>>

LightBeam ==
  /\ At("light")
  /\ z_blank' = FALSE
  /\ uf' = "clear"
  /\ UNCHANGED <<swap, paint, boot, transfer, irq, tx_rempty, output>>

\* Mutant of ClearFlag: the second int_clr is missing.
NoSecondClear ==
  /\ At("clear")
  /\ DelayCoversStart => dma # "starting"
  /\ uf' = "arm"
  /\ UNCHANGED <<swap, paint, boot, transfer, irq, tx_rempty, z_blank, output>>

\* delay_nanos(10) and the second int_clr.
ClearFlag ==
  /\ At("clear")
  /\ DelayCoversStart => dma # "starting"
  /\ tx_rempty' = FALSE
  /\ uf' = "arm"
  /\ UNCHANGED <<swap, paint, boot, transfer, irq, z_blank, output>>

\* What update_frame leaves in int_ena; the mutant forgets to write it.
NotRearmed == int_ena
Armed == TRUE

\* int_ena is written and update_frame returns to its caller.
Arm ==
  /\ At("arm")
  /\ int_ena' = Armed
  /\ uf' = "off"
  /\ boot' = IF boot = "frame" THEN "nmi" ELSE boot
  /\ UNCHANGED <<swap, paint, transfer, nmi, sw_int, tx_rempty, z_blank, output>>

\* One of the unwrap()s on a DMA result panics; the CPU is lost in the panic
\* handler with interrupts up to level 5 masked.
Panic ==
  /\ DmaMayFail
  /\ nmi = "off" /\ uf \in {"reclaim", "settle"}
  /\ uf' = "panic"
  /\ UNCHANGED <<swap, paint, boot, transfer, irq, tx_rempty, z_blank, output>>

UpdateFrame ==
  \/ Enter \/ AdvancePart \/ SwapPicture \/ RepeatPicture
  \/ StartLine \/ LightBeam \/ ClearFlag \/ Arm

-----------------------------------------------------------------------------
(* scopeclock_init after update_frame, and the two interrupt handlers      *)

\* interrupt::enable_direct(I2S0, Interrupt14NmiPriority7)
EnableNmi ==
  /\ boot = "nmi" /\ nmi = "off"
  /\ boot' = "sw"
  /\ UNCHANGED <<swap, paint, uf, transfer, irq, tx_rempty, z_blank, output>>

\* interrupt::enable(FROM_CPU_INTR3, Priority3); then the task is spawned.
EnableSwInt ==
  /\ boot = "sw" /\ nmi = "off"
  /\ boot' = "done"
  /\ UNCHANGED <<swap, paint, uf, transfer, irq, tx_rempty, z_blank, output>>

\* HANDLE_INTERRUPT_LEVEL2: disarm, clear, raise FROM_CPU_3, wait 1 us ...
NmiEnter ==
  /\ boot \in {"sw", "done"} /\ nmi = "off"
  /\ int_ena /\ tx_rempty
  /\ int_ena' = FALSE
  /\ tx_rempty' = FALSE
  /\ sw_int' = TRUE
  /\ nmi' = "blank"
  /\ UNCHANGED <<swap, paint, boot, uf, transfer, z_blank, output>>

\* Mutant of NmiBlank: the handler clears the GPIO instead.
NmiUnblank ==
  /\ nmi = "blank"
  /\ z_blank' = FALSE
  /\ nmi' = "off"
  /\ UNCHANGED <<swap, paint, boot, uf, transfer, sw_int, int_ena, tx_rempty, output>>

\* ... and set the Z blanking GPIO.
NmiBlank ==
  /\ nmi = "blank"
  /\ z_blank' = TRUE
  /\ nmi' = "off"
  /\ UNCHANGED <<swap, paint, boot, uf, transfer, sw_int, int_ena, tx_rempty, output>>

\* What FROM_CPU_INTR3 leaves in sw_int; the mutant does not reset it.
SwIntKept == sw_int
SwIntReset == FALSE

\* FROM_CPU_INTR3: reset the software interrupt and call update_frame.
SwIsr ==
  /\ boot = "done" /\ At("off") /\ sw_int
  /\ sw_int' = SwIntReset
  /\ uf' = "enter"
  /\ UNCHANGED <<swap, paint, boot, transfer, nmi, int_ena, tx_rempty, z_blank, output>>

Interrupts == EnableNmi \/ EnableSwInt \/ NmiEnter \/ NmiBlank \/ SwIsr

-----------------------------------------------------------------------------
(* The I2S peripheral (external): samples go from the buffer to the DAC.   *)

\* What the beam points at when the DMA reads its slice now.
Output == dac' = <<mem[tx_slice.tx_buffer], tx_slice.current_part>>

DmaActivate ==
  /\ dma = "starting"
  /\ dma' = "running"
  /\ Output
  /\ UNCHANGED <<swap, paint, boot, uf, transfer, irq, tx_rempty, z_blank, tx_slice>>

\* The last sample of the transfer is out and the FIFO runs empty.
DmaDrain ==
  /\ dma = "running"
  /\ LineOutlastsArming => uf \notin {"light", "clear", "arm"}
  /\ dma' = "idle"
  /\ tx_rempty' = TRUE
  /\ Output
  /\ UNCHANGED <<swap, paint, boot, uf, transfer, irq, z_blank, tx_slice>>

\* While the FIFO is empty its flag may be set again after it was cleared.
FifoEmpty ==
  /\ dma # "running" /\ ~tx_rempty
  /\ tx_rempty' = TRUE
  /\ UNCHANGED <<swap, paint, boot, uf, transfer, irq, z_blank, output>>

Hardware == DmaActivate \/ DmaDrain \/ FifoEmpty

-----------------------------------------------------------------------------

Next == Task \/ UpdateFrame \/ Panic \/ Interrupts \/ Hardware

(***************************************************************************)
(* The CPU serves an enabled interrupt and the hardware outputs what it    *)
(* was given.  The task gets the CPU only between two update_frame calls;  *)
(* the shortest part is a dot of 28 samples, 212 us, and a call takes only *)
(* a few of them, so there is always time left: strong fairness.           *)
(***************************************************************************)
Fairness ==
  /\ WF_vars(DmaActivate) /\ WF_vars(DmaDrain)
  /\ WF_vars(UpdateFrame)
  /\ WF_vars(Interrupts)
  /\ SF_vars(Task)

Spec == Init /\ [][Next]_vars /\ Fairness

-----------------------------------------------------------------------------
(* Properties                                                              *)

TypeOK ==
  /\ canvas \in Buffers \union {None}
  /\ next_display \in Picture \union {None}
  /\ next_display # None => next_display.current_part = 0
  /\ current_display \in Picture
  /\ current_display.current_part <= Parts[current_display.frame]
  /\ mem \in [Buffers -> Frames \union {None}]
  /\ task \in {"poll", "draw", "publish", "sleep"}
  /\ pen \in Buffers \union {None}
  /\ boot \in {"frame", "nmi", "sw", "done"}
  /\ uf \in {"off", "enter", "reclaim", "settle", "light", "clear", "arm", "panic"}
  /\ nmi \in {"off", "blank"}
  /\ transfer \in BOOLEAN /\ sw_int \in BOOLEAN /\ int_ena \in BOOLEAN
  /\ tx_rempty \in BOOLEAN /\ z_blank \in BOOLEAN
  /\ dma \in {"idle", "starting", "running"}
  /\ tx_slice \in Picture
  /\ dac \in (Frames \union {None}) \X Nat

\* Each of the two buffers has exactly one owner: the canvas slot, the task,
\* the next_display slot or the screen.  None is lost, none is shared.
NextBuffer == IF next_display = None THEN None ELSE next_display.tx_buffer
Owners == <<canvas, pen, NextBuffer, current_display.tx_buffer>>
OneOwner ==
  \A b \in Buffers : \E i \in 1..4 :
    Owners[i] = b /\ \A j \in 1..4 \ {i} : Owners[j] # b

\* The DMA only ever reads a finished picture, the one on the screen: nobody
\* is drawing into the buffer it reads.
NoTearing ==
  dma # "idle" =>
    /\ tx_slice.tx_buffer = current_display.tx_buffer
    /\ mem[tx_slice.tx_buffer] = current_display.frame

\* The beam never goes to another line, or to other contents of the same
\* line, while it is lit.
DarkTravel == [][dac' # dac => z_blank]_vars

\* A panic on a DMA error leaves the beam blanked (README: "Add a panic
\* handler which protects the tube from damage").
PanicIsDark == uf = "panic" => z_blank

\* The chain I2S interrupt -> software interrupt -> update_frame -> I2S
\* interrupt never forks (update_frame "is not reentrant") and never ends.
OneActivation ==
  IF uf = "off" THEN int_ena <=> ~sw_int ELSE ~int_ena /\ ~sw_int

\* A lit beam is always about to be blanked: it is not left burning in one
\* place because an interrupt was lost.
BeamNeverStranded ==
  ~z_blank => \/ nmi = "blank"
              \/ uf \in {"clear", "arm"}
              \/ int_ena /\ (tx_rempty \/ dma # "idle")

\* A finished picture is eventually on the screen, unless the DMA fails.
FrameReachesScreen ==
  \A b \in Buffers, f \in Frames :
    (next_display # None /\ next_display.tx_buffer = b /\ next_display.frame = f)
      ~> \/ current_display.tx_buffer = b /\ current_display.frame = f
         \/ uf = "panic"

\* The task gets a buffer to draw on again and again, unless the DMA fails.
ClockKeepsDrawing == []<>(task = "draw") \/ <>(uf = "panic")

\* Every line is drawn in order, from its first to its last sample, with the
\* beam lit; frames change only between the last line of one and the first
\* of the next, and no finished frame is skipped.  A DMA error leaves it dark
\* for good.
Beam ==
  IF uf = "panic" /\ z_blank THEN "failed"
  ELSE IF uf \in {"settle", "light"} THEN "aimed"
  ELSE IF z_blank THEN "dark"
  ELSE IF uf \in {"clear", "arm"} \/ dma # "idle" THEN "lit"
  ELSE "traced"
Display == INSTANCE ScopeDisplay WITH
  front   <- current_display.frame,
  line    <- current_display.current_part,
  ready   <- IF next_display = None THEN None ELSE next_display.frame,
  drawing <- pen # None,
  beam    <- Beam
ImplementsDisplay == Display!SafetySpec
=============================================================================
