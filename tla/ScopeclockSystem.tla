--------------------------- MODULE ScopeclockSystem ---------------------------
(***************************************************************************)
(* The display pipeline (Scopeclock) and the picture builder (Picture)     *)
(* together: one DMA buffer is filled stroke by stroke while the samples   *)
(* of the other one go to the beam.  They share the buffers and the time   *)
(* slots of the task; what the pipeline takes for the contents of a buffer *)
(* is the Picture that the builder finished in it.                         *)
(***************************************************************************)
EXTENDS Naturals, Sequences

CONSTANTS
  TxBuffer1, TxBuffer2, Capacity, Samples, RestPoint, Face, Frames, BootFrame,
  Hands, None,                                          \* of Picture
  DelayCoversStart, LineOutlastsArming, DmaMayFail      \* of Scopeclock

VARIABLES
  tx_buffer, stage, static_part, pen, frame, drawn, out_index, parts,
  pictures, panicked,                                   \* of Picture
  canvas, next_display, current_display, task, held, boot, uf, transfer, nmi,
  sw_int, int_ena, tx_rempty, z_blank, dma, tx_slice, dac  \* of Scopeclock

Builder == INSTANCE Picture

\* What the pipeline knows of a buffer.  During scopeclock_init it does not
\* run yet; both pictures are the ones without a time when it starts.
Mem ==
  [b \in {TxBuffer1, TxBuffer2} |->
     IF stage # "task" THEN BootFrame
     ELSE IF pictures[b] = None THEN None ELSE pictures[b].frame]

Pipeline == INSTANCE Scopeclock WITH
  mem <- Mem, pen <- held,
  Parts <- [f \in Frames |-> Len(Face) + Len(Hands[f])]

ASSUME SystemAssumption ==
  /\ TxBuffer1 # TxBuffer2
  /\ Capacity \in Nat
  /\ RestPoint \in Samples
  /\ Face \in Seq(Seq(Samples) \ {<<>>}) \ {<<>>}
  /\ Hands \in [Frames -> Seq(Seq(Samples) \ {<<>>})]
  /\ BootFrame \in Frames /\ Hands[BootFrame] = <<>>
  /\ None \notin {TxBuffer1, TxBuffer2} /\ None \notin Frames
  /\ None \notin Pipeline!Picture /\ None \notin Builder!FinishedPicture
  /\ {DelayCoversStart, LineOutlastsArming, DmaMayFail} \subseteq BOOLEAN

builder  == <<tx_buffer, stage, static_part, pen, frame, drawn, out_index, parts,
              pictures, panicked>>
pipeline == <<canvas, next_display, current_display, task, held, boot, uf, transfer,
              nmi, sw_int, int_ena, tx_rempty, z_blank, dma, tx_slice, dac>>
vars == <<builder, pipeline>>

Init == Builder!Init /\ Pipeline!Init

-----------------------------------------------------------------------------
Running == stage = "task"

\* scopeclock_init draws both pictures before the first update_frame.
StartUp == ~Running /\ Builder!Next /\ UNCHANGED pipeline

\* scopeclock_task takes the canvas and draw_dynamic_part begins in it, with
\* the time it reads now.
BeginPicture ==
  /\ Running /\ canvas # None
  /\ \E f \in Frames : Builder!DrawDynamicPart(canvas, f)
  /\ Pipeline!TakeCanvas

\* One stroke, or the index that panics: nothing the pipeline can see.
DrawStroke ==
  /\ Running /\ Pipeline!TaskRuns
  /\ Builder!AddStroke \/ Builder!Overflow
  /\ UNCHANGED pipeline

\* draw_dynamic_part returns the Picture.  The mutant publishes it half drawn.
EndsHalfDrawn ==
  /\ Running /\ Pipeline!TaskRuns /\ task = "draw" /\ task' = "publish"
  /\ UNCHANGED <<builder, canvas, next_display, current_display, held, boot, uf, transfer,
                 nmi, sw_int, int_ena, tx_rempty, z_blank, dma, tx_slice, dac>>
EndPicture == Running /\ Builder!FinishPicture /\ Pipeline!Draw

\* Everything else in the pipeline leaves the samples alone.
Elsewhere ==
  /\ Running /\ UNCHANGED builder
  /\ \/ Pipeline!NoCanvas \/ Pipeline!Publish \/ Pipeline!Wake
     \/ Pipeline!UpdateFrame \/ Pipeline!Panic
     \/ Pipeline!Interrupts \/ Pipeline!Hardware

Next == StartUp \/ BeginPicture \/ DrawStroke \/ EndPicture \/ Elsewhere

\* As in Scopeclock; the task's steps are now the strokes as well.
Fairness ==
  /\ WF_vars(StartUp)
  /\ WF_vars(Elsewhere /\ Pipeline!DmaActivate)
  /\ WF_vars(Elsewhere /\ Pipeline!DmaDrain)
  /\ WF_vars(Elsewhere /\ Pipeline!UpdateFrame)
  /\ WF_vars(Elsewhere /\ Pipeline!Interrupts)
  /\ SF_vars(\/ BeginPicture \/ DrawStroke \/ EndPicture
             \/ Elsewhere /\ (Pipeline!NoCanvas \/ Pipeline!Publish \/ Pipeline!Wake))

Spec == Init /\ [][Next]_vars /\ Fairness

-----------------------------------------------------------------------------
(* Properties                                                              *)

TypeOK == Builder!TypeOK /\ Pipeline!TypeOK

\* Sample for sample, what the DMA reads from first to last is the stroke of
\* the face or of the hands whose turn it is, of the picture on the screen:
\* the redrawing of a buffer never shows, and no stroke is left from a time
\* shown before.
BeamDrawsStrokes ==
  dma # "idle" =>
    LET shown == pictures[tx_slice.tx_buffer]
        n     == tx_slice.current_part
    IN /\ shown # None
       /\ n \in DOMAIN shown.parts
       /\ Builder!Slice(tx_buffer[tx_slice.tx_buffer], shown.parts[n])
            = Builder!Total(current_display.frame)[n]

\* The builder keeps to the pipeline's protocol: what the pipeline sees of
\* it is that a taken buffer is half drawn until it is finished.
ImplementsPipeline == Pipeline!Init /\ [][Pipeline!Next]_(Pipeline!vars)

\* A DMA error may come at any stroke of the other buffer; the beam is dark.
PanicIsDark == Pipeline!PanicIsDark

\* The time that the task starts to draw is eventually on the screen if its
\* picture fits, unless the DMA fails or an interrupt is lost to a line that
\* ends before it is armed.
TimeReachesScreen ==
  \A f \in Frames :
    (Running /\ pen # None /\ frame = f /\ Builder!Fits(f))
      ~> (current_display.frame = f \/ uf = "panic" \/ ~Pipeline!BeamNeverStranded)
=============================================================================
