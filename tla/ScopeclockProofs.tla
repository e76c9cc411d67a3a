-------------------------- MODULE ScopeclockProofs --------------------------
(***************************************************************************)
(* Proofs about Scopeclock, for every set of frames and part counts.       *)
(***************************************************************************)
EXTENDS Scopeclock, TLAPS

(***************************************************************************)
(* The inductive invariant.  Its parts say who owns the back buffer, what  *)
(* the buffers hold, which link of the interrupt chain is active, when the *)
(* beam may be lit, and what the DAC shows by then.                        *)
(***************************************************************************)

\* One of canvas, pen and next_display is in use, with the buffer that is
\* not on the screen.
OwnerInv ==
  /\ pen # None <=> task \in {"draw", "publish"}
  /\ canvas # None \/ pen # None \/ next_display # None
  /\ canvas # None => /\ pen = None /\ next_display = None
                      /\ canvas # current_display.tx_buffer
  /\ pen # None    => /\ next_display = None
                      /\ pen # current_display.tx_buffer
  /\ next_display # None => next_display.tx_buffer # current_display.tx_buffer

ContentInv ==
  /\ tx_slice = current_display
  /\ mem[current_display.tx_buffer] = current_display.frame
  /\ next_display # None => mem[next_display.tx_buffer] = next_display.frame
  /\ task = "publish" => mem[pen] \in Frames

ChainInv ==
  /\ OneActivation
  /\ nmi = "blank" => sw_int

\* Where a lit beam is possible at all.
LightInv ==
  ~z_blank => \/ uf \in {"clear", "arm"}
              \/ uf = "off" /\ (int_ena \/ nmi = "blank")

OnLine == dac = <<current_display.frame, current_display.current_part>>

\* The DAC is on the current line from the preloaded sample on.
DacInv == \/ uf = "settle" /\ dma # "starting"
          \/ uf = "light"
          \/ ~z_blank
          => OnLine

IInv == TypeOK /\ OwnerInv /\ ContentInv /\ ChainInv /\ LightInv /\ DacInv

(***************************************************************************)
(* Init and each action establish the invariant.                           *)
(***************************************************************************)
\* Both pictures are drawn, the beam is dark, nothing is armed.
LEMMA InitIInv == Init => IInv
  <1> SUFFICES ASSUME Init PROVE IInv
    OBVIOUS
  <1> USE ScopeclockAssumption DEF Init, Buffers, Picture
  <1>1. TypeOK
    <2>1. /\ transfer \in BOOLEAN /\ sw_int \in BOOLEAN /\ int_ena \in BOOLEAN
          /\ tx_rempty \in BOOLEAN /\ z_blank \in BOOLEAN
      OBVIOUS
    <2> QED
      BY <2>1 DEF TypeOK
  <1>2. OwnerInv
    BY DEF OwnerInv
  <1>3. ContentInv
    BY DEF ContentInv
  <1>4. ChainInv /\ LightInv /\ DacInv
    BY DEF ChainInv, OneActivation, LightInv, DacInv
  <1> QED
    BY <1>1, <1>2, <1>3, <1>4 DEF IInv

\* What AdvancePart, SwapPicture and RepeatPicture have in common.
PreloadStep(pic) ==
  /\ uf = "reclaim" /\ nmi = "off"
  /\ current_display' = pic /\ tx_slice' = pic
  /\ dma' = "starting" /\ uf' = "settle"
  /\ UNCHANGED <<mem, task, pen, boot, transfer, nmi, sw_int, int_ena, tx_rempty, z_blank, dac>>

\* One step per action of the task, update_frame, the handlers and the
\* peripheral, and under it one per part of the invariant.
LEMMA StepIInv == IInv /\ [Next]_vars => IInv'
  <1> SUFFICES ASSUME IInv, [Next]_vars
               PROVE  IInv'
    OBVIOUS
  <1> USE ScopeclockAssumption DEF IInv
  <1>1. CASE TakeCanvas
    <2>1. TypeOK'
      BY <1>1 DEF TakeCanvas, TypeOK, vars, swap, paint, irq, output
    <2>2. OwnerInv'
      BY <1>1 DEF TakeCanvas, OwnerInv, TypeOK, Buffers, Picture, vars,
              swap, paint, irq, output
    <2>3. ContentInv'
      BY <1>1 DEF TakeCanvas, ContentInv, TypeOK, OwnerInv, Buffers,
              Picture, vars, swap, paint, irq, output
    <2>4. ChainInv' /\ LightInv' /\ DacInv'
      BY <1>1 DEF TakeCanvas, ChainInv, OneActivation, LightInv, DacInv,
              OnLine, vars, swap, paint, irq, output
    <2> QED
      BY <2>1, <2>2, <2>3, <2>4
  <1>2. CASE NoCanvas
    <2>1. TypeOK'
      BY <1>2 DEF NoCanvas, TypeOK, vars, swap, paint, irq, output
    <2>2. OwnerInv'
      BY <1>2 DEF NoCanvas, OwnerInv, TypeOK, Buffers, Picture, vars, swap,
              paint, irq, output
    <2>3. ContentInv'
      BY <1>2 DEF NoCanvas, ContentInv, TypeOK, OwnerInv, Buffers, Picture,
              vars, swap, paint, irq, output
    <2>4. ChainInv' /\ LightInv' /\ DacInv'
      BY <1>2 DEF NoCanvas, ChainInv, OneActivation, LightInv, DacInv,
              OnLine, vars, swap, paint, irq, output
    <2> QED
      BY <2>1, <2>2, <2>3, <2>4
  <1>3. CASE Draw
    <2>1. TypeOK'
      BY <1>3 DEF Draw, TypeOK, OwnerInv, vars, swap, paint, irq, output
    <2>2. OwnerInv'
      BY <1>3 DEF Draw, OwnerInv, TypeOK, Buffers, Picture, vars, swap,
              paint, irq, output
    <2>3. ContentInv'
      BY <1>3 DEF Draw, ContentInv, TypeOK, OwnerInv, Buffers, Picture,
              vars, swap, paint, irq, output
    <2>4. ChainInv' /\ LightInv' /\ DacInv'
      BY <1>3 DEF Draw, ChainInv, OneActivation, LightInv, DacInv, OnLine,
              vars, swap, paint, irq, output
    <2> QED
      BY <2>1, <2>2, <2>3, <2>4
  <1>4. CASE Publish
    <2>1. TypeOK'
      BY <1>4 DEF Publish, TypeOK, OwnerInv, ContentInv, Picture, Buffers,
              vars, swap, paint, irq, output
    <2>2. OwnerInv'
      BY <1>4 DEF Publish, OwnerInv, TypeOK, Buffers, Picture, ContentInv,
              vars, swap, paint, irq, output
    <2>3. ContentInv'
      BY <1>4 DEF Publish, ContentInv, TypeOK, OwnerInv, Buffers, Picture,
              vars, swap, paint, irq, output
    <2>4. ChainInv' /\ LightInv' /\ DacInv'
      BY <1>4 DEF Publish, ChainInv, OneActivation, LightInv, DacInv,
              OnLine, vars, swap, paint, irq, output
    <2> QED
      BY <2>1, <2>2, <2>3, <2>4
  <1>5. CASE Wake
    <2>1. TypeOK'
      BY <1>5 DEF Wake, TypeOK, vars, swap, paint, irq, output
    <2>2. OwnerInv'
      BY <1>5 DEF Wake, OwnerInv, TypeOK, Buffers, Picture, vars, swap,
              paint, irq, output
    <2>3. ContentInv'
      BY <1>5 DEF Wake, ContentInv, TypeOK, OwnerInv, Buffers, Picture,
              vars, swap, paint, irq, output
    <2>4. ChainInv' /\ LightInv' /\ DacInv'
      BY <1>5 DEF Wake, ChainInv, OneActivation, LightInv, DacInv, OnLine,
              vars, swap, paint, irq, output
    <2> QED
      BY <2>1, <2>2, <2>3, <2>4
  <1>6. CASE Enter
    <2>1. TypeOK'
      <3>1. transfer' \in BOOLEAN /\ tx_rempty' \in BOOLEAN
        BY <1>6 DEF Enter, At, TypeOK, vars, irq
      <3> QED
        BY <1>6, <3>1 DEF Enter, At, TypeOK, vars, swap, paint, irq, output
    <2>2. ChainInv'
      BY <1>6 DEF Enter, At, ChainInv, OneActivation, TypeOK, vars, swap,
              paint, irq, output
    <2>3. LightInv'
      BY <1>6 DEF Enter, At, LightInv, TypeOK, ChainInv, OneActivation,
              vars, swap, paint, irq, output
    <2>4. DacInv'
      BY <1>6 DEF Enter, At, DacInv, OnLine, ContentInv, LightInv, ChainInv,
              OneActivation, vars, swap, paint, irq, output
    <2>5. OwnerInv' /\ ContentInv'
      BY <1>6 DEF Enter, At, OwnerInv, ContentInv, vars, swap, paint, irq,
              output
    <2> QED
      BY <2>1, <2>2, <2>3, <2>4, <2>5
  <1>7. CASE AdvancePart
    <2>1. PreloadStep(AtPart(current_display, current_display.current_part + 1))
      BY <1>7 DEF AdvancePart, PreloadStep, Preload, SliceOf, Reclaimed, At, paint, irq
    <2>2. canvas' = canvas /\ next_display' = next_display
      BY <1>7 DEF AdvancePart
    <2>3. /\ current_display'.tx_buffer = current_display.tx_buffer
          /\ current_display'.frame = current_display.frame
          /\ current_display' \in Picture
          /\ current_display'.current_part <= Parts[current_display'.frame]
      BY <1>7, <2>1 DEF AdvancePart, AllPartsDrawn, PreloadStep, AtPart, TypeOK, Picture
    <2>4. TypeOK'
      BY <2>1, <2>2, <2>3 DEF PreloadStep, TypeOK, Picture
    <2>5. OwnerInv'
      BY <2>1, <2>2, <2>3 DEF PreloadStep, OwnerInv, TypeOK, Picture, Buffers
    <2>6. ContentInv'
      BY <2>1, <2>2, <2>3 DEF PreloadStep, ContentInv, OwnerInv
    <2>7. ChainInv' /\ LightInv' /\ DacInv'
      BY <2>1 DEF PreloadStep, ChainInv, OneActivation, LightInv, DacInv
    <2> QED
      BY <2>4, <2>5, <2>6, <2>7
  <1>8. CASE SwapPicture
    <2>1. PreloadStep(AtPart(next_display, 1))
      BY <1>8 DEF SwapPicture, PreloadStep, Preload, SliceOf, Reclaimed, At, paint, irq
    <2>2. canvas' = current_display.tx_buffer /\ next_display' = None
      BY <1>8 DEF SwapPicture, FreedBuffer
    <2>3. /\ next_display \in Picture
          /\ current_display'.tx_buffer = next_display.tx_buffer
          /\ current_display'.frame = next_display.frame
          /\ current_display' \in Picture
          /\ current_display'.current_part <= Parts[current_display'.frame]
      BY <1>8, <2>1 DEF SwapPicture, HasNext, PreloadStep, AtPart, TypeOK, Picture
    <2>4. TypeOK'
      BY <2>1, <2>2, <2>3 DEF PreloadStep, TypeOK, Picture
    <2>5. OwnerInv'
      BY <2>1, <2>2, <2>3, <1>8 DEF PreloadStep, OwnerInv, TypeOK, Picture, Buffers, HasNext, SwapPicture
    <2>6. ContentInv'
      BY <2>1, <2>2, <2>3, <1>8 DEF PreloadStep, ContentInv, OwnerInv, HasNext, SwapPicture
    <2>7. ChainInv' /\ LightInv' /\ DacInv'
      BY <2>1 DEF PreloadStep, ChainInv, OneActivation, LightInv, DacInv
    <2> QED
      BY <2>4, <2>5, <2>6, <2>7
  <1>9. CASE RepeatPicture
    <2>1. PreloadStep(AtPart(current_display, 1))
      BY <1>9 DEF RepeatPicture, PreloadStep, Preload, SliceOf, Reclaimed, At, paint, irq
    <2>2. canvas' = canvas /\ next_display' = next_display
      BY <1>9 DEF RepeatPicture
    <2>3. /\ current_display'.tx_buffer = current_display.tx_buffer
          /\ current_display'.frame = current_display.frame
          /\ current_display' \in Picture
          /\ current_display'.current_part <= Parts[current_display'.frame]
      BY <2>1 DEF PreloadStep, AtPart, TypeOK, Picture
    <2>4. TypeOK'
      BY <2>1, <2>2, <2>3 DEF PreloadStep, TypeOK, Picture
    <2>5. OwnerInv'
      BY <2>1, <2>2, <2>3 DEF PreloadStep, OwnerInv, TypeOK, Picture, Buffers
    <2>6. ContentInv'
      BY <2>1, <2>2, <2>3 DEF PreloadStep, ContentInv, OwnerInv
    <2>7. ChainInv' /\ LightInv' /\ DacInv'
      BY <2>1 DEF PreloadStep, ChainInv, OneActivation, LightInv, DacInv
    <2> QED
      BY <2>4, <2>5, <2>6, <2>7
  <1>10. CASE StartLine
    <2>1. TypeOK'
      <3>1. transfer' \in BOOLEAN /\ tx_rempty' \in BOOLEAN
        BY <1>10 DEF StartLine, At, TypeOK, vars, irq
      <3> QED
        BY <1>10, <3>1 DEF StartLine, At, TypeOK, vars, swap, paint, irq, output
    <2>2. ChainInv'
      BY <1>10 DEF StartLine, At, ChainInv, OneActivation, TypeOK, vars,
               swap, paint, irq, output
    <2>3. LightInv'
      BY <1>10 DEF StartLine, At, LightInv, TypeOK, ChainInv, OneActivation,
               vars, swap, paint, irq, output
    <2>4. DacInv'
      BY <1>10 DEF StartLine, At, DacInv, OnLine, ContentInv, LightInv,
               ChainInv, OneActivation, vars, swap, paint, irq, output
    <2>5. OwnerInv' /\ ContentInv'
      BY <1>10 DEF StartLine, At, OwnerInv, ContentInv, vars, swap, paint,
               irq, output
    <2> QED
      BY <2>1, <2>2, <2>3, <2>4, <2>5
  <1>11. CASE LightBeam
    <2>1. TypeOK'
      <3>1. z_blank' \in BOOLEAN
        BY <1>11 DEF LightBeam, At, TypeOK, vars, irq
      <3> QED
        BY <1>11, <3>1 DEF LightBeam, At, TypeOK, vars, swap, paint, irq, output
    <2>2. ChainInv'
      BY <1>11 DEF LightBeam, At, ChainInv, OneActivation, TypeOK, vars,
               swap, paint, irq, output
    <2>3. LightInv'
      BY <1>11 DEF LightBeam, At, LightInv, TypeOK, ChainInv, OneActivation,
               vars, swap, paint, irq, output
    <2>4. DacInv'
      BY <1>11 DEF LightBeam, At, DacInv, OnLine, ContentInv, LightInv,
               ChainInv, OneActivation, vars, swap, paint, irq, output
    <2>5. OwnerInv' /\ ContentInv'
      BY <1>11 DEF LightBeam, At, OwnerInv, ContentInv, vars, swap, paint,
               irq, output
    <2> QED
      BY <2>1, <2>2, <2>3, <2>4, <2>5
  <1>12. CASE ClearFlag
    <2>1. TypeOK'
      <3>1. tx_rempty' \in BOOLEAN
        BY <1>12 DEF ClearFlag, At, TypeOK, vars, irq
      <3> QED
        BY <1>12, <3>1 DEF ClearFlag, At, TypeOK, vars, swap, paint, irq, output
    <2>2. ChainInv'
      BY <1>12 DEF ClearFlag, At, ChainInv, OneActivation, TypeOK, vars,
               swap, paint, irq, output
    <2>3. LightInv'
      BY <1>12 DEF ClearFlag, At, LightInv, TypeOK, ChainInv, OneActivation,
               vars, swap, paint, irq, output
    <2>4. DacInv'
      BY <1>12 DEF ClearFlag, At, DacInv, OnLine, ContentInv, LightInv,
               ChainInv, OneActivation, vars, swap, paint, irq, output
    <2>5. OwnerInv' /\ ContentInv'
      BY <1>12 DEF ClearFlag, At, OwnerInv, ContentInv, vars, swap, paint,
               irq, output
    <2> QED
      BY <2>1, <2>2, <2>3, <2>4, <2>5
  <1>13. CASE Arm
    <2>1. TypeOK'
      <3>1. int_ena' \in BOOLEAN
        BY <1>13 DEF Arm, At, Armed, TypeOK, vars, irq
      <3> QED
        BY <1>13, <3>1 DEF Arm, At, Armed, TypeOK, vars, swap, paint, irq, output
    <2>2. ChainInv'
      BY <1>13 DEF Arm, At, Armed, ChainInv, OneActivation, TypeOK, vars,
               swap, paint, irq, output
    <2>3. LightInv'
      BY <1>13 DEF Arm, At, Armed, LightInv, TypeOK, ChainInv,
               OneActivation, vars, swap, paint, irq, output
    <2>4. DacInv'
      BY <1>13 DEF Arm, At, Armed, DacInv, OnLine, ContentInv, LightInv,
               ChainInv, OneActivation, vars, swap, paint, irq, output
    <2>5. OwnerInv' /\ ContentInv'
      BY <1>13 DEF Arm, At, Armed, OwnerInv, ContentInv, vars, swap, paint,
               irq, output
    <2> QED
      BY <2>1, <2>2, <2>3, <2>4, <2>5
  <1>14. CASE Panic
    <2>1. TypeOK'
      BY <1>14 DEF Panic, TypeOK, vars, swap, paint, irq, output
    <2>2. ChainInv'
      BY <1>14 DEF Panic, ChainInv, OneActivation, TypeOK, vars, swap,
               paint, irq, output
    <2>3. LightInv'
      BY <1>14 DEF Panic, LightInv, TypeOK, ChainInv, OneActivation, vars,
               swap, paint, irq, output
    <2>4. DacInv'
      BY <1>14 DEF Panic, DacInv, OnLine, ContentInv, LightInv, ChainInv,
               OneActivation, vars, swap, paint, irq, output
    <2>5. OwnerInv' /\ ContentInv'
      BY <1>14 DEF Panic, OwnerInv, ContentInv, vars, swap, paint, irq,
               output
    <2> QED
      BY <2>1, <2>2, <2>3, <2>4, <2>5
  <1>15. CASE EnableNmi
    <2>1. TypeOK'
      BY <1>15 DEF EnableNmi, TypeOK, vars, swap, paint, irq, output
    <2>2. OwnerInv' /\ ContentInv' /\ ChainInv' /\ LightInv' /\ DacInv'
      BY <1>15 DEF EnableNmi, OwnerInv, ContentInv, ChainInv, OneActivation,
               LightInv, DacInv, OnLine, vars, swap, paint, irq, output
    <2> QED
      BY <2>1, <2>2
  <1>16. CASE EnableSwInt
    <2>1. TypeOK'
      BY <1>16 DEF EnableSwInt, TypeOK, vars, swap, paint, irq, output
    <2>2. OwnerInv' /\ ContentInv' /\ ChainInv' /\ LightInv' /\ DacInv'
      BY <1>16 DEF EnableSwInt, OwnerInv, ContentInv, ChainInv,
               OneActivation, LightInv, DacInv, OnLine, vars, swap, paint,
               irq, output
    <2> QED
      BY <2>1, <2>2
  <1>17. CASE NmiEnter
    <2>1. TypeOK'
      <3>1. int_ena' \in BOOLEAN /\ tx_rempty' \in BOOLEAN /\ sw_int' \in BOOLEAN
        BY <1>17 DEF NmiEnter, TypeOK, vars, irq
      <3> QED
        BY <1>17, <3>1 DEF NmiEnter, TypeOK, vars, swap, paint, irq, output
    <2>2. ChainInv'
      BY <1>17 DEF NmiEnter, ChainInv, OneActivation, TypeOK, vars, swap,
               paint, irq, output
    <2>3. LightInv'
      BY <1>17 DEF NmiEnter, LightInv, TypeOK, ChainInv, OneActivation,
               vars, swap, paint, irq, output
    <2>4. OwnerInv' /\ ContentInv' /\ DacInv'
      BY <1>17 DEF NmiEnter, OwnerInv, ContentInv, DacInv, OnLine, vars,
               swap, paint, irq, output
    <2> QED
      BY <2>1, <2>2, <2>3, <2>4
  <1>18. CASE NmiBlank
    <2>1. TypeOK'
      <3>1. z_blank' \in BOOLEAN
        BY <1>18 DEF NmiBlank, TypeOK, vars, irq
      <3> QED
        BY <1>18, <3>1 DEF NmiBlank, TypeOK, vars, swap, paint, irq, output
    <2>2. ChainInv'
      BY <1>18 DEF NmiBlank, ChainInv, OneActivation, TypeOK, vars, swap,
               paint, irq, output
    <2>3. LightInv'
      BY <1>18 DEF NmiBlank, LightInv, TypeOK, ChainInv, OneActivation,
               vars, swap, paint, irq, output
    <2>4. DacInv'
      BY <1>18 DEF NmiBlank, DacInv, OnLine, ContentInv, LightInv, ChainInv,
               OneActivation, vars, swap, paint, irq, output
    <2>5. OwnerInv' /\ ContentInv'
      BY <1>18 DEF NmiBlank, OwnerInv, ContentInv, vars, swap, paint, irq,
               output
    <2> QED
      BY <2>1, <2>2, <2>3, <2>4, <2>5
  <1>19. CASE SwIsr
    <2>1. TypeOK'
      <3>1. sw_int' \in BOOLEAN
        BY <1>19 DEF SwIsr, At, SwIntReset, TypeOK, vars, irq
      <3> QED
        BY <1>19, <3>1 DEF SwIsr, At, SwIntReset, TypeOK, vars, swap, paint, irq,
                 output
    <2>2. ChainInv'
      BY <1>19 DEF SwIsr, At, SwIntReset, ChainInv, OneActivation, TypeOK,
               vars, swap, paint, irq, output
    <2>3. LightInv'
      BY <1>19 DEF SwIsr, At, SwIntReset, LightInv, TypeOK, ChainInv,
               OneActivation, vars, swap, paint, irq, output
    <2>4. DacInv'
      BY <1>19 DEF SwIsr, At, SwIntReset, DacInv, OnLine, ContentInv,
               LightInv, ChainInv, OneActivation, vars, swap, paint, irq,
               output
    <2>5. OwnerInv' /\ ContentInv'
      BY <1>19 DEF SwIsr, At, SwIntReset, OwnerInv, ContentInv, vars, swap,
               paint, irq, output
    <2> QED
      BY <2>1, <2>2, <2>3, <2>4, <2>5
  <1>20. CASE DmaActivate
    <2>1. TypeOK'
      BY <1>20 DEF DmaActivate, Output, TypeOK, ContentInv, Picture, vars,
               swap, paint, irq, output
    <2>2. DacInv'
      BY <1>20 DEF DmaActivate, Output, DacInv, OnLine, ContentInv,
               LightInv, ChainInv, OneActivation, vars, swap, paint, irq,
               output
    <2>3. OwnerInv' /\ ContentInv' /\ ChainInv' /\ LightInv'
      BY <1>20 DEF DmaActivate, Output, OwnerInv, ContentInv, ChainInv,
               OneActivation, LightInv, vars, swap, paint, irq, output
    <2> QED
      BY <2>1, <2>2, <2>3
  <1>21. CASE DmaDrain
    <2>1. TypeOK'
      <3>1. tx_rempty' \in BOOLEAN
        BY <1>21 DEF DmaDrain, Output, TypeOK, vars, irq
      <3> QED
        BY <1>21, <3>1 DEF DmaDrain, Output, TypeOK, ContentInv, Picture, vars,
                 swap, paint, irq, output
    <2>2. DacInv'
      BY <1>21 DEF DmaDrain, Output, DacInv, OnLine, ContentInv, LightInv,
               ChainInv, OneActivation, vars, swap, paint, irq, output
    <2>3. OwnerInv' /\ ContentInv' /\ ChainInv' /\ LightInv'
      BY <1>21 DEF DmaDrain, Output, OwnerInv, ContentInv, ChainInv,
               OneActivation, LightInv, vars, swap, paint, irq, output
    <2> QED
      BY <2>1, <2>2, <2>3
  <1>22. CASE FifoEmpty
    <2>1. TypeOK'
      <3>1. tx_rempty' \in BOOLEAN
        BY <1>22 DEF FifoEmpty, TypeOK, vars, irq
      <3> QED
        BY <1>22, <3>1 DEF FifoEmpty, TypeOK, vars, swap, paint, irq, output
    <2>2. OwnerInv' /\ ContentInv' /\ ChainInv' /\ LightInv' /\ DacInv'
      BY <1>22 DEF FifoEmpty, OwnerInv, ContentInv, ChainInv, OneActivation,
               LightInv, DacInv, OnLine, vars, swap, paint, irq, output
    <2> QED
      BY <2>1, <2>2
  <1>23. CASE UNCHANGED vars
    BY <1>23 DEF vars, swap, paint, irq, output, TypeOK, OwnerInv, ContentInv, ChainInv,
                OneActivation, LightInv, DacInv, OnLine
  <1> QED
    BY <1>1, <1>2, <1>3, <1>4, <1>5, <1>6, <1>7, <1>8, <1>9, <1>10, <1>11,
       <1>12, <1>13, <1>14, <1>15, <1>16, <1>17, <1>18, <1>19, <1>20, <1>21,
       <1>22, <1>23
    DEF Next, Task, UpdateFrame, Interrupts, Hardware

\* Every reachable state, whatever the timing of the peripheral and whether
\* or not the DMA fails, satisfies the inductive invariant.
THEOREM InvariantHolds == Spec => []IInv
  BY InitIInv, StepIInv, PTL DEF Spec

(***************************************************************************)
(* What follows from it.                                                   *)
(***************************************************************************)

\* Every variable of the pipeline stays in its type; no picture is ever
\* indexed past its last part.
THEOREM TypeCorrect == Spec => []TypeOK
  BY InvariantHolds, PTL DEF IInv

\* select_next_picture and scopeclock_task pass the two buffers around
\* without losing or sharing one.
THEOREM OwnershipSafe == Spec => []OneOwner
  <1>1. IInv => OneOwner
    <2> SUFFICES ASSUME IInv, NEW b \in Buffers
                 PROVE  \E i \in 1..4 :
                          Owners[i] = b /\ \A j \in 1..4 \ {i} : Owners[j] # b
      BY DEF OneOwner
    <2>1. 1..4 = {1, 2, 3, 4}
      OBVIOUS
    <2>2. /\ current_display.tx_buffer \in Buffers
          /\ next_display # None => next_display.tx_buffer \in Buffers
          /\ canvas # None => canvas \in Buffers
          /\ pen # None => pen \in Buffers
      BY DEF IInv, TypeOK, Picture
    <2> QED
      BY <2>1, <2>2, ScopeclockAssumption
      DEF IInv, OwnerInv, Owners, NextBuffer, Buffers
  <1> QED
    BY <1>1, InvariantHolds, PTL

\* The task never draws into the buffer that the DMA reads.
THEOREM TearingFree == Spec => []NoTearing
  <1>1. IInv => NoTearing
    BY DEF IInv, ContentInv, NoTearing
  <1> QED
    BY <1>1, InvariantHolds, PTL

\* A panic on a DMA error cannot leave the beam on.
THEOREM DarkPanic == Spec => []PanicIsDark
  <1>1. IInv => PanicIsDark
    BY DEF IInv, LightInv, PanicIsDark
  <1> QED
    BY <1>1, InvariantHolds, PTL

\* update_frame is never entered twice, and never without a successor.
THEOREM SingleActivation == Spec => []OneActivation
  <1>1. IInv => OneActivation
    BY DEF IInv, ChainInv
  <1> QED
    BY <1>1, InvariantHolds, PTL

\* The DAC changes only what it shows while the Z blanking GPIO is set.
THEOREM DarkTravelHolds == Spec => DarkTravel
  <1>1. IInv /\ IInv' /\ [Next]_vars => [dac' # dac => z_blank]_vars
    <2> SUFFICES ASSUME IInv, IInv', [Next]_vars, dac' # dac
                 PROVE  z_blank
      OBVIOUS
    <2>1. DmaActivate \/ DmaDrain
      BY DEF Next, Task, TakeCanvas, NoCanvas, Draw, Publish, Wake,
             UpdateFrame, Enter, AdvancePart, SwapPicture, RepeatPicture,
             Preload, StartLine, LightBeam, ClearFlag, Arm, Panic,
             Interrupts, EnableNmi, EnableSwInt, NmiEnter, NmiBlank, SwIsr,
             Hardware, FifoEmpty, vars, output
    <2>2. z_blank' = z_blank /\ dac' = <<current_display.frame, current_display.current_part>>
      BY <2>1 DEF DmaActivate, DmaDrain, Output, IInv, ContentInv
    <2> QED
      BY <2>2 DEF IInv, DacInv, OnLine
  <1> QED
    BY <1>1, InvariantHolds, PTL DEF Spec, DarkTravel

(***************************************************************************)
(* With lines that outlast the arming of their interrupt, no interrupt is  *)
(* lost: the flag that int_clr clears has not been raised for this line.   *)
(***************************************************************************)
ArmInv ==
  /\ uf \in {"light", "clear", "arm"} => dma # "idle"
  /\ int_ena => tx_rempty \/ dma # "idle"

\* At the start.
LEMMA InitArmInv == Init => ArmInv
  BY DEF Init, ArmInv

\* The I2S interrupt is never armed for a line that is over already.
LEMMA StepArmInv ==
  ASSUME LineOutlastsArming
  PROVE  IInv /\ ArmInv /\ [Next]_vars => ArmInv'
  <1> SUFFICES ASSUME IInv, ArmInv, [Next]_vars
               PROVE  ArmInv'
    OBVIOUS
  <1> USE DEF ArmInv, vars, irq, output
  <1>1. CASE Task
    BY <1>1 DEF Task, TakeCanvas, NoCanvas, Draw, Publish, Wake
  <1>2. CASE Enter
    BY <1>2 DEF Enter, At, IInv, ChainInv, OneActivation
  <1>3. CASE AdvancePart \/ SwapPicture \/ RepeatPicture
    BY <1>3 DEF AdvancePart, SwapPicture, RepeatPicture, Preload
  <1>4. CASE StartLine \/ LightBeam
    BY <1>4 DEF StartLine, LightBeam, At
  <1>5. CASE ClearFlag \/ Arm
    BY <1>5 DEF ClearFlag, Arm, At
  <1>6. CASE Panic
    BY <1>6 DEF Panic
  <1>7. CASE Interrupts
    BY <1>7 DEF Interrupts, EnableNmi, EnableSwInt, NmiEnter, NmiBlank,
                SwIsr, At
  <1>8. CASE Hardware
    BY <1>8 DEF Hardware, DmaActivate, DmaDrain, FifoEmpty
  <1>9. CASE UNCHANGED vars
    BY <1>9
  <1> QED
    BY <1>1, <1>2, <1>3, <1>4, <1>5, <1>6, <1>7, <1>8, <1>9
    DEF Next, UpdateFrame

\* So it holds for ever.
LEMMA ArmInvHolds ==
  ASSUME LineOutlastsArming
  PROVE  Spec => []ArmInv
  BY InitArmInv, StepArmInv, InvariantHolds, PTL DEF Spec

\* A lit beam always has its blanking interrupt ahead.
THEOREM NeverStranded ==
  ASSUME LineOutlastsArming
  PROVE  Spec => []BeamNeverStranded
  <1>1. IInv /\ ArmInv => BeamNeverStranded
    BY DEF IInv, LightInv, ArmInv, BeamNeverStranded
  <1> QED
    BY <1>1, InvariantHolds, ArmInvHolds, PTL

(***************************************************************************)
(* The refinement: the vector monitor of ScopeDisplay is implemented, even *)
(* when DMA calls fail, if the DMA is up before delay_nanos(10) is over    *)
(* and no line ends before its interrupt is armed.                         *)
(***************************************************************************)
InTime == DelayCoversStart /\ LineOutlastsArming

(***************************************************************************)
(* What these assumptions add to IInv: an armed interrupt fires once, at   *)
(* the end of the line, and the handler that blanks then finds it traced.  *)
(***************************************************************************)
LineInv ==
  /\ uf \in {"clear", "arm"} => ~z_blank
  /\ uf = "arm" => dma = "running" /\ ~tx_rempty
  /\ int_ena /\ dma # "idle" => dma = "running" /\ ~tx_rempty
  /\ nmi = "blank" => dma = "idle"

\* At the start.
LEMMA InitLineInv == Init => LineInv
  BY DEF Init, LineInv

\* The interrupt of a line is armed while the line runs, and blanks it after
\* its last sample.
LEMMA StepLineInv ==
  ASSUME InTime
  PROVE  IInv /\ ArmInv /\ LineInv /\ [Next]_vars => LineInv'
  <1> SUFFICES ASSUME IInv, ArmInv, LineInv, [Next]_vars
               PROVE  LineInv'
    OBVIOUS
  <1> USE InTime DEF InTime, LineInv, vars, irq, output
  <1>1. CASE Task
    BY <1>1 DEF Task, TakeCanvas, NoCanvas, Draw, Publish, Wake
  <1>2. CASE Enter
    BY <1>2 DEF Enter, At, IInv, ChainInv, OneActivation
  <1>3. CASE AdvancePart \/ SwapPicture \/ RepeatPicture
    BY <1>3 DEF AdvancePart, SwapPicture, RepeatPicture, Preload, Reclaimed,
                At, IInv, ChainInv, OneActivation
  <1>4. CASE StartLine
    BY <1>4 DEF StartLine, At, IInv, ChainInv, OneActivation
  <1>5. CASE LightBeam
    BY <1>5 DEF LightBeam, At
  <1>6. CASE ClearFlag
    BY <1>6 DEF ClearFlag, At, ArmInv, IInv, TypeOK
  <1>7. CASE Arm
    BY <1>7 DEF Arm, At
  <1>8. CASE Panic
    BY <1>8 DEF Panic, IInv, ChainInv, OneActivation
  <1>9. CASE Interrupts
    BY <1>9 DEF Interrupts, EnableNmi, EnableSwInt, NmiEnter, NmiBlank,
                SwIsr, At, IInv, ChainInv, OneActivation
  <1>10. CASE Hardware
    BY <1>10 DEF Hardware, DmaActivate, DmaDrain, FifoEmpty, IInv, ChainInv,
                 OneActivation
  <1>11. CASE UNCHANGED vars
    BY <1>11
  <1> QED
    BY <1>1, <1>2, <1>3, <1>4, <1>5, <1>6, <1>7, <1>8, <1>9, <1>10, <1>11
    DEF Next, UpdateFrame

\* So it holds for ever.
LEMMA LineInvHolds ==
  ASSUME InTime
  PROVE  Spec => []LineInv
  BY InitLineInv, StepLineInv, InvariantHolds, ArmInvHolds, PTL DEF InTime, Spec

(***************************************************************************)
(* The mapping of the steps.                                               *)
(***************************************************************************)

\* The first call of update_frame finds two boot pictures and a dark beam.
LEMMA InitRefines == Init => Display!Init
  <1> SUFFICES ASSUME Init PROVE Display!Init
    OBVIOUS
  <1>1. next_display # None
    BY InitIInv, ScopeclockAssumption DEF Init, Picture, Buffers
  <1> QED
    BY <1>1 DEF Init, Display!Init, Beam

\* Every step of the pipeline is a step of the monitor, or none.
LEMMA StepRefines ==
  ASSUME InTime
  PROVE  IInv /\ IInv' /\ ArmInv /\ LineInv /\ [Next]_vars => [Display!Next]_(Display!vars)
  <1> SUFFICES ASSUME IInv, IInv', ArmInv, LineInv, [Next]_vars
               PROVE  Display!Next \/ UNCHANGED Display!vars
    OBVIOUS
  <1> USE DEF vars, swap, paint, irq, output
  <1>1. CASE TakeCanvas
    <2>1. pen = None /\ pen' # None /\ next_display = None
      BY <1>1 DEF TakeCanvas, IInv, OwnerInv
    <2>2. Beam' = Beam
      BY <1>1 DEF TakeCanvas, Beam
    <2>3. Display!StartFrame
      BY <1>1, <2>1, <2>2 DEF TakeCanvas, Display!StartFrame
    <2> QED
      BY <2>3 DEF Display!Next, Display!PainterStep
  <1>2. CASE NoCanvas \/ Draw \/ Wake
    <2>1. Beam' = Beam
      BY <1>2 DEF NoCanvas, Draw, Wake, Beam
    <2> QED
      BY <1>2, <2>1 DEF NoCanvas, Draw, Wake, Display!vars
  <1>3. CASE Publish
    <2>1. pen # None /\ pen' = None /\ mem[pen] \in Frames
      BY <1>3 DEF Publish, IInv, OwnerInv, ContentInv
    <2>2. next_display' # None
      BY <1>3, <2>1, ScopeclockAssumption DEF Publish, IInv, TypeOK, Picture
    <2>3. Beam' = Beam
      BY <1>3 DEF Publish, Beam
    <2>4. Display!FinishFrame
      BY <1>3, <2>1, <2>2, <2>3 DEF Publish, Display!FinishFrame
    <2> QED
      BY <2>4 DEF Display!Next, Display!PainterStep
  <1>4. CASE Enter \/ ClearFlag \/ Arm \/ StartLine
    <2>1. Beam' = Beam
      BY <1>4 DEF Enter, ClearFlag, Arm, StartLine, At, Beam, IInv, LightInv, ArmInv, LineInv
    <2> QED
      BY <1>4, <2>1 DEF Enter, ClearFlag, Arm, StartLine, Display!vars
  <1>5. CASE AdvancePart \/ SwapPicture \/ RepeatPicture
    <2>1. /\ Beam = "dark" /\ Beam' = "aimed"
          /\ pen' = pen
      BY <1>5 DEF AdvancePart, SwapPicture, RepeatPicture, Preload, Reclaimed,
                  At, Beam, IInv, LightInv
    <2>2. /\ current_display.current_part \in Nat
          /\ current_display.current_part <= Parts[current_display.frame]
          /\ current_display.frame \in Frames
          /\ Parts[current_display.frame] \in Nat
      BY ScopeclockAssumption DEF IInv, TypeOK, Picture
    <2>3. CASE AdvancePart
      <3>1. Display!NextLine
        BY <2>1, <2>2, <2>3 DEF AdvancePart, Preload, AtPart, AllPartsDrawn, Display!NextLine
      <3> QED
        BY <3>1 DEF Display!Next, Display!BeamStep
    <2>4. CASE SwapPicture
      <3>1. next_display # None /\ next_display.frame \in Frames
        BY <2>4 DEF SwapPicture, HasNext, IInv, TypeOK, Picture
      <3>2. Display!Flip
        BY <2>1, <2>2, <2>4, <3>1, ScopeclockAssumption
        DEF SwapPicture, Preload, AtPart, AllPartsDrawn, Display!Flip
      <3> QED
        BY <3>2 DEF Display!Next, Display!BeamStep
    <2>5. CASE RepeatPicture
      <3>1. Display!Repeat
        BY <2>1, <2>2, <2>5 DEF RepeatPicture, Preload, AtPart, AllPartsDrawn, HasNext, Display!Repeat
      <3> QED
        BY <3>1 DEF Display!Next, Display!BeamStep
    <2> QED
      BY <1>5, <2>3, <2>4, <2>5
  <1>6. CASE LightBeam
    <2>1. Display!Light
      BY <1>6 DEF LightBeam, At, Beam, Display!Light
    <2> QED
      BY <2>1 DEF Display!Next, Display!BeamStep
  <1>7. CASE Panic
    <2>1. Beam \in {"dark", "aimed"} /\ Beam' = "failed"
      BY <1>7 DEF Panic, Beam, IInv, LightInv
    <2>2. Display!Fail
      BY <1>7, <2>1 DEF Panic, Display!Fail
    <2> QED
      BY <2>2 DEF Display!Next, Display!BeamStep
  <1>8. CASE EnableNmi \/ EnableSwInt \/ NmiEnter
    <2>1. Beam' = Beam
      BY <1>8 DEF EnableNmi, EnableSwInt, NmiEnter, Beam
    <2> QED
      BY <1>8, <2>1 DEF EnableNmi, EnableSwInt, NmiEnter, Display!vars
  <1>9. CASE NmiBlank
    <2>1. uf = "off" /\ dma = "idle"
      BY <1>9 DEF NmiBlank, LineInv, IInv, ChainInv, OneActivation
    <2>2. CASE z_blank
      BY <1>9, <2>1, <2>2 DEF NmiBlank, Beam, Display!vars
    <2>3. CASE ~z_blank
      <3>1. Display!Extinguish
        BY <1>9, <2>1, <2>3 DEF NmiBlank, Beam, Display!Extinguish
      <3> QED
        BY <3>1 DEF Display!Next, Display!BeamStep
    <2> QED
      BY <2>2, <2>3
  <1>10. CASE SwIsr
    <2>1. Beam' = Beam
      BY <1>10 DEF SwIsr, At, Beam, IInv, LightInv, ChainInv, OneActivation
    <2> QED
      BY <1>10, <2>1 DEF SwIsr, Display!vars
  <1>11. CASE DmaDrain
    <2>1. uf \notin {"light", "clear", "arm"}
      BY <1>11 DEF DmaDrain, InTime
    <2>2. CASE uf # "settle" /\ ~z_blank
      <3>1. Display!Trace
        BY <1>11, <2>1, <2>2 DEF DmaDrain, Beam, Display!Trace
      <3> QED
        BY <3>1 DEF Display!Next, Display!BeamStep
    <2>3. CASE uf = "settle" \/ z_blank
      <3>1. Beam' = Beam
        BY <1>11, <2>1, <2>3 DEF DmaDrain, Beam
      <3> QED
        BY <1>11, <3>1 DEF DmaDrain, Display!vars
    <2> QED
      BY <2>2, <2>3
  <1>12. CASE DmaActivate \/ FifoEmpty
    <2>1. Beam' = Beam
      BY <1>12 DEF DmaActivate, FifoEmpty, Beam
    <2> QED
      BY <1>12, <2>1 DEF DmaActivate, FifoEmpty, Display!vars
  <1>13. CASE UNCHANGED vars
    BY <1>13 DEF Beam, Display!vars
  <1> QED
    BY <1>1, <1>2, <1>3, <1>4, <1>5, <1>6, <1>7, <1>8, <1>9, <1>10, <1>11, <1>12, <1>13
    DEF Next, Task, UpdateFrame, Interrupts, Hardware

\* The lines of every frame are drawn in order and in full, with the beam
\* lit on them and dark between them; a new frame takes over only after the
\* last line of the old one and no finished frame is skipped.
THEOREM Refinement ==
  ASSUME InTime
  PROVE  Spec => ImplementsDisplay
  <1>1. Init => Display!Init
    BY InitRefines
  <1>2. IInv /\ IInv' /\ ArmInv /\ LineInv /\ [Next]_vars => [Display!Next]_(Display!vars)
    BY StepRefines
  <1> QED
    BY <1>1, <1>2, InvariantHolds, ArmInvHolds, LineInvHolds, PTL
    DEF InTime, Spec, ImplementsDisplay, Display!SafetySpec
=============================================================================
