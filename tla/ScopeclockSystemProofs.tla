------------------------ MODULE ScopeclockSystemProofs ------------------------
(***************************************************************************)
(* The invariants of Picture and of Scopeclock hold in their composition,  *)
(* and together they say what the beam draws.                              *)
(***************************************************************************)
EXTENDS ScopeclockSystem, TLAPS

BP == INSTANCE PictureProofs
PP == INSTANCE ScopeclockProofs WITH
  mem <- Mem, pen <- held,
  Parts <- [f \in Frames |-> Len(Face) + Len(Hands[f])]

(***************************************************************************)
(* The theorems of the two components apply: their assumptions on the      *)
(* constants hold, and the instances that carry them mean the same steps.  *)
(***************************************************************************)
\* Picture's and Scopeclock's assumptions.
LEMMA Assumptions == BP!PictureAssumption /\ PP!ScopeclockAssumption
  <1>1. BP!PictureAssumption
    BY SystemAssumption DEF BP!PictureAssumption, BP!Stroke, BP!Buffers
  <1>2. PP!ScopeclockAssumption
    <2>1. [f \in Frames |-> Len(Face) + Len(Hands[f])] \in [Frames -> Nat \ {0}]
      BY SystemAssumption
    <2>2. None \notin PP!Picture
      BY SystemAssumption DEF Pipeline!Picture, PP!Picture, Pipeline!Buffers, PP!Buffers
    <2> QED
      BY <2>1, <2>2, SystemAssumption DEF PP!ScopeclockAssumption, PP!Buffers
  <1> QED
    BY <1>1, <1>2

\* The builder's steps.
LEMMA SameBuilder == Builder!Next <=> BP!Next
  BY Zenon DEF BP!Next, Builder!Next, BP!PrepareStaticPart, Builder!PrepareStaticPart,
     BP!Buffers, Builder!Buffers, BP!DrawDynamicPart, Builder!DrawDynamicPart,
     BP!Idle, Builder!Idle, BP!BehindStaticPart, Builder!BehindStaticPart,
     BP!AddStroke, Builder!AddStroke, BP!Overflow, Builder!Overflow,
     BP!KeepStaticPart, Builder!KeepStaticPart, BP!FinishPicture, Builder!FinishPicture,
     BP!Drawing, Builder!Drawing, BP!Complete, Builder!Complete, BP!Strokes, Builder!Strokes,
     BP!NextStroke, Builder!NextStroke, BP!Written, Builder!Written, BP!PartOf, Builder!PartOf,
     BP!AfterStage, Builder!AfterStage, BP!pic, Builder!pic

\* The pipeline's steps.
LEMMA SamePipeline == Pipeline!Next <=> PP!Next
  BY Zenon DEF Pipeline!Next, PP!Next, Pipeline!Task, PP!Task,
     Pipeline!TakeCanvas, PP!TakeCanvas, Pipeline!NoCanvas, PP!NoCanvas, Pipeline!Draw, PP!Draw,
     Pipeline!Publish, PP!Publish, Pipeline!Wake, PP!Wake, Pipeline!TaskRuns, PP!TaskRuns,
     Pipeline!UpdateFrame, PP!UpdateFrame, Pipeline!Enter, PP!Enter, Pipeline!At, PP!At,
     Pipeline!AdvancePart, PP!AdvancePart, Pipeline!SwapPicture, PP!SwapPicture,
     Pipeline!RepeatPicture, PP!RepeatPicture, Pipeline!Preload, PP!Preload,
     Pipeline!SliceOf, PP!SliceOf, Pipeline!AtPart, PP!AtPart, Pipeline!Reclaimed, PP!Reclaimed,
     Pipeline!AllPartsDrawn, PP!AllPartsDrawn, Pipeline!HasNext, PP!HasNext,
     Pipeline!FreedBuffer, PP!FreedBuffer, Pipeline!StartLine, PP!StartLine,
     Pipeline!LightBeam, PP!LightBeam, Pipeline!ClearFlag, PP!ClearFlag, Pipeline!Arm, PP!Arm,
     Pipeline!Armed, PP!Armed, Pipeline!Panic, PP!Panic, Pipeline!Interrupts, PP!Interrupts,
     Pipeline!EnableNmi, PP!EnableNmi, Pipeline!EnableSwInt, PP!EnableSwInt,
     Pipeline!NmiEnter, PP!NmiEnter, Pipeline!NmiBlank, PP!NmiBlank, Pipeline!SwIsr, PP!SwIsr,
     Pipeline!SwIntReset, PP!SwIntReset, Pipeline!Hardware, PP!Hardware,
     Pipeline!DmaActivate, PP!DmaActivate, Pipeline!DmaDrain, PP!DmaDrain,
     Pipeline!FifoEmpty, PP!FifoEmpty, Pipeline!Output, PP!Output,
     Pipeline!swap, PP!swap, Pipeline!paint, PP!paint, Pipeline!irq, PP!irq,
     Pipeline!output, PP!output, Pipeline!vars, PP!vars

(***************************************************************************)
(* What relates the two.                                                   *)
(***************************************************************************)

\* Until both pictures are drawn the pipeline is at its start, and each
\* finished picture shows no time.
StartInv ==
  /\ stage \in {"face1", "face2", "hands1", "hands2"}
  /\ dma = "idle" /\ uf = "enter"
  /\ stage \in {"face1", "face2"} => (pen # None => frame = None)
  /\ stage = "hands1" => (pen # None => pen = TxBuffer1 /\ frame = BootFrame)
  /\ stage = "hands2" =>
       /\ pictures[TxBuffer1] # None /\ pictures[TxBuffer1].frame = BootFrame
       /\ pen # None => pen = TxBuffer2 /\ frame = BootFrame

\* A part is only sent when parts.get() has found one.
LineInv == dma # "idle" \/ uf = "settle" => tx_slice.current_part >= 1

LinkInv == (~Running => StartInv) /\ LineInv
SystemInv == BP!IInv /\ PP!IInv /\ LinkInv

\* UNCHANGED of one component's variables.
LEMMA BuilderVars == builder' = builder => UNCHANGED BP!vars
  BY DEF builder, BP!vars, BP!pic

\* The pipeline sees a builder's step only by what Mem makes of it.
LEMMA PipelineVars == pipeline' = pipeline /\ Mem' = Mem => UNCHANGED PP!vars
  BY DEF pipeline, PP!vars, PP!swap, PP!paint, PP!irq, PP!output

\* The two components start together.
LEMMA InitSystemInv == Init => SystemInv
  <1> SUFFICES ASSUME Init PROVE SystemInv
    OBVIOUS
  <1>1. BP!IInv
    <2>1. BP!Init
      BY DEF Init, Builder!Init, BP!Init, Builder!Buffers, BP!Buffers
    <2> QED
      BY <2>1, BP!InitIInv, Assumptions DEF BP!InitIInv
  <1>2. PP!IInv
    <2>1. PP!Init
      BY Zenon DEF Init, Pipeline!Init, PP!Init, Pipeline!Buffers, PP!Buffers
    <2> QED
      BY <2>1, PP!InitIInv, Assumptions DEF PP!InitIInv
  <1>3. LinkInv
    BY DEF Init, Builder!Init, Pipeline!Init, LinkInv, StartInv, LineInv, Running
  <1> QED
    BY <1>1, <1>2, <1>3 DEF SystemInv

\* During scopeclock_init the pipeline sees no change.
LEMMA StartUpStep == SystemInv /\ StartUp => (~Running => StartInv)' /\ Mem' = Mem
  <1> SUFFICES ASSUME SystemInv, StartUp
               PROVE  (~Running => StartInv)' /\ Mem' = Mem
    OBVIOUS
  <1> USE SystemAssumption DEF Builder!Buffers
  <1>0. /\ StartInv /\ Builder!Next /\ UNCHANGED pipeline /\ stage # "task"
        /\ pictures \in [Builder!Buffers -> BP!FinishedPicture \union {None}]
    BY DEF SystemInv, LinkInv, StartUp, Running, BP!IInv, BP!TypeOK, BP!Buffers
  <1>1. dma' = "idle" /\ uf' = "enter"
    BY <1>0 DEF StartInv, pipeline
  <1>2. CASE \E b \in Builder!Buffers : Builder!PrepareStaticPart(b)
    BY <1>0, <1>1, <1>2 DEF StartInv, Running, Mem, Builder!PrepareStaticPart
  <1>3. CASE \E b \in Builder!Buffers, f \in Frames : Builder!DrawDynamicPart(b, f)
    BY <1>0, <1>1, <1>3 DEF StartInv, Running, Mem, Builder!DrawDynamicPart, Builder!Idle
  <1>4. CASE Builder!AddStroke \/ Builder!Overflow
    BY <1>0, <1>1, <1>4 DEF StartInv, Running, Mem, Builder!AddStroke, Builder!Overflow, Builder!pic
  <1>5. CASE Builder!KeepStaticPart
    BY <1>0, <1>1, <1>5 DEF StartInv, Running, Mem, Builder!KeepStaticPart, Builder!AfterStage,
       Builder!Complete
  <1>6. CASE Builder!FinishPicture
    <2> DEFINE new == [frame |-> frame, out_index |-> out_index + 1, parts |-> parts]
    <2>1. /\ pen # None /\ frame # None /\ stage' = Builder!AfterStage
          /\ pictures' = [pictures EXCEPT ![pen] = new]
      BY <1>6 DEF Builder!FinishPicture, Builder!Complete
    <2>2. stage \in {"hands1", "hands2"} /\ frame = BootFrame /\ pen \in Builder!Buffers
      BY <1>0, <2>1 DEF StartInv
    <2>3. new # None /\ new.frame = BootFrame
      <3>1. out_index + 1 \in Nat /\ parts \in Seq(Builder!Part)
        BY DEF SystemInv, BP!IInv, BP!TypeOK, BP!Part, Builder!Part
      <3>2. new \in Builder!FinishedPicture
        BY <2>2, <3>1 DEF Builder!FinishedPicture
      <3> QED
        BY <2>2, <3>2
    <2> HIDE DEF new
    <2>4. pictures'[pen] = new /\ (pen # TxBuffer1 => pictures'[TxBuffer1] = pictures[TxBuffer1])
      BY <1>0, <2>1, <2>2
    <2>5. CASE stage = "hands1"
      <3>1. stage' = "hands2" /\ pen = TxBuffer1 /\ pen' = None
        BY <1>0, <1>6, <2>1, <2>5 DEF StartInv, Builder!AfterStage, Builder!FinishPicture
      <3>2. StartInv'
        BY <1>1, <2>3, <2>4, <3>1 DEF StartInv
      <3> QED
        BY <2>5, <3>1, <3>2 DEF Mem
    <2>6. CASE stage = "hands2"
      <3>1. stage' = "task" /\ pen = TxBuffer2
        BY <1>0, <2>1, <2>6 DEF StartInv, Builder!AfterStage
      <3>2. \A b \in {TxBuffer1, TxBuffer2} : pictures'[b] # None /\ pictures'[b].frame = BootFrame
        BY <1>0, <2>3, <2>4, <2>6, <3>1 DEF StartInv
      <3> QED
        BY <2>6, <3>1, <3>2 DEF Mem, Running
    <2> QED
      BY <2>2, <2>5, <2>6
  <1> QED
    BY <1>0, <1>2, <1>3, <1>4, <1>5, <1>6 DEF Builder!Next

\* A step of the system is a step of each component, or leaves it alone.
LEMMA StepsMap ==
  SystemInv /\ [Next]_vars => [BP!Next]_(BP!vars) /\ [PP!Next]_(PP!vars)
  <1> SUFFICES ASSUME SystemInv, [Next]_vars
               PROVE  [BP!Next]_(BP!vars) /\ [PP!Next]_(PP!vars)
    OBVIOUS
  <1>1. CASE StartUp
    BY <1>1, StartUpStep, SameBuilder, PipelineVars DEF StartUp
  <1>2. CASE BeginPicture
    <2>1. canvas \in Builder!Buffers
      BY <1>2 DEF BeginPicture, SystemInv, PP!IInv, PP!TypeOK, PP!Buffers, Builder!Buffers
    <2>2. Builder!Next
      BY <1>2, <2>1 DEF BeginPicture, Builder!Next
    <2>3. Pipeline!Next
      BY <1>2 DEF BeginPicture, Pipeline!Next, Pipeline!Task
    <2> QED
      BY <2>2, <2>3, SameBuilder, SamePipeline
  <1>3. CASE DrawStroke
    <2>1. Builder!Next
      BY <1>3 DEF DrawStroke, Builder!Next
    <2>2. pictures' = pictures /\ stage' = stage /\ pipeline' = pipeline
      BY <1>3 DEF DrawStroke, Builder!AddStroke, Builder!Overflow
    <2>3. Mem' = Mem
      BY <2>2 DEF Mem
    <2> QED
      BY <2>1, <2>2, <2>3, SameBuilder, PipelineVars
  <1>4. CASE EndPicture
    <2>1. Builder!Next /\ Pipeline!Next
      BY <1>4 DEF EndPicture, Builder!Next, Pipeline!Next, Pipeline!Task
    <2> QED
      BY <2>1, SameBuilder, SamePipeline
  <1>5. CASE Elsewhere
    <2>1. Pipeline!Next /\ builder' = builder
      BY <1>5 DEF Elsewhere, Pipeline!Next, Pipeline!Task
    <2> QED
      BY <2>1, SamePipeline, BuilderVars
  <1>6. CASE UNCHANGED vars
    <2>1. builder' = builder /\ pipeline' = pipeline
      BY <1>6 DEF vars
    <2>2. Mem' = Mem
      BY <2>1 DEF builder, Mem
    <2> QED
      BY <2>1, <2>2, BuilderVars, PipelineVars
  <1> QED
    BY <1>1, <1>2, <1>3, <1>4, <1>5, <1>6 DEF Next

\* The pipeline sends only parts that exist.
LEMMA LineStep == SystemInv /\ [PP!Next]_(PP!vars) => LineInv'
  <1> SUFFICES ASSUME SystemInv, [PP!Next]_(PP!vars)
               PROVE  LineInv'
    OBVIOUS
  <1> USE DEF PP!swap, PP!paint, PP!irq, PP!output
  <1>0. LineInv /\ current_display.current_part \in Nat
    BY DEF SystemInv, LinkInv, PP!IInv, PP!TypeOK, PP!Picture
  <1>1. CASE PP!Task
    BY <1>0, <1>1 DEF LineInv, PP!Task, PP!TakeCanvas, PP!NoCanvas, PP!Draw, PP!Publish, PP!Wake
  <1>2. CASE PP!AdvancePart \/ PP!SwapPicture \/ PP!RepeatPicture
    BY <1>0, <1>2 DEF LineInv, PP!AdvancePart, PP!SwapPicture, PP!RepeatPicture, PP!Preload,
       PP!SliceOf, PP!AtPart
  <1>3. CASE PP!Enter \/ PP!StartLine \/ PP!LightBeam \/ PP!ClearFlag \/ PP!Arm \/ PP!Panic
    BY <1>0, <1>3 DEF LineInv, PP!Enter, PP!StartLine, PP!LightBeam, PP!ClearFlag, PP!Arm,
       PP!Panic, PP!At
  <1>4. CASE PP!Interrupts
    BY <1>0, <1>4 DEF LineInv, PP!Interrupts, PP!EnableNmi, PP!EnableSwInt, PP!NmiEnter,
       PP!NmiBlank, PP!SwIsr
  <1>5. CASE PP!Hardware
    BY <1>0, <1>5 DEF LineInv, PP!Hardware, PP!DmaActivate, PP!DmaDrain, PP!FifoEmpty
  <1>6. CASE UNCHANGED PP!vars
    BY <1>0, <1>6 DEF LineInv, PP!vars
  <1> QED
    BY <1>1, <1>2, <1>3, <1>4, <1>5, <1>6 DEF PP!Next, PP!UpdateFrame

\* Once "task" is reached the start-up is over for good.
LEMMA RunningStays == Running /\ [Next]_vars => Running'
  BY DEF Running, Next, vars, builder, StartUp, BeginPicture, DrawStroke, EndPicture, Elsewhere,
     Builder!DrawDynamicPart, Builder!AddStroke, Builder!Overflow, Builder!FinishPicture,
     Builder!AfterStage

\* Every step keeps the invariants of both and their relation.
LEMMA StepSystemInv == SystemInv /\ [Next]_vars => SystemInv'
  <1> SUFFICES ASSUME SystemInv, [Next]_vars
               PROVE  SystemInv'
    OBVIOUS
  <1>0. [BP!Next]_(BP!vars) /\ [PP!Next]_(PP!vars)
    BY StepsMap
  <1>1. BP!IInv'
    BY <1>0, BP!StepIInv, Assumptions DEF BP!StepIInv, SystemInv
  <1>2. PP!IInv'
    BY <1>0, PP!StepIInv, Assumptions DEF PP!StepIInv, SystemInv
  <1>3. LineInv'
    BY <1>0, LineStep
  <1>4. (~Running => StartInv)'
    <2>1. CASE StartUp
      BY <2>1, StartUpStep
    <2>2. CASE UNCHANGED vars
      BY <2>2 DEF SystemInv, LinkInv, Running, StartInv, vars, builder, pipeline
    <2>3. CASE Running
      BY <2>3, RunningStays
    <2> QED
      BY <2>1, <2>2, <2>3 DEF Next, BeginPicture, DrawStroke, EndPicture, Elsewhere
  <1> QED
    BY <1>1, <1>2, <1>3, <1>4 DEF SystemInv, LinkInv

(***************************************************************************)
(* The theorems.                                                           *)
(***************************************************************************)
\* The invariant.
THEOREM InvariantHolds == Spec => []SystemInv
  BY InitSystemInv, StepSystemInv, PTL DEF Spec

\* The types of both components' variables.
THEOREM TypeCorrect == Spec => []TypeOK
  <1>1. SystemInv => TypeOK
    BY Zenon DEF SystemInv, BP!IInv, PP!IInv, TypeOK, BP!TypeOK, Builder!TypeOK, PP!TypeOK,
       Pipeline!TypeOK, BP!Buffers, Builder!Buffers, PP!Buffers, Pipeline!Buffers,
       BP!StaticPartMeta, Builder!StaticPartMeta, BP!FinishedPicture, Builder!FinishedPicture,
       BP!Part, Builder!Part, PP!Picture, Pipeline!Picture
  <1> QED
    BY <1>1, InvariantHolds, PTL

\* A panic on a DMA error leaves the beam dark here as well.
THEOREM DarkPanic == Spec => []PanicIsDark
  <1>1. SystemInv => PanicIsDark
    BY DEF SystemInv, PP!IInv, PP!LightInv, PanicIsDark, Pipeline!PanicIsDark
  <1> QED
    BY <1>1, InvariantHolds, PTL

\* Whatever is redrawn meanwhile, the DMA reads exactly the samples of the
\* stroke that is due, from the picture on the screen.
THEOREM StrokesOnScreen == Spec => []BeamDrawsStrokes
  <1>1. SystemInv => BeamDrawsStrokes
    <2> SUFFICES ASSUME SystemInv, dma # "idle"
                 PROVE  LET shown == pictures[tx_slice.tx_buffer]
                            n     == tx_slice.current_part
                        IN /\ shown # None
                           /\ n \in DOMAIN shown.parts
                           /\ Builder!Slice(tx_buffer[tx_slice.tx_buffer], shown.parts[n])
                                = Builder!Total(current_display.frame)[n]
      BY DEF BeamDrawsStrokes
    <2> DEFINE b == current_display.tx_buffer
               f == current_display.frame
               n == current_display.current_part
    <2>1. /\ stage = "task" /\ tx_slice = current_display /\ n >= 1 /\ n \in Nat
          /\ Mem[b] = f /\ b \in BP!Buffers /\ f \in Frames
          /\ n <= [g \in Frames |-> Len(Face) + Len(Hands[g])][f]
      BY DEF SystemInv, LinkInv, StartInv, LineInv, Running, PP!IInv, PP!TypeOK, PP!ContentInv,
         PP!Picture, PP!Buffers, BP!Buffers
    <2>2. pictures[b] # None /\ pictures[b].frame = f /\ f # None
      BY <2>1, SystemAssumption DEF Mem, BP!Buffers
    <2>3. /\ pictures[b].parts \in Seq(BP!Part)
          /\ Len(pictures[b].parts) = Len(BP!Total(f))
          /\ \A i \in DOMAIN pictures[b].parts :
               BP!Slice(tx_buffer[b], pictures[b].parts[i]) = BP!Total(f)[i]
      <3>1. BP!PartsHoldStrokes
        BY BP!HeldByInvariant, Assumptions DEF BP!HeldByInvariant, SystemInv
      <3>2. pictures[b] \in BP!FinishedPicture
        BY <2>1, <2>2 DEF SystemInv, BP!IInv, BP!TypeOK
      <3> QED
        BY <2>1, <2>2, <3>1, <3>2 DEF BP!PartsHoldStrokes, BP!FinishedPicture
    <2>4. Len(BP!Total(f)) = Len(Face) + Len(Hands[f])
      BY <2>1, SystemAssumption DEF BP!Total
    <2>5. n \in DOMAIN pictures[b].parts
      BY <2>1, <2>3, <2>4
    <2>6. BP!Slice(tx_buffer[b], pictures[b].parts[n]) = BP!Total(f)[n]
      BY <2>3, <2>5
    <2>7. Builder!Slice(tx_buffer[b], pictures[b].parts[n]) = Builder!Total(f)[n]
      BY <2>6, Zenon DEF BP!Slice, Builder!Slice, BP!Total, Builder!Total
    <2> QED
      BY <2>1, <2>2, <2>5, <2>7
  <1> QED
    BY <1>1, InvariantHolds, PTL

\* Stroke by stroke the builder keeps to the protocol that Scopeclock takes
\* for granted: a taken buffer is half drawn until its picture is finished,
\* and nothing else ever changes what a buffer holds.
THEOREM PipelineImplemented == Spec => ImplementsPipeline
  <1>1. SystemInv /\ [Next]_vars => [Pipeline!Next]_(Pipeline!vars)
    <2>1. UNCHANGED PP!vars => UNCHANGED Pipeline!vars
      BY DEF PP!vars, PP!swap, PP!paint, PP!irq, PP!output,
         Pipeline!vars, Pipeline!swap, Pipeline!paint, Pipeline!irq, Pipeline!output
    <2> QED
      BY <2>1, StepsMap, SamePipeline
  <1>2. Init => Pipeline!Init
    BY DEF Init
  <1> QED
    BY <1>1, <1>2, InvariantHolds, PTL DEF Spec, ImplementsPipeline
\* Stroke by stroke, with both buffers redrawn behind the static part for
\* ever: the program panics in add_raw_point only for a picture that would
\* not fit into an empty buffer.
THEOREM OnlyTooLargeOverflows == Spec => []Builder!NeverOverflows
  <1>1. Init => BP!NeverOverflows
    BY DEF Init, Builder!Init, BP!NeverOverflows
  <1>2. SystemInv /\ BP!NeverOverflows /\ [Next]_vars => BP!NeverOverflows'
    BY StepsMap, BP!StepNeverOverflows, Assumptions DEF BP!StepNeverOverflows, SystemInv
  <1>3. BP!NeverOverflows => Builder!NeverOverflows
    BY Zenon DEF BP!NeverOverflows, Builder!NeverOverflows, BP!Fits, Builder!Fits,
       BP!Ends, Builder!Ends, BP!Total, Builder!Total
  <1> QED
    BY <1>1, <1>2, <1>3, InvariantHolds, PTL DEF Spec

\* The whole program, from the strokes to the beam, is the vector monitor:
\* under the timing assumptions the refinement of Scopeclock goes through
\* with the task's one drawing step replaced by the builder's strokes.
THEOREM DisplayImplemented ==
  ASSUME DelayCoversStart, LineOutlastsArming
  PROVE  Spec => Pipeline!ImplementsDisplay
  <1>1. PP!InTime
    BY DEF PP!InTime
  <1>2. Init => PP!ArmInv /\ PP!LineInv /\ PP!Display!Init
    <2> SUFFICES ASSUME Init PROVE PP!ArmInv /\ PP!LineInv /\ PP!Display!Init
      OBVIOUS
    <2>1. PP!Init
      BY Zenon DEF Init, Pipeline!Init, PP!Init, Pipeline!Buffers, PP!Buffers
    <2> QED
      BY <2>1, PP!InitArmInv, PP!InitLineInv, PP!InitRefines, Assumptions
      DEF PP!InitArmInv, PP!InitLineInv, PP!InitRefines
  <1>3. SystemInv /\ PP!ArmInv /\ PP!LineInv /\ [Next]_vars => PP!ArmInv' /\ PP!LineInv'
    BY <1>1, StepsMap, PP!StepArmInv, PP!StepLineInv, Assumptions
    DEF PP!StepArmInv, PP!StepLineInv, SystemInv
  <1>4. SystemInv /\ SystemInv' /\ PP!ArmInv /\ PP!LineInv /\ [Next]_vars
          => [PP!Display!Next]_(PP!Display!vars)
    BY <1>1, StepsMap, PP!StepRefines, Assumptions DEF PP!StepRefines, SystemInv
  <1>5. PP!Beam = Pipeline!Beam /\ PP!Beam' = Pipeline!Beam'
    BY Zenon DEF PP!Beam, Pipeline!Beam
  <1>6. PP!Display!Init => Pipeline!Display!Init
    BY <1>5 DEF PP!Display!Init, Pipeline!Display!Init
  <1>7. [PP!Display!Next]_(PP!Display!vars) => [Pipeline!Display!Next]_(Pipeline!Display!vars)
    BY <1>5 DEF PP!Display!NextLine, Pipeline!Display!NextLine, PP!Display!Repeat,
         Pipeline!Display!Repeat, PP!Display!Flip, Pipeline!Display!Flip, PP!Display!Light,
         Pipeline!Display!Light, PP!Display!Trace, Pipeline!Display!Trace,
         PP!Display!Extinguish, Pipeline!Display!Extinguish, PP!Display!Fail,
         Pipeline!Display!Fail, PP!Display!BeamStep, Pipeline!Display!BeamStep,
         PP!Display!StartFrame, Pipeline!Display!StartFrame, PP!Display!FinishFrame,
         Pipeline!Display!FinishFrame, PP!Display!PainterStep, Pipeline!Display!PainterStep,
         PP!Display!Next, Pipeline!Display!Next, PP!Display!vars, Pipeline!Display!vars
  <1> QED
    BY <1>2, <1>3, <1>4, <1>6, <1>7, InvariantHolds, PTL
    DEF Spec, Pipeline!ImplementsDisplay, Pipeline!Display!SafetySpec
===============================================================================
