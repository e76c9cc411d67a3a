------------------------------- MODULE Picture -------------------------------
(***************************************************************************)
(* The picture builder of src/src/picture.rs as the clock face of          *)
(* src/src/analog_clock_face.rs uses it: the static part is drawn once     *)
(* into each of the two DMA buffers, and from then on every picture is     *)
(* drawn behind it, in the buffer that holds it already.                   *)
(*                                                                         *)
(* A buffer is an array of samples of 4 bytes each; out_index and the      *)
(* parts count samples.  Everything here runs in scopeclock_init and in    *)
(* scopeclock_task; the steps are the strokes, one part each.              *)
(***************************************************************************)
EXTENDS Naturals, Sequences

CONSTANTS
  TxBuffer1, TxBuffer2,  \* the two DMA buffers ...
  Capacity,              \* ... and how many samples fit into one
  Samples, RestPoint,    \* what add_raw_point writes; the point (0, 0)
  Face,                  \* the strokes of draw_static_clock_face
  Frames, BootFrame,     \* what a picture may show; the one without a time
  Hands,                 \* Hands[f]: the strokes of draw_dynamic_parts
  None

Buffers == {TxBuffer1, TxBuffer2}
Stroke == Seq(Samples) \ {<<>>}

ASSUME PictureAssumption ==
  /\ TxBuffer1 # TxBuffer2
  /\ Capacity \in Nat
  /\ RestPoint \in Samples
  /\ Face \in Seq(Stroke) \ {<<>>}
  /\ Hands \in [Frames -> Seq(Stroke)]
  /\ BootFrame \in Frames /\ Hands[BootFrame] = <<>>
  /\ None \notin Frames /\ None \notin Buffers

VARIABLES
  tx_buffer,    \* the contents of both buffers
  stage,        \* the calls of scopeclock_init, then "task"
  static_part,  \* StaticPartMeta: its out_index and parts, or None
  pen,          \* the buffer of the Picture under construction, or None
  frame,        \* what it shows; None for the static part
  drawn,        \* the number of its strokes drawn by this call
  out_index, parts,
  pictures,     \* the finished Picture in each buffer, or None
  panicked      \* an index beyond tx_buffer

pic  == <<pen, frame, drawn, out_index, parts>>
vars == <<tx_buffer, stage, static_part, pic, pictures, panicked>>

Init ==
  /\ tx_buffer \in [Buffers -> {[i \in 0..Capacity - 1 |-> RestPoint]}]
  /\ stage = "face1"
  /\ static_part = None
  /\ pen = None /\ frame = None /\ drawn = 0 /\ out_index = 0 /\ parts = <<>>
  /\ pictures = [b \in Buffers |-> None]
  /\ panicked = FALSE

-----------------------------------------------------------------------------
(* Picture::new and the two ways to fill it                                *)

Idle == pen = None /\ ~panicked

\* prepare_static_part
PrepareStaticPart(b) ==
  /\ Idle
  /\ <<stage, b>> \in {<<"face1", TxBuffer1>>, <<"face2", TxBuffer2>>}
  /\ pen' = b /\ frame' = None /\ drawn' = 0
  /\ out_index' = 0
  /\ parts' = <<>>
  /\ UNCHANGED <<tx_buffer, stage, static_part, pictures, panicked>>

\* Where draw_dynamic_part begins.  Mutants: at the front, or behind what the
\* buffer's last picture added.
AtTheFront(b) == 0
BehindLastPicture(b) ==
  IF pictures[b] = None THEN static_part.out_index ELSE pictures[b].out_index
BehindStaticPart(b) == static_part.out_index

\* draw_dynamic_part; the buffer is free, its old Picture is gone.
DrawDynamicPart(b, f) ==
  /\ Idle
  /\ \/ <<stage, b, f>> \in {<<"hands1", TxBuffer1, BootFrame>>, <<"hands2", TxBuffer2, BootFrame>>}
     \/ stage = "task"
  /\ pen' = b /\ frame' = f /\ drawn' = 0
  /\ out_index' = BehindStaticPart(b)
  /\ parts' = static_part.parts
  /\ pictures' = [pictures EXCEPT ![b] = None]
  /\ UNCHANGED <<tx_buffer, stage, static_part, panicked>>

-----------------------------------------------------------------------------
(* Drawing                                                                 *)

Strokes == IF frame = None THEN Face ELSE Hands[frame]
NextStroke == Strokes[drawn + 1]
Drawing  == pen # None /\ ~panicked /\ drawn < Len(Strokes)
Complete == pen # None /\ ~panicked /\ drawn = Len(Strokes)

\* Buffer buf with the samples s written from index n on.
Written(buf, n, s) ==
  [i \in DOMAIN buf |-> IF i \in n..n + Len(s) - 1 THEN s[i - n + 1] ELSE buf[i]]

\* The part that a stroke of n samples adds.
PartOf(n) == <<out_index, out_index + n>>

\* add_dot2, add_line, add_closed_polygon or add_open_polygon.
AddStroke ==
  /\ Drawing
  /\ out_index + Len(NextStroke) <= Capacity
  /\ tx_buffer' = [tx_buffer EXCEPT ![pen] = Written(@, out_index, NextStroke)]
  /\ out_index' = out_index + Len(NextStroke)
  /\ parts' = Append(parts, PartOf(Len(NextStroke)))
  /\ drawn' = drawn + 1
  /\ UNCHANGED <<stage, static_part, pen, frame, pictures, panicked>>

\* The index of tx_buffer in add_raw_point panics.  Samples written before
\* that are in a buffer that is never handed over; they are left out.
Overflow ==
  /\ \/ Drawing /\ out_index + Len(NextStroke) > Capacity
     \/ Complete /\ frame # None /\ out_index >= Capacity
  /\ panicked' = TRUE
  /\ UNCHANGED <<tx_buffer, stage, static_part, pic, pictures>>

AfterStage ==
  CASE stage = "face1"  -> "face2"
    [] stage = "face2"  -> "hands1"
    [] stage = "hands1" -> "hands2"
    [] OTHER            -> "task"

\* prepare_static_part returns the StaticPartMeta; the caller keeps the one
\* of the second call.
KeepStaticPart ==
  /\ Complete /\ frame = None
  /\ static_part' = [out_index |-> out_index, parts |-> parts]
  /\ pen' = None
  /\ stage' = AfterStage
  /\ UNCHANGED <<tx_buffer, frame, drawn, out_index, parts, pictures, panicked>>

\* "bring the beam to a position to rest until the next picture", then
\* draw_dynamic_part returns the Picture.
FinishPicture ==
  /\ Complete /\ frame # None
  /\ out_index < Capacity
  /\ tx_buffer' = [tx_buffer EXCEPT ![pen] = Written(@, out_index, <<RestPoint>>)]
  /\ out_index' = out_index + 1
  /\ pictures' = [pictures EXCEPT ![pen] =
                    [frame |-> frame, out_index |-> out_index + 1, parts |-> parts]]
  /\ pen' = None
  /\ stage' = AfterStage
  /\ UNCHANGED <<static_part, frame, drawn, parts, panicked>>

Next ==
  \/ \E b \in Buffers : PrepareStaticPart(b)
  \/ \E b \in Buffers, f \in Frames : DrawDynamicPart(b, f)
  \/ AddStroke \/ Overflow \/ KeepStaticPart \/ FinishPicture

Spec == Init /\ [][Next]_vars

-----------------------------------------------------------------------------
(* Properties                                                              *)

Part == Nat \X Nat
StaticPartMeta == [out_index : Nat, parts : Seq(Part)]
FinishedPicture == [frame : Frames, out_index : Nat, parts : Seq(Part)]

TypeOK ==
  /\ tx_buffer \in [Buffers -> [0..Capacity - 1 -> Samples]]
  /\ stage \in {"face1", "face2", "hands1", "hands2", "task"}
  /\ stage \in {"face2", "hands1", "hands2", "task"} => static_part \in StaticPartMeta
  /\ pen \in Buffers \union {None}
  /\ frame \in Frames \union {None}
  /\ drawn \in Nat /\ out_index \in 0..Capacity
  /\ parts \in Seq(Part)
  /\ pictures \in [Buffers -> FinishedPicture \union {None}]
  /\ panicked \in BOOLEAN

\* What update_frame does with each part of a picture never panics: parts[0]
\* exists, the part lies in the buffer and has a first sample to send ahead.
PartsTransferable ==
  \A b \in Buffers : pictures[b] # None =>
    /\ pictures[b].parts # <<>>
    /\ \A i \in DOMAIN pictures[b].parts :
         LET part == pictures[b].parts[i]
         IN part[1] < part[2] /\ part[2] <= Capacity

\* The i-th part of a finished picture is exactly the i-th stroke of the
\* clock face and the hands: redrawing over an older, longer or shorter
\* picture leaves nothing of it, and never damages the static part, although
\* the parts of the static part come from the other buffer.
Total(f) == Face \o Hands[f]
Slice(buf, part) == [k \in 1..part[2] - part[1] |-> buf[part[1] + k - 1]]
PartsHoldStrokes ==
  \A b \in Buffers : pictures[b] # None =>
    LET p == pictures[b]
    IN /\ Len(p.parts) = Len(Total(p.frame))
       /\ \A i \in DOMAIN p.parts :
            Slice(tx_buffer[b], p.parts[i]) = Total(p.frame)[i]

\* Where the strokes end if they are drawn one after the other from index 0.
Ends(strokes) ==
  LET upto[n \in 0..Len(strokes)] ==
        IF n = 0 THEN 0 ELSE upto[n - 1] + Len(strokes[n])
  IN upto

\* However often the two buffers are redrawn, over whatever they hold, only a
\* picture that is too large for an empty buffer overflows: its strokes leave
\* no room for the rest point.
Fits(f) == Ends(Total(f))[Len(Total(f))] < Capacity
NeverOverflows == panicked => ~Fits(IF frame = None THEN BootFrame ELSE frame)

\* "bring the beam to a position to rest until the next picture": the last
\* sample of a picture is sent to the DAC with one of its parts.
RestPointSent ==
  \A b \in Buffers : pictures[b] # None =>
    \E i \in DOMAIN pictures[b].parts :
      LET part == pictures[b].parts[i]
      IN pictures[b].out_index - 1 \in part[1]..part[2] - 1
=============================================================================
