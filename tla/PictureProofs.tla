---------------------------- MODULE PictureProofs ----------------------------
(***************************************************************************)
(* Proofs about Picture, for every clock face, every set of frames and     *)
(* every buffer size.                                                      *)
(***************************************************************************)
EXTENDS Picture, WellFoundedInduction, TLAPS

(***************************************************************************)
(* Induction, stated with the set of the numbers for which a claim holds.  *)
(***************************************************************************)

\* A set with 0 and with every successor of its elements has all numbers:
\* there is no least number outside of it.
LEMMA SetInduction ==
  ASSUME NEW S, 0 \in S, \A n \in Nat : n \in S => n + 1 \in S
  PROVE  \A n \in Nat : n \in S
  <1> DEFINE Outside == Nat \ S
             R == OpToRel(<, Nat)
  <1> SUFFICES ASSUME Outside # {} PROVE FALSE
    OBVIOUS
  <1>1. IsWellFoundedOn(R, Nat)
    BY NatLessThanWellFounded
  <1>2. Outside \subseteq Nat
    OBVIOUS
  <1> HIDE DEF Outside, R
  <1>3. PICK x \in Outside : \A y \in Outside : <<y, x>> \notin R
    BY <1>1, <1>2, WFMin
  <1>4. x \in Nat /\ x \notin S /\ x # 0
    BY <1>3 DEF Outside
  <1>5. x - 1 \in Nat /\ (x - 1) + 1 = x
    BY <1>4
  <1>6. x - 1 \in Outside /\ <<x - 1, x>> \in R
    BY <1>4, <1>5 DEF Outside, R, OpToRel
  <1> QED
    BY <1>3, <1>6

(***************************************************************************)
(* The inductive invariant.                                                *)
(***************************************************************************)

\* The parts ps follow each other from index 0 up to n.
Chained(ps, n) ==
  /\ ps = <<>> => n = 0
  /\ ps # <<>> => ps[1][1] = 0 /\ ps[Len(ps)][2] = n
  /\ \A i \in 1..Len(ps) - 1 : ps[i + 1][1] = ps[i][2]
  /\ \A i \in 1..Len(ps) : ps[i][2] <= n

\* In buffer buf each of the parts ps holds the samples of its stroke of S.
Hold(buf, ps, S) ==
  \A i \in 1..Len(ps) :
    /\ ps[i][2] = ps[i][1] + Len(S[i])
    /\ ps[i][2] <= Capacity
    /\ \A k \in 1..Len(S[i]) : buf[ps[i][1] + k - 1] = S[i][k]

\* The static part, as measured in the buffer prepared last, is in every
\* buffer that has been prepared.
Prepared(b) == \/ stage \in {"hands1", "hands2", "task"}
               \/ stage = "face2" /\ b = TxBuffer1
StaticInv ==
  stage # "face1" =>
    /\ static_part \in StaticPartMeta
    /\ Len(static_part.parts) = Len(Face)
    /\ static_part.out_index <= Capacity
    /\ Chained(static_part.parts, static_part.out_index)
    /\ \A b \in Buffers : Prepared(b) => Hold(tx_buffer[b], static_part.parts, Face)

\* The picture under construction.  The second static part agrees with the
\* first one, whose place it takes.
Plan == IF frame = None THEN Face ELSE Total(frame)
Base == IF frame = None THEN 0 ELSE Len(Face)
DrawInv ==
  pen # None =>
    /\ frame = None <=> stage \in {"face1", "face2"}
    /\ stage = "face1" => pen = TxBuffer1
    /\ stage = "face2" =>
         /\ pen = TxBuffer2
         /\ \A i \in 1..Len(parts) : parts[i] = static_part.parts[i]
    /\ frame # None => static_part.out_index <= out_index
    /\ drawn <= Len(Strokes)
    /\ Len(parts) = Base + drawn
    /\ Chained(parts, out_index)
    /\ Hold(tx_buffer[pen], parts, Plan)

PicturesInv ==
  \A b \in Buffers : pictures[b] # None =>
    /\ stage \notin {"face1", "face2"}
    /\ b # pen
    /\ Len(pictures[b].parts) = Len(Total(pictures[b].frame))
    /\ Hold(tx_buffer[b], pictures[b].parts, Total(pictures[b].frame))

IInv == TypeOK /\ StaticInv /\ DrawInv /\ PicturesInv

(***************************************************************************)
(* Lemmas about strokes and parts.                                         *)
(***************************************************************************)
\* Where the strokes of the face and of the hands are in a whole picture.
LEMMA TotalFacts ==
  ASSUME NEW f \in Frames
  PROVE  /\ Total(f) \in Seq(Stroke)
         /\ Len(Total(f)) = Len(Face) + Len(Hands[f])
         /\ \A i \in 1..Len(Face) : Total(f)[i] = Face[i]
         /\ \A j \in 1..Len(Hands[f]) : Total(f)[Len(Face) + j] = Hands[f][j]
  BY PictureAssumption DEF Total

\* A stroke has a sample, so no part is empty.
LEMMA StrokeFacts ==
  ASSUME NEW s \in Stroke
  PROVE  /\ s \in Seq(Samples)
         /\ Len(s) \in Nat /\ Len(s) > 0
         /\ \A k \in 1..Len(s) : s[k] \in Samples
  BY DEF Stroke

\* What Append does.
LEMMA AppendFacts ==
  ASSUME NEW T, NEW q \in Seq(T), NEW e \in T
  PROVE  /\ Append(q, e) \in Seq(T) /\ Len(Append(q, e)) = Len(q) + 1
         /\ Append(q, e) # <<>>
         /\ \A i \in 1..Len(q) : Append(q, e)[i] = q[i]
         /\ Append(q, e)[Len(q) + 1] = e
  OBVIOUS

\* The samples of a part that fits are inside the buffer.
LEMMA IndexInPart ==
  ASSUME NEW a \in Nat, NEW l \in Nat, NEW c \in Nat, NEW n \in Nat,
         a + l <= c, a + l <= n, NEW k \in 1..l
  PROVE  a + k - 1 \in 0..c - 1 /\ a + k - 1 < n
  OBVIOUS

\* add_raw_point changes the samples from out_index on, and no others.
LEMMA WrittenFacts ==
  ASSUME NEW buf \in [0..Capacity - 1 -> Samples],
         NEW n \in Nat, NEW s \in Seq(Samples)
  PROVE  /\ Written(buf, n, s) \in [0..Capacity - 1 -> Samples]
         /\ \A i \in 0..Capacity - 1 : i < n => Written(buf, n, s)[i] = buf[i]
         /\ \A k \in 1..Len(s) : n + k - 1 < Capacity => Written(buf, n, s)[n + k - 1] = s[k]
  BY PictureAssumption DEF Written

\* Samples written behind the parts ps leave their strokes as they are.
LEMMA KeepStrokes ==
  ASSUME NEW buf \in [0..Capacity - 1 -> Samples],
         NEW S \in Seq(Stroke), NEW ps \in Seq(Part), NEW n \in Nat,
         NEW s \in Seq(Samples),
         Len(ps) <= Len(S), Hold(buf, ps, S),
         \A i \in 1..Len(ps) : ps[i][2] <= n
  PROVE  Hold(Written(buf, n, s), ps, S)
  <1> SUFFICES ASSUME NEW i \in 1..Len(ps), NEW k \in 1..Len(S[i])
               PROVE  Written(buf, n, s)[ps[i][1] + k - 1] = buf[ps[i][1] + k - 1]
    BY DEF Hold
  <1>1. S[i] \in Stroke /\ ps[i][1] \in Nat
    BY DEF Part
  <1>2. Len(S[i]) \in Nat
    BY <1>1, StrokeFacts
  <1>3. ps[i][1] + Len(S[i]) <= Capacity /\ ps[i][1] + Len(S[i]) <= n
    BY DEF Hold
  <1>4. ps[i][1] + k - 1 \in 0..Capacity - 1 /\ ps[i][1] + k - 1 < n
    BY <1>1, <1>2, <1>3, PictureAssumption, IndexInPart
  <1> QED
    BY <1>4, WrittenFacts

\* What add_dot2, add_line and the polygons do to a well formed picture.
LEMMA AppendStroke ==
  ASSUME NEW buf \in [0..Capacity - 1 -> Samples],
         NEW S \in Seq(Stroke), NEW ps \in Seq(Part), NEW n \in 0..Capacity,
         NEW s \in Stroke,
         Len(ps) < Len(S), s = S[Len(ps) + 1],
         Chained(ps, n), Hold(buf, ps, S), n + Len(s) <= Capacity
  PROVE  /\ Chained(Append(ps, <<n, n + Len(s)>>), n + Len(s))
         /\ Hold(Written(buf, n, s), Append(ps, <<n, n + Len(s)>>), S)
  <1> DEFINE m == n + Len(s)
             qs == Append(ps, <<n, m>>)
  <1>0. Len(s) \in Nat /\ Len(s) > 0 /\ s \in Seq(Samples)
    BY StrokeFacts
  <1>1. /\ Len(s) \in Nat /\ Len(s) > 0 /\ s \in Seq(Samples)
        /\ Capacity \in Nat /\ n \in Nat /\ m \in Nat
    BY <1>0, PictureAssumption
  <1>2. /\ qs \in Seq(Part) /\ Len(qs) = Len(ps) + 1 /\ qs # <<>>
        /\ \A i \in 1..Len(ps) : qs[i] = ps[i]
        /\ qs[Len(ps) + 1] = <<n, m>>
    <2> DEFINE e == <<n, m>>
    <2>1. e \in Part
      BY <1>1 DEF Part
    <2> HIDE DEF e
    <2>2. /\ Append(ps, e) \in Seq(Part)
          /\ Len(Append(ps, e)) = Len(ps) + 1
          /\ Append(ps, e) # <<>>
          /\ \A i \in 1..Len(ps) : Append(ps, e)[i] = ps[i]
          /\ Append(ps, e)[Len(ps) + 1] = e
      BY <2>1, AppendFacts
    <2> QED
      BY <2>2 DEF e
  <1>3. /\ \A i \in 1..Len(ps) : ps[i][1] \in Nat /\ ps[i][2] \in Nat /\ S[i] \in Stroke
        /\ Len(ps) \in Nat
    BY DEF Part
  <1>4. Chained(qs, m)
    <2>1. qs[1][1] = 0 /\ qs[Len(qs)][2] = m
      BY <1>1, <1>2, <1>3 DEF Chained
    <2>2. ASSUME NEW i \in 1..Len(qs) - 1
          PROVE  qs[i + 1][1] = qs[i][2]
      <3>1. CASE i = Len(ps)
        BY <1>1, <1>2, <1>3, <3>1 DEF Chained
      <3>2. CASE i # Len(ps)
        <4>1. i \in 1..Len(ps) - 1 /\ i \in 1..Len(ps) /\ i + 1 \in 1..Len(ps)
          BY <1>2, <1>3, <3>2
        <4> QED
          BY <1>2, <4>1 DEF Chained
      <3> QED
        BY <3>1, <3>2
    <2>3. \A i \in 1..Len(qs) : qs[i][2] <= m
      BY <1>1, <1>2, <1>3 DEF Chained
    <2> QED
      BY <1>2, <2>1, <2>2, <2>3 DEF Chained
  <1>5. Hold(Written(buf, n, s), qs, S)
    <2> SUFFICES ASSUME NEW i \in 1..Len(qs)
                 PROVE  /\ qs[i][2] = qs[i][1] + Len(S[i])
                        /\ qs[i][2] <= Capacity
                        /\ \A k \in 1..Len(S[i]) :
                             Written(buf, n, s)[qs[i][1] + k - 1] = S[i][k]
      BY DEF Hold
    <2>1. CASE i = Len(ps) + 1
      <3>1. qs[i][1] = n /\ qs[i][2] = m /\ S[i] = s
        BY <1>2, <2>1
      <3>2. \A k \in 1..Len(s) : Written(buf, n, s)[n + k - 1] = s[k]
        BY <1>1, WrittenFacts
      <3> QED
        BY <3>1, <3>2
    <2>2. CASE i # Len(ps) + 1
      <3>1. i \in 1..Len(ps) /\ qs[i] = ps[i]
        BY <1>2, <1>3, <2>2
      <3>2. Len(ps) <= Len(S) /\ \A j \in 1..Len(ps) : ps[j][2] <= n
        BY <1>3 DEF Chained
      <3>3. Hold(Written(buf, n, s), ps, S)
        BY <1>1, <3>2, KeepStrokes
      <3> QED
        BY <3>1, <3>3 DEF Hold
    <2> QED
      BY <2>1, <2>2
  <1> QED
    BY <1>4, <1>5

(***************************************************************************)
(* Init and each action establish the invariant.                           *)
(***************************************************************************)
\* Nothing is drawn yet.
LEMMA InitIInv == Init => IInv
  <1> SUFFICES ASSUME Init PROVE IInv
    OBVIOUS
  <1>1. tx_buffer \in [Buffers -> [0..Capacity - 1 -> Samples]]
    <2>1. [i \in 0..Capacity - 1 |-> RestPoint] \in [0..Capacity - 1 -> Samples]
      BY PictureAssumption
    <2> QED
      BY <2>1 DEF Init
  <1>2. 0 \in 0..Capacity
    BY PictureAssumption
  <1>3. TypeOK
    <2>1. panicked \in BOOLEAN
      BY DEF Init
    <2> QED
      BY <1>1, <1>2, <2>1 DEF Init, TypeOK, Part
  <1> QED
    BY <1>3 DEF Init, IInv, StaticInv, DrawInv, PicturesInv

\* What the invariant says about the stroke that AddStroke adds.
LEMMA NextStrokeFacts ==
  ASSUME IInv, pen # None, drawn < Len(Strokes)
  PROVE  /\ NextStroke \in Stroke /\ NextStroke = Plan[Len(parts) + 1]
         /\ Plan \in Seq(Stroke) /\ Len(parts) < Len(Plan)
  <1>1. CASE frame = None
    BY <1>1, PictureAssumption
    DEF IInv, TypeOK, DrawInv, NextStroke, Strokes, Plan, Base
  <1>2. CASE frame # None
    <2>1. frame \in Frames /\ Hands[frame] \in Seq(Stroke)
      BY <1>2, PictureAssumption DEF IInv, TypeOK
    <2>2. /\ Plan = Total(frame) /\ Strokes = Hands[frame]
          /\ drawn \in Nat /\ Len(parts) = Len(Face) + drawn
          /\ drawn + 1 \in 1..Len(Hands[frame])
      BY <1>2, <2>1 DEF IInv, TypeOK, DrawInv, Strokes, Plan, Base
    <2>3. /\ Plan \in Seq(Stroke) /\ Len(Plan) = Len(Face) + Len(Hands[frame])
          /\ Plan[Len(Face) + (drawn + 1)] = Hands[frame][drawn + 1]
      BY <2>1, <2>2, TotalFacts
    <2>4. Len(Face) \in Nat /\ Len(Face) + (drawn + 1) = Len(parts) + 1
      BY <2>2, PictureAssumption
    <2> QED
      BY <2>1, <2>2, <2>3, <2>4 DEF NextStroke
  <1> QED
    BY <1>1, <1>2

\* Writing behind the static part of the buffer under construction keeps it.
LEMMA StaticPartKept ==
  ASSUME IInv, pen # None, NEW s \in Seq(Samples), NEW b \in Buffers,
         Prepared(b), stage # "face1",
         tx_buffer' = [tx_buffer EXCEPT ![pen] = Written(@, out_index, s)]
  PROVE  Hold(tx_buffer'[b], static_part.parts, Face)
  <1>1. /\ Hold(tx_buffer[b], static_part.parts, Face)
        /\ static_part.parts \in Seq(Part) /\ static_part.out_index \in Nat
        /\ Len(static_part.parts) = Len(Face)
        /\ \A i \in 1..Len(static_part.parts) : static_part.parts[i][2] <= static_part.out_index
    BY DEF IInv, StaticInv, StaticPartMeta, Chained
  <1>2. /\ tx_buffer \in [Buffers -> [0..Capacity - 1 -> Samples]]
        /\ out_index \in Nat /\ pen \in Buffers
    BY PictureAssumption DEF IInv, TypeOK
  <1>3. CASE b = pen
    <2>1. static_part.out_index <= out_index
      BY <1>3, PictureAssumption DEF IInv, TypeOK, DrawInv, Prepared
    <2>2. \A i \in 1..Len(static_part.parts) : static_part.parts[i][2] <= out_index
      <3> SUFFICES ASSUME NEW i \in 1..Len(static_part.parts)
                   PROVE  static_part.parts[i][2] <= out_index
        OBVIOUS
      <3>1. static_part.parts[i][2] \in Nat
        BY <1>1 DEF Part
      <3> QED
        BY <1>1, <1>2, <2>1, <3>1
    <2>3. Face \in Seq(Stroke) /\ tx_buffer[b] \in [0..Capacity - 1 -> Samples]
      BY <1>2, PictureAssumption
    <2>4. Len(static_part.parts) <= Len(Face)
      BY <1>1, <2>3
    <2>5. Hold(Written(tx_buffer[b], out_index, s), static_part.parts, Face)
      BY <1>1, <1>2, <2>2, <2>3, <2>4, KeepStrokes
    <2> QED
      BY <1>2, <1>3, <2>5
  <1>4. CASE b # pen
    BY <1>1, <1>2, <1>4
  <1> QED
    BY <1>3, <1>4

\* The second static part is measured like the first one.
LEMMA SamePart ==
  ASSUME IInv, stage = "face2", pen # None, drawn < Len(Strokes),
         Len(parts') = Len(parts) + 1,
         \A i \in 1..Len(parts) : parts'[i] = parts[i],
         parts'[Len(parts) + 1] = <<out_index, out_index + Len(NextStroke)>>
  PROVE  \A i \in 1..Len(parts') : parts'[i] = static_part.parts[i]
  <1> DEFINE d == Len(parts)
             q == static_part.parts
  <1>1. /\ frame = None /\ d = drawn /\ d \in Nat /\ d < Len(Face)
        /\ NextStroke = Face[d + 1]
        /\ Chained(parts, out_index)
        /\ \A i \in 1..d : parts[i] = q[i]
    BY DEF IInv, DrawInv, TypeOK, Strokes, NextStroke, Base
  <1>2. /\ q \in Seq(Part) /\ Len(q) = Len(Face) /\ Chained(q, static_part.out_index)
        /\ Hold(tx_buffer[TxBuffer1], q, Face)
    BY DEF IInv, StaticInv, StaticPartMeta, Prepared, Buffers
  <1> HIDE DEF d, q
  <1>3. d + 1 \in 1..Len(q) /\ q[d + 1] \in Part
    BY <1>1, <1>2, PictureAssumption
  <1>4. q[d + 1][2] = q[d + 1][1] + Len(NextStroke)
    BY <1>1, <1>2, <1>3 DEF Hold
  <1>5. q[d + 1][1] = out_index
    <2>1. CASE d = 0
      BY <1>1, <1>2, <1>3, <2>1, PictureAssumption DEF Chained, d, IInv, TypeOK
    <2>2. CASE d # 0
      <3>1. d \in 1..Len(q) - 1 /\ d \in 1..d
        BY <1>1, <1>2, <1>3, <2>2
      <3>2. parts # <<>> /\ parts[d][2] = out_index
        BY <1>1, <2>2 DEF Chained, d
      <3> QED
        BY <1>1, <1>2, <3>1, <3>2 DEF Chained
    <2> QED
      BY <2>1, <2>2
  <1>6. q[d + 1] = <<out_index, out_index + Len(NextStroke)>>
    BY <1>3, <1>4, <1>5 DEF Part
  <1> QED
    BY <1>1, <1>6 DEF d, q

\* One step per call of the builder.
LEMMA StepIInv == IInv /\ [Next]_vars => IInv'
  <1> SUFFICES ASSUME IInv, [Next]_vars
               PROVE  IInv'
    OBVIOUS
  <1> USE PictureAssumption
  <1>1. ASSUME NEW b \in Buffers, PrepareStaticPart(b)
        PROVE  IInv'
    <2> USE <1>1 DEF PrepareStaticPart, Idle
    <2>1. TypeOK'
      BY DEF IInv, TypeOK, Part
    <2>2. StaticInv'
      BY DEF IInv, StaticInv, Prepared
    <2>3. DrawInv'
      BY DEF IInv, DrawInv, TypeOK, Strokes, Base, Chained, Hold
    <2>4. PicturesInv'
      BY DEF IInv, PicturesInv
    <2> QED
      BY <2>1, <2>2, <2>3, <2>4 DEF IInv
  <1>2. ASSUME NEW b \in Buffers, NEW f \in Frames, DrawDynamicPart(b, f)
        PROVE  IInv'
    <2> USE <1>2 DEF DrawDynamicPart, Idle, BehindStaticPart
    <2>0. /\ stage \in {"hands1", "hands2", "task"}
          /\ static_part \in StaticPartMeta /\ static_part.out_index <= Capacity
          /\ f # None
      BY DEF IInv, StaticInv, TypeOK
    <2>1. TypeOK'
      BY <2>0 DEF IInv, TypeOK, StaticPartMeta
    <2>2. StaticInv'
      BY DEF IInv, StaticInv, Prepared
    <2>3. DrawInv'
      <3>1. Hold(tx_buffer[b], static_part.parts, Face)
        BY <2>0 DEF IInv, StaticInv, Prepared
      <3>2. Hold(tx_buffer[b], static_part.parts, Total(f))
        BY <2>0, <3>1, TotalFacts DEF IInv, StaticInv, Hold
      <3>3. Hands[f] \in Seq(Stroke) /\ Len(Hands[f]) >= 0
        OBVIOUS
      <3>4. frame' = f /\ Plan' = Total(f) /\ Base' = Len(Face) /\ Strokes' = Hands[f]
        BY <2>0 DEF Plan, Base, Strokes, Total
      <3> QED
        BY <2>0, <3>2, <3>3, <3>4 DEF IInv, DrawInv, StaticInv, StaticPartMeta
    <2>4. PicturesInv'
      BY <2>0 DEF IInv, TypeOK, PicturesInv
    <2> QED
      BY <2>1, <2>2, <2>3, <2>4 DEF IInv
  <1>3. CASE AddStroke
    <2>1. /\ pen # None /\ drawn < Len(Strokes)
          /\ out_index + Len(NextStroke) <= Capacity
          /\ out_index' = out_index + Len(NextStroke)
          /\ parts' = Append(parts, <<out_index, out_index + Len(NextStroke)>>)
          /\ tx_buffer' = [tx_buffer EXCEPT ![pen] = Written(@, out_index, NextStroke)]
          /\ drawn' = drawn + 1
          /\ UNCHANGED <<stage, static_part, pen, frame, pictures, panicked>>
      BY <1>3 DEF AddStroke, Drawing, PartOf
    <2>2. /\ NextStroke \in Stroke /\ NextStroke = Plan[Len(parts) + 1]
          /\ Plan \in Seq(Stroke) /\ Len(parts) < Len(Plan)
      BY <2>1, NextStrokeFacts
    <2> DEFINE s == NextStroke
    <2>3. s \in Seq(Samples) /\ Len(s) \in Nat /\ Len(s) > 0
      BY <2>2, StrokeFacts
    <2>4. /\ tx_buffer \in [Buffers -> [0..Capacity - 1 -> Samples]]
          /\ pen \in Buffers /\ out_index \in 0..Capacity /\ out_index \in Nat
          /\ tx_buffer[pen] \in [0..Capacity - 1 -> Samples]
          /\ parts \in Seq(Part) /\ drawn \in Nat
      BY <2>1 DEF IInv, TypeOK
    <2> HIDE DEF s
    <2>5. <<out_index, out_index + Len(s)>> \in Part
      BY <2>3, <2>4 DEF Part
    <2>6. Written(tx_buffer[pen], out_index, s) \in [0..Capacity - 1 -> Samples]
      BY <2>3, <2>4, WrittenFacts
    <2>7. /\ tx_buffer' \in [Buffers -> [0..Capacity - 1 -> Samples]]
          /\ tx_buffer'[pen] = Written(tx_buffer[pen], out_index, s)
          /\ \A b \in Buffers : b # pen => tx_buffer'[b] = tx_buffer[b]
      BY <2>1, <2>4, <2>6 DEF s
    <2>8. /\ parts' \in Seq(Part) /\ Len(parts') = Len(parts) + 1
          /\ \A i \in 1..Len(parts) : parts'[i] = parts[i]
          /\ parts'[Len(parts) + 1] = <<out_index, out_index + Len(s)>>
      BY <2>1, <2>4, <2>5, AppendFacts DEF s
    <2>9. out_index' \in 0..Capacity /\ drawn' \in Nat /\ out_index <= out_index'
      BY <2>1, <2>3, <2>4 DEF s
    <2>10. TypeOK'
      BY <2>1, <2>7, <2>8, <2>9 DEF IInv, TypeOK
    <2>11. StaticInv'
      <3>1. ASSUME NEW b \in Buffers, Prepared(b), stage # "face1"
            PROVE  Hold(tx_buffer'[b], static_part.parts, Face)
        BY <2>1, <2>3, <3>1, StaticPartKept DEF s
      <3> QED
        BY <2>1, <3>1 DEF IInv, StaticInv, Prepared
    <2>12. DrawInv'
      <3>1. Chained(parts', out_index') /\ Hold(tx_buffer'[pen], parts', Plan)
        <4>1. Chained(parts, out_index) /\ Hold(tx_buffer[pen], parts, Plan)
          BY <2>1 DEF IInv, DrawInv
        <4>2. s \in Stroke /\ s = Plan[Len(parts) + 1] /\ out_index + Len(s) <= Capacity
          BY <2>1, <2>2 DEF s
        <4>3. /\ Chained(Append(parts, <<out_index, out_index + Len(s)>>), out_index + Len(s))
              /\ Hold(Written(tx_buffer[pen], out_index, s),
                      Append(parts, <<out_index, out_index + Len(s)>>), Plan)
          BY <2>2, <2>4, <4>1, <4>2, AppendStroke
        <4> QED
          BY <2>1, <2>7, <4>3 DEF s
      <3>2. Plan' = Plan /\ Base' = Base /\ Strokes' = Strokes
        BY <2>1 DEF Plan, Base, Strokes
      <3>3. drawn' <= Len(Strokes) /\ Len(parts') = Base + drawn'
        <4>1. Len(Strokes) \in Nat /\ Base \in Nat /\ Len(parts) = Base + drawn
          BY <2>1 DEF Strokes, Base, IInv, TypeOK, DrawInv
        <4> QED
          BY <2>1, <2>4, <2>8, <4>1
      <3>4. stage = "face2" => \A i \in 1..Len(parts') : parts'[i] = static_part.parts[i]
        BY <2>1, <2>8, SamePart DEF s
      <3>5. frame # None => static_part.out_index <= out_index'
        <4> SUFFICES ASSUME frame # None PROVE static_part.out_index <= out_index'
          OBVIOUS
        <4>1. static_part.out_index \in Nat /\ static_part.out_index <= out_index
          BY <2>1 DEF IInv, DrawInv, TypeOK, StaticPartMeta
        <4> QED
          BY <2>4, <2>9, <4>1
      <3> QED
        BY <2>1, <3>1, <3>2, <3>3, <3>4, <3>5 DEF IInv, DrawInv
    <2>13. PicturesInv'
      BY <2>1, <2>7 DEF IInv, PicturesInv
    <2> QED
      BY <2>10, <2>11, <2>12, <2>13 DEF IInv
  <1>4. CASE Overflow
    <2>1. TypeOK' /\ StaticInv' /\ DrawInv' /\ PicturesInv'
      BY <1>4 DEF Overflow, pic, IInv, TypeOK, StaticInv, Prepared, DrawInv,
                  Strokes, Plan, Base, PicturesInv
    <2> QED
      BY <2>1 DEF IInv
  <1>5. CASE KeepStaticPart
    <2> USE <1>5 DEF KeepStaticPart, Complete
    <2>1. /\ stage \in {"face1", "face2"} /\ frame = None /\ pen # None
          /\ parts \in Seq(Part) /\ out_index \in 0..Capacity
          /\ Len(parts) = Len(Face)
          /\ Chained(parts, out_index)
          /\ Hold(tx_buffer[pen], parts, Face)
      BY DEF IInv, TypeOK, DrawInv, Strokes, Plan, Base
    <2>2. /\ static_part' \in StaticPartMeta
          /\ static_part'.parts = parts /\ static_part'.out_index = out_index
      BY <2>1 DEF StaticPartMeta
    <2>3. /\ stage = "face1" => stage' = "face2" /\ pen = TxBuffer1
          /\ stage = "face2" => /\ stage' = "hands1" /\ pen = TxBuffer2
                                /\ \A i \in 1..Len(parts) : parts[i] = static_part.parts[i]
      BY DEF AfterStage, IInv, DrawInv
    <2>4. TypeOK'
      BY <2>1, <2>2, <2>3 DEF IInv, TypeOK
    <2>5. StaticInv'
      <3> SUFFICES ASSUME NEW b \in Buffers, Prepared(b)'
                   PROVE  Hold(tx_buffer[b], parts, Face)
        BY <2>1, <2>2, <2>3 DEF StaticInv
      <3>1. CASE b = pen
        BY <2>1, <3>1
      <3>2. CASE b # pen
        <4>1. stage = "face2" /\ b = TxBuffer1
          BY <2>1, <2>3, <3>2 DEF Prepared, Buffers
        <4>2. Hold(tx_buffer[b], static_part.parts, Face) /\ Len(static_part.parts) = Len(parts)
          BY <2>1, <4>1 DEF IInv, StaticInv, Prepared
        <4> QED
          BY <2>3, <4>1, <4>2 DEF Hold
      <3> QED
        BY <3>1, <3>2
    <2>6. DrawInv'
      BY DEF DrawInv
    <2>7. PicturesInv'
      BY <2>1 DEF IInv, PicturesInv
    <2> QED
      BY <2>4, <2>5, <2>6, <2>7 DEF IInv
  <1>6. CASE FinishPicture
    <2>1. /\ pen # None /\ frame # None /\ drawn = Len(Strokes) /\ out_index < Capacity
          /\ tx_buffer' = [tx_buffer EXCEPT ![pen] = Written(@, out_index, <<RestPoint>>)]
          /\ out_index' = out_index + 1
          /\ pictures' = [pictures EXCEPT ![pen] =
                [frame |-> frame, out_index |-> out_index + 1, parts |-> parts]]
          /\ pen' = None /\ stage' = AfterStage
          /\ UNCHANGED <<static_part, frame, drawn, parts, panicked>>
      BY <1>6 DEF FinishPicture, Complete
    <2>2. /\ stage \in {"hands1", "hands2", "task"} /\ frame \in Frames /\ pen \in Buffers
          /\ tx_buffer \in [Buffers -> [0..Capacity - 1 -> Samples]]
          /\ tx_buffer[pen] \in [0..Capacity - 1 -> Samples]
          /\ parts \in Seq(Part) /\ out_index \in Nat
          /\ Chained(parts, out_index)
          /\ Len(parts) = Len(Total(frame)) /\ Total(frame) \in Seq(Stroke)
          /\ Hold(tx_buffer[pen], parts, Total(frame))
      BY <2>1, TotalFacts DEF IInv, TypeOK, DrawInv, Strokes, Plan, Base
    <2>3. <<RestPoint>> \in Seq(Samples)
      OBVIOUS
    <2>4. Written(tx_buffer[pen], out_index, <<RestPoint>>) \in [0..Capacity - 1 -> Samples]
      BY <2>2, <2>3, WrittenFacts
    <2>5. /\ tx_buffer' \in [Buffers -> [0..Capacity - 1 -> Samples]]
          /\ tx_buffer'[pen] = Written(tx_buffer[pen], out_index, <<RestPoint>>)
          /\ \A b \in Buffers : b # pen => tx_buffer'[b] = tx_buffer[b]
      BY <2>1, <2>2, <2>4
    <2>6. Hold(tx_buffer'[pen], parts, Total(frame))
      <3>1. Len(parts) <= Len(Total(frame)) /\ \A i \in 1..Len(parts) : parts[i][2] <= out_index
        BY <2>2 DEF Chained
      <3>2. Hold(Written(tx_buffer[pen], out_index, <<RestPoint>>), parts, Total(frame))
        BY <2>2, <2>3, <3>1, KeepStrokes
      <3> QED
        BY <2>5, <3>2
    <2>7. /\ pictures'[pen] = [frame |-> frame, out_index |-> out_index + 1, parts |-> parts]
          /\ \A b \in Buffers : b # pen => pictures'[b] = pictures[b]
          /\ pictures' \in [Buffers -> FinishedPicture \union {None}]
      <3>1. [frame |-> frame, out_index |-> out_index + 1, parts |-> parts] \in FinishedPicture
        BY <2>2 DEF FinishedPicture
      <3>2. pictures \in [Buffers -> FinishedPicture \union {None}]
        BY DEF IInv, TypeOK
      <3> QED
        BY <2>1, <2>2, <3>1, <3>2
    <2>8. stage' \in {"hands2", "task"}
      BY <2>1, <2>2 DEF AfterStage
    <2>9. TypeOK'
      <3>1. out_index' \in 0..Capacity
        BY <2>1, <2>2
      <3>2. static_part \in StaticPartMeta
        BY <2>2 DEF IInv, TypeOK
      <3> QED
        BY <2>1, <2>2, <2>5, <2>7, <2>8, <3>1, <3>2 DEF IInv, TypeOK
    <2>10. StaticInv'
      <3>1. ASSUME NEW b \in Buffers
            PROVE  Hold(tx_buffer'[b], static_part.parts, Face)
        BY <2>1, <2>2, <2>3, StaticPartKept DEF Prepared
      <3> QED
        BY <2>1, <2>2, <3>1 DEF IInv, StaticInv
    <2>11. DrawInv'
      BY <2>1 DEF DrawInv
    <2>12. PicturesInv'
      <3> SUFFICES ASSUME NEW b \in Buffers, pictures'[b] # None
                   PROVE  /\ b # None
                          /\ Len(pictures'[b].parts) = Len(Total(pictures'[b].frame))
                          /\ Hold(tx_buffer'[b], pictures'[b].parts, Total(pictures'[b].frame))
        BY <2>1, <2>8 DEF PicturesInv
      <3>1. b # None
        BY PictureAssumption
      <3>2. CASE b = pen
        BY <2>2, <2>6, <2>7, <3>1, <3>2
      <3>3. CASE b # pen
        BY <2>5, <2>7, <3>1, <3>3 DEF IInv, PicturesInv
      <3> QED
        BY <3>2, <3>3
    <2> QED
      BY <2>9, <2>10, <2>11, <2>12 DEF IInv
  <1>7. CASE UNCHANGED vars
    <2>1. TypeOK' /\ StaticInv' /\ DrawInv' /\ PicturesInv'
      BY <1>7 DEF vars, pic, IInv, TypeOK, StaticInv, Prepared, DrawInv,
                  Strokes, Plan, Base, PicturesInv
    <2> QED
      BY <2>1 DEF IInv
  <1> QED
    BY <1>1, <1>2, <1>3, <1>4, <1>5, <1>6, <1>7 DEF Next

(***************************************************************************)
(* How much of the buffer a picture needs.                                 *)
(***************************************************************************)

\* The recursion in Ends defines a function: by induction there is one for
\* every first part of the strokes.
LEMMA EndsDefined ==
  ASSUME NEW S \in Seq(Stroke)
  PROVE  Ends(S) = [n \in 0..Len(S) |-> IF n = 0 THEN 0 ELSE Ends(S)[n - 1] + Len(S[n])]
  <1> DEFINE Recursive(g, m) ==
               g = [n \in 0..m |-> IF n = 0 THEN 0 ELSE g[n - 1] + Len(S[n])]
             Defined == {m \in Nat : m <= Len(S) => \E g : Recursive(g, m)}
  <1>1. 0 \in Defined
    <2>1. Recursive([n \in {0} |-> 0], 0)
      OBVIOUS
    <2> QED
      BY <2>1
  <1>2. ASSUME NEW m \in Nat, m \in Defined
        PROVE  m + 1 \in Defined
    <2> SUFFICES ASSUME m + 1 <= Len(S)
                 PROVE  \E h : Recursive(h, m + 1)
      OBVIOUS
    <2>1. PICK g : Recursive(g, m)
      BY <1>2
    <2> DEFINE h == [n \in 0..m + 1 |-> IF n = m + 1 THEN g[m] + Len(S[m + 1]) ELSE g[n]]
    <2>2. ASSUME NEW n \in 0..m + 1
          PROVE  h[n] = IF n = 0 THEN 0 ELSE h[n - 1] + Len(S[n])
      <3>1. CASE n = m + 1
        BY <3>1
      <3>2. CASE n # m + 1
        <4>1. n \in 0..m /\ h[n] = g[n]
          BY <3>2
        <4>2. g[n] = IF n = 0 THEN 0 ELSE g[n - 1] + Len(S[n])
          BY <2>1, <4>1
        <4> QED
          BY <4>1, <4>2
      <3> QED
        BY <3>1, <3>2
    <2>3. Recursive(h, m + 1)
      BY <2>2
    <2> QED
      BY <2>3
  <1> HIDE DEF Defined
  <1>3. \A m \in Nat : m \in Defined
    BY <1>1, <1>2, SetInduction
  <1>4. \E g : Recursive(g, Len(S))
    <2>1. Len(S) \in Nat /\ Len(S) <= Len(S)
      OBVIOUS
    <2> QED
      BY <1>3, <2>1 DEF Defined
  <1> QED
    BY <1>4 DEF Ends

\* Each stroke ends its length behind the one before it.
LEMMA EndsFacts ==
  ASSUME NEW S \in Seq(Stroke)
  PROVE  /\ Ends(S) \in [0..Len(S) -> Nat]
         /\ Ends(S)[0] = 0
         /\ \A n \in 1..Len(S) : Ends(S)[n] = Ends(S)[n - 1] + Len(S[n])
  <1> DEFINE E == Ends(S)
             Natural == {n \in Nat : n <= Len(S) => E[n] \in Nat}
  <1>1. E = [n \in 0..Len(S) |-> IF n = 0 THEN 0 ELSE E[n - 1] + Len(S[n])]
    BY EndsDefined
  <1> HIDE DEF E
  <1>2. E[0] = 0 /\ \A n \in 1..Len(S) : E[n] = E[n - 1] + Len(S[n])
    BY <1>1
  <1>3. ASSUME NEW n \in Nat, n \in Natural
        PROVE  n + 1 \in Natural
    <2> SUFFICES ASSUME n + 1 <= Len(S)
                 PROVE  E[n + 1] \in Nat
      OBVIOUS
    <2>1. S[n + 1] \in Stroke
      OBVIOUS
    <2>2. Len(S[n + 1]) \in Nat /\ E[n] \in Nat
      BY <1>3, <2>1, StrokeFacts
    <2> QED
      BY <1>2, <2>2
  <1>4. 0 \in Natural
    BY <1>2
  <1> HIDE DEF Natural
  <1>5. \A n \in Nat : n \in Natural
    BY <1>3, <1>4, SetInduction
  <1>6. \A n \in 0..Len(S) : E[n] \in Nat
    BY <1>5 DEF Natural
  <1>7. E \in [0..Len(S) -> Nat]
    BY <1>1, <1>6
  <1> QED
    BY <1>2, <1>7 DEF E

\* So no stroke ends behind the last one.
LEMMA EndsGrow ==
  ASSUME NEW S \in Seq(Stroke), NEW n \in 0..Len(S)
  PROVE  Ends(S)[n] <= Ends(S)[Len(S)]
  <1> DEFINE E == Ends(S)
             Below == {d \in Nat : d <= Len(S) => E[Len(S) - d] <= E[Len(S)]}
  <1>1. /\ E \in [0..Len(S) -> Nat]
        /\ \A k \in 1..Len(S) : E[k] = E[k - 1] + Len(S[k])
    BY EndsFacts
  <1> HIDE DEF E
  <1>2. ASSUME NEW d \in Nat, d \in Below
        PROVE  d + 1 \in Below
    <2> SUFFICES ASSUME d + 1 <= Len(S)
                 PROVE  E[Len(S) - (d + 1)] <= E[Len(S)]
      OBVIOUS
    <2> DEFINE k == Len(S) - d
    <2>1. k \in 1..Len(S) /\ k - 1 \in 0..Len(S) /\ Len(S) - (d + 1) = k - 1
      OBVIOUS
    <2>2. E[k] <= E[Len(S)]
      BY <1>2
    <2> HIDE DEF k
    <2>3. S[k] \in Stroke
      BY <2>1
    <2>4. Len(S[k]) \in Nat
      BY <2>3, StrokeFacts
    <2>5. Len(S) \in 0..Len(S)
      OBVIOUS
    <2>6. E[k] = E[k - 1] + Len(S[k]) /\ E[k - 1] \in Nat /\ E[Len(S)] \in Nat
      BY <1>1, <2>1, <2>5
    <2> QED
      BY <2>1, <2>2, <2>4, <2>6
  <1>3. 0 \in Below
    BY <1>1
  <1> HIDE DEF Below
  <1>4. \A d \in Nat : d \in Below
    BY <1>2, <1>3, SetInduction
  <1>5. Len(S) - n \in Below /\ Len(S) - n \in Nat /\ Len(S) - n <= Len(S)
    BY <1>4
  <1>6. Len(S) - (Len(S) - n) = n
    OBVIOUS
  <1> QED
    BY <1>5, <1>6 DEF Below, E

\* Parts that follow each other from index 0 and hold the strokes of S end
\* where these strokes end, wherever they have been drawn.
LEMMA PartsEnd ==
  ASSUME NEW buf, NEW S \in Seq(Stroke), NEW ps \in Seq(Part), NEW n \in Nat,
         Len(ps) <= Len(S), Chained(ps, n), Hold(buf, ps, S)
  PROVE  n = Ends(S)[Len(ps)]
  <1> DEFINE E == Ends(S)
             Ending == {i \in Nat : i <= Len(ps) /\ i # 0 => ps[i][2] = E[i]}
  <1>1. /\ E \in [0..Len(S) -> Nat] /\ E[0] = 0
        /\ \A k \in 1..Len(S) : E[k] = E[k - 1] + Len(S[k])
    BY EndsFacts
  <1> HIDE DEF E
  <1>2. ASSUME NEW i \in Nat, i \in Ending
        PROVE  i + 1 \in Ending
    <2> SUFFICES ASSUME i + 1 <= Len(ps)
                 PROVE  ps[i + 1][2] = E[i + 1]
      OBVIOUS
    <2>1. i + 1 \in 1..Len(ps) /\ i + 1 \in 1..Len(S) /\ (i + 1) - 1 = i
      OBVIOUS
    <2>2. ps[i + 1][1] = E[i]
      <3>1. CASE i = 0
        BY <1>1, <3>1 DEF Chained
      <3>2. CASE i # 0
        <4>1. i \in 1..Len(ps) - 1
          BY <3>2
        <4> QED
          BY <1>2, <3>2, <4>1 DEF Chained
      <3> QED
        BY <3>1, <3>2
    <2>3. ps[i + 1][2] = ps[i + 1][1] + Len(S[i + 1])
      BY <2>1 DEF Hold
    <2> QED
      BY <1>1, <2>1, <2>2, <2>3
  <1>3. 0 \in Ending
    OBVIOUS
  <1> HIDE DEF Ending
  <1>4. \A i \in Nat : i \in Ending
    BY <1>2, <1>3, SetInduction
  <1>5. CASE ps = <<>>
    BY <1>1, <1>5 DEF Chained, E
  <1>6. CASE ps # <<>>
    <2>1. Len(ps) \in Nat /\ Len(ps) # 0
      BY <1>6
    <2>2. ps[Len(ps)][2] = E[Len(ps)]
      BY <1>4, <2>1 DEF Ending
    <2> QED
      BY <1>6, <2>2 DEF Chained, E
  <1> QED
    BY <1>5, <1>6

\* A picture that overflows in a buffer that has been redrawn any number of
\* times, or a static part that does, is too large for an empty buffer.
LEMMA OverflowIsTooLarge ==
  ASSUME IInv, Overflow
  PROVE  ~Fits(IF frame = None THEN BootFrame ELSE frame)
  <1> USE PictureAssumption
  <1> DEFINE f == IF frame = None THEN BootFrame ELSE frame
             E == Ends(Plan)
  <1>1. /\ pen # None /\ out_index \in Nat /\ Capacity \in Nat /\ drawn \in Nat
        /\ parts \in Seq(Part) /\ f \in Frames
        /\ Chained(parts, out_index) /\ Hold(tx_buffer[pen], parts, Plan)
        /\ Len(parts) = Base + drawn /\ drawn <= Len(Strokes)
    BY DEF Overflow, Drawing, Complete, IInv, TypeOK, DrawInv
  <1>2. Plan = Total(f)
    <2>1. CASE frame = None
      BY <2>1 DEF Plan, Total
    <2>2. CASE frame # None
      BY <2>2 DEF Plan
    <2> QED
      BY <2>1, <2>2
  <1>3. Plan \in Seq(Stroke)
    BY <1>1, <1>2, TotalFacts
  <1>4. Len(Plan) = Base + Len(Strokes) /\ Base \in Nat /\ Len(Strokes) \in Nat
    <2>1. CASE frame = None
      BY <2>1 DEF Plan, Base, Strokes
    <2>2. CASE frame # None
      <3>1. f = frame /\ Len(Total(f)) = Len(Face) + Len(Hands[f]) /\ Hands[f] \in Seq(Stroke)
        BY <1>1, <2>2, TotalFacts
      <3> QED
        BY <2>2, <3>1 DEF Plan, Base, Strokes
    <2> QED
      BY <2>1, <2>2
  <1> HIDE DEF f
  <1>5. Len(parts) <= Len(Plan) /\ Len(parts) \in 0..Len(Plan)
    BY <1>1, <1>4
  <1>6. out_index = E[Len(parts)]
    BY <1>1, <1>3, <1>5, PartsEnd
  <1>7. E[Len(Plan)] \in Nat /\ E[Len(parts)] <= E[Len(Plan)]
    <2>1. E \in [0..Len(Plan) -> Nat] /\ Len(Plan) \in 0..Len(Plan)
      BY <1>3, EndsFacts
    <2> QED
      BY <1>3, <1>5, <2>1, EndsGrow
  <1>8. CASE Drawing /\ out_index + Len(NextStroke) > Capacity
    <2>1. Len(parts) + 1 \in 1..Len(Plan) /\ (Len(parts) + 1) - 1 = Len(parts)
      BY <1>1, <1>4, <1>8 DEF Drawing
    <2>2. NextStroke = Plan[Len(parts) + 1]
      BY <1>8, NextStrokeFacts DEF Drawing
    <2>3. E[Len(parts) + 1] = E[Len(parts)] + Len(NextStroke)
      BY <1>3, <2>1, <2>2, EndsFacts
    <2>4. E[Len(parts) + 1] <= E[Len(Plan)]
      BY <1>3, <2>1, EndsGrow
    <2>5. E[Len(parts) + 1] > Capacity
      BY <1>6, <1>8, <2>3
    <2> HIDE DEF E
    <2>6. ~(E[Len(Plan)] < Capacity)
      <3>1. E[Len(parts) + 1] \in Nat
        <4>1. E \in [0..Len(Plan) -> Nat] /\ Len(Plan) \in Nat
          BY <1>3, EndsFacts DEF E
        <4> QED
          BY <2>1, <4>1
      <3> QED
        BY <1>1, <1>7, <2>4, <2>5, <3>1
    <2> QED
      BY <1>2, <2>6 DEF Fits, f, E
  <1>9. CASE Complete /\ frame # None /\ out_index >= Capacity
    <2> HIDE DEF E
    <2>1. ~(E[Len(Plan)] < Capacity)
      BY <1>1, <1>6, <1>7, <1>9
    <2> QED
      BY <1>2, <2>1 DEF Fits, f, E
  <1> QED
    BY <1>8, <1>9 DEF Overflow

\* No other step panics.
LEMMA StepNeverOverflows ==
  IInv /\ NeverOverflows /\ [Next]_vars => NeverOverflows'
  <1> SUFFICES ASSUME IInv, NeverOverflows, [Next]_vars
               PROVE  NeverOverflows'
    OBVIOUS
  <1>1. CASE Overflow
    <2>1. UNCHANGED frame
      BY <1>1 DEF Overflow, pic
    <2> QED
      BY <1>1, <2>1, OverflowIsTooLarge DEF NeverOverflows
  <1>2. CASE UNCHANGED vars
    BY <1>2 DEF vars, pic, NeverOverflows
  <1>3. CASE Next /\ ~Overflow
    <2>1. ~panicked'
      BY <1>3 DEF Next, PrepareStaticPart, DrawDynamicPart, Idle, AddStroke, Drawing,
                  KeepStaticPart, FinishPicture, Complete
    <2> QED
      BY <2>1 DEF NeverOverflows
  <1> QED
    BY <1>1, <1>2, <1>3

\* Every reachable state satisfies the inductive invariant.
THEOREM InvariantHolds == Spec => []IInv
  BY InitIInv, StepIInv, PTL DEF Spec

(***************************************************************************)
(* What follows from it.                                                   *)
(***************************************************************************)

\* Drawing and redrawing keeps every variable in its type and out_index
\* within the buffer.
THEOREM TypeCorrect == Spec => []TypeOK
  BY InvariantHolds, PTL DEF IInv

\* No part that update_frame takes from a finished picture is empty or ends
\* outside the buffer, and there is a first part.
THEOREM Transferable == Spec => []PartsTransferable
  <1>1. IInv => PartsTransferable
    <2> SUFFICES ASSUME IInv, NEW b \in Buffers, pictures[b] # None
                 PROVE  /\ pictures[b].parts # <<>>
                        /\ \A i \in DOMAIN pictures[b].parts :
                             /\ pictures[b].parts[i][1] < pictures[b].parts[i][2]
                             /\ pictures[b].parts[i][2] <= Capacity
      BY DEF PartsTransferable
    <2> DEFINE ps == pictures[b].parts
               f == pictures[b].frame
    <2>1. ps \in Seq(Part) /\ f \in Frames
      BY DEF IInv, TypeOK, FinishedPicture
    <2>2. Len(ps) = Len(Total(f)) /\ Hold(tx_buffer[b], ps, Total(f))
      BY DEF IInv, PicturesInv
    <2> HIDE DEF ps, f
    <2>3. Total(f) \in Seq(Stroke) /\ Len(Total(f)) = Len(Face) + Len(Hands[f])
      BY <2>1, TotalFacts
    <2>4. ps # <<>>
      <3>1. Len(Face) \in Nat /\ Len(Face) > 0 /\ Len(Hands[f]) \in Nat
        BY <2>1, PictureAssumption
      <3> QED
        BY <2>2, <2>3, <3>1
    <2>5. ASSUME NEW i \in 1..Len(ps)
          PROVE  ps[i][1] < ps[i][2] /\ ps[i][2] <= Capacity
      <3>1. ps[i][1] \in Nat /\ Total(f)[i] \in Stroke
        BY <2>1, <2>2, <2>3 DEF Part
      <3>2. Len(Total(f)[i]) \in Nat /\ Len(Total(f)[i]) > 0
        BY <3>1, StrokeFacts
      <3>3. ps[i][2] = ps[i][1] + Len(Total(f)[i]) /\ ps[i][2] <= Capacity
        BY <2>2 DEF Hold
      <3> QED
        BY <3>1, <3>2, <3>3
    <2> QED
      BY <2>1, <2>4, <2>5 DEF ps
  <1> QED
    BY <1>1, InvariantHolds, PTL

\* Under the invariant the parts of a finished picture are its strokes.
LEMMA HeldByInvariant == IInv => PartsHoldStrokes
  <1> SUFFICES ASSUME IInv, NEW b \in Buffers, pictures[b] # None
               PROVE  /\ Len(pictures[b].parts) = Len(Total(pictures[b].frame))
                      /\ \A i \in DOMAIN pictures[b].parts :
                           Slice(tx_buffer[b], pictures[b].parts[i])
                             = Total(pictures[b].frame)[i]
    BY DEF PartsHoldStrokes
  <1> DEFINE ps == pictures[b].parts
             f == pictures[b].frame
  <1>1. ps \in Seq(Part) /\ f \in Frames
    BY DEF IInv, TypeOK, FinishedPicture
  <1>2. Len(ps) = Len(Total(f)) /\ Hold(tx_buffer[b], ps, Total(f))
    BY DEF IInv, PicturesInv
  <1> HIDE DEF ps, f
  <1>3. Total(f) \in Seq(Stroke)
    BY <1>1, TotalFacts
  <1>4. ASSUME NEW i \in 1..Len(ps)
        PROVE  Slice(tx_buffer[b], ps[i]) = Total(f)[i]
    <2> DEFINE s == Total(f)[i]
    <2>1. ps[i][1] \in Nat /\ s \in Stroke
      BY <1>1, <1>2, <1>3 DEF Part
    <2>2. s \in Seq(Samples) /\ Len(s) \in Nat
      BY <2>1, StrokeFacts
    <2>3. /\ ps[i][2] = ps[i][1] + Len(s)
          /\ \A k \in 1..Len(s) : tx_buffer[b][ps[i][1] + k - 1] = s[k]
      BY <1>2 DEF Hold
    <2> HIDE DEF s
    <2>4. ps[i][2] - ps[i][1] = Len(s)
      BY <2>1, <2>2, <2>3
    <2>5. Slice(tx_buffer[b], ps[i]) = [k \in 1..Len(s) |-> s[k]]
      BY <2>3, <2>4 DEF Slice
    <2>6. s = [k \in 1..Len(s) |-> s[k]]
      BY <2>2
    <2> QED
      BY <2>5, <2>6 DEF s
  <1> QED
    BY <1>1, <1>2, <1>4 DEF ps, f

\* Part i of every finished picture is stroke i of the face and the hands:
\* nothing stale, nothing overwritten, in either buffer, after any number of
\* redraws.
THEOREM StrokesHeld == Spec => []PartsHoldStrokes
  BY HeldByInvariant, InvariantHolds, PTL

\* However often the two buffers are redrawn, add_raw_point panics only for
\* a picture that does not fit into an empty buffer: redrawing behind the
\* static part never accumulates anything.
THEOREM OnlyTooLargeOverflows == Spec => []NeverOverflows
  <1>1. Init => NeverOverflows
    BY DEF Init, NeverOverflows
  <1> QED
    BY <1>1, StepNeverOverflows, InvariantHolds, PTL DEF Spec
=============================================================================
