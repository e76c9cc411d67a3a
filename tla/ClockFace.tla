------------------------------- MODULE ClockFace -------------------------------
(***************************************************************************)
(* What src/src/analog_clock_face.rs draws: the static face, and at a      *)
(* local time the hands and a label (AM, PM or the date) opposite to them. *)
(* The strokes are Picture's Face and Hands; Strokes makes samples of them.*)
(* Sines and font points are integers in 1/UNIT.  Where the exact          *)
(* coordinate is an integer, the rounding noise of f32 may put it one      *)
(* pixel off; no property below hangs on one pixel of a hand.              *)
(***************************************************************************)
EXTENDS ClockHands, Strokes, Font

CONSTANT
  TxBytes       \* the length of a tx_buffer

-----------------------------------------------------------------------------
(* Rounding: roundf, ceilf and "as isize" of n / unit                      *)

Round(n, unit) == Sign(n) * ((Abs(n) + unit \div 2) \div unit)
Ceil(n, unit) == -((-n) \div unit)
Truncate(n, unit) == Sign(n) * (Abs(n) \div unit)

-----------------------------------------------------------------------------
(* libm: the sine, by its values at full degrees                           *)

Degree == 500
Sines == <<
  0, 175, 349, 523, 698, 872, 1045, 1219, 1392, 1564, 1736, 1908, 2079, 2250,
  2419, 2588, 2756, 2924, 3090, 3256, 3420, 3584, 3746, 3907, 4067, 4226,
  4384, 4540, 4695, 4848, 5000, 5150, 5299, 5446, 5592, 5736, 5878, 6018,
  6157, 6293, 6428, 6561, 6691, 6820, 6947, 7071, 7193, 7314, 7431, 7547,
  7660, 7771, 7880, 7986, 8090, 8192, 8290, 8387, 8480, 8572, 8660, 8746,
  8829, 8910, 8988, 9063, 9135, 9205, 9272, 9336, 9397, 9455, 9511, 9563,
  9613, 9659, 9703, 9744, 9781, 9816, 9848, 9877, 9903, 9925, 9945, 9962,
  9976, 9986, 9994, 9998, 10000, 9998 >>

\* The first quadrant mirrored and turned into the others.
SinUp(a) == Sines[a \div Degree + 1]
            + ((Sines[a \div Degree + 2] - Sines[a \div Degree + 1]) * (a % Degree)) \div Degree
SinHalf(a) == SinUp(IF 2 * a <= Circle \div 2 THEN a ELSE Circle \div 2 - a)
Sin(phi) == LET a == phi % Circle IN
  IF a < Circle \div 2 THEN SinHalf(a) ELSE -SinHalf(a - Circle \div 2)
Cos(phi) == Sin(phi + Circle \div 4)

\* sqrtf, rounded down: the root of a quarter doubled, or one more.
Sqrt[n \in Nat] ==
  IF n = 0 THEN 0
  ELSE LET r == 2 * Sqrt[n \div 4]
       IN IF (r + 1) * (r + 1) <= n THEN r + 1 ELSE r

-----------------------------------------------------------------------------
(* Radial coordinates; phi = 0 is north, it grows clockwise                *)

Center == 130 * GLOBAL_SCALE

radial_to_cartesian(phi, radius) ==
  <<Ceil(Sin(phi) * radius, UNIT) + Center, Ceil(Cos(phi) * radius, UNIT) + Center>>

\* add_circle and add_double_circle: nodes in so many rounds, and the radius
\* in halves.
CircleNodes(center, halves, nodes, rounds) ==
  LET Node(phi) == << Round(2 * UNIT * center[1] + Sin(phi) * halves, 2 * UNIT),
                      Round(2 * UNIT * center[2] + Cos(phi) * halves, 2 * UNIT) >>
  IN [i \in 1..nodes * rounds |-> Node((i - 1) * (Circle \div nodes))]

-----------------------------------------------------------------------------
(* Strokes: what one call of add_... draws, one part of the picture        *)

\* add_dot2; the mutant counts its exposure in bytes of the buffer.
ExposedInBytes(p, exposure) == [kind |-> "dot", points |-> <<p>>, exposure |-> 4 * exposure]
Dot(p, exposure) == [kind |-> "dot", points |-> <<p>>, exposure |-> exposure]
Line(a, b) == [kind |-> "line", points |-> <<a, b>>]
Closed(ps) == [kind |-> "closed", points |-> ps]
Open(ps) == [kind |-> "open", points |-> ps]

SamplesOf(s) ==
  CASE s.kind = "dot"    -> AddDot2(s.points[1], s.exposure)
    [] s.kind = "line"   -> AddLine(s.points[1], s.points[2])
    [] s.kind = "closed" -> AddClosedPolygon(s.points)
    [] s.kind = "open"   -> AddOpenPolygon(s.points)

-----------------------------------------------------------------------------
(* draw_static_clock_face                                                  *)

\* A pictogram at p: 9 units are truncated, Y is mirrored.  The mutant
\* truncates the point of the font before it scales it.
TruncatedFirst(number, p) ==
  LET drawing == FONT(number)
      Place(q) == << Truncate(q[1], UNIT) * 9 * GLOBAL_SCALE + p[1],
                     Truncate(-q[2], UNIT) * 9 * GLOBAL_SCALE + p[2] >>
  IN [n \in DOMAIN drawing |-> Open([k \in DOMAIN drawing[n] |-> Place(drawing[n][k])])]
Numeral(number, p) ==
  LET drawing == FONT(number)
      Place(q) == << Truncate(q[1] * 9 * GLOBAL_SCALE, UNIT) + p[1],
                     Truncate(-q[2] * 9 * GLOBAL_SCALE, UNIT) + p[2] >>
  IN [n \in DOMAIN drawing |-> Open([k \in DOMAIN drawing[n] |-> Place(drawing[n][k])])]

Mark(i) ==
  LET phi == i * (Circle \div 60)
      outer == radial_to_cartesian(phi, 88 * GLOBAL_SCALE)
      outer_number == radial_to_cartesian(phi, 108 * GLOBAL_SCALE)
  IN IF i % 5 = 0
     THEN <<Closed(CircleNodes(outer, 5 * GLOBAL_SCALE, 8, 2))>>
          \o Numeral(NumberAt(i), outer_number)
     ELSE <<Dot(outer, 14)>>

draw_static_clock_face ==
  << Closed(CircleNodes(<<Center, Center>>, 250 * GLOBAL_SCALE, 40, 1)),
     Closed(CircleNodes(<<Center, Center>>, 20 * GLOBAL_SCALE, 10, 1)) >>
  \o FlattenSeq([i \in 1..60 |-> Mark(i - 1)])

-----------------------------------------------------------------------------
(* draw_dynamic_parts: the hands                                           *)

Tenth == 2865  \* 0.1 of a radian

Hand(phi, inner, width, spread, outer) ==
  Closed(<< radial_to_cartesian(phi, inner * GLOBAL_SCALE),
            radial_to_cartesian(phi - spread, width * GLOBAL_SCALE),
            radial_to_cartesian(phi, outer * GLOBAL_SCALE),
            radial_to_cartesian(phi + spread, width * GLOBAL_SCALE) >>)

Hands(t) ==
  << Line(radial_to_cartesian(seconds_phi(t), 16 * GLOBAL_SCALE - 1),
          radial_to_cartesian(seconds_phi(t), 96 * GLOBAL_SCALE - 1)),
     Hand(minutes_phi(t), 16, 40, Tenth, 80),
     Hand(hours_phi(t), 16, 32, 3 * Tenth, 64) >>

-----------------------------------------------------------------------------
(* draw_dynamic_parts: the label                                           *)

\* The directions of the hour and of the minute hand, added and reversed;
\* the mutant forgets the minute hand.
BehindHourHand(t) == << -Sin(hours_phi(t)), -Cos(hours_phi(t)) >>
Away(t) == << -Sin(hours_phi(t)) - Sin(minutes_phi(t)),
              -Cos(hours_phi(t)) - Cos(minutes_phi(t)) >>

\* The label on its circle.
At(v, length) == << Truncate(45 * GLOBAL_SCALE * v[1], length) + Center,
                    Truncate(45 * GLOBAL_SCALE * v[2], length) + Center >>

\* Where the label may be.  If the hands are exactly opposite to each other
\* the sum cancels: f32 leaves a tiny vector of any direction, or a zero one,
\* whose quotient is NaN and is cast to 0.
LabelPlaces(t) ==
  LET away == Away(t)
      length == Sqrt[away[1] * away[1] + away[2] * away[2]]
  IN IF length > 0 THEN {At(away, length)}
     ELSE { <<Center, Center>> }
          \union { At(<<Sin(phi), Cos(phi)>>, UNIT) : phi \in {(Circle \div 8) * i : i \in 0..7} }

\* draw_font at scale 7.5, rounded.
DrawPictogram(index, x, y) ==
  LET drawing == FONT(index)
      Place(q) == << Round(q[1] * 75 * GLOBAL_SCALE, 10 * UNIT) + x,
                     Round(-q[2] * 75 * GLOBAL_SCALE, 10 * UNIT) + y >>
  IN [n \in DOMAIN drawing |-> Open([k \in DOMAIN drawing[n] |-> Place(drawing[n][k])])]

ShowDate(t) == t.second % 10 >= 5

\* What is at place p: day and month, or AM or PM.
Label(t, p) ==
  IF ShowDate(t)
  THEN DrawPictogram(t.day \div 10, p[1] - 40, p[2] + 15)
       \o DrawPictogram(t.day % 10, p[1] - 10, p[2] + 15)
       \o DrawPictogram(t.month, p[1] + 25, p[2] - 15)
  ELSE DrawPictogram(IF hour12(t).pm THEN 14 ELSE 13, p[1], p[2])

-----------------------------------------------------------------------------
VARIABLE
  place        \* translate_x and translate_y of its label

vars == <<local_time, place>>

Init ==
  /\ TimeInit
  /\ place \in LabelPlaces(local_time)

\* draw_dynamic_parts, some time later.
DrawDynamicParts(d) ==
  /\ TimePasses(d)
  /\ place' \in LabelPlaces(local_time')

Next == \E d \in Later : DrawDynamicParts(d)

Spec == Init /\ [][Next]_vars

-----------------------------------------------------------------------------
(* Properties                                                              *)

Screen == (0..255 * GLOBAL_SCALE) \X (0..255 * GLOBAL_SCALE)

\* The samples of the whole picture, stroke by stroke.
StaticSamples == [n \in DOMAIN draw_static_clock_face |-> SamplesOf(draw_static_clock_face[n])]
DynamicParts == Hands(local_time) \o Label(local_time, place)
DynamicSamples == [n \in DOMAIN DynamicParts |-> SamplesOf(DynamicParts[n])]

Count(samples) == Len(FlattenSeq(samples))
StaticCount == Count(StaticSamples)

\* At no time of any day does a picture, with its rest point, need more than
\* a DMA buffer: add_raw_point never panics.
PictureFits == 4 * (StaticCount + Count(DynamicSamples) + 1) <= TxBytes

\* What must hold for a stroke and its samples, for all strokes of a picture.
EachStroke(Holds(_, _), strokes, samples) ==
  \A n \in DOMAIN strokes : Holds(strokes[n], samples[n])
EachDynamic(Holds(_, _)) == EachStroke(Holds, DynamicParts, DynamicSamples)

\* No stroke is empty (update_frame could not send [0..4] of it), and every
\* corner of it is on the screen: what is cast to u16 is not negative, and
\* its halves fit into the u8 of a DAC.
Drawable(stroke, samples) ==
  samples # <<>> /\ \A k \in DOMAIN stroke.points : stroke.points[k] \in Screen
StaticDrawable == EachStroke(Drawable, draw_static_clock_face, StaticSamples)
PartsDrawable == StaticDrawable /\ EachDynamic(Drawable)

\* Within a part, where the beam is lit, it moves by at most one step of each
\* DAC from sample to sample, over the corners of a polygon and over the
\* dithered halves of a point; a closed one ends next to where it began.
Near(a, b) == Longer(Abs(a[1] - b[1]), Abs(a[2] - b[2])) <= 1
Smooth(stroke, samples) ==
  /\ \A k \in 1..Len(samples) - 1 : Near(samples[k], samples[k + 1])
  /\ stroke.kind = "closed" /\ samples # <<>> => Near(samples[1], samples[Len(samples)])
StaticSmooth == EachStroke(Smooth, draw_static_clock_face, StaticSamples)
LitBeamNeverJumps == StaticSmooth /\ EachDynamic(Smooth)

\* A stroke visits each of its points, only an open one not its last.
Visits(samples, p) ==
  \E k \in 0..Len(samples) - GLOBAL_SCALE :
    SubSeq(samples, k + 1, k + GLOBAL_SCALE) = AddPoint(p)
Complete(stroke, samples) ==
  \A k \in 1..Len(stroke.points) - (IF stroke.kind \in {"line", "open"} THEN 1 ELSE 0) :
    Visits(samples, stroke.points[k])
StaticComplete == EachStroke(Complete, draw_static_clock_face, StaticSamples)
VerticesVisited == StaticComplete /\ EachDynamic(Complete)

\* "put the AM/PM at exactly the opposite center of the hours and minute
\* hand": the label is off the center by its radius and on the side away
\* from either hand.
Dot2(v, w) == v[1] * w[1] + v[2] * w[2]
LabelOpposite ==
  LET v == <<place[1] - Center, place[2] - Center>>
      radius == 45 * GLOBAL_SCALE
  IN /\ Dot2(v, v) >= (radius - 2) * (radius - 2)
     /\ \A phi \in {hours_phi(local_time), minutes_phi(local_time)} :
          Dot2(v, <<Sin(phi), Cos(phi)>>) <= 2 * UNIT

\* The same, but for the moment of each hour when the hands point in exactly
\* opposite directions and there is no such side.  Within a degree of it the
\* vector is so short that the rounding of Sines turns it.
Opposed(t) == Abs(Turn(hours_phi(t), minutes_phi(t)) - Circle \div 2) <= Degree
LabelClearOfHands == ~Opposed(local_time) => LabelOpposite
=============================================================================
