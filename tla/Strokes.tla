------------------------------- MODULE Strokes -------------------------------
(***************************************************************************)
(* How src/src/picture.rs turns dots, lines and polygons into the samples  *)
(* that the two 8 bit DACs output.  A point has the full coordinates, a    *)
(* sample is what add_raw_point stores (4 bytes of the buffer).            *)
(***************************************************************************)
EXTENDS Integers, Sequences, SequencesExt

CONSTANT GLOBAL_SCALE  \* samples per point; 2 doubles the DAC's resolution

ASSUME ScaleAssumption == GLOBAL_SCALE \in {1, 2}

U8(n) == n % 256

-----------------------------------------------------------------------------
(* Points to samples                                                       *)

\* The two halves of a coordinate at scale 2: x >> 1 rounds down, the second
\* one up.
FirstHalf(x) == U8(x \div 2)
SecondHalf(x) == IF x % 2 = 1 THEN U8((x + 1) \div 2) ELSE U8(x \div 2)

MaxCoordinate == 510  \* the largest one whose halves fit into a u8

\* add_point
AddPoint(p) ==
  IF GLOBAL_SCALE = 2
  THEN << <<FirstHalf(p[1]), FirstHalf(p[2])>>, <<SecondHalf(p[1]), SecondHalf(p[2])>> >>
  ELSE << <<U8(p[1]), U8(p[2])>> >>

AddPoints(ps) ==
  [k \in 1..GLOBAL_SCALE * Len(ps) |->
     AddPoint(ps[(k - 1) \div GLOBAL_SCALE + 1])[((k - 1) % GLOBAL_SCALE) + 1]]

-----------------------------------------------------------------------------
(* Lines to points                                                         *)

Sign(d) == IF d < 0 THEN -1 ELSE 1
Abs(d) == Sign(d) * d
Longer(m, n) == IF m < n THEN n ELSE m

\* The crate's iterator stops one step short of b: it is the first point of
\* the next line.
Bresenham(a, b) ==
  LET dx == b[1] - a[1]
      dy == b[2] - a[2]
      major == Longer(Abs(dx), Abs(dy))
      Moved(d, i) == Sign(d) * ((i * Abs(d)) \div major)
  IN [i \in 1..major |-> <<a[1] + Moved(dx, i - 1), a[2] + Moved(dy, i - 1)>>]

\* closed_polygon_to_lines: the second iterator falls back to the first point;
\* the mutant falls back to the last one, which closes nothing.
ClosesOnLast(points, i) == IF i < Len(points) THEN points[i + 1] ELSE points[Len(points)]
Successor(points, i) == IF i < Len(points) THEN points[i + 1] ELSE points[1]
ClosedPolygonToLines(points) ==
  [i \in 1..Len(points) |-> <<points[i], Successor(points, i)>>]

\* open_polygon_to_lines; the mutant pairs the points up instead of chaining
\* them (second.next() called once too often).
Pairs(points) == [i \in 1..Len(points) \div 2 |-> <<points[2 * i - 1], points[2 * i]>>]
OpenPolygonToLines(points) ==
  [i \in 1..Longer(Len(points) - 1, 0) |-> <<points[i], points[i + 1]>>]

\* The points of a chain of lines.
Trace(lines) == FlattenSeq([i \in DOMAIN lines |-> Bresenham(lines[i][1], lines[i][2])])

-----------------------------------------------------------------------------
(* The strokes: the samples of one part of the picture.                    *)

AddDot2(p, exposure) == AddPoints([i \in 1..exposure |-> p])
AddLine(a, b) == AddPoints(Bresenham(a, b))
AddClosedPolygon(points) == AddPoints(Trace(ClosedPolygonToLines(points)))
AddOpenPolygon(points) == AddPoints(Trace(OpenPolygonToLines(points)))

\* A double circle goes round its nodes (see CircleNodes in ClockFace) twice.
AddDoubleCircle(nodes) == AddClosedPolygon(nodes \o nodes)

\* draw_font: one part for every line of the pictogram.
DrawFont(lines) == [i \in DOMAIN lines |-> AddOpenPolygon(lines[i])]
=============================================================================
