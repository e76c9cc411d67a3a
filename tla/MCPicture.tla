----------------------------- MODULE MCPicture -----------------------------
(***************************************************************************)
(* Picture with a tiny clock face, made of the same kinds of strokes as    *)
(* the real one, and a buffer that one of the times just fills.            *)
(***************************************************************************)
EXTENDS Picture

Draw == INSTANCE Strokes WITH GLOBAL_SCALE <- 2

CONSTANTS b1, b2, no_time, am, date1, date2, too_long

MCSamples == (0..255) \X (0..255)
MCRestPoint == <<0, 0>>

\* A bezel and the dot of a minute.
MCFace == << Draw!AddDoubleCircle(<< <<9, 10>>, <<10, 9>> >>), Draw!AddDot2(<<12, 10>>, 3) >>

\* The three hands at a time that is n steps on ...
MCHands(n) ==
  << Draw!AddLine(<<10, 10>>, <<10 + n, 13>>),
     Draw!AddClosedPolygon(<< <<10, 10>>, <<11, 10 + n>> >>),
     Draw!AddClosedPolygon(<< <<10, 11>>, <<10 + n, 10>>, <<10, 10>> >>) >>

\* ... with AM or with a date of two digits and a month.
Glyph(n) == Draw!DrawFont(<< << <<7, 7>>, <<7 + n, 7>> >> >>)
MCFrames ==
  [ f \in {no_time, am, date1, date2, too_long} |->
      IF f = no_time THEN <<>>
      ELSE IF f = am THEN MCHands(1) \o Glyph(3)
      ELSE IF f = date1 THEN MCHands(2) \o Glyph(3) \o Glyph(3) \o Glyph(2)
      ELSE IF f = date2 THEN MCHands(3) \o Glyph(2) \o Glyph(1) \o Glyph(2)
      ELSE MCHands(3) \o Glyph(3) \o Glyph(3) \o Glyph(3) ]

\* All pictures but the one that is too long fit, and the largest of them
\* fills the buffer with its rest point.
MCCapacity ==
  LET strokes == MCFace \o MCFrames[date2] IN Ends(strokes)[Len(strokes)] + 1
=============================================================================
