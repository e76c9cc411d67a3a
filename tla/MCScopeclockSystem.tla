-------------------------- MODULE MCScopeclockSystem --------------------------
(***************************************************************************)
(* ScopeclockSystem with samples that name the stroke they belong to, a    *)
(* face of one stroke, two times with one and two hands, and one that has  *)
(* more samples than a buffer can hold.                                    *)
(***************************************************************************)
EXTENDS ScopeclockSystem

CONSTANTS b1, b2, no_time, time1, time2, too_long

MCSamples == {"rest", "face", "h1", "h2a", "h2b"}
MCFace == << <<"face">> >>
MCHands ==
  [f \in Frames |->
     CASE f = no_time -> <<>>
       [] f = time1 -> << <<"h1">> >>
       [] f = time2 -> << <<"h2a", "h2a">>, <<"h2b">> >>
       [] f = too_long -> << <<"h1">>, <<"h2a", "h2a">>, <<"h2b">> >>]
=============================================================================
