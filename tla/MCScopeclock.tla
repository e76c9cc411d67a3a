---------------------------- MODULE MCScopeclock ----------------------------
(* Scopeclock with two buffers, the boot face and two dated faces.         *)
EXTENDS Scopeclock, TLC

CONSTANTS b1, b2, face, time1, time2

\* Faces with two lines, with one, and with two again: a part count that
\* differs between the picture on the screen and the next one.
MCParts == (face :> 2) @@ (time1 :> 1) @@ (time2 :> 2)
=============================================================================
