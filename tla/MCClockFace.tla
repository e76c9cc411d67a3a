------------------------------ MODULE MCClockFace ------------------------------
(* ClockFace through whole days.  The eighth of October has the largest     *)
(* pictograms of all dates.                                                *)
EXTENDS ClockFace

MCDates == { <<8, 10>>, <<26, 12>> }
=============================================================================
