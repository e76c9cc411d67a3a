------------------------------ MODULE MCNtptime ------------------------------
(* Ntptime in ticks of one second, with the loop and buffer sizes of the   *)
(* code.                                                                   *)
EXTENDS Ntptime
=============================================================================
