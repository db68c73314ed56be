------------------------------- MODULE MCUart -------------------------------
(* Uart on small instances.                                                 *)
EXTENDS Uart
=============================================================================
