------------------------------- MODULE MCFifo -------------------------------
(* Fifo for TLC; the bounds are in the configurations. The writer may stop, *)
(* and then a reader may wait for ever.                                     *)
EXTENDS FifoProperties

CONSTANTS a, b, c
=============================================================================
