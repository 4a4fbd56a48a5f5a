--------------------------- MODULE MCCyclicBuffer ---------------------------
(* Model checking of CyclicBuffer with a small power of two for Size.       *)
EXTENDS CyclicBuffer
=============================================================================
