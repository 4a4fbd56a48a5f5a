---------------------------- MODULE MCHdRequests ----------------------------
(* Model checking of HdRequests with a few requests, alike but for type.     *)
EXTENDS HdRequests, TLC

Symmetry == Permutations(Requests)
=============================================================================
