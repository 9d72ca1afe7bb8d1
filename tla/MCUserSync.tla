------------------------------- MODULE MCUserSync -------------------------------
(* Instances of UserSync for TLC.  Deliveries, and requests, are alike.          *)
EXTENDS UserSync, TLC

Symmetry == Permutations(Delivery) \cup Permutations(Request)
================================================================================
