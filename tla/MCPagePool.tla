------------------------------ MODULE MCPagePool ------------------------------
(* Values of the constants of PagePool for TLC: the workers are model values.  *)
EXTENDS PagePool

CONSTANTS w1, w2
=============================================================================
