--------------------------- MODULE MCStateManager ---------------------------
(* Model-checking instances of StateManager.                               *)
EXTENDS StateManager

CONSTANTS a1, a2, k1, k2, w1, w2, c1
=============================================================================
