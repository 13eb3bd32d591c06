-------------------------- MODULE MCFilterRegistry --------------------------
(* Model-checking instance of FilterRegistry.                              *)
EXTENDS FilterRegistry

CONSTANTS h1, h2, h3, f1, f2
=============================================================================
