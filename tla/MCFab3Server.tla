---------------------------- MODULE MCFab3Server ----------------------------
(* A model-checking instance of Fab3Server.                                *)
EXTENDS Fab3Server
=============================================================================
