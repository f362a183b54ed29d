------------------------- MODULE MCServerLifecycle -------------------------
(* Values for the model checking of ServerLifecycle. *)
EXTENDS ServerLifecycle

CONSTANTS c1, c2
=============================================================================
