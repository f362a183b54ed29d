-------------------------- MODULE MCTransformCache --------------------------
(* Values for the model checking of TransformCache. *)
EXTENDS TransformCache, TLC

CONSTANTS t1, t2, v1, v2, k1, k2, n1, n2

MCSizeOf == (v1 :> 1) @@ (v2 :> 2)
MCNameOf == (t1 :> n1) @@ (t2 :> n2)
=============================================================================
