--------------------------- MODULE MCSourceFetch ---------------------------
(* Values for the model checking of SourceFetch: one URL of each shape;    *)
(* watermarks are asked for under one URL only.                            *)
EXTENDS SourceFetch, TLC

CONSTANTS web, odd, named, junk

MCShapeOf == (web :> "web") @@ (odd :> "odd_port") @@ (named :> "metadata_name")
               @@ (junk :> "malformed")

MCAsked == {c \in Calls : c[1] = "wm" => c[2] = web}
=============================================================================
