--------------------------- MODULE MCHealthCache ---------------------------
(* Values for the model checking of HealthCache. *)
EXTENDS HealthCache

CONSTANTS t1, t2

\* Memory, where more is worse, and disk space, where less is, the latter also
\* with a margin that is not a number.
MCResources == {[higher |-> TRUE, threshold |-> 2, recovery |-> 1],
                [higher |-> FALSE, threshold |-> 1, recovery |-> 1],
                [higher |-> FALSE, threshold |-> 2, recovery |-> 0]}
=============================================================================
