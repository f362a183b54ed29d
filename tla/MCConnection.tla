---------------------------- MODULE MCConnection ----------------------------
(* Values for the model checking of Connection. *)
EXTENDS Connection

Plain == [head |-> 1, body |-> 0, twin |-> FALSE, bad |-> FALSE, multipart |-> FALSE, close |-> FALSE]

\* A short request, one at the header limit with a body that looks like a
\* request, an upload, one that asks to close, a malformed one, and ones with
\* too long a header or body.
MCRequests ==
  {Plain,
   [Plain EXCEPT !.head = 2, !.body = 2, !.twin = TRUE],
   [Plain EXCEPT !.body = 4, !.twin = TRUE, !.multipart = TRUE],
   [Plain EXCEPT !.close = TRUE],
   [Plain EXCEPT !.bad = TRUE],
   [Plain EXCEPT !.head = 3],
   [Plain EXCEPT !.body = 3]}

MCPlans == UNION {[1..n -> MCRequests] : n \in 1..3}
=============================================================================
