--------------------------- MODULE MCRequestQueue ---------------------------
(* The ring of the code, 5 slots: pushes wrap head and tail and find the queue full. *)
EXTENDS RequestQueue

CONSTANT a

MCDest == {0, 1}
MCBuffer == {a}
=============================================================================
