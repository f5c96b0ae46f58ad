--------------------------- MODULE MCSharedLogger ---------------------------
(* Values for model checking SharedLogger: two threads and two slots.        *)
EXTENDS SharedLogger

CONSTANTS t1, t2
=============================================================================
