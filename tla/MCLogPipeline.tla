--------------------------- MODULE MCLogPipeline ----------------------------
(* Values for model checking LogPipeline: entries of 1 to 3 bytes in a queue *)
(* of 4, so that a few calls of log() fill it.                               *)
EXTENDS LogPipeline
=============================================================================
