----------------------------- MODULE MCShutdown -----------------------------
(* Values for model checking Shutdown: two threads, the second of which uses *)
(* the static logger.                                                        *)
EXTENDS Shutdown
=============================================================================
