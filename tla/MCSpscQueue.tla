---------------------------- MODULE MCSpscQueue -----------------------------
(* Values for model checking SpscQueue, and the mutants of its operators. *)
EXTENDS SpscQueue
=============================================================================
