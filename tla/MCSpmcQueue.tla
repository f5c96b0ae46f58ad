---------------------------- MODULE MCSpmcQueue -----------------------------
(* Values for model checking SpmcQueue: one consumer, or two. *)
EXTENDS SpmcQueue

CONSTANTS c1, c2
OneOrTwo == {{c1}, {c1, c2}}
OnlyTwo  == {{c1, c2}}
=============================================================================
