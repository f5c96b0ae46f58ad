------------------------------ MODULE MCSinks -------------------------------
(***************************************************************************)
(* The two kinds of sinks that keep what they are given, one at a time:    *)
(* file sinks with a buffer of two bytes and lines of one to four, the     *)
(* last longer than any array; and two standard output sinks with a buffer *)
(* of two bytes, one of them coloured, beside one without a buffer.        *)
(***************************************************************************)
EXTENDS FileSink, StdoutSink

VARIABLE running
vars == <<running, fileSinkVars, stdoutVars>>

Init == running \in {"file", "stdout"} /\ FileSinkInit /\ StdoutInit

FileStep == running = "file" /\ FileSinkNext /\ UNCHANGED <<running, stdoutVars>>
StdoutStep == running = "stdout" /\ StdoutNext /\ UNCHANGED <<running, fileSinkVars>>

Next == FileStep \/ StdoutStep

Spec == Init /\ [][Next]_vars
=============================================================================
