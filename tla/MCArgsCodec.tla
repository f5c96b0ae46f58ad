---------------------------- MODULE MCArgsCodec -----------------------------
(* Values for model checking ArgsCodec: up to two arguments, strings that    *)
(* are empty, short, or too long for an entry.                               *)
EXTENDS ArgsCodec
=============================================================================
