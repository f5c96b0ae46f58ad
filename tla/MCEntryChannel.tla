--------------------------- MODULE MCEntryChannel ---------------------------
(* Values for model checking EntryChannel: entries of 2 and 3 bytes whose    *)
(* first two bytes are the length, in rings of 4 and 8 bytes.                *)
EXTENDS EntryChannel
=============================================================================
