---------------------------- MODULE MCReaderTable ----------------------------
(* Small instances of ReaderTable for TLC. *)
EXTENDS ReaderTable

Pids == {1, 2}
=============================================================================
