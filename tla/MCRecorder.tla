------------------------------ MODULE MCRecorder ------------------------------
(***************************************************************************)
(* Recorder with cameras whose clock is behind the server's, the same, or  *)
(* ahead of it.                                                            *)
(***************************************************************************)
EXTENDS Recorder

ClocksApart == {-1, 0, 1}
===============================================================================
