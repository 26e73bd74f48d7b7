------------------------------ MODULE MCNvStore ------------------------------
(* NvStore on a small instance: two contents, so that a file and its backup  *)
(* may differ.                                                              *)
EXTENDS NvStore

CONSTANTS d1, d2

MCData == {d1, d2}
==============================================================================
