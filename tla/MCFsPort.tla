------------------------------- MODULE MCFsPort -------------------------------
(* FsPort on small files: with turns of 2 bytes a read of up to 5 bytes      *)
(* takes up to 3, ends on a turn or within one, before, at or behind the end *)
(* of the file.                                                             *)
EXTENDS FsPort

CONSTANTS a, b

MCNames == {a, b}
MCData  == {0, 1}
==============================================================================
