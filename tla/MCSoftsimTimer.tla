---------------------------- MODULE MCSoftsimTimer ----------------------------
(* SoftsimTimer on a small instance: a pipe of two that the callback fills.  *)
EXTENDS SoftsimTimer
==============================================================================
