----------------------------- MODULE MCLifecycle -----------------------------
(* Lifecycle on a small instance: four commands and two resets reach every   *)
(* order of start, stop, erase, load and "ready".                            *)
EXTENDS Lifecycle
==============================================================================
