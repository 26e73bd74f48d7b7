------------------------------ MODULE MCStartup ------------------------------
(* Startup on a small instance: three requests are a reset, an APDU and one  *)
(* more that finds what the others have left behind.                         *)
EXTENDS Startup
==============================================================================
