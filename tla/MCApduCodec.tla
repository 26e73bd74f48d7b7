----------------------------- MODULE MCApduCodec -----------------------------
(* ApduCodec on small buffers.  Two commands show what the second answer     *)
(* finds in the buffer; a longest answer just fills a segment.               *)
EXTENDS ApduCodec

MCBytes == {0, 1, 255}
==============================================================================
